---------------------------- MODULE ChannelLemmas ----------------------------
(***************************************************************************)
(* Facts about the sequences a receiving link keeps: the queue of the      *)
(* link (a VecDeque) followed by the Transfers still in the session's      *)
(* input.  handle_transfer moves the head of the input to the back of the  *)
(* queue, poll pops the front of the queue, and the peer appends to the    *)
(* input; these lemmas say what each move does to the concatenation.       *)
(***************************************************************************)
EXTENDS Integers, Sequences, SequenceTheorems, TLAPS

(* The peer's send: appending to the input appends to the concatenation. *)
LEMMA ConcatAppend ==
  ASSUME NEW S, NEW q \in Seq(S), NEW t \in Seq(S), NEW x \in S
  PROVE  q \o Append(t, x) = Append(q \o t, x)
<1>1. Append(t, x) = t \o <<x>> /\ Append(q \o t, x) = (q \o t) \o <<x>>
  BY AppendIsConcat, ConcatProperties
<1>2. <<x>> \in Seq(S)
  OBVIOUS
<1>3. QED
  BY <1>1, <1>2, ConcatAssociative

(* handle_transfer: moving the head of the input to the back of the      *)
(* queue leaves the concatenation as it was.                               *)
LEMMA MoveHead ==
  ASSUME NEW S, NEW q \in Seq(S), NEW t \in Seq(S), t # <<>>
  PROVE  Append(q, Head(t)) \o Tail(t) = q \o t
<1> DEFINE l == Append(q, Head(t)) \o Tail(t)
           r == q \o t
<1>1. Head(t) \in S /\ Tail(t) \in Seq(S) /\ Len(Tail(t)) = Len(t) - 1
      /\ \A i \in 1 .. Len(Tail(t)) : Tail(t)[i] = t[i + 1]
  BY HeadTailProperties
<1>2. Append(q, Head(t)) \in Seq(S) /\ Len(Append(q, Head(t))) = Len(q) + 1
      /\ \A i \in 1 .. Len(q) : Append(q, Head(t))[i] = q[i]
      /\ Append(q, Head(t))[Len(q) + 1] = Head(t)
  BY <1>1, AppendProperties
<1>3. l \in Seq(S) /\ r \in Seq(S) /\ Len(l) = Len(r)
  BY <1>1, <1>2, ConcatProperties
<1>4. \A i \in 1 .. Len(l) : l[i] = r[i]
  <2> SUFFICES ASSUME NEW i \in 1 .. Len(l) PROVE l[i] = r[i]
    OBVIOUS
  <2>1. Len(l) = Len(q) + Len(t) /\ Len(t) \in Nat /\ Len(q) \in Nat
    BY <1>1, <1>2, ConcatProperties
  <2>2. l[i] = IF i <= Len(q) + 1 THEN Append(q, Head(t))[i]
                                  ELSE Tail(t)[i - (Len(q) + 1)]
    BY <1>1, <1>2, <2>1, ConcatProperties
  <2>3. r[i] = IF i <= Len(q) THEN q[i] ELSE t[i - Len(q)]
    BY <2>1, ConcatProperties
  <2>4. Head(t) = t[1]
    OBVIOUS
  <2>5. QED
    BY <1>1, <1>2, <2>1, <2>2, <2>3, <2>4
<1>5. QED
  BY <1>3, <1>4, SeqEqual

(* poll: popping the front of a non-empty queue pops the front of the    *)
(* concatenation.                                                          *)
LEMMA PopFront ==
  ASSUME NEW S, NEW q \in Seq(S), NEW t \in Seq(S), q # <<>>
  PROVE  /\ q \o t # <<>>
         /\ Head(q \o t) = Head(q)
         /\ Tail(q \o t) = Tail(q) \o t
<1>1. Tail(q) \in Seq(S) /\ Len(Tail(q)) = Len(q) - 1
      /\ \A i \in 1 .. Len(Tail(q)) : Tail(q)[i] = q[i + 1]
      /\ Len(q) \in Nat \ {0}
  BY HeadTailProperties, EmptySeq
<1>2. q \o t \in Seq(S) /\ Len(q \o t) = Len(q) + Len(t)
      /\ \A i \in 1 .. Len(q) + Len(t) :
           (q \o t)[i] = IF i <= Len(q) THEN q[i] ELSE t[i - Len(q)]
  BY ConcatProperties
<1>3. q \o t # <<>>
  BY <1>1, <1>2, EmptySeq
<1>4. Head(q \o t) = Head(q)
  BY <1>1, <1>2
<1>5. Tail(q \o t) = Tail(q) \o t
  <2> DEFINE l == Tail(q \o t)
             r == Tail(q) \o t
  <2>1. l \in Seq(S) /\ Len(l) = Len(q) + Len(t) - 1
        /\ \A i \in 1 .. Len(l) : l[i] = (q \o t)[i + 1]
    BY <1>2, <1>3, HeadTailProperties
  <2>2. r \in Seq(S) /\ Len(r) = Len(q) - 1 + Len(t)
        /\ \A i \in 1 .. Len(r) :
             r[i] = IF i <= Len(q) - 1 THEN Tail(q)[i] ELSE t[i - (Len(q) - 1)]
    BY <1>1, ConcatProperties
  <2>3. \A i \in 1 .. Len(l) : l[i] = r[i]
    BY <1>1, <1>2, <2>1, <2>2
  <2>4. QED
    BY <2>1, <2>2, <2>3, SeqEqual
<1>6. QED
  BY <1>3, <1>4, <1>5

(* The Transfers 1 .. k, in order, form a sequence of length k. *)
LEMMA SerialSeq ==
  ASSUME NEW k \in Nat
  PROVE  [i \in 1 .. k |-> i] \in Seq(Nat) /\ Len([i \in 1 .. k |-> i]) = k
<1>1. [i \in 1 .. k |-> i] \in Seq(Nat)
  BY SeqDef
<1>2. QED
  BY <1>1

(* The Transfers 1 .. k, in order, followed by Transfer k + 1. *)
LEMMA AppendSerial ==
  ASSUME NEW k \in Nat
  PROVE  Append([i \in 1 .. k |-> i], k + 1) = [i \in 1 .. k + 1 |-> i]
<1>1. [i \in 1 .. k |-> i] \in Seq(Nat) /\ [i \in 1 .. k + 1 |-> i] \in Seq(Nat)
  BY SeqDef
<1>2. Len([i \in 1 .. k |-> i]) = k /\ Len([i \in 1 .. k + 1 |-> i]) = k + 1
  BY <1>1
<1>3. Append([i \in 1 .. k |-> i], k + 1) \in Seq(Nat)
      /\ Len(Append([i \in 1 .. k |-> i], k + 1)) = k + 1
      /\ \A i \in 1 .. k + 1 : Append([j \in 1 .. k |-> j], k + 1)[i] = i
  BY <1>1, <1>2, AppendProperties
<1>4. QED
  BY <1>1, <1>2, <1>3, SeqEqual


(* handle_transfer without credit: dropping the head of the input removes *)
(* the element just after the queue from the concatenation.               *)
LEMMA DropHead ==
  ASSUME NEW S, NEW q \in Seq(S), NEW t \in Seq(S), t # <<>>
  PROVE  q \o Tail(t)
           = SubSeq(q \o t, 1, Len(q)) \o SubSeq(q \o t, Len(q) + 2, Len(q \o t))
<1> DEFINE s == q \o t
<1>1. /\ s \in Seq(S) /\ Len(s) = Len(q) + Len(t)
      /\ \A i \in 1 .. Len(q) + Len(t) :
           s[i] = IF i <= Len(q) THEN q[i] ELSE t[i - Len(q)]
      /\ Len(q) \in Nat /\ Len(t) \in Nat \ {0}
  BY ConcatProperties, EmptySeq
<1>2. /\ Tail(t) \in Seq(S) /\ Len(Tail(t)) = Len(t) - 1
      /\ \A i \in 1 .. Len(Tail(t)) : Tail(t)[i] = t[i + 1]
  BY HeadTailProperties
<1>3. SubSeq(s, 1, Len(q)) = q
  <2>1. /\ SubSeq(s, 1, Len(q)) \in Seq(S)
        /\ Len(SubSeq(s, 1, Len(q))) = Len(q)
        /\ \A i \in 1 .. Len(q) : SubSeq(s, 1, Len(q))[i] = s[i]
    <3>1. \A i \in 1 .. Len(q) : s[i] \in S
      BY <1>1
    <3>2. QED
      BY <1>1, <3>1, SubSeqProperties
  <2>2. QED
    BY <1>1, <2>1, SeqEqual
<1>4. SubSeq(s, Len(q) + 2, Len(s)) = Tail(t)
  <2>1. Tail(t) = SubSeq(t, 2, Len(t))
    BY TailIsSubSeq
  <2>2. CASE Len(t) = 1
    <3>1. SubSeq(s, Len(q) + 2, Len(s)) = <<>> /\ SubSeq(t, 2, Len(t)) = <<>>
      BY <1>1, <2>2, SubSeqEmpty
    <3>2. QED
      BY <2>1, <3>1
  <2>3. CASE Len(t) > 1
    <3>1. Len(q) + 2 \in Len(q) + 1 .. Len(q) + Len(t)
          /\ Len(s) \in Len(q) + 1 .. Len(q) + Len(t)
      BY <1>1, <2>3
    <3>2. SubSeq(q \o t, Len(q) + 2, Len(s))
            = SubSeq(t, (Len(q) + 2) - Len(q), Len(s) - Len(q))
      BY <3>1, SubSeqOfConcat2
    <3>3. (Len(q) + 2) - Len(q) = 2 /\ Len(s) - Len(q) = Len(t)
      BY <1>1
    <3>4. QED
      BY <2>1, <3>2, <3>3
  <2>4. QED
    BY <1>1, <2>2, <2>3
<1>5. QED
  BY <1>3, <1>4

(* apply_flow: draining the first k queued messages and keeping the rest  *)
(* splits the queue into two sequences whose concatenation is the queue.   *)
LEMMA SplitAt ==
  ASSUME NEW S, NEW s \in Seq(S), NEW k \in 0 .. Len(s)
  PROVE  /\ SubSeq(s, 1, k) \in Seq(S)
         /\ SubSeq(s, k + 1, Len(s)) \in Seq(S)
         /\ SubSeq(s, 1, k) \o SubSeq(s, k + 1, Len(s)) = s
<1>1. Len(s) \in Nat /\ \A i \in 1 .. Len(s) : s[i] \in S
  BY LenProperties, ElementOfSeq
<1>2. SubSeq(s, 1, k) \in Seq(S)
  <2>1. \A i \in 1 .. k : s[i] \in S
    BY <1>1
  <2>2. QED
    BY <2>1, SubSeqProperties
<1>3. SubSeq(s, k + 1, Len(s)) \in Seq(S)
  <2>1. \A i \in k + 1 .. Len(s) : s[i] \in S
    BY <1>1
  <2>2. QED
    BY <1>1, <2>1, SubSeqProperties
<1>4. SubSeq(s, 1, k) \o SubSeq(s, k + 1, Len(s)) = SubSeq(s, 1, Len(s))
  <2>1. 1 \in 1 .. Len(s) + 1 /\ k \in 1 - 1 .. Len(s) /\ Len(s) \in k .. Len(s)
    BY <1>1
  <2>2. QED
    BY <2>1, ConcatAdjacentSubSeq
<1>5. QED
  BY <1>2, <1>3, <1>4, SubSeqFull

(* The elements of a sequence are its values at 1 .. Len. *)
LEMMA RangeIndex ==
  ASSUME NEW S, NEW s \in Seq(S), NEW x
  PROVE  x \in Range(s) <=> \E i \in 1 .. Len(s) : s[i] = x
<1>1. DOMAIN s = 1 .. Len(s)
  BY LenProperties
<1>2. QED
  BY <1>1 DEF Range

(* Appending x adds x to the elements. *)
LEMMA RangeAppend ==
  ASSUME NEW S, NEW s \in Seq(S), NEW x \in S
  PROVE  Range(Append(s, x)) = Range(s) \cup {x}
<1>1. Append(s, x) = s \o <<x>> /\ <<x>> \in Seq(S)
  BY AppendIsConcat
<1>2. Range(s \o <<x>>) = Range(s) \cup Range(<<x>>)
  BY <1>1, RangeConcatenation
<1>3. Range(<<x>>) = {x}
  BY DEF Range
<1>4. QED
  BY <1>1, <1>2, <1>3

(* Splitting a sequence after k elements splits its elements. *)
LEMMA RangeSplit ==
  ASSUME NEW S, NEW s \in Seq(S), NEW k \in 0 .. Len(s)
  PROVE  Range(s) = Range(SubSeq(s, 1, k)) \cup Range(SubSeq(s, k + 1, Len(s)))
<1>1. /\ SubSeq(s, 1, k) \in Seq(S)
      /\ SubSeq(s, k + 1, Len(s)) \in Seq(S)
      /\ SubSeq(s, 1, k) \o SubSeq(s, k + 1, Len(s)) = s
  BY SplitAt
<1>2. Range(SubSeq(s, 1, k) \o SubSeq(s, k + 1, Len(s)))
        = Range(SubSeq(s, 1, k)) \cup Range(SubSeq(s, k + 1, Len(s)))
  <2>1. \A a, b \in Seq(S) : Range(a \o b) = Range(a) \cup Range(b)
    BY RangeConcatenation
  <2>2. QED
    BY <1>1, <2>1, Zenon
<1>3. QED
  BY <1>1, <1>2

=============================================================================
