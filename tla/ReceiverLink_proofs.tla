------------------------- MODULE ReceiverLink_proofs -------------------------
(***************************************************************************)
(* Proofs about the receiving link of src/rcvlink.rs, for every counter   *)
(* width and every bound on grants, Transfers, overruns and closes.        *)
(***************************************************************************)
EXTENDS ReceiverLink, ChannelLemmas, TLAPS

(* All the credit the application may grant fits in a u32: the sum of the *)
(* set_link_credit increments never wraps credit.                          *)
NoCreditWrap == MaxGrant * MaxGrants < Mod

(* The most credit g set_link_credit calls can have granted. *)
GrantBound(g) == MaxGrant * g

(* Transfers the link has counted since it sent a Flow with delivery      *)
(* count dc (serial-number distance, as the peer computes it).             *)
Since(dc) == (delivery_count - dc) % Mod

(* The credit accounting between the link and a compliant peer, while the *)
(* peer has not overrun.  The Transfers in flight and the peer's credit    *)
(* are covered by the link's credit:                                       *)
CreditCovers == Len(to_link) + peer_credit <= credit

(* the peer's delivery count is the link's plus the Transfers in flight:  *)
PeerCountAgrees == peer_dc = (delivery_count + Len(to_link)) % Mod

(* and a Flow f not yet read by the peer grants no more than the link's   *)
(* credit plus what was counted since f was sent, while that count and the *)
(* credit together stay below what was granted.                            *)
FlowBounded(f) ==
  /\ f.credit <= credit + Since(f.dc)
  /\ Since(f.dc) + credit <= GrantBound(grants)

FlowsBounded ==
  \A i \in 1 .. Len(to_peer) :
    to_peer[i].kind = "flow" => FlowBounded(to_peer[i])

CreditAccounting == CreditCovers /\ PeerCountAgrees /\ FlowsBounded

(* The inductive invariant behind LimitDetachOnlyForOverrun. *)
RInv ==
  /\ TypeOK
  /\ credit <= GrantBound(grants)
  /\ overruns = 0 => CreditAccounting /\ "limit" \notin Range(detaches)

-----------------------------------------------------------------------------
(* Arithmetic modulo 2^Width, the wrapping u32 and serial-number           *)
(* arithmetic of the link's counters.                                      *)

LEMMA ModRange ==
  ASSUME NEW x \in Int
  PROVE  x % Mod \in 0 .. Mod - 1
BY ReceiverAssumption

LEMMA ModSmall ==
  ASSUME NEW x \in 0 .. Mod - 1
  PROVE  x % Mod = x
BY ReceiverAssumption

LEMMA ModQuotient ==
  ASSUME NEW x \in Int
  PROVE  \E q \in Int : x = Mod * q + (x % Mod)
<1>1. x = Mod * (x \div Mod) + (x % Mod) /\ x \div Mod \in Int
  BY ReceiverAssumption
<1>2. QED
  BY <1>1

LEMMA ModUnique ==
  ASSUME NEW z \in Int, NEW r \in 0 .. Mod - 1, NEW k \in Int, z = k * Mod + r
  PROVE  z % Mod = r
BY ReceiverAssumption

LEMMA ModShift ==
  ASSUME NEW z \in Int, NEW k \in Int
  PROVE  (z + k * Mod) % Mod = z % Mod
<1>1. PICK q \in Int : z = Mod * q + (z % Mod)
  BY ModQuotient
<1>2. z % Mod \in 0 .. Mod - 1
  BY ModRange
<1>3. z + k * Mod = (q + k) * Mod + (z % Mod)
  BY <1>1, ReceiverAssumption
<1>4. q + k \in Int /\ z + k * Mod \in Int
  BY ReceiverAssumption
<1>5. \A zz \in Int, rr \in 0 .. Mod - 1, kk \in Int :
        zz = kk * Mod + rr => zz % Mod = rr
  BY ModUnique
<1>6. QED
  BY <1>2, <1>3, <1>4, <1>5

(* A wrapped value may be added to or subtracted from before or after     *)
(* the reduction.                                                          *)
LEMMA ModAdd ==
  ASSUME NEW x \in Int, NEW y \in Int
  PROVE  ((x % Mod) + y) % Mod = (x + y) % Mod
<1>1. PICK q \in Int : x = Mod * q + (x % Mod)
  BY ModQuotient
<1>2. (x % Mod) + y = (x + y) + (-q) * Mod
  BY <1>1, ReceiverAssumption
<1>3. \A zz \in Int, kk \in Int : (zz + kk * Mod) % Mod = zz % Mod
  BY ModShift
<1>4. ((x + y) + (-q) * Mod) % Mod = (x + y) % Mod
  BY <1>3
<1>5. QED
  BY <1>2, <1>4

LEMMA ModSub ==
  ASSUME NEW x \in Int, NEW y \in Int
  PROVE  (x - (y % Mod)) % Mod = (x - y) % Mod
<1>1. PICK q \in Int : y = Mod * q + (y % Mod)
  BY ModQuotient
<1>2. x - (y % Mod) = (x - y) + q * Mod
  BY <1>1, ReceiverAssumption
<1>3. \A zz \in Int, kk \in Int : (zz + kk * Mod) % Mod = zz % Mod
  BY ModShift
<1>4. ((x - y) + q * Mod) % Mod = (x - y) % Mod
  BY <1>3
<1>5. QED
  BY <1>2, <1>4

-----------------------------------------------------------------------------
(* Type correctness, for every width and bound. *)

LEMMA InitType == Init => TypeOK
<1> SUFFICES ASSUME Init PROVE TypeOK
  OBVIOUS
<1>1. credit \in 0 .. Mod - 1 /\ delivery_count \in 0 .. Mod - 1
      /\ peer_dc \in 0 .. Mod - 1
  BY ReceiverAssumption DEF Init
<1>2. grants \in 0 .. MaxGrants /\ closes \in 0 .. MaxCloses
      /\ sent \in 0 .. MaxTransfers /\ overruns \in 0 .. MaxOverruns
      /\ peer_credit \in Nat
  BY ReceiverAssumption DEF Init
<1>3. queue \in Seq(Tid) /\ consumed \in Seq(Tid) /\ to_link \in Seq(Tid)
  BY DEF Init
<1>4. detaches \in Seq({"none", "limit"})
  BY DEF Init
<1>5. to_peer \in Seq(Frame)
  BY DEF Init
<1>6. closed \in BOOLEAN /\ peer_detached \in BOOLEAN
      /\ reader \in {"polling", "parked", "done"}
  BY DEF Init
<1>7. QED
  BY <1>1, <1>2, <1>3, <1>4, <1>5, <1>6 DEF TypeOK

(* The typing of the link's queues and frames, and of its counters. *)
TypeSeqs ==
  /\ queue \in Seq(Tid) /\ consumed \in Seq(Tid) /\ to_link \in Seq(Tid)
  /\ detaches \in Seq({"none", "limit"}) /\ to_peer \in Seq(Frame)
TypeCounters ==
  /\ credit \in 0 .. Mod - 1 /\ delivery_count \in 0 .. Mod - 1
  /\ peer_dc \in 0 .. Mod - 1 /\ peer_credit \in Nat
  /\ grants \in 0 .. MaxGrants /\ closes \in 0 .. MaxCloses
  /\ sent \in 0 .. MaxTransfers /\ overruns \in 0 .. MaxOverruns
TypeFlags ==
  /\ closed \in BOOLEAN /\ peer_detached \in BOOLEAN
  /\ reader \in {"polling", "parked", "done"}

LEMMA TypeSplit == TypeOK <=> TypeSeqs /\ TypeCounters /\ TypeFlags
BY DEF TypeOK, TypeSeqs, TypeCounters, TypeFlags

LEMMA TypeSplitPrime == TypeOK' <=> TypeSeqs' /\ TypeCounters' /\ TypeFlags'
BY DEF TypeOK, TypeSeqs, TypeCounters, TypeFlags

(* close: one more Detach frame, or nothing when already closed. *)
LEMMA CloseType ==
  ASSUME TypeSeqs, NEW err \in {"none", "limit"}, Close(err)
  PROVE  detaches' \in Seq({"none", "limit"}) /\ to_peer' \in Seq(Frame)
<1>1. [kind |-> "detach", error |-> err] \in Frame
  BY DEF Frame
<1>2. CASE closed
  BY <1>2 DEF Close, TypeSeqs
<1>3. CASE ~closed
  <2>1. detaches' = Append(detaches, err)
        /\ to_peer' = Append(to_peer, [kind |-> "detach", error |-> err])
    BY <1>3 DEF Close
  <2>2. QED
    BY <1>1, <2>1, AppendProperties DEF TypeSeqs
<1>4. QED
  BY <1>2, <1>3

LEMMA SetLinkCreditType ==
  ASSUME TypeOK, NEW n \in 1 .. MaxGrant, SetLinkCredit(n)
  PROVE  TypeOK'
<1>1. TypeSeqs /\ TypeCounters /\ TypeFlags
  BY TypeSplit
<1>2. /\ grants < MaxGrants /\ credit' = (credit + n) % Mod
      /\ to_peer' = Append(to_peer, [kind |-> "flow", dc |-> delivery_count,
                                     credit |-> n])
      /\ grants' = grants + 1
      /\ UNCHANGED <<delivery_count, queue, closed, reader, consumed, closes,
                     detaches, to_link, peer_dc, peer_credit, peer_detached,
                     sent, overruns>>
  BY DEF SetLinkCredit, peer_vars
<1>3. [kind |-> "flow", dc |-> delivery_count, credit |-> n] \in Frame
  BY <1>1, ReceiverAssumption DEF Frame, TypeCounters
<1>4. TypeSeqs'
  BY <1>1, <1>2, <1>3, AppendProperties DEF TypeSeqs
<1>5. credit' \in 0 .. Mod - 1
  <2>1. credit + n \in Int
    BY <1>1, ReceiverAssumption DEF TypeCounters
  <2>2. QED
    BY <1>2, <2>1, ModRange
<1>6. TypeCounters'
  BY <1>1, <1>2, <1>5, ReceiverAssumption DEF TypeCounters
<1>7. TypeFlags'
  BY <1>1, <1>2 DEF TypeFlags
<1>8. QED
  BY <1>4, <1>6, <1>7, TypeSplitPrime

LEMMA HandleTransferType ==
  ASSUME TypeOK, HandleTransfer
  PROVE  TypeOK'
<1>1. TypeSeqs /\ TypeCounters /\ TypeFlags
  BY TypeSplit
<1>2. /\ to_link # <<>> /\ to_link' = Tail(to_link)
      /\ UNCHANGED <<closed, consumed, grants, closes, peer_dc, peer_credit,
                     peer_detached, sent, overruns>>
  BY DEF HandleTransfer, peer_vars
<1>3. Head(to_link) \in Tid /\ to_link' \in Seq(Tid)
  BY <1>1, <1>2, HeadTailProperties DEF TypeSeqs
<1>4. CASE credit = 0
  <2>1. Close("limit") /\ UNCHANGED <<credit, delivery_count, queue, reader>>
    BY <1>4 DEF HandleTransfer
  <2>2. detaches' \in Seq({"none", "limit"}) /\ to_peer' \in Seq(Frame)
    BY <1>1, <2>1, CloseType
  <2>3. TypeSeqs'
    BY <1>1, <1>2, <1>3, <2>1, <2>2 DEF TypeSeqs
  <2>4. TypeCounters' /\ TypeFlags'
    BY <1>1, <1>2, <2>1 DEF TypeCounters, TypeFlags
  <2>5. QED
    BY <2>3, <2>4, TypeSplitPrime
<1>5. CASE credit # 0
  <2>1. /\ credit' = credit - 1
        /\ delivery_count' = (delivery_count + 1) % Mod
        /\ queue' = Append(queue, Head(to_link))
        /\ reader' = IF Len(queue') = 1 THEN Notify(reader) ELSE reader
        /\ UNCHANGED <<detaches, to_peer>>
    BY <1>5 DEF HandleTransfer
  <2>2. credit' \in 0 .. Mod - 1 /\ delivery_count' \in 0 .. Mod - 1
    <3>1. delivery_count + 1 \in Int
      BY <1>1 DEF TypeCounters
    <3>2. delivery_count' \in 0 .. Mod - 1
      BY <2>1, <3>1, ModRange
    <3>3. credit' \in 0 .. Mod - 1
      BY <1>1, <1>5, <2>1, ReceiverAssumption DEF TypeCounters
    <3>4. QED
      BY <3>2, <3>3
  <2>3. TypeSeqs'
    BY <1>1, <1>2, <1>3, <2>1, AppendProperties DEF TypeSeqs
  <2>4. TypeCounters'
    BY <1>1, <1>2, <2>2 DEF TypeCounters
  <2>5. TypeFlags'
    BY <1>1, <1>2, <2>1 DEF TypeFlags, Notify
  <2>6. QED
    BY <2>3, <2>4, <2>5, TypeSplitPrime
<1>6. QED
  BY <1>4, <1>5

LEMMA PollType ==
  ASSUME TypeOK, Poll
  PROVE  TypeOK'
<1>1. TypeSeqs /\ TypeCounters /\ TypeFlags
  BY TypeSplit
<1>2. /\ reader = "polling"
      /\ UNCHANGED <<credit, delivery_count, closed, grants, closes, detaches,
                     to_peer, to_link, peer_dc, peer_credit, peer_detached,
                     sent, overruns>>
  BY DEF Poll, peer_vars
<1>3. /\ consumed' \in Seq(Tid) /\ queue' \in Seq(Tid)
      /\ reader' \in {"polling", "parked", "done"}
  <2>1. CASE queue # <<>>
    <3>1. /\ consumed' = Append(consumed, Head(queue))
          /\ queue' = Tail(queue) /\ reader' = reader
      BY <2>1 DEF Poll
    <3>2. QED
      BY <1>1, <2>1, <3>1, HeadTailProperties, AppendProperties
         DEF TypeSeqs, TypeFlags
  <2>2. CASE queue = <<>>
    <3>1. /\ reader' = IF closed THEN "done" ELSE "parked"
          /\ queue' = queue /\ consumed' = consumed
      BY <2>2 DEF Poll
    <3>2. QED
      BY <1>1, <3>1 DEF TypeSeqs
  <2>3. QED
    BY <2>1, <2>2
<1>4. TypeSeqs' /\ TypeCounters' /\ TypeFlags'
  BY <1>1, <1>2, <1>3 DEF TypeSeqs, TypeCounters, TypeFlags
<1>5. QED
  BY <1>4, TypeSplitPrime

LEMMA AppCloseType ==
  ASSUME TypeOK, AppClose
  PROVE  TypeOK'
<1>1. TypeSeqs /\ TypeCounters /\ TypeFlags
  BY TypeSplit
<1>2. /\ closes < MaxCloses /\ closes' = closes + 1 /\ Close("none")
      /\ UNCHANGED <<credit, delivery_count, queue, closed, reader, consumed,
                     grants, to_link, peer_dc, peer_credit, peer_detached,
                     sent, overruns>>
  BY DEF AppClose, link_vars, peer_vars
<1>3. detaches' \in Seq({"none", "limit"}) /\ to_peer' \in Seq(Frame)
  BY <1>1, <1>2, CloseType
<1>4. TypeSeqs' /\ TypeCounters' /\ TypeFlags'
  BY <1>1, <1>2, <1>3, ReceiverAssumption
  DEF TypeSeqs, TypeCounters, TypeFlags
<1>5. QED
  BY <1>4, TypeSplitPrime

LEMMA PeerSendType ==
  ASSUME TypeOK, PeerSend \/ PeerOverrun
  PROVE  TypeOK'
<1>1. TypeSeqs /\ TypeCounters /\ TypeFlags
  BY TypeSplit
<1>2. /\ sent < MaxTransfers /\ sent' = sent + 1
      /\ to_link' = Append(to_link, sent + 1)
      /\ peer_dc' = (peer_dc + 1) % Mod
      /\ UNCHANGED <<credit, delivery_count, queue, closed, reader, consumed,
                     grants, closes, detaches, to_peer, peer_detached>>
  BY DEF PeerSend, PeerOverrun, link_vars, app_vars
<1>9. peer_credit' \in Nat /\ overruns' \in 0 .. MaxOverruns
  <2>1. CASE PeerSend
    <3>1. peer_credit > 0 /\ peer_credit' = peer_credit - 1
          /\ overruns' = overruns
      BY <2>1 DEF PeerSend
    <3>2. QED
      BY <1>1, <3>1 DEF TypeCounters
  <2>2. CASE PeerOverrun
    <3>1. overruns < MaxOverruns /\ overruns' = overruns + 1
          /\ peer_credit' = peer_credit
      BY <2>2 DEF PeerOverrun
    <3>2. QED
      BY <1>1, <3>1, ReceiverAssumption DEF TypeCounters
  <2>3. QED
    BY <2>1, <2>2
<1>3. sent + 1 \in Tid /\ sent' \in 0 .. MaxTransfers
  BY <1>1, <1>2, ReceiverAssumption DEF TypeCounters, Tid
<1>4. to_link' \in Seq(Tid)
  BY <1>1, <1>2, <1>3, AppendProperties DEF TypeSeqs
<1>5. peer_dc' \in 0 .. Mod - 1
  <2>1. peer_dc + 1 \in Int
    BY <1>1 DEF TypeCounters
  <2>2. QED
    BY <1>2, <2>1, ModRange
<1>6. TypeSeqs' /\ TypeCounters' /\ TypeFlags'
  BY <1>1, <1>2, <1>3, <1>4, <1>5, <1>9 DEF TypeSeqs, TypeCounters, TypeFlags
<1>7. QED
  BY <1>6, TypeSplitPrime

LEMMA PeerReceiveType ==
  ASSUME TypeOK, PeerFlow \/ PeerDetach
  PROVE  TypeOK'
<1>1. TypeSeqs /\ TypeCounters /\ TypeFlags
  BY TypeSplit
<1>2. to_peer # <<>> /\ to_peer' = Tail(to_peer)
      /\ UNCHANGED <<credit, delivery_count, queue, closed, reader, consumed,
                     grants, closes, detaches, to_link, peer_dc, sent,
                     overruns>>
  BY DEF PeerFlow, PeerDetach, link_vars, app_vars
<1>3. Head(to_peer) \in Frame /\ to_peer' \in Seq(Frame)
  BY <1>1, <1>2, HeadTailProperties DEF TypeSeqs
<1>4. peer_credit' \in Nat /\ peer_detached' \in BOOLEAN
  <2>1. CASE PeerFlow
    <3>1. Head(to_peer).kind = "flow"
      BY <2>1 DEF PeerFlow
    <3>2. Head(to_peer).credit \in Nat /\ Head(to_peer).dc \in 0 .. Mod - 1
      BY <1>3, <3>1 DEF Frame
    <3>3. /\ peer_credit' = LET f == Head(to_peer)
                               inflight == (peer_dc - f.dc) % Mod
                           IN  IF f.credit > inflight THEN f.credit - inflight
                                                      ELSE 0
          /\ peer_detached' = peer_detached
      BY <2>1 DEF PeerFlow
    <3>4. (peer_dc - Head(to_peer).dc) % Mod \in 0 .. Mod - 1
      BY <1>1, <3>2, ModRange DEF TypeCounters
    <3>5. QED
      BY <1>1, <3>2, <3>3, <3>4 DEF TypeFlags
  <2>2. CASE PeerDetach
    BY <1>1, <2>2 DEF PeerDetach, TypeCounters
  <2>3. QED
    BY <2>1, <2>2
<1>5. TypeSeqs' /\ TypeCounters' /\ TypeFlags'
  BY <1>1, <1>2, <1>3, <1>4 DEF TypeSeqs, TypeCounters, TypeFlags
<1>6. QED
  BY <1>5, TypeSplitPrime

LEMMA NextType == TypeOK /\ [Next]_vars => TypeOK'
<1> SUFFICES ASSUME TypeOK, [Next]_vars PROVE TypeOK'
  OBVIOUS
<1>1. CASE UNCHANGED vars
  BY <1>1 DEF TypeOK, vars, link_vars, app_vars, peer_vars
<1>2. CASE Next
  BY <1>2, SetLinkCreditType, HandleTransferType, PollType, AppCloseType,
     PeerSendType, PeerReceiveType DEF Next
<1>3. QED
  BY <1>1, <1>2

(* Every reachable state of the receiving link is well typed, for every   *)
(* counter width and bound: the wrapping u32 counters stay in range and    *)
(* handle_transfer never spends credit it does not have.                   *)
THEOREM ReceiverTypeCorrect == Spec => []TypeOK
BY InitType, NextType, PTL DEF Spec


-----------------------------------------------------------------------------
(* The credit accounting, for every width and bound under which the       *)
(* credit the application grants cannot wrap.                              *)

LEMMA GrantMul ==
  ASSUME NEW g \in 0 .. MaxGrants
  PROVE  /\ GrantBound(g) \in Nat
         /\ NoCreditWrap => GrantBound(g) < Mod
         /\ GrantBound(g + 1) = GrantBound(g) + MaxGrant
<1>1. MaxGrant * g <= MaxGrant * MaxGrants /\ MaxGrant * g \in Nat
  BY ReceiverAssumption
<1>2. QED
  BY <1>1, ReceiverAssumption DEF GrantBound, NoCreditWrap

LEMMA GrantPrime == GrantBound(grants)' = GrantBound(grants')
BY DEF GrantBound

LEMMA RangeAppendDetach ==
  ASSUME NEW s \in Seq({"none", "limit"}), NEW x
  PROVE  Range(Append(s, x)) = Range(s) \cup {x}
<1>1. DOMAIN Append(s, x) = 1 .. Len(s) + 1 /\ DOMAIN s = 1 .. Len(s)
      /\ Len(s) \in Nat
  OBVIOUS
<1>2. \A j \in 1 .. Len(s) + 1 :
        Append(s, x)[j] = IF j <= Len(s) THEN s[j] ELSE x
  OBVIOUS
<1>3. QED
  BY <1>1, <1>2 DEF Range

(* The fields of a Flow waiting for the peer. *)
LEMMA FlowFields ==
  ASSUME TypeOK, NEW i \in 1 .. Len(to_peer), to_peer[i].kind = "flow"
  PROVE  to_peer[i].dc \in 0 .. Mod - 1 /\ to_peer[i].credit \in Nat
<1>1. to_peer[i] \in Frame
  BY DEF TypeOK
<1>2. QED
  BY <1>1 DEF Frame

LEMMA SetLinkCreditRInv ==
  ASSUME RInv, NoCreditWrap, NEW n \in 1 .. MaxGrant, SetLinkCredit(n)
  PROVE  RInv'
<1>1. TypeOK /\ TypeOK'
  BY SetLinkCreditType DEF RInv
<1>2. /\ grants < MaxGrants /\ credit' = (credit + n) % Mod
      /\ to_peer' = Append(to_peer, [kind |-> "flow", dc |-> delivery_count,
                                     credit |-> n])
      /\ grants' = grants + 1
      /\ UNCHANGED <<delivery_count, detaches, to_link, peer_dc, peer_credit,
                     overruns>>
  BY DEF SetLinkCredit, peer_vars
<1>3. /\ grants \in 0 .. MaxGrants /\ grants + 1 \in 0 .. MaxGrants
      /\ credit \in 0 .. Mod - 1 /\ credit <= GrantBound(grants)
      /\ delivery_count \in 0 .. Mod - 1 /\ peer_credit \in Nat
      /\ Len(to_link) \in Nat
  BY <1>1, <1>2, ReceiverAssumption DEF RInv, TypeOK
<1>4. /\ GrantBound(grants) \in Nat
      /\ GrantBound(grants') = GrantBound(grants) + MaxGrant
      /\ GrantBound(grants') < Mod
  BY <1>2, <1>3, GrantMul
<1>5. credit' = credit + n /\ credit' <= GrantBound(grants')
  <2>1. credit + n \in 0 .. Mod - 1
    BY <1>3, <1>4, ReceiverAssumption
  <2>2. credit' = credit + n
    BY <1>2, <2>1, ModSmall
  <2>3. QED
    BY <1>3, <1>4, <2>2, ReceiverAssumption
<1>6. ASSUME overruns' = 0
      PROVE  CreditAccounting' /\ "limit" \notin Range(detaches')
  <2>1. CreditAccounting /\ "limit" \notin Range(detaches)
    BY <1>2, <1>6 DEF RInv
  <2>2. CreditCovers' /\ PeerCountAgrees'
    BY <1>2, <1>3, <1>5, <2>1 DEF CreditAccounting, CreditCovers,
                                  PeerCountAgrees
  <2>3. FlowsBounded'
    <3> SUFFICES ASSUME NEW i \in 1 .. Len(to_peer'), to_peer'[i].kind = "flow"
                 PROVE  /\ to_peer'[i].credit
                              <= credit' + ((delivery_count - to_peer'[i].dc) % Mod)
                        /\ ((delivery_count - to_peer'[i].dc) % Mod) + credit'
                              <= GrantBound(grants')
      BY <1>2, GrantPrime DEF FlowsBounded, FlowBounded, Since
    <3>1. to_peer \in Seq(Frame) /\ delivery_count \in 0 .. Mod - 1
      BY <1>1 DEF TypeOK
    <3>2. /\ Len(to_peer') = Len(to_peer) + 1
          /\ \A j \in 1 .. Len(to_peer) : to_peer'[j] = to_peer[j]
          /\ to_peer'[Len(to_peer) + 1]
               = [kind |-> "flow", dc |-> delivery_count, credit |-> n]
      BY <1>2, <3>1, AppendProperties
    <3>3. CASE i \in 1 .. Len(to_peer)
      <4>1. /\ to_peer[i].credit <= credit + Since(to_peer[i].dc)
            /\ Since(to_peer[i].dc) + credit <= GrantBound(grants)
        BY <2>1, <3>2, <3>3 DEF CreditAccounting, FlowsBounded, FlowBounded
      <4>2. to_peer[i].dc \in 0 .. Mod - 1 /\ to_peer[i].credit \in Nat
        BY <1>1, <3>2, <3>3, FlowFields
      <4>3. Since(to_peer[i].dc) \in 0 .. Mod - 1
        <5>1. delivery_count - to_peer[i].dc \in Int
          BY <3>1, <4>2
        <5>2. QED
          BY <5>1, ModRange DEF Since
      <4>4. to_peer'[i] = to_peer[i]
        BY <3>2, <3>3
      <4>5. \A fc \in Nat, sd \in 0 .. Mod - 1 :
              fc <= credit + sd /\ sd + credit <= GrantBound(grants) =>
                fc <= credit' + sd /\ sd + credit' <= GrantBound(grants')
        BY <1>3, <1>4, <1>5, ReceiverAssumption
      <4>6. /\ to_peer[i].credit
                 <= credit' + ((delivery_count - to_peer[i].dc) % Mod)
            /\ ((delivery_count - to_peer[i].dc) % Mod) + credit'
                 <= GrantBound(grants')
        BY <4>1, <4>2, <4>3, <4>5, Zenon DEF Since
      <4>7. QED
        BY <4>4, <4>6, Zenon
    <3>4. CASE i = Len(to_peer) + 1
      <4>1. (delivery_count - delivery_count) % Mod = 0
        <5>1. delivery_count - delivery_count = 0 /\ 0 \in 0 .. Mod - 1
          BY <3>1, ReceiverAssumption
        <5>2. QED
          BY <5>1, ModSmall
      <4>2. to_peer'[i].credit = n /\ to_peer'[i].dc = delivery_count
        BY <3>2, <3>4
      <4>3. QED
        BY <1>3, <1>4, <1>5, <4>1, <4>2
    <3>5. QED
      BY <3>2, <3>3, <3>4
  <2>4. QED
    BY <1>2, <2>1, <2>2, <2>3 DEF CreditAccounting
<1>7. QED
  BY <1>1, <1>5, <1>6, GrantPrime DEF RInv


(* Counting l more deliveries adds l to the serial-number distance from  *)
(* any earlier delivery count.                                             *)
LEMMA SinceShift ==
  ASSUME NEW d \in Int, NEW dc \in Int, NEW l \in Int
  PROVE  (((d + l) % Mod) - dc) % Mod = (((d - dc) % Mod) + l) % Mod
<1>1. \A x, y \in Int : ((x % Mod) + y) % Mod = (x + y) % Mod
  BY ModAdd
<1>2. (((d + l) % Mod) + (-dc)) % Mod = ((d + l) + (-dc)) % Mod
  BY <1>1
<1>3. (((d - dc) % Mod) + l) % Mod = ((d - dc) + l) % Mod
  BY <1>1
<1>4. (d + l) % Mod \in Int
  BY ModRange
<1>5. ((d + l) % Mod) - dc = ((d + l) % Mod) + (-dc)
      /\ (d + l) + (-dc) = (d - dc) + l
  BY <1>4
<1>6. QED
  BY <1>2, <1>3, <1>5

(* Counting one more delivery adds one to the distance. *)
LEMMA SinceOne ==
  \A d, dc \in Int : (((d + 1) % Mod) - dc) % Mod = (((d - dc) % Mod) + 1) % Mod
<1>1. 1 \in Int
  OBVIOUS
<1>2. QED
  BY <1>1, SinceShift, Zenon

LEMMA HandleTransferRInv ==
  ASSUME RInv, NoCreditWrap, HandleTransfer
  PROVE  RInv'
<1>1. TypeOK /\ TypeOK'
  BY HandleTransferType DEF RInv
<1>2. /\ to_link # <<>> /\ to_link' = Tail(to_link)
      /\ UNCHANGED <<grants, peer_dc, peer_credit, overruns>>
  BY DEF HandleTransfer, peer_vars
<1>3. /\ credit \in 0 .. Mod - 1 /\ credit <= GrantBound(grants)
      /\ GrantBound(grants) \in Nat /\ GrantBound(grants) < Mod
      /\ delivery_count \in 0 .. Mod - 1 /\ peer_credit \in Nat
      /\ to_link \in Seq(Tid) /\ to_peer \in Seq(Frame)
  <2>1. grants \in 0 .. MaxGrants
    BY <1>1 DEF TypeOK
  <2>2. QED
    BY <1>1, <2>1, GrantMul DEF RInv, TypeOK
<1>4. Len(to_link) \in Nat \ {0} /\ Len(to_link') = Len(to_link) - 1
  BY <1>2, <1>3, HeadTailProperties, EmptySeq
<1>5. credit' <= GrantBound(grants')
  <2>1. CASE credit = 0
    BY <1>2, <1>3, <2>1 DEF HandleTransfer
  <2>2. CASE credit # 0
    BY <1>2, <1>3, <2>2 DEF HandleTransfer
  <2>3. QED
    BY <2>1, <2>2
<1>6. ASSUME overruns' = 0
      PROVE  CreditAccounting' /\ "limit" \notin Range(detaches')
  <2>1. CreditAccounting /\ "limit" \notin Range(detaches)
    BY <1>2, <1>6 DEF RInv
  <2>2. Len(to_link) + peer_credit <= credit /\ credit # 0
    BY <1>3, <1>4, <2>1 DEF CreditAccounting, CreditCovers
  <2>3. /\ credit' = credit - 1
        /\ delivery_count' = (delivery_count + 1) % Mod
        /\ UNCHANGED <<detaches, to_peer>>
    BY <2>2 DEF HandleTransfer
  <2>4. CreditCovers'
    BY <1>2, <1>3, <1>4, <2>2, <2>3 DEF CreditCovers
  <2>5. PeerCountAgrees'
    <3>1. peer_dc = (delivery_count + Len(to_link)) % Mod
      BY <2>1 DEF CreditAccounting, PeerCountAgrees
    <3>2. \A x, y \in Int : ((x % Mod) + y) % Mod = (x + y) % Mod
      BY ModAdd
    <3>3. (((delivery_count + 1) % Mod) + (Len(to_link) - 1)) % Mod
            = ((delivery_count + 1) + (Len(to_link) - 1)) % Mod
      BY <1>3, <1>4, <3>2
    <3>4. (delivery_count + 1) + (Len(to_link) - 1)
            = delivery_count + Len(to_link)
      BY <1>3, <1>4
    <3>5. QED
      BY <1>2, <1>4, <2>3, <3>1, <3>3, <3>4 DEF PeerCountAgrees
  <2>6. FlowsBounded'
    <3> SUFFICES ASSUME NEW i \in 1 .. Len(to_peer), to_peer[i].kind = "flow"
                 PROVE  /\ to_peer[i].credit
                              <= credit' + ((delivery_count' - to_peer[i].dc) % Mod)
                        /\ ((delivery_count' - to_peer[i].dc) % Mod) + credit'
                              <= GrantBound(grants')
      BY <1>2, <2>3, GrantPrime DEF FlowsBounded, FlowBounded, Since
    <3>1. to_peer[i].dc \in 0 .. Mod - 1 /\ to_peer[i].credit \in Nat
      BY <1>1, FlowFields
    <3>2. /\ to_peer[i].credit <= credit + Since(to_peer[i].dc)
          /\ Since(to_peer[i].dc) + credit <= GrantBound(grants)
      BY <2>1 DEF CreditAccounting, FlowsBounded, FlowBounded
    <3>3. delivery_count \in Int /\ to_peer[i].dc \in Int
          /\ delivery_count - to_peer[i].dc \in Int
      BY <1>3, <3>1
    <3>4. Since(to_peer[i].dc) \in 0 .. Mod - 1
      BY <3>3, ModRange DEF Since
    <3>5. (delivery_count' - to_peer[i].dc) % Mod
            = (Since(to_peer[i].dc) + 1) % Mod
      <4>1. \A d, dc \in Int :
              (((d + 1) % Mod) - dc) % Mod = (((d - dc) % Mod) + 1) % Mod
        BY SinceOne, Zenon
      <4>2. (((delivery_count + 1) % Mod) - to_peer[i].dc) % Mod
              = (((delivery_count - to_peer[i].dc) % Mod) + 1) % Mod
        BY <3>3, <4>1
      <4>3. QED
        BY <2>3, <4>2 DEF Since
    <3>6. \A fc \in Nat, sd \in 0 .. Mod - 1 :
            fc <= credit + sd /\ sd + credit <= GrantBound(grants) =>
              /\ (sd + 1) % Mod = sd + 1
              /\ fc <= credit' + (sd + 1)
              /\ (sd + 1) + credit' <= GrantBound(grants')
      <4> SUFFICES ASSUME NEW fc \in Nat, NEW sd \in 0 .. Mod - 1,
                          fc <= credit + sd, sd + credit <= GrantBound(grants)
                   PROVE  /\ (sd + 1) % Mod = sd + 1
                          /\ fc <= credit' + (sd + 1)
                          /\ (sd + 1) + credit' <= GrantBound(grants')
        OBVIOUS
      <4>1. sd + 1 \in 0 .. Mod - 1
        BY <1>3, <2>2, ReceiverAssumption
      <4>2. QED
        BY <1>2, <1>3, <2>2, <2>3, <4>1, ModSmall
    <3>7. QED
      BY <3>1, <3>2, <3>4, <3>5, <3>6, Zenon
  <2>7. QED
    BY <2>1, <2>3, <2>4, <2>5, <2>6 DEF CreditAccounting
<1>7. QED
  BY <1>1, <1>5, <1>6, GrantPrime DEF RInv


LEMMA PollRInv ==
  ASSUME RInv, Poll
  PROVE  RInv'
<1>1. TypeOK'
  BY PollType DEF RInv
<1>2. UNCHANGED <<credit, delivery_count, grants, detaches, to_peer, to_link,
                  peer_dc, peer_credit, overruns>>
  BY DEF Poll, peer_vars
<1>3. QED
  BY <1>1, <1>2 DEF RInv, CreditAccounting, CreditCovers, PeerCountAgrees,
                    FlowsBounded, FlowBounded, Since, GrantBound

LEMMA AppCloseRInv ==
  ASSUME RInv, AppClose
  PROVE  RInv'
<1>1. TypeOK /\ TypeOK'
  BY AppCloseType DEF RInv
<1>2. /\ Close("none")
      /\ UNCHANGED <<credit, delivery_count, grants, to_link, peer_dc,
                     peer_credit, overruns>>
  BY DEF AppClose, link_vars, peer_vars
<1>3. /\ "limit" \notin Range(detaches) => "limit" \notin Range(detaches')
      /\ \A i \in 1 .. Len(to_peer') :
           to_peer'[i].kind = "flow" =>
             i \in 1 .. Len(to_peer) /\ to_peer'[i] = to_peer[i]
  <2>1. detaches \in Seq({"none", "limit"}) /\ to_peer \in Seq(Frame)
    BY <1>1 DEF TypeOK
  <2>2. CASE closed
    BY <2>2, <1>2 DEF Close
  <2>3. CASE ~closed
    <3>1. detaches' = Append(detaches, "none")
          /\ to_peer' = Append(to_peer, [kind |-> "detach", error |-> "none"])
      BY <1>2, <2>3 DEF Close
    <3>2. Range(detaches') = Range(detaches) \cup {"none"}
      BY <2>1, <3>1, RangeAppendDetach
    <3>3. QED
      BY <2>1, <3>1, <3>2, AppendProperties
  <2>4. QED
    BY <2>2, <2>3
<1>4. credit' <= GrantBound(grants')
  BY <1>2 DEF RInv
<1>5. ASSUME overruns' = 0
      PROVE  CreditAccounting' /\ "limit" \notin Range(detaches')
  <2>1. CreditAccounting /\ "limit" \notin Range(detaches)
    BY <1>2, <1>5 DEF RInv
  <2>2. CreditCovers' /\ PeerCountAgrees'
    BY <1>2, <2>1 DEF CreditAccounting, CreditCovers, PeerCountAgrees
  <2>3. FlowsBounded'
    BY <1>2, <1>3, <2>1, GrantPrime
    DEF CreditAccounting, FlowsBounded, FlowBounded, Since
  <2>4. QED
    BY <1>3, <2>1, <2>2, <2>3 DEF CreditAccounting
<1>6. QED
  BY <1>1, <1>4, <1>5, GrantPrime DEF RInv

LEMMA PeerSendRInv ==
  ASSUME RInv, PeerSend \/ PeerOverrun
  PROVE  RInv'
<1>1. TypeOK /\ TypeOK'
  BY PeerSendType DEF RInv
<1>2. /\ to_link' = Append(to_link, sent + 1)
      /\ peer_dc' = (peer_dc + 1) % Mod
      /\ UNCHANGED <<credit, delivery_count, grants, detaches, to_peer>>
  BY DEF PeerSend, PeerOverrun, link_vars, app_vars
<1>3. credit' <= GrantBound(grants')
  BY <1>2 DEF RInv
<1>4. ASSUME overruns' = 0
      PROVE  CreditAccounting' /\ "limit" \notin Range(detaches')
  <2>1. PeerSend
    <3>1. ~PeerOverrun
      <4>1. overruns \in Nat
        BY <1>1 DEF TypeOK
      <4>2. QED
        BY <1>4, <4>1 DEF PeerOverrun
    <3>2. QED
      BY <3>1
  <2>2. /\ peer_credit > 0 /\ peer_credit' = peer_credit - 1
        /\ overruns' = overruns
    BY <2>1 DEF PeerSend
  <2>3. CreditAccounting /\ "limit" \notin Range(detaches)
    BY <1>4, <2>2 DEF RInv
  <2>4. /\ to_link \in Seq(Tid) /\ peer_credit \in Nat
        /\ delivery_count \in 0 .. Mod - 1
    BY <1>1 DEF TypeOK
  <2>5. Len(to_link') = Len(to_link) + 1
    BY <1>2, <2>4, AppendProperties
  <2>6. CreditCovers'
    BY <1>2, <2>2, <2>3, <2>4, <2>5 DEF CreditAccounting, CreditCovers
  <2>7. PeerCountAgrees'
    <3>1. peer_dc = (delivery_count + Len(to_link)) % Mod
      BY <2>3 DEF CreditAccounting, PeerCountAgrees
    <3>2. \A x, y \in Int : ((x % Mod) + y) % Mod = (x + y) % Mod
      BY ModAdd
    <3>3. delivery_count + Len(to_link) \in Int
      BY <2>4
    <3>4. (((delivery_count + Len(to_link)) % Mod) + 1) % Mod
            = ((delivery_count + Len(to_link)) + 1) % Mod
      BY <3>2, <3>3
    <3>5. peer_dc' = (delivery_count' + Len(to_link')) % Mod
      <4>1. delivery_count' + Len(to_link') = (delivery_count + Len(to_link)) + 1
        BY <1>2, <2>4, <2>5
      <4>2. QED
        BY <1>2, <3>1, <3>4, <4>1
    <3>6. QED
      BY <3>5 DEF PeerCountAgrees
  <2>8. FlowsBounded'
    BY <1>2, <2>3, GrantPrime
    DEF CreditAccounting, FlowsBounded, FlowBounded, Since
  <2>9. QED
    BY <1>2, <2>3, <2>6, <2>7, <2>8 DEF CreditAccounting
<1>5. QED
  BY <1>1, <1>3, <1>4, GrantPrime DEF RInv


(* The peer reading the oldest frame leaves the other Flows bounded. *)
LEMMA TailFlows ==
  ASSUME TypeOK, FlowsBounded, to_peer # <<>>, to_peer' = Tail(to_peer),
         UNCHANGED <<credit, delivery_count, grants>>
  PROVE  FlowsBounded'
<1> SUFFICES ASSUME NEW i \in 1 .. Len(to_peer'), to_peer'[i].kind = "flow"
             PROVE  /\ to_peer'[i].credit
                          <= credit + ((delivery_count - to_peer'[i].dc) % Mod)
                    /\ ((delivery_count - to_peer'[i].dc) % Mod) + credit
                          <= GrantBound(grants)
  BY GrantPrime DEF FlowsBounded, FlowBounded, Since
<1>1. to_peer \in Seq(Frame)
  BY DEF TypeOK
<1>2. Len(to_peer') = Len(to_peer) - 1 /\ to_peer'[i] = to_peer[i + 1]
      /\ i + 1 \in 1 .. Len(to_peer)
  BY <1>1, HeadTailProperties
<1>3. QED
  BY <1>2 DEF FlowsBounded, FlowBounded, Since

LEMMA PeerFlowRInv ==
  ASSUME RInv, NoCreditWrap, PeerFlow
  PROVE  RInv'
<1> DEFINE f == Head(to_peer)
           L == Len(to_link)
<1>1. TypeOK /\ TypeOK'
  BY PeerReceiveType DEF RInv
<1>2. /\ to_peer # <<>> /\ f.kind = "flow" /\ to_peer' = Tail(to_peer)
      /\ peer_credit' = IF f.credit > (peer_dc - f.dc) % Mod
                        THEN f.credit - ((peer_dc - f.dc) % Mod) ELSE 0
      /\ UNCHANGED <<credit, delivery_count, grants, detaches, to_link,
                     peer_dc, overruns>>
  BY DEF PeerFlow, link_vars, app_vars
<1>3. credit' <= GrantBound(grants')
  BY <1>2 DEF RInv
<1>4. ASSUME overruns' = 0
      PROVE  CreditAccounting' /\ "limit" \notin Range(detaches')
  <2>1. CreditAccounting /\ "limit" \notin Range(detaches)
    BY <1>2, <1>4 DEF RInv
  <2>2. /\ to_peer \in Seq(Frame) /\ to_link \in Seq(Tid)
        /\ delivery_count \in 0 .. Mod - 1 /\ credit \in 0 .. Mod - 1
        /\ peer_credit \in Nat /\ grants \in 0 .. MaxGrants
    BY <1>1 DEF TypeOK
  <2>3. /\ 1 \in 1 .. Len(to_peer) /\ f = to_peer[1]
        /\ f.dc \in 0 .. Mod - 1 /\ f.credit \in Nat
    BY <1>1, <1>2, <2>2, FlowFields, EmptySeq
  <2>4. /\ f.credit <= credit + Since(f.dc)
        /\ Since(f.dc) + credit <= GrantBound(grants)
        /\ L + peer_credit <= credit
        /\ peer_dc = (delivery_count + L) % Mod
    BY <1>2, <2>1, <2>3 DEF CreditAccounting, FlowsBounded, FlowBounded,
                            CreditCovers, PeerCountAgrees
  <2>5. /\ Since(f.dc) \in 0 .. Mod - 1 /\ L \in Nat
        /\ GrantBound(grants) < Mod
    <3>1. delivery_count - f.dc \in Int
      BY <2>2, <2>3
    <3>2. Since(f.dc) \in 0 .. Mod - 1
      BY <3>1, ModRange DEF Since
    <3>3. L \in Nat
      BY <2>2
    <3>4. GrantBound(grants) < Mod
      BY <2>2, GrantMul
    <3>5. QED
      BY <3>2, <3>3, <3>4
  <2>6. (peer_dc - f.dc) % Mod = Since(f.dc) + L
    <3>1. \A d, dc, l \in Int :
            (((d + l) % Mod) - dc) % Mod = (((d - dc) % Mod) + l) % Mod
      BY SinceShift
    <3>2. (peer_dc - f.dc) % Mod = (Since(f.dc) + L) % Mod
      <4>1. delivery_count \in Int /\ f.dc \in Int /\ L \in Int
        BY <2>2, <2>3, <2>5
      <4>2. (((delivery_count + L) % Mod) - f.dc) % Mod
              = (((delivery_count - f.dc) % Mod) + L) % Mod
        BY <3>1, <4>1
      <4>3. QED
        BY <2>4, <4>2, Zenon DEF Since
    <3>3. Since(f.dc) + L \in 0 .. Mod - 1
      <4>1. \A sd \in 0 .. Mod - 1, l \in Nat, pc \in Nat, c \in 0 .. Mod - 1,
               gb \in Nat :
              l + pc <= c /\ sd + c <= gb /\ gb < Mod => sd + l \in 0 .. Mod - 1
        BY ReceiverAssumption
      <4>2. GrantBound(grants) \in Nat
        BY <2>2, GrantMul
      <4>3. QED
        BY <2>2, <2>4, <2>5, <4>1, <4>2, Zenon
    <3>4. QED
      BY <3>2, <3>3, ModSmall
  <2>7. CreditCovers'
    <3>1. \A fc \in Nat, sd \in 0 .. Mod - 1 :
            fc <= credit + sd =>
              L + (IF fc > sd + L THEN fc - (sd + L) ELSE 0) <= credit
      BY <2>2, <2>4, <2>5
    <3>2. L + peer_credit' <= credit
      BY <1>2, <2>3, <2>4, <2>5, <2>6, <3>1, Zenon
    <3>3. QED
      BY <1>2, <3>2 DEF CreditCovers
  <2>8. PeerCountAgrees'
    BY <1>2, <2>4 DEF PeerCountAgrees
  <2>9. FlowsBounded'
    BY <1>1, <1>2, <2>1, TailFlows DEF CreditAccounting
  <2>10. QED
    BY <1>2, <2>1, <2>7, <2>8, <2>9 DEF CreditAccounting
<1>5. QED
  BY <1>1, <1>3, <1>4, GrantPrime DEF RInv

LEMMA PeerDetachRInv ==
  ASSUME RInv, PeerDetach
  PROVE  RInv'
<1>1. TypeOK /\ TypeOK'
  BY PeerReceiveType DEF RInv
<1>2. /\ to_peer # <<>> /\ to_peer' = Tail(to_peer)
      /\ UNCHANGED <<credit, delivery_count, grants, detaches, to_link,
                     peer_dc, peer_credit, overruns>>
  BY DEF PeerDetach, link_vars, app_vars
<1>3. ASSUME overruns' = 0
      PROVE  CreditAccounting' /\ "limit" \notin Range(detaches')
  <2>1. CreditAccounting /\ "limit" \notin Range(detaches)
    BY <1>2, <1>3 DEF RInv
  <2>2. FlowsBounded'
    BY <1>1, <1>2, <2>1, TailFlows DEF CreditAccounting
  <2>3. QED
    BY <1>2, <2>1, <2>2 DEF CreditAccounting, CreditCovers, PeerCountAgrees
<1>4. QED
  BY <1>1, <1>2, <1>3, GrantPrime DEF RInv

LEMMA InitRInv == Init => RInv
<1> SUFFICES ASSUME Init PROVE RInv
  OBVIOUS
<1>1. TypeOK
  BY InitType
<1>2. GrantBound(0) = 0 /\ 0 % Mod = 0
  BY ReceiverAssumption DEF GrantBound
<1>3. Range(<<>>) = {}
  BY DEF Range
<1>4. QED
  BY <1>1, <1>2, <1>3 DEF Init, RInv, CreditAccounting, CreditCovers,
                          PeerCountAgrees, FlowsBounded

LEMMA NextRInv ==
  ASSUME NoCreditWrap
  PROVE  RInv /\ [Next]_vars => RInv'
<1> SUFFICES ASSUME RInv, [Next]_vars PROVE RInv'
  OBVIOUS
<1>1. CASE UNCHANGED vars
  BY <1>1 DEF vars, link_vars, app_vars, peer_vars, RInv, TypeOK,
              CreditAccounting, CreditCovers, PeerCountAgrees, FlowsBounded,
              FlowBounded, Since, GrantBound, Frame, Tid
<1>2. CASE Next
  BY <1>2, SetLinkCreditRInv, HandleTransferRInv, PollRInv, AppCloseRInv,
     PeerSendRInv, PeerFlowRInv, PeerDetachRInv DEF Next
<1>3. QED
  BY <1>1, <1>2

(* While the credit the application grants cannot wrap the u32, every     *)
(* reachable state keeps the credit accounting between set_link_credit,   *)
(* handle_transfer and a compliant peer.                                   *)
THEOREM ReceiverCreditInvariant == NoCreditWrap => (Spec => []RInv)
<1> SUFFICES ASSUME NoCreditWrap PROVE Spec => []RInv
  OBVIOUS
<1>1. RInv /\ [Next]_vars => RInv'
  BY NextRInv
<1>2. QED
  BY InitRInv, <1>1, PTL DEF Spec

(* handle_transfer closes the link with transfer-limit-exceeded only when  *)
(* the peer really sent beyond its credit, for every counter width and     *)
(* bound under which the granted credit cannot wrap.                       *)
THEOREM ReceiverLimitDetach ==
  NoCreditWrap => (Spec => []LimitDetachOnlyForOverrun)
<1>1. RInv => LimitDetachOnlyForOverrun
  BY DEF RInv, TypeOK, LimitDetachOnlyForOverrun
<1>2. QED
  BY ReceiverCreditInvariant, <1>1, PTL


-----------------------------------------------------------------------------
(* The link implements the lossy channel: the queue followed by the       *)
(* Transfers not yet handled is the channel's content.                     *)

LEMMA ChannelStutter ==
  ASSUME UNCHANGED <<queue, to_link, consumed, sent>>
  PROVE  [Channel!LossyNext]_Channel!vars
BY DEF Channel!vars

(* The initial link is the empty channel. *)
LEMMA InitRefines == Init => Channel!Init
BY DEF Init, Channel!Init

(* handle_transfer refusing the Transfer at the head of the input is the  *)
(* channel losing the element just after the queue.                        *)
LEMMA RefuseIsLose ==
  ASSUME NEW q \in Seq(Tid), NEW t \in Seq(Tid), t # <<>>
  PROVE  /\ Len(q) + 1 \in 1 .. Len(q \o t)
         /\ q \o Tail(t) = Channel!RemoveAt(q \o t, Len(q) + 1)
<1>1. Len(q \o t) = Len(q) + Len(t) /\ Len(q) \in Nat /\ Len(t) \in Nat \ {0}
  BY ConcatProperties, EmptySeq
<1>2. q \o Tail(t)
        = SubSeq(q \o t, 1, Len(q)) \o SubSeq(q \o t, Len(q) + 2, Len(q \o t))
  BY DropHead
<1>3. (Len(q) + 1) - 1 = Len(q) /\ (Len(q) + 1) + 1 = Len(q) + 2
  BY <1>1
<1>4. Channel!RemoveAt(q \o t, Len(q) + 1)
        = SubSeq(q \o t, 1, Len(q)) \o SubSeq(q \o t, Len(q) + 2, Len(q \o t))
  BY <1>3, Zenon DEF Channel!RemoveAt
<1>5. Len(q) + 1 \in 1 .. Len(q \o t)
  BY <1>1
<1>6. q \o Tail(t) = Channel!RemoveAt(q \o t, Len(q) + 1)
  BY <1>2, <1>4, Zenon
<1>7. QED
  BY <1>5, <1>6

(* Every step of the link is a step of the lossy channel or a stutter:    *)
(* handle_transfer moves a Transfer from the input to the queue or, with   *)
(* no credit, drops it (Lose); poll is Deliver; the peer's send is Send.   *)
(* The peer's send, for sequences of Transfers. *)
LEMMA TidAppend ==
  \A q, t \in Seq(Tid), x \in Tid : q \o Append(t, x) = Append(q \o t, x)
BY ConcatAppend

LEMMA NextRefines ==
  TypeOK /\ [Next]_vars => [Channel!LossyNext]_Channel!vars
<1> SUFFICES ASSUME TypeOK, [Next]_vars
             PROVE  [Channel!LossyNext]_Channel!vars
  OBVIOUS
<1>1. queue \in Seq(Tid) /\ to_link \in Seq(Tid) /\ consumed \in Seq(Tid)
      /\ sent \in 0 .. MaxTransfers
  BY DEF TypeOK
<1>2. CASE UNCHANGED vars
  BY <1>2, ChannelStutter DEF vars, link_vars, app_vars, peer_vars
<1>3. CASE \/ \E n \in 1 .. MaxGrant : SetLinkCredit(n)
           \/ AppClose \/ PeerFlow \/ PeerDetach
  <2>1. UNCHANGED <<queue, to_link, consumed, sent>>
    BY <1>3 DEF SetLinkCredit, AppClose, PeerFlow, PeerDetach, link_vars,
                app_vars, peer_vars
  <2>2. QED
    BY <2>1, ChannelStutter
<1>4. CASE HandleTransfer
  <2>1. to_link # <<>> /\ to_link' = Tail(to_link) /\ UNCHANGED <<consumed, sent>>
    BY <1>4 DEF HandleTransfer, peer_vars
  <2>2. CASE credit = 0
    <3>1. queue' = queue
      BY <1>4, <2>2 DEF HandleTransfer
    <3>2. /\ Len(queue) + 1 \in 1 .. Len(queue \o to_link)
          /\ queue \o Tail(to_link)
               = Channel!RemoveAt(queue \o to_link, Len(queue) + 1)
      BY <1>1, <2>1, RefuseIsLose
    <3>3. Channel!Lose
      BY <2>1, <3>1, <3>2 DEF Channel!Lose
    <3>4. QED
      BY <3>3 DEF Channel!LossyNext
  <2>3. CASE credit # 0
    <3>1. queue' = Append(queue, Head(to_link))
      BY <1>4, <2>3 DEF HandleTransfer
    <3>2. queue' \o to_link' = queue \o to_link
      BY <1>1, <2>1, <3>1, MoveHead
    <3>3. QED
      BY <2>1, <3>2 DEF Channel!vars
  <2>4. QED
    BY <2>2, <2>3
<1>5. CASE Poll
  <2>1. UNCHANGED <<to_link, sent>>
    BY <1>5 DEF Poll, peer_vars
  <2>2. CASE queue # <<>>
    <3>1. consumed' = Append(consumed, Head(queue)) /\ queue' = Tail(queue)
      BY <1>5, <2>2 DEF Poll
    <3>2. /\ queue \o to_link # <<>>
          /\ Head(queue \o to_link) = Head(queue)
          /\ Tail(queue \o to_link) = Tail(queue) \o to_link
      BY <1>1, <2>2, PopFront
    <3>3. Channel!Deliver
      BY <2>1, <3>1, <3>2 DEF Channel!Deliver
    <3>4. QED
      BY <3>3 DEF Channel!LossyNext, Channel!Next
  <2>3. CASE queue = <<>>
    <3>1. UNCHANGED <<queue, consumed>>
      BY <1>5, <2>3 DEF Poll
    <3>2. QED
      BY <2>1, <3>1, ChannelStutter
  <2>4. QED
    BY <2>2, <2>3
<1>6. CASE PeerSend \/ PeerOverrun
  <2>1. /\ to_link' = Append(to_link, sent + 1) /\ sent' = sent + 1
        /\ UNCHANGED <<queue, consumed>>
        /\ sent < MaxTransfers
    BY <1>6 DEF PeerSend, PeerOverrun, link_vars, app_vars
  <2>2. sent + 1 \in Tid
    BY <1>1, <2>1, ReceiverAssumption DEF Tid
  <2>3. queue \o Append(to_link, sent + 1) = Append(queue \o to_link, sent + 1)
    BY <1>1, <2>2, TidAppend, Zenon
  <2>4. Channel!Send
    BY <2>1, <2>3 DEF Channel!Send
  <2>5. QED
    BY <2>4 DEF Channel!LossyNext, Channel!Next
<1>7. QED
  BY <1>2, <1>3, <1>4, <1>5, <1>6 DEF Next

(* The link implements the safety part of the lossy channel, for every    *)
(* counter width and bound: the Stream yields the peer's Transfers only in *)
(* the order sent, each at most once, and the only Transfers that vanish   *)
(* are those handle_transfer refuses without credit.  (The liveness part,  *)
(* ImplementsLossyChannel, is checked by TLC.)                             *)
THEOREM ReceiverRefinesLossyChannel == Spec => Channel!LossySafeSpec
BY InitRefines, ReceiverTypeCorrect, NextRefines, PTL
   DEF Spec, Channel!LossySafeSpec

=============================================================================
