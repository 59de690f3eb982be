--------------------- MODULE LegacyReceiverLink_proofs ----------------------
(***************************************************************************)
(* Proofs about the legacy receiving link of src/link.rs, for every fixed *)
(* credit and every bound on calls, Transfers and overruns.                *)
(***************************************************************************)
EXTENDS LegacyReceiverLink, ChannelLemmas, TLAPS

(* The inductive invariant: the type, the arrival order, and two counts   *)
(* the type needs: the peer's delivery-count is the number it has sent,    *)
(* and handle_transfer has taken exactly what was yielded or is queued.    *)
LInv ==
  /\ TypeOK
  /\ InArrivalOrder
  /\ peer_dc = sent
  /\ handled = Len(consumed) + Len(queue)

-----------------------------------------------------------------------------
(* Concatenation of the link's sequences of Transfers is associative. *)
LEMMA TidConcat ==
  \A s, t, u \in Seq(Tid) : (s \o t) \o u = s \o (t \o u)
BY ConcatAssociative

(* The peer's send, for sequences of Transfers. *)
LEMMA TidAppend ==
  \A q, t \in Seq(Tid), x \in Tid : q \o Append(t, x) = Append(q \o t, x)
BY ConcatAppend

LEMMA InitLInv == Init => LInv
<1> SUFFICES ASSUME Init PROVE LInv
  OBVIOUS
<1>1. TypeOK
  <2>1. queue \in Seq(Tid) /\ consumed \in Seq(Tid) /\ to_link \in Seq(Tid)
        /\ to_peer \in Seq(Frame)
    BY DEF Init
  <2>2. handled \in 0 .. MaxTransfers /\ calls \in 0 .. MaxCalls
        /\ peer_dc \in 0 .. MaxTransfers /\ sent \in 0 .. MaxTransfers
        /\ peer_credit \in Nat
    BY LegacyAssumption DEF Init
  <2>3. overrun \in SUBSET Tid
    BY DEF Init
  <2>4. closed \in BOOLEAN /\ peer_detached \in BOOLEAN
        /\ reader \in {"polling", "parked", "done"}
    BY DEF Init
  <2>5. QED
    BY <2>1, <2>2, <2>3, <2>4 DEF TypeOK
<1>2. consumed \o queue \o to_link = [i \in 1 .. sent |-> i]
  <2>1. consumed \o queue \o to_link = <<>>
    BY DEF Init
  <2>2. [i \in 1 .. 0 |-> i] = <<>>
    OBVIOUS
  <2>3. QED
    BY <2>1, <2>2 DEF Init
<1>3. QED
  BY <1>1, <1>2 DEF LInv, InArrivalOrder, Init

(* A frame posted by the application changes only calls and to_peer. *)
LEMMA PostLInv ==
  ASSUME LInv, AppCall, NEW f \in Frame, Post(f)
  PROVE  LInv'
<1>1. to_peer' \in Seq(Frame) /\ calls' \in 0 .. MaxCalls
  BY LegacyAssumption DEF LInv, TypeOK, Post, AppCall
<1>2. QED
  BY <1>1 DEF LInv, TypeOK, InArrivalOrder, Post, link_vars, peer_vars

(* open, set_flow, send_disposition and close post a frame (close may do  *)
(* nothing); the link's queue and the Transfers are untouched.             *)
LEMMA AppCallLInv ==
  ASSUME LInv, Open \/ SetFlow \/ SendDisposition \/ Close
  PROVE  LInv'
<1>1. handled \in Nat
  BY DEF LInv, TypeOK
<1>2. CASE Open
  <2>1. [kind |-> "attach"] \in Frame
    BY DEF Frame
  <2>2. QED
    BY <1>2, <2>1, PostLInv DEF Open
<1>3. CASE SetFlow
  <2>1. [kind |-> "flow", dc |-> 0, credit |-> FixedCredit,
         handled |-> handled] \in Frame
    BY <1>1, LegacyAssumption DEF Frame
  <2>2. QED
    BY <1>3, <2>1, PostLInv DEF SetFlow
<1>4. CASE SendDisposition
  <2>1. [kind |-> "disposition"] \in Frame
    BY DEF Frame
  <2>2. QED
    BY <1>4, <2>1, PostLInv DEF SendDisposition
<1>5. CASE Close
  <2>1. [kind |-> "detach"] \in Frame
    BY DEF Frame
  <2>2. CASE closed
    <3>1. calls' \in 0 .. MaxCalls
      BY <1>5, LegacyAssumption DEF LInv, TypeOK, AppCall, Close
    <3>2. QED
      BY <1>5, <2>2, <3>1 DEF Close, LInv, TypeOK, InArrivalOrder, link_vars,
         peer_vars
  <2>3. CASE ~closed
    BY <1>5, <2>1, <2>3, PostLInv DEF Close
  <2>4. QED
    BY <2>2, <2>3
<1>6. QED
  BY <1>2, <1>3, <1>4, <1>5

(* handle_transfer moves the head of the input to the back of the queue. *)
LEMMA HandleTransferLInv ==
  ASSUME LInv, HandleTransfer
  PROVE  LInv'
<1>1. /\ to_link \in Seq(Tid) /\ to_link # <<>> /\ queue \in Seq(Tid)
      /\ consumed \in Seq(Tid)
      /\ queue' = Append(queue, Head(to_link)) /\ to_link' = Tail(to_link)
  BY DEF LInv, TypeOK, HandleTransfer, peer_vars
<1>2. Head(to_link) \in Tid /\ Tail(to_link) \in Seq(Tid)
  BY <1>1, HeadTailProperties
<1>3. consumed' \o queue' \o to_link' = consumed \o queue \o to_link
  <2>1. Append(queue, Head(to_link)) \o Tail(to_link) = queue \o to_link
    BY <1>1, MoveHead
  <2>2. Append(queue, Head(to_link)) \in Seq(Tid)
    BY <1>1, <1>2, AppendProperties
  <2>3. consumed \o Append(queue, Head(to_link)) \o Tail(to_link)
          = consumed \o (Append(queue, Head(to_link)) \o Tail(to_link))
    BY <1>1, <1>2, <2>2, TidConcat
  <2>4. consumed \o (queue \o to_link) = consumed \o queue \o to_link
    BY <1>1, TidConcat
  <2>5. QED
    BY <2>1, <2>3, <2>4 DEF HandleTransfer
<1>4. handled' = Len(consumed') + Len(queue')
  BY <1>1, <1>2, AppendProperties DEF LInv, HandleTransfer
<1>5. handled' \in 0 .. MaxTransfers
  <2>1. Len(consumed \o queue \o to_link) = sent
    BY SerialSeq DEF LInv, InArrivalOrder, TypeOK
  <2>2. Len(consumed \o queue \o to_link)
          = Len(consumed) + Len(queue) + Len(to_link)
    <3>1. consumed \o queue \in Seq(Tid)
          /\ Len(consumed \o queue) = Len(consumed) + Len(queue)
      BY <1>1, ConcatProperties
    <3>2. QED
      BY <1>1, <3>1, ConcatProperties
  <2>3. Len(to_link) >= 1
    BY <1>1, EmptySeq
  <2>4. Len(consumed) \in Nat /\ Len(queue) \in Nat /\ Len(to_link) \in Nat
    BY <1>1, LenProperties
  <2>5. handled' = handled + 1 /\ handled = Len(consumed) + Len(queue)
        /\ sent \in 0 .. MaxTransfers
    BY DEF LInv, TypeOK, HandleTransfer
  <2>6. QED
    BY <2>1, <2>2, <2>3, <2>4, <2>5, LegacyAssumption
<1>6. reader' \in {"polling", "parked", "done"}
  BY DEF HandleTransfer, Notify, LInv, TypeOK
<1>7. queue' \in Seq(Tid) /\ to_link' \in Seq(Tid)
  BY <1>1, <1>2, AppendProperties
<1>8. UNCHANGED <<closed, consumed, calls, to_peer, peer_dc, peer_credit,
                  peer_detached, sent, overrun>>
  BY DEF HandleTransfer, peer_vars
<1>9. QED
  BY <1>3, <1>4, <1>5, <1>6, <1>7, <1>8 DEF LInv, TypeOK, InArrivalOrder

(* poll yields the front of the queue, or parks or ends the reader. *)
LEMMA PollLInv ==
  ASSUME LInv, Poll
  PROVE  LInv'
<1>1. /\ to_link \in Seq(Tid) /\ queue \in Seq(Tid) /\ consumed \in Seq(Tid)
      /\ UNCHANGED <<closed, handled, calls, to_peer, to_link, peer_dc,
                     peer_credit, peer_detached, sent, overrun>>
  BY DEF LInv, TypeOK, Poll, peer_vars
<1>2. CASE queue # <<>>
  <2>1. consumed' = Append(consumed, Head(queue)) /\ queue' = Tail(queue)
        /\ reader' = reader
    BY <1>2 DEF Poll
  <2>2. Head(queue) \in Tid /\ Tail(queue) \in Seq(Tid)
        /\ Len(Tail(queue)) = Len(queue) - 1
    BY <1>1, <1>2, HeadTailProperties
  <2>3. consumed' \in Seq(Tid) /\ Len(consumed') = Len(consumed) + 1
    BY <1>1, <2>1, <2>2, AppendProperties
  <2>4. consumed' \o queue' = consumed \o queue
    BY <1>1, <1>2, <2>1, MoveHead
  <2>5. consumed' \o queue' \o to_link' = consumed \o queue \o to_link
    BY <1>1, <2>4
  <2>6. handled' = Len(consumed') + Len(queue')
    <3>1. Len(queue) \in Nat /\ Len(consumed) \in Nat
      BY <1>1, LenProperties
    <3>2. QED
      BY <1>1, <2>1, <2>2, <2>3, <3>1 DEF LInv
  <2>7. QED
    BY <1>1, <2>1, <2>2, <2>3, <2>5, <2>6 DEF LInv, TypeOK, InArrivalOrder
<1>3. CASE queue = <<>>
  <2>1. UNCHANGED <<queue, consumed>>
        /\ reader' \in {"polling", "parked", "done"}
    BY <1>3 DEF Poll
  <2>2. QED
    BY <1>1, <2>1 DEF LInv, TypeOK, InArrivalOrder
<1>4. QED
  BY <1>2, <1>3

(* The peer sends Transfer sent + 1, within credit or beyond it. *)
LEMMA PeerSendLInv ==
  ASSUME LInv, PeerSend
  PROVE  LInv'
<1>1. /\ to_link \in Seq(Tid) /\ queue \in Seq(Tid) /\ consumed \in Seq(Tid)
      /\ sent \in 0 .. MaxTransfers /\ sent < MaxTransfers
      /\ sent + 1 \in Tid
      /\ to_link' = Append(to_link, sent + 1) /\ sent' = sent + 1
      /\ peer_dc' = peer_dc + 1
      /\ UNCHANGED <<queue, closed, handled, reader, consumed, calls, to_peer,
                     peer_detached>>
  BY LegacyAssumption DEF LInv, TypeOK, PeerSend, Tid, link_vars, app_vars
<1>2. consumed \o queue \in Seq(Tid)
  BY <1>1, ConcatProperties
<1>3. consumed' \o queue' \o to_link' = [i \in 1 .. sent' |-> i]
  <2>1. (consumed \o queue) \o Append(to_link, sent + 1)
          = Append((consumed \o queue) \o to_link, sent + 1)
    <3>1. to_link \in Seq(Tid) /\ sent + 1 \in Tid
      BY <1>1
    <3>2. QED
      BY <1>2, <3>1, TidAppend, Zenon
  <2>2. Append([i \in 1 .. sent |-> i], sent + 1) = [i \in 1 .. sent + 1 |-> i]
    BY <1>1, AppendSerial
  <2>3. consumed' \o queue' \o to_link'
          = (consumed \o queue) \o Append(to_link, sent + 1)
    BY <1>1
  <2>4. (consumed \o queue) \o to_link = [i \in 1 .. sent |-> i]
    BY DEF LInv, InArrivalOrder
  <2>5. [i \in 1 .. sent' |-> i] = [i \in 1 .. sent + 1 |-> i]
    BY <1>1
  <2>6. QED
    BY <2>1, <2>2, <2>3, <2>4, <2>5
<1>4. /\ to_link' \in Seq(Tid)
      /\ peer_credit' \in Nat
      /\ overrun' \in SUBSET Tid
  BY <1>1, AppendProperties DEF LInv, TypeOK, PeerSend
<1>5. peer_dc' = sent' /\ sent' \in 0 .. MaxTransfers
      /\ peer_dc' \in 0 .. MaxTransfers
  BY <1>1, LegacyAssumption DEF LInv
<1>6. TypeOK'
  BY <1>1, <1>4, <1>5 DEF LInv, TypeOK
<1>7. QED
  BY <1>1, <1>3, <1>5, <1>6 DEF LInv, InArrivalOrder

(* The peer takes the next frame from the link's session. *)
LEMMA PeerReceiveLInv ==
  ASSUME LInv, PeerReceive
  PROVE  LInv'
<1> DEFINE f == Head(to_peer)
<1>1. /\ to_peer \in Seq(Frame) /\ to_peer # <<>>
      /\ to_peer' = Tail(to_peer)
      /\ UNCHANGED <<queue, closed, handled, reader, consumed, calls, to_link,
                     peer_dc, sent, overrun>>
  BY DEF LInv, TypeOK, PeerReceive, link_vars, app_vars
<1>2. f \in Frame /\ to_peer' \in Seq(Frame)
  BY <1>1, HeadTailProperties
<1>3. peer_credit' \in Nat
  <2>1. CASE f.kind = "flow"
    <3>1. f.dc \in Nat /\ f.credit \in Nat
      BY <1>2, <2>1 DEF Frame
    <3>2. peer_credit' = IF f.dc + f.credit > peer_dc
                         THEN f.dc + f.credit - peer_dc ELSE 0
      BY <2>1 DEF PeerReceive
    <3>3. peer_dc \in Nat
      BY LegacyAssumption DEF LInv, TypeOK
    <3>4. QED
      BY <3>1, <3>2, <3>3
  <2>2. CASE f.kind # "flow"
    BY <2>2 DEF PeerReceive, LInv, TypeOK
  <2>3. QED
    BY <2>1, <2>2
<1>4. peer_detached' \in BOOLEAN
  BY DEF PeerReceive
<1>5. QED
  BY <1>1, <1>2, <1>3, <1>4 DEF LInv, TypeOK, InArrivalOrder

(* LInv is inductive. *)
LEMMA NextLInv == LInv /\ [Next]_vars => LInv'
<1> SUFFICES ASSUME LInv, [Next]_vars PROVE LInv'
  OBVIOUS
<1>1. CASE UNCHANGED vars
  BY <1>1 DEF LInv, TypeOK, InArrivalOrder, vars, link_vars, app_vars,
     peer_vars
<1>2. CASE Next
  BY <1>2, AppCallLInv, HandleTransferLInv, PollLInv, PeerSendLInv,
     PeerReceiveLInv DEF Next
<1>3. QED
  BY <1>1, <1>2

(* The legacy link's invariant holds in every reachable state. *)
THEOREM LegacyInvariant == Spec => []LInv
BY InitLInv, NextLInv, PTL DEF Spec

(* Every reachable state of the legacy link is well typed, for every     *)
(* fixed credit and bound: in particular handle_transfer never takes more  *)
(* Transfers than the peer sent.                                           *)
THEOREM LegacyTypeCorrect == Spec => []TypeOK
<1>1. LInv => TypeOK
  BY DEF LInv
<1>2. QED
  BY <1>1, LegacyInvariant, PTL

(* The Stream of the legacy link yields the peer's Transfers in the order *)
(* sent, none lost or repeated, whatever the interleaving of              *)
(* handle_transfer, poll and the peer (VecDeque push_back/pop_front).      *)
THEOREM LegacyArrivalOrder == Spec => []InArrivalOrder
<1>1. LInv => InArrivalOrder
  BY DEF LInv
<1>2. QED
  BY <1>1, LegacyInvariant, PTL

-----------------------------------------------------------------------------
(* Refinement of the lossless channel of TransferChannel. *)

(* A step that leaves the queue, the input, what was yielded and the      *)
(* count of Transfers sent alone is a stutter of the channel.              *)
LEMMA ChannelStutter ==
  ASSUME UNCHANGED <<queue, to_link, consumed, sent>>
  PROVE  [Channel!Next]_Channel!vars
BY DEF Channel!vars

(* The initial link is the empty channel. *)
LEMMA InitRefines == Init => Channel!Init
BY DEF Init, Channel!Init

(* Every step of the link is a step of the channel or a stutter:          *)
(* handle_transfer only moves a Transfer from the input to the queue,      *)
(* poll is Deliver, and the peer's send is Send.                           *)
LEMMA NextRefines == LInv /\ [Next]_vars => [Channel!Next]_Channel!vars
<1> SUFFICES ASSUME LInv, [Next]_vars PROVE [Channel!Next]_Channel!vars
  OBVIOUS
<1>1. queue \in Seq(Tid) /\ to_link \in Seq(Tid) /\ consumed \in Seq(Tid)
      /\ sent \in 0 .. MaxTransfers
  BY DEF LInv, TypeOK
<1>2. CASE UNCHANGED vars
  BY <1>2, ChannelStutter DEF vars, link_vars, app_vars, peer_vars
<1>3. CASE Open \/ SetFlow \/ SendDisposition \/ Close
  <2>1. UNCHANGED <<queue, to_link, consumed, sent>>
    BY <1>3 DEF Open, SetFlow, SendDisposition, Close, Post, link_vars,
       peer_vars
  <2>2. QED
    BY <2>1, ChannelStutter
<1>4. CASE HandleTransfer
  <2>1. to_link # <<>> /\ queue' = Append(queue, Head(to_link))
        /\ to_link' = Tail(to_link)
        /\ UNCHANGED <<consumed, sent>>
    BY <1>4 DEF HandleTransfer, peer_vars
  <2>2. queue' \o to_link' = queue \o to_link
    BY <1>1, <2>1, MoveHead
  <2>3. QED
    BY <2>1, <2>2 DEF Channel!vars
<1>5. CASE Poll
  <2>1. UNCHANGED <<to_link, sent>>
    BY <1>5 DEF Poll, peer_vars
  <2>2. CASE queue # <<>>
    <3>1. consumed' = Append(consumed, Head(queue)) /\ queue' = Tail(queue)
      BY <1>5, <2>2 DEF Poll
    <3>2. /\ queue \o to_link # <<>>
          /\ Head(queue \o to_link) = Head(queue)
          /\ Tail(queue \o to_link) = Tail(queue) \o to_link
      BY <1>1, <2>2, PopFront
    <3>3. Channel!Deliver
      BY <2>1, <3>1, <3>2 DEF Channel!Deliver
    <3>4. QED
      BY <3>3 DEF Channel!Next
  <2>3. CASE queue = <<>>
    <3>1. UNCHANGED <<queue, consumed>>
      BY <1>5, <2>3 DEF Poll
    <3>2. QED
      BY <2>1, <3>1, ChannelStutter
  <2>4. QED
    BY <2>2, <2>3
<1>6. CASE PeerSend
  <2>1. /\ to_link' = Append(to_link, sent + 1) /\ sent' = sent + 1
        /\ UNCHANGED <<queue, consumed>>
        /\ sent + 1 \in Tid
    BY <1>1, <1>6, LegacyAssumption DEF PeerSend, link_vars, app_vars, Tid
  <2>2. queue \o Append(to_link, sent + 1) = Append(queue \o to_link, sent + 1)
    BY <1>1, <2>1, TidAppend, Zenon
  <2>3. Channel!Send
    BY <2>1, <2>2 DEF Channel!Send
  <2>4. QED
    BY <2>3 DEF Channel!Next
<1>7. CASE PeerReceive
  <2>1. UNCHANGED <<queue, to_link, consumed, sent>>
    BY <1>7 DEF PeerReceive, link_vars, app_vars
  <2>2. QED
    BY <2>1, ChannelStutter
<1>8. QED
  BY <1>2, <1>3, <1>4, <1>5, <1>6, <1>7 DEF Next

(* The legacy link implements the safety part of the lossless channel,    *)
(* for every fixed credit and bound: the Stream yields Transfers only in   *)
(* the order sent, each once, and handle_transfer drops none.  (That each *)
(* Transfer is eventually yielded is TransfersDelivered, checked by TLC.)  *)
THEOREM LegacyRefinesChannel == Spec => Channel!SafeSpec
BY InitRefines, LegacyInvariant, NextRefines, PTL DEF Spec, Channel!SafeSpec

=============================================================================
