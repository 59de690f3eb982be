-------------------------- MODULE SenderLink_proofs --------------------------
(***************************************************************************)
(* Proofs about SenderLink for every value of the constants.               *)
(***************************************************************************)
EXTENDS SenderLink, ChannelLemmas, SequenceTheorems, TLAPS

USE SenderAssumption
USE DEF link_vars, session_vars, peer_vars, vars

(* TypeOK split into its Boolean conjuncts, which Zenon handles, and the  *)
(* rest, which SMT handles.                                                *)
TypeArith ==
  /\ delivery_count \in 0 .. Mod - 1
  /\ link_credit \in 0 .. Mod - 1
  /\ pending_transfers \in Seq(Msg)
  /\ next_outgoing_id \in Nat
  /\ unsettled \subseteq Transfer
  /\ promise \in [Msg -> PromiseState]
  /\ sends \in 0 .. MaxMsgs
  /\ wire \in Seq(Transfer)
  /\ inbox \in Seq(Frame)
  /\ received \in Seq(Msg)
  /\ peer_unsettled \subseteq Nat
  /\ flows \in 0 .. MaxFlows
  /\ grant \in Nat

TypeBool == error \in BOOLEAN /\ peer_detached \in BOOLEAN

LEMMA TypeSplit == TypeOK <=> TypeArith /\ TypeBool
BY Zenon DEF TypeOK, TypeArith, TypeBool

(* What Session::send_transfer leaves behind is well typed, for any       *)
(* sequence of messages handed to it.                                      *)
LEMMA SendTransfersType ==
  ASSUME TypeArith, NEW ms \in Seq(Msg), SendTransfers(ms)
  PROVE  /\ wire' \in Seq(Transfer)
         /\ unsettled' \subseteq Transfer
         /\ next_outgoing_id' \in Nat
<1> DEFINE tr(i) == [msg |-> ms[i], id |-> next_outgoing_id + i - 1]
<1>1. \A i \in 1 .. Len(ms) : tr(i) \in Transfer
  BY DEF TypeArith, Transfer
<1>2. [i \in 1 .. Len(ms) |-> tr(i)] \in Seq(Transfer)
  BY <1>1
<1>3. wire \o [i \in 1 .. Len(ms) |-> tr(i)] \in Seq(Transfer)
  BY <1>2 DEF TypeArith
<1>4. QED
  BY <1>1, <1>3 DEF SendTransfers, TypeArith

(* A u32 computation reduced modulo 2^Width stays in range. *)
LEMMA ModRange ==
  ASSUME NEW x \in Int
  PROVE  x % Mod \in 0 .. Mod - 1
BY SenderAssumption

(* The quantities apply_flow computes from the Flow at the head of the    *)
(* inbox: the wrapped delta, the new credit, and the number of pending     *)
(* transfers it drains.                                                    *)
FlowDelta ==
  (Head(inbox).dc + Head(inbox).credit - (delivery_count + link_credit)) % Mod
FlowCredit == (link_credit + FlowDelta) % Mod
FlowDrain ==
  IF link_credit # 0 THEN 0
  ELSE IF Len(pending_transfers) <= FlowCredit THEN Len(pending_transfers)
       ELSE FlowCredit

(* An apply_flow step, restated with the three quantities named and their  *)
(* ranges established.                                                     *)
LEMMA ApplyFlowShape ==
  ASSUME TypeArith, ApplyFlow
  PROVE  /\ inbox # <<>> /\ Head(inbox) \in Frame
         /\ inbox' = Tail(inbox) /\ grant' = Head(inbox).limit
         /\ UNCHANGED <<promise, sends, received, peer_unsettled, flows>>
         /\ FlowDelta \in 0 .. Mod - 1
         /\ FlowCredit \in 0 .. Mod - 1
         /\ FlowDrain \in 0 .. Len(pending_transfers)
         /\ FlowCredit - FlowDrain \in 0 .. Mod - 1
         /\ \/ /\ FlowDelta # 0
               /\ link_credit' = FlowCredit - FlowDrain
               /\ delivery_count' = (delivery_count + FlowDrain) % Mod
               /\ pending_transfers' =
                    SubSeq(pending_transfers, FlowDrain + 1,
                           Len(pending_transfers))
               /\ SendTransfers(SubSeq(pending_transfers, 1, FlowDrain))
            \/ /\ FlowDelta = 0
               /\ link_credit' = (link_credit + link_credit) % Mod
               /\ UNCHANGED <<delivery_count, pending_transfers, wire,
                              unsettled, next_outgoing_id>>
<1> DEFINE f == Head(inbox)
<1>1. inbox # <<>> /\ f \in Frame /\ inbox' = Tail(inbox) /\ grant' = f.limit
      /\ UNCHANGED <<promise, sends, received, peer_unsettled, flows>>
  BY DEF ApplyFlow, TypeArith
<1>2. f.dc \in Int /\ f.credit \in Int
  BY <1>1, SenderAssumption DEF Frame
<1>3. FlowDelta \in 0 .. Mod - 1
  <2>1. f.dc + f.credit - (delivery_count + link_credit) \in Int
    BY <1>2 DEF TypeArith
  <2>2. QED
    BY <2>1, ModRange DEF FlowDelta
<1>4. FlowCredit \in 0 .. Mod - 1
  <2>1. link_credit + FlowDelta \in Int
    BY <1>3 DEF TypeArith
  <2>2. QED
    BY <2>1, ModRange DEF FlowCredit
<1>5. FlowDrain \in 0 .. Len(pending_transfers)
      /\ FlowCredit - FlowDrain \in 0 .. Mod - 1
  BY <1>4 DEF FlowDrain, TypeArith
<1>6. \/ /\ FlowDelta # 0
         /\ link_credit' = FlowCredit - FlowDrain
         /\ delivery_count' = (delivery_count + FlowDrain) % Mod
         /\ pending_transfers' =
              SubSeq(pending_transfers, FlowDrain + 1, Len(pending_transfers))
         /\ SendTransfers(SubSeq(pending_transfers, 1, FlowDrain))
      \/ /\ FlowDelta = 0
         /\ link_credit' = (link_credit + link_credit) % Mod
         /\ UNCHANGED <<delivery_count, pending_transfers, wire,
                        unsettled, next_outgoing_id>>
  BY Zenon DEF ApplyFlow, FlowDelta, FlowCredit, FlowDrain
<1>8. QED
  BY <1>1, <1>3, <1>4, <1>5, <1>6

(* Every step keeps the two flags Boolean: they are only set to TRUE. *)
LEMMA NextTypeBool == TypeBool /\ [Next]_vars => TypeBool'
BY Zenon DEF TypeBool, Next, vars, link_vars, peer_vars, SendQueued, SendNow,
   ApplyFlow, DropFlow, HandleDisposition, Detached, SetError, FailLink,
   PeerReceive, PeerFlow, PeerSettle, PeerDetach

LEMMA NextTypeArith == TypeArith /\ [Next]_vars => TypeArith'
<1> SUFFICES ASSUME TypeArith, [Next]_vars PROVE TypeArith'
  OBVIOUS
<1>1. CASE SendQueued
  BY <1>1 DEF SendQueued, TypeArith, Msg, PromiseState
<1>2. CASE SendNow
  <2>1. <<sends + 1>> \in Seq(Msg)
    BY <1>2 DEF SendNow, TypeArith, Msg
  <2>2. /\ wire' \in Seq(Transfer)
        /\ unsettled' \subseteq Transfer
        /\ next_outgoing_id' \in Nat
    BY <1>2, <2>1, SendTransfersType DEF SendNow
  <2>3. QED
    BY <1>2, <2>2 DEF SendNow, TypeArith, Msg, PromiseState
<1>3. CASE ApplyFlow
  <2>1. /\ SubSeq(pending_transfers, 1, FlowDrain) \in Seq(Msg)
        /\ SubSeq(pending_transfers, FlowDrain + 1, Len(pending_transfers))
             \in Seq(Msg)
    <3>1. \A i \in 1 .. Len(pending_transfers) : pending_transfers[i] \in Msg
      BY DEF TypeArith
    <3>2. FlowDrain \in Int /\ Len(pending_transfers) \in Int
      BY <1>3, ApplyFlowShape DEF TypeArith
    <3>3. QED
      BY <3>1, <3>2, <1>3, ApplyFlowShape, SubSeqProperties
  <2>2. Head(inbox).limit \in Nat /\ inbox' \in Seq(Frame)
    <3>1. Head(inbox) \in Frame /\ inbox' = Tail(inbox) /\ inbox # <<>>
      BY <1>3, ApplyFlowShape
    <3>2. Head(inbox).limit \in Nat
      BY <3>1 DEF Frame
    <3>3. QED
      BY <3>1, <3>2 DEF TypeArith
  <2>3. CASE FlowDelta # 0
    <3>1. /\ wire' \in Seq(Transfer)
          /\ unsettled' \subseteq Transfer
          /\ next_outgoing_id' \in Nat
      BY <1>3, <2>1, <2>3, ApplyFlowShape, SendTransfersType
    <3>2. (delivery_count + FlowDrain) % Mod \in 0 .. Mod - 1
      <4>1. delivery_count + FlowDrain \in Int
        BY <1>3, ApplyFlowShape DEF TypeArith
      <4>2. QED
        BY <4>1, ModRange
    <3>3. QED
      BY <1>3, <2>1, <2>2, <2>3, <3>1, <3>2, ApplyFlowShape DEF TypeArith
  <2>4. CASE FlowDelta = 0
    <3>1. (link_credit + link_credit) % Mod \in 0 .. Mod - 1
      <4>1. link_credit + link_credit \in Int
        BY DEF TypeArith
      <4>2. QED
        BY <4>1, ModRange
    <3>2. QED
      BY <1>3, <2>2, <2>4, <3>1, ApplyFlowShape DEF TypeArith
  <2>5. QED
    BY <2>3, <2>4
<1>4. CASE DropFlow
  BY <1>4 DEF DropFlow, TypeArith
<1>5. CASE HandleDisposition
  BY <1>5 DEF HandleDisposition, TypeArith, PromiseState
<1>6. CASE Detached
  BY <1>6 DEF Detached, FailLink, TypeArith, PromiseState
<1>7. CASE SetError
  BY <1>7 DEF SetError, FailLink, TypeArith, PromiseState
<1>8. CASE PeerReceive
  <2>1. Head(wire) \in Transfer
    BY <1>8 DEF PeerReceive, TypeArith
  <2>2. Head(wire).msg \in Msg /\ Head(wire).id \in Nat
    BY <2>1 DEF Transfer
  <2>3. /\ received' = Append(received, Head(wire).msg)
        /\ peer_unsettled' = peer_unsettled \cup {Head(wire).id}
    BY <1>8, Zenon DEF PeerReceive
  <2>4. received' \in Seq(Msg)
    BY <2>2, <2>3 DEF TypeArith
  <2>5. peer_unsettled' \subseteq Nat
    BY <2>2, <2>3 DEF TypeArith
  <2>6. wire' \in Seq(Transfer)
    BY <1>8 DEF PeerReceive, TypeArith
  <2>7. QED
    BY <1>8, <2>4, <2>5, <2>6 DEF PeerReceive, TypeArith
<1>9. ASSUME NEW c \in 0 .. MaxCredit, PeerFlow(c)
      PROVE  TypeArith'
  <2>1. FlowFrame(Len(received) % Mod, c, Len(received) + c) \in Frame
    BY DEF FlowFrame, Frame, TypeArith
  <2>2. QED
    BY <1>9, <2>1 DEF PeerFlow, TypeArith
<1>10. ASSUME NEW first \in peer_unsettled, NEW last \in peer_unsettled,
              PeerSettle(first, last)
       PROVE  TypeArith'
  <2>1. DispositionFrame(first, last) \in Frame
    BY DEF DispositionFrame, Frame, TypeArith
  <2>2. peer_unsettled' \subseteq Nat
    BY <1>10 DEF PeerSettle, TypeArith
  <2>3. inbox' \in Seq(Frame)
    BY <1>10, <2>1 DEF PeerSettle, TypeArith
  <2>4. QED
    BY <1>10, <2>2, <2>3 DEF PeerSettle, TypeArith
<1>11. CASE PeerDetach
  <2>1. DetachFrame \in Frame
    BY DEF DetachFrame, Frame
  <2>2. QED
    BY <1>11, <2>1 DEF PeerDetach, TypeArith
<1>12. CASE UNCHANGED vars
  BY <1>12 DEF vars, link_vars, session_vars, peer_vars, TypeArith
<1>13. QED
  BY <1>1, <1>2, <1>3, <1>4, <1>5, <1>6, <1>7, <1>8, <1>9, <1>10,
     <1>11, <1>12 DEF Next

(* The specification keeps every variable in its type. *)
THEOREM TypeCorrect == Spec => []TypeOK
<1>1. Init => TypeArith
  BY DEF Init, TypeArith, PromiseState
<1>2. Init => TypeBool
  BY DEF Init, TypeBool
<1>3. QED
  BY <1>1, <1>2, NextTypeArith, NextTypeBool, TypeSplit, PTL DEF Spec

-----------------------------------------------------------------------------

(* apply_flow keeps "queued implies starved": it drains only from a link  *)
(* with zero credit, and stops either with the queue empty or with the     *)
(* credit spent; the delta = 0 branch doubles a zero credit to zero.       *)
LEMMA ApplyFlowStarved ==
  ASSUME TypeArith, PendingOnlyWhenStarved, ApplyFlow
  PROVE  PendingOnlyWhenStarved'
<1>1. CASE pending_transfers = <<>>
  <2>1. FlowDrain = 0
    BY <1>1, ApplyFlowShape
  <2>2. SubSeq(pending_transfers, FlowDrain + 1, Len(pending_transfers)) = <<>>
    BY <1>1, <2>1
  <2>3. QED
    BY <1>1, <2>2, ApplyFlowShape DEF PendingOnlyWhenStarved
<1>2. CASE pending_transfers # <<>>
  <2>1. link_credit = 0
    BY <1>2 DEF PendingOnlyWhenStarved
  <2>2. CASE FlowDelta # 0
    <3>1. \/ FlowDrain = Len(pending_transfers)
          \/ FlowCredit - FlowDrain = 0
      BY <2>1, ApplyFlowShape DEF FlowDrain
    <3>2. Len(pending_transfers) \in Nat
      BY DEF TypeArith
    <3>3. FlowDrain = Len(pending_transfers) =>
            SubSeq(pending_transfers, FlowDrain + 1,
                   Len(pending_transfers)) = <<>>
      BY <3>2
    <3>4. QED
      BY <2>2, <3>1, <3>3, ApplyFlowShape DEF PendingOnlyWhenStarved
  <2>3. CASE FlowDelta = 0
    BY <2>1, <2>3, ApplyFlowShape DEF PendingOnlyWhenStarved
  <2>4. QED
    BY <2>2, <2>3
<1>3. QED
  BY <1>1, <1>2

(* Every step keeps "queued implies starved". *)
LEMMA NextStarved ==
  TypeArith /\ PendingOnlyWhenStarved /\ [Next]_vars => PendingOnlyWhenStarved'
<1> SUFFICES ASSUME TypeArith, PendingOnlyWhenStarved, [Next]_vars
             PROVE  PendingOnlyWhenStarved'
  OBVIOUS
<1> USE DEF PendingOnlyWhenStarved
<1>1. CASE SendQueued
  BY <1>1 DEF SendQueued
<1>2. CASE SendNow
  BY <1>2 DEF SendNow
<1>3. CASE ApplyFlow
  BY <1>3, ApplyFlowStarved
<1>4. CASE DropFlow \/ HandleDisposition \/ PeerReceive \/ PeerDetach
  BY <1>4 DEF DropFlow, HandleDisposition, PeerReceive, PeerDetach
<1>5. CASE Detached \/ SetError
  BY <1>5 DEF Detached, SetError, FailLink
<1>6. ASSUME NEW c \in 0 .. MaxCredit, PeerFlow(c)
      PROVE  PendingOnlyWhenStarved'
  BY <1>6 DEF PeerFlow
<1>7. ASSUME NEW first \in peer_unsettled, NEW last \in peer_unsettled,
             PeerSettle(first, last)
      PROVE  PendingOnlyWhenStarved'
  BY <1>7 DEF PeerSettle
<1>8. CASE UNCHANGED vars
  BY <1>8
<1>9. QED
  BY <1>1, <1>2, <1>3, <1>4, <1>5, <1>6, <1>7, <1>8 DEF Next

(* The inductive invariant: the types with "queued implies starved". *)
StarvedInv == TypeArith /\ TypeBool /\ PendingOnlyWhenStarved

(* The initial state satisfies the inductive invariant. *)
LEMMA InitStarved == Init => StarvedInv
<1>1. Init => TypeArith
  BY DEF Init, TypeArith, PromiseState
<1>2. Init => TypeBool
  BY DEF Init, TypeBool
<1>3. Init => PendingOnlyWhenStarved
  BY DEF Init, PendingOnlyWhenStarved
<1>4. QED
  BY <1>1, <1>2, <1>3 DEF StarvedInv

(* send() never leaves a message queued beside unused credit: the pending  *)
(* queue is non-empty only while link_credit is zero (the condition under  *)
(* which apply_flow drains it), for every width and every bound.           *)
THEOREM StarvedQueue == Spec => []PendingOnlyWhenStarved
<1>1. Init => StarvedInv
  BY InitStarved
<1>2. StarvedInv /\ [Next]_vars => StarvedInv'
  BY NextTypeArith, NextTypeBool, NextStarved DEF StarvedInv
<1>3. StarvedInv => PendingOnlyWhenStarved
  BY DEF StarvedInv
<1>4. QED
  BY <1>1, <1>2, <1>3, PTL DEF Spec

-----------------------------------------------------------------------------
(* The order of the sent stream. *)

HIDE SenderAssumption

(* The messages on the wire, oldest first. *)
WireMsgs == [i \in 1 .. Len(wire) |-> wire[i].msg]

(* s is strictly increasing. *)
Ascending(s) == \A i, j \in 1 .. Len(s) : i < j => s[i] < s[j]

(* Every message of the stream comes from a send() call already made. *)
StreamBelowSends == \A i \in 1 .. Len(SentStream) : SentStream[i] \in 1 .. sends

LEMMA StreamSplit ==
  SentStream = (received \o WireMsgs) \o pending_transfers
BY DEF SentStream, WireMsgs

LEMMA WireMsgsType ==
  ASSUME TypeArith
  PROVE  WireMsgs \in Seq(Msg) /\ Len(WireMsgs) = Len(wire)
<1>1. \A i \in 1 .. Len(wire) : wire[i] \in Transfer
  BY DEF TypeArith
<1>2. \A i \in 1 .. Len(wire) : wire[i].msg \in Msg
  BY <1>1 DEF Transfer
<1>3. QED
  BY <1>2 DEF WireMsgs, TypeArith

(* Appending a number above every element keeps a stream ascending. *)
LEMMA AscendingAppend ==
  ASSUME NEW s \in Seq(Int), NEW n \in Nat, Ascending(s),
         \A i \in 1 .. Len(s) : s[i] \in 1 .. n
  PROVE  /\ Ascending(Append(s, n + 1))
         /\ \A i \in 1 .. Len(Append(s, n + 1)) :
              Append(s, n + 1)[i] \in 1 .. n + 1
BY DEF Ascending

(* A prefix of an ascending stream is ascending, with the same bound. *)
LEMMA AscendingPrefix ==
  ASSUME NEW s \in Seq(Int), NEW t \in Seq(Int), NEW n \in Nat,
         Ascending(s \o t), \A i \in 1 .. Len(s \o t) : (s \o t)[i] \in 1 .. n
  PROVE  Ascending(s) /\ \A i \in 1 .. Len(s) : s[i] \in 1 .. n
<1>1. /\ s \o t \in Seq(Int)
      /\ Len(s \o t) = Len(s) + Len(t)
      /\ \A i \in 1 .. Len(s) + Len(t) :
           (s \o t)[i] = IF i <= Len(s) THEN s[i] ELSE t[i - Len(s)]
  BY ConcatProperties
<1>2. Len(s) \in Nat /\ Len(t) \in Nat
  BY LenProperties
<1>3. \A i \in 1 .. Len(s) : i \in 1 .. Len(s \o t) /\ (s \o t)[i] = s[i]
  BY <1>1, <1>2
<1>4. Ascending(s)
  <2> SUFFICES ASSUME NEW i \in 1 .. Len(s), NEW j \in 1 .. Len(s), i < j
               PROVE  s[i] < s[j]
    BY DEF Ascending
  <2>1. (s \o t)[i] < (s \o t)[j]
    BY <1>3 DEF Ascending
  <2>2. QED
    BY <1>3, <2>1
<1>5. QED
  BY <1>3, <1>4

(* The tail of an ascending stream is ascending. *)
LEMMA AscendingSuffix ==
  ASSUME NEW s \in Seq(Int), NEW t \in Seq(Int), Ascending(s \o t)
  PROVE  Ascending(t)
<1>1. /\ s \o t \in Seq(Int)
      /\ Len(s \o t) = Len(s) + Len(t)
      /\ \A i \in 1 .. Len(s) + Len(t) :
           (s \o t)[i] = IF i <= Len(s) THEN s[i] ELSE t[i - Len(s)]
  BY ConcatProperties
<1>2. Len(s) \in Nat /\ Len(t) \in Nat
  BY LenProperties
<1>3. \A i \in 1 .. Len(t) : Len(s) + i \in 1 .. Len(s \o t)
                             /\ (s \o t)[Len(s) + i] = t[i]
  BY <1>1, <1>2
<1>4. SUFFICES ASSUME NEW i \in 1 .. Len(t), NEW j \in 1 .. Len(t)
               PROVE  i < j => t[i] < t[j]
  BY DEF Ascending
<1>5. HAVE i < j
<1>6. Len(s) + i < Len(s) + j
  BY <1>2, <1>5
<1>7. (s \o t)[Len(s) + i] < (s \o t)[Len(s) + j]
  BY <1>3, <1>6 DEF Ascending
<1>8. QED
  BY <1>3, <1>7

(* Session::send_transfer puts the messages of ms on the wire in order. *)
LEMMA SendTransfersMsgs ==
  ASSUME TypeArith, NEW ms \in Seq(Msg), SendTransfers(ms)
  PROVE  WireMsgs' = WireMsgs \o ms
<1> DEFINE tr(i) == [msg |-> ms[i], id |-> next_outgoing_id + i - 1]
           T == [i \in 1 .. Len(ms) |-> tr(i)]
<1>1. wire' = wire \o T
  BY DEF SendTransfers
<1>2. wire \in Seq(Transfer) /\ T \in Seq(Transfer) /\ Len(T) = Len(ms)
      /\ \A k \in 1 .. Len(ms) : T[k].msg = ms[k]
  <2>1. Len(ms) \in Nat /\ \A k \in 1 .. Len(ms) : ms[k] \in Msg
    BY LenProperties, ElementOfSeq
  <2>2. \A k \in 1 .. Len(ms) : tr(k) \in Transfer
    BY <2>1, TypeArith DEF TypeArith, Transfer
  <2>3. T \in Seq(Transfer)
    BY <2>1, <2>2, IsASeq
  <2>4. QED
    BY <2>1, <2>3 DEF TypeArith
<1>3. /\ wire' \in Seq(Transfer)
      /\ Len(wire') = Len(wire) + Len(ms)
      /\ \A i \in 1 .. Len(wire') :
           wire'[i] = IF i <= Len(wire) THEN wire[i] ELSE T[i - Len(wire)]
  <2>1. /\ wire \o T \in Seq(Transfer)
        /\ Len(wire \o T) = Len(wire) + Len(T)
        /\ \A i \in 1 .. Len(wire) + Len(T) :
             (wire \o T)[i] = IF i <= Len(wire) THEN wire[i] ELSE T[i - Len(wire)]
    BY <1>2, ConcatProperties
  <2>2. QED
    BY <1>1, <1>2, <2>1
<1>4. WireMsgs \in Seq(Msg) /\ Len(WireMsgs) = Len(wire)
  BY WireMsgsType
<1>5. WireMsgs' \in Seq(Msg) /\ Len(WireMsgs') = Len(wire) + Len(ms)
  <2>1. \A i \in 1 .. Len(wire') : wire'[i].msg \in Msg
    <3>1. \A i \in 1 .. Len(wire') : wire'[i] \in Transfer
      BY <1>3, ElementOfSeq
    <3>2. QED
      BY <3>1 DEF Transfer
  <2>2. Len(wire') \in Nat
    BY <1>3, LenProperties
  <2>3. WireMsgs' \in Seq(Msg)
    BY <2>1, <2>2, IsASeq DEF WireMsgs
  <2>4. QED
    BY <1>3, <2>2, <2>3 DEF WireMsgs
<1>6. WireMsgs \o ms \in Seq(Msg) /\ Len(WireMsgs \o ms) = Len(wire) + Len(ms)
      /\ \A i \in 1 .. Len(wire) + Len(ms) :
           (WireMsgs \o ms)[i] = IF i <= Len(wire) THEN WireMsgs[i]
                                 ELSE ms[i - Len(wire)]
  <2>1. /\ WireMsgs \o ms \in Seq(Msg)
        /\ Len(WireMsgs \o ms) = Len(WireMsgs) + Len(ms)
        /\ \A i \in 1 .. Len(WireMsgs) + Len(ms) :
             (WireMsgs \o ms)[i] = IF i <= Len(WireMsgs) THEN WireMsgs[i]
                                   ELSE ms[i - Len(WireMsgs)]
    BY <1>4, ConcatProperties
  <2>2. QED
    BY <1>4, <2>1
<1>7. \A i \in 1 .. Len(wire) + Len(ms) : WireMsgs'[i] = (WireMsgs \o ms)[i]
  <2> SUFFICES ASSUME NEW i \in 1 .. Len(wire) + Len(ms)
               PROVE  WireMsgs'[i] = (WireMsgs \o ms)[i]
    OBVIOUS
  <2>1. WireMsgs'[i] = wire'[i].msg
    BY <1>3 DEF WireMsgs
  <2>2. CASE i <= Len(wire)
    <3>0. i \in 1 .. Len(wire) /\ i \in 1 .. Len(wire')
      BY <1>3, <2>2
    <3>1. wire'[i] = wire[i] /\ WireMsgs[i] = wire[i].msg
      BY <1>3, <2>2, <3>0 DEF WireMsgs
    <3>2. QED
      BY <1>6, <2>1, <2>2, <3>1
  <2>3. CASE ~(i <= Len(wire))
    <3>1. i - Len(wire) \in 1 .. Len(ms)
      BY <1>3, <2>3, LenProperties DEF TypeArith
    <3>2. wire'[i] = T[i - Len(wire)]
      BY <1>3, <2>3
    <3>3. QED
      BY <1>2, <1>6, <2>1, <2>3, <3>1, <3>2
  <2>4. QED
    BY <2>2, <2>3
<1>8. QED
  BY <1>5, <1>6, <1>7, SeqEqual

(* The peer receiving the oldest Transfer moves its message from the wire *)
(* to the received stream.                                                 *)
LEMMA PeerReceiveMsgs ==
  ASSUME TypeArith, PeerReceive
  PROVE  received' \o WireMsgs' = received \o WireMsgs
<1>1. /\ wire # <<>> /\ wire' = Tail(wire)
      /\ received' = Append(received, Head(wire).msg)
  BY DEF PeerReceive
<1>2. WireMsgs \in Seq(Msg) /\ Len(WireMsgs) = Len(wire) /\ received \in Seq(Msg)
  BY WireMsgsType DEF TypeArith
<1>3. WireMsgs # <<>> /\ Head(WireMsgs) = Head(wire).msg
  <2>1. Len(wire) \in Nat \ {0}
    BY <1>1, EmptySeq DEF TypeArith
  <2>2. Len(WireMsgs) # 0
    BY <1>2, <2>1
  <2>3. QED
    BY <2>1, <2>2 DEF WireMsgs
<1>4. WireMsgs' = Tail(WireMsgs)
  <2>1. /\ Tail(wire) \in Seq(Transfer)
        /\ Len(Tail(wire)) = Len(wire) - 1
        /\ \A i \in 1 .. Len(Tail(wire)) : Tail(wire)[i] = wire[i + 1]
    <3>1. wire \in Seq(Transfer)
      BY DEF TypeArith
    <3>2. QED
      BY <1>1, <3>1, HeadTailProperties
  <2>2. /\ Tail(WireMsgs) \in Seq(Msg)
        /\ Len(Tail(WireMsgs)) = Len(WireMsgs) - 1
        /\ \A i \in 1 .. Len(Tail(WireMsgs)) : Tail(WireMsgs)[i] = WireMsgs[i + 1]
    BY <1>2, <1>3, HeadTailProperties
  <2>3. Len(wire) \in Nat \ {0}
    BY <1>1, EmptySeq DEF TypeArith
  <2>4. \A i \in 1 .. Len(wire) - 1 : wire[i + 1].msg \in Msg
    <3>1. \A i \in 1 .. Len(wire) - 1 : wire[i + 1] \in Transfer
      BY <2>3, ElementOfSeq DEF TypeArith
    <3>2. QED
      BY <3>1 DEF Transfer
  <2>5. WireMsgs' = [i \in 1 .. Len(wire) - 1 |-> wire[i + 1].msg]
    BY <1>1, <2>1 DEF WireMsgs
  <2>6. WireMsgs' \in Seq(Msg) /\ Len(WireMsgs') = Len(wire) - 1
    BY <2>3, <2>4, <2>5, IsASeq
  <2>7. \A i \in 1 .. Len(wire) - 1 : WireMsgs'[i] = WireMsgs[i + 1]
    BY <2>3, <2>5 DEF WireMsgs
  <2>8. QED
    BY <1>2, <2>2, <2>6, <2>7, SeqEqual
<1>5. QED
  BY <1>1, <1>2, <1>3, <1>4, MoveHead

(* The sent stream of the next state, written with WireMsgs. *)
LEMMA StreamSplitPrime ==
  SentStream' = (received' \o WireMsgs') \o pending_transfers'
BY DEF SentStream, WireMsgs

(* The stream and its two parts are sequences of messages, and so of      *)
(* integers.                                                               *)
LEMMA StreamTypes ==
  ASSUME TypeArith
  PROVE  /\ received \o WireMsgs \in Seq(Msg)
         /\ pending_transfers \in Seq(Msg)
         /\ SentStream \in Seq(Int)
         /\ received \o WireMsgs \in Seq(Int)
         /\ sends \in Nat
<1>1. WireMsgs \in Seq(Msg) /\ received \in Seq(Msg)
      /\ pending_transfers \in Seq(Msg)
  BY WireMsgsType DEF TypeArith
<1>2. received \o WireMsgs \in Seq(Msg)
  BY <1>1, ConcatProperties
<1>3. (received \o WireMsgs) \o pending_transfers \in Seq(Msg)
  BY <1>1, <1>2, ConcatProperties
<1>4. \A s \in Seq(Msg) : s \in Seq(Int)
  <2>1. Msg \subseteq Int
    BY DEF Msg
  <2>2. QED
    BY <2>1, SeqMonotonic
<1>5. QED
  BY <1>1, <1>2, <1>3, <1>4, StreamSplit DEF TypeArith

(* Concatenation of message sequences is associative. *)
LEMMA MsgConcatAssoc ==
  \A a, b, c \in Seq(Msg) : (a \o b) \o c = a \o (b \o c)
BY ConcatAssociative

(* The stream is ascending and made of messages already passed to send(). *)
StreamOK == Ascending(SentStream) /\ StreamBelowSends

(* send() without credit appends the new message to the queue, so to the  *)
(* stream, above every message in it.                                      *)
LEMMA SendQueuedOrder ==
  ASSUME TypeArith, StreamOK, SendQueued
  PROVE  StreamOK'
<1>1. /\ sends < MaxMsgs /\ sends' = sends + 1
      /\ pending_transfers' = Append(pending_transfers, sends + 1)
      /\ received' = received /\ wire' = wire
  BY DEF SendQueued
<1>2. WireMsgs' = WireMsgs
  BY <1>1 DEF WireMsgs
<1>3. sends + 1 \in Msg
  <2>1. sends \in 0 .. MaxMsgs
    BY DEF TypeArith
  <2>2. QED
    BY <1>1, <2>1, SenderAssumption DEF Msg
<1>4. SentStream' = Append(SentStream, sends + 1)
  <2>1. SentStream' = (received \o WireMsgs) \o Append(pending_transfers, sends + 1)
    BY <1>1, <1>2, StreamSplitPrime
  <2>2. (received \o WireMsgs) \o Append(pending_transfers, sends + 1)
          = Append((received \o WireMsgs) \o pending_transfers, sends + 1)
    <3>1. received \o WireMsgs \in Seq(Msg) /\ pending_transfers \in Seq(Msg)
      BY StreamTypes
    <3>2. \A q, t \in Seq(Msg), x \in Msg : q \o Append(t, x) = Append(q \o t, x)
      BY ConcatAppend
    <3>3. QED
      BY <1>3, <3>1, <3>2, Zenon
  <2>3. QED
    BY <2>1, <2>2, StreamSplit
<1>5. Ascending(Append(SentStream, sends + 1))
      /\ \A i \in 1 .. Len(Append(SentStream, sends + 1)) :
           Append(SentStream, sends + 1)[i] \in 1 .. sends + 1
  BY StreamTypes, AscendingAppend DEF StreamOK, StreamBelowSends
<1>6. QED
  BY <1>1, <1>4, <1>5 DEF StreamOK, StreamBelowSends

(* send() with credit: the queue is empty (the link is not starved), and   *)
(* the message goes on the wire behind every message already there.        *)
LEMMA SendNowOrder ==
  ASSUME TypeArith, PendingOnlyWhenStarved, StreamOK, SendNow
  PROVE  StreamOK'
<1>1. /\ sends < MaxMsgs /\ sends' = sends + 1 /\ link_credit # 0
      /\ pending_transfers' = pending_transfers /\ received' = received
      /\ SendTransfers(<<sends + 1>>)
  BY DEF SendNow
<1>2. pending_transfers = <<>>
  BY <1>1 DEF PendingOnlyWhenStarved
<1>3. sends + 1 \in Msg /\ <<sends + 1>> \in Seq(Msg)
  <2>1. sends \in 0 .. MaxMsgs
    BY DEF TypeArith
  <2>2. sends + 1 \in Msg
    BY <1>1, <2>1, SenderAssumption DEF Msg
  <2>3. QED
    BY <2>2
<1>4. WireMsgs' = WireMsgs \o <<sends + 1>>
  BY <1>1, <1>3, SendTransfersMsgs
<1>5. WireMsgs \in Seq(Msg) /\ received \in Seq(Msg)
  BY WireMsgsType DEF TypeArith
<1>6. SentStream = received \o WireMsgs
  BY <1>2, <1>5, StreamSplit, StreamTypes, ConcatEmptySeq
<1>7. SentStream' = Append(SentStream, sends + 1)
  <2>1. SentStream' = (received \o (WireMsgs \o <<sends + 1>>)) \o <<>>
    BY <1>1, <1>2, <1>4, StreamSplitPrime
  <2>2. received \o (WireMsgs \o <<sends + 1>>) \in Seq(Msg)
        /\ received \o (WireMsgs \o <<sends + 1>>)
             = (received \o WireMsgs) \o <<sends + 1>>
    BY <1>3, <1>5, ConcatProperties, ConcatAssociative
  <2>3. (received \o WireMsgs) \o <<sends + 1>>
          = Append(received \o WireMsgs, sends + 1)
    BY <1>3, StreamTypes, AppendIsConcat
  <2>4. QED
    BY <1>6, <2>1, <2>2, <2>3, ConcatEmptySeq
<1>8. Ascending(Append(SentStream, sends + 1))
      /\ \A i \in 1 .. Len(Append(SentStream, sends + 1)) :
           Append(SentStream, sends + 1)[i] \in 1 .. sends + 1
  BY StreamTypes, AscendingAppend DEF StreamOK, StreamBelowSends
<1>9. QED
  BY <1>1, <1>7, <1>8 DEF StreamOK, StreamBelowSends

(* A step that keeps the stream and the number of send() calls keeps      *)
(* StreamOK.                                                               *)
LEMMA StreamKept ==
  ASSUME StreamOK, SentStream' = SentStream, sends' = sends
  PROVE  StreamOK'
BY DEF StreamOK, StreamBelowSends

(* apply_flow moves the first k queued messages, in order, to the back of  *)
(* the wire: the stream is unchanged.                                      *)
LEMMA ApplyFlowOrder ==
  ASSUME TypeArith, StreamOK, ApplyFlow
  PROVE  StreamOK'
<1> DEFINE P == pending_transfers
           S1 == SubSeq(P, 1, FlowDrain)
           S2 == SubSeq(P, FlowDrain + 1, Len(P))
<1>1. received' = received /\ sends' = sends
  BY ApplyFlowShape
<1>2. CASE FlowDelta # 0
  <2>1. P' = S2 /\ SendTransfers(S1)
    BY <1>2, ApplyFlowShape
  <2>2. S1 \in Seq(Msg) /\ S2 \in Seq(Msg) /\ S1 \o S2 = P
    BY ApplyFlowShape, SplitAt DEF TypeArith
  <2>3. WireMsgs' = WireMsgs \o S1
    BY <2>1, <2>2, SendTransfersMsgs
  <2>4. WireMsgs \in Seq(Msg) /\ received \in Seq(Msg)
    BY WireMsgsType DEF TypeArith
  <2>5. SentStream' = (received \o (WireMsgs \o S1)) \o S2
    BY <1>1, <2>1, <2>3, StreamSplitPrime
  <2>6. received \o (WireMsgs \o S1) = (received \o WireMsgs) \o S1
    BY <2>2, <2>4, MsgConcatAssoc
  <2>7. ((received \o WireMsgs) \o S1) \o S2
          = (received \o WireMsgs) \o (S1 \o S2)
    <3>1. received \o WireMsgs \in Seq(Msg)
      BY StreamTypes
    <3>2. QED
      BY <2>2, <3>1, MsgConcatAssoc
  <2>8. SentStream' = SentStream
    BY <2>2, <2>5, <2>6, <2>7, StreamSplit
  <2>9. QED
    BY <1>1, <2>8, StreamKept
<1>3. CASE FlowDelta = 0
  <2>1. P' = P /\ wire' = wire
    BY <1>3, ApplyFlowShape
  <2>2. SentStream' = SentStream
    BY <1>1, <2>1 DEF SentStream
  <2>3. QED
    BY <1>1, <2>2, StreamKept
<1>4. QED
  BY <1>2, <1>3

(* detached / set_error empties the queue: what is left of the stream is  *)
(* its prefix of received and in-flight messages.                          *)
LEMMA FailLinkOrder ==
  ASSUME TypeArith, StreamOK, FailLink, received' = received, wire' = wire
  PROVE  StreamOK'
<1>1. pending_transfers' = <<>> /\ sends' = sends
  BY DEF FailLink
<1>2. received \o WireMsgs \in Seq(Int) /\ pending_transfers \in Seq(Int)
      /\ sends \in Nat
  <2>1. \A s \in Seq(Msg) : s \in Seq(Int)
    <3>1. Msg \subseteq Int
      BY DEF Msg
    <3>2. QED
      BY <3>1, SeqMonotonic
  <2>2. QED
    BY <2>1, StreamTypes
<1>3. SentStream' = received \o WireMsgs
  <2>1. SentStream' = (received \o WireMsgs) \o <<>>
    BY <1>1, StreamSplitPrime DEF WireMsgs
  <2>2. QED
    BY <1>2, <2>1, ConcatEmptySeq
<1>4. Ascending(received \o WireMsgs)
      /\ \A i \in 1 .. Len(received \o WireMsgs) :
           (received \o WireMsgs)[i] \in 1 .. sends
  BY <1>2, StreamSplit, AscendingPrefix DEF StreamOK, StreamBelowSends
<1>5. QED
  BY <1>1, <1>3, <1>4 DEF StreamOK, StreamBelowSends

(* Every step keeps the stream ascending and below the send() count. *)
LEMMA NextOrder ==
  ASSUME TypeArith, PendingOnlyWhenStarved, StreamOK, [Next]_vars
  PROVE  StreamOK'
<1>1. CASE SendQueued
  BY <1>1, SendQueuedOrder
<1>2. CASE SendNow
  BY <1>2, SendNowOrder
<1>3. CASE ApplyFlow
  BY <1>3, ApplyFlowOrder
<1>4. CASE Detached \/ SetError
  BY <1>4, FailLinkOrder DEF Detached, SetError
<1>5. CASE PeerReceive
  <2>1. received' \o WireMsgs' = received \o WireMsgs
    BY <1>5, PeerReceiveMsgs
  <2>2. pending_transfers' = pending_transfers /\ sends' = sends
    BY <1>5 DEF PeerReceive
  <2>3. SentStream' = SentStream
    BY <2>1, <2>2, StreamSplit, StreamSplitPrime
  <2>4. QED
    BY <2>2, <2>3, StreamKept
<1>6. CASE \/ DropFlow \/ HandleDisposition \/ PeerDetach
           \/ \E c \in 0 .. MaxCredit : PeerFlow(c)
           \/ \E first, last \in peer_unsettled : PeerSettle(first, last)
           \/ UNCHANGED vars
  <2>1. /\ received' = received /\ wire' = wire
        /\ pending_transfers' = pending_transfers /\ sends' = sends
    BY <1>6 DEF DropFlow, HandleDisposition, PeerDetach, PeerFlow, PeerSettle
  <2>2. SentStream' = SentStream
    BY <2>1 DEF SentStream
  <2>3. QED
    BY <2>1, <2>2, StreamKept
<1>7. QED
  BY <1>1, <1>2, <1>3, <1>4, <1>5, <1>6 DEF Next

(* The inductive invariant of the order proof.  InSendOrder alone is not  *)
(* inductive: send() with credit puts its message on the wire, so the     *)
(* proof needs the queue to be empty then (PendingOnlyWhenStarved), and   *)
(* the new message to lie above every one in the stream (StreamBelowSends). *)
OrderInv == StarvedInv /\ StreamOK

(* Transfers leave the link in the order of the send() calls, whether     *)
(* send() put them on the wire at once or apply_flow drained them from     *)
(* pending_transfers later, and across detach: the received messages, the *)
(* messages on the wire and the queue, in that order, form an ascending    *)
(* sequence, for every width and every bound.                              *)
THEOREM SenderInSendOrder == Spec => []InSendOrder
<1>1. Init => OrderInv
  <2>1. Init => StarvedInv
    BY InitStarved
  <2>2. Init => SentStream = <<>>
    BY DEF Init, SentStream
  <2>3. Init => StreamOK
    BY <2>2 DEF StreamOK, Ascending, StreamBelowSends
  <2>4. QED
    BY <2>1, <2>3 DEF OrderInv
<1>2. OrderInv /\ [Next]_vars => OrderInv'
  <2> SUFFICES ASSUME OrderInv, [Next]_vars PROVE OrderInv'
    OBVIOUS
  <2>1. StarvedInv'
    BY NextTypeArith, NextTypeBool, NextStarved DEF OrderInv, StarvedInv
  <2>2. StreamOK'
    BY NextOrder DEF OrderInv, StarvedInv
  <2>3. QED
    BY <2>1, <2>2 DEF OrderInv
<1>3. OrderInv => InSendOrder
  BY DEF OrderInv, StreamOK, Ascending, InSendOrder
<1>4. QED
  BY <1>1, <1>2, <1>3, PTL DEF Spec

-----------------------------------------------------------------------------
(* Promise accounting. *)

(* The session's unsettled map holds only messages already passed to      *)
(* send().                                                                 *)
UnsettledBelowSends == \A u \in unsettled : u.msg \in 1 .. sends

(* One unsettled delivery per message. *)
UnsettledOnce == \A u, v \in unsettled : u.msg = v.msg => u = v

(* No message is both queued and unsettled. *)
PendingNotUnsettled ==
  \A u \in unsettled : u.msg \notin Range(pending_transfers)

(* The message is held by the pending queue or by the unsettled map. *)
Held(m) ==
  m \in Range(pending_transfers) \/ \E u \in unsettled : u.msg = m

PromiseOK ==
  /\ UnsettledBelowSends /\ UnsettledOnce /\ PendingNotUnsettled
  /\ PromiseAccounted

(* The queue is the ascending tail of the stream, so its messages are     *)
(* distinct and below the send() count.                                    *)
LEMMA PendingFacts ==
  ASSUME TypeArith, StreamOK
  PROVE  /\ Ascending(pending_transfers)
         /\ \A i \in 1 .. Len(pending_transfers) :
              pending_transfers[i] \in 1 .. sends
<1> DEFINE RW == received \o WireMsgs
           P == pending_transfers
<1>1. RW \in Seq(Int) /\ P \in Seq(Int) /\ SentStream = RW \o P
  <2>1. \A s \in Seq(Msg) : s \in Seq(Int)
    <3>1. Msg \subseteq Int
      BY DEF Msg
    <3>2. QED
      BY <3>1, SeqMonotonic
  <2>2. QED
    BY <2>1, StreamTypes, StreamSplit
<1>2. Ascending(P)
  BY <1>1, AscendingSuffix DEF StreamOK
<1>3. /\ Len(RW \o P) = Len(RW) + Len(P)
      /\ \A i \in 1 .. Len(RW) + Len(P) :
           (RW \o P)[i] = IF i <= Len(RW) THEN RW[i] ELSE P[i - Len(RW)]
  BY <1>1, ConcatProperties
<1>4. Len(RW) \in Nat /\ Len(P) \in Nat
  BY <1>1, LenProperties
<1>5. \A i \in 1 .. Len(P) : Len(RW) + i \in 1 .. Len(SentStream)
                            /\ SentStream[Len(RW) + i] = P[i]
  BY <1>1, <1>3, <1>4
<1>6. QED
  BY <1>2, <1>5 DEF StreamOK, StreamBelowSends

(* A message above the send() count is held nowhere. *)
LEMMA AboveSendsNotHeld ==
  ASSUME TypeArith, StreamOK, UnsettledBelowSends,
         NEW m \in Int, m > sends
  PROVE  ~Held(m)
<1>1. m \notin Range(pending_transfers)
  <2>1. \A i \in 1 .. Len(pending_transfers) : pending_transfers[i] # m
    BY PendingFacts, SenderAssumption DEF TypeArith
  <2>2. QED
    BY <2>1, RangeIndex DEF TypeArith
<1>2. \A u \in unsettled : u.msg # m
  <2>1. sends \in Nat
    BY SenderAssumption DEF TypeArith
  <2>2. QED
    BY <2>1 DEF UnsettledBelowSends
<1>3. QED
  BY <1>1, <1>2 DEF Held

(* send() without credit: the new message's promise waits, and its       *)
(* message is the one appended to the queue.                               *)
LEMMA SendQueuedPromise ==
  ASSUME TypeArith, StreamOK, PromiseOK, SendQueued
  PROVE  PromiseOK'
<1> DEFINE n == sends + 1
<1>1. /\ sends < MaxMsgs /\ sends' = n
      /\ promise' = [promise EXCEPT ![n] = "pending"]
      /\ pending_transfers' = Append(pending_transfers, n)
      /\ unsettled' = unsettled
  BY DEF SendQueued
<1>2. n \in Msg /\ sends \in Nat /\ promise \in [Msg -> PromiseState]
  BY <1>1, SenderAssumption DEF TypeArith, Msg
<1>3. Range(pending_transfers') = Range(pending_transfers) \cup {n}
  BY <1>1, <1>2, RangeAppend DEF TypeArith
<1>4. ~Held(n)
  BY <1>2, AboveSendsNotHeld DEF PromiseOK
<1>5. UnsettledBelowSends' /\ UnsettledOnce' /\ PendingNotUnsettled'
  BY <1>1, <1>2, <1>3, <1>4
     DEF PromiseOK, UnsettledBelowSends, UnsettledOnce, PendingNotUnsettled,
         Held
<1>6. PromiseAccounted'
  <2> SUFFICES ASSUME NEW m \in Msg
               PROVE  promise'[m] = "pending" <=> Held(m)'
    BY DEF PromiseAccounted, Held
  <2>1. Held(m)' <=> Held(m) \/ m = n
    BY <1>1, <1>3 DEF Held
  <2>2. promise'[m] = IF m = n THEN "pending" ELSE promise[m]
    BY <1>1, <1>2
  <2>3. promise[m] = "pending" <=> Held(m)
    BY DEF PromiseOK, PromiseAccounted, Held
  <2>4. QED
    BY <2>1, <2>2, <2>3
<1>7. QED
  BY <1>5, <1>6 DEF PromiseOK

(* send() with credit: the new message's promise waits, and the session   *)
(* records one unsettled delivery for it.                                  *)
LEMMA SendNowPromise ==
  ASSUME TypeArith, StreamOK, PromiseOK, SendNow
  PROVE  PromiseOK'
<1> DEFINE n == sends + 1
           d == [msg |-> n, id |-> next_outgoing_id]
<1>1. /\ sends < MaxMsgs /\ sends' = n
      /\ promise' = [promise EXCEPT ![n] = "pending"]
      /\ pending_transfers' = pending_transfers
      /\ SendTransfers(<<n>>)
  BY DEF SendNow
<1>2. unsettled' = unsettled \cup {d}
  <2>1. unsettled' = unsettled \cup
          {[msg |-> <<n>>[i], id |-> next_outgoing_id + i - 1] :
             i \in 1 .. Len(<<n>>)}
    BY <1>1 DEF SendTransfers
  <2>2. next_outgoing_id \in Nat
    BY DEF TypeArith
  <2>3. QED
    BY <2>1, <2>2
<1>3. n \in Msg /\ sends \in Nat /\ promise \in [Msg -> PromiseState]
  BY <1>1, SenderAssumption DEF TypeArith, Msg
<1>4. ~Held(n)
  BY <1>3, AboveSendsNotHeld DEF PromiseOK
<1>5. UnsettledBelowSends'
  BY <1>1, <1>2, <1>3 DEF PromiseOK, UnsettledBelowSends
<1>6. UnsettledOnce'
  BY <1>2, <1>4 DEF PromiseOK, UnsettledOnce, Held
<1>7. PendingNotUnsettled'
  BY <1>1, <1>2, <1>4 DEF PromiseOK, PendingNotUnsettled, Held
<1>8. PromiseAccounted'
  <2> SUFFICES ASSUME NEW m \in Msg
               PROVE  promise'[m] = "pending" <=> Held(m)'
    BY DEF PromiseAccounted, Held
  <2>1. Held(m)' <=> Held(m) \/ m = n
    <3>1. (\E u \in unsettled' : u.msg = m)
            <=> (\E u \in unsettled : u.msg = m) \/ m = n
      <4>1. d.msg = n
        OBVIOUS
      <4>2. QED
        BY <1>2, <4>1, Zenon
    <3>2. QED
      BY <1>1, <3>1, Zenon DEF Held
  <2>2. promise'[m] = IF m = n THEN "pending" ELSE promise[m]
    BY <1>1, <1>3
  <2>3. promise[m] = "pending" <=> Held(m)
    BY DEF PromiseOK, PromiseAccounted, Held
  <2>4. QED
    BY <2>1, <2>2, <2>3
<1>9. QED
  BY <1>5, <1>6, <1>7, <1>8 DEF PromiseOK

(* An inbound Disposition settles the promises of the deliveries it hits  *)
(* and drops them from the unsettled map: a message hit is held nowhere    *)
(* else, as it is not queued and has one unsettled delivery.               *)
LEMMA HandleDispositionPromise ==
  ASSUME TypeArith, PromiseOK, HandleDisposition
  PROVE  PromiseOK'
<1> DEFINE f == Head(inbox)
           hit == {u \in unsettled : f.first <= u.id /\ u.id <= f.last}
<1>1. /\ promise' = [m \in Msg |->
                       IF \E u \in hit : u.msg = m THEN "settled"
                       ELSE promise[m]]
      /\ unsettled' = unsettled \ hit
      /\ pending_transfers' = pending_transfers /\ sends' = sends
  BY DEF HandleDisposition
<1>2. UnsettledBelowSends' /\ UnsettledOnce' /\ PendingNotUnsettled'
  BY <1>1 DEF PromiseOK, UnsettledBelowSends, UnsettledOnce,
              PendingNotUnsettled
<1>3. PromiseAccounted'
  <2> SUFFICES ASSUME NEW m \in Msg
               PROVE  promise'[m] = "pending" <=> Held(m)'
    BY DEF PromiseAccounted, Held
  <2>1. CASE \E u \in hit : u.msg = m
    <3>1. PICK u \in hit : u.msg = m
      BY <2>1
    <3>2. m \notin Range(pending_transfers)
      BY <3>1 DEF PromiseOK, PendingNotUnsettled
    <3>3. \A v \in unsettled \ hit : v.msg # m
      BY <3>1 DEF PromiseOK, UnsettledOnce
    <3>4. ~Held(m)'
      BY <1>1, <3>2, <3>3 DEF Held
    <3>5. promise'[m] = "settled"
      BY <1>1, <2>1
    <3>6. QED
      BY <3>4, <3>5
  <2>2. CASE ~\E u \in hit : u.msg = m
    <3>1. promise'[m] = promise[m]
      BY <1>1, <2>2
    <3>2. Held(m)' <=> Held(m)
      BY <1>1, <2>2 DEF Held
    <3>3. QED
      BY <3>1, <3>2 DEF PromiseOK, PromiseAccounted, Held
  <2>3. QED
    BY <2>1, <2>2
<1>4. QED
  BY <1>2, <1>3 DEF PromiseOK

(* detached / set_error fails every promise the link still holds and      *)
(* empties both the queue and the unsettled map.                           *)
LEMMA FailLinkPromise ==
  ASSUME TypeArith, PromiseOK, FailLink
  PROVE  PromiseOK'
<1>1. /\ promise' = [m \in Msg |-> IF Held(m) THEN "failed" ELSE promise[m]]
      /\ pending_transfers' = <<>> /\ unsettled' = {}
  BY DEF FailLink, Held
<1>2. Range(<<>>) = {}
  BY DEF Range
<1>3. UnsettledBelowSends' /\ UnsettledOnce' /\ PendingNotUnsettled'
  BY <1>1 DEF UnsettledBelowSends, UnsettledOnce, PendingNotUnsettled
<1>4. PromiseAccounted'
  <2> SUFFICES ASSUME NEW m \in Msg
               PROVE  promise'[m] = "pending" <=> Held(m)'
    BY DEF PromiseAccounted, Held
  <2>1. ~Held(m)'
    BY <1>1, <1>2 DEF Held
  <2>2. promise'[m] # "pending"
    BY <1>1 DEF PromiseOK, PromiseAccounted, Held
  <2>3. QED
    BY <2>1, <2>2
<1>5. QED
  BY <1>3, <1>4 DEF PromiseOK

(* The queue split by apply_flow: the first k messages and the rest, as   *)
(* indexed views of the queue.                                             *)
LEMMA DrainParts ==
  ASSUME NEW P \in Seq(Msg), NEW k \in 0 .. Len(P)
  PROVE  /\ Len(P) \in Nat
         /\ SubSeq(P, 1, k) \in Seq(Msg) /\ Len(SubSeq(P, 1, k)) = k
         /\ \A i \in 1 .. k : SubSeq(P, 1, k)[i] = P[i]
         /\ SubSeq(P, k + 1, Len(P)) \in Seq(Msg)
         /\ Len(SubSeq(P, k + 1, Len(P))) = Len(P) - k
         /\ \A j \in 1 .. Len(P) - k : SubSeq(P, k + 1, Len(P))[j] = P[k + j]
<1>1. Len(P) \in Nat /\ \A i \in 1 .. Len(P) : P[i] \in Msg
  BY LenProperties, ElementOfSeq
<1>2. /\ SubSeq(P, 1, k) \in Seq(Msg)
      /\ Len(SubSeq(P, 1, k)) = IF 1 <= k THEN k - 1 + 1 ELSE 0
      /\ \A i \in 1 .. k - 1 + 1 : SubSeq(P, 1, k)[i] = P[1 + i - 1]
  <2>1. \A i \in 1 .. k : P[i] \in Msg
    BY <1>1
  <2>2. QED
    BY <2>1, SubSeqProperties
<1>3. /\ SubSeq(P, k + 1, Len(P)) \in Seq(Msg)
      /\ Len(SubSeq(P, k + 1, Len(P)))
           = IF k + 1 <= Len(P) THEN Len(P) - (k + 1) + 1 ELSE 0
      /\ \A j \in 1 .. Len(P) - (k + 1) + 1 :
           SubSeq(P, k + 1, Len(P))[j] = P[k + 1 + j - 1]
  <2>1. \A i \in k + 1 .. Len(P) : P[i] \in Msg
    BY <1>1
  <2>2. QED
    BY <1>1, <2>1, SubSeqProperties
<1>4. QED
  BY <1>1, <1>2, <1>3

(* apply_flow hands the first k queued messages to the session, which     *)
(* records one unsettled delivery for each: the messages are distinct and  *)
(* none of them stays queued, because the queue is ascending.              *)
LEMMA ApplyFlowPromise ==
  ASSUME TypeArith, StreamOK, PromiseOK, ApplyFlow
  PROVE  PromiseOK'
<1> DEFINE P == pending_transfers
           k == FlowDrain
           S1 == SubSeq(P, 1, k)
           S2 == SubSeq(P, k + 1, Len(P))
           tr(i) == [msg |-> S1[i], id |-> next_outgoing_id + i - 1]
           N == {tr(i) : i \in 1 .. Len(S1)}
<1>1. promise' = promise /\ sends' = sends /\ k \in 0 .. Len(P)
  BY ApplyFlowShape
<1>2. CASE FlowDelta = 0
  <2>1. unsettled' = unsettled /\ P' = P
    BY <1>2, ApplyFlowShape
  <2>2. QED
    BY <1>1, <2>1 DEF PromiseOK, UnsettledBelowSends, UnsettledOnce,
                     PendingNotUnsettled, PromiseAccounted
<1>3. CASE FlowDelta # 0
  <2>1. P' = S2 /\ unsettled' = unsettled \cup N
    <3>1. P' = S2 /\ SendTransfers(S1)
      BY <1>3, ApplyFlowShape
    <3>2. QED
      BY <3>1 DEF SendTransfers
  <2>2. /\ Len(P) \in Nat /\ S1 \in Seq(Msg) /\ Len(S1) = k
        /\ \A i \in 1 .. k : S1[i] = P[i]
        /\ S2 \in Seq(Msg) /\ Len(S2) = Len(P) - k
        /\ \A j \in 1 .. Len(P) - k : S2[j] = P[k + j]
    BY <1>1, DrainParts DEF TypeArith
  <2>3. Ascending(P) /\ \A i \in 1 .. Len(P) : P[i] \in 1 .. sends
    BY PendingFacts
  <2>4. \A m : m \in Range(P) <=> \E i \in 1 .. Len(P) : P[i] = m
    BY RangeIndex DEF TypeArith
  <2>5. \A m : m \in Range(S2) <=> \E j \in 1 .. Len(P) - k : P[k + j] = m
    <3>1. \A m : m \in Range(S2) <=> \E j \in 1 .. Len(S2) : S2[j] = m
      BY <2>2, RangeIndex
    <3>2. QED
      BY <2>2, <3>1
  <2>6. \A m : (\E u \in N : u.msg = m) <=> \E i \in 1 .. k : P[i] = m
    <3>1. \A m : (\E u \in N : u.msg = m) <=> \E i \in 1 .. Len(S1) : S1[i] = m
      <4>1. \A i \in 1 .. Len(S1) : tr(i).msg = S1[i]
        OBVIOUS
      <4>2. QED
        BY <4>1, Zenon
    <3>2. QED
      BY <2>2, <3>1
  <2>7. \A i \in 1 .. k : P[i] \notin Range(S2)
    BY <1>1, <2>2, <2>3, <2>5 DEF Ascending
  <2>8. \A i, j \in 1 .. k : P[i] = P[j] => i = j
    BY <1>1, <2>2, <2>3 DEF Ascending
  <2>9. UnsettledBelowSends'
    BY <1>1, <2>1, <2>2, <2>3 DEF PromiseOK, UnsettledBelowSends
  <2>10. UnsettledOnce'
    <3> SUFFICES ASSUME NEW u \in unsettled', NEW v \in unsettled',
                        u.msg = v.msg
                 PROVE  u = v
      BY DEF UnsettledOnce
    <3>1. \A w \in unsettled : \A i \in 1 .. k : w.msg # P[i]
      BY <1>1, <2>4 DEF PromiseOK, PendingNotUnsettled
    <3>2. CASE u \in unsettled /\ v \in unsettled
      BY <3>2 DEF PromiseOK, UnsettledOnce
    <3>3. CASE u \in N /\ v \in N
      BY <2>2, <2>8, <3>3
    <3>4. CASE u \in unsettled /\ v \in N
      BY <2>2, <3>1, <3>4
    <3>5. CASE u \in N /\ v \in unsettled
      BY <2>2, <3>1, <3>5
    <3>6. QED
      BY <2>1, <3>2, <3>3, <3>4, <3>5
  <2>11. PendingNotUnsettled'
    <3>1. Range(P) = Range(S1) \cup Range(S2)
      BY <1>1, RangeSplit DEF TypeArith
    <3>2. \A u \in unsettled : u.msg \notin Range(S2)
      BY <3>1 DEF PromiseOK, PendingNotUnsettled
    <3>3. \A u \in N : u.msg \notin Range(S2)
      BY <2>2, <2>7
    <3>4. QED
      BY <2>1, <3>2, <3>3 DEF PendingNotUnsettled
  <2>12. PromiseAccounted'
    <3> SUFFICES ASSUME NEW m \in Msg
                 PROVE  promise'[m] = "pending" <=> Held(m)'
      BY DEF PromiseAccounted, Held
    <3>1. Held(m)' <=> m \in Range(S2) \/ (\E u \in unsettled : u.msg = m)
                                       \/ (\E u \in N : u.msg = m)
      BY <2>1 DEF Held
    <3>2. m \in Range(P) <=> (\E i \in 1 .. k : P[i] = m) \/ m \in Range(S2)
      <4>1. (\E i \in 1 .. Len(P) : P[i] = m)
              <=> (\E i \in 1 .. k : P[i] = m)
                  \/ (\E j \in 1 .. Len(P) - k : P[k + j] = m)
        <5>1. ASSUME NEW i \in 1 .. Len(P), P[i] = m, i > k
              PROVE  \E j \in 1 .. Len(P) - k : P[k + j] = m
          <6>1. i - k \in 1 .. Len(P) - k /\ k + (i - k) = i
            BY <1>1, <2>2, <5>1
          <6>2. QED
            BY <5>1, <6>1
        <5>2. ASSUME NEW i \in 1 .. Len(P), P[i] = m
              PROVE  (\E i2 \in 1 .. k : P[i2] = m)
                     \/ (\E j \in 1 .. Len(P) - k : P[k + j] = m)
          <6>1. CASE i > k
            BY <5>1, <5>2, <6>1
          <6>2. CASE i <= k
            <7>1. i \in 1 .. k
              BY <1>1, <2>2, <6>2
            <7>2. QED
              BY <5>2, <7>1
          <6>3. QED
            BY <1>1, <2>2, <6>1, <6>2
        <5>3. ASSUME NEW j \in 1 .. Len(P) - k, P[k + j] = m
              PROVE  \E i \in 1 .. Len(P) : P[i] = m
          <6>1. k + j \in 1 .. Len(P)
            BY <1>1, <2>2
          <6>2. QED
            BY <5>3, <6>1
        <5>4. ASSUME NEW i \in 1 .. k, P[i] = m
              PROVE  \E i2 \in 1 .. Len(P) : P[i2] = m
          <6>1. i \in 1 .. Len(P)
            BY <1>1, <2>2
          <6>2. QED
            BY <5>4, <6>1
        <5>5. QED
          BY <5>2, <5>3, <5>4
      <4>2. QED
        BY <2>4, <2>5, <4>1
    <3>3. Held(m)' <=> Held(m)
      BY <2>6, <3>1, <3>2 DEF Held
    <3>4. QED
      BY <1>1, <3>3 DEF PromiseOK, PromiseAccounted, Held
  <2>13. QED
    BY <2>9, <2>10, <2>11, <2>12 DEF PromiseOK
<1>4. QED
  BY <1>2, <1>3

(* Every step keeps the promise accounting. *)
LEMMA NextPromise ==
  ASSUME TypeArith, PendingOnlyWhenStarved, StreamOK, PromiseOK, [Next]_vars
  PROVE  PromiseOK'
<1>1. CASE SendQueued
  BY <1>1, SendQueuedPromise
<1>2. CASE SendNow
  BY <1>2, SendNowPromise
<1>3. CASE ApplyFlow
  BY <1>3, ApplyFlowPromise
<1>4. CASE HandleDisposition
  BY <1>4, HandleDispositionPromise
<1>5. CASE Detached \/ SetError
  BY <1>5, FailLinkPromise DEF Detached, SetError
<1>6. CASE \/ DropFlow \/ PeerReceive \/ PeerDetach
           \/ \E c \in 0 .. MaxCredit : PeerFlow(c)
           \/ \E first, last \in peer_unsettled : PeerSettle(first, last)
           \/ UNCHANGED vars
  <2>1. UNCHANGED <<promise, pending_transfers, unsettled, sends>>
    BY <1>6 DEF DropFlow, PeerReceive, PeerDetach, PeerFlow, PeerSettle
  <2>2. QED
    BY <2>1 DEF PromiseOK, UnsettledBelowSends, UnsettledOnce,
                PendingNotUnsettled, PromiseAccounted
<1>7. QED
  BY <1>1, <1>2, <1>3, <1>4, <1>5, <1>6 DEF Next

(* The promise of a message not yet passed to send() does not exist yet. *)
PromiseNoneAbove == \A m \in Msg : m > sends => promise[m] = "none"

(* Every step keeps PromiseNoneAbove: send() creates only the promise of  *)
(* its own message, and a Disposition or detach resolves only messages    *)
(* the link holds, which are all below the send() count.                   *)
LEMMA NextNoneAbove ==
  ASSUME TypeArith, StreamOK, PromiseOK, PromiseNoneAbove, [Next]_vars
  PROVE  PromiseNoneAbove'
<1> SUFFICES ASSUME NEW m \in Msg, m > sends'
             PROVE  promise'[m] = "none"
  BY DEF PromiseNoneAbove
<1>0. sends \in Nat /\ m \in Int /\ promise \in [Msg -> PromiseState]
  BY SenderAssumption DEF TypeArith, Msg
<1>1. CASE SendQueued \/ SendNow
  <2>1. sends' = sends + 1
        /\ promise' = [promise EXCEPT ![sends + 1] = "pending"]
    BY <1>1 DEF SendQueued, SendNow
  <2>2. m # sends + 1 /\ m > sends
    BY <1>0, <2>1
  <2>3. QED
    BY <1>0, <2>1, <2>2 DEF PromiseNoneAbove
<1>2. CASE HandleDisposition
  <2>1. /\ sends' = sends
        /\ promise' = [x \in Msg |->
                         IF \E u \in {u \in unsettled :
                                        Head(inbox).first <= u.id
                                        /\ u.id <= Head(inbox).last} : u.msg = x
                         THEN "settled" ELSE promise[x]]
    BY <1>2 DEF HandleDisposition
  <2>2. \A u \in unsettled : u.msg # m
    BY <1>0, <2>1 DEF PromiseOK, UnsettledBelowSends
  <2>3. QED
    BY <2>1, <2>2 DEF PromiseNoneAbove
<1>3. CASE Detached \/ SetError
  <2>1. sends' = sends
        /\ promise' = [x \in Msg |-> IF Held(x) THEN "failed" ELSE promise[x]]
    BY <1>3 DEF Detached, SetError, FailLink, Held
  <2>2. ~Held(m)
    BY <1>0, <2>1, AboveSendsNotHeld DEF PromiseOK
  <2>3. QED
    BY <2>1, <2>2 DEF PromiseNoneAbove
<1>4. CASE ApplyFlow
  BY <1>4, ApplyFlowShape DEF PromiseNoneAbove
<1>5. CASE \/ DropFlow \/ PeerReceive \/ PeerDetach
           \/ \E c \in 0 .. MaxCredit : PeerFlow(c)
           \/ \E first, last \in peer_unsettled : PeerSettle(first, last)
           \/ UNCHANGED vars
  BY <1>5 DEF DropFlow, PeerReceive, PeerDetach, PeerFlow, PeerSettle,
              PromiseNoneAbove
<1>6. QED
  BY <1>1, <1>2, <1>3, <1>4, <1>5 DEF Next

(* The inductive invariant of the promise proofs. *)
PInv == OrderInv /\ PromiseOK /\ PromiseNoneAbove

LEMMA InitPInv == Init => PInv
<1> SUFFICES ASSUME Init PROVE PInv
  OBVIOUS
<1>1. OrderInv
  <2>1. StarvedInv
    BY InitStarved
  <2>2. SentStream = <<>>
    BY DEF Init, SentStream
  <2>3. QED
    BY <2>1, <2>2 DEF OrderInv, StreamOK, Ascending, StreamBelowSends
<1>2. Range(<<>>) = {}
  BY DEF Range
<1>3. PromiseOK /\ PromiseNoneAbove
  BY <1>2 DEF Init, PromiseOK, UnsettledBelowSends, UnsettledOnce,
              PendingNotUnsettled, PromiseAccounted, PromiseNoneAbove
<1>4. QED
  BY <1>1, <1>3 DEF PInv

LEMMA NextPInv == PInv /\ [Next]_vars => PInv'
<1> SUFFICES ASSUME PInv, [Next]_vars PROVE PInv'
  OBVIOUS
<1>1. StarvedInv'
  BY NextTypeArith, NextTypeBool, NextStarved DEF PInv, OrderInv, StarvedInv
<1>2. StreamOK'
  BY NextOrder DEF PInv, OrderInv, StarvedInv
<1>3. PromiseOK'
  BY NextPromise DEF PInv, OrderInv, StarvedInv
<1>4. PromiseNoneAbove'
  BY NextNoneAbove DEF PInv, OrderInv, StarvedInv
<1>5. QED
  BY <1>1, <1>2, <1>3, <1>4 DEF PInv, OrderInv

(* A send() future is waiting exactly while the link can still resolve    *)
(* it: its message is in pending_transfers or in the session's unsettled   *)
(* map.  So no future waits forever on a message the link dropped (a       *)
(* detach fails all of them), and none is resolved while still held.       *)
THEOREM SenderPromiseAccounted == Spec => []PromiseAccounted
<1>1. PInv => PromiseAccounted
  BY DEF PInv, PromiseOK
<1>2. QED
  BY InitPInv, NextPInv, <1>1, PTL DEF Spec

(* One step of FailureResolvesAll: a step that sets the error leaves no   *)
(* promise waiting.                                                         *)
FailStep ==
  ~error /\ error' => \A m \in Msg : promise'[m] # "pending"

(* Every step satisfies FailStep: only detached and set_error set the      *)
(* error, and they fail every held message, which by PromiseAccounted are   *)
(* exactly the messages whose promises are waiting.                        *)
LEMMA NextFailStep ==
  ASSUME PInv, [Next]_vars
  PROVE  FailStep
<1>0. PromiseAccounted
  BY DEF PInv, PromiseOK
<1>1. CASE Detached \/ SetError
  <2> SUFFICES ASSUME NEW m \in Msg PROVE promise'[m] # "pending"
    BY DEF FailStep
  <2>1. promise' = [x \in Msg |-> IF Held(x) THEN "failed" ELSE promise[x]]
    BY <1>1 DEF Detached, SetError, FailLink, Held
  <2>2. ~Held(m) => promise[m] # "pending"
    BY <1>0 DEF PromiseAccounted, Held
  <2>3. QED
    BY <2>1, <2>2
<1>2. CASE \/ SendQueued \/ SendNow \/ ApplyFlow \/ DropFlow
           \/ HandleDisposition \/ PeerReceive \/ PeerDetach
           \/ \E c \in 0 .. MaxCredit : PeerFlow(c)
           \/ \E first, last \in peer_unsettled : PeerSettle(first, last)
           \/ UNCHANGED vars
  <2>1. error' = error
    BY <1>2, Zenon DEF SendQueued, SendNow, ApplyFlow, DropFlow,
                       HandleDisposition, PeerReceive, PeerDetach, PeerFlow,
                       PeerSettle, vars, link_vars
  <2>2. QED
    BY <2>1 DEF FailStep
<1>3. QED
  BY <1>1, <1>2 DEF Next

(* When the link fails, on the peer's Detach or through set_error, no      *)
(* send() future is left waiting: the queued ones are failed by the link   *)
(* and the unsettled ones by the session, so no caller awaits forever a    *)
(* Delivery made before the failure.                                       *)
THEOREM SenderFailureResolvesAll == Spec => FailureResolvesAll
<1>1. PInv /\ [Next]_vars => [FailStep]_vars
  BY NextFailStep
<1>2. QED
  BY InitPInv, NextPInv, <1>1, PTL DEF Spec, FailureResolvesAll, FailStep

=============================================================================
