----------------------------- MODULE SenderLink -----------------------------
(***************************************************************************)
(* The sending end of an AMQP 1.0 link (SenderLinkInner, src/link.rs) with *)
(* the part of its session that it calls (send_transfer, the unsettled    *)
(* map and the routing of inbound Flow, Disposition and Detach frames)     *)
(* and the remote receiver it talks to over one connection.               *)
(*                                                                         *)
(* The connection is two FIFO channels: `wire` carries Transfers from the  *)
(* link to the peer, `inbox` carries the peer's Flow, Disposition and      *)
(* Detach frames back.  The peer is any conforming AMQP receiver: it may   *)
(* grant, repeat or revoke credit at any time, settle any range of the     *)
(* deliveries it holds and detach once.                                    *)
(*                                                                         *)
(* SequenceNo and the credit are u32 in the code; here they are kept       *)
(* modulo 2^Width, so that wrap-around happens in small instances.         *)
(* Delivery ids are drawn from the session's next-outgoing-id, which is    *)
(* not wrapped: its reuse needs 2^32 deliveries outstanding at once.       *)
(***************************************************************************)
EXTENDS Integers, Sequences, Functions

CONSTANTS
  Width,      \* bits of a SequenceNo / link-credit counter (32 in the code)
  MaxMsgs,    \* number of SenderLink::send calls the caller makes
  MaxCredit,  \* largest link-credit the peer grants in one Flow
  MaxFlows    \* number of link-scoped Flow frames the peer sends

Mod == 2 ^ Width

(* Mod \in Nat \ {0} follows from the first conjunct; it is stated because   *)
(* the provers do not evaluate ^.                                          *)
ASSUME SenderAssumption ==
  /\ Width \in Nat \ {0}
  /\ Mod \in Nat \ {0}
  /\ MaxMsgs \in Nat
  /\ MaxCredit \in Nat
  /\ MaxFlows \in Nat

Msg == 1 .. MaxMsgs        \* the i-th message passed to send()

(* A Transfer as the session puts it on the wire. *)
Transfer == [msg : Msg, id : Nat]

(* Frames from the peer.  Unused fields are 0.  `limit` is not on the     *)
(* wire: it is the peer's grant delivery-count + link-credit written out   *)
(* without wrapping, kept so that properties can talk about it.            *)
Frame == [kind : {"flow", "disposition", "detach"},
          dc : 0 .. Mod - 1, credit : Nat, limit : Nat,
          first : Nat, last : Nat]

FlowFrame(dc, credit, limit) ==
  [kind |-> "flow", dc |-> dc, credit |-> credit, limit |-> limit,
   first |-> 0, last |-> 0]

DispositionFrame(first, last) ==
  [kind |-> "disposition", dc |-> 0, credit |-> 0, limit |-> 0,
   first |-> first, last |-> last]

DetachFrame ==
  [kind |-> "detach", dc |-> 0, credit |-> 0, limit |-> 0,
   first |-> 0, last |-> 0]

(* The future returned by send(): not yet created, waiting, resolved with *)
(* the peer's outcome, or failed with the link's error.                   *)
PromiseState == {"none", "pending", "settled", "failed"}

VARIABLES
  delivery_count,     \* SenderLinkInner.delivery_count
  link_credit,        \* SenderLinkInner.link_credit
  pending_transfers,  \* SenderLinkInner.pending_transfers (message ids)
  error,              \* SenderLinkInner.error is Some(_)
  next_outgoing_id,   \* session: next delivery id
  unsettled,          \* session: delivery id -> promise, as a set of Transfers
  promise,            \* state of the Delivery future of each message
  sends,              \* number of send() calls made so far
  wire,               \* Transfers in flight to the peer
  inbox,              \* peer frames in flight to the session
  received,           \* peer: messages received, in arrival order
  peer_unsettled,     \* peer: delivery ids received and not yet settled
  flows,              \* peer: number of Flow frames sent
  peer_detached,      \* peer: Detach sent
  grant               \* limit of the last Flow the link applied

link_vars == <<delivery_count, link_credit, pending_transfers, error>>
session_vars == <<next_outgoing_id, unsettled, promise, sends>>
peer_vars == <<received, peer_unsettled, flows, peer_detached>>
vars == <<link_vars, session_vars, wire, inbox, peer_vars, grant>>

TypeOK ==
  /\ delivery_count \in 0 .. Mod - 1
  /\ link_credit \in 0 .. Mod - 1
  /\ pending_transfers \in Seq(Msg)
  /\ error \in BOOLEAN
  /\ next_outgoing_id \in Nat
  /\ unsettled \subseteq Transfer
  /\ promise \in [Msg -> PromiseState]
  /\ sends \in 0 .. MaxMsgs
  /\ wire \in Seq(Transfer)
  /\ inbox \in Seq(Frame)
  /\ received \in Seq(Msg)
  /\ peer_unsettled \subseteq Nat
  /\ flows \in 0 .. MaxFlows
  /\ peer_detached \in BOOLEAN
  /\ grant \in Nat

Init ==
  /\ delivery_count = 0
  /\ link_credit = 0
  /\ pending_transfers = <<>>
  /\ error = FALSE
  /\ next_outgoing_id = 0
  /\ unsettled = {}
  /\ promise = [m \in Msg |-> "none"]
  /\ sends = 0
  /\ wire = <<>>
  /\ inbox = <<>>
  /\ received = <<>>
  /\ peer_unsettled = {}
  /\ flows = 0
  /\ peer_detached = FALSE
  /\ grant = 0

-----------------------------------------------------------------------------
(* Session::send_transfer for each message of ms in order: stamp the      *)
(* delivery id, record the promise in the unsettled map, queue the frame.  *)
(* The sender never pre-settles, so every Transfer is unsettled.           *)
SendTransfers(ms) ==
  LET tr(i) == [msg |-> ms[i], id |-> next_outgoing_id + i - 1]
  IN  /\ wire' = wire \o [i \in 1 .. Len(ms) |-> tr(i)]
      /\ unsettled' = unsettled \cup {tr(i) : i \in 1 .. Len(ms)}
      /\ next_outgoing_id' = next_outgoing_id + Len(ms)

(* SenderLinkInner::send without credit: the message waits in             *)
(* pending_transfers and no frame is sent.                                 *)
SendQueued ==
  /\ sends < MaxMsgs
  /\ link_credit = 0
  /\ sends' = sends + 1
  /\ promise' = [promise EXCEPT ![sends + 1] = "pending"]
  /\ pending_transfers' = Append(pending_transfers, sends + 1)
  /\ UNCHANGED <<delivery_count, link_credit, error, next_outgoing_id,
                 unsettled, wire, inbox, peer_vars, grant>>

(* Mutant of SendNow: the credit check of send() is dropped, so a send   *)
(* with no credit still spends one.                                        *)
SendNowUnchecked ==
  /\ sends < MaxMsgs
  /\ sends' = sends + 1
  /\ promise' = [promise EXCEPT ![sends + 1] = "pending"]
  /\ link_credit' = link_credit - 1
  /\ delivery_count' = (delivery_count + 1) % Mod
  /\ SendTransfers(<<sends + 1>>)
  /\ UNCHANGED <<pending_transfers, error, inbox, peer_vars, grant>>

(* SenderLinkInner::send with credit: spend one credit and hand the        *)
(* message to the session at once.                                         *)
SendNow ==
  /\ sends < MaxMsgs
  /\ link_credit # 0
  /\ sends' = sends + 1
  /\ promise' = [promise EXCEPT ![sends + 1] = "pending"]
  /\ link_credit' = link_credit - 1
  /\ delivery_count' = (delivery_count + 1) % Mod
  /\ SendTransfers(<<sends + 1>>)
  /\ UNCHANGED <<pending_transfers, error, inbox, peer_vars, grant>>

(* Mutant of ApplyFlow: the pending queue is drained from the back        *)
(* (pop_back instead of pop_front).                                        *)
ApplyFlowPopBack ==
  /\ inbox # <<>>
  /\ Head(inbox).kind = "flow"
  /\ ~error
  /\ LET f == Head(inbox)
         delta == (f.dc + f.credit - (delivery_count + link_credit)) % Mod
         credit1 == (link_credit + delta) % Mod
         n == Len(pending_transfers)
         k == IF link_credit # 0 THEN 0
              ELSE IF n <= credit1 THEN n ELSE credit1
     IN  \/ /\ delta # 0
            /\ link_credit' = credit1 - k
            /\ delivery_count' = (delivery_count + k) % Mod
            /\ pending_transfers' = SubSeq(pending_transfers, 1, n - k)
            /\ SendTransfers([i \in 1 .. k |-> pending_transfers[n + 1 - i]])
         \/ /\ delta = 0
            /\ link_credit' = (link_credit + link_credit) % Mod
            /\ UNCHANGED <<delivery_count, pending_transfers, wire,
                           unsettled, next_outgoing_id>>
  /\ grant' = Head(inbox).limit
  /\ inbox' = Tail(inbox)
  /\ UNCHANGED <<error, promise, sends, peer_vars>>

(* Mutant of ApplyFlow: the new credit is applied but the pending queue   *)
(* is never drained.                                                       *)
ApplyFlowNoDrain ==
  /\ inbox # <<>>
  /\ Head(inbox).kind = "flow"
  /\ ~error
  /\ LET f == Head(inbox)
         delta == (f.dc + f.credit - (delivery_count + link_credit)) % Mod
     IN  link_credit' = IF delta # 0 THEN (link_credit + delta) % Mod
                        ELSE (link_credit + link_credit) % Mod
  /\ grant' = Head(inbox).limit
  /\ inbox' = Tail(inbox)
  /\ UNCHANGED <<delivery_count, pending_transfers, wire, unsettled,
                 next_outgoing_id, error, promise, sends, peer_vars>>

(* SenderLinkInner::apply_flow, for a Flow routed to the live link.  The   *)
(* u32 subtraction wraps; `delta > 0` on a u32 means delta # 0.  With      *)
(* delta # 0 the credit grows by delta and, if the link had no credit, the *)
(* pending queue is drained from the front until it is empty or the credit *)
(* is spent.  With delta = 0 the code adds max(0, link_credit + delta),    *)
(* i.e. the credit doubles.                                                *)
ApplyFlow ==
  /\ inbox # <<>>
  /\ Head(inbox).kind = "flow"
  /\ ~error
  /\ LET f == Head(inbox)
         delta == (f.dc + f.credit - (delivery_count + link_credit)) % Mod
         credit1 == (link_credit + delta) % Mod
         k == IF link_credit # 0 THEN 0
              ELSE IF Len(pending_transfers) <= credit1
                   THEN Len(pending_transfers) ELSE credit1
     IN  \/ /\ delta # 0
            /\ link_credit' = credit1 - k
            /\ delivery_count' = (delivery_count + k) % Mod
            /\ pending_transfers' =
                 SubSeq(pending_transfers, k + 1, Len(pending_transfers))
            /\ SendTransfers(SubSeq(pending_transfers, 1, k))
         \/ /\ delta = 0
            /\ link_credit' = (link_credit + link_credit) % Mod
            /\ UNCHANGED <<delivery_count, pending_transfers, wire,
                           unsettled, next_outgoing_id>>
  /\ grant' = Head(inbox).limit
  /\ inbox' = Tail(inbox)
  /\ UNCHANGED <<error, promise, sends, peer_vars>>

(* A Flow for a link the session no longer routes to (after detach).       *)
DropFlow ==
  /\ inbox # <<>>
  /\ Head(inbox).kind = "flow"
  /\ error
  /\ inbox' = Tail(inbox)
  /\ UNCHANGED <<link_vars, session_vars, wire, peer_vars, grant>>

(* Session: an inbound Disposition resolves every unsettled delivery whose *)
(* id lies in [first, last] with the peer's outcome.                       *)
HandleDisposition ==
  /\ inbox # <<>>
  /\ Head(inbox).kind = "disposition"
  /\ LET f == Head(inbox)
         hit == {u \in unsettled : f.first <= u.id /\ u.id <= f.last}
     IN  /\ promise' = [m \in Msg |->
                          IF \E u \in hit : u.msg = m THEN "settled"
                          ELSE promise[m]]
         /\ unsettled' = unsettled \ hit
  /\ inbox' = Tail(inbox)
  /\ UNCHANGED <<link_vars, next_outgoing_id, sends, wire, peer_vars, grant>>

(* Mutant of FailLink: the pending queue is cleared without failing the  *)
(* promises of the transfers it held.                                      *)
FailLinkDropPending ==
  /\ promise' = [m \in Msg |->
                   IF \E u \in unsettled : u.msg = m THEN "failed"
                   ELSE promise[m]]
  /\ pending_transfers' = <<>>
  /\ unsettled' = {}
  /\ error' = TRUE
  /\ UNCHANGED <<delivery_count, link_credit, next_outgoing_id, sends>>

(* Mutant of FailLink: only the promises of pending_transfers are failed, *)
(* as detached and set_error do themselves; the session leaves the link's   *)
(* unsettled deliveries waiting.                                           *)
FailLinkPendingOnly ==
  /\ promise' = [m \in Msg |->
                   IF m \in Range(pending_transfers) THEN "failed"
                   ELSE promise[m]]
  /\ pending_transfers' = <<>>
  /\ error' = TRUE
  /\ UNCHANGED <<delivery_count, link_credit, next_outgoing_id, unsettled,
                 sends>>

(* SenderLinkInner::detached / set_error: fail every pending transfer's    *)
(* promise and record the error; the session fails the link's unsettled    *)
(* deliveries with it.                                                     *)
FailLink ==
  /\ promise' = [m \in Msg |->
                   IF \/ m \in Range(pending_transfers)
                      \/ \E u \in unsettled : u.msg = m
                   THEN "failed" ELSE promise[m]]
  /\ pending_transfers' = <<>>
  /\ unsettled' = {}
  /\ error' = TRUE
  /\ UNCHANGED <<delivery_count, link_credit, next_outgoing_id, sends>>

(* The peer's Detach reaches the link (detached).                          *)
Detached ==
  /\ inbox # <<>>
  /\ Head(inbox).kind = "detach"
  /\ FailLink
  /\ inbox' = Tail(inbox)
  /\ UNCHANGED <<wire, peer_vars, grant>>

(* The session or connection fails the link (set_error).                   *)
SetError ==
  /\ FailLink
  /\ UNCHANGED <<wire, inbox, peer_vars, grant>>

-----------------------------------------------------------------------------
(* The remote receiver. *)

PeerReceive ==
  /\ wire # <<>>
  /\ received' = Append(received, Head(wire).msg)
  /\ peer_unsettled' = peer_unsettled \cup {Head(wire).id}
  /\ wire' = Tail(wire)
  /\ UNCHANGED <<link_vars, session_vars, inbox, flows, peer_detached, grant>>

(* The peer grants `credit` from its current delivery count. *)
PeerFlow(credit) ==
  /\ ~peer_detached
  /\ flows < MaxFlows
  /\ inbox' = Append(inbox, FlowFrame(Len(received) % Mod, credit,
                                      Len(received) + credit))
  /\ flows' = flows + 1
  /\ UNCHANGED <<link_vars, session_vars, wire, received, peer_unsettled,
                 peer_detached, grant>>

PeerSettle(first, last) ==
  /\ ~peer_detached
  /\ first \in peer_unsettled
  /\ last \in peer_unsettled
  /\ first <= last
  /\ inbox' = Append(inbox, DispositionFrame(first, last))
  /\ peer_unsettled' = {d \in peer_unsettled : d < first \/ last < d}
  /\ UNCHANGED <<link_vars, session_vars, wire, received, flows,
                 peer_detached, grant>>

PeerDetach ==
  /\ ~peer_detached
  /\ inbox' = Append(inbox, DetachFrame)
  /\ peer_detached' = TRUE
  /\ UNCHANGED <<link_vars, session_vars, wire, received, peer_unsettled,
                 flows, grant>>

-----------------------------------------------------------------------------
Next ==
  \/ SendQueued
  \/ SendNow
  \/ ApplyFlow
  \/ DropFlow
  \/ HandleDisposition
  \/ Detached
  \/ SetError
  \/ PeerReceive
  \/ \E c \in 0 .. MaxCredit : PeerFlow(c)
  \/ \E first, last \in peer_unsettled : PeerSettle(first, last)
  \/ PeerDetach

Spec == Init /\ [][Next]_vars

-----------------------------------------------------------------------------
(* Properties *)

(* The messages of the link in the order they leave it: those the peer     *)
(* has received, those on the wire, those still queued.                    *)
SentStream ==
  received \o [i \in 1 .. Len(wire) |-> wire[i].msg] \o pending_transfers

(* Transfers reach the peer in the order of the send() calls, across the   *)
(* direct path of send and the pending queue drained by apply_flow; the    *)
(* queue holds only messages later than every one already sent.           *)
InSendOrder ==
  \A i, j \in 1 .. Len(SentStream) : i < j => SentStream[i] < SentStream[j]

(* A message waits in pending_transfers only while the link has no credit: *)
(* apply_flow drains the queue only when the credit was zero, so a queued  *)
(* message next to unused credit would never be sent.                      *)
PendingOnlyWhenStarved ==
  pending_transfers # <<>> => link_credit = 0

(* A send() future is waiting exactly when its message is held somewhere   *)
(* that will resolve it: the pending queue (detach fails it) or the        *)
(* session's unsettled map (a Disposition or detach resolves it).          *)
PromiseAccounted ==
  \A m \in Msg :
    promise[m] = "pending" <=>
      \/ m \in Range(pending_transfers)
      \/ \E u \in unsettled : u.msg = m

(* The step that fails the link (detached on the peer's Detach, or        *)
(* set_error) leaves no send() future waiting: the link fails the promises *)
(* of pending_transfers and the session those of the deliveries already    *)
(* sent and not yet settled, so a Delivery awaited before the failure is   *)
(* always answered.                                                        *)
FailureResolvesAll ==
  [][~error /\ error' => \A m \in Msg : promise'[m] # "pending"]_vars

(* The link never holds more credit than the peer's last Flow allows:     *)
(* transfers sent plus credit stay within that Flow's delivery-count plus  *)
(* link-credit (spec: delivery_count + link_credit tracks the peer's view; *)
(* a shrinking Flow leaves the credit at zero at worst).                   *)
CreditWithinGrant ==
  link_credit = 0 \/ next_outgoing_id + link_credit <= grant

(* Once the link is detached no send() future is left in its pending      *)
(* queue (spec 4.3: pending transfers are failed with the error).          *)
DetachedHoldsNoQueuedSends ==
  error => pending_transfers = <<>>

=============================================================================
