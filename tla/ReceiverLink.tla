---------------------------- MODULE ReceiverLink ----------------------------
(***************************************************************************)
(* The receiving end of an AMQP link (src/rcvlink.rs): the application    *)
(* grants credit with set_link_credit, the session routes inbound         *)
(* Transfers to handle_transfer, and the application reads them through   *)
(* the Stream impl (poll), parking its task in an AtomicTask when the     *)
(* queue is empty.  The remote sender is a compliant AMQP sender that     *)
(* reads each Flow's link-credit as an absolute grant from the Flow's      *)
(* delivery-count; it may also overrun its credit a bounded number of     *)
(* times, the case handle_transfer guards against.                        *)
(***************************************************************************)
EXTENDS Integers, Sequences, Functions

CONSTANTS
  Width,        \* bits of the u32 counters (32 in the code)
  MaxGrant,     \* largest n passed to set_link_credit
  MaxGrants,    \* number of set_link_credit calls
  MaxTransfers, \* number of Transfers the peer sends
  MaxOverruns,  \* Transfers the peer sends without credit
  MaxCloses     \* number of close() calls by the application

Mod == 2 ^ Width

ASSUME ReceiverAssumption ==
  /\ Width \in Nat \ {0}
  /\ Mod \in Nat \ {0}
  /\ MaxGrant \in Nat /\ MaxGrants \in Nat /\ MaxTransfers \in Nat
  /\ MaxOverruns \in Nat /\ MaxCloses \in Nat

Tid == 1 .. MaxTransfers          \* the i-th Transfer the peer sends

(* Frames the receiver's session sends to the peer for this link. *)
Frame == [kind : {"flow"}, dc : 0 .. Mod - 1, credit : Nat]
           \cup [kind : {"detach"}, error : {"none", "limit"}]

VARIABLES
  credit,          \* ReceiverLinkInner.credit
  delivery_count,  \* ReceiverLinkInner.delivery_count
  queue,           \* ReceiverLinkInner.queue
  closed,          \* ReceiverLinkInner.closed
  reader,          \* the task reading the Stream: "polling", "parked", "done"
  consumed,        \* Transfers the Stream has yielded, in order
  grants,          \* set_link_credit calls made
  closes,          \* close() calls made
  detaches,        \* detach_receiver_link calls, with their error
  to_peer,         \* frames to the peer (Flow, Detach), FIFO
  to_link,         \* Transfers from the peer, FIFO
  peer_dc,         \* the peer sender's delivery-count
  peer_credit,     \* the peer sender's link-credit
  peer_detached,   \* the peer has seen our Detach
  sent,            \* Transfers the peer has sent
  overruns         \* Transfers the peer sent without credit

link_vars == <<credit, delivery_count, queue, closed>>
app_vars == <<reader, consumed, grants, closes>>
peer_vars == <<peer_dc, peer_credit, peer_detached, sent, overruns>>
vars == <<link_vars, app_vars, detaches, to_peer, to_link, peer_vars>>

TypeOK ==
  /\ credit \in 0 .. Mod - 1
  /\ delivery_count \in 0 .. Mod - 1
  /\ queue \in Seq(Tid)
  /\ closed \in BOOLEAN
  /\ reader \in {"polling", "parked", "done"}
  /\ consumed \in Seq(Tid)
  /\ grants \in 0 .. MaxGrants
  /\ closes \in 0 .. MaxCloses
  /\ detaches \in Seq({"none", "limit"})
  /\ to_peer \in Seq(Frame)
  /\ to_link \in Seq(Tid)
  /\ peer_dc \in 0 .. Mod - 1
  /\ peer_credit \in Nat
  /\ peer_detached \in BOOLEAN
  /\ sent \in 0 .. MaxTransfers
  /\ overruns \in 0 .. MaxOverruns

(* ReceiverLinkInner::new: no credit, the Attach's initial delivery count *)
(* (0 here), an empty queue, not closed; the reader starts by polling.     *)
Init ==
  /\ credit = 0
  /\ delivery_count = 0
  /\ queue = <<>>
  /\ closed = FALSE
  /\ reader = "polling"
  /\ consumed = <<>>
  /\ grants = 0
  /\ closes = 0
  /\ detaches = <<>>
  /\ to_peer = <<>>
  /\ to_link = <<>>
  /\ peer_dc = 0
  /\ peer_credit = 0
  /\ peer_detached = FALSE
  /\ sent = 0
  /\ overruns = 0

-----------------------------------------------------------------------------
(* ReceiverLinkInner::close: when not closed, ask the session to detach   *)
(* the link (Detach with closed=true and the error goes to the peer).      *)
(* The close future itself is not modelled.                                *)
Close(err) ==
  IF closed
  THEN UNCHANGED <<detaches, to_peer>>
  ELSE /\ detaches' = Append(detaches, err)
       /\ to_peer' = Append(to_peer, [kind |-> "detach", error |-> err])

(* ReceiverLinkInner::set_link_credit(n): add n to the credit (a u32 add,  *)
(* wrapping in a release build) and have the session send a Flow carrying *)
(* the current delivery count and n, the increment, as link-credit.        *)
SetLinkCredit(n) ==
  /\ grants < MaxGrants
  /\ credit' = (credit + n) % Mod
  /\ to_peer' = Append(to_peer, [kind |-> "flow", dc |-> delivery_count,
                                 credit |-> n])
  /\ grants' = grants + 1
  /\ UNCHANGED <<delivery_count, queue, closed, reader, consumed, closes,
                 detaches, to_link, peer_vars>>

(* AtomicTask::notify: a parked reader is woken and polls again. *)
Notify(r) == IF r = "parked" THEN "polling" ELSE r

(* Mutant of HandleTransfer: the credit check is dropped and every        *)
(* Transfer is admitted.                                                   *)
HandleTransferUnchecked ==
  /\ to_link # <<>>
  /\ to_link' = Tail(to_link)
  /\ credit' = credit - 1
  /\ delivery_count' = (delivery_count + 1) % Mod
  /\ queue' = Append(queue, Head(to_link))
  /\ reader' = IF Len(queue') = 1 THEN Notify(reader) ELSE reader
  /\ UNCHANGED <<detaches, to_peer, closed, consumed, grants, closes,
                 peer_vars>>

(* Mutant of HandleTransfer: the credit check is off by one (credit <= 1). *)
HandleTransferOffByOne ==
  /\ to_link # <<>>
  /\ to_link' = Tail(to_link)
  /\ \/ /\ credit <= 1
        /\ Close("limit")
        /\ UNCHANGED <<credit, delivery_count, queue, reader>>
     \/ /\ credit > 1
        /\ credit' = credit - 1
        /\ delivery_count' = (delivery_count + 1) % Mod
        /\ queue' = Append(queue, Head(to_link))
        /\ reader' = IF Len(queue') = 1 THEN Notify(reader) ELSE reader
        /\ UNCHANGED <<detaches, to_peer>>
  /\ UNCHANGED <<closed, consumed, grants, closes, peer_vars>>

(* Mutant of HandleTransfer: the queue length is tested before the push,  *)
(* so the reader is woken on the second Transfer instead of the first.     *)
HandleTransferLateNotify ==
  /\ to_link # <<>>
  /\ to_link' = Tail(to_link)
  /\ \/ /\ credit = 0
        /\ Close("limit")
        /\ UNCHANGED <<credit, delivery_count, queue, reader>>
     \/ /\ credit # 0
        /\ credit' = credit - 1
        /\ delivery_count' = (delivery_count + 1) % Mod
        /\ queue' = Append(queue, Head(to_link))
        /\ reader' = IF Len(queue) = 1 THEN Notify(reader) ELSE reader
        /\ UNCHANGED <<detaches, to_peer>>
  /\ UNCHANGED <<closed, consumed, grants, closes, peer_vars>>

(* ReceiverLinkInner::handle_transfer, for the Transfer at the head of the *)
(* link's input.  Without credit the link closes itself with              *)
(* transfer-limit-exceeded and drops the Transfer; otherwise it spends a   *)
(* credit, counts the delivery, queues the Transfer and wakes the reader   *)
(* when the queue has just become non-empty.                               *)
HandleTransfer ==
  /\ to_link # <<>>
  /\ to_link' = Tail(to_link)
  /\ \/ /\ credit = 0
        /\ Close("limit")
        /\ UNCHANGED <<credit, delivery_count, queue, reader>>
     \/ /\ credit # 0
        /\ credit' = credit - 1
        /\ delivery_count' = (delivery_count + 1) % Mod
        /\ queue' = Append(queue, Head(to_link))
        /\ reader' = IF Len(queue') = 1 THEN Notify(reader) ELSE reader
        /\ UNCHANGED <<detaches, to_peer>>
  /\ UNCHANGED <<closed, consumed, grants, closes, peer_vars>>

(* Mutant of Poll: the head is read with front() and never popped. *)
PollFrontOnly ==
  /\ reader = "polling"
  /\ \/ /\ queue # <<>>
        /\ consumed' = Append(consumed, Head(queue))
        /\ UNCHANGED <<queue, reader>>
     \/ /\ queue = <<>>
        /\ reader' = IF closed THEN "done" ELSE "parked"
        /\ UNCHANGED <<queue, consumed>>
  /\ UNCHANGED <<credit, delivery_count, closed, grants, closes, detaches,
                 to_peer, to_link, peer_vars>>

(* ReceiverLink::poll by the reading task: yield the head of the queue;   *)
(* with the queue empty, end the stream if closed, else register the task *)
(* and return NotReady.                                                    *)
Poll ==
  /\ reader = "polling"
  /\ \/ /\ queue # <<>>
        /\ consumed' = Append(consumed, Head(queue))
        /\ queue' = Tail(queue)
        /\ UNCHANGED reader
     \/ /\ queue = <<>>
        /\ reader' = IF closed THEN "done" ELSE "parked"
        /\ UNCHANGED <<queue, consumed>>
  /\ UNCHANGED <<credit, delivery_count, closed, grants, closes, detaches,
                 to_peer, to_link, peer_vars>>

(* ReceiverLink::close / close_with_error called by the application. *)
AppClose ==
  /\ closes < MaxCloses
  /\ closes' = closes + 1
  /\ Close("none")
  /\ UNCHANGED <<link_vars, reader, consumed, grants, to_link, peer_vars>>

-----------------------------------------------------------------------------
(* The remote sender. *)

(* Send a Transfer within credit. *)
PeerSend ==
  /\ ~peer_detached
  /\ peer_credit > 0
  /\ sent < MaxTransfers
  /\ to_link' = Append(to_link, sent + 1)
  /\ sent' = sent + 1
  /\ peer_dc' = (peer_dc + 1) % Mod
  /\ peer_credit' = peer_credit - 1
  /\ UNCHANGED <<link_vars, app_vars, detaches, to_peer, peer_detached,
                 overruns>>

(* Send a Transfer without credit (a misbehaving peer). *)
PeerOverrun ==
  /\ ~peer_detached
  /\ peer_credit = 0
  /\ sent < MaxTransfers
  /\ overruns < MaxOverruns
  /\ to_link' = Append(to_link, sent + 1)
  /\ sent' = sent + 1
  /\ peer_dc' = (peer_dc + 1) % Mod
  /\ overruns' = overruns + 1
  /\ UNCHANGED <<link_vars, app_vars, detaches, to_peer, peer_credit,
                 peer_detached>>

(* A Flow reaches the peer: its link-credit counts from the Flow's         *)
(* delivery-count, so Transfers in flight since then are deducted.         *)
PeerFlow ==
  /\ to_peer # <<>>
  /\ Head(to_peer).kind = "flow"
  /\ LET f == Head(to_peer)
         inflight == (peer_dc - f.dc) % Mod
     IN  peer_credit' = IF f.credit > inflight THEN f.credit - inflight ELSE 0
  /\ to_peer' = Tail(to_peer)
  /\ UNCHANGED <<link_vars, app_vars, detaches, to_link, peer_dc,
                 peer_detached, sent, overruns>>

(* Our Detach reaches the peer, which stops sending. *)
PeerDetach ==
  /\ to_peer # <<>>
  /\ Head(to_peer).kind = "detach"
  /\ peer_detached' = TRUE
  /\ to_peer' = Tail(to_peer)
  /\ UNCHANGED <<link_vars, app_vars, detaches, to_link, peer_dc,
                 peer_credit, sent, overruns>>

Next ==
  \/ \E n \in 1 .. MaxGrant : SetLinkCredit(n)
  \/ HandleTransfer
  \/ Poll
  \/ AppClose
  \/ PeerSend
  \/ PeerOverrun
  \/ PeerFlow
  \/ PeerDetach

(* The executor polls a woken task, and the session hands every inbound    *)
(* Transfer to the link.                                                   *)
Fairness == WF_vars(Poll) /\ WF_vars(HandleTransfer)

Spec == Init /\ [][Next]_vars /\ Fairness

-----------------------------------------------------------------------------
(* Properties *)

(* Every Transfer admitted to the queue is eventually yielded by the      *)
(* Stream: handle_transfer's notify when the queue becomes non-empty,      *)
(* together with the reader polling until NotReady, loses no wakeup.       *)
TransfersDelivered ==
  \A t \in Tid : (t \in Range(queue)) ~> (t \in Range(consumed))

(* The link closes itself with transfer-limit-exceeded only when the peer *)
(* really sent beyond its credit: set_link_credit's increment-only Flow   *)
(* and handle_transfer's accounting never make a compliant peer look like *)
(* it overran.                                                             *)
LimitDetachOnlyForOverrun ==
  ("limit" \in Range(detaches)) => overruns > 0

(* Once the link has asked to detach, the reader's stream ends (spec S4: *)
(* the stream ends with None after the queued Transfers are consumed).    *)
StreamEndsAfterDetach ==
  (detaches # <<>>) ~> (reader = "done")

(* The abstract channel seen through the link: what is in transit is the  *)
(* queue followed by the Transfers not yet handled.                        *)
Channel == INSTANCE TransferChannel
             WITH chan <- queue \o to_link, out <- consumed, n <- sent

(* The link implements a lossy FIFO channel: the Stream yields the peer's *)
(* Transfers in the order sent, never twice, dropping only those           *)
(* handle_transfer refuses, and eventually yields every one it queued or   *)
(* has yet to handle (VecDeque order in handle_transfer and poll, the      *)
(* AtomicTask wakeup).                                                     *)
ImplementsLossyChannel == Channel!LossySpec

=============================================================================
