------------------------- MODULE LegacyReceiverLink -------------------------
(***************************************************************************)
(* The older receiving link kept in src/link.rs (ReceiverLink and         *)
(* ReceiverLinkInner, futures 0.1): the application confirms the Attach,   *)
(* posts a fixed Flow with set_flow, sends Dispositions, closes, and reads *)
(* Transfers through the Stream impl; the session hands inbound Transfers  *)
(* to handle_transfer.  This link keeps no credit or delivery count.  The  *)
(* remote sender is the same compliant AMQP sender as in ReceiverLink,    *)
(* with a bounded number of Transfers sent beyond its credit.             *)
(***************************************************************************)
EXTENDS Integers, Sequences, FiniteSets, Functions

CONSTANTS
  FixedCredit,  \* the link-credit set_flow announces (5000 in the code)
  MaxCalls,     \* calls the application makes (open, set_flow, ...)
  MaxTransfers, \* Transfers the peer sends
  MaxOverruns   \* Transfers the peer sends without credit

ASSUME LegacyAssumption ==
  /\ FixedCredit \in Nat /\ MaxCalls \in Nat
  /\ MaxTransfers \in Nat /\ MaxOverruns \in Nat

Tid == 1 .. MaxTransfers          \* the i-th Transfer the peer sends

(* Frames the link's session sends to the peer.  A Flow also records      *)
(* `handled`, the Transfers the link had taken when it was sent.           *)
Frame == [kind : {"attach", "disposition", "detach"}]
           \cup [kind : {"flow"}, dc : Nat, credit : Nat, handled : Nat]

VARIABLES
  queue,           \* ReceiverLinkInner.queue
  closed,          \* ReceiverLinkInner.closed
  reader,          \* the task reading the Stream: "polling", "parked", "done"
  consumed,        \* Transfers the Stream has yielded, in order
  handled,         \* Transfers handle_transfer has taken
  calls,           \* application calls made
  to_peer,         \* frames to the peer, FIFO
  to_link,         \* Transfers from the peer, FIFO
  peer_dc,         \* the peer sender's delivery-count
  peer_credit,     \* the peer sender's link-credit
  peer_detached,   \* the peer has seen our Detach
  sent,            \* Transfers the peer has sent
  overrun          \* the Transfers the peer sent without credit

link_vars == <<queue, closed, handled>>
app_vars == <<reader, consumed, calls>>
peer_vars == <<peer_dc, peer_credit, peer_detached, sent, overrun>>
vars == <<link_vars, app_vars, to_peer, to_link, peer_vars>>

TypeOK ==
  /\ queue \in Seq(Tid)
  /\ closed \in BOOLEAN
  /\ reader \in {"polling", "parked", "done"}
  /\ consumed \in Seq(Tid)
  /\ handled \in 0 .. MaxTransfers
  /\ calls \in 0 .. MaxCalls
  /\ to_peer \in Seq(Frame)
  /\ to_link \in Seq(Tid)
  /\ peer_dc \in 0 .. MaxTransfers
  /\ peer_credit \in Nat
  /\ peer_detached \in BOOLEAN
  /\ sent \in 0 .. MaxTransfers
  /\ overrun \in SUBSET Tid

(* ReceiverLinkInner::new: not closed, an empty queue. *)
Init ==
  /\ queue = <<>>
  /\ closed = FALSE
  /\ reader = "polling"
  /\ consumed = <<>>
  /\ handled = 0
  /\ calls = 0
  /\ to_peer = <<>>
  /\ to_link = <<>>
  /\ peer_dc = 0
  /\ peer_credit = 0
  /\ peer_detached = FALSE
  /\ sent = 0
  /\ overrun = {}

-----------------------------------------------------------------------------
(* One more application call, within the bound. *)
AppCall ==
  /\ calls < MaxCalls
  /\ calls' = calls + 1

(* The call posts a frame to the session, which sends it to the peer. *)
Post(frame) ==
  /\ to_peer' = Append(to_peer, frame)
  /\ UNCHANGED <<link_vars, reader, consumed, to_link, peer_vars>>

(* ReceiverLink::open: confirm_receiver_link sends our Attach. *)
Open ==
  /\ AppCall
  /\ Post([kind |-> "attach"])

(* Mutant of SetFlow: the Flow announces the last delivery id, one less  *)
(* than the count.                                                         *)
SetFlowLastId ==
  /\ AppCall
  /\ Post([kind |-> "flow", dc |-> handled - 1, credit |-> FixedCredit,
           handled |-> handled])

(* ReceiverLink::set_flow: a Flow with delivery-count 0 and the fixed     *)
(* link-credit, whatever the link has received.                            *)
SetFlow ==
  /\ AppCall
  /\ Post([kind |-> "flow", dc |-> 0, credit |-> FixedCredit,
           handled |-> handled])

(* ReceiverLink::send_disposition. *)
SendDisposition ==
  /\ AppCall
  /\ Post([kind |-> "disposition"])

(* ReceiverLinkInner::close (close and close_with_error): resolve at once *)
(* when closed, else ask the session to detach the link.                   *)
Close ==
  /\ AppCall
  /\ IF closed
     THEN UNCHANGED <<link_vars, reader, consumed, to_peer, to_link, peer_vars>>
     ELSE Post([kind |-> "detach"])

(* AtomicTask::notify: a parked reader is woken and polls again. *)
Notify(r) == IF r = "parked" THEN "polling" ELSE r

(* Mutant of HandleTransfer: the queue length is tested before the push. *)
HandleTransferLateNotify ==
  /\ to_link # <<>>
  /\ to_link' = Tail(to_link)
  /\ queue' = Append(queue, Head(to_link))
  /\ handled' = handled + 1
  /\ reader' = IF Len(queue) = 1 THEN Notify(reader) ELSE reader
  /\ UNCHANGED <<closed, consumed, calls, to_peer, peer_vars>>

(* ReceiverLinkInner::handle_transfer: queue the Transfer, and wake the   *)
(* reader when the queue has just become non-empty.  There is no credit    *)
(* check.                                                                  *)
HandleTransfer ==
  /\ to_link # <<>>
  /\ to_link' = Tail(to_link)
  /\ queue' = Append(queue, Head(to_link))
  /\ handled' = handled + 1
  /\ reader' = IF Len(queue') = 1 THEN Notify(reader) ELSE reader
  /\ UNCHANGED <<closed, consumed, calls, to_peer, peer_vars>>

(* Mutant of Poll: the Transfer is taken from the back of the queue. *)
PollBack ==
  /\ reader = "polling"
  /\ \/ /\ queue # <<>>
        /\ consumed' = Append(consumed, queue[Len(queue)])
        /\ queue' = SubSeq(queue, 1, Len(queue) - 1)
        /\ UNCHANGED reader
     \/ /\ queue = <<>>
        /\ reader' = IF closed THEN "done" ELSE "parked"
        /\ UNCHANGED <<queue, consumed>>
  /\ UNCHANGED <<closed, handled, calls, to_peer, to_link, peer_vars>>

(* ReceiverLink::poll: pop the front of the queue; with the queue empty,  *)
(* end the stream if closed, else register the task and return NotReady.  *)
Poll ==
  /\ reader = "polling"
  /\ \/ /\ queue # <<>>
        /\ consumed' = Append(consumed, Head(queue))
        /\ queue' = Tail(queue)
        /\ UNCHANGED reader
     \/ /\ queue = <<>>
        /\ reader' = IF closed THEN "done" ELSE "parked"
        /\ UNCHANGED <<queue, consumed>>
  /\ UNCHANGED <<closed, handled, calls, to_peer, to_link, peer_vars>>

-----------------------------------------------------------------------------
(* The remote sender. *)

(* Send a Transfer, within credit or, a bounded number of times, beyond. *)
PeerSend ==
  /\ ~peer_detached
  /\ sent < MaxTransfers
  /\ \/ peer_credit > 0
     \/ Cardinality(overrun) < MaxOverruns
  /\ to_link' = Append(to_link, sent + 1)
  /\ sent' = sent + 1
  /\ peer_dc' = peer_dc + 1
  /\ peer_credit' = IF peer_credit > 0 THEN peer_credit - 1 ELSE 0
  /\ overrun' = IF peer_credit > 0 THEN overrun ELSE overrun \cup {sent + 1}
  /\ UNCHANGED <<link_vars, app_vars, to_peer, peer_detached>>

(* The peer takes the next frame: a Flow sets its credit to the Flow's    *)
(* delivery-count plus link-credit minus its own delivery-count; a Detach  *)
(* stops it; Attach and Disposition change nothing modelled here.          *)
PeerReceive ==
  LET f == Head(to_peer) IN
  /\ to_peer # <<>>
  /\ to_peer' = Tail(to_peer)
  /\ peer_credit' = IF f.kind = "flow"
                    THEN IF f.dc + f.credit > peer_dc
                         THEN f.dc + f.credit - peer_dc ELSE 0
                    ELSE peer_credit
  /\ peer_detached' = (peer_detached \/ f.kind = "detach")
  /\ UNCHANGED <<link_vars, app_vars, to_link, peer_dc, sent, overrun>>

Next ==
  \/ Open
  \/ SetFlow
  \/ SendDisposition
  \/ Close
  \/ HandleTransfer
  \/ Poll
  \/ PeerSend
  \/ PeerReceive

(* The executor polls a woken task, and the session hands every inbound    *)
(* Transfer to the link.                                                   *)
Fairness == WF_vars(Poll) /\ WF_vars(HandleTransfer)

Spec == Init /\ [][Next]_vars /\ Fairness

-----------------------------------------------------------------------------
(* Properties *)

(* The Stream yields the Transfers in the order the peer sent them, with  *)
(* none lost or repeated: what was read, what is queued and what is in     *)
(* flight are exactly Transfers 1 .. sent, in order (VecDeque push_back in *)
(* handle_transfer, pop_front in poll).                                    *)
InArrivalOrder ==
  consumed \o queue \o to_link = [i \in 1 .. sent |-> i]

(* Every queued Transfer is eventually yielded by the Stream: the wakeup  *)
(* in handle_transfer is never lost.                                       *)
TransfersDelivered ==
  \A t \in Tid : (t \in Range(queue)) ~> (t \in Range(consumed))

(* A Transfer the peer sent beyond its credit is never handed to the      *)
(* application (spec, handle_transfer: without credit the link detaches    *)
(* with transfer-limit-exceeded).                                          *)
OverrunRejected ==
  (Range(queue) \cup Range(consumed)) \cap overrun = {}

(* Every Flow carries the link's delivery count when it was sent, so that *)
(* the peer's credit counts from the right place (spec, set_link_credit:   *)
(* the Flow carries the delivery count).                                   *)
FlowCarriesDeliveryCount ==
  \A i \in 1 .. Len(to_peer) :
    to_peer[i].kind = "flow" => to_peer[i].dc = to_peer[i].handled

(* The abstract channel seen through the link: what is in transit is the  *)
(* queue followed by the Transfers not yet handled.                        *)
Channel == INSTANCE TransferChannel
             WITH chan <- queue \o to_link, out <- consumed, n <- sent

=============================================================================
