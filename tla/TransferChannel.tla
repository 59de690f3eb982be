--------------------------- MODULE TransferChannel ---------------------------
(***************************************************************************)
(* What a receiving link promises the application that reads it: the      *)
(* peer's Transfers, numbered 1, 2, ... in the order they were sent, come  *)
(* out of the Stream in that order, each at most once, and any Transfer   *)
(* still in transit is eventually yielded.  The lossy variant may also    *)
(* lose a Transfer in transit (the receiver refusing one it has no credit *)
(* for); the lossless one never does.  No implementation detail (credit,  *)
(* frames, wakeups) appears here.                                          *)
(***************************************************************************)
EXTENDS Integers, Sequences

VARIABLES
  chan,   \* Transfers sent and not yet yielded, oldest first
  out,    \* Transfers the Stream has yielded, in order
  n       \* Transfers the peer has sent

vars == <<chan, out, n>>

(* s without its i-th element. *)
RemoveAt(s, i) == SubSeq(s, 1, i - 1) \o SubSeq(s, i + 1, Len(s))

Init ==
  /\ chan = <<>>
  /\ out = <<>>
  /\ n = 0

(* The peer sends its next Transfer. *)
Send ==
  /\ chan' = Append(chan, n + 1)
  /\ n' = n + 1
  /\ UNCHANGED out

(* The Stream yields the oldest Transfer in transit. *)
Deliver ==
  /\ chan # <<>>
  /\ out' = Append(out, Head(chan))
  /\ chan' = Tail(chan)
  /\ UNCHANGED n

(* A Transfer in transit is lost. *)
Lose ==
  /\ \E i \in 1 .. Len(chan) : chan' = RemoveAt(chan, i)
  /\ UNCHANGED <<out, n>>

Next == Send \/ Deliver

LossyNext == Next \/ Lose

(* The safety part of each: what a single step may do. *)
SafeSpec == Init /\ [][Next]_vars

LossySafeSpec == Init /\ [][LossyNext]_vars

(* A lossless FIFO: everything sent is yielded, in order. *)
Spec == Init /\ [][Next]_vars /\ WF_vars(Deliver)

(* A FIFO that may lose Transfers but never reorders or repeats one. *)
LossySpec == Init /\ [][LossyNext]_vars /\ WF_vars(Deliver)

=============================================================================
