--------------------------- MODULE Heartbeat_proofs ---------------------------
(***************************************************************************)
(* Proofs, for every choice of timeouts, horizon and queue bound, that the *)
(* idle-timeout timer of src/hb.rs never closes a connection early and,    *)
(* with a remote timeout, keeps the wire from staying silent longer than   *)
(* that timeout.                                                           *)
(***************************************************************************)
EXTENDS Heartbeat, TLAPS

USE HeartbeatAssumption DEF vars

(* The inductive invariant.  expire_local is the time of the last inbound *)
(* frame, and with a remote timeout expire_remote is that of the last      *)
(* outbound one; both lie in the past; time never passes the Delay's       *)
(* deadline, and the deadline is never later than the remote expiry.  The  *)
(* last conjunct bounds the wire's silence; poll's close test on the       *)
(* deadline gives NoEarlyClose.                                             *)
HInv ==
  /\ TypeOK
  /\ expire_local = last_in
  /\ expire_local <= now
  /\ expire_remote <= now
  /\ now <= deadline
  /\ remote # None => /\ expire_remote = last_out
                      /\ deadline <= expire_remote + remote
  /\ NoEarlyClose

(* Heartbeat::new establishes the invariant: both instants are now and   *)
(* the Delay is armed at now + min(local, remote).                         *)
LEMMA InitHInv == Init => HInv
BY DEF Init, HInv, TypeOK, Min2, NoEarlyClose

(* poll: the close branch closes only at a deadline past the local        *)
(* expiry; the re-arm branch arms the Delay at next_expire, which is not   *)
(* before now and not after the remote expiry.                             *)
LEMMA PollHInv ==
  ASSUME HInv, Poll
  PROVE  HInv'
<1> USE DEF HInv, TypeOK, NoEarlyClose
<1>1. now = deadline
  BY DEF Poll
<1>2. CASE /\ deadline >= expire_local + local
           /\ state' = "closed"
           /\ UNCHANGED <<deadline, hb_queued>>
  BY <1>1, <1>2 DEF Poll
<1>3. CASE /\ deadline < expire_local + local
           /\ hb_queued < MaxQueued
           /\ hb_queued' = IF remote # None /\ deadline >= expire_remote + remote
                           THEN hb_queued + 1 ELSE hb_queued
           /\ deadline' = NextExpire
           /\ UNCHANGED state
  <2>1. NextExpire \in Nat /\ now <= NextExpire
    BY <1>1, <1>3 DEF NextExpire, Min2
  <2>2. remote # None => NextExpire <= expire_remote + remote
    BY DEF NextExpire, Min2
  <2>3. QED
    BY <1>3, <2>1, <2>2 DEF Poll
<1>4. CASE /\ state' = "failed"
           /\ UNCHANGED <<deadline, hb_queued>>
  BY <1>4 DEF Poll
<1>5. QED
  BY <1>2, <1>3, <1>4 DEF Poll

(* Every step keeps the invariant. *)
LEMMA NextHInv == HInv /\ [Next]_vars => HInv'
<1> SUFFICES ASSUME HInv, [Next]_vars
             PROVE  HInv'
  OBVIOUS
<1>1. CASE Tick
  BY <1>1 DEF Tick, HInv, TypeOK, NoEarlyClose
<1>2. CASE UpdateLocal
  BY <1>2 DEF UpdateLocal, HInv, TypeOK, NoEarlyClose
<1>3. CASE SendFrame
  BY <1>3 DEF SendFrame, UpdateRemote, HInv, TypeOK, NoEarlyClose
<1>4. CASE WriteHeartbeat
  BY <1>4 DEF WriteHeartbeat, UpdateRemote, HInv, TypeOK, NoEarlyClose
<1>5. CASE Poll
  BY <1>5, PollHInv
<1>6. CASE UNCHANGED vars
  BY <1>6 DEF HInv, TypeOK, NoEarlyClose
<1>7. QED
  BY <1>1, <1>2, <1>3, <1>4, <1>5, <1>6 DEF Next

(* The timer keeps every variable in its type. *)
THEOREM HeartbeatTypeCorrect == Spec => []TypeOK
<1>1. HInv => TypeOK
  BY DEF HInv
<1>2. QED
  BY InitHInv, NextHInv, <1>1, PTL DEF Spec

(* Heartbeat::poll closes the connection for silence only when no frame  *)
(* has come in for the whole local timeout, for every timeout and horizon. *)
THEOREM NoCloseBeforeTimeout == Spec => []NoEarlyClose
<1>1. HInv => NoEarlyClose
  BY DEF HInv
<1>2. QED
  BY InitHInv, NextHInv, <1>1, PTL DEF Spec

(* With a remote timeout, an open connection's wire is never silent for  *)
(* longer than that timeout: poll's re-arm at next_expire and the          *)
(* heartbeat it requests keep the last outbound frame within `remote`.     *)
THEOREM HeartbeatsInTime == Spec => []HeartbeatInTime
<1>1. HInv => HeartbeatInTime
  BY DEF HInv, TypeOK, HeartbeatInTime
<1>2. QED
  BY InitHInv, NextHInv, <1>1, PTL DEF Spec

=============================================================================
