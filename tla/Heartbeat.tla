------------------------------ MODULE Heartbeat ------------------------------
(***************************************************************************)
(* The idle-timeout timer of a connection (src/hb.rs).  One Delay is armed *)
(* at the earlier of two deadlines: local silence (no inbound frame for    *)
(* `local`: close the connection) and remote silence (no outbound frame    *)
(* for `remote`: send an empty frame).  The connection resets the two      *)
(* instants when frames come in and go out, and polls the timer when it    *)
(* fires.  Time is discrete; the task is polled when its Delay is due,     *)
(* so time does not pass a due deadline.                                   *)
(***************************************************************************)
EXTENDS Integers

CONSTANTS
  LocalChoices,   \* values of `local` (a Duration)
  RemoteChoices,  \* values of `remote` (an Option<Duration>)
  None,           \* remote = None
  MaxTime,        \* time horizon
  MaxQueued       \* empty frames waiting to be written

ASSUME HeartbeatAssumption ==
  /\ LocalChoices \subseteq Nat
  /\ RemoteChoices \subseteq Nat \cup {None}
  /\ None \notin Nat
  /\ MaxTime \in Nat
  /\ MaxQueued \in Nat

VARIABLES
  now,            \* LowResTimeService::now()
  local,          \* Heartbeat.local
  remote,         \* Heartbeat.remote
  expire_local,   \* Heartbeat.expire_local: last inbound frame
  expire_remote,  \* Heartbeat.expire_remote: last outbound frame (if remote)
  deadline,       \* the Delay's deadline
  state,          \* the connection: "open", "closed" (Close), "failed" (timer error)
  hb_queued,      \* empty frames the connection has yet to write
  last_in,        \* time of the last frame received
  last_out        \* time of the last frame written

vars == <<now, local, remote, expire_local, expire_remote, deadline, state,
          hb_queued, last_in, last_out>>

TypeOK ==
  /\ now \in 0 .. MaxTime
  /\ local \in LocalChoices
  /\ remote \in RemoteChoices
  /\ expire_local \in 0 .. MaxTime
  /\ expire_remote \in 0 .. MaxTime
  /\ deadline \in Nat
  /\ state \in {"open", "closed", "failed"}
  /\ hb_queued \in 0 .. MaxQueued
  /\ last_in \in 0 .. MaxTime
  /\ last_out \in 0 .. MaxTime

Min2(a, b) == IF a <= b THEN a ELSE b

(* Heartbeat::new at time 0: both instants are now, and the Delay is armed *)
(* at now + min(local, remote), or now + local without a remote timeout.   *)
Init ==
  /\ now = 0
  /\ local \in LocalChoices
  /\ remote \in RemoteChoices
  /\ expire_local = 0
  /\ expire_remote = 0
  /\ deadline = IF remote # None THEN Min2(local, remote) ELSE local
  /\ state = "open"
  /\ hb_queued = 0
  /\ last_in = 0
  /\ last_out = 0

(* Mutant of NextExpire: the remote expiry is left out. *)
NextExpireLocalOnly ==
  expire_local + local

(* Heartbeat::next_expire. *)
NextExpire ==
  IF remote # None
  THEN Min2(expire_local + local, expire_remote + remote)
  ELSE expire_local + local

-----------------------------------------------------------------------------
(* Time passes while the Delay is not due. *)
Tick ==
  /\ state = "open"
  /\ now < MaxTime
  /\ now < deadline
  /\ now' = now + 1
  /\ UNCHANGED <<local, remote, expire_local, expire_remote, deadline, state,
                 hb_queued, last_in, last_out>>

(* Mutant of UpdateLocal: update_local copies update_remote's guard and  *)
(* only updates with a remote timeout.                                     *)
UpdateLocalIfRemote ==
  /\ state = "open"
  /\ expire_local' = IF remote # None THEN now ELSE expire_local
  /\ last_in' = now
  /\ UNCHANGED <<now, local, remote, expire_remote, deadline, state,
                 hb_queued, last_out>>

(* Mutant of UpdateLocal: the field stores the expiry instant (now +     *)
(* local), as its name suggests, instead of the time of the frame.        *)
UpdateLocalStoresExpiry ==
  /\ state = "open"
  /\ expire_local' = now + local
  /\ last_in' = now
  /\ UNCHANGED <<now, local, remote, expire_remote, deadline, state,
                 hb_queued, last_out>>

(* A frame arrives: the connection calls update_local(true). *)
UpdateLocal ==
  /\ state = "open"
  /\ expire_local' = now
  /\ last_in' = now
  /\ UNCHANGED <<now, local, remote, expire_remote, deadline, state,
                 hb_queued, last_out>>

(* Heartbeat::update_remote(true): only with a remote timeout. *)
UpdateRemote(t) ==
  IF remote # None THEN expire_remote' = t ELSE UNCHANGED expire_remote

(* The connection writes an application frame. *)
SendFrame ==
  /\ state = "open"
  /\ UpdateRemote(now)
  /\ last_out' = now
  /\ UNCHANGED <<now, local, remote, expire_local, deadline, state, hb_queued,
                 last_in>>

(* The connection writes a queued empty frame (the heartbeat). *)
WriteHeartbeat ==
  /\ state = "open"
  /\ hb_queued > 0
  /\ hb_queued' = hb_queued - 1
  /\ UpdateRemote(now)
  /\ last_out' = now
  /\ UNCHANGED <<now, local, remote, expire_local, deadline, state, last_in>>

(* Heartbeat::poll when the Delay is due.  Close when the deadline reached *)
(* the local expiry; otherwise ask for a heartbeat when it reached the     *)
(* remote expiry, and re-arm the Delay at next_expire.  A timer error is a *)
(* Timeout.                                                                *)
Poll ==
  /\ state = "open"
  /\ now >= deadline
  /\ \/ /\ deadline >= expire_local + local
        /\ state' = "closed"
        /\ UNCHANGED <<deadline, hb_queued>>
     \/ /\ deadline < expire_local + local
        /\ hb_queued < MaxQueued
        /\ hb_queued' = IF remote # None /\ deadline >= expire_remote + remote
                        THEN hb_queued + 1 ELSE hb_queued
        /\ deadline' = NextExpire
        /\ UNCHANGED state
     \/ /\ state' = "failed"
        /\ UNCHANGED <<deadline, hb_queued>>
  /\ UNCHANGED <<now, local, remote, expire_local, expire_remote, last_in,
                 last_out>>

Next ==
  \/ Tick
  \/ UpdateLocal
  \/ SendFrame
  \/ WriteHeartbeat
  \/ Poll

Spec == Init /\ [][Next]_vars

-----------------------------------------------------------------------------
(* Properties *)

(* The connection is closed for silence only when no frame has come in    *)
(* for the whole local timeout (spec: no close is issued until T has       *)
(* elapsed since the last inbound frame).                                  *)
NoEarlyClose ==
  state = "closed" => now - last_in >= local

(* With a remote timeout, an open connection never stays silent on the    *)
(* wire for longer than `remote` (spec: a heartbeat is emitted no later    *)
(* than T/2 after the last outbound frame).                                *)
HeartbeatInTime ==
  (state = "open" /\ remote # None) => now - last_out <= remote

=============================================================================
