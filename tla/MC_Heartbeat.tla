---------------------------- MODULE MC_Heartbeat ----------------------------
(* Small instance of Heartbeat for TLC: every pairing of a local timeout  *)
(* of 0, 2 or 3 ticks with no remote timeout or one of 1 or 2 ticks.      *)
EXTENDS Heartbeat

CONSTANT NoneValue

MCLocalChoices == {0, 2, 3}
MCRemoteChoices == {NoneValue, 1, 2}
MCMaxTime == 7
MCMaxQueued == 2
=============================================================================
