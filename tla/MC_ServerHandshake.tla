-------------------------- MODULE MC_ServerHandshake --------------------------
(* ServerHandshake for TLC: the client sends up to five messages, enough   *)
(* for the four of the SASL exchange and one more after it.                 *)
EXTENDS ServerHandshake

MCMaxClientMsgs == 5

==============================================================================
