---------------------------- MODULE MC_SenderLink ----------------------------
(* Small instance of SenderLink: sequence numbers of 2 bits, so that both  *)
(* the delivery count and a wrapped credit difference occur; four sends,   *)
(* grants of up to two credits, three Flows.                               *)
EXTENDS SenderLink

MCWidth == 2
MCMaxMsgs == 4
MCMaxCredit == 2
MCMaxFlows == 3
=============================================================================
