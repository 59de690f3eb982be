------------------------ MODULE MC_LegacyReceiverLink ------------------------
(* LegacyReceiverLink for TLC: a fixed credit of 2 (5000 in the code) so   *)
(* that the peer exhausts it, three application calls, four Transfers,     *)
(* one of them sent beyond credit.                                          *)
EXTENDS LegacyReceiverLink

MCFixedCredit == 2
MCMaxCalls == 3
MCMaxTransfers == 4
MCMaxOverruns == 1

==============================================================================
