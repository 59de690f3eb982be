--------------------------- MODULE MC_ReceiverLink ---------------------------
(* Small instance of ReceiverLink for TLC. *)
EXTENDS ReceiverLink

(* Counters of 3 bits: the pass runs grant at most 2 x 2 < 8 credits, so   *)
(* the u32 add of set_link_credit never wraps there.                       *)
MCWidth == 3
MCMaxGrant == 2
MCMaxGrants == 2
MCMaxTransfers == 4
MCMaxOverruns == 1
MCMaxCloses == 1

(* Counters of 2 bits and three grants: the credit can wrap. *)
MCWidthSmall == 2
MCMaxGrantsWrap == 3
=============================================================================
