----------------------------- MODULE MCTruncation -----------------------------
(***************************************************************************)
(* Limits for checking Truncation: off, below, at and above the number of  *)
(* entries, and the negative ones.                                         *)
(***************************************************************************)
EXTENDS Truncation

MCGlobalLimits == -1..5
MCCallLimits   == -2..5

=============================================================================
