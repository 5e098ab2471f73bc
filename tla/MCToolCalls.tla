----------------------------- MODULE MCToolCalls -----------------------------
(***************************************************************************)
(* Model values for checking ToolCalls.                                    *)
(***************************************************************************)
EXTENDS ToolCalls

CONSTANTS q1, q2, a1, a2

MCTwoCalls == {q1, q2}
MCCreds    == {a1, a2}
MCOneCred  == {a1}

=============================================================================
