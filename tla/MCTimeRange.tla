----------------------------- MODULE MCTimeRange -----------------------------
(***************************************************************************)
(* Time arguments around the arrival of the call and around the lengths at *)
(* which the automatic step changes or Time.Sub saturates.                 *)
(***************************************************************************)
EXTENDS TimeRange

MCLookback == -4
MCUnset    == -60

MCTimeArgs ==
  {[form |-> "empty", by |-> 0], [form |-> "bad", by |-> 0]}
    \cup [form : {"at"}, by : {-60, -17, -5, 1, 7}]
    \cup [form : {"duration"}, by : {-12, -4, 0, 4, 11}]
    \cup [form : {"now"}, by : {-12, 0, 3}]

MCStepArgs == {NoStep, BadStep, -1, 0, 1, 5}

=============================================================================
