----------------------------- MODULE MCLifecycle -----------------------------
(***************************************************************************)
(* Flag values for checking Lifecycle.                                     *)
(***************************************************************************)
EXTENDS Lifecycle

MCTransports  == {"stdio", "http", "other"}
MCAutoUpdates == BOOLEAN

=============================================================================
