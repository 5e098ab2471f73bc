---------------------------- MODULE MCDocsUpdater ----------------------------
(***************************************************************************)
(* Model values for checking DocsUpdater.                                  *)
(***************************************************************************)
EXTENDS DocsUpdater

CONSTANTS u1, u2, c1, c2, c3

MCCallers   == {u1, u2}
MCOneCaller == {u1}
MCCommits   == {c1, c2, c3}
MCBroken    == {c3}

=============================================================================
