----------------------------- MODULE MCDocsSystem -----------------------------
(***************************************************************************)
(* Model values for checking DocsSystem.                                   *)
(***************************************************************************)
EXTENDS DocsSystem

CONSTANTS r1, u1, u2, f1, c1, c2

MCReaders      == {r1}
MCSwappers     == {u1, u2}
MCFiles        == {f1}
MCUnsplittable == {}
MCCommits      == {c1, c2}
MCBroken       == {}

\* Commits are interchangeable: the first one may as well be c1.
MCInit == SystemInit /\ log = <<c1>>
MCSpec == MCInit /\ [][SystemNext]_systemVars /\ SystemFairness

=============================================================================
