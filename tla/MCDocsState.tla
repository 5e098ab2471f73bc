----------------------------- MODULE MCDocsState -----------------------------
(***************************************************************************)
(* Model values and symmetry for checking DocsState.                       *)
(***************************************************************************)
EXTENDS DocsState, TLC

CONSTANTS r1, r2, w1, w2, f1, f2

MCReaders      == {r1, r2}
MCSwappers     == {w1, w2}
MCOneSwapper   == {w1}
MCFiles        == {f1, f2}
MCOneFile      == {f1}
MCUnsplittable == {}

\* Goroutines and file names are interchangeable (safety runs only).
Symmetry == Permutations(MCReaders) \cup Permutations(MCSwappers)
            \cup Permutations(MCFiles)

=============================================================================
