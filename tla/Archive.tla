------------------------------- MODULE Archive -------------------------------
(***************************************************************************)
(* extractDocsFromArchive (pkg/mcp/docs_updater.go): the loop over the     *)
(* entries of a downloaded tar archive that keeps the markdown files and   *)
(* enforces the limits on their total size and number.                     *)
(*                                                                         *)
(* One step is one turn of the loop.  An entry is told apart by the name   *)
(* it has below docs/, the filters it does not pass (no second path        *)
(* element, not under docs/, not local, not a regular file, not .md) and   *)
(* the size in its header, an int64.                                       *)
(***************************************************************************)
EXTENDS Integers, FiniteSets, Sequences, Functions

CONSTANTS Names,               \* paths below docs/
          Filters,             \* the filters an entry may fail
          Archives,            \* the archives there are
          MaxDecompressedSize, \* maxDecompressedSize
          MaxFileCount,        \* maxFileCount
          MaxInt64             \* the largest int64

Entries == [name : Names, fails : SUBSET Filters, size : -MaxInt64..MaxInt64]

ASSUME ArchiveAssumption ==
  /\ Archives \subseteq Seq(Entries)
  /\ MaxInt64 \in Nat /\ MaxFileCount \in Nat /\ MaxDecompressedSize \in 0..MaxInt64

VARIABLES
  archive,        \* the entries of the archive
  pos,            \* position of the entry that tr.Next reads next
  memFS,          \* file name -> position of the entry its content is from
  totalExtracted, \* totalExtracted
  result          \* "running", "extracted", or the error returned

vars == <<archive, pos, memFS, totalExtracted, result>>

Errors == {"too large", "too many", "unreadable", "no files"}

TypeOK ==
  /\ archive \in Seq(Entries)
  /\ pos \in 1..(Len(archive) + 1)
  /\ DOMAIN memFS \subseteq Names
  /\ \A n \in DOMAIN memFS : memFS[n] \in 1..Len(archive)
  /\ totalExtracted \in Nat
  /\ result \in {"running", "extracted"} \cup Errors

Init ==
  /\ archive \in Archives
  /\ pos = 1
  /\ memFS = [n \in {} |-> 0]
  /\ totalExtracted = 0
  /\ result = "running"

\* What an int64 holds after an addition or subtraction.
Int64(n) == IF n > MaxInt64 THEN n - 2 * (MaxInt64 + 1)
            ELSE IF n < -MaxInt64 - 1 THEN n + 2 * (MaxInt64 + 1)
            ELSE n

Entry == archive[pos]

\* tr.Next returned an entry.
Turn == result = "running" /\ pos <= Len(archive)

\* The loop's continue statements.
Skipped(e) == e.fails # {} \/ e.size < 0

\* Mutants of TooLarge: the sum is compared; an exact fit is too large.
TooLargeSum(e) == Int64(totalExtracted + e.size) > MaxDecompressedSize
TooLargeFit(e) == e.size >= Int64(MaxDecompressedSize - totalExtracted)

\* "Guard against int64 overflow in comparison by reframing as subtraction."
TooLarge(e) == e.size > Int64(MaxDecompressedSize - totalExtracted)

TooMany == Cardinality(DOMAIN memFS) >= MaxFileCount

Skip ==
  /\ Turn /\ Skipped(Entry)
  /\ pos' = pos + 1
  /\ UNCHANGED <<archive, memFS, totalExtracted, result>>

Fail(error) == result' = error /\ UNCHANGED <<archive, pos, memFS, totalExtracted>>

RejectSize  == Turn /\ ~Skipped(Entry) /\ TooLarge(Entry) /\ Fail("too large")

RejectCount ==
  /\ Turn /\ ~Skipped(Entry) /\ ~TooLarge(Entry)
  /\ TooMany
  /\ Fail("too many")

\* Mutant of Extract: the first of two entries of one name is kept.
ExtractOnce ==
  /\ Turn /\ ~Skipped(Entry) /\ ~TooLarge(Entry) /\ ~TooMany
  /\ memFS' = [n \in DOMAIN memFS \cup {Entry.name} |->
                 IF n \in DOMAIN memFS THEN memFS[n] ELSE pos]
  /\ totalExtracted' = Int64(totalExtracted + Entry.size)
  /\ pos' = pos + 1
  /\ UNCHANGED <<archive, result>>

\* The content is read in full and stored, over an earlier one of that name.
Extract ==
  /\ Turn /\ ~Skipped(Entry) /\ ~TooLarge(Entry) /\ ~TooMany
  /\ memFS' = [n \in DOMAIN memFS \cup {Entry.name} |->
                 IF n = Entry.name THEN pos ELSE memFS[n]]
  /\ totalExtracted' = Int64(totalExtracted + Entry.size)
  /\ pos' = pos + 1
  /\ UNCHANGED <<archive, result>>

\* The stream ends inside the archive, because the download broke off or
\* io.LimitReader cut it at maxArchiveSize, or is corrupt: tr.Next fails, or
\* the read of a content that all checks let through.
Unreadable == Fail("unreadable") /\ result = "running"

\* Mutant of EndOfArchive: a broken stream counts as the end.
EndAnywhere ==
  /\ result = "running"
  /\ result' = IF DOMAIN memFS = {} THEN "no files" ELSE "extracted"
  /\ UNCHANGED <<archive, pos, memFS, totalExtracted>>

\* tr.Next returned io.EOF.
EndOfArchive ==
  /\ result = "running" /\ pos = Len(archive) + 1
  /\ result' = IF DOMAIN memFS = {} THEN "no files" ELSE "extracted"
  /\ UNCHANGED <<archive, pos, memFS, totalExtracted>>

Terminated == result # "running" /\ UNCHANGED vars

Next == \/ Skip \/ RejectSize \/ RejectCount \/ Extract
        \/ Unreadable \/ EndOfArchive \/ Terminated

Spec == Init /\ [][Next]_vars

-----------------------------------------------------------------------------

\* Positions, among the first k, of the entries that are documentation.
DocsUpTo(k) == {i \in 1..k : archive[i].fails = {} /\ archive[i].size >= 0}

\* What extraction should make of an archive: every documentation file, with
\* its last content.
IsLastDoc(i, k) ==
  i \in DocsUpTo(k) /\ \A j \in DocsUpTo(k) : archive[j].name = archive[i].name => j <= i

HoldsDocs(k) ==
  /\ \A n \in DOMAIN memFS : archive[memFS[n]].name = n /\ IsLastDoc(memFS[n], k)
  /\ \A i \in DocsUpTo(k) : archive[i].name \in DOMAIN memFS

\* The sums w[1] + ... + w[k], for every k.
Sums(w) ==
  LET sum[k \in 0..Len(w)] == IF k = 0 THEN 0 ELSE sum[k - 1] + w[k]
  IN  sum

\* The sizes of the entries at the positions in S, together.
Weights(S) == [i \in 1..Len(archive) |-> IF i \in S THEN archive[i].size ELSE 0]
Sizes(S)   == Sums(Weights(S))[Len(archive)]

\* Memory stays bounded after every turn of the loop, whatever sizes the
\* headers claim: contents held at most the size limit, files at most the
\* count limit (docs_updater.go:51-58).
WithinLimits ==
  /\ Sizes(Range(memFS)) <= totalExtracted /\ totalExtracted <= MaxDecompressedSize
  /\ Cardinality(DOMAIN memFS) <= MaxFileCount

\* Extraction is all or nothing: what it returns is the documentation of the
\* whole archive, never that of a part of it.
WholeOrError == result = "extracted" => HoldsDocs(Len(archive)) /\ DOMAIN memFS # {}

\* An intact archive is refused only for what the limits are about: contents
\* or entries really beyond them, counting a file as often as it occurs.
RefusedForCause ==
  LET docs == DocsUpTo(Len(archive)) IN
  /\ result = "too large" => Sizes(docs) > MaxDecompressedSize
  /\ result = "too many"  => Cardinality(docs) > MaxFileCount
  /\ result = "no files"  => docs = {}

\* The inductive invariant behind these properties (Archive_proofs).
LimitsKept ==
  /\ totalExtracted <= MaxDecompressedSize
  /\ IsFiniteSet(DOMAIN memFS) /\ Cardinality(DOMAIN memFS) <= MaxFileCount

\* What an archive was refused for: the entry that was read goes beyond a
\* limit, or there was none to keep.
CauseOK ==
  /\ result \in {"too large", "too many"} => pos <= Len(archive) /\ ~Skipped(Entry)
  /\ result = "too large" => totalExtracted + Entry.size > MaxDecompressedSize
  /\ result = "too many"  => TooMany
  /\ result = "no files"  => pos = Len(archive) + 1 /\ DOMAIN memFS = {}

IInv ==
  /\ TypeOK
  /\ LimitsKept
  /\ HoldsDocs(pos - 1)
  /\ totalExtracted = Sizes(DocsUpTo(pos - 1))
  /\ CauseOK
  /\ result = "extracted" => pos = Len(archive) + 1 /\ DOMAIN memFS # {}

=============================================================================
