----------------------------- MODULE DocsUpdater -----------------------------
(***************************************************************************)
(* The DocsUpdater (pkg/mcp/docs_updater.go) and the loop that drives it   *)
(* (cmd/prometheus-mcp/main.go).  Update compares the commit it last       *)
(* installed with the head of the upstream branch, and downloads the       *)
(* archive of that branch when they differ.  The branch may move between   *)
(* the two requests: the archive is that of the head at download time, the *)
(* hash that of the head at listing time.                                  *)
(*                                                                         *)
(* Upstream is the log of the commits its branch has pointed to; contents  *)
(* are named by their position in the log.  Position 1 is the commit       *)
(* embedded in the binary.  swapDocsState is a single step here: DocsState *)
(* shows that it looks like one.                                           *)
(***************************************************************************)
EXTENDS Naturals, Sequences

CONSTANTS Callers,         \* goroutines that call Update, each in main's loop
          Commits,         \* commits upstream may publish
          Broken,          \* commits whose archive cannot be turned into docs
          NoHash,          \* the empty hash of a build without COMMIT_HASH
          NoOne,           \* no caller
          Rewrites,        \* TRUE: upstream may go back to an old commit
          MayMissEmbedded, \* TRUE: the embedded docs may fail to build
          MaxMoves,        \* bound: length of the upstream log
          MaxFaults,       \* bound: transient network errors
          MaxCount         \* bound: where the failure counter saturates

ASSUME ConstantsAssumption ==
  /\ Broken \subseteq Commits
  /\ NoHash \notin Commits
  /\ NoOne \notin Callers
  /\ Rewrites \in BOOLEAN /\ MayMissEmbedded \in BOOLEAN
  /\ MaxMoves \in Nat /\ MaxFaults \in Nat /\ MaxCount \in Nat

VARIABLES
  log,       \* upstream: the commits refs/heads/main has pointed to
  faults,    \* network: transient errors so far
  cancelled, \* the root context is done
  mu,        \* DocsUpdater.mu: its holder, or NoOne
  hash,      \* DocsUpdater.currentHash
  docsAt,    \* position of the served documentation, 0 when docs is nil
  failures,  \* metricDocsUpdateFailures
  stamped,   \* metricDocsUpdateTimestamp has been set
  upc,       \* caller: where it is
  seen,      \* caller: position of the head that ListRefs reported
  archive,   \* caller: position of the archive it downloaded
  outcome,   \* caller: what Update returns
  before,    \* history: what the caller found when it entered Update
  hashAt     \* history: position at which hash was listed, 0 for NoHash

envVars    == <<log, faults, cancelled>>
servedVars == <<hash, docsAt, stamped, hashAt>>
callerVars == <<upc, seen, archive, outcome, before>>
vars       == <<envVars, mu, servedVars, failures, callerVars>>

PCs      == {"select", "lock", "check", "fetch", "extract", "swap", "commit",
             "return", "stopped"}
Outcomes == {"none", "unchanged", "updated", "error"}

Positions == 1..Len(log)
MainHead      == log[Len(log)]

TypeOK ==
  /\ log \in Seq(Commits) /\ log # <<>>
  /\ faults \in 0..MaxFaults
  /\ cancelled \in BOOLEAN
  /\ mu \in Callers \cup {NoOne}
  /\ hash \in Commits \cup {NoHash}
  /\ docsAt \in Nat
  /\ failures \in 0..MaxCount
  /\ stamped \in BOOLEAN
  /\ upc \in [Callers -> PCs]
  /\ seen \in [Callers -> Nat]
  /\ archive \in [Callers -> Nat]
  /\ outcome \in [Callers -> Outcomes]
  /\ before \in [Callers -> [docsAt : Nat, hash : Commits \cup {NoHash},
                             failures : 0..MaxCount]]
  /\ hashAt \in Nat

Known   == [docsAt |-> docsAt, hash |-> hash, failures |-> failures]
Outside == [docsAt |-> 0, hash |-> NoHash, failures |-> 0]

(***************************************************************************)
(* NewDocsUpdater: the hash is that of the embedded documentation, which   *)
(* newServerContainer has installed, or has failed to build and gone on    *)
(* without.  Upstream may already be ahead.                                *)
(***************************************************************************)
Init ==
  /\ \E c \in Commits : log = <<c>>
  /\ faults = 0 /\ cancelled = FALSE
  /\ mu = NoOne
  /\ \/ hash = log[1] /\ hashAt = 1
     \/ hash = NoHash /\ hashAt = 0
  /\ docsAt \in {1} \cup (IF MayMissEmbedded THEN {0} ELSE {})
  /\ failures = 0 /\ stamped = FALSE
  /\ upc = [c \in Callers |-> "lock"]
  /\ seen = [c \in Callers |-> 0]
  /\ archive = [c \in Callers |-> 0]
  /\ outcome = [c \in Callers |-> "none"]
  /\ before = [c \in Callers |-> Outside]

\* Upstream: the branch moves, to a new commit or, by a forced push, to an
\* old one.
Move ==
  /\ Len(log) < MaxMoves
  /\ \E c \in Commits \ {MainHead} :
       /\ Rewrites \/ \A i \in Positions : log[i] # c
       /\ log' = Append(log, c)
  /\ UNCHANGED <<faults, cancelled, mu, servedVars, failures, callerVars>>

\* The process is shutting down: rootCtxCancel().
Cancel ==
  /\ ~cancelled
  /\ cancelled' = TRUE
  /\ UNCHANGED <<log, faults, mu, servedVars, failures, callerVars>>

Goto(c, pc) == upc' = [upc EXCEPT ![c] = pc]

\* Mutant of Lock: the mutex is not taken.
LockIgnored(c) ==
  /\ upc[c] = "lock"
  /\ before' = [before EXCEPT ![c] = Known]
  /\ Goto(c, "check")
  /\ UNCHANGED <<envVars, mu, servedVars, failures, seen, archive, outcome>>

\* u.mu.Lock()
Lock(c) ==
  /\ upc[c] = "lock"
  /\ mu = NoOne
  /\ mu' = c
  /\ before' = [before EXCEPT ![c] = Known]
  /\ Goto(c, "check")
  /\ UNCHANGED <<envVars, servedVars, failures, seen, archive, outcome>>

Return(c, o) ==
  /\ outcome' = [outcome EXCEPT ![c] = o]
  /\ Goto(c, "return")

\* Mutant of Fail: the failure is counted where it occurs and again in Update.
FailCountedTwice(c) ==
  /\ Return(c, "error")
  /\ failures' = IF failures < MaxCount THEN failures + 2 ELSE failures
  /\ UNCHANGED <<log, cancelled, mu, servedVars, seen, archive, before>>

\* Update returns an error: metricDocsUpdateFailures.Inc().
Fail(c) ==
  /\ Return(c, "error")
  /\ failures' = IF failures < MaxCount THEN failures + 1 ELSE failures
  /\ UNCHANGED <<log, cancelled, mu, servedVars, seen, archive, before>>

\* A request, or the reading of its body, fails because the context is done
\* or because of a transient error.  For the download and its body the http
\* client's timeout is such an error; the listing has no timeout.
RequestFails ==
  \/ cancelled /\ UNCHANGED faults
  \/ faults < MaxFaults /\ faults' = faults + 1

\* Mutant of CheckForUpdate: the new hash is stored at once.
CheckStoringHash(c) ==
  /\ upc[c] = "check"
  /\ ~cancelled
  /\ seen' = [seen EXCEPT ![c] = Len(log)]
  /\ hash' = MainHead /\ hashAt' = Len(log)
  /\ IF MainHead = hash
     THEN Return(c, "unchanged")
     ELSE Goto(c, "fetch") /\ UNCHANGED outcome
  /\ UNCHANGED <<envVars, mu, docsAt, stamped, failures, archive, before>>

\* checkForUpdate: refs/heads/main is compared with currentHash.
CheckForUpdate(c) ==
  /\ upc[c] = "check"
  /\ ~cancelled
  /\ seen' = [seen EXCEPT ![c] = Len(log)]
  /\ IF MainHead = hash
     THEN Return(c, "unchanged")
     ELSE Goto(c, "fetch") /\ UNCHANGED outcome
  /\ UNCHANGED <<envVars, mu, servedVars, failures, archive, before>>

\* The refs cannot be listed, or main is not among them.
CheckFails(c) ==
  /\ upc[c] = "check"
  /\ RequestFails
  /\ Fail(c)

\* fetchAndUpdateDocsFS: the server answers 200 with the archive of main, as
\* it is now.
Download(c) ==
  /\ upc[c] = "fetch"
  /\ ~cancelled
  /\ archive' = [archive EXCEPT ![c] = Len(log)]
  /\ Goto(c, "extract")
  /\ UNCHANGED <<envVars, mu, servedVars, failures, seen, outcome, before>>

\* No answer, or another status.
DownloadFails(c) ==
  /\ upc[c] = "fetch"
  /\ RequestFails
  /\ Fail(c)

\* extractDocsFromArchive and buildDocsState: all of it, or an error.
Extract(c) ==
  /\ upc[c] = "extract"
  /\ log[archive[c]] \notin Broken
  /\ Goto(c, "swap")
  /\ UNCHANGED <<envVars, mu, servedVars, failures, seen, archive, outcome, before>>

\* The archive is unusable (no markdown, a limit exceeded), or its body ends
\* before the archive does.
ExtractFails(c) ==
  /\ upc[c] = "extract"
  /\ \/ log[archive[c]] \in Broken /\ UNCHANGED faults
     \/ RequestFails
  /\ Fail(c)

\* container.swapDocsState(newState)
SwapDocs(c) ==
  /\ upc[c] = "swap"
  /\ docsAt' = archive[c]
  /\ Goto(c, "commit")
  /\ UNCHANGED <<envVars, mu, hash, stamped, hashAt, failures, seen, archive,
                 outcome, before>>

\* Mutant of Commit: the head is listed again after the download.
CommitHeadNow(c) ==
  /\ upc[c] = "commit"
  /\ hash' = MainHead /\ hashAt' = Len(log)
  /\ stamped' = TRUE
  /\ Return(c, "updated")
  /\ UNCHANGED <<envVars, mu, docsAt, failures, seen, archive, before>>

\* Mutant of Commit: currentHash is not updated.
CommitForgotten(c) ==
  /\ upc[c] = "commit"
  /\ stamped' = TRUE
  /\ Return(c, "updated")
  /\ UNCHANGED <<envVars, mu, hash, hashAt, docsAt, failures, seen, archive, before>>

\* u.currentHash = newCommit, and the timestamp metric.
Commit(c) ==
  /\ upc[c] = "commit"
  /\ hash' = log[seen[c]]
  /\ hashAt' = seen[c]
  /\ stamped' = TRUE
  /\ Return(c, "updated")
  /\ UNCHANGED <<envVars, mu, docsAt, failures, seen, archive, before>>

\* The deferred u.mu.Unlock(); main logs an error and goes on to its select.
Unlock(c) ==
  /\ upc[c] = "return"
  /\ mu' = NoOne
  /\ outcome' = [outcome EXCEPT ![c] = "none"]
  /\ seen' = [seen EXCEPT ![c] = 0]
  /\ archive' = [archive EXCEPT ![c] = 0]
  /\ before' = [before EXCEPT ![c] = Outside]
  /\ Goto(c, "select")
  /\ UNCHANGED <<envVars, servedVars, failures>>

\* select: the ticker fired.  Go picks among the ready cases at random, so a
\* tick may still win when the context is done.
Tick(c) ==
  /\ upc[c] = "select"
  /\ Goto(c, "lock")
  /\ UNCHANGED <<envVars, mu, servedVars, failures, seen, archive, outcome, before>>

\* Mutant of Stop: the select has no case for the context.
StopMissing(c) == upc[c] = "select" /\ FALSE /\ UNCHANGED vars

\* select: the context is done (or the actor was interrupted).
Stop(c) ==
  /\ upc[c] = "select"
  /\ cancelled
  /\ Goto(c, "stopped")
  /\ UNCHANGED <<envVars, mu, servedVars, failures, seen, archive, outcome, before>>

Update(c) ==
  \/ CheckForUpdate(c) \/ CheckFails(c)
  \/ Download(c) \/ DownloadFails(c)
  \/ Extract(c) \/ ExtractFails(c)
  \/ SwapDocs(c) \/ Commit(c) \/ Unlock(c)

\* The process is gone once every loop has ended.
Terminated == (\A c \in Callers : upc[c] = "stopped") /\ UNCHANGED vars

Next == \/ Move \/ Cancel \/ Terminated
        \/ \E c \in Callers : Lock(c) \/ Update(c) \/ Tick(c) \/ Stop(c)

Spec == Init /\ [][Next]_vars

\* The steps of Update that are due.  ListRefs runs under the root context
\* alone: before that is done, nothing obliges the listing to end.
Due(c) == (upc[c] = "check" => cancelled) /\ Update(c)

(***************************************************************************)
(* Goroutines run; a download ends by itself or by its timeout; the ticker *)
(* keeps firing; a mutex waiter is not passed over for ever (Go's          *)
(* starvation mode), nor a ready case of a select that is entered again    *)
(* and again.                                                              *)
(***************************************************************************)
Fairness == \A c \in Callers : /\ WF_vars(Due(c))
                               /\ WF_vars(Tick(c))
                               /\ SF_vars(Lock(c))
                               /\ SF_vars(Stop(c))

FairSpec == Spec /\ Fairness

(***************************************************************************)
(* Properties.                                                             *)
(***************************************************************************)

\* Update answers "docs are already up to date" only when the documentation
\* served is that of the commit it saw (docs_updater.go:156, 166-168).
UnchangedMeansCurrent ==
  \A c \in Callers :
    outcome[c] = "unchanged" =>
      docsAt # 0 /\ log[docsAt] = log[seen[c]]

\* Between two updates the hash never runs ahead of the documentation it
\* stands for: what is served was downloaded after the hash was listed.  An
\* update that went wrong half way is therefore always tried again.
HashNotAheadOfDocs == mu = NoOne /\ stamped => docsAt >= hashAt

\* All or nothing: an update that fails leaves documentation and hash as it
\* found them and counts one failure; one that succeeds installs what it
\* downloaded and counts none.
AllOrNothing ==
  \A c \in Callers :
    upc[c] = "return" =>
      /\ outcome[c] = "error" =>
           /\ docsAt = before[c].docsAt /\ hash = before[c].hash
           /\ failures = MaxCount \/ failures = before[c].failures + 1
      /\ outcome[c] = "updated" =>
           /\ docsAt = archive[c] /\ hash = log[seen[c]]
           /\ failures = before[c].failures
      /\ outcome[c] = "unchanged" => Known = before[c]

\* The decision to fetch stays justified until the fetch is over: no other
\* caller installs the same commit meanwhile ("safe to call concurrently
\* from multiple goroutines", docs_updater.go:152-154).
NoRedundantFetch ==
  \A c \in Callers :
    upc[c] \in {"fetch", "extract", "swap", "commit"} => hash # log[seen[c]]

\* Served documentation is never replaced by an older download, however the
\* callers interleave.
DocsNeverGoBack == [][docsAt' >= docsAt]_vars

\* The inductive invariant behind these properties (DocsUpdater_proofs).  Its
\* heart: who is inside Update holds the mutex, so that nobody else moves the
\* hash or the documentation under it; what it downloads is no older than
\* what it listed, nor than what is served.
Inside == {"check", "fetch", "extract", "swap", "commit", "return"}

MutexOK == \A c \in Callers : mu = c <=> upc[c] \in Inside

NoRepeats == \A i, j \in Positions : log[i] = log[j] => i = j

ServedOK ==
  /\ docsAt <= Len(log)
  /\ IF hashAt = 0 THEN hash = NoHash ELSE hashAt \in Positions /\ hash = log[hashAt]
  /\ stamped \/ ~MayMissEmbedded =>
       hashAt <= docsAt \/ \E c \in Callers : upc[c] = "commit"
  /\ ~Rewrites => NoRepeats

CallerOK(c) ==
  /\ outcome[c] # "none" <=> upc[c] = "return"
  /\ upc[c] \in {"check", "fetch", "extract", "swap"} => Known = before[c]
  /\ upc[c] \in {"fetch", "extract", "swap", "commit"} =>
       seen[c] \in Positions /\ log[seen[c]] # hash
  /\ upc[c] \in {"extract", "swap", "commit"} => archive[c] \in seen[c]..Len(log)
  /\ upc[c] \in {"extract", "swap"} => docsAt <= archive[c]
  /\ upc[c] = "commit" =>
       /\ docsAt = archive[c] /\ hash = before[c].hash
       /\ failures = before[c].failures
  /\ outcome[c] = "updated" => seen[c] \in Positions
  /\ outcome[c] = "unchanged" =>
       /\ seen[c] \in Positions
       /\ ~Rewrites /\ ~MayMissEmbedded => docsAt # 0 /\ log[docsAt] = log[seen[c]]

IInv ==
  /\ TypeOK /\ MutexOK /\ ServedOK /\ AllOrNothing
  /\ \A c \in Callers : CallerOK(c)

\* If every listing comes to an end, however late and with whatever result,
\* then once upstream rests on a usable commit its documentation is what is
\* served from some point on, unless the process shuts down.  Without the
\* premise this is false: a listing that hangs holds the mutex for good, and
\* neither a later tick nor another caller gets past it (docs_updater.go:106,
\* 159).
ListingsEnd == \A c \in Callers : []<>(upc[c] # "check")
Current     == docsAt # 0 /\ log[docsAt] = MainHead
Converges   == ListingsEnd => <>[](cancelled \/ MainHead \in Broken \/ Current)

\* After the context is done every update loop comes to its end.
LoopsEnd == \A c \in Callers : cancelled ~> upc[c] = "stopped"

=============================================================================
