------------------------------ MODULE DocsSystem ------------------------------
(***************************************************************************)
(* The DocsUpdater and the documentation tools in one process: the         *)
(* swappers of DocsState are the update loops of DocsUpdater.  Update      *)
(* builds a docsState from the archive it downloaded, swapDocsState        *)
(* installs it under docsMu while handlers hold or wait for the read lock, *)
(* closes the replaced index, and only then does Update store the new      *)
(* hash.                                                                   *)
(*                                                                         *)
(* Every step is one of DocsState, of DocsUpdater, or of both; the single  *)
(* step SwapDocs of DocsUpdater is taken apart into those of DocsState.    *)
(***************************************************************************)
EXTENDS DocsState, Sequences

CONSTANTS Commits, Broken, NoHash, Rewrites, MaxMoves, MaxFaults, MaxCount

ASSUME UpdaterAssumption ==
  /\ Broken \subseteq Commits
  /\ NoHash \notin Commits
  /\ Rewrites \in BOOLEAN
  /\ MaxMoves \in Nat /\ MaxFaults \in Nat /\ MaxCount \in Nat

VARIABLES
  \* DocsUpdater, which of the served documentation knows the position only
  log, faults, cancelled, mu, hash, failures, stamped,
  upc, seen, archive, outcome, before, hashAt,
  at,    \* position in log that each docsState was built from
  floor  \* history: position of what was served when the reader was called

updaterVars == <<log, faults, cancelled, mu, hash, failures, stamped,
                 upc, seen, archive, outcome, before, hashAt>>
systemVars  == <<vars, updaterVars, at, floor>>

PositionOf(s) == IF s = Nil THEN 0 ELSE at[s]

U == INSTANCE DocsUpdater WITH
  Callers <- Swappers, MayMissEmbedded <- TRUE, docsAt <- PositionOf(docs)

\* newServerContainer and NewDocsUpdater.
SystemInit ==
  /\ Init
  /\ at = [s \in States |-> IF s = 1 THEN 1 ELSE 0]
  /\ floor = [r \in Readers |-> 0]
  /\ U!Init

-----------------------------------------------------------------------------
(* Handlers.                                                               *)

Arrive(r) ==
  /\ Call(r)
  /\ floor' = [floor EXCEPT ![r] = PositionOf(docs)]
  /\ UNCHANGED <<updaterVars, at>>

Handle(r) == Serve(r) /\ UNCHANGED <<updaterVars, at, floor>>

-----------------------------------------------------------------------------
(* Update.                                                                 *)

\* The steps of an update loop that leave the documentation alone.
Quiet == UNCHANGED <<vars, at, floor>>

Request(c) == /\ Quiet
              /\ \/ U!CheckForUpdate(c) \/ U!CheckFails(c)
                 \/ U!Download(c) \/ U!DownloadFails(c) \/ U!ExtractFails(c)

\* extractDocsFromArchive and buildDocsState: a docsState of the archive's
\* files, of which there is at least one.
Extract(c) ==
  /\ Build(c)
  /\ files'[built'] # {}
  /\ at' = [at EXCEPT ![built'] = archive[c]]
  /\ UNCHANGED floor
  /\ U!Extract(c)

\* swapDocsState up to the assignment, and after it.
SwapBegins(c) == /\ upc[c] = "swap"
                 /\ Announce(c) \/ Lock(c)
                 /\ UNCHANGED <<updaterVars, at, floor>>

Install(c) ==
  /\ Replace(c)
  /\ upc' = [upc EXCEPT ![c] = "commit"]
  /\ UNCHANGED <<log, faults, cancelled, mu, hash, failures, stamped,
                 seen, archive, outcome, before, hashAt, at, floor>>

SwapEnds(c) == /\ Unlock(c) \/ CloseOld(c)
               /\ UNCHANGED <<updaterVars, at, floor>>

\* swapDocsState has returned: the hash is stored.
Commit(c) == wpc[c] = "idle" /\ Quiet /\ U!Commit(c)

Return(c) == Quiet /\ U!Unlock(c)

Update(c) == \/ Request(c) \/ Extract(c)
             \/ SwapBegins(c) \/ Install(c) \/ SwapEnds(c)
             \/ Commit(c) \/ Return(c)

Enter(c) == Quiet /\ U!Lock(c)
Tick(c)  == Quiet /\ U!Tick(c)
Stop(c)  == Quiet /\ U!Stop(c)

\* As in DocsUpdater: the listing need not end before the context is done.
Due(c) == (upc[c] = "check" => cancelled) /\ Update(c)

Environment == Quiet /\ (U!Move \/ U!Cancel)

SystemNext == \/ Environment
              \/ \E r \in Readers : Arrive(r) \/ Handle(r)
              \/ \E c \in Swappers : Update(c) \/ Enter(c) \/ Tick(c) \/ Stop(c)

SystemSpec == SystemInit /\ [][SystemNext]_systemVars

\* The fairness of the two parts.
SystemFairness == /\ \A r \in Readers : WF_systemVars(Handle(r))
                  /\ \A c \in Swappers : /\ WF_systemVars(Due(c))
                                         /\ WF_systemVars(Tick(c))
                                         /\ SF_systemVars(Enter(c))
                                         /\ SF_systemVars(Stop(c))

-----------------------------------------------------------------------------
(* Properties.  That the handlers still behave like the atomic DocsService *)
(* with the states that Update builds and swaps in, and answer every call, *)
(* is ImplementsService of DocsState.                                      *)

\* A tool call sees nothing older than what was served when it arrived, and
\* reads no file of a state older than the one it searched: neither two
\* updates at once nor a reader that waited out a swap turn time back.
NeverOlder ==
  \A r \in Readers :
    /\ searched[r] # Nil => at[searched[r]] >= floor[r]
    /\ \A f \in Files : got[r][f] # Nil =>
         /\ at[got[r][f]] >= floor[r]
         /\ searched[r] # Nil => at[got[r][f]] >= at[searched[r]]

\* At most two indexes are open at a time, the one served and the one that is
\* to replace it, however many loops update; between updates only the served
\* one is.
Open == (1..built) \ closed
IndexesBounded ==
  /\ Cardinality(Open) <= 2
  /\ mu = NoOne => Open \subseteq {docs}

\* With the lock protocol of DocsState inside it, Update still does what
\* DocsUpdater says: the swap looks like one step, and the handlers in its
\* way hold it up but cannot stop it.
ImplementsUpdater == U!FairSpec

-----------------------------------------------------------------------------
(* What holds the two parts together (Docs_proofs): a swap is under way    *)
(* only inside Update's own, for the archive that was downloaded, and what *)
(* a handler has seen lies between its arrival and now.                    *)

JoinInv ==
  \A c \in Swappers :
    /\ Pending(c)  => upc[c] = "swap" /\ at[neu[c]] = archive[c]
    /\ Retiring(c) => upc[c] = "commit"

\* Position s stands for was served at some time since r was called.
SeenSince(r, s) == s \in 1..built /\ at[s] \in floor[r]..PositionOf(docs)

TimeInv ==
  /\ at \in [States -> Nat]
  /\ floor \in [Readers -> Nat]
  /\ \A r \in Readers :
       /\ floor[r] <= PositionOf(docs)
       /\ searched[r] # Nil => SeenSince(r, searched[r])
       /\ \A f \in Files : got[r][f] # Nil =>
            /\ SeenSince(r, got[r][f])
            /\ searched[r] # Nil => at[searched[r]] <= at[got[r][f]]

SystemInv == IInv /\ NoIndexLeak /\ U!IInv /\ JoinInv /\ TimeInv

=============================================================================
