------------------------------ MODULE DocsState ------------------------------
(***************************************************************************)
(* The documentation state of the ServerContainer (pkg/mcp/server.go): a   *)
(* pointer to an immutable pair (file system, bleve index), guarded by a   *)
(* sync.RWMutex.  Handler goroutines run the tools docs_search, docs_list  *)
(* and docs_read; swapper goroutines run swapDocsState.  Every step that   *)
(* another goroutine can observe or interleave with is an action.          *)
(*                                                                         *)
(* A docsState is an identifier: the n-th state built is n, Nil is the nil *)
(* pointer.  files[n] is the set of file names its fs holds, closed the    *)
(* set of states whose index has been closed.                              *)
(***************************************************************************)
EXTENDS Naturals, FiniteSets

CONSTANTS Readers,      \* goroutines serving documentation tool calls
          Swappers,     \* goroutines calling swapDocsState
          Files,        \* file names
          Unsplittable, \* names holding a '#': their chunk IDs are skipped
          MaxStates,    \* bound: docsStates ever built
          NoOne         \* no swapper

ASSUME BoundAssumption == MaxStates \in Nat \ {0}
ASSUME NoOneAssumption == NoOne \notin Swappers

States == 1..MaxStates
Nil    == 0

Methods == {"SearchDocs", "GetDocFileNames", "GetDocFileContent"}

VARIABLES
  docs,      \* ServerContainer.docs
  built,     \* how many docsStates have been built
  files,     \* docsState.fs: the names each state holds
  closed,    \* states whose searchIndex has been closed
  readLocks, \* docsMu: readers inside
  parked,    \* docsMu: readers queued behind a writer
  writer,    \* docsMu: the writer that announced itself, or NoOne
  rpc,       \* reader: where it is
  method,    \* reader: the container method it is in
  snap,      \* reader: the local ds := s.docs of the last method
  searched,  \* reader: the state SearchDocs ran on, Nil before
  todo,      \* reader: files still to be read
  got,       \* reader: the state each file's content was read from
  failed,    \* reader: the tool call's answer is an error
  wpc,       \* swapper: where it is
  neu,       \* swapper: the state it installs
  old        \* swapper: oldState

stateVars  == <<docs, built, files, closed>>
lockVars   == <<readLocks, parked, writer>>
callVars   == <<method, searched, todo, got, failed>>
readerVars == <<rpc, snap, callVars>>
swapVars   == <<wpc, neu, old>>
vars       == <<stateVars, lockVars, readerVars, swapVars>>

ReaderPCs == {"idle", "rlock", "parked", "locked", "loaded", "unlock", "done"}
SwapPCs   == {"idle", "queue", "drain", "locked", "unlock", "close"}

TypeOK ==
  /\ docs \in States \cup {Nil}
  /\ built \in 0..MaxStates
  /\ files \in [States -> SUBSET Files]
  /\ closed \in SUBSET States
  /\ readLocks \in SUBSET Readers
  /\ parked \in SUBSET Readers
  /\ writer \in Swappers \cup {NoOne}
  /\ rpc \in [Readers -> ReaderPCs]
  /\ method \in [Readers -> Methods]
  /\ snap \in [Readers -> States \cup {Nil}]
  /\ searched \in [Readers -> States \cup {Nil}]
  /\ todo \in [Readers -> SUBSET Files]
  /\ got \in [Readers -> [Files -> States \cup {Nil}]]
  /\ failed \in [Readers -> BOOLEAN]
  /\ wpc \in [Swappers -> SwapPCs]
  /\ neu \in [Swappers -> States \cup {Nil}]
  /\ old \in [Swappers -> States \cup {Nil}]

NoFiles == [f \in Files |-> Nil]

(***************************************************************************)
(* newServerContainer: either no DocsFS was given or its index could not   *)
(* be built (docs stays nil, "non-fatal"), or the embedded documentation   *)
(* is installed before any handler exists.                                 *)
(***************************************************************************)
Init ==
  /\ \/ docs = Nil /\ built = 0
     \/ docs = 1 /\ built = 1
  /\ files \in [States -> SUBSET Files]
  /\ \A s \in States : s > built => files[s] = {}
  /\ closed = {}
  /\ readLocks = {} /\ parked = {} /\ writer = NoOne
  /\ rpc = [r \in Readers |-> "idle"]
  /\ method = [r \in Readers |-> "GetDocFileNames"]
  /\ snap = [r \in Readers |-> Nil]
  /\ searched = [r \in Readers |-> Nil]
  /\ todo = [r \in Readers |-> {}]
  /\ got = [r \in Readers |-> NoFiles]
  /\ failed = [r \in Readers |-> FALSE]
  /\ wpc = [w \in Swappers |-> "idle"]
  /\ neu = [w \in Swappers |-> Nil]
  /\ old = [w \in Swappers |-> Nil]

(***************************************************************************)
(* Tool calls.  A handler calls one container method after another; each   *)
(* of them takes the read lock, loads s.docs, works on what it loaded, and *)
(* releases the lock in a deferred call.                                   *)
(***************************************************************************)

Begin(r, m, fs) ==
  /\ rpc[r] = "idle"
  /\ rpc' = [rpc EXCEPT ![r] = "rlock"]
  /\ method' = [method EXCEPT ![r] = m]
  /\ todo' = [todo EXCEPT ![r] = fs]
  /\ UNCHANGED <<stateVars, lockVars, swapVars, snap, searched, got, failed>>

\* DocsSearchHandler, up to its call of SearchDocs (the query is not empty).
CallSearch(r) == Begin(r, "SearchDocs", {})

\* DocsListHandler and DocsListResourceHandler.
CallList(r) == Begin(r, "GetDocFileNames", {})

\* DocsReadHandler and DocsReadResourceHandler (the file name is not empty).
CallRead(r) == \E f \in Files : Begin(r, "GetDocFileContent", {f})

\* docsMu.RLock(): a reader that finds a writer announced queues behind it.
RLock(r) ==
  /\ rpc[r] = "rlock"
  /\ \/ /\ writer = NoOne
        /\ readLocks' = readLocks \cup {r}
        /\ rpc' = [rpc EXCEPT ![r] = "locked"]
        /\ UNCHANGED parked
     \/ /\ writer # NoOne
        /\ parked' = parked \cup {r}
        /\ rpc' = [rpc EXCEPT ![r] = "parked"]
        /\ UNCHANGED readLocks
  /\ UNCHANGED <<stateVars, swapVars, writer, snap, callVars>>

\* The writer's Unlock let this reader in: RLock returns.
Woken(r) ==
  /\ rpc[r] = "parked"
  /\ r \in readLocks
  /\ rpc' = [rpc EXCEPT ![r] = "locked"]
  /\ UNCHANGED <<stateVars, lockVars, swapVars, snap, callVars>>

\* ds := s.docs
Load(r) ==
  /\ rpc[r] = "locked"
  /\ rpc' = [rpc EXCEPT ![r] = "loaded"]
  /\ snap' = [snap EXCEPT ![r] = docs]
  /\ UNCHANGED <<stateVars, lockVars, swapVars, callVars>>

\* The work of method m on the loaded state is over; RUnlock is still due.
Worked(r, m) ==
  /\ rpc[r] = "loaded"
  /\ method[r] = m
  /\ rpc' = [rpc EXCEPT ![r] = "unlock"]
  /\ UNCHANGED <<stateVars, lockVars, swapVars, snap>>

\* Searching a nil state, or an index that was closed, is an error.  That
\* bleve refuses a query for a reason of its own (server.go:576-579), which
\* has nothing to do with the state served, is left out.
Searchable(s) == s # Nil /\ s \notin closed

\* SearchDocs, and the file names DocsSearchHandler takes from its chunk IDs.
SearchDocs(r) ==
  /\ Worked(r, "SearchDocs")
  /\ \/ /\ Searchable(snap[r])
        /\ \E hits \in SUBSET files[snap[r]] :
             todo' = [todo EXCEPT ![r] = hits \ Unsplittable]
        /\ searched' = [searched EXCEPT ![r] = snap[r]]
        /\ method' = [method EXCEPT ![r] = "GetDocFileContent"]
        /\ UNCHANGED failed
     \/ /\ ~Searchable(snap[r])
        /\ failed' = [failed EXCEPT ![r] = TRUE]
        /\ UNCHANGED <<todo, searched, method>>
  /\ UNCHANGED got

\* GetDocFileNames.
GetDocFileNames(r) ==
  /\ Worked(r, "GetDocFileNames")
  /\ failed' = [failed EXCEPT ![r] = snap[r] = Nil]
  /\ UNCHANGED <<method, searched, todo, got>>

Holds(s, f) == s # Nil /\ f \in files[s]

\* GetDocFileContent for one of the files still to be read.
GetDocFileContent(r) ==
  /\ Worked(r, "GetDocFileContent")
  /\ \E f \in todo[r] :
       \/ /\ Holds(snap[r], f)
          /\ got' = [got EXCEPT ![r][f] = snap[r]]
          /\ todo' = [todo EXCEPT ![r] = @ \ {f}]
          /\ UNCHANGED failed
       \/ /\ ~Holds(snap[r], f)
          /\ failed' = [failed EXCEPT ![r] = TRUE]
          /\ UNCHANGED <<got, todo>>
  /\ UNCHANGED <<method, searched>>

\* Mutant of RUnlock: the way out with an error does not unlock.
RUnlockForgotten(r) ==
  /\ rpc[r] = "unlock"
  /\ readLocks' = IF failed[r] THEN readLocks ELSE readLocks \ {r}
  /\ rpc' = [rpc EXCEPT ![r] = IF failed[r] \/ todo[r] = {} THEN "done" ELSE "rlock"]
  /\ UNCHANGED <<stateVars, parked, writer, swapVars, snap, callVars>>

\* The deferred RUnlock; the handler answers, or goes on to the next file.
RUnlock(r) ==
  /\ rpc[r] = "unlock"
  /\ readLocks' = readLocks \ {r}
  /\ rpc' = [rpc EXCEPT ![r] =
               IF failed[r] \/ todo[r] = {} THEN "done" ELSE "rlock"]
  /\ UNCHANGED <<stateVars, parked, writer, swapVars, snap, callVars>>

\* The answer leaves the handler.
Reply(r) ==
  /\ rpc[r] = "done"
  /\ rpc' = [rpc EXCEPT ![r] = "idle"]
  /\ snap' = [snap EXCEPT ![r] = Nil]
  /\ searched' = [searched EXCEPT ![r] = Nil]
  /\ todo' = [todo EXCEPT ![r] = {}]
  /\ got' = [got EXCEPT ![r] = NoFiles]
  /\ failed' = [failed EXCEPT ![r] = FALSE]
  /\ method' = [method EXCEPT ![r] = "GetDocFileNames"]
  /\ UNCHANGED <<stateVars, lockVars, swapVars>>

(***************************************************************************)
(* buildDocsState and swapDocsState.                                       *)
(***************************************************************************)

\* buildDocsState over any file system; the new index is open.
Build(w) ==
  /\ wpc[w] = "idle"
  /\ built < MaxStates
  /\ built' = built + 1
  /\ \E fs \in SUBSET Files : files' = [files EXCEPT ![built + 1] = fs]
  /\ neu' = [neu EXCEPT ![w] = built + 1]
  /\ wpc' = [wpc EXCEPT ![w] = "queue"]
  /\ UNCHANGED <<docs, closed, lockVars, readerVars, old>>

\* Mutant of Announce: writers do not exclude each other.
AnnounceAnyway(w) ==
  /\ wpc[w] = "queue"
  /\ writer' = w
  /\ wpc' = [wpc EXCEPT ![w] = "drain"]
  /\ UNCHANGED <<stateVars, readLocks, parked, readerVars, neu, old>>

\* docsMu.Lock(), first part: exclude other writers, then stop new readers.
Announce(w) ==
  /\ wpc[w] = "queue"
  /\ writer = NoOne
  /\ writer' = w
  /\ wpc' = [wpc EXCEPT ![w] = "drain"]
  /\ UNCHANGED <<stateVars, readLocks, parked, readerVars, neu, old>>

\* Mutant of Lock: the writer does not wait for the readers inside.
LockWithoutDrain(w) ==
  /\ wpc[w] = "drain"
  /\ wpc' = [wpc EXCEPT ![w] = "locked"]
  /\ UNCHANGED <<stateVars, lockVars, readerVars, neu, old>>

\* docsMu.Lock(), second part: the readers that were inside have left.
Lock(w) ==
  /\ wpc[w] = "drain"
  /\ readLocks = {}
  /\ wpc' = [wpc EXCEPT ![w] = "locked"]
  /\ UNCHANGED <<stateVars, lockVars, readerVars, neu, old>>

\* Mutant of Replace: the served state gets the new file system in place.
ReplaceInPlace(w) ==
  /\ wpc[w] = "locked"
  /\ old' = [old EXCEPT ![w] = neu[w]]
  /\ files' = IF docs = Nil THEN files ELSE [files EXCEPT ![docs] = files[neu[w]]]
  /\ wpc' = [wpc EXCEPT ![w] = "unlock"]
  /\ UNCHANGED <<docs, built, closed, lockVars, readerVars, neu>>

\* oldState := s.docs; s.docs = state
Replace(w) ==
  /\ wpc[w] = "locked"
  /\ old' = [old EXCEPT ![w] = docs]
  /\ docs' = neu[w]
  /\ wpc' = [wpc EXCEPT ![w] = "unlock"]
  /\ UNCHANGED <<built, files, closed, lockVars, readerVars, neu>>

\* docsMu.Unlock(): every queued reader is let in at once.
Unlock(w) ==
  /\ wpc[w] = "unlock"
  /\ writer' = NoOne
  /\ readLocks' = readLocks \cup parked
  /\ parked' = {}
  /\ wpc' = [wpc EXCEPT ![w] = "close"]
  /\ UNCHANGED <<stateVars, readerVars, neu, old>>

Close(w, states) ==
  /\ wpc[w] = "close"
  /\ closed' = closed \cup states
  /\ neu' = [neu EXCEPT ![w] = Nil]
  /\ old' = [old EXCEPT ![w] = Nil]
  /\ wpc' = [wpc EXCEPT ![w] = "idle"]
  /\ UNCHANGED <<docs, built, files, lockVars, readerVars>>

\* Mutants of CloseOld: the wrong state is closed; nothing is.
CloseNew(w) == Close(w, {neu[w]})
CloseNothing(w) == Close(w, {})

\* oldState.searchIndex.Close(), outside the lock.
CloseOld(w) == Close(w, {old[w]} \ {Nil})

(***************************************************************************)
(* The specification.                                                      *)
(***************************************************************************)
Call(r) == CallSearch(r) \/ CallList(r) \/ CallRead(r)

\* What a handler does once it has been called.
Serve(r) == \/ RLock(r) \/ Woken(r) \/ Load(r)
            \/ SearchDocs(r) \/ GetDocFileNames(r) \/ GetDocFileContent(r)
            \/ RUnlock(r) \/ Reply(r)

\* What a swapper does once it has built a state.
Swap(w) == \/ Announce(w) \/ Lock(w) \/ Replace(w) \/ Unlock(w) \/ CloseOld(w)

\* Every state has been built and every swap is over: only calls remain, so
\* the system never has to stop.
Next == \/ \E r \in Readers : Call(r) \/ Serve(r)
        \/ \E w \in Swappers : Build(w) \/ Swap(w)

Spec == Init /\ [][Next]_vars

\* A goroutine that can run is eventually run.  Nothing obliges a client to
\* call, or a swapper to build a new state.
Fairness == /\ \A r \in Readers : WF_vars(Serve(r))
            /\ \A w \in Swappers : WF_vars(Swap(w))

FairSpec == Spec /\ Fairness

(***************************************************************************)
(* Properties.                                                             *)
(***************************************************************************)

\* A search never runs on an index that swapDocsState has closed: the index
\* is closed outside the write lock (server.go:475-486), so only the lock
\* protocol keeps a search that already loaded the old state out of danger.
NoSearchOnClosedIndex ==
  \A r \in Readers :
    rpc[r] = "loaded" /\ method[r] = "SearchDocs" => snap[r] \notin closed

\* Every index ever built is accounted for: it is served, closed, waiting to
\* be installed by a swapper, or in the hands of the swapper that replaced it
\* and has yet to close it.  No update leaks an index.
NoIndexLeak ==
  \A s \in 1..built :
    \/ s = docs
    \/ s \in closed
    \/ \E w \in Swappers : \/ neu[w] = s /\ wpc[w] \in {"queue", "drain", "locked"}
                           \/ old[w] = s /\ wpc[w] \in {"unlock", "close"}

\* As long as the state a docs_search ran on is still the served one, all the
\* content it has read is from that state and it has not failed: an answer
\* mixes two states, or breaks off on a file that is gone, only when a swap
\* fell between two of its reads.
TornOnlyBySwap ==
  \A r \in Readers :
    searched[r] # Nil /\ searched[r] = docs =>
      /\ ~failed[r]
      /\ \A f \in Files : got[r][f] \in {Nil, docs}

\* The served documentation never goes away: once some state is served, a
\* swap only replaces it, and always by a state whose index is open.
NeverUnserved == [][docs # Nil => docs' # Nil /\ docs' \notin closed]_vars

(***************************************************************************)
(* The inductive invariant behind these properties (Docs_proofs).          *)
(***************************************************************************)
Inside(r)   == rpc[r] \in {"locked", "loaded", "unlock"}
Pending(w)  == wpc[w] \in {"queue", "drain", "locked"}
Retiring(w) == wpc[w] \in {"unlock", "close"}

\* The read-write lock excludes: a writer past Lock() is alone.
LockInv ==
  /\ \A r \in Readers : Inside(r) => r \in readLocks
  /\ \A r \in readLocks : Inside(r) \/ rpc[r] = "parked"
  /\ \A r \in parked : rpc[r] = "parked" /\ r \notin readLocks
  /\ \A w \in Swappers : wpc[w] \in {"drain", "locked", "unlock"} => writer = w
  /\ \A w \in Swappers : wpc[w] \in {"locked", "unlock"} => readLocks = {}

\* What a reader loaded is what is served until it leaves.
SnapInv ==
  \A r \in Readers : rpc[r] \in {"loaded", "unlock"} => snap[r] = docs

\* A state is in one place at a time: pending, served, retiring or closed.
PlaceInv ==
  /\ docs \in 0..built
  /\ closed \subseteq 1..built
  /\ docs \notin closed
  /\ \A w \in Swappers : Pending(w) => neu[w] \in (1..built) \ (closed \cup {docs})
  /\ \A w \in Swappers : Retiring(w) => old[w] \in (0..built) \ {docs}
  /\ \A v, w \in Swappers :
       Pending(v) => /\ v # w /\ Pending(w) => neu[v] # neu[w]
                     /\ Retiring(w) => neu[v] # old[w]

\* A search ran on a state that has been served; until another one is, the
\* files it has yet to read are there and nothing has gone wrong.
SearchOK(r) ==
  /\ rpc[r] = "idle" => searched[r] = Nil /\ got[r] = NoFiles
  /\ rpc[r] \in {"idle", "rlock", "parked", "locked", "loaded"} => ~failed[r]
  /\ method[r] # "GetDocFileContent" => searched[r] = Nil /\ got[r] = NoFiles
  /\ searched[r] \in 0..built
  /\ \A w \in Swappers : Pending(w) => neu[w] # searched[r]
  /\ searched[r] # Nil /\ searched[r] = docs =>
       /\ ~failed[r]
       /\ todo[r] \subseteq files[docs]
       /\ \A f \in Files : got[r][f] \in {Nil, docs}

SearchInv == \A r \in Readers : SearchOK(r)

IInv == TypeOK /\ LockInv /\ SnapInv /\ PlaceInv /\ SearchInv

(***************************************************************************)
(* The documentation service this implements.  A method looks at the       *)
(* served state in the step that does its work, not when it loads s.docs.  *)
(***************************************************************************)
Looks == [SearchDocs |-> "search", GetDocFileNames |-> "list", GetDocFileContent |-> "read"]

StageOf(r) ==
  IF rpc[r] \in {"idle", "done"} THEN rpc[r]
  ELSE IF rpc[r] = "unlock" /\ (failed[r] \/ todo[r] = {}) THEN "done"
  ELSE Looks[method[r]]

Service == INSTANCE DocsService WITH
  served  <- docs,
  names   <- IF docs = Nil THEN {} ELSE files[docs],
  retired <- closed \cup ({old[w] : w \in Swappers} \ {Nil}),
  stage   <- [r \in Readers |-> StageOf(r)]

\* Every behaviour of the locked, multi-step implementation is one of the
\* atomic service: swaps look like one step to every tool call, calls fail
\* only for the reasons the service allows, and all of them are answered.
ImplementsService == Service!FairSpec

=============================================================================
