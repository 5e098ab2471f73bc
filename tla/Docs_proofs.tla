------------------------------ MODULE Docs_proofs ------------------------------
(***************************************************************************)
(* Proofs about DocsState, for any number of readers, swappers and files   *)
(* and any bound on the number of states built, and then about DocsSystem, *)
(* where the swappers are update loops.                                    *)
(***************************************************************************)
EXTENDS DocsSystem, FiniteSetTheorems, TLAPS

USE BoundAssumption, NoOneAssumption DEF States, Nil

-----------------------------------------------------------------------------
(* Type correctness.                                                       *)

LEMMA InitTypeOK == Init => TypeOK
  BY DEF Init, TypeOK, NoFiles, Methods, ReaderPCs, SwapPCs

\* A step that only moves a reader and its call keeps the types.
LEMMA CallTypeOK ==
  ASSUME TypeOK, NEW r \in Readers, Call(r)
  PROVE  TypeOK'
<1> USE DEF TypeOK, Begin, stateVars, lockVars, swapVars, Methods, ReaderPCs
<1>1. CASE CallSearch(r)  BY <1>1 DEF CallSearch
<1>2. CASE CallList(r)    BY <1>2 DEF CallList
<1>3. CASE CallRead(r)
  <2>1. PICK f \in Files : Begin(r, "GetDocFileContent", {f})
    BY <1>3 DEF CallRead
  <2>. QED  BY <2>1
<1>. QED  BY <1>1, <1>2, <1>3 DEF Call

LEMMA ServeTypeOK ==
  ASSUME TypeOK, NEW r \in Readers, Serve(r)
  PROVE  TypeOK'
<1> USE DEF TypeOK, stateVars, lockVars, swapVars, callVars, Methods, ReaderPCs
<1>1. CASE RLock(r)    BY <1>1 DEF RLock
<1>2. CASE Woken(r)    BY <1>2 DEF Woken
<1>3. CASE Load(r)     BY <1>3 DEF Load
<1>4. CASE SearchDocs(r)
  <2>1. CASE Searchable(snap[r])
    <3>1. PICK hits \in SUBSET files[snap[r]] :
            todo' = [todo EXCEPT ![r] = hits \ Unsplittable]
      BY <1>4, <2>1 DEF SearchDocs
    <3>2. files[snap[r]] \subseteq Files
      BY <2>1 DEF Searchable
    <3>3. todo' \in [Readers -> SUBSET Files]
      BY <3>1, <3>2
    <3>. QED  BY <1>4, <2>1, <3>3 DEF SearchDocs, Worked
  <2>2. CASE ~Searchable(snap[r])
    BY <1>4, <2>2 DEF SearchDocs, Worked
  <2>. QED  BY <2>1, <2>2
<1>5. CASE GetDocFileNames(r)
  <2>1. failed' \in [Readers -> BOOLEAN]
    BY <1>5 DEF GetDocFileNames
  <2>. QED  BY <1>5, <2>1 DEF GetDocFileNames, Worked
<1>6. CASE GetDocFileContent(r)
  <2>1. PICK f \in todo[r] :
          \/ /\ Holds(snap[r], f)
             /\ got' = [got EXCEPT ![r][f] = snap[r]]
             /\ todo' = [todo EXCEPT ![r] = @ \ {f}]
             /\ UNCHANGED failed
          \/ /\ ~Holds(snap[r], f)
             /\ failed' = [failed EXCEPT ![r] = TRUE]
             /\ UNCHANGED <<got, todo>>
    BY <1>6 DEF GetDocFileContent
  <2>2. f \in Files
    OBVIOUS
  <2>3. CASE Holds(snap[r], f)
    <3>1. got' = [got EXCEPT ![r][f] = snap[r]] /\ todo' = [todo EXCEPT ![r] = @ \ {f}]
          /\ failed' = failed
      BY <2>1, <2>3
    <3>2. got' \in [Readers -> [Files -> States \cup {Nil}]]
      BY <3>1, <2>2
    <3>3. todo' \in [Readers -> SUBSET Files]
      BY <3>1
    <3>. QED  BY <1>6, <3>1, <3>2, <3>3 DEF GetDocFileContent, Worked
  <2>4. CASE ~Holds(snap[r], f)
    BY <1>6, <2>1, <2>4 DEF GetDocFileContent, Worked
  <2>. QED  BY <2>3, <2>4
<1>7. CASE RUnlock(r)  BY <1>7 DEF RUnlock
<1>8. CASE Reply(r)    BY <1>8 DEF Reply, NoFiles
<1>. QED  BY <1>1, <1>2, <1>3, <1>4, <1>5, <1>6, <1>7, <1>8 DEF Serve

LEMMA BuildTypeOK ==
  ASSUME TypeOK, NEW w \in Swappers, Build(w)
  PROVE  TypeOK'
  BY DEF Build, TypeOK, lockVars, readerVars, callVars, SwapPCs

LEMMA SwapTypeOK ==
  ASSUME TypeOK, NEW w \in Swappers, Swap(w)
  PROVE  TypeOK'
<1> USE DEF TypeOK, stateVars, lockVars, readerVars, callVars, SwapPCs
<1>1. CASE Announce(w)  BY <1>1 DEF Announce
<1>2. CASE Lock(w)      BY <1>2 DEF Lock
<1>3. CASE Replace(w)   BY <1>3 DEF Replace
<1>4. CASE Unlock(w)    BY <1>4 DEF Unlock
<1>5. CASE CloseOld(w)  BY <1>5 DEF CloseOld, Close
<1>. QED  BY <1>1, <1>2, <1>3, <1>4, <1>5 DEF Swap

LEMMA NextTypeOK == TypeOK /\ [Next]_vars => TypeOK'
<1> SUFFICES ASSUME TypeOK, [Next]_vars PROVE TypeOK'
  OBVIOUS
<1>1. CASE UNCHANGED vars
  BY <1>1 DEF vars, stateVars, lockVars, readerVars, callVars, swapVars, TypeOK
<1>2. ASSUME NEW r \in Readers, Call(r)   PROVE TypeOK'
  BY <1>2, CallTypeOK
<1>3. ASSUME NEW r \in Readers, Serve(r)  PROVE TypeOK'
  BY <1>3, ServeTypeOK
<1>4. ASSUME NEW w \in Swappers, Build(w) PROVE TypeOK'
  BY <1>4, BuildTypeOK
<1>5. ASSUME NEW w \in Swappers, Swap(w)  PROVE TypeOK'
  BY <1>5, SwapTypeOK
<1>. QED  BY <1>1, <1>2, <1>3, <1>4, <1>5 DEF Next

\* Type correctness: every variable keeps its type in every behaviour of the
\* container's documentation state and its handlers.
THEOREM TypeCorrect == Spec => []TypeOK
<1>1. Init => TypeOK  BY InitTypeOK
<1>2. TypeOK /\ [Next]_vars => TypeOK'  BY NextTypeOK
<1>. QED  BY <1>1, <1>2, PTL DEF Spec

-----------------------------------------------------------------------------
(* The read-write lock.                                                    *)

LEMMA NextLockInv == TypeOK /\ LockInv /\ [Next]_vars => LockInv'
<1> SUFFICES ASSUME TypeOK, LockInv, [Next]_vars PROVE LockInv'
  OBVIOUS
<1> USE DEF LockInv, Inside, TypeOK, stateVars, lockVars, swapVars, readerVars, callVars
<1>1. CASE UNCHANGED vars
  BY <1>1 DEF vars
<1>2. ASSUME NEW r \in Readers, Call(r) PROVE LockInv'
  <2>1. /\ rpc[r] = "idle" /\ rpc' = [rpc EXCEPT ![r] = "rlock"]
        /\ UNCHANGED <<readLocks, parked, writer, wpc>>
    BY <1>2 DEF Call, CallSearch, CallList, CallRead, Begin
  <2>. QED  BY <2>1
<1>3. ASSUME NEW r \in Readers, Serve(r) PROVE LockInv'
  <2>1. CASE RLock(r)
    <3>1. rpc[r] = "rlock" /\ r \notin readLocks /\ r \notin parked
      BY <2>1 DEF RLock
    <3>2. CASE writer = NoOne   BY <2>1, <3>1, <3>2 DEF RLock
    <3>3. CASE writer # NoOne
      <4>1. /\ parked' = parked \cup {r} /\ rpc' = [rpc EXCEPT ![r] = "parked"]
            /\ UNCHANGED <<readLocks, writer, wpc>>
        BY <2>1, <3>3 DEF RLock
      <4>. QED  BY <3>1, <4>1
    <3>. QED  BY <3>2, <3>3
  <2>2. CASE Woken(r)              BY <2>2 DEF Woken
  <2>3. CASE Load(r)               BY <2>3 DEF Load
  <2>4. CASE SearchDocs(r)         BY <2>4 DEF SearchDocs, Worked
  <2>5. CASE GetDocFileNames(r)    BY <2>5 DEF GetDocFileNames, Worked
  <2>6. CASE GetDocFileContent(r)  BY <2>6 DEF GetDocFileContent, Worked
  <2>7. CASE RUnlock(r)            BY <2>7 DEF RUnlock
  <2>8. CASE Reply(r)              BY <2>8 DEF Reply
  <2>. QED  BY <1>3, <2>1, <2>2, <2>3, <2>4, <2>5, <2>6, <2>7, <2>8 DEF Serve
<1>4. ASSUME NEW w \in Swappers, Build(w) PROVE LockInv'
  BY <1>4 DEF Build
<1>5. ASSUME NEW w \in Swappers, Swap(w) PROVE LockInv'
  <2>1. CASE Announce(w)  BY <2>1 DEF Announce
  <2>2. CASE Lock(w)      BY <2>2 DEF Lock
  <2>3. CASE Replace(w)   BY <2>3 DEF Replace
  <2>4. CASE Unlock(w)    BY <2>4 DEF Unlock
  <2>5. CASE CloseOld(w)  BY <2>5 DEF CloseOld, Close
  <2>. QED  BY <1>5, <2>1, <2>2, <2>3, <2>4, <2>5 DEF Swap
<1>. QED  BY <1>1, <1>2, <1>3, <1>4, <1>5 DEF Next

-----------------------------------------------------------------------------
(* What a reader has loaded stays served while it is inside: a swap cannot *)
(* be past Lock() at the same time.                                        *)

LEMMA NextSnapInv == TypeOK /\ LockInv /\ SnapInv /\ [Next]_vars => SnapInv'
<1> SUFFICES ASSUME TypeOK, LockInv, SnapInv, [Next]_vars PROVE SnapInv'
  OBVIOUS
<1> USE DEF SnapInv, TypeOK, stateVars, lockVars, swapVars, readerVars, callVars
<1>1. CASE UNCHANGED vars
  BY <1>1 DEF vars
<1>2. ASSUME NEW r \in Readers, Call(r) PROVE SnapInv'
  BY <1>2 DEF Call, CallSearch, CallList, CallRead, Begin
<1>3. ASSUME NEW r \in Readers, Serve(r) PROVE SnapInv'
  <2>1. CASE RLock(r)              BY <2>1 DEF RLock
  <2>2. CASE Woken(r)              BY <2>2 DEF Woken
  <2>3. CASE Load(r)               BY <2>3 DEF Load
  <2>4. CASE SearchDocs(r)         BY <2>4 DEF SearchDocs, Worked
  <2>5. CASE GetDocFileNames(r)    BY <2>5 DEF GetDocFileNames, Worked
  <2>6. CASE GetDocFileContent(r)  BY <2>6 DEF GetDocFileContent, Worked
  <2>7. CASE RUnlock(r)            BY <2>7 DEF RUnlock
  <2>8. CASE Reply(r)              BY <2>8 DEF Reply
  <2>. QED  BY <1>3, <2>1, <2>2, <2>3, <2>4, <2>5, <2>6, <2>7, <2>8 DEF Serve
<1>4. ASSUME NEW w \in Swappers, Build(w) PROVE SnapInv'
  BY <1>4 DEF Build
<1>5. ASSUME NEW w \in Swappers, Swap(w) PROVE SnapInv'
  <2>1. CASE Replace(w)
    <3>1. readLocks = {}
      BY <2>1 DEF Replace, LockInv
    <3>2. \A r \in Readers : ~Inside(r)
      BY <3>1 DEF LockInv
    <3>. QED  BY <2>1, <3>2 DEF Replace, Inside
  <2>2. CASE Announce(w) \/ Lock(w) \/ Unlock(w) \/ CloseOld(w)
    BY <2>2 DEF Announce, Lock, Unlock, CloseOld, Close
  <2>. QED  BY <1>5, <2>1, <2>2 DEF Swap
<1>. QED  BY <1>1, <1>2, <1>3, <1>4, <1>5 DEF Next

-----------------------------------------------------------------------------
(* A docsState is pending, served, retiring or closed, and only one of     *)
(* these at a time.                                                        *)

LEMMA NextPlaceInv == TypeOK /\ PlaceInv /\ [Next]_vars => PlaceInv'
<1> SUFFICES ASSUME TypeOK, PlaceInv, [Next]_vars PROVE PlaceInv'
  OBVIOUS
<1> USE DEF PlaceInv, Pending, Retiring, TypeOK, stateVars, swapVars
<1>1. CASE UNCHANGED vars
  BY <1>1 DEF vars
<1>2. ASSUME NEW r \in Readers, Call(r) \/ Serve(r) PROVE PlaceInv'
  <2>1. UNCHANGED <<docs, built, closed, wpc, neu, old>>
    BY <1>2 DEF Call, CallSearch, CallList, CallRead, Begin, Serve, RLock, Woken, Load,
      SearchDocs, GetDocFileNames, GetDocFileContent, Worked, RUnlock, Reply
  <2>. QED  BY <2>1
<1>3. ASSUME NEW w \in Swappers, Build(w) PROVE PlaceInv'
  BY <1>3 DEF Build
<1>4. ASSUME NEW w \in Swappers, Swap(w) PROVE PlaceInv'
  <2>1. CASE Announce(w)  BY <2>1 DEF Announce
  <2>2. CASE Lock(w)      BY <2>2 DEF Lock
  <2>3. CASE Replace(w)   BY <2>3 DEF Replace
  <2>4. CASE Unlock(w)    BY <2>4 DEF Unlock
  <2>5. CASE CloseOld(w)
    <3>1. /\ UNCHANGED <<docs, built>>
          /\ closed' = closed \cup ({old[w]} \ {Nil})
          /\ \A v \in Swappers : Pending(v)' => Pending(v) /\ v # w /\ neu'[v] = neu[v]
          /\ \A v \in Swappers : Retiring(v)' => Retiring(v) /\ v # w /\ old'[v] = old[v]
      BY <2>5 DEF CloseOld, Close, SwapPCs
    <3>2. old[w] \in (0..built) \ {docs}
      BY <2>5 DEF CloseOld, Close
    <3>3. \A v \in Swappers : Pending(v) => neu[v] # old[w]
      BY <2>5 DEF CloseOld, Close
    <3>. HIDE DEF Pending, Retiring
    <3>4. docs' \in 0..built' /\ closed' \subseteq 1..built' /\ docs' \notin closed'
      <4>1. {old[w]} \ {Nil} \subseteq 1..built
        BY <3>2
      <4>. QED  BY <3>1, <3>2, <4>1
    <3>5. \A v \in Swappers :
            Pending(v)' => neu'[v] \in (1..built') \ (closed' \cup {docs'})
      BY <3>1, <3>3
    <3>. QED  BY <3>1, <3>4, <3>5
  <2>. QED  BY <1>4, <2>1, <2>2, <2>3, <2>4, <2>5 DEF Swap
<1>. QED  BY <1>1, <1>2, <1>3, <1>4 DEF Next

-----------------------------------------------------------------------------
(* A state that has been searched has been served, so no pending state is  *)
(* searched[r]; while searched[r] is still served its files are all there. *)

LEMMA NextSearchInv ==
  TypeOK /\ SnapInv /\ PlaceInv /\ SearchInv /\ [Next]_vars => SearchInv'
<1> SUFFICES ASSUME TypeOK, SnapInv, PlaceInv, SearchInv, [Next]_vars PROVE SearchInv'
  OBVIOUS
<1> USE DEF SearchOK, TypeOK, stateVars, lockVars, swapVars, readerVars, callVars
<1>0. \A q \in Readers : SearchOK(q)
  BY DEF SearchInv
<1>1. CASE UNCHANGED vars
  <2>. SUFFICES ASSUME NEW q \in Readers PROVE SearchOK(q)'
    BY DEF SearchInv
  <2>. QED  BY <1>0, <1>1 DEF vars, Pending
<1>2. ASSUME NEW r \in Readers, Call(r) PROVE SearchInv'
  <2>. SUFFICES ASSUME NEW q \in Readers PROVE SearchOK(q)'
    BY DEF SearchInv
  <2>1. PICK m \in Methods, fs \in SUBSET Files : Begin(r, m, fs)
    BY <1>2 DEF Call, CallSearch, CallList, CallRead, Methods
  <2>2. UNCHANGED <<docs, built, files, neu, wpc, searched, got, failed>>
    BY <2>1 DEF Begin
  <2>3. CASE q = r   BY <1>0, <2>1, <2>2, <2>3 DEF Begin, Pending
  <2>4. CASE q # r   BY <1>0, <2>1, <2>2, <2>4 DEF Begin, Pending
  <2>. QED  BY <2>3, <2>4
<1>3. ASSUME NEW r \in Readers, Serve(r) PROVE SearchInv'
  <2>. SUFFICES ASSUME NEW q \in Readers PROVE SearchOK(q)'
    BY DEF SearchInv
  <2>1. CASE RLock(r)              BY <1>0, <2>1 DEF RLock, Pending
  <2>2. CASE Woken(r)              BY <1>0, <2>2 DEF Woken, Pending
  <2>3. CASE Load(r)               BY <1>0, <2>3 DEF Load, Pending
  <2>4. CASE SearchDocs(r)
    <3>1. UNCHANGED <<docs, built, files, closed, neu, wpc, got>>
      BY <2>4 DEF SearchDocs, Worked
    <3>2. CASE q # r
      BY <1>0, <2>4, <3>1, <3>2 DEF SearchDocs, Worked, Pending
    <3>3. CASE q = r /\ Searchable(snap[r])
      <4>1. snap[r] = docs /\ docs # Nil /\ got[r] = NoFiles /\ ~failed[r]
        BY <1>0, <2>4, <3>3 DEF SearchDocs, Worked, SnapInv, Searchable
      <4>2. /\ searched'[r] = docs /\ todo'[r] \subseteq files[docs]
            /\ rpc'[r] = "unlock" /\ method'[r] = "GetDocFileContent"
            /\ failed' = failed
        BY <2>4, <3>3, <4>1 DEF SearchDocs, Worked
      <4>3. \A w \in Swappers : Pending(w)' => neu'[w] # docs
        BY <3>1 DEF PlaceInv, Pending
      <4>4. docs \in 0..built
        BY DEF PlaceInv
      <4>. QED  BY <3>1, <3>3, <4>1, <4>2, <4>3, <4>4 DEF NoFiles
    <3>4. CASE q = r /\ ~Searchable(snap[r])
      BY <1>0, <2>4, <3>1, <3>4 DEF SearchDocs, Worked, Pending
    <3>. QED  BY <3>2, <3>3, <3>4
  <2>5. CASE GetDocFileNames(r)
    BY <1>0, <2>5 DEF GetDocFileNames, Worked, Pending
  <2>6. CASE GetDocFileContent(r)
    BY <1>0, <2>6 DEF GetDocFileContent, Worked, Pending, SnapInv, Holds
  <2>7. CASE RUnlock(r)            BY <1>0, <2>7 DEF RUnlock, Pending
  <2>8. CASE Reply(r)
    <3>1. UNCHANGED <<docs, built, files, neu, wpc>>
      BY <2>8 DEF Reply
    <3>2. CASE q # r  BY <1>0, <2>8, <3>1, <3>2 DEF Reply, Pending
    <3>3. CASE q = r
      <4>1. searched'[q] = Nil /\ got'[q] = NoFiles' /\ failed'[q] = FALSE
        BY <2>8, <3>3 DEF Reply, NoFiles
      <4>2. \A w \in Swappers : Pending(w) => neu[w] # Nil
        BY DEF PlaceInv
      <4>. QED  BY <3>1, <4>1, <4>2 DEF Pending
    <3>. QED  BY <3>2, <3>3
  <2>. QED  BY <1>3, <2>1, <2>2, <2>3, <2>4, <2>5, <2>6, <2>7, <2>8 DEF Serve
<1>4. ASSUME NEW w \in Swappers, Build(w) PROVE SearchInv'
  BY <1>0, <1>4 DEF SearchInv, Build, Pending, PlaceInv
<1>5. ASSUME NEW w \in Swappers, Swap(w) PROVE SearchInv'
  <2>1. CASE Announce(w)  BY <1>0, <2>1 DEF SearchInv, Announce, Pending
  <2>2. CASE Lock(w)      BY <1>0, <2>2 DEF SearchInv, Lock, Pending
  <2>3. CASE Replace(w)   BY <1>0, <2>3 DEF SearchInv, Replace, Pending, PlaceInv
  <2>4. CASE Unlock(w)    BY <1>0, <2>4 DEF SearchInv, Unlock, Pending
  <2>5. CASE CloseOld(w)  BY <1>0, <2>5 DEF SearchInv, CloseOld, Close, Pending
  <2>. QED  BY <1>5, <2>1, <2>2, <2>3, <2>4, <2>5 DEF Swap
<1>. QED  BY <1>1, <1>2, <1>3, <1>4, <1>5 DEF Next

-----------------------------------------------------------------------------
(* The invariant and what follows from it.                                 *)

LEMMA InitIInv == Init => IInv
<1> SUFFICES ASSUME Init PROVE IInv
  OBVIOUS
<1>1. TypeOK  BY InitTypeOK
<1>2. LockInv  BY DEF Init, LockInv, Inside
<1>3. SnapInv  BY DEF Init, SnapInv
<1>4. PlaceInv  BY DEF Init, PlaceInv, Pending, Retiring
<1>5. SearchInv  BY DEF Init, SearchInv, SearchOK, NoFiles, Pending
<1>. QED  BY <1>1, <1>2, <1>3, <1>4, <1>5 DEF IInv

\* The invariant of the documentation state: the lock excludes, a loaded
\* state stays served, every state is in one place, searches stay valid.
THEOREM Invariance == Spec => []IInv
<1>1. Init => IInv  BY InitIInv
<1>2. IInv /\ [Next]_vars => IInv'
  BY NextTypeOK, NextLockInv, NextSnapInv, NextPlaceInv, NextSearchInv DEF IInv
<1>. QED  BY <1>1, <1>2, PTL DEF Spec

\* No docs_search ever runs on an index that swapDocsState has closed.
THEOREM SearchesOpenIndex == Spec => []NoSearchOnClosedIndex
<1>1. IInv => NoSearchOnClosedIndex
  BY DEF IInv, SnapInv, PlaceInv, NoSearchOnClosedIndex
<1>. QED  BY <1>1, Invariance, PTL

\* The answer of a docs_search is torn between two documentation states, or
\* breaks off, only if a swap fell between its reads.
THEOREM TornOnlyAcrossSwaps == Spec => []TornOnlyBySwap
<1>1. IInv => TornOnlyBySwap
  BY DEF IInv, SearchInv, SearchOK, TornOnlyBySwap
<1>. QED  BY <1>1, Invariance, PTL

-----------------------------------------------------------------------------
(* No index is lost.                                                       *)

LEMMA NextNoIndexLeak == TypeOK /\ NoIndexLeak /\ [Next]_vars => NoIndexLeak'
<1> SUFFICES ASSUME TypeOK, NoIndexLeak, [Next]_vars PROVE NoIndexLeak'
  OBVIOUS
<1> USE DEF NoIndexLeak, TypeOK, stateVars, swapVars
<1>1. CASE UNCHANGED vars
  BY <1>1 DEF vars
<1>2. ASSUME NEW r \in Readers, Call(r) \/ Serve(r) PROVE NoIndexLeak'
  <2>1. UNCHANGED <<docs, built, closed, wpc, neu, old>>
    BY <1>2 DEF Call, CallSearch, CallList, CallRead, Begin, Serve, RLock, Woken, Load,
      SearchDocs, GetDocFileNames, GetDocFileContent, Worked, RUnlock, Reply
  <2>. QED  BY <2>1
<1>3. ASSUME NEW w \in Swappers, Build(w) PROVE NoIndexLeak'
  <2>. SUFFICES ASSUME NEW s \in 1..built'
                PROVE  \/ s = docs' \/ s \in closed'
                       \/ \E v \in Swappers :
                            \/ neu'[v] = s /\ wpc'[v] \in {"queue", "drain", "locked"}
                            \/ old'[v] = s /\ wpc'[v] \in {"unlock", "close"}
    OBVIOUS
  <2>1. s \in 1..built \/ s = built + 1
    BY <1>3 DEF Build
  <2>2. CASE s = built + 1
    BY <1>3, <2>2 DEF Build
  <2>3. CASE s \in 1..built
    BY <1>3, <2>3 DEF Build
  <2>. QED  BY <2>1, <2>2, <2>3
<1>4. ASSUME NEW w \in Swappers, Swap(w) PROVE NoIndexLeak'
  <2>1. CASE Announce(w)  BY <2>1 DEF Announce
  <2>2. CASE Lock(w)      BY <2>2 DEF Lock
  <2>3. CASE Replace(w)   BY <2>3 DEF Replace
  <2>4. CASE Unlock(w)    BY <2>4 DEF Unlock
  <2>5. CASE CloseOld(w)  BY <2>5 DEF CloseOld, Close
  <2>. QED  BY <1>4, <2>1, <2>2, <2>3, <2>4, <2>5 DEF Swap
<1>. QED  BY <1>1, <1>2, <1>3, <1>4 DEF Next

\* Every index built is served, closed, or in the hands of the swapper that
\* installs or closes it: no number of updates leaks an index.
THEOREM IndexesAccountedFor == Spec => []NoIndexLeak
<1>1. Init => NoIndexLeak
  BY DEF Init, NoIndexLeak
<1>2. TypeOK /\ NoIndexLeak /\ [Next]_vars => NoIndexLeak'
  BY NextNoIndexLeak
<1>. QED  BY <1>1, <1>2, TypeCorrect, PTL DEF Spec

\* Served documentation is only ever replaced by other documentation, whose
\* index is open.
THEOREM ServedForGood == Spec => NeverUnserved
<1>1. IInv /\ IInv' /\ [Next]_vars => [docs # Nil => docs' # Nil /\ docs' \notin closed]_vars
  <2>. SUFFICES ASSUME IInv, IInv', Next, docs # Nil
                PROVE  docs' # Nil /\ docs' \notin closed
    OBVIOUS
  <2>1. closed \subseteq closed' /\ docs' \notin closed'
    BY DEF Next, Build, Swap, Announce, Lock, Replace, Unlock, CloseOld, Close, stateVars,
      Call, CallSearch, CallList, CallRead, Begin, Serve, RLock, Woken, Load,
      SearchDocs, GetDocFileNames, GetDocFileContent, Worked, RUnlock, Reply,
      IInv, PlaceInv
  <2>2. docs' = docs \/ \E w \in Swappers : Replace(w)
    BY DEF Next, Build, Swap, Announce, Lock, Unlock, CloseOld, Close, stateVars,
      Call, CallSearch, CallList, CallRead, Begin, Serve, RLock, Woken, Load,
      SearchDocs, GetDocFileNames, GetDocFileContent, Worked, RUnlock, Reply
  <2>3. ASSUME NEW w \in Swappers, Replace(w) PROVE docs' # Nil
    BY <2>3 DEF Replace, IInv, PlaceInv, Pending
  <2>. QED  BY <2>1, <2>2, <2>3
<1>. QED  BY <1>1, Invariance, PTL DEF Spec, NeverUnserved

-----------------------------------------------------------------------------
(***************************************************************************)
(* The documentation state implements the atomic documentation service,    *)
(* for any number of readers, swappers, files and states: the initial      *)
(* states of DocsState map to initial states of DocsService, and every     *)
(* step maps to a step of the service or changes nothing there.            *)
(***************************************************************************)

\* Beyond IInv: only a swapper that has replaced a state holds an old one,
\* only a method that reads files has files to read, and between two calls
\* nothing is left of the last one.
RestInv ==
  /\ \A w \in Swappers : ~Retiring(w) => old[w] = Nil
  /\ \A r \in Readers : method[r] # "GetDocFileContent" => todo[r] = {}
  /\ \A r \in Readers : rpc[r] = "idle" => todo[r] = {}

LEMMA InitRestInv == Init => RestInv
  BY DEF Init, RestInv

LEMMA NextRestInv == TypeOK /\ RestInv /\ [Next]_vars => RestInv'
<1> SUFFICES ASSUME TypeOK, RestInv, [Next]_vars PROVE RestInv'
  OBVIOUS
<1> USE DEF RestInv, Retiring, TypeOK, stateVars, lockVars, readerVars, callVars, swapVars
<1>1. CASE UNCHANGED vars  BY <1>1 DEF vars
<1>2. ASSUME NEW r \in Readers, Call(r) PROVE RestInv'
  BY <1>2 DEF Call, CallSearch, CallList, CallRead, Begin
<1>3. ASSUME NEW r \in Readers, Serve(r) PROVE RestInv'
  <2>1. CASE RLock(r)              BY <2>1 DEF RLock
  <2>2. CASE Woken(r)              BY <2>2 DEF Woken
  <2>3. CASE Load(r)               BY <2>3 DEF Load
  <2>4. CASE SearchDocs(r)         BY <2>4 DEF SearchDocs, Worked
  <2>5. CASE GetDocFileNames(r)    BY <2>5 DEF GetDocFileNames, Worked
  <2>6. CASE GetDocFileContent(r)  BY <2>6 DEF GetDocFileContent, Worked
  <2>7. CASE RUnlock(r)            BY <2>7 DEF RUnlock
  <2>8. CASE Reply(r)              BY <2>8 DEF Reply
  <2>. QED  BY <1>3, <2>1, <2>2, <2>3, <2>4, <2>5, <2>6, <2>7, <2>8 DEF Serve
<1>4. ASSUME NEW w \in Swappers, Build(w) PROVE RestInv'
  BY <1>4 DEF Build
<1>5. ASSUME NEW w \in Swappers, Swap(w) PROVE RestInv'
  <2>1. CASE Announce(w)  BY <2>1 DEF Announce
  <2>2. CASE Lock(w)      BY <2>2 DEF Lock
  <2>3. CASE Replace(w)   BY <2>3 DEF Replace
  <2>4. CASE Unlock(w)    BY <2>4 DEF Unlock
  <2>5. CASE CloseOld(w)  BY <2>5 DEF CloseOld, Close
  <2>. QED  BY <1>5, <2>1, <2>2, <2>3, <2>4, <2>5 DEF Swap
<1>. QED  BY <1>1, <1>2, <1>3, <1>4, <1>5 DEF Next

-----------------------------------------------------------------------------
(* The service's view of the state.                                        *)

Names   == IF docs = Nil THEN {} ELSE files[docs]
Retired == closed \cup ({old[w] : w \in Swappers} \ {Nil})
Stage   == [r \in Readers |-> StageOf(r)]

LEMMA InitMaps == Init => Service!Init
<1> SUFFICES ASSUME Init PROVE Service!Init
  OBVIOUS
<1>1. docs \in {Nil, 1} /\ Names \in SUBSET Files /\ (docs = Nil => Names = {})
  BY BoundAssumption DEF Init, Names, States, Nil
<1>2. Retired = {}
  BY DEF Init, Retired
<1>3. Stage = [r \in Readers |-> "idle"]
  BY DEF Init, Stage, StageOf
<1>. QED  BY <1>1, <1>2, <1>3 DEF Init, Service!Init, Service!Nil, Service!NoFiles,
          Nil, NoFiles, Names, Retired, Stage

\* What a step does to the store, if it is no swap.
SameStore == docs' = docs /\ Names' = Names /\ Retired' = Retired

LEMMA ReaderKeepsStore ==
  ASSUME UNCHANGED <<stateVars, swapVars>>
  PROVE  SameStore
  BY DEF SameStore, Names, Retired, stateVars, swapVars

\* A step of reader r moves no other reader's stage.
Others(r) ==
  \A p \in Readers \ {r} : /\ rpc'[p] = rpc[p] /\ method'[p] = method[p]
                           /\ failed'[p] = failed[p] /\ todo'[p] = todo[p]

LEMMA StageChange ==
  ASSUME NEW r \in Readers, Others(r)
  PROVE  Stage' = [Stage EXCEPT ![r] = StageOf(r)']
<1>1. ASSUME NEW p \in Readers, p # r PROVE StageOf(p)' = StageOf(p)
  BY <1>1 DEF Others, StageOf
<1>2. Stage' = [p \in Readers |-> StageOf(p)']
  BY DEF Stage
<1>. QED  BY <1>1, <1>2 DEF Stage

LEMMA StageSame ==
  ASSUME NEW r \in Readers, Others(r), StageOf(r)' = StageOf(r)
  PROVE  Stage' = Stage
<1>1. ASSUME NEW p \in Readers PROVE StageOf(p)' = StageOf(p)
  BY <1>1 DEF Others, StageOf
<1>. QED  BY <1>1 DEF Stage

-----------------------------------------------------------------------------
(* The steps of a handler.                                                 *)

SameAnswers == searched' = searched /\ todo' = todo /\ got' = got /\ failed' = failed

\* The values a step of the service leaves alone.
LEMMA Stutters ==
  ASSUME SameStore, Stage' = Stage, SameAnswers
  PROVE  UNCHANGED Service!vars
  BY DEF SameStore, SameAnswers, Names, Retired, Stage, Service!vars, Service!storeVars,
     Service!callVars

LEMMA CallMaps ==
  ASSUME IInv, RestInv, NEW r \in Readers, Call(r)
  PROVE  Service!Ask(r)
<1> USE DEF IInv, TypeOK, RestInv, Begin, callVars, stateVars, swapVars, lockVars
<1>1. rpc[r] = "idle" /\ rpc'[r] = "rlock" /\ Others(r)
      /\ UNCHANGED <<stateVars, swapVars, searched, got, failed>>
  BY DEF Call, CallSearch, CallList, CallRead, Others
<1>2. SameStore
  BY <1>1, ReaderKeepsStore
<1>3. Stage[r] = "idle" /\ Stage' = [Stage EXCEPT ![r] = StageOf(r)']
  BY <1>1, StageChange DEF Stage, StageOf
<1>4. CASE CallSearch(r)
  <2>1. StageOf(r)' = "search"
    BY <1>1, <1>4 DEF CallSearch, StageOf, Looks
  <2>2. todo' = todo
    BY <1>1, <1>4 DEF CallSearch
  <2>. QED  BY <1>1, <1>2, <1>3, <2>1, <2>2 DEF Service!Ask, Service!storeVars,
            SameStore, Names, Retired, Stage
<1>5. CASE CallList(r)
  <2>1. StageOf(r)' = "list"
    BY <1>1, <1>5 DEF CallList, StageOf, Looks
  <2>2. todo' = todo
    BY <1>1, <1>5 DEF CallList
  <2>. QED  BY <1>1, <1>2, <1>3, <2>1, <2>2 DEF Service!Ask, Service!storeVars,
            SameStore, Names, Retired, Stage
<1>6. CASE CallRead(r)
  <2>1. StageOf(r)' = "read"
    BY <1>1, <1>6 DEF CallRead, StageOf, Looks
  <2>2. \E f \in Files : todo' = [todo EXCEPT ![r] = {f}]
    BY <1>6 DEF CallRead
  <2>. QED  BY <1>1, <1>2, <1>3, <2>1, <2>2 DEF Service!Ask, Service!storeVars,
            SameStore, Names, Retired, Stage
<1>. QED  BY <1>4, <1>5, <1>6 DEF Call

\* Every step of a handler leaves the store and the other handlers alone.
LEMMA ServeFrame ==
  ASSUME IInv, NEW r \in Readers, Serve(r)
  PROVE  SameStore /\ Others(r)
<1> USE DEF IInv, TypeOK, Others, stateVars, swapVars, lockVars, callVars
<1>1. UNCHANGED <<stateVars, swapVars>> /\ Others(r)
  <2>1. CASE RLock(r)              BY <2>1 DEF RLock
  <2>2. CASE Woken(r)              BY <2>2 DEF Woken
  <2>3. CASE Load(r)               BY <2>3 DEF Load
  <2>4. CASE SearchDocs(r)         BY <2>4 DEF SearchDocs, Worked
  <2>5. CASE GetDocFileNames(r)    BY <2>5 DEF GetDocFileNames, Worked
  <2>6. CASE GetDocFileContent(r)  BY <2>6 DEF GetDocFileContent, Worked
  <2>7. CASE RUnlock(r)            BY <2>7 DEF RUnlock
  <2>8. CASE Reply(r)              BY <2>8 DEF Reply
  <2>. QED  BY <2>1, <2>2, <2>3, <2>4, <2>5, <2>6, <2>7, <2>8 DEF Serve
<1>. QED  BY <1>1, ReaderKeepsStore

\* The service does not see locks being taken and released.
LEMMA LockStutters ==
  ASSUME IInv, NEW r \in Readers, RLock(r) \/ Woken(r) \/ Load(r) \/ RUnlock(r)
  PROVE  UNCHANGED Service!vars
<1>1. SameStore /\ Others(r)
  BY ServeFrame DEF Serve
<1>2. SameAnswers /\ method' = method
  BY DEF RLock, Woken, Load, RUnlock, callVars, SameAnswers
<1>3. StageOf(r)' = StageOf(r)
  <2>1. CASE RLock(r) \/ Woken(r) \/ Load(r)
    <3>1. rpc[r] \in {"rlock", "parked", "locked"}
          /\ rpc'[r] \in {"parked", "locked", "loaded"}
      BY <2>1 DEF RLock, Woken, Load, IInv, TypeOK
    <3>. QED  BY <1>2, <3>1 DEF StageOf
  <2>2. CASE RUnlock(r)
    <3>1. rpc[r] = "unlock"
          /\ rpc'[r] = IF failed[r] \/ todo[r] = {} THEN "done" ELSE "rlock"
      BY <2>2 DEF RUnlock, IInv, TypeOK
    <3>2. CASE failed[r] \/ todo[r] = {}
      BY <1>2, <3>1, <3>2 DEF StageOf
    <3>3. CASE ~(failed[r] \/ todo[r] = {})
      BY <1>2, <3>1, <3>3 DEF StageOf, SameAnswers
    <3>. QED  BY <3>2, <3>3
  <2>. QED  BY <2>1, <2>2
<1>4. Stage' = Stage
  BY <1>1, <1>3, StageSame
<1>. QED  BY <1>1, <1>2, <1>4, Stutters

\* What a method finds: the reader works on the served state, has not failed,
\* and its stage is the look its method takes.
LEMMA AtWork ==
  ASSUME IInv, RestInv, NEW r \in Readers, NEW m \in Methods, Worked(r, m)
  PROVE  /\ snap[r] = docs /\ snap[r] \notin closed
         /\ ~failed[r]
         /\ Stage[r] = Looks[m]
         /\ rpc'[r] = "unlock"
         /\ docs # Nil => docs \in States
  BY DEF IInv, TypeOK, SnapInv, PlaceInv, SearchInv, SearchOK, Worked, Stage, StageOf

LEMMA FailMaps ==
  ASSUME IInv, RestInv, NEW r \in Readers, Serve(r), rpc'[r] = "unlock",
         failed' = [failed EXCEPT ![r] = TRUE],
         searched' = searched, todo' = todo, got' = got
  PROVE  Service!Fail(r)
<1>1. SameStore /\ Others(r)
  BY ServeFrame
<1>2. StageOf(r)' = "done"
  BY DEF StageOf, IInv, TypeOK
<1>3. Stage' = [Stage EXCEPT ![r] = "done"]
  BY <1>1, <1>2, StageChange
<1>. QED  BY <1>1, <1>3 DEF Service!Fail, Service!storeVars, SameStore, Names, Retired, Stage

LEMMA SearchMaps ==
  ASSUME IInv, RestInv, NEW r \in Readers, SearchDocs(r)
  PROVE  Service!Search(r) \/ Service!Unserved(r)
<1>1. Worked(r, "SearchDocs") /\ "SearchDocs" \in Methods /\ Serve(r)
  BY DEF SearchDocs, Serve, Methods
<1>2. /\ snap[r] = docs /\ snap[r] \notin closed /\ ~failed[r]
      /\ Stage[r] = "search" /\ rpc'[r] = "unlock"
  BY <1>1, AtWork DEF Looks
<1>3. SameStore /\ Others(r)
  BY <1>1, ServeFrame
<1>4. CASE docs # Nil
  <2>1. PICK hits \in SUBSET files[docs] :
          /\ todo' = [todo EXCEPT ![r] = hits \ Unsplittable]
          /\ searched' = [searched EXCEPT ![r] = docs]
          /\ method' = [method EXCEPT ![r] = "GetDocFileContent"]
          /\ failed' = failed /\ got' = got
    BY <1>2, <1>4 DEF SearchDocs, Searchable
  <2> DEFINE found == hits \ Unsplittable
  <2>2. found \in SUBSET (Names \ Unsplittable)
    BY <1>4 DEF Names
  <2>3. StageOf(r)' = IF found = {} THEN "done" ELSE "read"
    <3>1. todo'[r] = found /\ method'[r] = "GetDocFileContent" /\ ~failed'[r]
      BY <1>2, <2>1 DEF IInv, TypeOK
    <3>. QED  BY <1>2, <3>1 DEF StageOf, Looks
  <2>4. Stage' = [Stage EXCEPT ![r] = IF found = {} THEN "done" ELSE "read"]
    BY <1>3, <2>3, StageChange
  <2>. QED  BY <1>2, <1>3, <1>4, <2>1, <2>2, <2>4
       DEF Service!Search, Service!storeVars, Service!Nil, Nil, SameStore, Names, Retired, Stage
<1>5. CASE docs = Nil
  <2>1. failed' = [failed EXCEPT ![r] = TRUE]
        /\ searched' = searched /\ todo' = todo /\ got' = got
    BY <1>2, <1>5 DEF SearchDocs, Searchable
  <2>2. Service!Fail(r)
    BY <1>1, <1>2, <2>1, FailMaps
  <2>. QED  BY <1>2, <1>5, <2>2 DEF Service!Unserved, Service!Nil, Nil, Stage
<1>. QED  BY <1>4, <1>5

LEMMA ListMaps ==
  ASSUME IInv, RestInv, NEW r \in Readers, GetDocFileNames(r)
  PROVE  Service!List(r) \/ Service!Unserved(r)
<1>1. Worked(r, "GetDocFileNames") /\ "GetDocFileNames" \in Methods /\ Serve(r)
  BY DEF GetDocFileNames, Serve, Methods
<1>2. /\ snap[r] = docs /\ ~failed[r]
      /\ Stage[r] = "list" /\ rpc'[r] = "unlock"
  BY <1>1, AtWork DEF Looks
<1>3. SameStore /\ Others(r)
  BY <1>1, ServeFrame
<1>4. failed' = [failed EXCEPT ![r] = docs = Nil]
      /\ searched' = searched /\ todo' = todo /\ got' = got
  BY <1>2 DEF GetDocFileNames
<1>5. CASE docs # Nil
  <2>1. failed' = failed
    BY <1>2, <1>4, <1>5 DEF IInv, TypeOK
  <2>2. todo'[r] = {}
    BY <1>1, <1>4 DEF RestInv, Worked
  <2>3. StageOf(r)' = "done"
    BY <1>2, <2>2 DEF StageOf
  <2>4. Stage' = [Stage EXCEPT ![r] = "done"]
    BY <1>3, <2>3, StageChange
  <2>. QED  BY <1>2, <1>3, <1>4, <1>5, <2>1, <2>4
       DEF Service!List, Service!storeVars, Service!Nil, Nil, SameStore, Names, Retired, Stage
<1>6. CASE docs = Nil
  <2>1. Service!Fail(r)
    BY <1>1, <1>2, <1>4, <1>6, FailMaps
  <2>. QED  BY <1>2, <1>6, <2>1 DEF Service!Unserved, Service!Nil, Nil, Stage
<1>. QED  BY <1>5, <1>6

LEMMA ReadMaps ==
  ASSUME IInv, RestInv, NEW r \in Readers, GetDocFileContent(r)
  PROVE  Service!Read(r) \/ Service!Missing(r)
<1>1. Worked(r, "GetDocFileContent") /\ "GetDocFileContent" \in Methods /\ Serve(r)
  BY DEF GetDocFileContent, Serve, Methods
<1>2. /\ snap[r] = docs /\ ~failed[r]
      /\ Stage[r] = "read" /\ rpc'[r] = "unlock"
  BY <1>1, AtWork DEF Looks
<1>3. SameStore /\ Others(r)
  BY <1>1, ServeFrame
<1>4. PICK f \in todo[r] :
        \/ /\ Holds(snap[r], f)
           /\ got' = [got EXCEPT ![r][f] = snap[r]]
           /\ todo' = [todo EXCEPT ![r] = @ \ {f}]
           /\ failed' = failed
        \/ /\ ~Holds(snap[r], f)
           /\ failed' = [failed EXCEPT ![r] = TRUE]
           /\ got' = got /\ todo' = todo
  BY DEF GetDocFileContent
<1>5. searched' = searched /\ method'[r] = "GetDocFileContent"
  BY DEF GetDocFileContent, Worked
<1>6. CASE Holds(snap[r], f)
  <2>1. f \in todo[r] \cap Names
    BY <1>2, <1>6 DEF Holds, Names
  <2>2. got' = [got EXCEPT ![r][f] = docs] /\ todo' = [todo EXCEPT ![r] = @ \ {f}]
        /\ failed' = failed
    BY <1>2, <1>4, <1>6
  <2>3. todo'[r] = {} <=> todo[r] = {f}
    BY <2>1, <2>2 DEF IInv, TypeOK
  <2>4. StageOf(r)' = IF todo[r] = {f} THEN "done" ELSE "read"
    BY <1>2, <1>5, <2>2, <2>3 DEF StageOf, Looks
  <2>5. Stage' = [Stage EXCEPT ![r] = IF todo[r] = {f} THEN "done" ELSE "read"]
    BY <1>3, <2>4, StageChange
  <2>. QED  BY <1>2, <1>3, <1>5, <2>1, <2>2, <2>5
       DEF Service!Read, Service!storeVars, SameStore, Names, Retired, Stage
<1>7. CASE ~Holds(snap[r], f)
  <2>1. f \in todo[r] \ Names
    BY <1>2, <1>7 DEF Holds, Names
  <2>2. Service!Fail(r)
    BY <1>1, <1>2, <1>4, <1>5, <1>7, FailMaps
  <2>. QED  BY <1>2, <2>1, <2>2 DEF Service!Missing, Names, Stage
<1>. QED  BY <1>6, <1>7

LEMMA ReplyMaps ==
  ASSUME IInv, NEW r \in Readers, Reply(r)
  PROVE  Service!Reply(r)
<1>1. SameStore /\ Others(r)
  BY ServeFrame DEF Serve
<1>2. Stage[r] = "done" /\ StageOf(r)' = "idle"
  BY DEF Reply, IInv, TypeOK, Stage, StageOf
<1>3. Stage' = [Stage EXCEPT ![r] = "idle"]
  BY <1>1, <1>2, StageChange
<1>. QED  BY <1>1, <1>2, <1>3 DEF Reply, Service!Reply, Service!storeVars, Service!NoFiles,
          Service!Nil, NoFiles, Nil, SameStore, Names, Retired, Stage

-----------------------------------------------------------------------------
(* The steps of a swapper.  Only Replace shows: it publishes a state.      *)

\* A swapper's step leaves the handlers alone.
LEMMA SwapFrame ==
  ASSUME NEW w \in Swappers, Build(w) \/ Swap(w)
  PROVE  Stage' = Stage /\ SameAnswers
<1>1. UNCHANGED <<rpc, method, todo, failed, searched, got>>
  BY DEF Build, Swap, Announce, Lock, Replace, Unlock, CloseOld, Close, readerVars, callVars
<1>2. \A r \in Readers : StageOf(r)' = StageOf(r)
  BY <1>1 DEF StageOf
<1>. QED  BY <1>1, <1>2 DEF Stage, SameAnswers

LEMMA BuildMaps ==
  ASSUME IInv, NEW w \in Swappers, Build(w)
  PROVE  UNCHANGED Service!vars
<1>1. docs' = docs /\ closed' = closed /\ old' = old
  BY DEF Build
<1>2. docs # Nil => files'[docs] = files[docs]
  BY DEF Build, IInv, TypeOK, PlaceInv, Nil, States
<1>3. SameStore
  BY <1>1, <1>2 DEF SameStore, Names, Retired
<1>. QED  BY <1>3, SwapFrame, Stutters

LEMMA ReplaceMaps ==
  ASSUME IInv, RestInv, NEW w \in Swappers, Replace(w)
  PROVE  Service!Publish
<1>1. /\ docs' = neu[w] /\ closed' = closed /\ files' = files
      /\ old' = [old EXCEPT ![w] = docs] /\ Pending(w) /\ old[w] = Nil
  BY DEF Replace, Pending, Retiring, RestInv
<1>2. neu[w] \in States \ (closed \cup {docs})
  <2>1. neu[w] \in (1..built) \ (closed \cup {docs})
    BY <1>1 DEF IInv, PlaceInv
  <2>2. built \in 0..MaxStates
    BY DEF IInv, TypeOK
  <2>. QED  BY <2>1, <2>2, BoundAssumption DEF States
<1>3. \A x \in Swappers : old[x] = Nil \/ old[x] # neu[w]
  BY <1>1 DEF IInv, PlaceInv, RestInv
<1>4. neu[w] \in States \ (Retired \cup {docs})
  BY <1>2, <1>3 DEF Retired
<1>5. Names' \in SUBSET Files
  BY <1>1, <1>2 DEF Names, IInv, TypeOK
<1>6. Retired' = Retired \cup ({docs} \ {Nil})
  BY <1>1 DEF Retired, IInv, TypeOK
<1>7. Stage' = Stage /\ SameAnswers
  BY SwapFrame DEF Swap
<1>. QED  BY <1>1, <1>4, <1>5, <1>6, <1>7
     DEF Service!Publish, Service!callVars, Service!States, Service!Nil, States, Nil,
         SameAnswers, Names, Retired, Stage

LEMMA SwapMaps ==
  ASSUME IInv, RestInv, NEW w \in Swappers, Swap(w)
  PROVE  Service!Publish \/ UNCHANGED Service!vars
<1>1. CASE Announce(w) \/ Lock(w) \/ Unlock(w)
  <2>1. SameStore
    BY <1>1 DEF Announce, Lock, Unlock, stateVars, SameStore, Names, Retired
  <2>. QED  BY <2>1, SwapFrame, Stutters
<1>2. CASE Replace(w)
  BY <1>2, ReplaceMaps
<1>3. CASE CloseOld(w)
  <2>1. /\ docs' = docs /\ files' = files
        /\ closed' = closed \cup ({old[w]} \ {Nil}) /\ old' = [old EXCEPT ![w] = Nil]
    BY <1>3 DEF CloseOld, Close
  <2>2. Retired' = Retired
    BY <2>1 DEF Retired, IInv, TypeOK
  <2>3. SameStore
    BY <2>1, <2>2 DEF SameStore, Names
  <2>. QED  BY <2>3, SwapFrame, Stutters
<1>. QED  BY <1>1, <1>2, <1>3 DEF Swap

-----------------------------------------------------------------------------

LEMMA NextMaps == IInv /\ RestInv /\ [Next]_vars => [Service!Next]_(Service!vars)
<1> SUFFICES ASSUME IInv, RestInv, [Next]_vars PROVE [Service!Next]_(Service!vars)
  OBVIOUS
<1>1. CASE UNCHANGED vars
  <2>1. SameStore /\ SameAnswers
    BY <1>1 DEF vars, stateVars, readerVars, callVars, swapVars, SameStore, SameAnswers,
                Names, Retired
  <2>2. Stage' = Stage
    BY <1>1 DEF vars, readerVars, callVars, Stage, StageOf
  <2>. QED  BY <2>1, <2>2, Stutters
<1>2. ASSUME NEW r \in Readers, Call(r) PROVE Service!Next
  BY <1>2, CallMaps DEF Service!Next
<1>3. ASSUME NEW r \in Readers, Serve(r) PROVE [Service!Next]_(Service!vars)
  <2>1. CASE RLock(r) \/ Woken(r) \/ Load(r) \/ RUnlock(r)
    BY <2>1, LockStutters
  <2>2. CASE SearchDocs(r) \/ GetDocFileNames(r) \/ GetDocFileContent(r) \/ Reply(r)
    BY <2>2, SearchMaps, ListMaps, ReadMaps, ReplyMaps DEF Service!Next, Service!Answer
  <2>. QED  BY <1>3, <2>1, <2>2 DEF Serve
<1>4. ASSUME NEW w \in Swappers, Build(w) PROVE UNCHANGED Service!vars
  BY <1>4, BuildMaps
<1>5. ASSUME NEW w \in Swappers, Swap(w) PROVE [Service!Next]_(Service!vars)
  BY <1>5, SwapMaps DEF Service!Next
<1>. QED  BY <1>1, <1>2, <1>3, <1>4, <1>5 DEF Next

\* Every behaviour of the locked documentation state, with its indexes closed
\* outside the lock, is one of the service in which a swap and each container
\* method is a single step, and calls fail only where the service lets them.
\* (The safety part of ImplementsService; its fairness is TLC's.)
THEOREM RefinesService == Spec => Service!Spec
<1>1. Init => Service!Init
  BY InitMaps
<1>2. Spec => []RestInv
  <2>1. Init => RestInv  BY InitRestInv
  <2>2. TypeOK /\ RestInv /\ [Next]_vars => RestInv'  BY NextRestInv
  <2>. QED  BY <2>1, <2>2, TypeCorrect, PTL DEF Spec
<1>3. IInv /\ RestInv /\ [Next]_vars => [Service!Next]_(Service!vars)
  BY NextMaps
<1>. QED  BY <1>1, <1>2, <1>3, Invariance, PTL DEF Spec, Service!Spec

-----------------------------------------------------------------------------
(* The system: update loops that install what they extract.                *)

HIDE DEF States, Nil

UP == INSTANCE DocsUpdater_proofs WITH
  Callers <- Swappers, MayMissEmbedded <- TRUE, docsAt <- PositionOf(docs)

-----------------------------------------------------------------------------
(* A step of the system is one of DocsState, or changes nothing there.     *)

LEMMA StepIsDocsStep == [SystemNext]_systemVars => [Next]_vars
<1> SUFFICES ASSUME [SystemNext]_systemVars PROVE [Next]_vars
  OBVIOUS
<1> USE DEF Quiet
<1>1. CASE UNCHANGED systemVars
  BY <1>1 DEF systemVars
<1>2. CASE Environment
  BY <1>2 DEF Environment
<1>3. ASSUME NEW r \in Readers, Arrive(r) \/ Handle(r) PROVE Next
  BY <1>3 DEF Arrive, Handle, Next
<1>4. ASSUME NEW c \in Swappers, Update(c) PROVE Next \/ UNCHANGED vars
  BY <1>4 DEF Update, Request, Extract, SwapBegins, Install, SwapEnds, Commit, Return, Next, Swap
<1>5. ASSUME NEW c \in Swappers, Enter(c) \/ Tick(c) \/ Stop(c) PROVE UNCHANGED vars
  BY <1>5 DEF Enter, Tick, Stop
<1>. QED  BY <1>1, <1>2, <1>3, <1>4, <1>5 DEF SystemNext

\* In the composition the documentation state behaves as DocsState says, so
\* that everything proved about it holds of the composition too.
THEOREM SystemIsDocsState == SystemSpec => Spec
<1>1. SystemInit => Init
  BY DEF SystemInit
<1>. QED  BY <1>1, StepIsDocsStep, PTL DEF SystemSpec, Spec

-----------------------------------------------------------------------------
(* What DocsUpdater_proofs proves, for the updater of the composition.     *)

LEMMA SameInvariant == U!IInv <=> UP!IInv
  BY DEF U!IInv, UP!IInv, U!TypeOK, UP!TypeOK, U!MutexOK, UP!MutexOK, U!ServedOK, UP!ServedOK,
     U!AllOrNothing, UP!AllOrNothing, U!CallerOK, UP!CallerOK, U!Positions, UP!Positions,
     U!NoRepeats, UP!NoRepeats, U!Known, UP!Known, U!Inside, UP!Inside, U!PCs, UP!PCs,
     U!Outcomes, UP!Outcomes

LEMMA SameNext == [U!Next]_(U!vars) <=> [UP!Next]_(UP!vars)
  BY DEF U!Next, UP!Next, U!vars, UP!vars, U!envVars, UP!envVars, U!servedVars, UP!servedVars,
     U!callerVars, UP!callerVars, U!Move, UP!Move, U!Cancel, UP!Cancel, U!Terminated, UP!Terminated,
     U!Lock, UP!Lock, U!Update, UP!Update, U!Tick, UP!Tick, U!Stop, UP!Stop, U!Goto, UP!Goto,
     U!Return, UP!Return, U!Fail, UP!Fail, U!RequestFails, UP!RequestFails,
     U!CheckForUpdate, UP!CheckForUpdate, U!CheckFails, UP!CheckFails, U!Download, UP!Download,
     U!DownloadFails, UP!DownloadFails, U!Extract, UP!Extract, U!ExtractFails, UP!ExtractFails,
     U!SwapDocs, UP!SwapDocs, U!Commit, UP!Commit, U!Unlock, UP!Unlock,
     U!Positions, UP!Positions, U!MainHead, UP!MainHead, U!Known, UP!Known, U!Outside, UP!Outside

LEMMA UpdaterInit == U!Init => U!IInv
<1>1. U!Init <=> UP!Init
  BY DEF U!Init, UP!Init, U!Outside, UP!Outside
<1>2. UP!Init => UP!IInv
  BY UpdaterAssumption, NoOneAssumption, UP!InitIInv
<1>. QED  BY <1>1, <1>2, SameInvariant

LEMMA UpdaterStep == U!IInv /\ [U!Next]_(U!vars) => U!IInv'
<1>1. UP!IInv /\ [UP!Next]_(UP!vars) => UP!IInv'
  BY UpdaterAssumption, NoOneAssumption, UP!NextIInv
<1>. QED  BY <1>1, SameInvariant, SameNext, PTL

-----------------------------------------------------------------------------
(* What each step does to the two parts.                                   *)

\* Only a swapper past Lock() changes what is served.
LEMMA HandlerFrame ==
  ASSUME NEW r \in Readers, Call(r) \/ Serve(r)
  PROVE  UNCHANGED <<stateVars, swapVars>>
  BY DEF Call, CallSearch, CallList, CallRead, Begin, Serve, RLock, Woken, Load,
    SearchDocs, GetDocFileNames, GetDocFileContent, Worked, RUnlock, Reply

\* Building a state leaves the position of what is served alone.
LEMMA ExtractFrame ==
  ASSUME IInv, TimeInv, NEW c \in Swappers, Extract(c)
  PROVE  /\ docs' = docs /\ built' = built + 1 /\ built + 1 \in States
         /\ \A s \in 1..built : at'[s] = at[s]
         /\ PositionOf(docs)' = PositionOf(docs)
<1>1. /\ docs' = docs /\ built' = built + 1 /\ built < MaxStates
      /\ at' = [at EXCEPT ![built'] = archive[c]]
  BY DEF Extract, Build
<1>2. built \in 0..MaxStates /\ docs \in 0..built
  BY DEF IInv, TypeOK, PlaceInv
<1>3. \A s \in 1..built : at'[s] = at[s]
  BY <1>1, <1>2 DEF TimeInv, States
<1>. QED  BY <1>1, <1>2, <1>3, BoundAssumption DEF PositionOf, States, Nil

\* The assignment publishes the archive that c downloaded.
LEMMA InstallFrame ==
  ASSUME IInv, JoinInv, NEW c \in Swappers, Install(c)
  PROVE  /\ Pending(c) /\ upc[c] = "swap"
         /\ docs' = neu[c] /\ neu[c] \in 1..built
         /\ PositionOf(docs)' = archive[c] /\ at[neu[c]] = archive[c]
<1>1. Pending(c) /\ docs' = neu[c] /\ at' = at
  BY DEF Install, Replace, Pending
<1>2. neu[c] \in 1..built /\ upc[c] = "swap" /\ at[neu[c]] = archive[c]
  BY <1>1 DEF IInv, PlaceInv, JoinInv
<1>. QED  BY <1>1, <1>2 DEF PositionOf, Nil

\* Every other step keeps what is served, and the positions.
LEMMA PositionKept ==
  ASSUME UNCHANGED <<docs, at>>
  PROVE  PositionOf(docs)' = PositionOf(docs)
  BY DEF PositionOf

-----------------------------------------------------------------------------
(* A step of the system is one of DocsUpdater, or changes nothing there.   *)

LEMMA UpdaterStutters ==
  ASSUME UNCHANGED <<docs, at, updaterVars>>
  PROVE  UNCHANGED U!vars
  BY PositionKept DEF updaterVars, U!vars, U!envVars, U!servedVars, U!callerVars

LEMMA StepIsUpdaterStep ==
  IInv /\ JoinInv /\ [SystemNext]_systemVars => [U!Next]_(U!vars)
<1> SUFFICES ASSUME IInv, JoinInv, [SystemNext]_systemVars PROVE [U!Next]_(U!vars)
  OBVIOUS
<1> USE DEF Quiet
<1>1. CASE UNCHANGED systemVars
  BY <1>1, UpdaterStutters DEF systemVars, vars, stateVars
<1>2. CASE Environment
  BY <1>2 DEF Environment, U!Next
<1>3. ASSUME NEW r \in Readers, Arrive(r) \/ Handle(r) PROVE UNCHANGED U!vars
  <2>1. UNCHANGED <<docs, at, updaterVars>>
    BY <1>3, HandlerFrame DEF Arrive, Handle, stateVars
  <2>. QED  BY <2>1, UpdaterStutters
<1>4. ASSUME NEW c \in Swappers, Update(c) PROVE [U!Next]_(U!vars)
  <2>1. CASE Request(c) \/ Extract(c) \/ Commit(c) \/ Return(c)
    BY <2>1 DEF Request, Extract, Commit, Return, U!Next, U!Update
  <2>2. CASE SwapBegins(c) \/ SwapEnds(c)
    <3>1. UNCHANGED <<docs, at, updaterVars>>
      BY <2>2 DEF SwapBegins, SwapEnds, Announce, Lock, Unlock, CloseOld, Close, stateVars
    <3>. QED  BY <3>1, UpdaterStutters
  <2>3. CASE Install(c)
    <3>1. U!SwapDocs(c)
      BY <2>3, InstallFrame DEF Install, U!SwapDocs, U!Goto, U!envVars
    <3>. QED  BY <3>1 DEF U!Next, U!Update
  <2>. QED  BY <1>4, <2>1, <2>2, <2>3 DEF Update
<1>5. ASSUME NEW c \in Swappers, Enter(c) \/ Tick(c) \/ Stop(c) PROVE U!Next
  BY <1>5 DEF Enter, Tick, Stop, U!Next
<1>. QED  BY <1>1, <1>2, <1>3, <1>4, <1>5 DEF SystemNext

-----------------------------------------------------------------------------
(* A swap is under way only inside Update's, for what was downloaded.      *)

\* The steps of update loop c that leave the documentation alone.
Aside(c) == Request(c) \/ Commit(c) \/ Return(c) \/ Enter(c) \/ Tick(c) \/ Stop(c)

\* None of them is taken while c's swap is under way, and none moves another
\* loop.
LEMMA AsideFrame ==
  ASSUME U!TypeOK, NEW c \in Swappers, Aside(c)
  PROVE  /\ Quiet
         /\ upc[c] # "swap" /\ (upc[c] = "commit" => wpc[c] = "idle")
         /\ \A d \in Swappers \ {c} : upc'[d] = upc[d] /\ archive'[d] = archive[d]
<1> USE DEF U!TypeOK, U!Goto
<1>1. CASE Request(c)
  BY <1>1 DEF Request, U!CheckForUpdate, U!CheckFails, U!Download, U!DownloadFails,
     U!ExtractFails, U!Fail, U!Return
<1>2. CASE Commit(c)
  BY <1>2 DEF Commit, U!Commit, U!Return
<1>3. CASE Return(c) \/ Enter(c) \/ Tick(c) \/ Stop(c)
  BY <1>3 DEF Return, Enter, Tick, Stop, U!Unlock, U!Lock, U!Tick, U!Stop
<1>. QED  BY <1>1, <1>2, <1>3 DEF Aside

LEMMA StepJoinInv ==
  IInv /\ TimeInv /\ U!TypeOK /\ JoinInv /\ [SystemNext]_systemVars => JoinInv'
<1> SUFFICES ASSUME IInv, TimeInv, U!TypeOK, JoinInv, [SystemNext]_systemVars
             PROVE  JoinInv'
  OBVIOUS
<1> USE DEF JoinInv, Pending, Retiring, swapVars, updaterVars
<1>1. CASE UNCHANGED systemVars
  BY <1>1 DEF systemVars, vars
<1>2. CASE Environment
  BY <1>2 DEF Environment, Quiet, vars, U!Move, U!Cancel, U!callerVars
<1>3. ASSUME NEW r \in Readers, Arrive(r) \/ Handle(r) PROVE JoinInv'
  BY <1>3, HandlerFrame DEF Arrive, Handle
<1>4. ASSUME NEW c \in Swappers, Aside(c) PROVE JoinInv'
  <2>. SUFFICES ASSUME NEW d \in Swappers
                PROVE  /\ Pending(d)'  => upc'[d] = "swap" /\ at'[neu'[d]] = archive'[d]
                       /\ Retiring(d)' => upc'[d] = "commit"
    OBVIOUS
  <2>1. wpc' = wpc /\ neu' = neu /\ at' = at
    BY <1>4, AsideFrame DEF Quiet, vars
  <2>2. CASE d = c   BY <1>4, <2>1, <2>2, AsideFrame
  <2>3. CASE d # c   BY <1>4, <2>1, <2>3, AsideFrame
  <2>. QED  BY <2>2, <2>3
<1>5. ASSUME NEW c \in Swappers, Extract(c) PROVE JoinInv'
  <2>1. /\ wpc' = [wpc EXCEPT ![c] = "queue"] /\ neu' = [neu EXCEPT ![c] = built + 1]
        /\ upc' = [upc EXCEPT ![c] = "swap"] /\ archive' = archive
        /\ at' = [at EXCEPT ![built + 1] = archive[c]]
    BY <1>5 DEF Extract, Build, U!Extract, U!Goto
  <2>2. built + 1 \in States /\ \A s \in 1..built : at'[s] = at[s]
    BY <1>5, ExtractFrame
  <2>3. \A d \in Swappers : Pending(d) => neu[d] \in 1..built
    BY DEF IInv, PlaceInv
  <2>4. /\ wpc \in [Swappers -> SwapPCs] /\ neu \in [Swappers -> States \cup {Nil}]
        /\ upc \in [Swappers -> U!PCs] /\ at \in [States -> Nat]
    BY DEF IInv, TypeOK, TimeInv, U!TypeOK
  <2>. QED  BY <2>1, <2>2, <2>3, <2>4
<1>6. ASSUME NEW c \in Swappers, SwapBegins(c) PROVE JoinInv'
  BY <1>6 DEF SwapBegins, Announce, Lock, IInv, TypeOK
<1>7. ASSUME NEW c \in Swappers, Install(c) PROVE JoinInv'
  BY <1>7, InstallFrame DEF Install, Replace, IInv, TypeOK, U!TypeOK
<1>8. ASSUME NEW c \in Swappers, SwapEnds(c) PROVE JoinInv'
  BY <1>8 DEF SwapEnds, Unlock, CloseOld, Close, IInv, TypeOK
<1>. QED  BY <1>1, <1>2, <1>3, <1>4, <1>5, <1>6, <1>7, <1>8 DEF SystemNext, Update, Aside

-----------------------------------------------------------------------------
(* What a handler has seen was served since it arrived.                    *)

\* What is served is never replaced by something older: the swap of the only
\* loop inside Update installs an archive downloaded after the last one.
LEMMA InstallAdvances ==
  ASSUME IInv, JoinInv, U!IInv, NEW c \in Swappers, Install(c)
  PROVE  PositionOf(docs) <= PositionOf(docs)'
  BY InstallFrame DEF U!IInv, U!CallerOK

\* What r has seen, when neither it nor the positions change and what is
\* served does not go back.
LEMMA SeenKept ==
  ASSUME TimeInv, at' \in [States -> Nat], \A s \in 1..built : at'[s] = at[s],
         built \in Nat, built' \in Nat, built <= built',
         PositionOf(docs) \in Nat, PositionOf(docs)' \in Nat,
         PositionOf(docs) <= PositionOf(docs)', UNCHANGED <<floor, searched, got>>
  PROVE  TimeInv'
<1>1. ASSUME NEW r \in Readers, NEW s, SeenSince(r, s) PROVE SeenSince(r, s)'
  BY <1>1 DEF SeenSince, TimeInv
<1>2. \A r \in Readers : floor[r] \in Nat /\ floor[r] <= PositionOf(docs)'
  BY DEF TimeInv
<1>3. \A r \in Readers : searched[r] # Nil => SeenSince(r, searched[r])'
  BY <1>1 DEF TimeInv
<1>4. \A r \in Readers : \A f \in Files : got[r][f] # Nil =>
         /\ SeenSince(r, got[r][f])'
         /\ searched[r] # Nil => at'[searched[r]] <= at'[got[r][f]]
  BY <1>1 DEF TimeInv, SeenSince
<1>. QED  BY <1>2, <1>3, <1>4 DEF TimeInv


\* A call starts now and has seen nothing yet.
LEMMA ArriveTimeInv ==
  ASSUME IInv, TimeInv, PositionOf(docs) \in Nat, NEW r \in Readers, Arrive(r)
  PROVE  TimeInv'
<1>1. /\ rpc[r] = "idle" /\ UNCHANGED <<searched, got, at, docs, built>>
      /\ floor' = [floor EXCEPT ![r] = PositionOf(docs)]
  BY DEF Arrive, Call, CallSearch, CallList, CallRead, Begin, stateVars
<1>2. searched[r] = Nil /\ \A f \in Files : got[r][f] = Nil
  BY <1>1 DEF IInv, SearchInv, SearchOK, NoFiles
<1>3. PositionOf(docs)' = PositionOf(docs)
  BY <1>1, PositionKept
<1>. QED  BY <1>1, <1>2, <1>3 DEF TimeInv, SeenSince

\* A handler only ever sees the served state: the one it loaded.
LEMMA HandleTimeInv ==
  ASSUME IInv, TimeInv, PositionOf(docs) \in Nat, NEW r \in Readers, Handle(r)
  PROVE  TimeInv'
<1>1. Serve(r) /\ UNCHANGED <<at, floor, docs, built>>
  BY HandlerFrame DEF Handle, stateVars
<1>2. PositionOf(docs)' = PositionOf(docs)
  BY <1>1, PositionKept
<1>3. docs # Nil => SeenSince(r, docs)
  BY DEF SeenSince, IInv, PlaceInv, TimeInv, PositionOf, Nil
<1>4. CASE UNCHANGED <<searched, got>>
  BY <1>1, <1>2, <1>4 DEF TimeInv, SeenSince
<1>5. CASE SearchDocs(r)
  <2>1. snap[r] = docs /\ method[r] = "SearchDocs" /\ got' = got
    BY <1>5 DEF SearchDocs, Worked, IInv, SnapInv
  <2>2. \A f \in Files : got[r][f] = Nil
    BY <2>1 DEF IInv, SearchInv, SearchOK, NoFiles
  <2>3. CASE Searchable(snap[r])
    <3>1. searched' = [searched EXCEPT ![r] = docs] /\ docs # Nil
      BY <1>5, <2>1, <2>3 DEF SearchDocs, Searchable
    <3>. QED  BY <1>1, <1>2, <1>3, <2>1, <2>2, <3>1 DEF TimeInv, SeenSince, IInv, TypeOK
  <2>4. CASE ~Searchable(snap[r])
    BY <1>4, <1>5, <2>1, <2>4 DEF SearchDocs
  <2>. QED  BY <2>3, <2>4
<1>6. CASE GetDocFileContent(r)
  <2>1. snap[r] = docs /\ searched' = searched
    BY <1>6 DEF GetDocFileContent, Worked, IInv, SnapInv
  <2>2. PICK f \in todo[r] :
          \/ Holds(docs, f) /\ got' = [got EXCEPT ![r][f] = docs]
          \/ got' = got
    BY <1>6, <2>1 DEF GetDocFileContent
  <2>3. CASE Holds(docs, f) /\ got' = [got EXCEPT ![r][f] = docs]
    <3>1. docs # Nil
      BY <2>3 DEF Holds
    <3>2. searched[r] # Nil => at[searched[r]] <= at[docs]
      BY <3>1 DEF TimeInv, SeenSince, PositionOf
    <3>3. \A q \in Readers, g \in Files :
            got'[q][g] = IF q = r /\ g = f THEN docs ELSE got[q][g]
      BY <2>3 DEF IInv, TypeOK
    <3>. QED  BY <1>1, <1>2, <1>3, <2>1, <3>1, <3>2, <3>3 DEF TimeInv, SeenSince
  <2>. QED  BY <1>4, <2>1, <2>2, <2>3
<1>7. CASE Reply(r)
  <2>1. searched' = [searched EXCEPT ![r] = Nil] /\ got' = [got EXCEPT ![r] = NoFiles]
    BY <1>7 DEF Reply
  <2>2. \A q \in Readers : /\ searched'[q] \in {searched[q], Nil}
                           /\ got'[q] = got[q] \/ got'[q] = NoFiles
    BY <2>1 DEF IInv, TypeOK
  <2>3. \A q \in Readers : searched'[q] # Nil => searched'[q] = searched[q] /\ q # r
    BY <2>1 DEF IInv, TypeOK
  <2>4. \A q \in Readers, f \in Files : got'[q][f] # Nil => got'[q][f] = got[q][f]
    BY <2>2 DEF NoFiles
  <2>. QED  BY <1>1, <1>2, <2>3, <2>4 DEF TimeInv, SeenSince
<1>8. CASE RLock(r) \/ Woken(r) \/ Load(r) \/ GetDocFileNames(r) \/ RUnlock(r)
  BY <1>4, <1>8 DEF RLock, Woken, Load, GetDocFileNames, RUnlock, callVars
<1>. QED  BY <1>1, <1>5, <1>6, <1>7, <1>8 DEF Serve

LEMMA StepTimeInv ==
  IInv /\ IInv' /\ U!IInv /\ U!IInv' /\ JoinInv /\ TimeInv /\ [SystemNext]_systemVars
    => TimeInv'
<1> SUFFICES ASSUME IInv, IInv', U!IInv, U!IInv', JoinInv, TimeInv, [SystemNext]_systemVars
             PROVE  TimeInv'
  OBVIOUS
<1>0. /\ PositionOf(docs) \in Nat /\ PositionOf(docs)' \in Nat
      /\ built \in Nat /\ built' \in Nat /\ at \in [States -> Nat]
  BY DEF U!IInv, U!TypeOK, IInv, TypeOK, TimeInv
<1>1. CASE UNCHANGED <<docs, built, searched, got, at, floor>>
  BY <1>0, <1>1, PositionKept, SeenKept
<1>2. ASSUME NEW r \in Readers, Arrive(r) PROVE TimeInv'
  BY <1>0, <1>2, ArriveTimeInv
<1>3. ASSUME NEW r \in Readers, Handle(r) PROVE TimeInv'
  BY <1>0, <1>3, HandleTimeInv
<1>4. ASSUME NEW c \in Swappers, Extract(c) PROVE TimeInv'
  <2>1. UNCHANGED <<floor, searched, got>> /\ at' = [at EXCEPT ![built'] = archive[c]]
    BY <1>4 DEF Extract, Build, readerVars, callVars
  <2>2. at' \in [States -> Nat]
    BY <1>0, <2>1 DEF U!IInv, U!TypeOK
  <2>. QED  BY <1>0, <1>4, <2>1, <2>2, ExtractFrame, SeenKept
<1>5. ASSUME NEW c \in Swappers, Install(c) PROVE TimeInv'
  <2>1. UNCHANGED <<floor, searched, got, at, built>>
    BY <1>5 DEF Install, Replace, readerVars, callVars
  <2>. QED  BY <1>0, <1>5, <2>1, InstallAdvances, SeenKept
<1>6. ASSUME NEW c \in Swappers, SwapBegins(c) \/ SwapEnds(c) PROVE TimeInv'
  BY <1>1, <1>6 DEF SwapBegins, SwapEnds, Announce, Lock, Unlock, CloseOld, Close,
     stateVars, readerVars, callVars
<1>7. ASSUME NEW c \in Swappers, Aside(c) PROVE TimeInv'
  BY <1>1, <1>7, AsideFrame DEF U!IInv, Quiet, vars, stateVars, readerVars, callVars
<1>8. CASE Environment \/ UNCHANGED systemVars
  BY <1>1, <1>8 DEF Environment, Quiet, systemVars, vars, stateVars, readerVars, callVars
<1>. QED  BY <1>2, <1>3, <1>4, <1>5, <1>6, <1>7, <1>8 DEF SystemNext, Update, Aside

-----------------------------------------------------------------------------
(* The invariant of the composition and what follows from it.              *)

LEMMA InitSystemInv == SystemInit => SystemInv
<1> SUFFICES ASSUME SystemInit PROVE SystemInv
  OBVIOUS
<1>1. Init /\ U!Init
  BY DEF SystemInit
<1>2. IInv /\ NoIndexLeak /\ U!IInv
  BY <1>1, InitIInv, UpdaterInit DEF Init, NoIndexLeak
<1>3. JoinInv
  BY <1>1 DEF Init, JoinInv, Pending, Retiring
<1>4. TimeInv
  <2>1. PositionOf(docs) \in Nat
    BY <1>2 DEF U!IInv, U!TypeOK
  <2>2. \A r \in Readers : searched[r] = Nil /\ \A f \in Files : got[r][f] = Nil
    BY <1>1 DEF Init, NoFiles
  <2>. QED  BY <2>1, <2>2 DEF SystemInit, TimeInv
<1>. QED  BY <1>2, <1>3, <1>4 DEF SystemInv

LEMMA StepSystemInv == SystemInv /\ [SystemNext]_systemVars => SystemInv'
<1>1. SystemInv /\ [SystemNext]_systemVars => IInv' /\ NoIndexLeak'
  BY StepIsDocsStep, NextTypeOK, NextLockInv, NextSnapInv, NextPlaceInv, NextSearchInv,
     NextNoIndexLeak DEF IInv, SystemInv
<1>2. SystemInv /\ [SystemNext]_systemVars => U!IInv'
  BY StepIsUpdaterStep, UpdaterStep DEF SystemInv
<1>3. SystemInv /\ [SystemNext]_systemVars => JoinInv'
  BY StepJoinInv DEF SystemInv, U!IInv
<1>4. SystemInv /\ [SystemNext]_systemVars => TimeInv'
  BY <1>1, <1>2, StepTimeInv DEF SystemInv
<1>. QED  BY <1>1, <1>2, <1>3, <1>4 DEF SystemInv

\* The invariant of the composition: those of its parts, and what holds the
\* two together.
THEOREM SystemInvariance == SystemSpec => []SystemInv
  BY InitSystemInv, StepSystemInv, PTL DEF SystemSpec

\* No tool call sees documentation older than what was served when it
\* arrived, nor reads a file older than the state it searched, however many
\* loops update and however long the reader waits for the lock.
THEOREM NeverBackInTime == SystemSpec => []NeverOlder
<1>1. SystemInv => NeverOlder
  BY DEF SystemInv, TimeInv, SeenSince, NeverOlder, IInv, TypeOK
<1>. QED  BY <1>1, SystemInvariance, PTL

LEMMA PairBounded ==
  ASSUME NEW a, NEW b, NEW S, S \subseteq {a, b}
  PROVE  Cardinality(S) <= 2
<1>1. IsFiniteSet({a}) /\ Cardinality({a}) = 1
  BY FS_Singleton
<1>2. IsFiniteSet({a, b}) /\ Cardinality({a, b}) <= 2
  <2>1. {a, b} = {a} \cup {b}
    OBVIOUS
  <2>. QED  BY <1>1, <2>1, FS_AddElement
<1>3. Cardinality(S) <= Cardinality({a, b})
  BY <1>2, FS_Subset
<1>. QED  BY <1>2, <1>3, FS_Subset, FS_CardinalityType

\* At most two indexes are open however many loops update, and between two
\* updates none but the served one: each index is accounted for by a swap,
\* and the mutex allows one at a time.
THEOREM TwoIndexesAtMost == SystemSpec => []IndexesBounded
<1>1. ASSUME SystemInv PROVE IndexesBounded
  <2>1. \A c \in Swappers : Pending(c) \/ Retiring(c) => mu = c
    BY <1>1 DEF SystemInv, JoinInv, U!IInv, U!MutexOK, U!Inside
  <2>2. \A s \in Open : s = docs \/ \E c \in Swappers : \/ Pending(c) /\ s = neu[c]
                                                        \/ Retiring(c) /\ s = old[c]
    BY <1>1 DEF SystemInv, NoIndexLeak, Open, Pending, Retiring
  <2>3. CASE mu = NoOne
    <3>1. Open \subseteq {docs}
      BY <2>1, <2>2, <2>3, NoOneAssumption
    <3>2. Cardinality(Open) <= 2
      BY <3>1, PairBounded
    <3>. QED  BY <3>1, <3>2 DEF IndexesBounded
  <2>4. CASE mu # NoOne
    <3>1. Open \subseteq {docs, IF Pending(mu) THEN neu[mu] ELSE old[mu]}
      BY <2>1, <2>2 DEF Pending, Retiring
    <3>. QED  BY <2>4, <3>1, PairBounded DEF IndexesBounded
  <2>. QED  BY <2>3, <2>4
<1>. QED  BY <1>1, SystemInvariance, PTL

\* With the lock protocol of the documentation state inside it, and handlers
\* in its way, Update behaves as DocsUpdater says, where the swap is one step.
\* (The safety part of ImplementsUpdater.)
THEOREM RefinesUpdater == SystemSpec => U!Spec
<1>1. SystemInit => U!Init
  BY DEF SystemInit
<1>2. SystemInv /\ [SystemNext]_systemVars => [U!Next]_(U!vars)
  BY StepIsUpdaterStep DEF SystemInv
<1>. QED  BY <1>1, <1>2, SystemInvariance, PTL DEF SystemSpec, U!Spec

\* With the states that Update builds and installs, the handlers behave like
\* the atomic documentation service.  (The safety part of ImplementsService.)
THEOREM SystemRefinesService == SystemSpec => Service!Spec
  BY SystemIsDocsState, RefinesService, PTL

\* With any number of loops, and each swap spread over several steps, what the
\* handlers are served is never replaced by older documentation.
THEOREM SystemOnlyAdvances == SystemSpec => U!DocsNeverGoBack
<1>1. UP!IInv /\ [UP!Next]_(UP!vars) => PositionOf(docs)' >= PositionOf(docs)
  BY UpdaterAssumption, NoOneAssumption, UP!StepAdvances
<1>2. SystemInv /\ [SystemNext]_systemVars => PositionOf(docs)' >= PositionOf(docs)
  BY <1>1, SameInvariant, SameNext, StepIsUpdaterStep DEF SystemInv
<1>. QED  BY <1>2, SystemInvariance, PTL DEF SystemSpec, U!DocsNeverGoBack

\* What was proved of the parts holds of the composition: an update that fails
\* half way leaves the state that handlers read as it was, none is fetched that
\* is already served, the stored hash is not ahead of the state served, and no
\* handler searches an index that an update has closed.
THEOREM GuaranteesOfTheParts ==
  SystemSpec => [](/\ NoSearchOnClosedIndex /\ TornOnlyBySwap /\ NoIndexLeak
                   /\ U!AllOrNothing /\ U!NoRedundantFetch /\ U!HashNotAheadOfDocs)
<1>1. U!IInv => U!AllOrNothing /\ U!NoRedundantFetch
  BY DEF U!IInv, U!CallerOK, U!NoRedundantFetch
<1>2. ASSUME U!IInv, mu = NoOne, stamped PROVE hashAt <= PositionOf(docs)
  <2>1. \A c \in Swappers : upc[c] # "commit"
    BY <1>2, NoOneAssumption DEF U!IInv, U!MutexOK, U!Inside
  <2>. QED  BY <1>2, <2>1 DEF U!IInv, U!ServedOK
<1>3. U!IInv => U!HashNotAheadOfDocs
  BY <1>2 DEF U!HashNotAheadOfDocs, U!IInv, U!TypeOK
<1>4. SystemInv => U!AllOrNothing /\ U!NoRedundantFetch /\ U!HashNotAheadOfDocs
  BY <1>1, <1>3 DEF SystemInv
<1>. QED  BY <1>4, SystemInvariance, SystemIsDocsState, SearchesOpenIndex,
             TornOnlyAcrossSwaps, IndexesAccountedFor, PTL

=============================================================================
