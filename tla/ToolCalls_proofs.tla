--------------------------- MODULE ToolCalls_proofs ---------------------------
(***************************************************************************)
(* Proofs about ToolCalls, for any number of concurrent calls and          *)
(* credentials: type correctness; every call is sent with its own          *)
(* credential and reported as a success only if Prometheus said so; the    *)
(* counters are exactly the calls, errors and failures they stand for.     *)
(***************************************************************************)
EXTENDS ToolCalls, FiniteSetTheorems, TLAPS

LEMMA InitIInv == Init => IInv
<1> SUFFICES ASSUME Init PROVE IInv
  OBVIOUS
<1>1. TypeOK
  BY CredAssumption DEF Init, TypeOK, Stages, Results, Paths, Routes, Families
<1>2. defaultRT = Default /\ \A q \in Calls : CredentialOK(q) /\ ResultOK(q)
  BY DEF Init, CredentialOK, ResultOK, Credential
<1>3. /\ Measured(Paths) = {} /\ Measured({"method"}) = {} /\ ToolErrors = {}
      /\ MethodErrors = {} /\ FailedOn("client") = {}
      /\ \A p \in Paths : Observed(p) = {}
  BY DEF Init, Measured, ToolErrors, MethodErrors, FailedOn, Observed, Done
<1>4. CountersOK
  BY <1>3, FS_EmptySet
     DEF Init, CountersOK, ErrorsCounted, ClientFailuresCounted, Paths, Families,
         Routes, FailedOf
<1>. QED  BY <1>1, <1>2, <1>4 DEF IInv

-----------------------------------------------------------------------------
(* Type correctness, one lemma per group of actions.                       *)

LEMMA HandleTypeOK ==
  ASSUME IInv, NEW q \in Calls, Handle(q)
  PROVE  TypeOK'
<1>0. /\ TypeOK
      /\ stage[q] \in {"returned", "observed"} => path[q] \in {"client", "raw"}
  BY DEF IInv, ResultOK, Paths
<1> USE <1>0 DEF TypeOK, Goto, callVars, ctxVars, metrics, apiMetrics, toolMetrics,
        methodMetrics, Stages, Results, Paths, Routes
<1>1. CASE Reject(q)           BY <1>1 DEF Reject
<1>2. CASE GetAPIClient(q)     BY <1>2 DEF GetAPIClient, UseClient, OwnOrDefault
<1>3. CASE Send(q)             BY <1>3 DEF Send
<1>4. CASE GiveUp(q)           BY <1>4 DEF GiveUp, Lose
<1>5. CASE ReturnLost(q)       BY <1>5 DEF ReturnLost
<1>6. CASE ObserveAPI(q)       BY <1>6 DEF ObserveAPI
<1>7. CASE CountAPIFailure(q)  BY <1>7 DEF CountAPIFailure
<1>8. CASE APISucceeded(q)     BY <1>8 DEF APISucceeded
<1>9. CASE FormatOutput(q)     BY <1>9 DEF FormatOutput
<1>10. CASE ReadBodyFails(q)   BY <1>10 DEF ReadBodyFails, Lose
<1>11. CASE ObserveTool(q)     BY <1>11 DEF ObserveTool
<1>12. CASE CountFailure(q)    BY <1>12 DEF CountFailure
<1>13. CASE Answer(q)          BY <1>13 DEF Answer
<1>14. CASE ObserveMethod(q)   BY <1>14 DEF ObserveMethod
<1>15. CASE CountMethodFailure(q)  BY <1>15 DEF CountMethodFailure
<1>. QED
  BY <1>1, <1>2, <1>3, <1>4, <1>5, <1>6, <1>7, <1>8, <1>9, <1>10, <1>11, <1>12,
     <1>13, <1>14, <1>15 DEF Handle

LEMMA OthersTypeOK ==
  ASSUME TypeOK, NEW q \in Calls,
         Receive(q) \/ Cancel(q) \/ Expire(q) \/ Upstream(q)
  PROVE  TypeOK'
<1> USE DEF TypeOK, Goto, callVars, ctxVars, metrics, apiMetrics, toolMetrics,
        methodMetrics, Stages, Results, Paths, Routes
<1>1. CASE Receive(q)        BY <1>1 DEF Receive
<1>2. CASE Cancel(q)         BY <1>2 DEF Cancel
<1>3. CASE Expire(q)         BY <1>3 DEF Expire
<1>4. CASE Respond(q)        BY <1>4 DEF Respond
<1>5. CASE Break(q)          BY <1>5 DEF Break, Lose
<1>6. CASE ReadBody(q)       BY <1>6 DEF ReadBody
<1>7. CASE ReadBodyFails(q)  BY <1>7 DEF ReadBodyFails, Lose
<1>. QED  BY <1>1, <1>2, <1>3, <1>4, <1>5, <1>6, <1>7 DEF Upstream

LEMMA NextTypeOK == IInv /\ [Next]_vars => TypeOK'
<1> SUFFICES ASSUME IInv, [Next]_vars PROVE TypeOK'
  OBVIOUS
<1>1. CASE UNCHANGED vars
  BY <1>1 DEF vars, callVars, ctxVars, metrics, apiMetrics, toolMetrics,
     methodMetrics, IInv, TypeOK
<1>2. ASSUME NEW q \in Calls, Handle(q) PROVE TypeOK'
  BY <1>2, HandleTypeOK
<1>3. ASSUME NEW q \in Calls, Receive(q) \/ Cancel(q) \/ Expire(q) \/ Upstream(q)
      PROVE  TypeOK'
  BY <1>3, OthersTypeOK DEF IInv
<1>4. ASSUME NEW f \in Families, Gather(f) PROVE TypeOK'
  <2>1. FailedOf(f) \in Nat
    BY DEF IInv, TypeOK, FailedOf, Families, Routes, Paths
  <2>. QED
    BY <1>4, <2>1 DEF Gather, IInv, TypeOK, callVars, ctxVars, apiMetrics,
       toolMetrics, methodMetrics
<1>. QED  BY <1>1, <1>2, <1>3, <1>4 DEF Next, Terminated

LEMMA FamiliesNat ==
  ASSUME TypeOK, NEW f \in Families
  PROVE  FailedOf(f) \in Nat /\ CallsOf(f) \in Nat
  BY DEF TypeOK, FailedOf, CallsOf, Families, Routes, Paths

-----------------------------------------------------------------------------
(* A step of one call leaves every other call's variables alone.           *)

Mine(q) == <<stage[q], path[q], header[q], rt[q], wire[q], result[q], isError[q],
             cancelled[q]>>

LEMMA Apart ==
  ASSUME IInv, NEW p \in Calls, NEW q \in Calls, p # q,
         Handle(q) \/ Receive(q) \/ Cancel(q) \/ Expire(q) \/ Upstream(q)
  PROVE  Mine(p)' = Mine(p) /\ defaultRT' = Default
<1> USE DEF IInv, TypeOK, Mine, Goto, callVars, ctxVars, metrics, apiMetrics,
        toolMetrics, methodMetrics
<1>1. CASE Handle(q)
  <2>1. CASE Reject(q)           BY <2>1 DEF Reject
  <2>2. CASE GetAPIClient(q)     BY <2>2 DEF GetAPIClient, UseClient
  <2>3. CASE Send(q)             BY <2>3 DEF Send
  <2>4. CASE GiveUp(q)           BY <2>4 DEF GiveUp, Lose
  <2>5. CASE ReturnLost(q)       BY <2>5 DEF ReturnLost
  <2>6. CASE ObserveAPI(q)       BY <2>6 DEF ObserveAPI
  <2>7. CASE CountAPIFailure(q)  BY <2>7 DEF CountAPIFailure
  <2>8. CASE APISucceeded(q)     BY <2>8 DEF APISucceeded
  <2>9. CASE FormatOutput(q)     BY <2>9 DEF FormatOutput
  <2>10. CASE ReadBodyFails(q)   BY <2>10 DEF ReadBodyFails, Lose
  <2>11. CASE ObserveTool(q)     BY <2>11 DEF ObserveTool
  <2>12. CASE CountFailure(q)    BY <2>12 DEF CountFailure
  <2>13. CASE Answer(q)          BY <2>13 DEF Answer
  <2>14. CASE ObserveMethod(q)   BY <2>14 DEF ObserveMethod
  <2>15. CASE CountMethodFailure(q)  BY <2>15 DEF CountMethodFailure
  <2>. QED
    BY <1>1, <2>1, <2>2, <2>3, <2>4, <2>5, <2>6, <2>7, <2>8, <2>9, <2>10, <2>11,
       <2>12, <2>13, <2>14, <2>15 DEF Handle
<1>2. CASE Receive(q)        BY <1>2 DEF Receive
<1>3. CASE Cancel(q)         BY <1>3 DEF Cancel
<1>4. CASE Expire(q)         BY <1>4 DEF Expire
<1>5. CASE Upstream(q)
  <2>1. CASE Respond(q)        BY <2>1 DEF Respond
  <2>2. CASE Break(q)          BY <2>2 DEF Break, Lose
  <2>3. CASE ReadBody(q)       BY <2>3 DEF ReadBody
  <2>4. CASE ReadBodyFails(q)  BY <2>4 DEF ReadBodyFails, Lose
  <2>. QED  BY <1>5, <2>1, <2>2, <2>3, <2>4 DEF Upstream
<1>. QED  BY <1>1, <1>2, <1>3, <1>4, <1>5

(* What a step of call q does to q itself.                                 *)

LEMMA OwnStep ==
  ASSUME IInv, NEW q \in Calls,
         Handle(q) \/ Receive(q) \/ Cancel(q) \/ Expire(q) \/ Upstream(q)
  PROVE  CredentialOK(q)' /\ ResultOK(q)' /\ defaultRT' = Default
<1> USE CredAssumption
    DEF IInv, TypeOK, CredentialOK, ResultOK, Credential, Goto, callVars, ctxVars,
        metrics, apiMetrics, toolMetrics, methodMetrics, Routes, Paths
<1>1. CASE Handle(q)
  <2>1. CASE Reject(q)           BY <2>1 DEF Reject
  <2>2. CASE GetAPIClient(q)     BY <2>2 DEF GetAPIClient, UseClient, OwnOrDefault
  <2>3. CASE Send(q)             BY <2>3 DEF Send
  <2>4. CASE GiveUp(q)           BY <2>4 DEF GiveUp, Lose
  <2>5. CASE ReturnLost(q)       BY <2>5 DEF ReturnLost
  <2>6. CASE ObserveAPI(q)       BY <2>6 DEF ObserveAPI
  <2>7. CASE CountAPIFailure(q)  BY <2>7 DEF CountAPIFailure
  <2>8. CASE APISucceeded(q)     BY <2>8 DEF APISucceeded
  <2>9. CASE FormatOutput(q)     BY <2>9 DEF FormatOutput
  <2>10. CASE ReadBodyFails(q)   BY <2>10 DEF ReadBodyFails, Lose
  <2>11. CASE ObserveTool(q)     BY <2>11 DEF ObserveTool
  <2>12. CASE CountFailure(q)    BY <2>12 DEF CountFailure
  <2>13. CASE Answer(q)          BY <2>13 DEF Answer
  <2>14. CASE ObserveMethod(q)   BY <2>14 DEF ObserveMethod
  <2>15. CASE CountMethodFailure(q)  BY <2>15 DEF CountMethodFailure
  <2>. QED
    BY <1>1, <2>1, <2>2, <2>3, <2>4, <2>5, <2>6, <2>7, <2>8, <2>9, <2>10, <2>11,
       <2>12, <2>13, <2>14, <2>15 DEF Handle
<1>2. CASE Receive(q)        BY <1>2 DEF Receive
<1>3. CASE Cancel(q)         BY <1>3 DEF Cancel
<1>4. CASE Expire(q)         BY <1>4 DEF Expire
<1>5. CASE Upstream(q)
  <2>1. CASE Respond(q)        BY <2>1 DEF Respond
  <2>2. CASE Break(q)          BY <2>2 DEF Break, Lose
  <2>3. CASE ReadBody(q)       BY <2>3 DEF ReadBody
  <2>4. CASE ReadBodyFails(q)  BY <2>4 DEF ReadBodyFails, Lose
  <2>. QED  BY <1>5, <2>1, <2>2, <2>3, <2>4 DEF Upstream
<1>. QED  BY <1>1, <1>2, <1>3, <1>4, <1>5

-----------------------------------------------------------------------------
(* The counters.  A step of call q moves nobody but q into or out of the   *)
(* sets that are counted.                                                  *)

Moved(q, S, T) ==
  /\ Cardinality(S) \in Nat /\ Cardinality(T) \in Nat
  /\ (q \in S <=> q \in T) => Cardinality(T) = Cardinality(S)
  /\ q \notin S /\ q \in T => Cardinality(T) = Cardinality(S) + 1
  /\ q \in S /\ q \notin T => Cardinality(S) = Cardinality(T) + 1

LEMMA OneMoves ==
  ASSUME NEW S \in SUBSET Calls, NEW T \in SUBSET Calls, NEW q \in Calls,
         \A p \in Calls : p # q => (p \in S <=> p \in T)
  PROVE  Moved(q, S, T)
<1>1. IsFiniteSet(S) /\ IsFiniteSet(T)
  BY CallsAssumption, FS_Subset
<1>2. Cardinality(S) \in Nat /\ Cardinality(T) \in Nat
  BY <1>1, FS_CardinalityType
<1>3. (q \in S <=> q \in T) => S = T
  OBVIOUS
<1>4. ASSUME q \notin S, q \in T PROVE Cardinality(T) = Cardinality(S) + 1
  <2>1. T = S \cup {q}
    BY <1>4
  <2>. QED  BY <2>1, <1>1, <1>4, FS_AddElement
<1>5. ASSUME q \in S, q \notin T PROVE Cardinality(S) = Cardinality(T) + 1
  <2>1. S = T \cup {q}
    BY <1>5
  <2>. QED  BY <2>1, <1>1, <1>5, FS_AddElement
<1>. QED  BY <1>2, <1>3, <1>4, <1>5 DEF Moved

LEMMA Moves ==
  ASSUME IInv, NEW q \in Calls,
         Handle(q) \/ Receive(q) \/ Cancel(q) \/ Expire(q) \/ Upstream(q)
  PROVE  /\ Moved(q, Measured(Paths), Measured(Paths)')
         /\ Moved(q, Measured({"method"}), Measured({"method"})')
         /\ Moved(q, ToolErrors, ToolErrors')
         /\ Moved(q, MethodErrors, MethodErrors')
         /\ Moved(q, FailedOn("client"), FailedOn("client")')
         /\ \A p \in Paths : Moved(q, Observed(p), Observed(p)')
<1>1. ASSUME NEW p \in Calls, p # q PROVE Mine(p)' = Mine(p)
  BY <1>1, Apart
<1>2. ASSUME NEW P \in {Paths, {"method"}}
      PROVE  Moved(q, Measured(P), Measured(P)')
  <2>1. \A p \in Calls : p # q => (p \in Measured(P) <=> p \in Measured(P)')
    BY <1>1 DEF Measured, Mine
  <2>2. Measured(P) \in SUBSET Calls /\ Measured(P)' \in SUBSET Calls
    BY DEF Measured
  <2>. QED  BY <2>1, <2>2, OneMoves
<1>3. Moved(q, ToolErrors, ToolErrors')
  <2>1. \A p \in Calls : p # q => (p \in ToolErrors <=> p \in ToolErrors')
    BY <1>1 DEF ToolErrors, Done, Mine
  <2>2. ToolErrors \in SUBSET Calls /\ ToolErrors' \in SUBSET Calls
    BY DEF ToolErrors
  <2>. QED  BY <2>1, <2>2, OneMoves
<1>4. Moved(q, MethodErrors, MethodErrors')
  <2>1. \A p \in Calls : p # q => (p \in MethodErrors <=> p \in MethodErrors')
    BY <1>1 DEF MethodErrors, Done, Mine
  <2>2. MethodErrors \in SUBSET Calls /\ MethodErrors' \in SUBSET Calls
    BY DEF MethodErrors
  <2>. QED  BY <2>1, <2>2, OneMoves
<1>5. Moved(q, FailedOn("client"), FailedOn("client")')
  <2>1. \A p \in Calls :
          p # q => (p \in FailedOn("client") <=> p \in FailedOn("client")')
    BY <1>1 DEF FailedOn, Mine
  <2>2. FailedOn("client") \in SUBSET Calls /\ FailedOn("client")' \in SUBSET Calls
    BY DEF FailedOn
  <2>. QED  BY <2>1, <2>2, OneMoves
<1>6. ASSUME NEW r \in Paths PROVE Moved(q, Observed(r), Observed(r)')
  <2>1. \A p \in Calls : p # q => (p \in Observed(r) <=> p \in Observed(r)')
    BY <1>1 DEF Observed, Mine
  <2>2. Observed(r) \in SUBSET Calls /\ Observed(r)' \in SUBSET Calls
    BY DEF Observed
  <2>. QED  BY <2>1, <2>2, OneMoves
<1>. QED  BY <1>2, <1>3, <1>4, <1>5, <1>6

(* What a step of call q does to the counters: each of them moves as q     *)
(* moves into or out of the set it counts.                                 *)

Matches(q, S, T, n, m) ==
  /\ (q \in S <=> q \in T) => m = n
  /\ q \notin S /\ q \in T => m = n + 1
  /\ ~(q \in S /\ q \notin T)

Tallied(q) ==
  /\ Matches(q, Measured(Paths), Measured(Paths)', toolCalls, toolCalls')
  /\ Matches(q, Measured({"method"}), Measured({"method"})', methodCalls, methodCalls')
  /\ Matches(q, ToolErrors, ToolErrors', toolFailed, toolFailed')
  /\ Matches(q, MethodErrors, MethodErrors', methodFailed, methodFailed')
  /\ Matches(q, FailedOn("client"), FailedOn("client")', apiFailed["client"],
             apiFailed'["client"])

\* No call fails without leaving the observed ones, or is observed unseen.
Ordered(q) ==
  \A p \in Paths :
    \/ /\ q \in Observed(p)' => q \in Observed(p)
       /\ apiFailed'[p] = apiFailed[p] /\ apiCalls'[p] = apiCalls[p]
    \/ /\ q \in Observed(p) /\ q \notin Observed(p)'
       /\ apiFailed'[p] = apiFailed[p] + 1 /\ apiCalls'[p] = apiCalls[p]
    \/ /\ q \notin Observed(p) /\ q \in Observed(p)'
       /\ apiFailed'[p] = apiFailed[p] /\ apiCalls'[p] = apiCalls[p] + 1

\* Failures are only ever added to; nothing is scraped.
FailuresGrow ==
  /\ scraped' = scraped
  /\ toolFailed' \in {toolFailed, toolFailed + 1}
  /\ methodFailed' \in {methodFailed, methodFailed + 1}
  /\ \A p \in Paths : apiFailed'[p] \in {apiFailed[p], apiFailed[p] + 1}

LEMMA Tallies ==
  ASSUME IInv, NEW q \in Calls,
         Handle(q) \/ Receive(q) \/ Cancel(q) \/ Expire(q) \/ Upstream(q)
  PROVE  Tallied(q) /\ Ordered(q) /\ FailuresGrow
<1> USE DEF IInv, TypeOK, ResultOK, Tallied, Ordered, FailuresGrow, Matches, Measured, ToolErrors,
        MethodErrors, FailedOn, Observed, Done, Goto, callVars, ctxVars, metrics,
        apiMetrics, toolMetrics, methodMetrics, Paths, Routes, Results
<1>1. CASE Handle(q)
  <2>1. CASE Reject(q)            BY <2>1 DEF Reject
  <2>2. CASE Answer(q)            BY <2>2 DEF Answer
  <2>3. CASE GetAPIClient(q)      BY <2>3 DEF GetAPIClient, UseClient
  <2>4. CASE Send(q)              BY <2>4 DEF Send
  <2>5. CASE GiveUp(q)            BY <2>5 DEF GiveUp, Lose
  <2>6. CASE ReturnLost(q)        BY <2>6 DEF ReturnLost
  <2>7. CASE ObserveAPI(q)        BY <2>7 DEF ObserveAPI
  <2>8. CASE CountAPIFailure(q)   BY <2>8 DEF CountAPIFailure
  <2>9. CASE APISucceeded(q)      BY <2>9 DEF APISucceeded
  <2>10. CASE FormatOutput(q)     BY <2>10 DEF FormatOutput
  <2>11. CASE ReadBodyFails(q)    BY <2>11 DEF ReadBodyFails, Lose
  <2>12. CASE ObserveTool(q)      BY <2>12 DEF ObserveTool
  <2>13. CASE CountFailure(q)     BY <2>13 DEF CountFailure
  <2>14. CASE ObserveMethod(q)    BY <2>14 DEF ObserveMethod
  <2>15. CASE CountMethodFailure(q) BY <2>15 DEF CountMethodFailure
  <2>. QED
    BY <1>1, <2>1, <2>2, <2>3, <2>4, <2>5, <2>6, <2>7, <2>8,
       <2>9, <2>10, <2>11, <2>12, <2>13, <2>14, <2>15 DEF Handle
<1>2. CASE Receive(q)        BY <1>2 DEF Receive
<1>3. CASE Cancel(q)         BY <1>3 DEF Cancel
<1>4. CASE Expire(q)         BY <1>4 DEF Expire
<1>5. CASE Upstream(q)
  <2>1. CASE Respond(q)      BY <2>1 DEF Respond
  <2>2. CASE Break(q)        BY <2>2 DEF Break, Lose
  <2>3. CASE ReadBody(q)     BY <2>3 DEF ReadBody
  <2>4. CASE ReadBodyFails(q) BY <2>4 DEF ReadBodyFails, Lose
  <2>. QED  BY <1>5, <2>1, <2>2, <2>3, <2>4 DEF Upstream
<1>. QED  BY <1>1, <1>2, <1>3, <1>4, <1>5

LEMMA Count ==
  ASSUME NEW q, NEW S, NEW T, NEW n, NEW m,
         Moved(q, S, T), Matches(q, S, T, n, m), n = Cardinality(S)
  PROVE  m = Cardinality(T)
  BY DEF Moved, Matches

LEMMA CountersKept ==
  ASSUME IInv, TypeOK', NEW q \in Calls,
         Handle(q) \/ Receive(q) \/ Cancel(q) \/ Expire(q) \/ Upstream(q)
  PROVE  CountersOK'
<1>1. Tallied(q) /\ Ordered(q) /\ FailuresGrow
  BY Tallies
<1>2. ErrorsCounted /\ ClientFailuresCounted
  BY DEF IInv, CountersOK
<1>3. toolCalls' = Cardinality(Measured(Paths)')
  BY <1>1, <1>2, Moves, Count DEF Tallied, ErrorsCounted
<1>4. methodCalls' = Cardinality(Measured({"method"})')
  BY <1>1, <1>2, Moves, Count DEF Tallied, ErrorsCounted
<1>5. toolFailed' = Cardinality(ToolErrors')
  BY <1>1, <1>2, Moves, Count DEF Tallied, ErrorsCounted
<1>6. methodFailed' = Cardinality(MethodErrors')
  BY <1>1, <1>2, Moves, Count DEF Tallied, ErrorsCounted
<1>7. apiFailed'["client"] = Cardinality(FailedOn("client")')
  BY <1>1, <1>2, Moves, Count DEF Tallied, ClientFailuresCounted
<1>8. ASSUME NEW p \in Paths
      PROVE  apiFailed'[p] + Cardinality(Observed(p)') <= apiCalls'[p]
  <2>1. apiFailed[p] \in Nat /\ apiCalls[p] \in Nat
    BY DEF IInv, TypeOK
  <2>2. apiFailed[p] + Cardinality(Observed(p)) <= apiCalls[p]
    BY DEF IInv, CountersOK
  <2>3. Moved(q, Observed(p), Observed(p)')
    BY Moves
  <2>. QED  BY <1>1, <2>1, <2>2, <2>3 DEF Ordered, Moved
<1>9. ASSUME NEW f \in Families PROVE scraped'[f] <= FailedOf(f)'
  <2>1. scraped[f] <= FailedOf(f) /\ scraped[f] \in Nat
    BY DEF IInv, CountersOK, TypeOK
  <2>2. FailedOf(f) <= FailedOf(f)'
    BY <1>1, <1>9 DEF FailuresGrow, FailedOf, IInv, TypeOK, Families, Routes, Paths
  <2>3. FailedOf(f) \in Nat /\ FailedOf(f)' \in Nat
    BY <1>9 DEF IInv, TypeOK, FailedOf, Families, Routes, Paths
  <2>. QED  BY <1>1, <2>1, <2>2, <2>3 DEF FailuresGrow
<1>. QED
  BY <1>3, <1>4, <1>5, <1>6, <1>7, <1>8, <1>9
     DEF CountersOK, ErrorsCounted, ClientFailuresCounted

\* A scrape reads what is there.
LEMMA GatherIInv ==
  ASSUME IInv, TypeOK', NEW f \in Families, Gather(f)
  PROVE  IInv'
<1> USE DEF Gather, callVars, ctxVars, apiMetrics, toolMetrics, methodMetrics
<1>1. ErrorsCounted' /\ ClientFailuresCounted'
  BY DEF IInv, CountersOK, ErrorsCounted, ClientFailuresCounted, Measured,
     ToolErrors, MethodErrors, FailedOn, Done
<1>2. \A p \in Paths : apiFailed'[p] + Cardinality(Observed(p)') <= apiCalls'[p]
  BY DEF IInv, CountersOK, Observed
<1>3. ASSUME NEW g \in Families PROVE scraped'[g] <= FailedOf(g)'
  <2>1. FailedOf(g)' = FailedOf(g) /\ FailedOf(g) \in Nat
    BY FamiliesNat DEF IInv, FailedOf
  <2>2. scraped[g] <= FailedOf(g)
    BY DEF IInv, CountersOK
  <2>3. scraped'[g] \in {scraped[g], FailedOf(g)}
    BY DEF IInv, TypeOK
  <2>. QED  BY <2>1, <2>2, <2>3
<1>4. CountersOK'
  BY <1>1, <1>2, <1>3 DEF CountersOK
<1>5. \A p \in Calls : CredentialOK(p)' /\ ResultOK(p)'
  BY DEF IInv, CredentialOK, ResultOK, Credential
<1>. QED  BY <1>4, <1>5 DEF IInv

LEMMA NextIInv == IInv /\ [Next]_vars => IInv'
<1> SUFFICES ASSUME IInv, [Next]_vars PROVE IInv'
  OBVIOUS
<1>1. TypeOK'
  BY NextTypeOK
<1>2. CASE UNCHANGED vars
  <2>1. CountersOK'
    BY <1>2 DEF vars, callVars, ctxVars, metrics, apiMetrics, toolMetrics,
       methodMetrics, IInv, CountersOK, ErrorsCounted, ClientFailuresCounted,
       Measured, ToolErrors, MethodErrors, FailedOn, Observed, Done, FailedOf
  <2>2. \A p \in Calls : CredentialOK(p)' /\ ResultOK(p)'
    BY <1>2 DEF vars, callVars, IInv, CredentialOK, ResultOK, Credential
  <2>. QED  BY <1>1, <1>2, <2>1, <2>2 DEF vars, IInv
<1>3. ASSUME NEW q \in Calls,
             Handle(q) \/ Receive(q) \/ Cancel(q) \/ Expire(q) \/ Upstream(q)
      PROVE  IInv'
  <2>1. defaultRT' = Default /\ CredentialOK(q)' /\ ResultOK(q)'
    BY <1>3, OwnStep
  <2>2. ASSUME NEW p \in Calls, p # q PROVE CredentialOK(p)' /\ ResultOK(p)'
    <3>1. Mine(p)' = Mine(p)
      BY <1>3, <2>2, Apart
    <3>. QED  BY <3>1 DEF IInv, Mine, CredentialOK, ResultOK, Credential
  <2>3. CountersOK'
    BY <1>1, <1>3, CountersKept
  <2>. QED  BY <1>1, <2>1, <2>2, <2>3 DEF IInv
<1>4. ASSUME NEW f \in Families, Gather(f) PROVE IInv'
  BY <1>1, <1>4, GatherIInv
<1>. QED  BY <1>2, <1>3, <1>4 DEF Next, Terminated

\* The inductive invariant holds in every reachable state.
THEOREM Invariance == Spec => []IInv
  BY InitIInv, NextIInv, PTL DEF Spec

\* However many clients with whatever credentials call at once, what
\* Prometheus is sent for a call is that call's credential.
THEOREM OwnCredentials == Spec => []CredentialsKept
<1>1. IInv => CredentialsKept
  BY DEF IInv, CredentialOK, Credential, CredentialsKept
<1>. QED  BY <1>1, Invariance, PTL

\* A success told to a client is one Prometheus answered to its own request.
THEOREM SuccessesAreUpstreams == Spec => []SuccessIsUpstream
<1>1. IInv => SuccessIsUpstream
  BY DEF IInv, ResultOK, SuccessIsUpstream, Done
<1>. QED  BY <1>1, Invariance, PTL

\* The counters of calls and failures are exactly the requests measured and
\* the errors among them that count, however the requests interleave.
THEOREM ErrorsCountedExactly == Spec => []ErrorsCounted
<1>1. IInv => ErrorsCounted
  BY DEF IInv, CountersOK
<1>. QED  BY <1>1, Invariance, PTL

\* Every API call that failed through the client library is counted, once.
THEOREM ClientFailuresAllCounted == Spec => []ClientFailuresCounted
<1>1. IInv => ClientFailuresCounted
  BY DEF IInv, CountersOK
<1>. QED  BY <1>1, Invariance, PTL

LEMMA Fewer ==
  ASSUME NEW S \in SUBSET Calls, NEW T \in SUBSET S
  PROVE  Cardinality(T) <= Cardinality(S)
  BY CallsAssumption, FS_Subset

\* The failures a scrape has read are never more than the calls it reads
\* after them or that a later scrape reads, for any number of calls under way.
THEOREM FailuresAreBacked == Spec => []FailuresBacked
<1>1. ASSUME IInv, NEW f \in Families PROVE FailedOf(f) <= CallsOf(f)
  <2>1. ErrorsCounted
    BY <1>1 DEF IInv, CountersOK
  <2>2. CASE f = "tool"
    <3>1. Measured(Paths) \in SUBSET Calls /\ ToolErrors \in SUBSET Measured(Paths)
      BY DEF Measured, ToolErrors, Done
    <3>. QED  BY <2>1, <2>2, <3>1, Fewer DEF ErrorsCounted, FailedOf, CallsOf
  <2>3. CASE f = "method"
    <3>1. /\ Measured({"method"}) \in SUBSET Calls
          /\ MethodErrors \in SUBSET Measured({"method"})
      BY DEF Measured, MethodErrors, Done
    <3>. QED  BY <2>1, <2>3, <3>1, Fewer DEF ErrorsCounted, FailedOf, CallsOf
  <2>4. CASE f \in Paths
    <3>1. FailedOf(f) = apiFailed[f] /\ CallsOf(f) = apiCalls[f]
      BY <2>4 DEF FailedOf, CallsOf, Paths
    <3>2. apiFailed[f] \in Nat /\ apiCalls[f] \in Nat
      BY <1>1, <2>4 DEF IInv, TypeOK
    <3>3. apiFailed[f] + Cardinality(Observed(f)) <= apiCalls[f]
      BY <1>1, <2>4 DEF IInv, CountersOK
    <3>4. Cardinality(Observed(f)) \in Nat
      BY CallsAssumption, FS_Subset, FS_CardinalityType DEF Observed
    <3>. QED  BY <3>1, <3>2, <3>3, <3>4
  <2>. QED  BY <2>2, <2>3, <2>4 DEF Families, Routes
<1>2. ASSUME IInv PROVE FailuresBacked
  <2>1. ASSUME NEW f \in Families PROVE scraped[f] <= CallsOf(f)
    <3>1. scraped[f] \in Nat /\ FailedOf(f) \in Nat /\ CallsOf(f) \in Nat
      BY <1>2, FamiliesNat DEF IInv, TypeOK
    <3>2. scraped[f] <= FailedOf(f)
      BY <1>2 DEF IInv, CountersOK
    <3>. QED  BY <3>1, <3>2, <1>1, <1>2
  <2>. QED  BY <2>1 DEF FailuresBacked
<1>. QED  BY <1>2, Invariance, PTL

\* Type correctness: every variable keeps its type, the counters of calls and
\* failures included.
THEOREM TypeCorrect == Spec => []TypeOK
<1>1. IInv => TypeOK
  BY DEF IInv
<1>. QED  BY <1>1, Invariance, PTL

=============================================================================
