--------------------------- MODULE Lifecycle_proofs ---------------------------
(***************************************************************************)
(* Proofs about Lifecycle: readiness of the http transport follows the     *)
(* mounted handler, the group waits for everybody, and the exit status is  *)
(* that of the actor that ended the process.                               *)
(***************************************************************************)
EXTENDS Lifecycle, FiniteSetTheorems, TLAPS

USE DEF flags, readyVars, probeVars, groupVars

Returns   == \/ SignalCaught \/ SignalCancelled \/ WebFails \/ WebReturns
             \/ McpUnsupported \/ StdioEnds \/ McpStops \/ UpdaterStops
GoesOn    == \/ WebBinds \/ WebClosed \/ McpStarts \/ McpReadyStore
             \/ McpReadyMetric \/ UpdateOver \/ UpdaterTicks
ProbeStep == ProbeAccepted \/ HandleReady

LEMMA NextSteps ==
  ASSUME [Next]_vars
  PROVE  Returns \/ GoesOn \/ Interrupt \/ ProbeStep \/ UNCHANGED vars
  BY DEF Next, Work, Environment, Terminated, Returns, GoesOn, ProbeStep

LEMMA FiniteActors ==
  ASSUME NEW S \in SUBSET Actors
  PROVE  IsFiniteSet(S) /\ Cardinality(S) \in Nat
<1>1. IsFiniteSet(Actors)
  <2>1. IsFiniteSet({"signal"})
    <3>1. {"signal"} = {} \cup {"signal"}
      OBVIOUS
    <3>. QED  BY <3>1, FS_EmptySet, FS_AddElement
  <2>2. IsFiniteSet({"signal"} \cup {"web"})
    BY <2>1, FS_AddElement
  <2>3. IsFiniteSet(({"signal"} \cup {"web"}) \cup {"mcp"})
    BY <2>2, FS_AddElement
  <2>4. IsFiniteSet((({"signal"} \cup {"web"}) \cup {"mcp"}) \cup {"updater"})
    BY <2>3, FS_AddElement
  <2>5. Actors = (({"signal"} \cup {"web"}) \cup {"mcp"}) \cup {"updater"}
    BY DEF Actors
  <2>. QED  BY <2>4, <2>5
<1>. QED  BY <1>1, FS_Subset, FS_CardinalityType

LEMMA InitIInv == Init => IInv
<1> SUFFICES ASSUME Init PROVE IInv
  OBVIOUS
<1>1. TypeOK
  <2>1. apc \in [Actors -> ActorPCs]
    BY DEF Init, ActorPCs, Actors
  <2>2. DataOK
    BY <2>1 DEF Init, DataOK, GroupPCs
  <2>3. FlagsOK
    BY DEF Init, FlagsOK
  <2>. QED  BY <2>2, <2>3 DEF TypeOK
<1>2. Returned = {}
  BY DEF Init, Returned, Actors
<1>3. ResultsOK
  BY <1>2, FS_EmptySet DEF Init, ResultsOK
<1>. QED
  BY <1>1, <1>3 DEF Init, IInv, PhasesOK, ReadyMeansMounted

-----------------------------------------------------------------------------
(* Type correctness.                                                       *)

LEMMA StepDataOK ==
  ASSUME DataOK, [Next]_vars
  PROVE  DataOK'
<1>0. {"signal", "web", "mcp", "updater"} \subseteq Actors
  BY DEF Actors
<1> USE <1>0 DEF DataOK, ActorPCs, GroupPCs, Goto, Return, GroupStep
<1>1. CASE SignalCaught         BY <1>1 DEF SignalCaught
<1>2. CASE SignalCancelled      BY <1>2 DEF SignalCancelled
<1>3. CASE WebFails             BY <1>3 DEF WebFails
<1>4. CASE WebReturns           BY <1>4 DEF WebReturns
<1>5. CASE McpUnsupported       BY <1>5 DEF McpUnsupported
<1>6. CASE StdioEnds            BY <1>6 DEF StdioEnds
<1>7. CASE McpStops
  <2>1. Return("mcp", TRUE) \/ Return("mcp", FALSE)
    BY <1>7 DEF McpStops
  <2>2. CASE Return("mcp", TRUE)   BY <2>2
  <2>3. CASE Return("mcp", FALSE)  BY <2>3
  <2>. QED  BY <2>1, <2>2, <2>3
<1>8. CASE UpdaterStops         BY <1>8 DEF UpdaterStops
<1>9. CASE WebBinds             BY <1>9 DEF WebBinds
<1>10. CASE WebClosed           BY <1>10 DEF WebClosed
<1>11. CASE McpStarts           BY <1>11 DEF McpStarts
<1>12. CASE McpReadyStore       BY <1>12 DEF McpReadyStore
<1>13. CASE McpReadyMetric      BY <1>13 DEF McpReadyMetric
<1>14. CASE UpdateOver          BY <1>14 DEF UpdateOver
<1>15. CASE UpdaterTicks        BY <1>15 DEF UpdaterTicks
<1>16. CASE FirstResult         BY <1>16 DEF FirstResult
<1>17. CASE InterruptSignal     BY <1>17 DEF InterruptSignal, Cancel
<1>18. CASE InterruptWeb        BY <1>18 DEF InterruptWeb
<1>19. CASE WebDrained          BY <1>19 DEF WebDrained, Cancel
<1>20. CASE InterruptMcp        BY <1>20 DEF InterruptMcp
<1>21. CASE McpUnreadyMetric    BY <1>21 DEF McpUnreadyMetric
<1>22. CASE CancelMcp           BY <1>22 DEF CancelMcp, Cancel
<1>23. CASE InterruptUpdater    BY <1>23 DEF InterruptUpdater, Cancel
<1>24. CASE Exit                BY <1>24 DEF Exit
<1>25. CASE ProbeAccepted       BY <1>25 DEF ProbeAccepted
<1>26. CASE HandleReady         BY <1>26 DEF HandleReady
<1>27. CASE UNCHANGED vars      BY <1>27 DEF vars
<1>. QED
  BY NextSteps, <1>1, <1>2, <1>3, <1>4, <1>5, <1>6, <1>7, <1>8, <1>9, <1>10, <1>11,
     <1>12, <1>13, <1>14, <1>15, <1>16, <1>17, <1>18, <1>19, <1>20,
     <1>21, <1>22, <1>23, <1>24, <1>25, <1>26, <1>27
     DEF Returns, GoesOn, Interrupt, ProbeStep

LEMMA StepFlagsOK ==
  ASSUME FlagsOK, [Next]_vars
  PROVE  FlagsOK'
<1> USE DEF FlagsOK, Goto, Return, GroupStep
<1>1. CASE SignalCaught         BY <1>1 DEF SignalCaught
<1>2. CASE SignalCancelled      BY <1>2 DEF SignalCancelled
<1>3. CASE WebFails             BY <1>3 DEF WebFails
<1>4. CASE WebReturns           BY <1>4 DEF WebReturns
<1>5. CASE McpUnsupported       BY <1>5 DEF McpUnsupported
<1>6. CASE StdioEnds            BY <1>6 DEF StdioEnds
<1>7. CASE McpStops             BY <1>7 DEF McpStops
<1>8. CASE UpdaterStops         BY <1>8 DEF UpdaterStops
<1>9. CASE WebBinds             BY <1>9 DEF WebBinds
<1>10. CASE WebClosed           BY <1>10 DEF WebClosed
<1>11. CASE McpStarts           BY <1>11 DEF McpStarts
<1>12. CASE McpReadyStore       BY <1>12 DEF McpReadyStore
<1>13. CASE McpReadyMetric      BY <1>13 DEF McpReadyMetric
<1>14. CASE UpdateOver          BY <1>14 DEF UpdateOver
<1>15. CASE UpdaterTicks        BY <1>15 DEF UpdaterTicks
<1>16. CASE FirstResult         BY <1>16 DEF FirstResult
<1>17. CASE InterruptSignal     BY <1>17 DEF InterruptSignal, Cancel
<1>18. CASE InterruptWeb        BY <1>18 DEF InterruptWeb
<1>19. CASE WebDrained          BY <1>19 DEF WebDrained, Cancel
<1>20. CASE InterruptMcp        BY <1>20 DEF InterruptMcp
<1>21. CASE McpUnreadyMetric    BY <1>21 DEF McpUnreadyMetric
<1>22. CASE CancelMcp           BY <1>22 DEF CancelMcp, Cancel
<1>23. CASE InterruptUpdater    BY <1>23 DEF InterruptUpdater, Cancel
<1>24. CASE Exit                BY <1>24 DEF Exit
<1>25. CASE ProbeAccepted       BY <1>25 DEF ProbeAccepted
<1>26. CASE HandleReady         BY <1>26 DEF HandleReady
<1>27. CASE UNCHANGED vars      BY <1>27 DEF vars
<1>. QED
  BY NextSteps, <1>1, <1>2, <1>3, <1>4, <1>5, <1>6, <1>7, <1>8, <1>9, <1>10, <1>11,
     <1>12, <1>13, <1>14, <1>15, <1>16, <1>17, <1>18, <1>19, <1>20,
     <1>21, <1>22, <1>23, <1>24, <1>25, <1>26, <1>27
     DEF Returns, GoesOn, Interrupt, ProbeStep

LEMMA StepTypeOK == TypeOK /\ [Next]_vars => TypeOK'
  BY StepDataOK, StepFlagsOK DEF TypeOK

-----------------------------------------------------------------------------
(* An actor returns: one more result, behind the first.                    *)

\* What the actors that return have in common.
LEMMA Returning ==
  ASSUME IInv, Returns
  PROVE  \E a \in Group, err \in BOOLEAN :
           /\ apc[a] # "returned" /\ Return(a, err)
           /\ results = <<>> => /\ a # "updater"
                                /\ a = "signal" => err = FALSE
                                /\ a = "web" => err = TRUE
<1> USE DEF IInv, ResultsOK, Group, Actors
<1>1. CASE SignalCaught
  <2>1. "signal" \in Group /\ apc["signal"] # "returned" /\ Return("signal", FALSE)
    BY <1>1 DEF SignalCaught
  <2>. QED  BY <2>1
<1>2. CASE SignalCancelled      BY <1>2 DEF SignalCancelled
<1>3. CASE WebFails
  <2>1. "web" \in Group /\ apc["web"] # "returned" /\ Return("web", TRUE)
    BY <1>3 DEF WebFails
  <2>. QED  BY <2>1
<1>4. CASE WebReturns           BY <1>4 DEF WebReturns
<1>5. CASE McpUnsupported       BY <1>5 DEF McpUnsupported
<1>6. CASE StdioEnds            BY <1>6 DEF StdioEnds
<1>7. CASE McpStops             BY <1>7 DEF McpStops
<1>8. CASE UpdaterStops         BY <1>8 DEF UpdaterStops
<1>. QED  BY <1>1, <1>2, <1>3, <1>4, <1>5, <1>6, <1>7, <1>8 DEF Returns

LEMMA ReturnIInv ==
  ASSUME IInv, NEW a \in Group, NEW err \in BOOLEAN, TypeOK',
         apc[a] # "returned", Return(a, err),
         results = <<>> => /\ a # "updater"
                           /\ a = "signal" => err = FALSE
                           /\ a = "web" => err = TRUE
  PROVE  IInv'
<1>1. a \in Actors /\ Group \subseteq Actors
  BY DEF Group
<1>2. /\ apc' = [apc EXCEPT ![a] = "returned"]
      /\ results' = Append(results, [actor |-> a, err |-> err])
      /\ UNCHANGED <<flags, groupVars, mounted, readyVars, probeVars>>
  BY DEF Return
<1>3. TypeOK /\ ResultsOK /\ PhasesOK
  BY DEF IInv
<1>4. Group' = Group
  BY <1>2 DEF Group
<1>5. Returned' = Returned \cup {a} /\ a \notin Returned
  BY <1>1, <1>2, <1>3 DEF Returned, TypeOK, DataOK
<1>6. Cardinality(Returned') = Cardinality(Returned) + 1
  <2>1. IsFiniteSet(Returned)
    BY FiniteActors DEF Returned
  <2>. QED  BY <1>5, <2>1, FS_AddElement
<1>7. results \in Seq([actor : Actors, err : BOOLEAN])
  BY <1>3 DEF TypeOK, DataOK
<1>8. Len(results') = Len(results) + 1 /\ results' # <<>>
  BY <1>2, <1>7
<1>9. IF results = <<>> THEN results'[1] = [actor |-> a, err |-> err]
                        ELSE results'[1] = results[1]
  BY <1>2, <1>7
<1>10. ResultsOK'
  <2>1. Returned' \subseteq Group' /\ Len(results') = Cardinality(Returned')
    BY <1>3, <1>4, <1>5, <1>6, <1>8 DEF ResultsOK
  <2>2. /\ results'[1].actor # "updater"
        /\ results'[1].actor = "signal" => ~results'[1].err
        /\ results'[1].actor = "web" => results'[1].err
    <3>1. CASE results = <<>>
      <4>1. results'[1].actor = a /\ results'[1].err = err
        BY <1>9, <3>1
      <4>. QED  BY <3>1, <4>1
    <3>2. CASE results # <<>>
      BY <1>3, <1>9, <3>2 DEF ResultsOK
    <3>. QED  BY <3>1, <3>2
  <2>. QED  BY <1>2, <1>3, <1>8, <2>1, <2>2 DEF ResultsOK
<1>11. apc'["mcp"] = apc["mcp"] \/ apc'["mcp"] = "returned"
  BY <1>2, <1>3 DEF TypeOK, DataOK, Actors
<1>12. PhasesOK'
  BY <1>2, <1>3, <1>4, <1>5, <1>11 DEF PhasesOK
<1>. QED
  BY <1>2, <1>10, <1>12 DEF IInv, ReadyMeansMounted

-----------------------------------------------------------------------------
(* An actor moves on without returning.                                    *)

LEMMA GoingOn ==
  ASSUME IInv, GoesOn
  PROVE  /\ Returned' = Returned
         /\ UNCHANGED <<flags, results, groupVars>>
         /\ PhasesOK' /\ ReadyMeansMounted'
<1> USE DEF Goto
<1>0. apc \in [Actors -> ActorPCs]
  BY DEF IInv, TypeOK, DataOK
<1>1. UNCHANGED <<flags, results, groupVars>>
  BY DEF GoesOn, WebBinds, WebClosed, McpStarts, McpReadyStore, McpReadyMetric,
     UpdateOver, UpdaterTicks
<1>2. Returned' = Returned
  BY <1>0 DEF GoesOn, WebBinds, WebClosed, McpStarts, McpReadyStore, McpReadyMetric,
     UpdateOver, UpdaterTicks,
     Returned, Actors
<1>3. Group' = Group
  BY <1>1 DEF Group
<1>4. PhasesOK' /\ ReadyMeansMounted'
  <2> USE <1>0, <1>1, <1>2, <1>3
      DEF IInv, PhasesOK, ReadyMeansMounted, Actors, ActorPCs
  <2>1. CASE WebBinds             BY <2>1 DEF WebBinds
  <2>2. CASE WebClosed            BY <2>2 DEF WebClosed
  <2>3. CASE McpStarts
    <3>1. /\ apc["mcp"] = "start" /\ apc' = [apc EXCEPT !["mcp"] = "store"]
          /\ transport = "http" => mounted'
          /\ UNCHANGED readyVars
      BY <2>3 DEF McpStarts
    <3>2. apc'["mcp"] = "store"
      BY <3>1
    <3>. QED  BY <3>1, <3>2
  <2>4. CASE McpReadyStore        BY <2>4 DEF McpReadyStore
  <2>5. CASE McpReadyMetric
    <3>1. /\ apc["mcp"] = "metric" /\ apc' = [apc EXCEPT !["mcp"] = "running"]
          /\ UNCHANGED <<mounted, ready>>
      BY <2>5 DEF McpReadyMetric
    <3>2. apc'["mcp"] = "running"
      BY <3>1
    <3>. QED  BY <3>1, <3>2
  <2>6. CASE UpdateOver           BY <2>6 DEF UpdateOver
  <2>7. CASE UpdaterTicks         BY <2>7 DEF UpdaterTicks
  <2>. QED  BY <2>1, <2>2, <2>3, <2>4, <2>5, <2>6, <2>7 DEF GoesOn
<1>. QED  BY <1>1, <1>2, <1>4

LEMMA GoingOnIInv ==
  ASSUME IInv, TypeOK', GoesOn
  PROVE  IInv'
<1>1. Returned' = Returned /\ UNCHANGED <<flags, results, groupVars>> /\ Group' = Group
  BY GoingOn DEF Group
<1>2. ResultsOK'
  BY <1>1 DEF IInv, ResultsOK
<1>. QED  BY <1>2, GoingOn DEF IInv

-----------------------------------------------------------------------------
(* The group interrupts and collects.                                      *)

LEMMA InterruptIInv ==
  ASSUME IInv, TypeOK', Interrupt
  PROVE  IInv'
<1> USE DEF GroupStep, Cancel
<1>1. UNCHANGED <<flags, apc, results, mounted, probeVars>>
  BY DEF Interrupt, FirstResult, InterruptSignal, InterruptWeb, WebDrained,
     InterruptMcp, McpUnreadyMetric, CancelMcp, InterruptUpdater, Exit
<1>2. Returned' = Returned /\ Group' = Group
  BY <1>1 DEF Returned, Group
<1>3. TypeOK /\ ResultsOK /\ PhasesOK /\ ReadyMeansMounted
  BY DEF IInv
<1>4. gpc' # "running" /\ results # <<>>
  BY <1>3 DEF Interrupt, FirstResult, InterruptSignal, InterruptWeb, WebDrained,
     InterruptMcp, McpUnreadyMetric, CancelMcp, InterruptUpdater, Exit,
     ResultsOK
<1>5. ResultsOK'
  BY <1>1, <1>2, <1>3, <1>4 DEF ResultsOK
<1>6. ReadyMeansMounted'
  <2> USE <1>1, <1>3 DEF ReadyMeansMounted, PhasesOK
  <2>1. CASE FirstResult          BY <2>1 DEF FirstResult
  <2>2. CASE InterruptSignal      BY <2>2 DEF InterruptSignal
  <2>3. CASE InterruptWeb         BY <2>3 DEF InterruptWeb
  <2>4. CASE WebDrained           BY <2>4 DEF WebDrained
  <2>5. CASE InterruptMcp         BY <2>5 DEF InterruptMcp
  <2>6. CASE McpUnreadyMetric     BY <2>6 DEF McpUnreadyMetric
  <2>7. CASE CancelMcp            BY <2>7 DEF CancelMcp
  <2>8. CASE InterruptUpdater     BY <2>8 DEF InterruptUpdater
  <2>9. CASE Exit                 BY <2>9 DEF Exit
  <2>. QED  BY <2>1, <2>2, <2>3, <2>4, <2>5, <2>6, <2>7, <2>8, <2>9 DEF Interrupt
<1>7. PhasesOK'
  <2> USE <1>1, <1>2, <1>3 DEF PhasesOK
  <2>1. CASE FirstResult          BY <2>1 DEF FirstResult
  <2>2. CASE InterruptSignal      BY <2>2 DEF InterruptSignal
  <2>3. CASE InterruptWeb         BY <2>3 DEF InterruptWeb
  <2>4. CASE WebDrained           BY <2>4 DEF WebDrained
  <2>5. CASE InterruptMcp         BY <2>5 DEF InterruptMcp
  <2>6. CASE McpUnreadyMetric     BY <2>6 DEF McpUnreadyMetric
  <2>7. CASE CancelMcp            BY <2>7 DEF CancelMcp
  <2>8. CASE InterruptUpdater     BY <2>8 DEF InterruptUpdater
  <2>9. CASE Exit
    <3>1. Returned \subseteq Group /\ Cardinality(Returned) = Cardinality(Group)
      BY <2>9 DEF Exit, ResultsOK
    <3>2. IsFiniteSet(Group)
      BY FiniteActors DEF Group
    <3>3. Returned = Group
      BY <3>1, <3>2, FS_Subset
    <3>. QED  BY <2>9, <3>3 DEF Exit
  <2>. QED  BY <2>1, <2>2, <2>3, <2>4, <2>5, <2>6, <2>7, <2>8, <2>9 DEF Interrupt
<1>. QED  BY <1>5, <1>6, <1>7 DEF IInv

LEMMA NextIInv == IInv /\ [Next]_vars => IInv'
<1> SUFFICES ASSUME IInv, [Next]_vars PROVE IInv'
  OBVIOUS
<1>1. TypeOK'
  BY StepTypeOK DEF IInv
<1>2. CASE Returns
  <2>1. PICK a \in Group, err \in BOOLEAN :
          /\ apc[a] # "returned" /\ Return(a, err)
          /\ results = <<>> => /\ a # "updater"
                               /\ a = "signal" => err = FALSE
                               /\ a = "web" => err = TRUE
    BY <1>2, Returning
  <2>2. TypeOK' /\ apc[a] # "returned" /\ Return(a, err)
    BY <1>1, <2>1
  <2>3. results = <<>> => /\ a # "updater"
                          /\ a = "signal" => err = FALSE
                          /\ a = "web" => err = TRUE
    BY <2>1
  <2>. QED  BY <2>2, <2>3, ReturnIInv, Zenon
<1>3. CASE GoesOn
  BY <1>1, <1>3, GoingOnIInv
<1>4. CASE Interrupt
  BY <1>1, <1>4, InterruptIInv
<1>5. CASE ProbeStep \/ UNCHANGED vars
  <2>1. UNCHANGED <<flags, apc, results, groupVars, mounted, readyVars>>
    BY <1>5 DEF ProbeStep, ProbeAccepted, HandleReady, vars
  <2>2. code' = 200 => ready \/ code = 200
    BY <1>5 DEF ProbeStep, ProbeAccepted, HandleReady, vars
  <2>3. ReadyMeansMounted'
    BY <2>1, <2>2 DEF IInv, ReadyMeansMounted
  <2>. QED
    BY <1>1, <2>1, <2>3 DEF IInv, ResultsOK, PhasesOK, Returned, Group
<1>. QED  BY <1>2, <1>3, <1>4, <1>5, NextSteps

\* The inductive invariant holds in every reachable state.
THEOREM Invariance == Spec => []IInv
  BY InitIInv, NextIInv, PTL DEF Spec

\* With the http transport the flag is up, and a probe answered 200, only when
\* /mcp is mounted.
THEOREM ReadyIsMounted == Spec => []ReadyMeansMounted
<1>1. IInv => ReadyMeansMounted
  BY DEF IInv
<1>. QED  BY <1>1, Invariance, PTL

\* The process exits only after every actor has returned.
THEOREM EverybodyReturns == Spec => []NobodyLeftBehind
<1>1. IInv => NobodyLeftBehind
  BY DEF IInv, PhasesOK, Returned, NobodyLeftBehind
<1>. QED  BY <1>1, Invariance, PTL

\* The exit status is that of what ended the process, whatever the other
\* actors return while it shuts down.
THEOREM ExitCodeIsFirst == Spec => []ExitCodeOfFirst
<1>1. ASSUME IInv, gpc = "exited" PROVE results # <<>>
  BY <1>1 DEF IInv, ResultsOK
<1>2. IInv => ExitCodeOfFirst
  BY <1>1 DEF IInv, ResultsOK, ExitCodeOfFirst, ExitCode
<1>. QED  BY <1>2, Invariance, PTL

=============================================================================
