---------------------------- MODULE Toolset_proofs ----------------------------
(***************************************************************************)
(* Proofs about Toolset and Skills, for any tool lists, backend names and  *)
(* skill directories.                                                      *)
(***************************************************************************)
EXTENDS Toolset, WellFoundedInduction, TLAPS

-----------------------------------------------------------------------------
(* The first and the last place of a definition.                           *)

LEMMA SmallestExists ==
  ASSUME NEW T \in SUBSET Nat, T # {}
  PROVE  \E n \in T : \A m \in T : n <= m
<1>1. \E n \in T : \A m \in T : ~(<<m, n>> \in OpToRel(<, Nat))
  BY WFMin, NatLessThanWellFounded
<1>2. ASSUME NEW m \in Nat, NEW n \in Nat, m < n PROVE <<m, n>> \in OpToRel(<, Nat)
  BY <1>2 DEF OpToRel
<1>3. PICK n \in T : \A m \in T : ~(m < n)
  BY <1>1, <1>2, Zenon
<1>. QED  BY <1>3

LEMMA FirstIn ==
  ASSUME NEW N \in Nat, NEW T \in SUBSET (1..N), T # {}
  PROVE  Min(T) \in T
<1>1. \E n \in T : \A m \in T : n <= m
  <2>1. T \in SUBSET Nat
    OBVIOUS
  <2>. QED  BY <2>1, SmallestExists
<1>. QED  BY <1>1 DEF Min

\* The largest is as far from N as the smallest distance.
LEMMA LastIn ==
  ASSUME NEW N \in Nat, NEW T \in SUBSET (1..N), T # {}
  PROVE  Max(T) \in T
<1> DEFINE Distances == {N - m : m \in T}
<1>1. PICK d \in Distances : \A e \in Distances : d <= e
  <2>1. \A m \in T : N - m \in Nat
    OBVIOUS
  <2>2. Distances \in SUBSET Nat
    BY <2>1
  <2>3. Distances # {}
    OBVIOUS
  <2> HIDE DEF Distances
  <2>. QED  BY <2>2, <2>3, SmallestExists
<1>2. PICK n \in T : d = N - n
  BY <1>1
<1>3. \A m \in T : N - n <= N - m
  BY <1>1, <1>2
<1>4. \A m \in T : n >= m
  BY <1>3
<1>. QED  BY <1>4 DEF Max

-----------------------------------------------------------------------------
(* Serving the skills: in a registry of accepted definitions, whichever way *)
(* a skill is asked for, its own document comes back.                       *)

Registry(defs) ==
  /\ DOMAIN defs \in {1..n : n \in Nat}
  /\ \A i \in DOMAIN defs : defs[i].name \in SkillNames /\ defs[i].document = defs[i].name

LEMMA PlacesCalled ==
  ASSUME NEW defs, Registry(defs), NEW n \in Listed(defs)
  PROVE  \A i \in {Min(Called(defs, n)), Max(Called(defs, n))} : defs[i].document = n
<1>1. PICK N \in Nat : DOMAIN defs = 1..N
  BY DEF Registry
<1>2. Called(defs, n) \in SUBSET (1..N) /\ Called(defs, n) # {}
  BY <1>1 DEF Called, Listed
<1>3. \A i \in Called(defs, n) : defs[i].document = n
  BY DEF Called, Registry
<1>. QED  BY <1>1, <1>2, <1>3, FirstIn, LastIn

LEMMA OneDocumentEach ==
  ASSUME NEW defs, Registry(defs), NEW face, NEW n
  PROVE  ReadSkill(face, defs, n) = IF n \in Listed(defs) THEN n ELSE Refused
<1>1. n \in Listed(defs) => n \in HostNames
  BY NamesAssumption DEF Listed, Registry
<1>. QED  BY <1>1, PlacesCalled
          DEF ReadSkill, RunbooksRead, SkillReadResource, GetRunbookContent, PromptGet

\* What is loaded is such a registry, and lists the directories.
LEMMA LoadedRegistry ==
  ASSUME TypeOK, DefsOK, phase \notin {"loading", "panicked"}
  PROVE  /\ Registry(runbookDefs)
         /\ Listed(runbookDefs) = {assets[i].dir : i \in DOMAIN assets}
<1>1. assets \in Seq(Entries)
  BY AssetsAssumption DEF TypeOK
<1>2. DOMAIN assets = 1..Len(assets) /\ Len(assets) \in Nat
  BY <1>1
<1>3. \A i \in DOMAIN assets : assets[i].name \in SkillNames /\ assets[i].name = assets[i].dir
  BY DEF DefsOK, Accepted
<1>4. /\ DOMAIN runbookDefs = DOMAIN assets
      /\ \A i \in DOMAIN assets : /\ runbookDefs[i].name = assets[i].name
                                  /\ runbookDefs[i].document = assets[i].dir
  BY DEF DefsOK
<1>5. Registry(runbookDefs)
  BY <1>2, <1>3, <1>4 DEF Registry
<1>6. \A i \in DOMAIN runbookDefs : runbookDefs[i].name = assets[i].dir
  BY <1>3, <1>4
<1>7. Listed(runbookDefs) = {assets[i].dir : i \in DOMAIN assets}
  BY <1>4, <1>6 DEF Listed
<1>. QED  BY <1>5, <1>7

-----------------------------------------------------------------------------
(* Type correctness.                                                       *)

LEMMA ToolsetsTyped ==
  ASSUME NEW list, NEW b, NEW admin \in BOOLEAN, NEW tools
  PROVE  /\ GetToolset(list, b) \in SUBSET AllTools
         /\ RenderInstructions(tools, b, admin) \in SUBSET AllTools
<1>1. /\ CoreTools \subseteq AllTools /\ TsdbAdminTools \subseteq AllTools
      /\ PrometheusToolset \subseteq AllTools /\ ThanosToolset \subseteq AllTools
      /\ CoreTools \subseteq PrometheusToolset
  BY DEF AllTools, PrometheusToolset
<1>2. {"label_values", "metric_metadata", "series", "docs_search", "runbooks_list",
       "runbooks_read"} \subseteq CoreTools
  BY DEF CoreTools
<1>3. "build_info" \in AllTools
  BY DEF AllTools, PrometheusToolset
<1>4. SelectedTools(list) \subseteq PrometheusToolset
  BY <1>1 DEF SelectedTools
<1>5. GetToolset(list, b) \in SUBSET AllTools
  BY <1>1, <1>4 DEF GetToolset
<1>6. RenderInstructions(tools, b, admin) \in SUBSET AllTools
  BY <1>1, <1>2, <1>3 DEF RenderInstructions
<1>. QED  BY <1>5, <1>6

LEMMA InitIInv == Init => IInv
<1> SUFFICES ASSUME Init PROVE IInv
  OBVIOUS
<1>1. calls \in [tool : AllTools \cup {Unset}, ending : Endings]
  BY DEF Init, NoCall, Endings
<1>2. TypeOK
  BY <1>1 DEF Init, TypeOK, Phases
<1>3. DefsOK /\ ToolsOK /\ RequestsOK
  BY DEF Init, DefsOK, ToolsOK, RequestsOK
<1>. QED  BY <1>2, <1>3 DEF IInv

LEMMA StepTypeOK == IInv /\ [Next]_vars => TypeOK'
<1> SUFFICES ASSUME IInv, [Next]_vars PROVE TypeOK'
  OBVIOUS
<1> USE DEF IInv, TypeOK, flags, Phases
<1>1. CASE LoadSkills
  <2>1. assets \in Seq(Entries)
    BY AssetsAssumption
  <2>2. LoadRunbookDefs(assets).defs \in Seq([name : Names, document : Names])
    <3>1. CASE LoadRunbookDefs(assets).failed
      BY <3>1 DEF LoadRunbookDefs
    <3>2. CASE ~LoadRunbookDefs(assets).failed
      <4>1. LoadRunbookDefs(assets).defs =
              [i \in 1..Len(assets) |-> [name |-> assets[i].name, document |-> assets[i].dir]]
        BY <2>1, <3>2 DEF LoadRunbookDefs
      <4>2. \A i \in 1..Len(assets) : assets[i].name \in Names /\ assets[i].dir \in Names
        <5>1. \A e \in Entries : e.name \in Names /\ e.dir \in Names
          BY DEF Entries
        <5>. QED  BY <2>1, <5>1
      <4>. QED  BY <2>1, <4>1, <4>2
    <3>. QED  BY <3>1, <3>2
  <2>. QED  BY <1>1, <2>2 DEF LoadSkills
<1>2. CASE SelectTools
  BY <1>2, ToolsetsTyped DEF SelectTools
<1>3. CASE Render
  <2>1. RenderInstructions(toolset, backend, adminEnabled) \in SUBSET AllTools
    BY ToolsetsTyped
  <2>2. mentioned' \in SUBSET AllTools
    BY <1>3, <2>1 DEF Render
  <2>. QED  BY <1>3, <2>2 DEF Render
<1>4. CASE RegisterTools
  BY <1>4 DEF RegisterTools
<1>5. CASE CallTool
  <2>1. \A t : EndingsOf(t) \subseteq Endings
    BY DEF EndingsOf, Endings
  <2>2. calls' \in [tool : AllTools \cup {Unset}, ending : Endings]
    BY <1>5, <2>1 DEF CallTool
  <2>. QED  BY <1>5, <2>2 DEF CallTool
<1>6. CASE AskSkill
  <2>1. Registry(runbookDefs)
    BY <1>6, LoadedRegistry DEF AskSkill
  <2>2. \A face, n : n \in Names => ReadSkill(face, runbookDefs, n) \in Names \cup {Refused}
    BY <2>1, OneDocumentEach
  <2>3. answer' \in [face : Faces, name : Names, document : Names \cup {Refused}]
    BY <1>6, <2>2 DEF AskSkill
  <2>4. calls' \in [tool : AllTools \cup {Unset}, ending : Endings]
    BY <1>6 DEF AskSkill, NoCall, Endings
  <2>. QED  BY <1>6, <2>3, <2>4 DEF AskSkill
<1>7. CASE Terminated \/ UNCHANGED vars
  BY <1>7 DEF Terminated, vars
<1>. QED  BY <1>1, <1>2, <1>3, <1>4, <1>5, <1>6, <1>7 DEF Next

-----------------------------------------------------------------------------
(* The invariant.                                                          *)

LEMMA StepDefsOK == IInv /\ [Next]_vars => DefsOK'
<1> SUFFICES ASSUME IInv, [Next]_vars PROVE DefsOK'
  OBVIOUS
<1> USE DEF IInv, DefsOK, flags
<1>1. CASE LoadSkills
  BY <1>1 DEF LoadSkills, LoadRunbookDefs
<1>2. CASE SelectTools \/ Render \/ RegisterTools \/ CallTool \/ AskSkill \/ Terminated
             \/ UNCHANGED vars
  BY <1>2 DEF SelectTools, Render, RegisterTools, CallTool, AskSkill, Terminated, vars
<1>. QED  BY <1>1, <1>2 DEF Next

LEMMA StepToolsOK == IInv /\ [Next]_vars => ToolsOK'
<1> SUFFICES ASSUME IInv, [Next]_vars PROVE ToolsOK'
  OBVIOUS
<1> USE DEF IInv, ToolsOK, flags
<1>1. CASE LoadSkills
  BY <1>1 DEF LoadSkills
<1>2. CASE SelectTools
  BY <1>2 DEF SelectTools
<1>3. CASE Render \/ RegisterTools
  BY <1>3 DEF Render, RegisterTools
<1>4. CASE CallTool \/ AskSkill \/ Terminated \/ UNCHANGED vars
  BY <1>4 DEF CallTool, AskSkill, Terminated, vars
<1>. QED  BY <1>1, <1>2, <1>3, <1>4 DEF Next

LEMMA StepRequestsOK == IInv /\ [Next]_vars => RequestsOK'
<1> SUFFICES ASSUME IInv, [Next]_vars PROVE RequestsOK'
  OBVIOUS
<1> USE DEF IInv, RequestsOK, flags
<1>1. CASE LoadSkills \/ SelectTools \/ Render \/ RegisterTools
  BY <1>1 DEF LoadSkills, SelectTools, Render, RegisterTools
<1>2. CASE CallTool
  <2>1. PICK t \in AllTools : \E e \in EndingsOf(t) : calls' = [tool |-> t, ending |-> e]
    BY <1>2 DEF CallTool
  <2>2. EndingsOf(t)' = EndingsOf(t)
    BY <1>2 DEF CallTool, EndingsOf
  <2>. QED  BY <1>2, <2>1, <2>2 DEF CallTool, EndingsOf
<1>3. CASE AskSkill
  BY <1>3 DEF AskSkill
<1>4. CASE Terminated \/ UNCHANGED vars
  BY <1>4 DEF Terminated, vars, EndingsOf
<1>. QED  BY <1>1, <1>2, <1>3, <1>4 DEF Next

\* The registry, the toolset and what was registered keep being what the flags
\* and the assets make them, and every request is answered from them.
THEOREM Invariance == Spec => []IInv
<1>1. IInv /\ [Next]_vars => IInv'
  BY StepTypeOK, StepDefsOK, StepToolsOK, StepRequestsOK DEF IInv
<1>. QED  BY <1>1, InitIInv, PTL DEF Spec

-----------------------------------------------------------------------------

LEMMA Offered ==
  ASSUME IInv, phase = "serving"
  PROVE  offered = GetToolset(mcpTools, backend)
BY DEF IInv, ToolsOK

LEMMA CoreInBackends ==
  /\ CoreTools \subseteq PrometheusToolset
  /\ CoreTools \subseteq ThanosToolset
<1>1. CoreTools \subseteq PrometheusToolset
  BY DEF PrometheusToolset
<1>2. CoreTools \cap ThanosRemovedTools = {}
  BY DEF CoreTools, ThanosRemovedTools, TsdbAdminTools
<1>. QED  BY <1>1, <1>2 DEF ThanosToolset

\* Whatever --mcp.tools and --prometheus.backend say, the core tools are
\* offered, and a narrowed list stays narrow unless the backend has a toolset
\* of its own (getToolset, registration.go).
THEOREM NarrowingKept == Spec => []OffersWhatWasAsked
<1>1. IInv => OffersWhatWasAsked
  <2> SUFFICES ASSUME IInv, phase = "serving"
               PROVE  /\ CoreTools \subseteq offered
                      /\ mcpTools # <<"all">> /\ ToLower(backend) \notin {"prometheus", "thanos"}
                           => offered \subseteq CoreTools \cup Range(mcpTools)
    BY DEF OffersWhatWasAsked
  <2>1. offered = GetToolset(mcpTools, backend)
    BY Offered
  <2>2. CoreTools \subseteq SelectedTools(mcpTools)
    BY CoreInBackends DEF SelectedTools
  <2>3. CoreTools \subseteq offered
    BY <2>1, <2>2, CoreInBackends DEF GetToolset
  <2>4. ASSUME mcpTools # <<"all">>, ToLower(backend) \notin {"prometheus", "thanos"}
        PROVE  offered \subseteq CoreTools \cup Range(mcpTools)
    BY <2>1, <2>4 DEF GetToolset, SelectedTools
  <2>. QED  BY <2>3, <2>4
<1>. QED  BY <1>1, Invariance, PTL

\* No TSDB admin request leaves the server without its flag, and none at all
\* towards Thanos (the handlers of the admin tools, and thanosRemovedTools).
THEOREM AdminGated == Spec => []AdminGate
<1>1. IInv => AdminGate
  <2> SUFFICES ASSUME IInv, calls.ending = "handled", calls.tool \in TsdbAdminTools
               PROVE  adminEnabled /\ ToLower(backend) # "thanos"
    BY DEF AdminGate
  <2>1. phase = "serving" /\ "handled" \in EndingsOf(calls.tool)
    <3>1. calls # NoCall
      BY DEF NoCall, Unset
    <3>. QED  BY <3>1 DEF IInv, RequestsOK
  <2>2. calls.tool \in offered /\ adminEnabled
    BY <2>1 DEF EndingsOf
  <2>3. calls.tool \notin ThanosToolset
    BY DEF ThanosToolset, ThanosRemovedTools, TsdbAdminTools
  <2>4. ToLower(backend) # "thanos"
    BY <2>1, <2>2, <2>3, Offered DEF GetToolset
  <2>. QED  BY <2>2, <2>4
<1>. QED  BY <1>1, Invariance, PTL

\* A server that starts lists every skill compiled into it, and each of them is
\* read as its own document by the tool, the resource and the prompt alike
\* (loadRunbookDefs, getRunbookContent, runbookPromptHandler).
THEOREM EverySkillServed == Spec => []SkillsServed
<1>1. IInv => SkillsServed
  <2> SUFFICES ASSUME IInv PROVE SkillsServed
    OBVIOUS
  <2>1. phase = "serving" =>
          /\ Registry(runbookDefs)
          /\ Listed(runbookDefs) = {assets[i].dir : i \in DOMAIN assets}
    BY LoadedRegistry DEF IInv
  <2>2. answer # NoAnswer =>
          answer.document = IF answer.name \in Listed(runbookDefs) THEN answer.name ELSE Refused
    BY <2>1, OneDocumentEach DEF IInv, RequestsOK
  <2>. QED  BY <2>1, <2>2 DEF SkillsServed
<1>. QED  BY <1>1, Invariance, PTL

=============================================================================
