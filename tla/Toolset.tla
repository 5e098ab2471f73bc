------------------------------- MODULE Toolset -------------------------------
(***************************************************************************)
(* Which tools a server offers and what its instructions say about them:   *)
(* getToolset (pkg/mcp/registration.go), renderInstructions                *)
(* (pkg/mcp/instructions.go and its template) and the gate in front of the *)
(* TSDB admin tools (pkg/mcp/handlers.go), together with the embedded      *)
(* skills, composed the way NewServer composes them and followed by the    *)
(* clients' calls.                                                         *)
(***************************************************************************)
EXTENDS Sequences, Skills

CONSTANTS ToolLists, \* values of --mcp.tools
          Backends   \* values of --prometheus.backend

CoreTools == {"docs_list", "docs_read", "docs_search", "runbooks_list", "runbooks_read",
              "query", "range_query", "metric_metadata", "label_names", "label_values",
              "series"}

TsdbAdminTools == {"clean_tombstones", "delete_series", "snapshot"}

PrometheusToolset == CoreTools \cup TsdbAdminTools \cup
  {"exemplar_query", "targets_metadata", "alertmanagers", "flags", "list_alerts",
   "tsdb_stats", "build_info", "config", "runtime_info", "list_rules", "list_targets",
   "wal_replay_status", "healthy", "ready", "reload", "quit"}

ThanosRemovedTools == TsdbAdminTools \cup
  {"alertmanagers", "config", "targets_metadata", "wal_replay_status", "reload", "quit"}

ThanosToolset == (PrometheusToolset \ ThanosRemovedTools) \cup {"list_stores"}

AllTools == PrometheusToolset \cup ThanosToolset

Unset == "unset" \* stands for the empty string

\* strings.ToLower, on the backend names that are told apart.
ToLower(b) == CASE b \in {"thanos", "Thanos"} -> "thanos"
                [] b \in {"prometheus", "Prometheus"} -> "prometheus"
                [] OTHER -> b

\* Mutant of SelectedTools: a list replaces the core tools.
SelectedWithoutCore(enabledTools) ==
  CASE enabledTools = <<"all">>  -> PrometheusToolset
    [] enabledTools = <<"core">> -> CoreTools
    [] OTHER -> Range(enabledTools) \cap PrometheusToolset

\* The switch on enabledTools.  A name the prometheus toolset lacks is
\* skipped with a warning; "all" and "core" are special only when alone.
SelectedTools(enabledTools) ==
  CASE enabledTools = <<"all">>  -> PrometheusToolset
    [] enabledTools = <<"core">> -> CoreTools
    [] OTHER -> (Range(enabledTools) \cup CoreTools) \cap PrometheusToolset

\* The switch on the backend: a known one replaces the selection.
GetToolset(enabledTools, backend) ==
  CASE ToLower(backend) = "prometheus" -> PrometheusToolset
    [] ToLower(backend) = "thanos"     -> ThanosToolset
    [] OTHER                           -> SelectedTools(enabledTools)

\* The tools the instructions template names, with its conditions.
RenderInstructions(toolset, backend, adminEnabled) ==
  {"label_values", "metric_metadata", "series"}
  \cup {t \in {"docs_search"} : t \in toolset}
  \cup {t \in {"runbooks_list", "runbooks_read"} : "runbooks_list" \in toolset}
  \cup {t \in TsdbAdminTools : "delete_series" \in toolset /\ ~adminEnabled}
  \cup {t \in {"build_info"} : ToLower(backend) = Unset}

VARIABLES
  mcpTools, backend, adminEnabled, \* flags
  assets,    \* the skills directory compiled into the binary
  phase,     \* of the process: see Phases
  runbookDefs, \* the skills loaded
  toolset,   \* getToolset's result
  mentioned, \* tools named in the instructions
  offered,   \* tools registered with the MCP server
  calls,     \* the last request, if a tool call: the tool and how it ended
  answer     \* the last request, if for a skill: how, which, what came back

flags == <<mcpTools, backend, adminEnabled, assets>>
vars  == <<flags, phase, runbookDefs, toolset, mentioned, offered, calls, answer>>

Phases  == {"loading", "panicked", "selecting", "rendering", "registering", "serving"}
Endings == {"none", "unknown", "rejected", "handled"}

NoCall   == [tool |-> Unset, ending |-> "none"]
NoAnswer == [face |-> "none"]

TypeOK ==
  /\ mcpTools \in ToolLists /\ backend \in Backends /\ adminEnabled \in BOOLEAN
  /\ assets \in Assets
  /\ phase \in Phases
  /\ runbookDefs \in Seq([name : Names, document : Names])
  /\ {toolset, mentioned, offered} \subseteq SUBSET AllTools
  /\ calls \in [tool : AllTools \cup {Unset}, ending : Endings]
  /\ answer \in [face : Faces, name : Names, document : Names \cup {Refused}] \cup {NoAnswer}

Init ==
  /\ mcpTools \in ToolLists /\ backend \in Backends /\ adminEnabled \in BOOLEAN
  /\ assets \in Assets
  /\ phase = "loading"
  /\ runbookDefs = <<>> /\ toolset = {} /\ mentioned = {} /\ offered = {}
  /\ calls = NoCall /\ answer = NoAnswer

\* Before main: mustLoadRunbookDefs panics over a skill that is not valid.
LoadSkills ==
  /\ phase = "loading"
  /\ LET loaded == LoadRunbookDefs(assets)
     IN  /\ phase' = IF loaded.failed THEN "panicked" ELSE "selecting"
         /\ runbookDefs' = loaded.defs
  /\ UNCHANGED <<flags, toolset, mentioned, offered, calls, answer>>

SelectTools ==
  /\ phase = "selecting" /\ phase' = "rendering"
  /\ toolset' = GetToolset(mcpTools, backend)
  /\ UNCHANGED <<flags, runbookDefs, mentioned, offered, calls, answer>>

\* A render failure falls back to a text that names no tool.
Render ==
  /\ phase = "rendering" /\ phase' = "registering"
  /\ mentioned' \in {{}, RenderInstructions(toolset, backend, adminEnabled)}
  /\ UNCHANGED <<flags, runbookDefs, toolset, offered, calls, answer>>

RegisterTools ==
  /\ phase = "registering" /\ phase' = "serving"
  /\ offered' = toolset
  /\ UNCHANGED <<flags, runbookDefs, toolset, mentioned, calls, answer>>

\* Mutant of EndingsOf: delete_series checks its arguments only.
EndingsUngated(t) ==
  {e \in {"unknown"} : t \notin offered}
  \cup {e \in {"rejected"} :
          t \in offered /\ (t = "delete_series" \/ (t \in TsdbAdminTools /\ ~adminEnabled))}
  \cup {e \in {"handled"} :
          t \in offered /\ (t \in TsdbAdminTools \ {"delete_series"} => adminEnabled)}

\* A tools/call: the SDK refuses unknown names, the admin handlers refuse to
\* act without their flag, delete_series also without matchers and bounds.
EndingsOf(t) ==
  {e \in {"unknown"} : t \notin offered}
  \cup {e \in {"rejected"} :
          t \in offered /\ (t = "delete_series" \/ (t \in TsdbAdminTools /\ ~adminEnabled))}
  \cup {e \in {"handled"} : t \in offered /\ (t \in TsdbAdminTools => adminEnabled)}

CallTool ==
  /\ phase = "serving"
  /\ \E t \in AllTools : \E e \in EndingsOf(t) : calls' = [tool |-> t, ending |-> e]
  /\ answer' = NoAnswer
  /\ UNCHANGED <<flags, phase, runbookDefs, toolset, mentioned, offered>>

\* runbooks_read, resources/read or prompts/get.
AskSkill ==
  /\ phase = "serving"
  /\ \E face \in Faces, n \in Names :
       /\ face = "tool" => "runbooks_read" \in offered
       /\ answer' = [face |-> face, name |-> n, document |-> ReadSkill(face, runbookDefs, n)]
  /\ calls' = NoCall
  /\ UNCHANGED <<flags, phase, runbookDefs, toolset, mentioned, offered>>

Terminated == phase = "panicked" /\ UNCHANGED vars

Next == \/ LoadSkills \/ SelectTools \/ Render \/ RegisterTools
        \/ CallTool \/ AskSkill \/ Terminated

Spec == Init /\ [][Next]_vars

-----------------------------------------------------------------------------
(* What the invariants below rest on: the phases leave behind what they     *)
(* computed, and a request is served only from that.                        *)

\* Past the loading, the definitions are the assets', all of them accepted.
DefsOK ==
  phase \notin {"loading", "panicked"} =>
    /\ \A i \in DOMAIN assets : Accepted(assets[i])
    /\ runbookDefs =
         [i \in DOMAIN assets |-> [name |-> assets[i].name, document |-> assets[i].dir]]

ToolsOK ==
  /\ phase \in {"rendering", "registering", "serving"} =>
       toolset = GetToolset(mcpTools, backend)
  /\ phase = "serving" => offered = toolset

RequestsOK ==
  /\ calls # NoCall => phase = "serving" /\ calls.ending \in EndingsOf(calls.tool)
  /\ answer # NoAnswer =>
       /\ phase = "serving"
       /\ answer.document = ReadSkill(answer.face, runbookDefs, answer.name)

IInv == TypeOK /\ DefsOK /\ ToolsOK /\ RequestsOK

-----------------------------------------------------------------------------

\* The core tools are loaded under every combination of flags, whatever the
\* list, and however a backend replaces it (registration.go:34-35).  A
\* narrowed list stays narrow unless a backend with a toolset of its own
\* overrides it: nothing is offered that was not asked for.
OffersWhatWasAsked ==
  phase = "serving" =>
    /\ CoreTools \subseteq offered
    /\ mcpTools # <<"all">> /\ ToLower(backend) \notin {"prometheus", "thanos"} =>
         offered \subseteq CoreTools \cup Range(mcpTools)

\* No TSDB admin request leaves the server unless its flag is set, and none
\* at all towards Thanos, which does not serve those endpoints.
AdminGate ==
  calls.ending = "handled" /\ calls.tool \in TsdbAdminTools =>
    adminEnabled /\ ToLower(backend) # "thanos"

\* A server that starts serves all the skills compiled into it, and a listed
\* skill can be read through the tool, its resource and its prompt alike, each
\* of them returning its own document; nothing else is served
\* (runbooks.go:140-142, 260-261).
SkillsServed ==
  /\ phase = "serving" => Listed(runbookDefs) = {assets[i].dir : i \in DOMAIN assets}
  /\ answer # NoAnswer =>
       answer.document = IF answer.name \in Listed(runbookDefs) THEN answer.name ELSE Refused

\* The instructions never render guidance for tools that are not loaded
\* (instructions.go:56-58).
GuidanceLoaded == phase = "serving" => mentioned \subseteq offered

=============================================================================
