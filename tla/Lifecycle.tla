------------------------------ MODULE Lifecycle ------------------------------
(***************************************************************************)
(* The process around the MCP server (cmd/prometheus-mcp/main.go): a       *)
(* run.Group of up to four actors - the signal handler, the web server,    *)
(* the MCP transport and the docs updater.  Each actor has a goroutine;    *)
(* when the first one returns, the group interrupts all of them, one after *)
(* the other in the order they were added, and waits for the rest.         *)
(* SetReady (pkg/mcp/server.go) is two writes, so it is two steps.         *)
(***************************************************************************)
EXTENDS Naturals, Sequences, FiniteSets

CONSTANTS Transports,  \* values of --mcp.transport (any string is accepted)
          AutoUpdates  \* values of --docs.auto-update

ASSUME ConfigAssumption ==
  Transports \subseteq {"stdio", "http", "other"} /\ AutoUpdates \subseteq BOOLEAN

Actors == {"signal", "web", "mcp", "updater"}

VARIABLES
  transport, autoUpdate, \* flags
  apc,       \* actor: where its goroutine is
  results,   \* the group's error channel: who returned, and with what
  gpc,       \* Group.Run: where it is
  cancelCh,  \* actors whose cancel channel is closed
  ctxDone,   \* rootCtxCancel() has been called
  shutting,  \* srv.Shutdown has begun: listeners are closed
  mounted,   \* http.Handle("/mcp", ...) has been called
  ready,     \* ServerContainer.ready
  metric,    \* prom_mcp_server_ready
  probe,     \* a request to /-/ready: none, accepted, or answered
  code,      \* its status code
  late       \* it was answered after srv.Shutdown had begun

flags     == <<transport, autoUpdate>>
readyVars == <<ready, metric>>
probeVars == <<probe, code, late>>
groupVars == <<gpc, cancelCh, ctxDone, shutting>>
vars      == <<flags, apc, results, groupVars, mounted, readyVars, probeVars>>

Group == IF autoUpdate THEN Actors ELSE Actors \ {"updater"}

ActorPCs == {"wait", "start", "serving", "closed", "store", "metric", "running",
             "update", "select", "returned"}
GroupPCs == {"running", "signal", "web", "drain", "mcp", "mcp_metric",
             "mcp_cancel", "updater", "collect", "exited"}

DataOK ==
  /\ transport \in Transports
  /\ apc \in [Actors -> ActorPCs]
  /\ results \in Seq([actor : Actors, err : BOOLEAN])
  /\ gpc \in GroupPCs
  /\ cancelCh \subseteq Actors
  /\ metric \in {0, 1}
  /\ probe \in {"none", "accepted", "answered"}
  /\ code \in {0, 200, 503}

FlagsOK ==
  /\ autoUpdate \in AutoUpdates
  /\ ctxDone \in BOOLEAN /\ shutting \in BOOLEAN /\ mounted \in BOOLEAN
  /\ ready \in BOOLEAN /\ late \in BOOLEAN

TypeOK == DataOK /\ FlagsOK

Init ==
  /\ transport \in Transports /\ autoUpdate \in AutoUpdates
  /\ apc = [signal |-> "wait", web |-> "start", mcp |-> "start", updater |-> "update"]
  /\ results = <<>> /\ gpc = "running"
  /\ cancelCh = {} /\ ctxDone = FALSE /\ shutting = FALSE
  /\ mounted = FALSE /\ ready = FALSE /\ metric = 0
  /\ probe = "none" /\ code = 0 /\ late = FALSE

(***************************************************************************)
(* The actors' goroutines.                                                 *)
(***************************************************************************)
Goto(a, pc) == /\ apc' = [apc EXCEPT ![a] = pc]
               /\ UNCHANGED <<flags, results, groupVars, probeVars>>

Return(a, err) ==
  /\ apc' = [apc EXCEPT ![a] = "returned"]
  /\ results' = Append(results, [actor |-> a, err |-> err])
  /\ UNCHANGED <<flags, groupVars, mounted, readyVars, probeVars>>

\* SIGINT or SIGTERM.
SignalCaught == apc["signal"] = "wait" /\ Return("signal", FALSE)

SignalCancelled ==
  apc["signal"] = "wait" /\ "signal" \in cancelCh /\ Return("signal", FALSE)

\* web.ListenAndServe binds its addresses, or fails: bad configuration,
\* address in use, an accept error.
WebBinds ==
  /\ apc["web"] = "start" /\ ~shutting
  /\ Goto("web", "serving") /\ UNCHANGED <<mounted, readyVars>>

WebFails ==
  /\ apc["web"] = "start" \/ (apc["web"] = "serving" /\ ~shutting)
  /\ Return("web", TRUE)

\* http.ErrServerClosed: wait for the interrupt to finish.
WebClosed ==
  /\ apc["web"] \in {"start", "serving"} /\ shutting
  /\ Goto("web", "closed") /\ UNCHANGED <<mounted, readyVars>>

WebReturns == apc["web"] = "closed" /\ "web" \in cancelCh /\ Return("web", FALSE)

\* Mutant of McpStarts: ready before the handler is mounted.
McpStartsUnmounted ==
  /\ apc["mcp"] = "start" /\ transport \in {"stdio", "http"}
  /\ Goto("mcp", "store") /\ UNCHANGED <<mounted, readyVars>>

\* http: mount the handler, then SetReady(true).  stdio: SetReady(true), Run.
McpStarts ==
  /\ apc["mcp"] = "start" /\ transport \in {"stdio", "http"}
  /\ mounted' = (transport = "http")
  /\ Goto("mcp", "store") /\ UNCHANGED readyVars

McpUnsupported ==
  apc["mcp"] = "start" /\ transport \notin {"stdio", "http"} /\ Return("mcp", TRUE)

McpReadyStore ==
  /\ apc["mcp"] = "store"
  /\ ready' = TRUE
  /\ Goto("mcp", "metric") /\ UNCHANGED <<mounted, metric>>

McpReadyMetric ==
  /\ apc["mcp"] = "metric"
  /\ metric' = 1
  /\ Goto("mcp", "running") /\ UNCHANGED <<mounted, ready>>

\* stdio: the client went away, or broke the session.
StdioEnds ==
  /\ apc["mcp"] = "running" /\ transport = "stdio"
  /\ \E err \in BOOLEAN : Return("mcp", err)

\* stdio: Run reports the cancelled context; http: the cancel channel.
McpStops ==
  /\ apc["mcp"] = "running"
  /\ \/ transport = "stdio" /\ ctxDone /\ Return("mcp", TRUE)
     \/ transport = "http" /\ "mcp" \in cancelCh /\ Return("mcp", FALSE)

\* Mutant of UpdateOver: an update that fails ends the actor.
UpdateFatal ==
  /\ autoUpdate /\ apc["updater"] = "update"
  /\ Return("updater", TRUE)

\* One update is over; errors are only logged.
UpdateOver ==
  /\ autoUpdate /\ apc["updater"] = "update"
  /\ Goto("updater", "select") /\ UNCHANGED <<mounted, readyVars>>

UpdaterTicks ==
  /\ autoUpdate /\ apc["updater"] = "select"
  /\ Goto("updater", "update") /\ UNCHANGED <<mounted, readyVars>>

\* Mutant of UpdaterStops: the select has only its ticker.
UpdaterDeaf == apc["updater"] = "select" /\ FALSE /\ UNCHANGED vars

UpdaterStops ==
  /\ autoUpdate /\ apc["updater"] = "select"
  /\ ctxDone \/ "updater" \in cancelCh
  /\ Return("updater", FALSE)

(***************************************************************************)
(* Group.Run: wait for a first result, interrupt every actor in the order  *)
(* signal, web, mcp, updater, and collect the remaining results.           *)
(***************************************************************************)
GroupStep(from, to) ==
  gpc = from /\ gpc' = to /\ UNCHANGED <<flags, apc, results, mounted, probeVars>>

Cancel(a) == cancelCh' = cancelCh \cup {a}

FirstResult ==
  /\ results # <<>>
  /\ GroupStep("running", "signal") /\ UNCHANGED <<cancelCh, ctxDone, shutting, readyVars>>

InterruptSignal ==
  /\ GroupStep("signal", "web")
  /\ Cancel("signal") /\ ctxDone' = TRUE
  /\ UNCHANGED <<shutting, readyVars>>

\* srv.Shutdown closes the listeners and the idle connections, ...
InterruptWeb ==
  /\ GroupStep("web", "drain")
  /\ shutting' = TRUE
  /\ UNCHANGED <<cancelCh, ctxDone, readyVars>>

\* ... and returns when the active ones are done, or after 10 seconds.
WebDrained ==
  /\ GroupStep("drain", "mcp")
  /\ Cancel("web") /\ ctxDone' = TRUE
  /\ UNCHANGED <<shutting, readyVars>>

\* SetReady(false), its first and its second write.
InterruptMcp ==
  /\ GroupStep("mcp", "mcp_metric")
  /\ ready' = FALSE
  /\ UNCHANGED <<cancelCh, ctxDone, shutting, metric>>

\* Mutant of McpUnreadyMetric: the gauge is decremented instead of set.
McpUnreadyDec ==
  /\ GroupStep("mcp_metric", "mcp_cancel")
  /\ metric' = metric - 1
  /\ UNCHANGED <<cancelCh, ctxDone, shutting, ready>>

McpUnreadyMetric ==
  /\ GroupStep("mcp_metric", "mcp_cancel")
  /\ metric' = 0
  /\ UNCHANGED <<cancelCh, ctxDone, shutting, ready>>

CancelMcp ==
  /\ GroupStep("mcp_cancel", IF autoUpdate THEN "updater" ELSE "collect")
  /\ Cancel("mcp") /\ ctxDone' = TRUE
  /\ UNCHANGED <<shutting, readyVars>>

InterruptUpdater ==
  /\ GroupStep("updater", "collect")
  /\ Cancel("updater")
  /\ UNCHANGED <<ctxDone, shutting, readyVars>>

\* Mutant of Exit: one result fewer is collected.
ExitEarly ==
  /\ Len(results) >= Cardinality(Group) - 1
  /\ GroupStep("collect", "exited")
  /\ UNCHANGED <<cancelCh, ctxDone, shutting, readyVars>>

\* Run returns the first error; main exits with it.
Exit ==
  /\ Len(results) = Cardinality(Group)
  /\ GroupStep("collect", "exited")
  /\ UNCHANGED <<cancelCh, ctxDone, shutting, readyVars>>

ExitCode == IF results[1].err THEN 1 ELSE 0

(***************************************************************************)
(* A readiness probe: its connection is accepted while the listeners are   *)
(* open, HandleReady runs some time later.                                 *)
(***************************************************************************)
ProbeAccepted ==
  /\ apc["web"] = "serving" /\ ~shutting
  /\ probe # "accepted"
  /\ probe' = "accepted" /\ code' = 0 /\ late' = FALSE
  /\ UNCHANGED <<flags, apc, results, groupVars, mounted, readyVars>>

HandleReady ==
  /\ probe = "accepted" /\ gpc # "exited"
  /\ probe' = "answered"
  /\ code' = IF ready THEN 200 ELSE 503
  /\ late' = shutting
  /\ UNCHANGED <<flags, apc, results, groupVars, mounted, readyVars>>

Terminated == gpc = "exited" /\ UNCHANGED vars

\* The steps of the goroutines that are due, sooner or later.
Work == \/ SignalCancelled
        \/ WebBinds \/ WebClosed \/ WebReturns
        \/ McpStarts \/ McpUnsupported \/ McpReadyStore \/ McpReadyMetric \/ McpStops
        \/ HandleReady

Interrupt == \/ FirstResult \/ InterruptSignal \/ InterruptWeb \/ WebDrained
             \/ InterruptMcp \/ McpUnreadyMetric \/ CancelMcp \/ InterruptUpdater
             \/ Exit

\* Steps that need not be taken, the end of an update under way included.
Environment == \/ SignalCaught \/ WebFails \/ StdioEnds
               \/ UpdateOver \/ UpdaterTicks
               \/ ProbeAccepted

Next == Work \/ Interrupt \/ UpdaterStops \/ Environment \/ Terminated

Spec == Init /\ [][Next]_vars

\* Each goroutine is scheduled; Shutdown ends, by its timeout at the latest;
\* an update ends once its context is done (until then its listing may hang);
\* the updater's select cannot ignore a done context for ever, though a tick
\* may win against it now and then.
Fairness ==
  /\ WF_vars(SignalCancelled)
  /\ WF_vars(WebBinds \/ WebClosed \/ WebReturns)
  /\ WF_vars(McpStarts \/ McpUnsupported \/ McpReadyStore \/ McpReadyMetric \/ McpStops)
  /\ WF_vars(ctxDone /\ UpdateOver) /\ SF_vars(UpdaterStops)
  /\ WF_vars(HandleReady)
  /\ WF_vars(Interrupt)

FairSpec == Spec /\ Fairness

(***************************************************************************)
(* Properties.                                                             *)
(***************************************************************************)

\* Any actor's end brings the whole process down: no actor waits for a
\* cancellation that never comes, no interrupt waits for an actor.
ProcessExits == (\E a \in Actors : apc[a] = "returned") ~> gpc = "exited"

\* With the http transport the flag is never up, and no probe ever answered
\* 200, before /mcp is mounted (main.go:332-333).  Nothing of the kind holds
\* for stdio, whose SetReady(true) comes before Run (main.go:320-321).
ReadyMeansMounted == transport = "http" /\ (ready \/ code = 200) => mounted

\* The context of an update in progress is done before the group waits for
\* the updater, and every actor has returned when the process exits.
NobodyLeftBehind ==
  /\ gpc \in {"updater", "collect", "exited"} => ctxDone
  /\ gpc = "exited" => \A a \in Group : apc[a] = "returned"

\* A shutdown by signal exits with 0 although the stdio transport then
\* reports the cancelled context as an error; a web server that fails first
\* exits with 1; the updater, whatever its updates do, is never the first.
ExitCodeOfFirst ==
  gpc = "exited" =>
    /\ results[1].actor # "updater"
    /\ results[1].actor = "signal" => ExitCode = 0
    /\ results[1].actor = "web" => ExitCode = 1

\* The inductive invariant behind these properties (Lifecycle_proofs): the
\* error channel holds one result for every actor that has returned, the first
\* of them from before any interrupt; the phases of the group and of the MCP
\* actor tell what has become of context and handler.
Returned == {a \in Actors : apc[a] = "returned"}

ResultsOK ==
  /\ Returned \subseteq Group
  /\ Len(results) = Cardinality(Returned)
  /\ gpc # "running" => results # <<>>
  /\ ctxDone \/ cancelCh # {} => gpc # "running"
  /\ results # <<>> =>
       /\ results[1].actor # "updater"
       /\ results[1].actor = "signal" => ~results[1].err
       /\ results[1].actor = "web" => results[1].err

PhasesOK ==
  /\ gpc \notin {"running", "signal"} => ctxDone
  /\ gpc = "exited" => Returned = Group
  /\ transport = "http" /\ apc["mcp"] \in {"store", "metric", "running"} => mounted

IInv == TypeOK /\ ResultsOK /\ PhasesOK /\ ReadyMeansMounted

\* /-/ready answers 503 during shutdown (README.md:337).
NotReadyDuringShutdown == probe = "answered" /\ late => code = 503

\* SetReady keeps flag and gauge consistent (server.go:426-428): they agree
\* whenever neither the MCP actor nor its interrupt is between the two writes.
SignalsConsistent ==
  apc["mcp"] # "metric" /\ gpc # "mcp_metric" => (ready <=> metric = 1)

=============================================================================
