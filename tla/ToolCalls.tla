------------------------------ MODULE ToolCalls ------------------------------
(***************************************************************************)
(* Concurrent requests of MCP clients, above all the tool calls that end   *)
(* in a request to the Prometheus API: the telemetry and the credential    *)
(* middleware (pkg/mcp/middleware.go), GetAPIClient (pkg/mcp/server.go),   *)
(* the API calls with their timeout and metrics (pkg/mcp/handlers.go).     *)
(*                                                                         *)
(* A call is served on one of two paths: through the client library        *)
(* ("client": queryAPICall, doSimpleAPICall, ...) or through doHTTPRequest *)
(* ("raw": the management API and list_stores).  The counters of a path    *)
(* stand for those of its endpoints.  Any other request the telemetry      *)
(* knows (resources/read, prompts/get, prompts/list) is of path "method";  *)
(* it makes no use of credentials.                                         *)
(* The default transport is taken to respect an Authorization header that  *)
(* is already there.                                                       *)
(***************************************************************************)
EXTENDS Naturals, FiniteSets

CONSTANTS Calls,   \* requests
          Creds,   \* Authorization headers clients send
          NoCred,  \* the request carries no such header
          Default  \* what the default transport adds by itself

ASSUME CredAssumption == NoCred \notin Creds /\ Default \notin Creds /\ Default # NoCred

ASSUME CallsAssumption == IsFiniteSet(Calls)

Paths  == {"client", "raw"}
Routes == Paths \cup {"method"}

\* Metrics come in families of a duration, whose count is that of the calls,
\* and a counter of failures.
Families == Routes \cup {"tool"}

VARIABLES
  defaultRT,   \* ServerContainer.defaultRT: the credential it adds
  stage,       \* call: where its goroutine is
  path,        \* call: how its tool reaches Prometheus
  header,      \* call: Authorization of the HTTP request that carried it
  rt,          \* call: the credential its round tripper adds
  wire,        \* call: the credential Prometheus was sent, if any
  result,      \* call: what became of the API request
  isError,     \* call: the tool result is an error
  cancelled,   \* call: its context is cancelled by the client
  expired,     \* call: the timeout of its API call has fired
  toolCalls,   \* metricToolCallDuration, as a count
  toolFailed,  \* metricToolCallsFailed
  apiCalls,    \* metricAPICallDuration of a path, as a count
  apiFailed,   \* metricAPICallsFailed of a path
  methodCalls, \* metricResourceCallDuration, metricPromptGetDuration, ...
  methodFailed, \* metricResourceCallsFailed, metricPromptGetsFailed, ...
  scraped      \* family of metrics: the failures that the last scrape read

callVars == <<path, header, rt, wire, result, isError>>
ctxVars  == <<cancelled, expired>>
apiMetrics    == <<apiCalls, apiFailed>>
toolMetrics   == <<toolCalls, toolFailed>>
methodMetrics == <<methodCalls, methodFailed>>
metrics  == <<toolMetrics, apiMetrics, methodMetrics, scraped>>
vars     == <<defaultRT, stage, callVars, ctxVars, metrics>>

Stages  == {"none", "called", "sending", "waiting", "returned", "observed",
            "reading", "formatting", "handled", "measured", "done"}
Results == {"none", "ok", "refused", "lost"}

TypeOK ==
  /\ defaultRT \in Creds \cup {Default}
  /\ stage \in [Calls -> Stages]
  /\ path \in [Calls -> Routes]
  /\ header \in [Calls -> Creds \cup {NoCred}]
  /\ rt \in [Calls -> Creds \cup {Default}]
  /\ wire \in [Calls -> Creds \cup {Default, NoCred}]
  /\ result \in [Calls -> Results]
  /\ isError \in [Calls -> BOOLEAN]
  /\ cancelled \in [Calls -> BOOLEAN] /\ expired \in [Calls -> BOOLEAN]
  /\ toolCalls \in Nat /\ toolFailed \in Nat
  /\ apiCalls \in [Paths -> Nat] /\ apiFailed \in [Paths -> Nat]
  /\ methodCalls \in Nat /\ methodFailed \in Nat
  /\ scraped \in [Families -> Nat]

Init ==
  /\ defaultRT = Default
  /\ stage = [q \in Calls |-> "none"]
  /\ path = [q \in Calls |-> "client"]
  /\ header = [q \in Calls |-> NoCred]
  /\ rt = [q \in Calls |-> Default]
  /\ wire = [q \in Calls |-> NoCred]
  /\ result = [q \in Calls |-> "none"]
  /\ isError = [q \in Calls |-> FALSE]
  /\ cancelled = [q \in Calls |-> FALSE] /\ expired = [q \in Calls |-> FALSE]
  /\ toolCalls = 0 /\ toolFailed = 0
  /\ apiCalls = [p \in Paths |-> 0] /\ apiFailed = [p \in Paths |-> 0]
  /\ methodCalls = 0 /\ methodFailed = 0
  /\ scraped = [f \in Families |-> 0]

Goto(q, from, to) == stage[q] = from /\ stage' = [stage EXCEPT ![q] = to]

\* A request arrives; the middleware puts its header into its context.
Receive(q) ==
  /\ Goto(q, "none", "called")
  /\ \E p \in Routes, a \in Creds \cup {NoCred} :
       /\ p = "method" => a = NoCred
       /\ path' = [path EXCEPT ![q] = p]
       /\ header' = [header EXCEPT ![q] = a]
  /\ UNCHANGED <<defaultRT, rt, wire, result, isError, ctxVars, metrics>>

\* An unknown tool, a missing or unparsable argument, an admin tool without
\* its flag, and, in the metadata calls only after GetAPIClient, a limit that
\* is no number: the API is not called.
Reject(q) ==
  /\ \/ path[q] \in Paths /\ Goto(q, "called", "handled")
     \/ path[q] = "client" /\ Goto(q, "sending", "handled")
  /\ isError' = [isError EXCEPT ![q] = TRUE]
  /\ UNCHANGED <<defaultRT, path, header, rt, wire, result, ctxVars, metrics>>

\* A method other than tools/call: served in the process, or an error.
Answer(q) ==
  /\ path[q] = "method"
  /\ Goto(q, "called", "handled")
  /\ \E err \in BOOLEAN : isError' = [isError EXCEPT ![q] = err]
  /\ UNCHANGED <<defaultRT, path, header, rt, wire, result, ctxVars, metrics>>

UseClient(q, cred, default) ==
  /\ path[q] \in Paths
  /\ Goto(q, "called", "sending")
  /\ rt' = [rt EXCEPT ![q] = cred]
  /\ defaultRT' = default
  /\ UNCHANGED <<path, header, wire, result, isError, ctxVars, metrics>>

OwnOrDefault(q) == IF header[q] = NoCred THEN defaultRT ELSE header[q]

\* Mutants of GetAPIClient: an empty header makes a client too; the client
\* that was made becomes the default one.
GetAPIClientAlways(q) == UseClient(q, header[q], defaultRT)
GetAPIClientCached(q) == UseClient(q, OwnOrDefault(q), OwnOrDefault(q))

\* GetAPIClient: a client of its own for a request with credentials.  (The
\* fallback to the default client is dead code: the address has been parsed
\* when the default client was made.)
GetAPIClient(q) == UseClient(q, OwnOrDefault(q), defaultRT)

\* The request leaves for Prometheus.
Send(q) ==
  /\ Goto(q, "sending", "waiting")
  /\ wire' = [wire EXCEPT ![q] = rt[q]]
  /\ UNCHANGED <<defaultRT, path, header, rt, result, isError, ctxVars, metrics>>

CtxDone(q) == cancelled[q] \/ expired[q]

\* The API request is over: Prometheus answered (200, or an error), ...
Respond(q) ==
  /\ Goto(q, "waiting", "returned")
  /\ \E res \in {"ok", "refused"} : result' = [result EXCEPT ![q] = res]
  /\ UNCHANGED <<defaultRT, path, header, rt, wire, isError, ctxVars, metrics>>

Lose(q, to) ==
  /\ stage' = [stage EXCEPT ![q] = to]
  /\ result' = [result EXCEPT ![q] = "lost"]
  /\ UNCHANGED <<defaultRT, path, header, rt, wire, ctxVars, metrics>>

\* Mutant of GiveUp: the request is made with the parent context.
GiveUpOnCancel(q) ==
  /\ stage[q] \in {"sending", "waiting"}
  /\ cancelled[q]
  /\ Lose(q, "returned") /\ UNCHANGED isError

\* ... or its context is done, before or after it was sent, ...
GiveUp(q) ==
  /\ stage[q] \in {"sending", "waiting"}
  /\ CtxDone(q)
  /\ Lose(q, "returned") /\ UNCHANGED isError

\* ... or the connection broke.
Break(q) == stage[q] = "waiting" /\ Lose(q, "returned") /\ UNCHANGED isError

\* Mutant of ReturnLost: the client library's errors return early as well.
ReturnLostAnywhere(q) ==
  /\ result[q] = "lost"
  /\ Goto(q, "returned", "handled")
  /\ isError' = [isError EXCEPT ![q] = TRUE]
  /\ UNCHANGED <<defaultRT, path, header, rt, wire, result, ctxVars, metrics>>

\* doHTTPRequest returns a transport error before it has touched a metric.
ReturnLost(q) ==
  /\ path[q] = "raw" /\ result[q] = "lost"
  /\ Goto(q, "returned", "handled")
  /\ isError' = [isError EXCEPT ![q] = TRUE]
  /\ UNCHANGED <<defaultRT, path, header, rt, wire, result, ctxVars, metrics>>

\* metricAPICallDuration.Observe
ObserveAPI(q) ==
  /\ path[q] = "client" \/ result[q] # "lost"
  /\ Goto(q, "returned", "observed")
  /\ apiCalls' = [apiCalls EXCEPT ![path[q]] = @ + 1]
  /\ UNCHANGED <<defaultRT, callVars, ctxVars, apiFailed, toolMetrics, methodMetrics, scraped>>

\* Mutant of CountAPIFailure: the failure is counted before the duration is
\* observed.
CountBeforeObserve(q) ==
  /\ result[q] # "ok"
  /\ \/ /\ stage[q] = "returned" /\ ~isError[q]
        /\ apiFailed' = [apiFailed EXCEPT ![path[q]] = @ + 1]
        /\ UNCHANGED stage
     \/ Goto(q, "observed", "handled") /\ UNCHANGED apiFailed
  /\ isError' = [isError EXCEPT ![q] = TRUE]
  /\ UNCHANGED <<defaultRT, path, header, rt, wire, result, ctxVars,
                 apiCalls, toolMetrics, methodMetrics, scraped>>

\* if err != nil (raw: status # 200): metricAPICallsFailed.Inc
CountAPIFailure(q) ==
  /\ result[q] # "ok"
  /\ Goto(q, "observed", "handled")
  /\ apiFailed' = [apiFailed EXCEPT ![path[q]] = @ + 1]
  /\ isError' = [isError EXCEPT ![q] = TRUE]
  /\ UNCHANGED <<defaultRT, path, header, rt, wire, result, ctxVars,
                 apiCalls, toolMetrics, methodMetrics, scraped>>

\* The client library has read the body; doHTTPRequest has yet to.
APISucceeded(q) ==
  /\ result[q] = "ok"
  /\ Goto(q, "observed", IF path[q] = "raw" THEN "reading" ELSE "formatting")
  /\ UNCHANGED <<defaultRT, callVars, ctxVars, metrics>>

ReadBody(q) ==
  /\ Goto(q, "reading", "formatting")
  /\ UNCHANGED <<defaultRT, callVars, ctxVars, metrics>>

\* Mutant of ReadBodyFails: what was read so far is the answer.
ReadBodyPartly(q) ==
  stage[q] = "reading" /\ Lose(q, "handled") /\ UNCHANGED isError

\* The body breaks off, or is not the JSON document it should be.
ReadBodyFails(q) ==
  /\ stage[q] = "reading"
  /\ Lose(q, "handled")
  /\ isError' = [isError EXCEPT ![q] = TRUE]

\* FormatOutput, which may fail to encode the result.
FormatOutput(q) ==
  /\ Goto(q, "formatting", "handled")
  /\ \E err \in BOOLEAN : isError' = [isError EXCEPT ![q] = err]
  /\ UNCHANGED <<defaultRT, path, header, rt, wire, result, ctxVars, metrics>>

\* telemetryHandleToolCall, after the handler: metricToolCallDuration.Observe.
\* The context that the timeout was on is gone with the handler.
ObserveTool(q) ==
  /\ path[q] \in Paths
  /\ Goto(q, "handled", "measured")
  /\ toolCalls' = toolCalls + 1
  /\ expired' = [expired EXCEPT ![q] = FALSE]
  /\ UNCHANGED <<defaultRT, callVars, cancelled, toolFailed, apiMetrics, methodMetrics, scraped>>

\* Mutant of CountFailure: a lost request counts as a cancellation.
CountUnlessDone(q) ==
  /\ path[q] \in Paths
  /\ Goto(q, "measured", "done")
  /\ toolFailed' = toolFailed + (IF ~cancelled[q] /\ result[q] # "lost" /\ isError[q] THEN 1 ELSE 0)
  /\ UNCHANGED <<defaultRT, callVars, ctxVars, toolCalls, apiMetrics, methodMetrics, scraped>>

\* A call its client has cancelled is no failure.  The API call's timeout
\* is on a context derived from this one and does not show here.
CountFailure(q) ==
  /\ path[q] \in Paths
  /\ Goto(q, "measured", "done")
  /\ toolFailed' = toolFailed + (IF ~cancelled[q] /\ isError[q] THEN 1 ELSE 0)
  /\ UNCHANGED <<defaultRT, callVars, ctxVars, toolCalls, apiMetrics, methodMetrics, scraped>>

\* telemetryHandleResourceRead, telemetryHandlePromptGet, ...PromptList:
\* these count an error whether or not its client has cancelled.
ObserveMethod(q) ==
  /\ path[q] = "method"
  /\ Goto(q, "handled", "measured")
  /\ methodCalls' = methodCalls + 1
  /\ UNCHANGED <<defaultRT, callVars, ctxVars, methodFailed, apiMetrics, toolMetrics, scraped>>

CountMethodFailure(q) ==
  /\ path[q] = "method"
  /\ Goto(q, "measured", "done")
  /\ methodFailed' = methodFailed + (IF isError[q] THEN 1 ELSE 0)
  /\ UNCHANGED <<defaultRT, callVars, ctxVars, methodCalls, apiMetrics, toolMetrics, scraped>>

\* notifications/cancelled, or the client disconnects.
Cancel(q) ==
  /\ stage[q] \notin {"none", "done"} /\ ~cancelled[q]
  /\ cancelled' = [cancelled EXCEPT ![q] = TRUE]
  /\ UNCHANGED <<defaultRT, stage, callVars, expired, metrics>>

\* context.WithTimeout(ctx, s.apiTimeout)
Expire(q) ==
  /\ stage[q] \in {"sending", "waiting", "reading"} /\ ~expired[q]
  /\ expired' = [expired EXCEPT ![q] = TRUE]
  /\ UNCHANGED <<defaultRT, stage, callVars, cancelled, metrics>>

CallsOf(f) == CASE f = "tool"   -> toolCalls
                [] f = "method" -> methodCalls
                [] OTHER        -> apiCalls[f]

FailedOf(f) == CASE f = "tool"   -> toolFailed
                 [] f = "method" -> methodFailed
                 [] OTHER        -> apiFailed[f]

\* A scrape of /metrics reads the failures of a family.  It reads each metric
\* at a moment of its own, in an order that is not fixed; what it reads of
\* the calls is the counter of some other moment.
Gather(f) ==
  /\ scraped' = [scraped EXCEPT ![f] = FailedOf(f)]
  /\ UNCHANGED <<defaultRT, stage, callVars, ctxVars,
                 toolMetrics, apiMetrics, methodMetrics>>

(***************************************************************************)
(* The specification.  Prometheus may never answer, nor finish a body.     *)
(***************************************************************************)
Handle(q) == \/ Reject(q) \/ Answer(q) \/ GetAPIClient(q) \/ Send(q) \/ GiveUp(q)
             \/ ReturnLost(q) \/ ObserveAPI(q) \/ CountAPIFailure(q)
             \/ APISucceeded(q) \/ FormatOutput(q)
             \/ ReadBodyFails(q) /\ CtxDone(q)
             \/ ObserveTool(q) \/ CountFailure(q)
             \/ ObserveMethod(q) \/ CountMethodFailure(q)

Upstream(q) == Respond(q) \/ Break(q) \/ ReadBody(q) \/ ReadBodyFails(q)

Terminated == (\A q \in Calls : stage[q] = "done") /\ UNCHANGED vars

Next == \/ \E q \in Calls : \/ Receive(q) \/ Cancel(q) \/ Expire(q)
                            \/ Handle(q) \/ Upstream(q)
        \/ \E f \in Families : Gather(f)
        \/ Terminated

Spec == Init /\ [][Next]_vars

\* Goroutines run and timers fire.
Fairness == \A q \in Calls : WF_vars(Handle(q)) /\ WF_vars(Expire(q))

FairSpec == Spec /\ Fairness

(***************************************************************************)
(* Properties.                                                             *)
(***************************************************************************)
\* Whatever other calls do meanwhile, what Prometheus is sent for a call is
\* the credential of the very request that carried it, and the configured
\* one when it carried none (middleware.go:299-306).
CredentialsKept ==
  \A q \in Calls :
    wire[q] # NoCred => wire[q] = IF header[q] = NoCred THEN Default ELSE header[q]

\* The failures that a scrape has read are never more than the calls it reads
\* after them, or that the next scrape reads, in the middle of whatever
\* calls: durations are observed before failures are counted.  (A scrape that
\* reads the calls first may itself show a failure too many.)
FailuresBacked == \A f \in Families : scraped[f] <= CallsOf(f)

Done(q) == stage[q] = "done"

\* Requests measured, and the errors among those that are over.
Measured(paths) == {q \in Calls : path[q] \in paths /\ stage[q] \in {"measured", "done"}}
ToolErrors      == {q \in Calls : path[q] \in Paths /\ Done(q) /\ isError[q] /\ ~cancelled[q]}
MethodErrors    == {q \in Calls : path[q] = "method" /\ Done(q) /\ isError[q]}

\* Every call is measured once; the failures counted are the errors, timeouts
\* included, of the tool calls whose client was still there to the end
\* (README.md:355, middleware.go:169-175), and all those of other methods.
ErrorsCounted ==
  /\ toolCalls = Cardinality(Measured(Paths))
  /\ methodCalls = Cardinality(Measured({"method"}))
  /\ toolFailed = Cardinality(ToolErrors)
  /\ methodFailed = Cardinality(MethodErrors)

\* The client of a tool is told of success only if Prometheus answered its
\* own request with success, to the end of the body.
SuccessIsUpstream ==
  \A q \in Calls :
    Done(q) /\ path[q] \in Paths /\ ~isError[q] =>
      result[q] = "ok" /\ wire[q] # NoCred

FailedOn(p) == {q \in Calls : /\ path[q] = p
                              /\ stage[q] \in {"handled", "measured", "done"}
                              /\ result[q] \in {"refused", "lost"}}

\* Through the client library every failed API call is counted, timeouts
\* and cancelled ones included.
ClientFailuresCounted == apiFailed["client"] = Cardinality(FailedOn("client"))

\* "Total number of Prometheus API failures, per endpoint" (handlers.go:46):
\* the same for doHTTPRequest.
RawFailuresCounted == apiFailed["raw"] = Cardinality(FailedOn("raw"))

\* The inductive invariant behind these properties (ToolCalls_proofs): from
\* its client on, a call keeps the credential it is to be sent with; a result
\* of "ok" is that of a request that was sent; the counters are exact.
Credential(q) == IF header[q] = NoCred THEN Default ELSE header[q]

CredentialOK(q) ==
  /\ stage[q] \in {"none", "called"} => wire[q] = NoCred
  /\ stage[q] \in {"sending", "waiting"} => rt[q] = Credential(q)
  /\ wire[q] \in {NoCred, Credential(q)}

ResultOK(q) ==
  /\ stage[q] = "waiting" => wire[q] # NoCred
  /\ stage[q] \in {"none", "called", "sending", "waiting"} => result[q] = "none"
  /\ result[q] = "ok" => wire[q] # NoCred
  /\ stage[q] \in {"returned", "observed"} => result[q] # "none"
  /\ stage[q] \in {"reading", "formatting"} => result[q] = "ok"
  /\ stage[q] = "reading" => path[q] = "raw"
  /\ stage[q] \in {"handled", "measured", "done"} /\ ~isError[q] /\ path[q] \in Paths =>
       result[q] = "ok"
  /\ stage[q] \in {"sending", "waiting", "returned", "observed", "reading", "formatting"} =>
       path[q] \in Paths

\* No counter is ahead of the other: an API call that failed has been
\* observed, and one that is observed has yet to fail.
Observed(p) == {q \in Calls : path[q] = p /\ stage[q] = "observed"}

CountersOK ==
  /\ ErrorsCounted
  /\ ClientFailuresCounted
  /\ \A p \in Paths : apiFailed[p] + Cardinality(Observed(p)) <= apiCalls[p]
  /\ \A f \in Families : scraped[f] <= FailedOf(f)

IInv ==
  /\ TypeOK
  /\ defaultRT = Default
  /\ \A q \in Calls : CredentialOK(q) /\ ResultOK(q)
  /\ CountersOK

\* Every call is answered, even if Prometheus never is heard of again.
CallsAnswered == \A q \in Calls : stage[q] = "called" ~> stage[q] = "done"

=============================================================================
