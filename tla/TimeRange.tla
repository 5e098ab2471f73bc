------------------------------ MODULE TimeRange ------------------------------
(***************************************************************************)
(* The time arguments of the query tools: the handlers in                  *)
(* pkg/mcp/handlers.go that parse them, apply defaults and choose the step *)
(* of a range query, with the parser in pkg/prometheus/utils.go.           *)
(*                                                                         *)
(* Every relative expression and every default reads the clock for itself, *)
(* and the clock moves between two readings.  Times are integers in ticks, *)
(* 0 being the moment the call arrives.                                    *)
(***************************************************************************)
EXTENDS Integers

CONSTANTS TimeArgs,    \* time arguments: [form, by]
          StepArgs,    \* step arguments: NoStep, BadStep or ticks
          NoStep,      \* the step argument is ""
          BadStep,     \* the step argument cannot be parsed
          Unset,       \* the zero time.Time, which a request leaves out
          Second,      \* ticks per second
          DataPoints,  \* defaultRangeQueryDataPoints
          Lookback,    \* DefaultLookbackDelta, negative
          MaxDuration, \* the largest time.Duration, where Time.Sub saturates
          MaxDelay     \* bound: ticks that pass during a call

Forms == {"empty", "bad", "at", "duration", "now"}

ASSUME TimeAssumption ==
  /\ TimeArgs \subseteq [form : Forms, by : Int]
  /\ \A arg \in TimeArgs : arg.form \in {"duration", "now"} => arg.by \in -MaxDuration..MaxDuration
  /\ Unset \in Int /\ Unset < -MaxDuration
  /\ NoStep \notin Int /\ BadStep \notin Int /\ NoStep # BadStep
  /\ StepArgs \subseteq Int \cup {NoStep, BadStep}
  /\ Second \in Nat \ {0} /\ DataPoints \in Nat \ {0}
  /\ Lookback \in Int /\ Lookback < 0
  /\ MaxDuration \in Nat /\ MaxDelay \in Nat

\* "series" stands for label_names and label_values, too.
Tools   == {"query", "range_query", "exemplar_query", "series", "delete_series"}
Listing == {"series", "delete_series"}

VARIABLES
  clock,            \* time.Now()
  tool,             \* the tool called
  startArg, endArg, \* its start_time and end_time (or timestamp) arguments
  stepArg,          \* its step argument
  phase,            \* "called", "end", "start", "step", "sent", "rejected"
  startTs, endTs,   \* the times parsed
  nowRead,          \* the time.Now() evaluated for a default
  step              \* the step of a range query

args == <<tool, startArg, endArg, stepArg>>
vars == <<clock, args, phase, startTs, endTs, nowRead, step>>

TypeOK ==
  /\ clock \in 0..MaxDelay
  /\ tool \in Tools
  /\ startArg \in TimeArgs /\ endArg \in TimeArgs /\ stepArg \in StepArgs
  /\ phase \in {"called", "end", "start", "step", "sent", "rejected"}
  /\ startTs \in Int /\ endTs \in Int /\ nowRead \in Int /\ step \in Int

Init ==
  /\ clock = 0
  /\ tool \in Tools
  /\ startArg \in TimeArgs /\ endArg \in TimeArgs /\ stepArg \in StepArgs
  \* An instant query has one timestamp, only a range query has a step.
  /\ tool = "query" => startArg.form = "empty"
  /\ tool # "range_query" => stepArg = NoStep
  /\ phase = "called"
  /\ startTs = Unset /\ endTs = Unset /\ nowRead = 0 /\ step = 0

Answering == phase \notin {"sent", "rejected"}

Tick ==
  /\ Answering /\ clock < MaxDelay
  /\ clock' = clock + 1
  /\ UNCHANGED <<args, phase, startTs, endTs, nowRead, step>>

\* Mutant of Abs: a duration keeps its sign.
AbsKept(d) == d

\* time.Duration.Abs
Abs(d) == IF d < 0 THEN -d ELSE d

\* parseTimeWithDefault, ParseTimestampOrDuration and parseNowExpression on
\* an argument they accept: a duration always lies in the past.
ParseTime(arg, default) ==
  IF arg.form = "empty" THEN default
  ELSE IF arg.form = "at" THEN arg.by
  ELSE IF arg.form = "duration" THEN clock - Abs(arg.by)
  ELSE clock + arg.by

Goto(p) == phase' = p

\* Mutant of Called: one of the two bounds is enough.
CalledOneBound ==
  /\ phase = "called"
  /\ IF tool = "delete_series" /\ startArg.form = "empty" /\ endArg.form = "empty"
     THEN Goto("rejected")
     ELSE Goto(IF tool \in Listing THEN "start" ELSE "end")
  /\ nowRead' = clock
  /\ UNCHANGED <<clock, args, startTs, endTs, step>>

\* The handler's entry: delete_series wants both bounds; the other tools
\* outside Listing evaluate time.Now() as the default of their end.
Called ==
  /\ phase = "called"
  /\ IF tool = "delete_series" /\ (startArg.form = "empty" \/ endArg.form = "empty")
     THEN Goto("rejected")
     ELSE Goto(IF tool \in Listing THEN "start" ELSE "end")
  /\ nowRead' = clock
  /\ UNCHANGED <<clock, args, startTs, endTs, step>>

Reject(arg) ==
  /\ arg.form = "bad"
  /\ Goto("rejected")
  /\ UNCHANGED <<clock, args, startTs, endTs, nowRead, step>>

\* An instant query has its one timestamp, a listing its second bound.
ParseEnd ==
  /\ phase = "end"
  /\ endArg.form # "bad"
  /\ endTs' = ParseTime(endArg, IF tool \in Listing THEN Unset ELSE nowRead)
  /\ Goto(IF tool \in {"range_query", "exemplar_query"} THEN "start" ELSE "sent")
  /\ UNCHANGED <<clock, args, startTs, nowRead, step>>

\* Mutant of ParseStart: the default reaches back from now.
ParseStartFromNow ==
  /\ phase = "start"
  /\ startArg.form # "bad"
  /\ startTs' = ParseTime(startArg, IF tool \in Listing THEN Unset ELSE clock + Lookback)
  /\ Goto(IF tool \in Listing THEN "end" ELSE IF tool = "range_query" THEN "step" ELSE "sent")
  /\ UNCHANGED <<clock, args, endTs, nowRead, step>>

\* The default reaches back from the end of the range.
ParseStart ==
  /\ phase = "start"
  /\ startArg.form # "bad"
  /\ startTs' = ParseTime(startArg, IF tool \in Listing THEN Unset ELSE endTs + Lookback)
  /\ Goto(IF tool \in Listing THEN "end" ELSE IF tool = "range_query" THEN "step" ELSE "sent")
  /\ UNCHANGED <<clock, args, endTs, nowRead, step>>

RejectTime == \/ phase = "end" /\ Reject(endArg)
              \/ phase = "start" /\ Reject(startArg)

\* Time.Sub saturates.
Sub(t, u) ==
  IF t - u > MaxDuration THEN MaxDuration
  ELSE IF t - u < -MaxDuration - 1 THEN -MaxDuration - 1
  ELSE t - u

\* Mutant of AutoStep: no minimum.
AutoStepFloor(start, end) == (Sub(end, start) \div (Second * DataPoints)) * Second

\* Whole seconds, rounded down, one at least.
AutoStep(start, end) ==
  LET resolution == Sub(end, start) \div (Second * DataPoints)
  IN  (IF resolution < 1 THEN 1 ELSE resolution) * Second

ChooseStep ==
  /\ phase = "step"
  /\ \/ /\ stepArg = NoStep
        /\ step' = AutoStep(startTs, endTs)
     \/ /\ stepArg \in Int /\ stepArg > 0
        /\ step' = stepArg
  /\ Goto("sent")
  /\ UNCHANGED <<clock, args, startTs, endTs, nowRead>>

RejectStep ==
  /\ phase = "step"
  /\ stepArg # NoStep
  /\ stepArg \in Int => stepArg <= 0
  /\ Goto("rejected")
  /\ UNCHANGED <<clock, args, startTs, endTs, nowRead, step>>

Terminated == ~Answering /\ UNCHANGED vars

Next == \/ Tick \/ Called \/ ParseEnd \/ ParseStart \/ RejectTime
        \/ ChooseStep \/ RejectStep \/ Terminated

Spec == Init /\ [][Next]_vars

-----------------------------------------------------------------------------

Sent == phase = "sent"

\* What an argument means relative to "now", where it is relative: a duration
\* without regard to its sign, and "" for the end of a query.
IsRelative(arg, default) ==
  arg.form \in {"duration", "now"} \/ (arg.form = "empty" /\ default)
Offset(arg) ==
  IF arg.form = "duration" THEN (IF arg.by < 0 THEN arg.by ELSE -arg.by)
  ELSE IF arg.form = "now" THEN arg.by ELSE 0

\* Points Prometheus returns per series.
Points == ((endTs - startTs) \div step) + 1

\* The step is positive, whatever the range.  An automatic step makes at most
\* twice the points aimed at, however short the range, and at least as many
\* where a step of a second can (handlers.go:73-76, 209-212); a range too
\* long for a time.Duration is out of its reach.
StepSound ==
  Sent /\ tool = "range_query" =>
    /\ step > 0
    /\ stepArg = NoStep /\ endTs - startTs \in 0..MaxDuration =>
         /\ Points <= 2 * DataPoints
         /\ endTs - startTs >= Second * DataPoints => Points > DataPoints

\* Relative bounds keep their order although each reads the clock for itself:
\* they are reversed by no more than the time the call has taken, and not at
\* all where the start is read first.  A start left out never lies behind the
\* end, whatever the end is.
OrderKept ==
  Sent /\ tool # "query" /\ startTs # Unset /\ endTs # Unset =>
    /\ IsRelative(startArg, FALSE) /\ IsRelative(endArg, tool \notin Listing)
         /\ Offset(startArg) <= Offset(endArg) =>
           startTs <= endTs + (IF tool \in Listing THEN 0 ELSE clock)
    /\ startArg.form = "empty" => startTs < endTs

\* delete_series is not sent without one of its bounds ("prevent accidental
\* deletion of all data", handlers.go:410-415), unless its client wrote out
\* the very time that stands for none, "0001-01-01T00:00:00Z": the handler
\* checks the arguments, the request is made from the times parsed.
WroteZeroTime(arg) == arg.form = "at" /\ arg.by = Unset

DeletionBounded ==
  Sent /\ tool = "delete_series" =>
    /\ startTs = Unset => WroteZeroTime(startArg)
    /\ endTs = Unset => WroteZeroTime(endArg)

\* A start_time left out "Defaults to 5m ago" (types.go:29), also for the
\* tools that list series and labels.
StartDefaultsToLookback ==
  Sent /\ tool = "series" /\ startArg.form = "empty" =>
    startTs # Unset /\ startTs \in Lookback..(clock + Lookback)

\* The inductive invariant behind the three properties: a time parsed from an
\* absolute argument is that time, one from a relative argument is that far
\* from a moment within the call.
Parsed(arg, default, t) ==
  /\ arg.form # "bad"
  /\ arg.form = "at" => t = arg.by
  /\ IsRelative(arg, default) => t \in Offset(arg)..(clock + Offset(arg))

HasStart ==
  \/ tool \in Listing /\ phase \in {"end", "sent"}
  \/ tool \in {"range_query", "exemplar_query"} /\ phase \in {"step", "sent"}
HasEnd ==
  \/ phase = "sent"
  \/ tool \notin Listing /\ phase \in {"start", "step"}

IInv ==
  /\ TypeOK
  /\ 0 <= nowRead /\ nowRead <= clock
  /\ tool \in Listing => phase # "step"
  /\ phase = "step" => tool = "range_query"
  /\ tool = "query" => phase # "start"
  /\ HasEnd =>
       Parsed(endArg, tool \notin Listing, endTs)
  /\ HasStart =>
       /\ Parsed(startArg, FALSE, startTs)
       /\ startArg.form = "empty" =>
            startTs = IF tool \in Listing THEN Unset ELSE endTs + Lookback
  /\ Sent => OrderKept
  /\ tool = "delete_series" /\ phase \notin {"called", "rejected"} =>
       startArg.form # "empty" /\ endArg.form # "empty"
  /\ Sent /\ tool = "range_query" =>
       \/ stepArg = NoStep /\ step = AutoStep(startTs, endTs)
       \/ stepArg # NoStep /\ step > 0

=============================================================================
