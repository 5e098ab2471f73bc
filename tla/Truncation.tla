------------------------------ MODULE Truncation ------------------------------
(***************************************************************************)
(* How much of an API response reaches the client (pkg/mcp/handlers.go):   *)
(* GetEffectiveTruncationLimit, truncateStringByLines and the warning for  *)
(* the tools that render text, the limit handed to Prometheus for the two  *)
(* metadata tools, whose responses the server itself never cuts.           *)
(*                                                                         *)
(* A text is what truncation can tell apart: its terminated lines and      *)
(* whether an unterminated one follows.                                    *)
(***************************************************************************)
EXTENDS Integers

CONSTANTS GlobalLimits,  \* values of --prometheus.truncation-limit
          CallLimits,    \* values of the truncation_limit / limit argument
          Unset,         \* the limit argument of a metadata tool is ""
          MaxEntries     \* bound: entries (series, labels, metrics) of a result

ASSUME LimitAssumption ==
  GlobalLimits \subseteq Int /\ CallLimits \subseteq Int /\ Unset \notin Int /\ MaxEntries \in Nat

\* Tools by how they render their entries: joined by newlines, each with a
\* newline of its own, or encoded as a whole.
Tools == {"query", "range_query", "series", "label_names", "label_values",
          "exemplar_query", "metric_metadata", "targets_metadata"}
MetadataTools == {"metric_metadata", "targets_metadata"}

Text   == [lines : Nat, tail : BOOLEAN]
Lines(t) == t.lines + (IF t.tail THEN 1 ELSE 0)

\* The text of n > 0 one-line entries, or of none.
Render(tool, n) ==
  IF tool = "exemplar_query" \/ n = 0
  THEN [lines |-> n, tail |-> FALSE]
  ELSE [lines |-> n - 1, tail |-> TRUE]

GetEffectiveTruncationLimit(globalLimit, perCallLimit) ==
  IF perCallLimit = 0 THEN globalLimit ELSE IF perCallLimit < 0 THEN 0 ELSE perCallLimit

\* Mutant of TruncateStringByLines: off by one.
TruncateBehind(s, limit) ==
  IF limit <= 0 \/ s.lines <= limit
  THEN [text |-> s, truncated |-> FALSE]
  ELSE [text |-> [lines |-> limit, tail |-> FALSE], truncated |-> TRUE]

\* Cut behind the limit-th newline, if there is one.
TruncateStringByLines(s, limit) ==
  IF limit <= 0 \/ s.lines < limit
  THEN [text |-> s, truncated |-> FALSE]
  ELSE [text |-> [lines |-> limit, tail |-> FALSE], truncated |-> TRUE]

\* The limit of a metadata call, 0 for none: "" stands for the global limit,
\* a negative number for none.
MetadataLimit(globalLimit, limitArg) ==
  LET asked == IF limitArg = Unset THEN globalLimit ELSE limitArg
  IN  IF asked < 0 THEN 0 ELSE asked

VARIABLES
  truncationLimit, \* ServerContainer.truncationLimit
  phase,     \* "called", "limited", "fetched", "answered"
  tool, arg, \* the tool call and its limit argument
  byMetric,  \* its metric argument is set
  limit,     \* the limit in effect, 0 for none
  entries,   \* entries there are
  fetched,   \* entries Prometheus returned
  shown,     \* the text in the answer (not for the metadata tools)
  warned     \* the answer carries displayTruncationWarning(limit)

call == <<truncationLimit, tool, arg, byMetric, entries>>
vars == <<call, phase, limit, fetched, shown, warned>>

Empty == [lines |-> 0, tail |-> FALSE]

TypeOK ==
  /\ truncationLimit \in GlobalLimits
  /\ phase \in {"called", "limited", "fetched", "answered"}
  /\ tool \in Tools /\ arg \in CallLimits \cup {Unset} /\ byMetric \in BOOLEAN
  /\ limit \in Int /\ fetched \in Nat
  /\ entries \in 0..MaxEntries
  /\ shown \in Text /\ warned \in BOOLEAN

Init ==
  /\ truncationLimit \in GlobalLimits
  /\ phase = "called"
  /\ tool \in Tools /\ arg \in CallLimits \cup {Unset} /\ byMetric \in BOOLEAN
  /\ arg = Unset => tool \in MetadataTools
  /\ byMetric => tool \in MetadataTools
  /\ entries \in 0..MaxEntries
  \* Metadata by metric name is a single entry.
  /\ byMetric /\ tool = "metric_metadata" => entries <= 1
  /\ limit = 0 /\ fetched = 0 /\ shown = Empty /\ warned = FALSE

\* The handler works out the limit.
Limit ==
  /\ phase = "called" /\ phase' = "limited"
  /\ limit' = IF tool \in MetadataTools
              THEN MetadataLimit(truncationLimit, arg)
              ELSE GetEffectiveTruncationLimit(truncationLimit, arg)
  /\ UNCHANGED <<call, fetched, shown, warned>>

\* What Prometheus may return of n entries.  Without a limit, all; the limit
\* of a metadata request it applies in its own way (for targets_metadata to
\* the targets it matches, types.go:157) and does not say whether it did
\* (handlers.go:845-846).  A response that it cut has the limit, or more.
Returned(n) == {k \in 0..n : k = n \/ (tool \in MetadataTools /\ limit > 0 /\ k >= limit)}

Fetch ==
  /\ phase = "limited" /\ phase' = "fetched"
  /\ fetched' \in Returned(entries)
  /\ UNCHANGED <<call, limit, shown, warned>>

\* formatTruncatedQueryAPIResponse
FormatTruncated ==
  /\ phase = "fetched" /\ phase' = "answered"
  /\ tool \notin MetadataTools
  /\ LET t == TruncateStringByLines(Render(tool, fetched), limit)
     IN  shown' = t.text /\ warned' = t.truncated
  /\ UNCHANGED <<call, limit, fetched>>

\* Mutant of FormatMetadata: an exact fit does not warn.
FormatMetadataExact ==
  /\ phase = "fetched" /\ phase' = "answered"
  /\ tool \in MetadataTools
  /\ warned' = /\ limit > 0 /\ fetched > limit
               /\ tool = "metric_metadata" => ~byMetric
  /\ UNCHANGED <<call, limit, fetched, shown>>

\* A full metadata response warns, unless it is that of one metric.
FormatMetadata ==
  /\ phase = "fetched" /\ phase' = "answered"
  /\ tool \in MetadataTools
  /\ warned' = /\ limit > 0 /\ fetched >= limit
               /\ tool = "metric_metadata" => ~byMetric
  /\ UNCHANGED <<call, limit, fetched, shown>>

Terminated == phase = "answered" /\ UNCHANGED vars

Next == Limit \/ Fetch \/ FormatTruncated \/ FormatMetadata \/ Terminated

Spec == Init /\ [][Next]_vars

-----------------------------------------------------------------------------

\* What of the entries an answer holds.
Delivered == IF tool \in MetadataTools THEN fetched ELSE Lines(shown)

\* Nothing is left out in silence: an answer without a warning is complete,
\* on the paths that cut text as on those where Prometheus applies the limit.
NoSilentLoss == phase = "answered" /\ ~warned => Delivered = entries

\* The limit asked for is the limit one gets, the argument or, when it is not
\* given, the global limit: of a text never more lines than that are delivered;
\* one that is 0 or negative turns every limit off, for text and metadata
\* (README.md:65-67, types.go:35).  How many entries of metadata come back under
\* a limit is up to Prometheus.
NotGiven == IF tool \in MetadataTools THEN arg = Unset ELSE arg = 0
Asked    == IF NotGiven THEN truncationLimit ELSE arg

LimitAsAsked ==
  phase = "answered" =>
    /\ tool \notin MetadataTools /\ Asked > 0 => Delivered <= Asked
    /\ Asked <= 0 => Delivered = entries /\ ~warned

\* The boolean of truncateStringByLines indicates "if truncation occurred"
\* (handlers.go:93).  A text that ends in its limit-th newline refutes it.
WarnedMeansCut ==
  phase = "answered" /\ tool \notin MetadataTools /\ warned => Delivered < entries

\* The inductive invariant behind these properties (Truncation_proofs): each
\* phase holds what the one before it worked out.
LimitOf == IF tool \in MetadataTools
           THEN MetadataLimit(truncationLimit, arg)
           ELSE GetEffectiveTruncationLimit(truncationLimit, arg)

IInv ==
  /\ TypeOK
  /\ arg = Unset => tool \in MetadataTools
  /\ byMetric /\ tool = "metric_metadata" => entries <= 1
  /\ phase # "called" => limit = LimitOf
  /\ phase \in {"fetched", "answered"} => fetched \in Returned(entries)
  /\ phase = "answered" =>
       IF tool \in MetadataTools
       THEN warned = /\ limit > 0 /\ fetched >= limit
                     /\ tool = "metric_metadata" => ~byMetric
       ELSE LET t == TruncateStringByLines(Render(tool, fetched), limit)
            IN  shown = t.text /\ warned = t.truncated

=============================================================================
