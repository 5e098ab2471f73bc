# A verification of prometheus-mcp

TLA+ models of `prometheus-mcp` (a Go server that offers a Prometheus API to MCP
clients as tools), the TLC configurations that check them on small instances, and
proofs, checked by TLAPS, for instances of every size. Every definition is
translated from the Go source; `PROJECT.json` maps each one to its lines.

    tlc -workers 2 -config DocsSystem.cfg MCDocsSystem.tla
    tlapm DocsUpdater_proofs.tla

## The system

| Part | State it keeps | Operations | What is hard |
|---|---|---|---|
| **Documentation state** (`server.go:472-610`, `docs.go`, `resources.go`, docs handlers) | `ServerContainer.docs`: a pointer to an immutable (file system, bleve index) pair; `docsMu`, an `RWMutex` | `buildDocsState`, `swapDocsState`, `SearchDocs`, `GetDocFileNames`, `GetDocFileContent` | handlers read while an update swaps; the old index is closed outside the lock; one search takes the lock several times |
| **Docs updater** (`docs_updater.go`, loop in `main.go:347-376`) | `currentHash`, `mu`, two metrics | `Update` = list refs, download, extract, build, swap, commit the hash | two requests see two states of upstream; failure half way; concurrent callers; cancellation |
| **Archive extraction** (`docs_updater.go:256-330`) | the files so far, a running total | filters, two limits, reading of contents | sizes claimed by headers, `int64` sums, duplicates, a stream that breaks off |
| **Process life cycle** (`main.go:224-424`, `SetReady`, `HandleReady`) | `ready` flag and gauge, root context, cancel channels, `run.Group` | start and end of four actors, interrupts, probes | every order of results, interrupts and start-up steps |
| **Toolset, instructions, admin gate** (`registration.go`, `instructions.go`, its template, admin handlers) | the selected toolset, immutable afterwards | `getToolset`, `renderInstructions`, `registerTools`, the calls | combinations of list, backend and flags |
| **Runbooks, skills, prompts** (`runbooks.go`, `prompts.go`, `resources.go`) | the registry of skills, built before `main` | load and validate; list; read as tool, resource, prompt | a skill is found by name in several places |
| **Requests** (`middleware.go`, `GetAPIClient`, API calls in `handlers.go`) | `defaultRT`, duration and failure metrics, one context per call | credential forwarding, the API call, its timeout, telemetry of tools and other methods | concurrent calls with different credentials; timeout, cancellation and answer race |
| **Time arguments** (`pkg/prometheus/utils.go`, query handlers) | none | parsing, defaults, automatic step | the clock moves between two readings; empty, reversed, saturating ranges |
| **Truncation** (`handlers.go`, `GetEffectiveTruncationLimit`) | the global limit | line truncation; limits handed to Prometheus | boundaries: zero, negative, exact fit, trailing newline |
| Client logging, tool definitions, error wording, metrics registry, test harness, packaging | counters, or immutable data | | nothing that interleaves |

How they interact. `main` builds the container with `NewServer` (which selects
the tools, registers the skills and installs the embedded documentation), then
starts the actors. The MCP actor's transport calls handlers in goroutines;
middleware puts the request's `Authorization` into its context, handlers take an
API client from the container and call Prometheus. The updater actor calls
`Update`, which extracts an archive and swaps the documentation that handlers
read. The web server answers `/-/ready` from the flag that the MCP actor and its
interrupt write.

## Modules

| Module | Models | State and actions |
|---|---|---|
| `DocsService` | abstract specification of the docs tools | `served`, `names`; `Publish` is one step, each container method is one step |
| `DocsState` | the documentation state as implemented | `docs`, `files`, `closed`; `docsMu` as `readLocks`, `parked`, `writer`; a program counter per reader and per swapper. One action per observable step: `RLock`, `Load` (`ds := s.docs`), the method's work, `RUnlock`; `Build`, `Announce`/`Lock`, `Replace`, `Unlock`, `CloseOld` |
| `DocsUpdater` | `Update`, main's loop and upstream | upstream is the log of heads of its branch; `docsAt` the log position of the served documentation, `hash`/`hashAt` the stored hash and where it was listed. One action per request, per way it fails, per local step |
| `DocsSystem` | the composition of the two | extends `DocsState`, whose swappers become the update loops, and instantiates `DocsUpdater` as `U`; every step is one of `DocsState`, of `U`, or of both: `Extract` builds a state, `U!SwapDocs` is taken apart into announce, lock, replace (`Install`), unlock, close. `Arrive` and `Handle` are the handlers' steps. `at` remembers what each state was built from, `floor` what was served when a call arrived |
| `Archive` | `extractDocsFromArchive` | one action per turn of the loop and per way it ends; reference definition by comprehension (`HoldsDocs`) |
| `Lifecycle` | the process around the server | a program counter per actor and one for `Group.Run`; `SetReady` is two writes and therefore two actions |
| `Toolset`, `Skills` | what a server offers | one step per stage of start-up (skills, selection, instructions, registration), then tool calls and skill reads; `Skills` holds the operators about skills |
| `ToolCalls` | concurrent requests | per call: header, round tripper, credential on the wire, result; metrics as counts and what a scrape has read of them; paths "client" (client library), "raw" (`doHTTPRequest`) and "method" (no tool) |
| `TimeRange` | one call with time arguments | a clock that ticks between steps; `phase` follows the handler through its parses in its order |
| `Truncation` | limits and warnings | one call per behaviour; a text is its number of terminated lines and whether an unterminated one follows |
| `*_proofs` | theorems about the module named | `Docs_proofs` is about `DocsState`, alone and in `DocsSystem`, and its refinement of `DocsService` |

The `MC*` modules give the constants their model values. Operators commented
*Mutant of X* are plausible bugs of X. They are not part of any next-state
relation: substituting one for X makes TLC report the property that
`PROJECT.json` pairs it with, which shows that the property can fail.

What stands behind a name, where it is not obvious:

- A **docsState** is the ordinal of its construction. Content is the set of file
  names and the identity of the state it comes from, enough to say which
  version an answer was made of. `buildDocsState` passes over files that it
  cannot read or index, so any subset of an archive's files may be served.
- `sync.RWMutex` is external code, modelled with Go's rule that a pending
  writer stops new readers and that `Unlock` lets all parked readers in. A
  writer announces itself and then drains the readers, in two steps.
- `oklog/run` is external: it waits for a first result, interrupts every actor
  in order of addition and collects the remaining results.
- A search returns any subset of the files of the state it ran on; the API
  answers with success, an error, or not at all; the body of a raw request may
  break off.
- The default HTTP transport is taken to leave alone an `Authorization` header
  that is already there. A configured OAuth2 transport is not modelled.
- An entry of an **archive** is a name, the set of filters it fails, and a
  size. Which string fails which filter is not modelled, what the loop does then
  is. A `.tar.gz` cut off anywhere, by the network or by the limit on the
  download, is `Unreadable`, possible at every turn.
- A **time argument** is a form (empty, unparsable, absolute, duration, `now`
  expression) and the number it denotes. The zero `time.Time`, which a request
  leaves out, is an ordinary absolute time (`Unset`) so that a client may write it.
- Upstream's branch does not return to an earlier commit (`Rewrites = FALSE`).
  With `TRUE` the guarantee of `UnchangedMeansCurrent` is lost: the hash is
  listed in one request and the archive fetched in another, so a branch that
  moves and is then forced back leaves the documentation of the other commit
  served under the first one's hash. The proof of it assumes `~Rewrites`.

## What the runs check

| Run | Instance | Shows |
|---|---|---|
| `docs_safety` | 2 readers, 2 swappers, 1 file, 3 states, symmetry | A search never uses a closed index although the close is outside the lock; every index is served, pending or closed in the end; an answer mixes versions only across a swap; `IInv` holds |
| `system` | 1 reader, 2 update loops, 1 file, 3 states, 2 heads, no faults, fairness | Time never runs backwards for a tool call (`NeverOlder`); at most two indexes are open, between updates one (`IndexesBounded`); the composition implements `DocsUpdater` and `DocsService`, liveness included |
| `updater` | 2 callers, 3 commits (one unusable), 3 heads, 2 transient faults, fairness | Failed updates change nothing and count once; the hash is never ahead of the docs; no redundant fetch; "up to date" is true; the docs converge if every listing ends; loops end; `IInv` holds |
| `archive` | all archives of up to 3 entries, sizes -1..3 and `MaxInt64` = 7, limits 3 bytes and 2 files, cut off anywhere | Limits hold at every turn; whole or error; an intact archive is refused for cause |
| `lifecycle` | all transports, updater on and off, one probe at a time (repeated), fairness | The process exits whichever actor ends first, with that actor's status; nobody is left behind; over http ready only when mounted; `IInv` holds |
| `toolset` | all lists of up to two of 7 names, 6 backends, admin flag; all pairs of skill directories out of 10, with every defect | Core tools always there, lists stay narrow; admin tools gated and absent for Thanos; a server that starts serves all its skills, the same by every way |
| `calls` | 2 requests, 2 credentials or none, fairness | No call is sent with another's credential; counters exact, and the failures a scrape has read never more than the calls it reads later; success only if upstream's; all calls answered; `IInv` holds |
| `timerange` | 15 time arguments for each bound, 6 steps, 5 tools, up to 3 ticks | The automatic step; the order of relative bounds; bounded deletions |
| `truncation` | limits -2..5, results of 0..4 entries, 8 tools | Nothing lost in silence, whoever applies the limit; no text longer than the limit asked for; a limit turned off cuts nothing |

The runs that find a disagreement each check one property the repository states:

| Run | Statement | What happens |
|---|---|---|
| `updater_noembed` | "Returns nil if docs are already up to date" (`docs_updater.go:156`) | The embedded docs fail to build (non-fatal); the updater still starts from their hash and reports "up to date" with no docs served, until upstream moves |
| `lifecycle_probe` | 503 "during shutdown" (`README.md:337`) | Readiness is withdrawn only after `srv.Shutdown` has returned; a probe in flight gets 200 |
| `lifecycle_signals` | `SetReady` keeps "the two signals consistent" (`server.go:426-428`) | Flag and gauge are two writes under no lock; those of the MCP actor's start and of its interrupt interleave, and the endpoint answers 503 while the gauge stays at 1 |

Properties that are stated in the modules, which TLC also finds violated when
they are added to the configuration as an `INVARIANT`:

- `GuidanceLoaded` (`Toolset`): "a narrowed toolset … never renders guidance for
  tools that aren't loaded" (`instructions.go:56-58`), but the template names
  `build_info` whenever no backend is set, and all three admin tools as soon as
  `delete_series` is loaded.
- `RawFailuresCounted` (`ToolCalls`): "Total number of Prometheus API failures,
  per endpoint" (`handlers.go:46`), but `doHTTPRequest` returns transport, timeout
  and body errors without counting them.
- `WarnedMeansCut` (`Truncation`): "a boolean indicating if truncation occurred"
  (`handlers.go:93`), but a text of exactly `limit` lines with a newline at its end,
  as `exemplar_query` renders it, is returned whole and declared truncated.
- `StartDefaultsToLookback` (`TimeRange`): `start_time` "Defaults to 5m ago"
  (`types.go:29`), but for `series`, `label_names` and `label_values` a missing
  start is sent as no bound at all.

Other observations:

- `delete_series` checks that its bounds are not empty, but a bound written as the
  zero time passes and is then left out of the request; `DeletionBounded`
  makes this exception explicit.
- An archive at the file-count limit is refused if another entry of a file it
  already holds follows; `RefusedForCause` counts entries, not files.
- A range longer than a `time.Duration` saturates, and its automatic step
  may then make any number of points; `StepSound` is about the ranges within.
- Cancelled tool calls are not counted as failures, cancelled requests of the
  other methods are (`ErrorsCounted`).
- `SetReady(true)` may also run as a whole after the interrupt's
  `SetReady(false)`: a server that is interrupted during start-up is then reported
  ready, by flag and gauge, until it exits. With stdio the flag is set before
  `Run` (`main.go:320-321`), so that 200 does not mean that the transport serves.
- The listing of an update has no timeout (`docs_updater.go:106`; only the download
  goes through the http client with one) and runs inside `Update`'s mutex: one
  that hangs ends all updates until shutdown. `Converges` is therefore
  conditional on `ListingsEnd`; without the condition TLC reports the hang.
- A scrape reads calls and failures one after the other in no fixed order
  (`main.go:407`); one that reads the calls first may show a failure too many.
  `FailuresBacked` is about the calls it, or the next one, reads after the failures.
- What Prometheus makes of the `limit` of a metadata call is its own affair, for
  `targets_metadata` it is a number of targets (`types.go:157`). The model assumes
  only that a response it has cut holds at least that many entries, which is
  what the warning relies on (`handlers.go:845-847`).
- The web server's `/docs/` pages are the embedded documentation for good; an
  update changes only what the tools and resources serve.

### Bounds

- `MaxStates` (docs): 3 states allow a swap on top of a swap by the other
  swapper while a reader is still inside; the properties relate at most one
  reader's snapshot, the served state and one retiring state. The proofs remove
  this bound for safety.
- `system`: two loops contend for both mutexes while one reader is inside; two
  updates can follow one another. Failures are left to `updater` (`MaxFaults = 0`):
  they take no part in the swap.
- `MaxMoves` (updater): three heads let the branch move between listing and
  download and once more afterwards. `MaxFaults = 2` gives each caller a transient
  fault in addition to an unusable archive and to cancellation; faults must be
  finite, and listings end, for `Converges`. `MaxCount = 3` bounds the failure counter, which then
  saturates; it is compared with its value at the start of the same update.
- `archive`: three entries are a first one, one at a limit and one beyond it, or
  two of one name and another; one size makes a sum overflow.
- `timerange`: `MaxDelay = 3` ticks allow one between any two readings;
  `MaxDuration = 50` is shorter than the longest range, so that
  saturation happens; ranges lie below, at and above `Second * DataPoints`.
- `ToolCalls`: two calls are what a credential mix-up needs; counters are bounded
  by the calls. `Lifecycle` is finite by itself, the probe restarts. In
  `Truncation` limits reach below and above every size.

No run turns deadlock checking off: a system that may stop says so in a
`Terminated` step that needs every process to have ended.

### Fairness

Goroutines that can run are run (weak fairness of their steps). Beyond that:
`SF(Lock)` in `DocsUpdater` is Go's mutex starvation mode; `SF(Stop)` and
`SF(UpdaterStops)` say that a `select` entered again and again picks among ready
cases at random and so does not ignore a done context for ever; `WF(Tick)` is
the ticker; `WF(Expire)` in `ToolCalls` is a timer. `WF(Due)` obliges a download to
end, by itself or by the 300-second timeout of its client, and with success once
the finite faults are spent; the listing, which has no timeout, only when the
root context is done. In `Lifecycle` likewise an update need not end before the
context is done (`WF(ctxDone /\ UpdateOver)`); `WF(Interrupt)` rests on the
ten-second timeout of `srv.Shutdown`. `DocsSystem` assumes
for handlers and loops what its parts assume, and nothing for the lock between
them: that a swap ends follows. Nothing obliges clients, scrapes, Prometheus or signals to
act, nor upstream's branch to move.

## What is proved

Eight modules hold theorems; every invariant of a passing run is a theorem of
one of them. They assume only what the modules declare about their constants:
sentinels are distinct from ordinary values, bounds are naturals, calls and
actors are finitely many, directories hold entries. The numbers of readers,
update loops, files, states, callers, commits, calls, credentials, archive
entries, tools listed and skills, and all limits and times are arbitrary. In each
module `Invariance` is `Spec => []IInv` for the inductive invariant that stands
next to the properties in the component's module, with one lemma per action (or
per conjunct).

**`Docs_proofs`**, first about `DocsState`: `TypeCorrect`, `SearchesOpenIndex`
(`NoSearchOnClosedIndex`), `TornOnlyAcrossSwaps` (`TornOnlyBySwap`),
`IndexesAccountedFor` (`NoIndexLeak`), `ServedForGood` (`Spec => NeverUnserved`).
None of the properties is inductive. `NoSearchOnClosedIndex` needs that the
snapshot of a reader inside is still the served state (`SnapInv`), which needs
that a writer replaces the pointer with no reader inside (`LockInv`), and that
the served state is not closed, which needs that the state a swapper is about to
close is not served (`PlaceInv`): a state is pending, served, retiring or
closed, one at a time. `TornOnlyBySwap` needs in addition that the files a
search has still to read are in the state it ran on, and that this state cannot
become served again (`SearchInv`).

`RefinesService` is `Spec => Service!Spec`. The initial states map to initial
states of `DocsService`, each handler method maps to one step of it, `Replace`
maps to `Publish`, and every other step leaves the service's variables alone.
The reader's snapshot equals the served state (`SnapInv`), which is why the
service may look at what is served at the moment the work is done rather than
when the pointer was loaded.

Then about `DocsSystem`. Each step of the composition is one of `DocsState` or
leaves it alone (`SystemIsDocsState`), so that all of the above holds there, the
refinement of the service included (`SystemRefinesService`). The invariant of the
composition (`SystemInvariance`) is

    SystemInv == IInv /\ NoIndexLeak /\ U!IInv /\ JoinInv /\ TimeInv

Neither part's invariant is enough, because the swap is one step for the updater
and six for the state. `JoinInv` says where they meet: a loop with a state to
install is at Update's "swap" and the state is that of the archive it downloaded;
one with a state to close is at "commit". As Update holds its mutex there, no
two swaps overlap. From it follow

- `RefinesUpdater`, `SystemSpec => U!Spec`: `Install` maps to `U!SwapDocs` and
  the rest of the swap to stuttering, with `PositionOf(docs)` for `docsAt`;
- `TwoIndexesAtMost` (`IndexesBounded`): `NoIndexLeak` gives every open index a
  swapper or the server, `JoinInv` and the mutex leave one swapper;
- `NeverBackInTime` (`NeverOlder`): what is served only moves forward
  (`U!IInv`), so that what a handler has seen lies between the position at its
  arrival and the present one (`TimeInv`), and what it sees next is the latter;
- `SystemOnlyAdvances` (`SystemSpec => U!DocsNeverGoBack`) and
  `GuaranteesOfTheParts`: the properties of both parts, of the composition.

To have TLC check this invariant, add `INVARIANT SystemInv` to `DocsSystem.cfg`.

**`DocsUpdater_proofs`**: `UpdatesAllOrNothing` (`AllOrNothing`),
`FetchesNotRedundant` (`NoRedundantFetch`), `HashNeverAhead`
(`HashNotAheadOfDocs`), `DocsOnlyAdvance` (`Spec => DocsNeverGoBack`) and
`UnchangedIsCurrent` (`UnchangedMeansCurrent`, under `~Rewrites` and
`~MayMissEmbedded`; `updater_noembed` shows that the latter is needed). The
invariant: exactly the caller inside `Update` holds the mutex, so hash and
documentation are what it found; what it downloads is at a position of the log
no earlier than what it listed, and that none earlier than what is served.

**`Lifecycle_proofs`**: `ReadyIsMounted` (`ReadyMeansMounted`, which speaks of the
http transport alone), `EverybodyReturns` (`NobodyLeftBehind`), `ExitCodeIsFirst`. The invariant says
that the channel holds one result per actor that has returned and that no
interrupt precedes the first of them; since the context is done and channels are
closed only by interrupts, the first result is one that an actor comes to by
itself. The group exits when it has counted as many results as actors, from
which a cardinality argument concludes that all of them have returned.

**`ToolCalls_proofs`**: `TypeCorrect`, `OwnCredentials` (`CredentialsKept`),
`SuccessesAreUpstreams` (`SuccessIsUpstream`), `ErrorsCountedExactly`,
`ClientFailuresAllCounted`, `FailuresAreBacked` (`FailuresBacked`). A call's step keeps the
invariant for that call and leaves the others alone; counters are the
cardinalities of sets of calls, which a step enlarges by one call or not at all. `FailuresBacked` needs that no counter
of failures is ahead of its calls at any one moment and that what a scrape has
read of it is not more than it is now.

**`Archive_proofs`**: `LimitsNeverExceeded` (`LimitsKept`), `AllOrNothing`
(`WholeOrError`), `MemoryBounded` (`WithinLimits`) and `RefusalsJustified`
(`RefusedForCause`). After `k` entries the files are those of the documentation
entries among the first `k`, each with its last content, and the running total is
the sum of the sizes of those entries, files that were replaced included. That it
stays within the limit makes the subtraction in the code's comparison exact.
`Sums` is a recursive function; that it is what its definition says, does not
decrease and splits over disjoint sets of entries is shown by induction. The
library's induction theorems quantify over operators, so induction is stated for
a set of numbers (`UpTo`) and derived from the least element of a non-empty set
(`WFMin`).

**`Toolset_proofs`**: `NarrowingKept` (`OffersWhatWasAsked`), `AdminGated`
(`AdminGate`) and `EverySkillServed` (`SkillsServed`), for any lists, backend names
and skill directories. The invariant carries what each stage of start-up
computed to the requests. The three ways to a skill agree (`OneDocumentEach`)
because an accepted definition's document bears its name, so that the first of
that name (tool, resource) and the last (prompt) return the same, and because an
accepted name survives as the host of a URI.

**`TimeRange_proofs`**: `StepAlwaysSound`, `BoundsKeepTheirOrder`,
`DeletionAlwaysBounded`. Integer division is dealt with by four lemmas; the
invariant places each parsed bound within the call's duration of what its
argument says.

**`Truncation_proofs`**: `LossIsAnnounced` (`NoSilentLoss`) and `LimitIsKept`
(`LimitAsAsked`: texts, and limits turned off); the invariant gives for each phase the value worked out by the
one before.

Only model-checked: liveness under fairness, which the prover does not reach
(`Converges`, given that listings end, `LoopsEnd`, `ProcessExits`, `CallsAnswered`, and that part of
`ImplementsUpdater` and `ImplementsService`).

## Not modelled

Contents of documents, queries and API results; the syntax of matchers, times,
durations and frontmatter; log lines and MCP notifications (`logging.go`
chooses a logger and keeps no state); OAuth2 and TLS configuration; the SDK's
sessions and transports; tool declarations (`tools.go`, `types.go`), the wording
of errors (`errors.go`), the metrics registry, the test harness and packaging.
`PROJECT.json` lists each with its reason.

## Plan

Done: all parts with state, their composition where they share it, and the
safety proofs of all of them. Left:

1. A specification of a tool call as one step, implemented by `ToolCalls` (the
   mapping is `result` with the metrics as they count it), and its proof.
2. Composition of `Lifecycle` with `DocsSystem`: that an interrupted swap delays
   the exit by no more than the handlers in its way.
3. `CredentialsKept` for a configured OAuth2 transport, once its source is at hand.
