# TLA+ models of the OpenTelemetry plugin of tRPC-Cpp

These modules model the plugin under `trpc/telemetry/opentelemetry/`: which
calls become spans, which spans are sampled, which reach the exporter and the
collector, how a trace spreads over services, what is counted in the metrics,
which logs are reported, and what is left of all this when a part of the plugin
fails to initialise. TLC checks small instances of them; TLAPS proves all safety
properties of the six modules that have behaviours (spans, call chains, metrics,
exporters, the plugin's lifecycle and the sampler's draws) for every value of
their constants, and that two of them, spans and exporters, implement abstract
specifications.

Paths below are relative to `trpc/telemetry/opentelemetry/` unless they start
with `README.md`, which is the README of the plugin.

## 1. The system

The framework calls *filters* at fixed points of every RPC. The plugin registers
one server filter and one client filter; each wraps a tracing filter and a
metrics filter. The tracing filter starts a span at the PRE point and ends it at
the POST point. The SDK (opentelemetry-cpp 1.9.1, external) asks the plugin's
sampler when a span starts, and gives an ended span to the plugin's processor
chain, which passes it to the SDK's batch processor and from there to an
exporter. The span's identity travels inside the request, through a *carrier*.

| component | state | operations | correctness |
|---|---|---|---|
| head sampler (`tracing/sampler.cc`) | a threshold, two switches | `ShouldSample` | the fraction is honoured, its ends are exact, samplers with different fractions agree |
| deferred processor (`tracing/deferred_sample_processor.cc`) | per span: sampled, status, duration | setters of the recordable, `OnEnd` | a span is passed on at most once, and exactly if it was sampled, failed or was slow |
| tracing plugin (`tracing/opentelemetry_tracing.cc`) | configuration, tracer provider | `Init`, `MakeTracer` | every part gets the options the configuration means |
| tracing filters (`tracing/server_filter.cc`, `client_filter.cc`, `common.h`) | filter data in each context: span, parent span | PRE (`NewSpan`), POST (`FinishSpan`) | every span is ended once, with the call's status, and hangs under the right parent |
| carriers (`tracing/text_map_carrier.cc`) | the request's headers or transinfo | `Get`, `Set`, registration per protocol | what is read is what the caller wrote last |
| tracing API (`tracing/opentelemetry_tracing_api.cc`) | none | `GetTracingSpan`, `GetTraceID`, `GetSpanID` | user code may share a span with the filter without breaking it |
| trace and log exporter (`tracing/grpc_trace_exporter.cc`, `logging/grpc_log_exporter.cc`) | `is_shutdown_` under a lock | `Export`, `Shutdown` | a batch is sent once, success means arrival, exporting does not feed itself, shutdown returns |
| logging (`logging/opentelemetry_logging.cc`) | level map, logger | `Log` | only logs of calls that should be reported are |
| metrics (`metrics/*`) | metric families, code maps | module, attribute and API reports | every finished call is counted once under the right labels |
| telemetry plugin (`opentelemetry_telemetry.cc`, `_api.cc`, wrapper filters) | the three sub-plugins | `Init`, `Start`, `Stop`, `Destroy`, registration | a part that failed to initialise is not used |
| configuration (`opentelemetry_telemetry_conf*`) | none | decode | defaults and values arrive unchanged |
| log handler (`opentelemetry_log_handler.cc`) | none | `Handle` | I/O only |

What is hard here:

- *Interleaving.* The span object is shared: by the filter, by user code through
  `GetTracingSpan`, by client contexts made from the server context, and its
  destructor is an `End`. `FinishSpan` is a sequence of calls, each of which
  locks the span for itself.
- *Stale state.* The filter decides about bodies before the processor decides
  about the span; a reused client context still carries what an earlier attempt
  left in it; a proxied request carries its own caller's headers.
- *Partial calls.* Calls whose PRE point was never reached, or whose context
  dies before the POST point.
- *Distribution.* Requests get lost, late or repeated, and every service takes
  its own sampling decision.
- *Half a start.* `Init` returns at the first part that fails, after the parts
  before it took effect, and the framework may go on; the filters then take
  their options from whatever is there.
- *Feedback.* Exporting is itself a call through the client filter, and the
  export of logs makes spans that are exported in turn.
- *Arithmetic.* The threshold joins two rounded doubles in fixed point.

`PROJECT.json` lists each hazard at its line, with the properties that would
notice it going wrong, or why there is none yet.

## 2. Modules

| module | models |
|---|---|
| `Sampler` | `sampler.cc`: decision and arithmetic, with the width of a word and the precision of a double as constants |
| `TraceDraw` | the samplers of several services asked about the same traces, against exact arithmetic; extends `Sampler` |
| `DeferredSampleProcessor` | the recordable and the tail decision |
| `OpenTelemetryTracing` | how the configuration becomes the options of all of them; extends both |
| `SpanLifecycle` | the core: both filters, user code and context destruction on shared spans; extends `OpenTelemetryTracing` |
| `SpanReport` | abstract: the fate of a span |
| `CallChain` | span parents, carriers, services and the network; extends `OpenTelemetryTracing` |
| `OpenTelemetryMetrics` | all of `metrics/`: classes of return codes, both filters, user reports |
| `BatchExport` | from an ended span or a record to the collector: processors, exporters, the client filter's guard, the network |
| `ReportChannel` | abstract: a bounded lossy channel per signal |
| `OpenTelemetryConf` | defaults and decoding of the configuration |
| `OpenTelemetryLogging` | the logging plugin's decisions; extends `OpenTelemetryConf` |
| `TelemetryLifecycle` | the plugin as a whole: registration, every `Init`, the wrapper filters' dispatch, what users register, a call and its logs; extends `OpenTelemetryLogging` |
| `MCSampler`, `MCSpanLifecycle`, `MCCallChain`, `MCOpenTelemetryMetrics`, `MCBatchExport`, `MCTelemetryLifecycle` | instances for TLC (`MCSampler` of `TraceDraw`) |
| `Sampler_proofs`, `TraceDraw_proofs`, `SpanLifecycle_proofs`, `CallChain_proofs`, `OpenTelemetryMetrics_proofs`, `BatchExport_proofs`, `TelemetryLifecycle_proofs` | theorems |
| `LeastElement_proofs` | a lemma on naturals for the metrics and the sampler, in a module of its own because the library's facts about well-founded orders do not prove next to the bags of `OpenTelemetryMetrics` |

`SpanLifecycle` ends where a span is handed to the batch processor, `BatchExport`
starts there. `TelemetryLifecycle` has a call in less detail than `SpanLifecycle`
and `OpenTelemetryMetrics` (a span is there, settled or not; a report is counted),
and adds what those two take for granted: that the parts are initialised.

A definition directly above another one with the same parameters (`CarryLost`
above `Join`, `ForgetEnd` above `EndSpan`) is a plausible wrong version of it.
Putting it in the other's place must violate a property; `PROJECT.json` lists the
pairs. No behaviour of the specifications uses them.

### Sampler

A double is a pair of a numerator and a power of two. Every operation of the code
that may round (`UINT32_MAX * ratio`, the sum with `ldexp`, the conversion of a
`uint64_t`) is an application of `Double`, which rounds to nearest, ties to even.
`Excess` is how many bits a number has beyond a significand's; powers of two are
the recursive function `PowerOfTwo`, because the provers know nothing of `^`.
Three simplifications: the quotient of id and `UINT64_MAX` is exact because the
latter becomes 2^64, exponents are unbounded (the code's values are far from
under- and overflow), and a fraction is a number, neither infinite nor NaN.
`Join` wraps at the word as the code's `uint64_t` does.

`TraceDraw` makes a sampler of each fraction in `Ratios` and asks all of them about
one trace id after the other. Its properties compare `drawn` with the fraction in
exact arithmetic and the samplers with each other.

### SpanLifecycle

State: `config`, the configuration; `ctx`, one record per server call or client
context with the filter data it carries (`span`, for clients `parent`) and how
far its filter is; `span`, one record per span with its recordable; `userHolds`,
the spans user code has a pointer to.

| action | code |
|---|---|
| `MakeClientContext` | the framework copies the server span into `parent_span` (external) |
| `ServerPre`, `ClientPre` | `operator()` at the PRE point: sampler, `StartSpan`, filter data; a reused client context drops its old pointer |
| `Post` | `operator()` at the POST point up to `IsRecording` |
| `AddRequestEvent`, `AddRsponseEvent`, `SetSpanStatus`, `EndSpan` | the rest of `FinishSpan`, one action per call that takes the span's lock |
| `DropSpan`, `DropParent` | destruction of the context's filter data; the last pointer ends the span |
| `AcquireSpan`, `UserSetStatus`, `UserEnd`, `UserRelease` | user code on the pointer of `GetTracingSpan` |

The SDK's part is in `Started`, `WithStatus`, `Ended`: a span that is not
recording ignores calls, the first `End` writes the duration and runs `OnEnd` of
the processor chain. `call`, `statusBy` and `endedBy` are history: no guard reads
them. The recordable's `code_` starts as any status, because its member is not
initialised; `duration_` is always written before it is read.

`SpanReport` says what remains when the mechanism is left out: a span that
records is reported or dropped, exactly once, a sampled one reported. `Fate`
reads that off `SpanLifecycle`'s state.

### CallChain

State: `span`, each started span with its service, trace, parent and flag, and a
server span with the request it serves; `ctx`, client contexts with their
carrier; `net`, all requests ever sent. A request is never removed, and any
request may be received at any time: that is loss, delay and repetition at once.
`Inject` and `Extract` model the writers and readers the filters pick per
protocol. A header is the span context in it: the text of `traceparent` is not
modelled, an unreadable header is no header.

### OpenTelemetryMetrics

State: `plugin`, from its registration through its `Init` to a crash of the
process; `config`; `call`, every call the filters see, with the names in its
context and how far its reports are; `families`, the six families of the module
report as bags of label sets; `attr`, the four families of user metrics, per label
set the shape (quantiles or buckets) it was made with and how often it was
observed; `report`, the last user report and its answer.

| action | code |
|---|---|
| `ReportStartedTotal` | the filters' first point |
| `ReportHandledSeconds`, `ReportHandledTotal` | the second point, one action per report; the status is read by the latter |
| `ReportMetricsInfo` | the functions of `opentelemetry_metrics_api.h` |
| `AttrReport` | `SingleAttrReport` and `MultiAttrReport`, through the framework |
| `Register`, `InitMetrics` | `trpc::opentelemetry::Init` and `OpenTelemetryMetrics::Init` |

The two maps of codes do not change after `Init`, so they are operators of the
configuration (`UserRules`, `SetCallResultByDefault`); where rules collide, the
positions in the list decide, as the order of insertion does in the code. `ToInt` keeps the narrowing
of a configured `uint64_t` to the `int` key. `Family::Add` of prometheus returns
the metric a label set has already: `Observe`. A family that was never made is a
pointer without a value; using it crashes the process, the outcome a build in
which `MakeRefCounted` zeroes the object produces.

### BatchExport

State: `protocol`, of the configuration; `app`, whether the application still
produces telemetry; `queue`, `processor`, `worker`, per signal (traces, logs) the
fill of the SDK's bounded queue, the phase of its processor and the worker's
record of its last batch; `exporterIsShutdown`, the exporters' flag.

| action | code |
|---|---|
| `Export`, `EndExport` | `Export` of both exporters, before and after the remote call; the client filter's points around it |
| `Shutdown` | `Shutdown` of both exporters, at the end of the processor's |
| `TakeBatch`, `CloseProcessor` | the SDK's batch processors (external) |
| `Produce`, `FallQuiet` | the application (external) |
| `Arrive`, `Answer`, `FailCall` | network, collector, the framework's client with the timeout that `GetExporter` sets (external) |

A remote call is one action to send and one to return: in between the request
arrives or does not, and it may still arrive after the call has timed out. The
guard of the client filter (`SkippedByFilter`) is for the trace exporter's calls
only, so that an export of logs may end as a span in the queue of the traces.
A queue that is full drops what is offered. Nothing in the plugin calls a
processor's `Shutdown`; the provider does when the process exits, or users do.

`ReportChannel` says what remains of a signal without protocols, answers, spans of
calls and the exporter's flag: what is accepted is taken, sent once and concluded,
a success only if it is there; a door that closes waits until nothing is left; and
only sending logs may make something new, a trace. `Stage`, `Requests` and `Door`
read that off `BatchExport`'s state.

### TelemetryLifecycle

State: `node` and `host`, the plugin's node of the configuration file and how it
was built; `phase`, what the framework initialises next; `plugin`, `part`,
`instance`, `filter`: the plugin in its factory, its three parts, the logger
instance and the members of the wrapped filters; `carriers`, `maxLength`: what
users register; `call`. `chosen` and four fields of a call (`skipped`, `begun`,
`started`, `handled`) are history.

| action | code |
|---|---|
| `Register` | `trpc::opentelemetry::Init` |
| `ReadConfig`, `InitTracing`, `InitMetrics`, `InitLog` | `OpenTelemetryTelemetry::Init`, one action per part; `Fail` is an early return, after which the framework stops or goes on |
| `InitFilter` | `Init` of a wrapper and of the two filters it wraps |
| `SetCarrierFunc`, `SetMaxStringLength` | the functions of the same names, called by users while the process starts |
| `RunPoint`, `SkipPoint` | `operator()` of a wrapper at the next point of a call; a point the framework leaves out |

`Emitted` is what `OpenTelemetryLogging::Log` decides about a record of any level,
at any moment of a call; it changes no state and is no action. A node is a
function from the keys that are present, which is all `decode` looks at.
`use_grpc_reported_` of the client filter is left to `BatchExport`.

## 3. Runs

| run | question | bounds |
|---|---|---|
| `sampler` | does the arithmetic draw the fraction, at both ends exactly, monotonically? | all 1024 ids of two 5-bit halves; 7-bit doubles of four grains |
| `span_safety` | what is handed to the batch processor, however filter, user and destructors interleave? | one server context, one reusable client context, two spans, four configurations, durations at and above the threshold |
| `span_live` | is every recording span settled (refinement of `SpanReport` with fairness)? | the same contexts; one duration, deferred sampling on and off |
| `chain` | do parents, traces and flags of a call chain agree? | two services, two client contexts, four spans, two trace ids, two configurations |
| `span_optin` | is a failed call its filter finished, unsampled and fast, only reported if `deferred_sample_error` is set? **No** | as `span_safety` |
| `span_cause` | is an unsampled span only reported for a reason? **No** | error sampling on |
| `metrics` | is each call counted once, in the documented class, and each user report all or nothing? | two server calls, one client call, two callees, four statuses, four sets of rules, 8-bit codes; two label sets, two successful reports |
| `metrics_disabled` | does every user report return? **No** | as `metrics` |
| `metrics_quantiles` | does a summary serve the quantiles asked for? **No** | as `metrics` |
| `batch` | does a batch arrive once, does success mean arrival, does the plugin fall silent, does shutdown return with nothing left (refinement of `ReportChannel` with fairness)? | both protocols, queues of three, batches of two, one batch in the network per signal |
| `lifecycle` | does no call and no log meet a part that is not initialised, and does what was configured and registered hold? | seven configurations, one of them absent and one invalid; four builds; one server call, one client call, three protocols, two functions of users |
| `log_resources` | do the logs carry the attributes configured for them? **No** | as `lifecycle` |

Why the bounds suffice. *Widths:* the model's halves have 5 and its doubles 7
bits where the code has 32 and 53 (3 and 5 in the runs about spans and chains); as
in the code a double holds the sum of two halves but not a word, so the same
operations round and the same carry occurs (`WidthAssumption`). *Spans:* properties of `SpanLifecycle` are about single
spans; a second one lets a reused client context replace its pointer and lets a
client span coexist with its parent. Two contexts suffice for a span to be held
by two contexts and user code. *Chain:* four spans let a server span, two
attempts on one client context and a server span of the second service coexist,
or a client and a server span on each side of the wire.
`SpansLeft` stops `chain` in states where all spans have started: every property
is about started spans and contexts' spans, and no further action starts one.
*Trace ids:* one below and one above each threshold in question.
*Metrics:* two server calls can share or not share a label set, the client call
shows whether sides mix; 8 bits hold all default codes, and one rule's code does
not fit them. `Apart` explores user reports and calls one after the other: they
share only `plugin`, which neither changes once it is ready (a crash ends both).
*Batches:* with a queue of three and batches of two, a batch can be full, partial
or leave something behind, and the queue can be full while its worker exports;
the worker's record is of one batch, because a worker sends the next only after
the last has returned, and requests of earlier batches have their own fate.
*Lifecycle:* the configurations leave out, set and misspell every key an `Init`
depends on; both macros, and a missing log factory, are tried. `FewChoices` lets
users choose again and again, before and after `Init` of the filter, for one
protocol and side at a time, since choices for different ones share nothing; two
functions tell the last choice from an earlier one. And `Apart` explores calls one after the other, since calls
share nothing that changes once the process runs. Lengths are of a 4-bit word.
`CHECK_DEADLOCK FALSE` is used everywhere because the systems do stop: all calls
end, or all spans of the instance are used. Symmetry permutes identities that no
definition tells apart; the run with liveness uses none.

Some invariants of `lifecycle` restate what `README.md` documents
(`LogsAsDocumented`, `CallIsCovered`, `BodyIsWanted`): `Documented` reads the node
of the configuration itself and not what decoding made of it, so that the whole
path from key to effect is checked.

The violated properties are findings. `opentelemetry_tracing.cc:76` copies
`enable_deferred_sample` where `README.md:204` describes
`deferred_sample_error`: failed calls are reported as soon as deferred sampling
is on. And `deferred_sample_processor.cc:115` takes every status other than
`kOk` for an error, so a span that ends before its filter gives it a status
counts as failed, or not, depending on uninitialised memory. The properties that
do hold (`QuietCallIsDropped`, `FailedCallIsHanded`) speak of spans their filter
finished. The interface for metrics does not test whether metrics are enabled and
uses families that then do not exist (`metrics/opentelemetry_metrics.cc:126`). And
quantiles passed for a label set that already has a summary are dropped
(`metrics/opentelemetry_metrics.cc:158`). The resource of the logs is made from the
attributes of the traces (`logging/opentelemetry_logging.cc:67`). Two more
disagreements have no run: `README.md:497` gives `handled_seconds` the labels of
the call's result, which the filters set only after that report, for
`handled_total`; and `README.md:200` describes `timeout` as that of reporting, but
over http, the default protocol, `GetExporter` does not pass it on.

Fairness (`span_live`): a filter that entered `FinishSpan` proceeds, since it
runs on the framework's thread without waiting for anything; every context is
destroyed at some time, since the framework counts references and bounds calls
by timeouts; user code does not keep a span for ever. The last is an assumption
about users, and necessary: the destructor is the only thing that settles a span
whose POST point never comes. No fairness is assumed for PRE and POST points.

Fairness (`batch`): a worker goes on, since it runs on a thread of its own that
wakes up by itself; a remote call ends, since `GetExporter` gives it a timeout
(the mutant that leaves it out makes `ShutdownReturns` fail); and a join returns
when the worker has drained its queue. Nothing is assumed of the network, the
collector or the application: `ShutdownReturns` holds with a collector that never
answers and an application that never stops, because a processor that closes
accepts nothing more, not even from the other signal's worker. `RefinesChannel`
maps this to the fairness of `ReportChannel`: what is taken is concluded, and a
channel that closes and is empty is closed.

## 4. Proofs

`SpanLifecycle_proofs` proves, for any contexts, spans, configurations, trace ids
and durations that satisfy the module's five assumptions and any widths that
satisfy `WidthAssumption`, that the specification implies always `TypeOK`,
`HandedOnce`, `SampledIsHanded`, `BodyIsHanded`, `FailedCallIsHanded`,
`QuietCallIsDropped` and `PostedIsEnded`.

None of them is inductive alone. `IInv` adds, per span (`SpansInv`), what links
the history of a span to its recordable: the handed count of an ended span is
`HandedOver` of its recordable, and zero before; a span that only records does so
because deferred sampling is on; a body implies a sampled span, or deferred error
sampling and a failed call; a status written by the filter says how the call came
out. Per context it adds that the span in the filter data has started and is in
no other context's filter data (`ContextsInv`), and that a span whose context is
between PRE and POST does not know its call's outcome, while one whose filter is
in the middle of `FinishSpan` does, and that between the two body events
`NeedReportReqRsp` has said yes (`FilterInv`). Without the last two a second
filter could contradict the first, and the filter's status would say nothing.
Every action changes at most two spans (`ClientPre`: the one it starts and the
one it lets go of), so the proof has lemmas for the operations on a span and one
step per action that applies them.

The same module proves that `SpanLifecycle` implements `SpanReport`'s safety part
(`ImplementsSpanReport`): every action maps to `Start`, `Ignore`, `Report`, `Discard` or a
stutter. `ClientPre` is the one that needs an invariant: it starts a span and may
drop another, and is one abstract step only because the dropped span no longer
records (`PostedIsEnded`).

`BatchExport_proofs` proves, for any capacity of the queues and any size of a batch
(`QueueAssumption`, `BatchAssumption`), that the specification implies always
`TypeOK`, `NoBatchTwice` and `SuccessIsArrival`. The latter two need a
strengthening: the requests of a batch are in the network or at the collector,
one in all (`SentOnce`), or a late arrival could be a second one; and an answered
call whose status is OK has its request at the collector (`StatusIsTrue`), which
is what the result is then made from.

It also proves that `BatchExport` implements `ReportChannel`'s safety part
(`ImplementsReportChannel`). That needs a second invariant, `ChannelInv`: an
exporter's flag is set exactly if its processor is shut, and a processor that is
shut has an empty queue and an idle worker, without which a batch could be
refused instead of sent; and a call of the trace exporter has no span, without
which traces would feed on themselves.

`TelemetryLifecycle_proofs` proves, for any configurations, builds, protocols,
carrier functions, limits and calls, that the specification implies always
`TypeOK`, `NothingUninitialisedIsUsed`, `CarrierStands` and `BodyIsWanted`. It
rests on the module's assumptions: a switch of a decoded configuration is a
boolean (the parser's `as<bool>()` throws otherwise; `NodeAssumption`), no
function of a user is the empty one (`FuncAssumption`), lengths fit the word and
the default limit leaves room for the suffix (`LengthAssumption`). `IInv` adds
what the start-up leaves behind: a part that is not fresh has found a
configuration (`PartsInv`), without which a filter of a degraded process might
read anything; a filter has metrics on or bodies on only because that
configuration says so (`FiltersInv`); a registered function is never empty and,
once the filter is initialised or where `Init` does not touch it, is the one that
stands: `chosen` keeps the user's last choice and `InitFilter` takes it back for the
two protocols it registers for; and the limit leaves room for the
suffix, or the unsigned difference would wrap (`SettingsInv`); nothing is used
before the process runs, so that a later registration cannot contradict a call
(`CallsInv`).

Two more follow configuration and calls to their end, from a second strengthening.
`ReadyInv` says what a plugin that is ready holds: the parts its build and its
configuration ask for, the logger's level and sink as decoded, the filters'
tracer factories and switches. `CoverageInv` says what a call that skipped no
point has done by the point that is next: how many spans, which state of the
span, how many reports; nothing before the process runs. `CallIsCovered` is that
invariant past the last point, and `LogsAsDocumented` joins both with the
sampling decision of the span. The latter speaks of the levels `README.md:213`
lists: the attempt to prove it for any level showed that it fails for others. The
string `critical`, the framework's own name for the highest level, is not among
the keys of the level map, and `GetLogLevel` answers `error` for it as for any word
it does not know.

`CallChain_proofs` proves, for any services, contexts, spans, configurations and
trace ids, that the specification implies always `TypeOK`, `ServerParentIsCaller`,
`AttemptsAreSiblings`, `OneTrace` and `SamplingReachesDown`, from its assumptions that
configurations and trace ids have the types the sampler needs and that `None` is
none of the values it stands in for (`NoneAssumption`). The invariant says what
headers mean: every request ever sent, which the network may deliver late or
again, carries where its server will look the context of the client span that
sent it (`NetInv`); a client context that was used carries the context of the
span it used last, and that span's parent is the server span the context was made
for (`ContextsInv`); a span is in its parent's trace and is sampled exactly if its
service's sampler says so of that parent (`SpansInv`). The proof needs that started
spans keep their identity, so that a header that was right when it was written
stays right.

`DrawnTraceIsWhole` joins the decisions of two services on one trace id: a trace
drawn at its root is complete in every service whose fraction is not smaller. It
follows (`DrawnTracesAreWhole`) from the invariant above and `DrawsNest`, the theorem
of `Sampler_proofs` about the rounded arithmetic, which `CallChain_proofs` extends;
the module's assumptions make every fraction a double and every trace id a word
(`FractionsAreDoubles`).

`Sampler_proofs` proves that arithmetic for any widths with `WidthAssumption` (a
double holds the sum of two halves but not a word), the code's 32 and 53 bits
among them. The argument goes up from the bottom:

- `PowerOfTwo` is the function its equation says (`PowerDefined`), and grows, adds
  and divides like powers do. Induction is by least counterexample
  (`InductionBySet`), since the library's induction rules cannot be instantiated.
- Rounding (`Round`) is monotonic, also where two numbers are rounded to different
  units (`RoundMonotone`), leaves alone what fits a significand (`RoundKeeps`),
  commutes with a power of two (`RoundScales`) and errs by half a unit at most
  (`RoundError`).
- For a fraction a/b strictly between 0 and 1 the threshold is
  `Fixed(p, b)`, with p the rounded product: the sum of the halves does not wrap
  the word (`ThresholdIsFixed`), and lies within 1 of p * (2^32 + 1) / b although
  the lower half is rounded once more (`FixedBounds`: whole numbers in between are
  doubles, so rounding cannot step over one).
- `FixedIsMonotone`: with different integer parts a whole number separates the two
  thresholds; with the same integer part the fractional parts are ordered, and
  rounding keeps the order.
- A fraction has one threshold whatever power of two it is written over
  (`ThresholdScales`), so that `ThresholdIsMonotone` can bring two fractions to a
  common denominator. `DrawsNest` follows, since both samplers compare with the
  same threshold of the id.

`TraceDraw_proofs` lifts this to the specification, for any set of fractions:
always `FractionsNest`, `ExtremesAreExact`, and, where a word has at least three
bits more than a significand (the code has eleven, the run has three),
`FractionIsMet`. For the last, `ThresholdError` bounds a threshold's distance from
a/b * `UINT64_MAX` by half a spacing of doubles and 9/8, `IdError` that of the
id's threshold from the id by a spacing and 17/8 (an id is rounded twice), and the
sum of both stays within `Tolerance` as soon as a spacing is at least 8.

`OpenTelemetryMetrics_proofs` proves, for any finite set of calls and any names,
statuses, rules, labels and shapes, that the specification implies always `TypeOK`,
`EveryCallIsCountedOnce`, `ClassAsDocumented` and `FailuresAreSeen`, and that every
step satisfies `ReportIsAllOrNothing`. Counts are sums over bags, which are turned
into sets: `Occurrences` has one element per observation, a report adds one
(`OccurrencesAddCount`), and a count is a cardinality. The invariant adds that families are empty while metrics are off
(`EmptyInv`), that calls are new until `Init` and not yet started while new
(`EarlyInv`), without which a call could miss its first report, and that families
are finite (`FiniteInv`), without which cardinalities say nothing. The three
reports of a filter share a lemma (`Reports`). `ClassAsDocumented` rests on
`ClassOfCode`: what the lookup finds, in the two-level map that the order of the
rules decides, is the class of a rule for the code, and the default's exactly if
there is none; that a deciding rule exists is `LeastElement`.

Its assumptions: configured codes are naturals (`ConfigAssumption`: a
`uint64_t` in the parser), names are the four label names (`NamesAssumption`), and
no call is both a server's and a client's (`CallsAssumption`). `CodesAreInts`, the
premise of two of the properties, is stated in them and holds for the
configurations anybody writes; one of the run's does not satisfy it, to show what
`ToInt` then does.

Only model-checked:

- liveness, of both refinements and of `BatchExport`: temporal proofs under fairness
  and `ENABLED` are out of the prover's reach;
- the disagreements of section 3, which are violations.

## 5. Not modelled

The log handler, `encode` and `Display` of the configuration, values of the wrong
YAML type, formatting of identifiers, the text of bodies and records, span
attributes other than the one that forces sampling: I/O or text no property is
about. A registration while calls run is a data race on an unguarded map, which
the comments of the code rule out and the model leaves out. The examples and test
doubles use the plugin and are not part of it. The SDK and the framework are
modelled as the code uses them and marked external.
