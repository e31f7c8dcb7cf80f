---------------------------- MODULE BatchExport -----------------------------
(***************************************************************************)
(* From an ended span or a log record to the collector: the batch          *)
(* processor of each signal (the SDK's), the exporters of the plugin       *)
(* (tracing/grpc_trace_exporter.cc, logging/grpc_log_exporter.cc), and the *)
(* client filter that sees the exporters' own calls                        *)
(* (tracing/client_filter.cc).                                             *)
(*                                                                         *)
(* A processor has a bounded queue and one worker, which takes a batch and *)
(* waits inside Export until the remote call ends.  Its Shutdown lets the  *)
(* worker drain the queue, joins it and only then shuts the exporter down. *)
(* The network may delay a request beyond the end of its call, or lose it. *)
(*                                                                         *)
(* Spans and records are counted, not told apart.  A definition just above *)
(* another one with the same parameters is a plausible wrong version of    *)
(* it, used to try the properties out.                                     *)
(***************************************************************************)
EXTENDS Integers

CONSTANTS Protocols,  \* values of the key protocol tried
          MaxQueue,   \* capacity of a processor's queue
          MaxBatch    \* what one export takes at most

ASSUME ProtocolAssumption == Protocols \subseteq {"http", "grpc"}
ASSUME QueueAssumption == MaxQueue \in Nat \ {0}
ASSUME BatchAssumption == MaxBatch \in 1 .. MaxQueue

VARIABLES protocol,   \* the key protocol of the configuration
          app,        \* whether the application still produces telemetry
          queue,      \* how much waits in each processor
          processor,  \* open, closing (its Shutdown waits for the worker) or shut
          worker,     \* each processor's worker and its last batch
          exporterIsShutdown

vars == <<protocol, app, queue, processor, worker, exporterIsShutdown>>

Signals == {"trace", "log"}

Idle ==
  [phase |-> "idle", traced |-> FALSE, status |-> "none", result |-> "none",
   inFlight |-> 0, arrived |-> 0]

\* traced: the call has a span that goes to the trace processor when it ends.
\* inFlight and arrived count the requests of the last batch in the network and
\* at the collector.
Worker ==
  [phase : {"idle", "export", "call", "answered"},
   traced : BOOLEAN,
   status : {"none", "OK", "error"},
   result : {"none", "kSuccess", "kFailure"},
   inFlight : Nat, arrived : Nat]

\* Types of the state: an export's result is one of the SDK's two.
TypeOK ==
  /\ protocol \in Protocols
  /\ app \in {"up", "quiet"}
  /\ queue \in [Signals -> 0 .. MaxQueue]
  /\ processor \in [Signals -> {"open", "closing", "shut"}]
  /\ worker \in [Signals -> Worker]
  /\ exporterIsShutdown \in [Signals -> BOOLEAN]

Init ==
  /\ protocol \in Protocols
  /\ app = "up"
  /\ queue = [s \in Signals |-> 0]
  /\ processor = [s \in Signals |-> "open"]
  /\ worker = [s \in Signals |-> Idle]
  /\ exporterIsShutdown = [s \in Signals |-> FALSE]
-----------------------------------------------------------------------------
(* The exporters. *)

ServiceName ==
  [trace |-> "trpc.opentelemetry.trace.grpc_exporter",
   log |-> "trpc.opentelemetry.log.grpc_exporter"]

WithoutTimeout(s) ==
  IF protocol = "http"
  THEN [rpc |-> FALSE, callee |-> "none", bounded |-> TRUE]
  ELSE [rpc |-> TRUE, callee |-> ServiceName[s], bounded |-> FALSE]

\* Over http the SDK's exporter sends outside the framework and bounds its
\* request itself; over grpc an export is a call of the framework's client, with
\* the configured timeout.
GetExporter(s) ==
  IF protocol = "http"
  THEN [rpc |-> FALSE, callee |-> "none", bounded |-> TRUE]
  ELSE [rpc |-> TRUE, callee |-> ServiceName[s], bounded |-> TRUE]

NeverSkipped(callee) == FALSE

\* The client filter's guard against self-looping reporting.
SkippedByFilter(callee) == protocol = "grpc" /\ callee = ServiceName["trace"]

StatusIgnored(status) == "kSuccess"
StatusReturned(status) == status

ExportResult(status) == IF status = "OK" THEN "kSuccess" ELSE "kFailure"

\* Export up to the remote call: refused by an exporter that is shut down,
\* otherwise the client filter's PRE point runs (a client context made from
\* nothing gives a root span, which sampling keeps or not) and the request is
\* sent.  A worker never exports an empty batch.
Export(s) ==
  /\ worker[s].phase = "export"
  /\ IF exporterIsShutdown[s]
     THEN worker' = [worker EXCEPT ![s] = [Idle EXCEPT !.result = "kFailure"]]
     ELSE \E sampled \in BOOLEAN :
            worker' = [worker EXCEPT ![s] =
              [Idle EXCEPT !.phase = "call",
                           !.traced = /\ GetExporter(s).rpc
                                      /\ ~SkippedByFilter(GetExporter(s).callee)
                                      /\ sampled,
                           !.inFlight = 1]]
  /\ UNCHANGED <<protocol, app, queue, processor, exporterIsShutdown>>

\* BatchSpanProcessor::OnEnd and its sibling for records: refused after
\* Shutdown, dropped when the queue is full.
Offered(s) ==
  IF processor[s] = "open" /\ queue[s] < MaxQueue
  THEN [queue EXCEPT ![s] = @ + 1] ELSE queue

EndOrRetry(s) ==
  /\ worker[s].phase = "answered"
  /\ worker' = [worker EXCEPT ![s] =
       IF @.status = "error" /\ @.inFlight + @.arrived < 2
       THEN [@ EXCEPT !.phase = "call", !.inFlight = @ + 1]
       ELSE [@ EXCEPT !.phase = "idle", !.result = ExportResult(worker[s].status)]]
  /\ UNCHANGED <<protocol, app, queue, processor, exporterIsShutdown>>

\* The rest of Export: the POST point of the client filter ends the span of the
\* call, if it has one, and the status decides the result.
EndExport(s) ==
  /\ worker[s].phase = "answered"
  /\ worker' = [worker EXCEPT ![s] =
       [@ EXCEPT !.phase = "idle", !.traced = FALSE,
                 !.result = ExportResult(worker[s].status)]]
  /\ queue' = IF worker[s].traced THEN Offered("trace") ELSE queue
  /\ UNCHANGED <<protocol, app, processor, exporterIsShutdown>>

\* The end of the processor's Shutdown: the worker has drained the queue and is
\* joined, then the exporter's Shutdown runs.
Shutdown(s) ==
  /\ processor[s] = "closing" /\ worker[s].phase = "idle" /\ queue[s] = 0
  /\ processor' = [processor EXCEPT ![s] = "shut"]
  /\ exporterIsShutdown' = [exporterIsShutdown EXCEPT ![s] = TRUE]
  /\ UNCHANGED <<protocol, app, queue, worker>>
-----------------------------------------------------------------------------
(* The application, the processors and the network. *)

\* A span ends or a record is logged.
Produce(s) ==
  /\ app = "up"
  /\ queue' = Offered(s)
  /\ UNCHANGED <<protocol, app, processor, worker, exporterIsShutdown>>

FallQuiet ==
  /\ app = "up"
  /\ app' = "quiet"
  /\ UNCHANGED <<protocol, queue, processor, worker, exporterIsShutdown>>

\* The exporter is shut down before the worker is joined.
ExporterFirst(s) ==
  /\ processor[s] = "open"
  /\ processor' = [processor EXCEPT ![s] = "closing"]
  /\ exporterIsShutdown' = [exporterIsShutdown EXCEPT ![s] = TRUE]
  /\ UNCHANGED <<protocol, app, queue, worker>>

CloseProcessor(s) ==
  /\ processor[s] = "open"
  /\ processor' = [processor EXCEPT ![s] = "closing"]
  /\ UNCHANGED <<protocol, app, queue, worker, exporterIsShutdown>>

TakeBatch(s) ==
  /\ worker[s].phase = "idle" /\ processor[s] # "shut" /\ queue[s] > 0
  /\ queue' = [queue EXCEPT ![s] = IF @ > MaxBatch THEN @ - MaxBatch ELSE 0]
  /\ worker' = [worker EXCEPT ![s] = [Idle EXCEPT !.phase = "export"]]
  /\ UNCHANGED <<protocol, app, processor, exporterIsShutdown>>

\* A request reaches the collector, perhaps after its call has ended.
Arrive(s) ==
  /\ worker[s].inFlight > 0
  /\ worker' = [worker EXCEPT ![s].inFlight = @ - 1, ![s].arrived = @ + 1]
  /\ UNCHANGED <<protocol, app, queue, processor, exporterIsShutdown>>

\* The collector's answer comes in time, good or bad.
Answer(s) ==
  /\ worker[s].phase = "call" /\ worker[s].arrived > 0
  /\ \E status \in {"OK", "error"} :
       worker' = [worker EXCEPT ![s].phase = "answered", ![s].status = status]
  /\ UNCHANGED <<protocol, app, queue, processor, exporterIsShutdown>>

\* The call fails without an answer, by its timeout at the latest.
FailCall(s) ==
  /\ worker[s].phase = "call" /\ GetExporter(s).bounded
  /\ worker' = [worker EXCEPT ![s].phase = "answered", ![s].status = "error"]
  /\ UNCHANGED <<protocol, app, queue, processor, exporterIsShutdown>>
-----------------------------------------------------------------------------
WorkerStep(s) == TakeBatch(s) \/ Export(s) \/ EndExport(s)

Next ==
  \/ FallQuiet
  \/ \E s \in Signals :
       \/ Produce(s) \/ CloseProcessor(s) \/ Shutdown(s)
       \/ WorkerStep(s) \/ Arrive(s) \/ Answer(s) \/ FailCall(s)

\* A worker runs on a thread of its own and wakes up by itself, a call that has
\* a timeout ends, and a join returns once the worker has.  Nothing is assumed
\* of the network or of the application.
Fairness ==
  \A s \in Signals :
    WF_vars(WorkerStep(s)) /\ WF_vars(FailCall(s)) /\ WF_vars(Shutdown(s))

Spec == Init /\ [][Next]_vars
FairSpec == Spec /\ Fairness
-----------------------------------------------------------------------------
(* What exporting promises. *)

\* Whatever the network does, also to a request whose call has timed out, no
\* batch is at the collector twice: Export sends once, also after a failure.
NoBatchTwice == \A s \in Signals : worker[s].arrived <= 1

\* kSuccess means the collector has the batch.
SuccessIsArrival ==
  \A s \in Signals : worker[s].result = "kSuccess" => worker[s].arrived > 0

Silent == \A s \in Signals : queue[s] = 0 /\ worker[s].phase = "idle"

\* Telemetry about telemetry dies out: once the application falls quiet the
\* plugin does too, although exporting logs over grpc makes spans to export.
FallsSilent == app = "quiet" ~> []Silent

\* A processor that is told to shut down does, with a collector that never
\* answers and an application that never falls quiet.
ShutdownReturns ==
  \A s \in Signals : processor[s] = "closing" ~> processor[s] = "shut"
-----------------------------------------------------------------------------
(* BatchExport implements ReportChannel. *)

\* "twice" is no state of the channel: a batch was sent more than once.
Requests(w) ==
  CASE w.inFlight = 0 /\ w.arrived = 0 -> "none"
    [] w.inFlight = 1 /\ w.arrived = 0 -> "out"
    [] w.inFlight = 0 /\ w.arrived = 1 -> "there"
    [] OTHER                           -> "twice"

Stage(w) ==
  CASE w.phase = "idle"   -> "idle"
    [] w.phase = "export" -> "taken"
    [] OTHER              -> "sent"

Door == [open |-> "open", closing |-> "closing", shut |-> "closed"]

C == INSTANCE ReportChannel
       WITH Capacity <- MaxQueue,
            backlog  <- queue,
            door     <- [s \in Signals |-> Door[processor[s]]],
            stage    <- [s \in Signals |-> Stage(worker[s])],
            request  <- [s \in Signals |-> Requests(worker[s])],
            outcome  <- [s \in Signals |-> worker[s].result]

\* Each signal is reported as ReportChannel promises: what a processor accepted is
\* exported before its Shutdown ends, no export meets an exporter that is already
\* shut down, a batch is sent once, an answer is true, and only exports of logs
\* make telemetry, which is of traces.
RefinesChannel == C!FairSpec
=============================================================================
