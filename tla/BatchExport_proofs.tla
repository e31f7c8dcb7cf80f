------------------------- MODULE BatchExport_proofs -------------------------
(***************************************************************************)
(* Proofs about BatchExport for any capacity of the queues and any size of *)
(* a batch: its types, and its two safety properties.  Neither is          *)
(* inductive by itself.  A batch is in the network or at the collector at  *)
(* most once because nothing sends a request except Export, which replaces *)
(* the worker's record of the batch before; an answer is OK only if the    *)
(* request is at the collector, from which nothing removes it.             *)
(***************************************************************************)
EXTENDS BatchExport, TLAPS

\* Where the requests of a worker's batch can be.
SentOnce(w) == w.inFlight + w.arrived <= 1

\* What a status, and then a result, says of the collector.
StatusIsTrue(w) == w.phase = "answered" /\ w.status = "OK" => w.arrived > 0
ResultIsTrue(w) == w.result = "kSuccess" => w.arrived > 0

WorkerInv(w) == SentOnce(w) /\ StatusIsTrue(w) /\ ResultIsTrue(w)

IInv == TypeOK /\ \A s \in Signals : WorkerInv(worker[s])

\* A fresh record of a batch is a worker's, and true.
LEMMA IdleIsWorker == Idle \in Worker /\ WorkerInv(Idle)
BY DEF Idle, Worker, WorkerInv, SentOnce, StatusIsTrue, ResultIsTrue

\* A batch whose request was just sent, in a call with or without a span.
LEMMA SentBatch ==
  ASSUME NEW b \in BOOLEAN
  PROVE  /\ [Idle EXCEPT !.phase = "call", !.traced = b, !.inFlight = 1] \in Worker
         /\ WorkerInv([Idle EXCEPT !.phase = "call", !.traced = b, !.inFlight = 1])
<1> DEFINE w == [Idle EXCEPT !.phase = "call", !.traced = b, !.inFlight = 1]
           u == [Idle EXCEPT !.phase = "call", !.inFlight = 1]
<1>1. u \in Worker
  BY DEF Idle, Worker
<1>2. w = [u EXCEPT !.traced = b]
  BY DEF Idle
<1>3. w \in Worker
  BY <1>1, <1>2 DEF Worker
<1>4. w.phase = "call" /\ w.inFlight = 1 /\ w.arrived = 0 /\ w.result = "none"
  BY DEF Idle
<1>5. WorkerInv(w)
  BY <1>4 DEF WorkerInv, SentOnce, StatusIsTrue, ResultIsTrue
<1>6. QED
  BY <1>3, <1>5

\* What a processor does with an offer keeps within its capacity.
LEMMA OfferedFits ==
  ASSUME NEW s \in Signals, queue \in [Signals -> 0 .. MaxQueue]
  PROVE  Offered(s) \in [Signals -> 0 .. MaxQueue]
BY QueueAssumption DEF Offered

\* A step that gives one worker a new record and leaves the others alone keeps
\* what is required of all, if the new record meets it.
LEMMA OneWorker ==
  ASSUME NEW s \in Signals, NEW w \in Worker, IInv, WorkerInv(w),
         worker' = [worker EXCEPT ![s] = w]
  PROVE  /\ worker' \in [Signals -> Worker]
         /\ \A t \in Signals : WorkerInv(worker'[t])
<1>1. worker \in [Signals -> Worker]
  BY DEF IInv, TypeOK
<1>2. worker' \in [Signals -> Worker]
  BY <1>1
<1>3. ASSUME NEW t \in Signals PROVE WorkerInv(worker'[t])
  <2>1. CASE t = s
    <3>1. worker'[t] = w
      BY <1>1, <2>1
    <3>2. QED
      BY <3>1
  <2>2. CASE t # s
    <3>1. worker'[t] = worker[t]
      BY <1>1, <2>2
    <3>2. QED
      BY <3>1 DEF IInv
  <2>3. QED
    BY <2>1, <2>2
<1>4. QED
  BY <1>2, <1>3
-----------------------------------------------------------------------------
LEMMA InitIInv == Init => IInv
<1> SUFFICES ASSUME Init PROVE IInv
  OBVIOUS
<1>1. TypeOK
  BY IdleIsWorker, QueueAssumption DEF Init, TypeOK
<1>2. \A s \in Signals : worker[s] = Idle
  BY DEF Init
<1>3. QED
  BY <1>1, <1>2, IdleIsWorker DEF IInv

\* An export that is refused leaves nothing in the network; one that is sent
\* leaves one request.
LEMMA ExportIInv ==
  ASSUME IInv, NEW s \in Signals, Export(s) PROVE IInv'
<1>1. \E w \in Worker : WorkerInv(w) /\ worker' = [worker EXCEPT ![s] = w]
  <2>1. CASE exporterIsShutdown[s]
    <3>1. [Idle EXCEPT !.result = "kFailure"] \in Worker
      BY DEF Idle, Worker
    <3>2. WorkerInv([Idle EXCEPT !.result = "kFailure"])
      BY DEF Idle, WorkerInv, SentOnce, StatusIsTrue, ResultIsTrue
    <3>3. QED
      BY <2>1, <3>1, <3>2 DEF Export
  <2>2. CASE ~exporterIsShutdown[s]
    <3>1. PICK sampled \in BOOLEAN :
            worker' = [worker EXCEPT ![s] =
              [Idle EXCEPT !.phase = "call",
                           !.traced = /\ GetExporter(s).rpc
                                      /\ ~SkippedByFilter(GetExporter(s).callee)
                                      /\ sampled,
                           !.inFlight = 1]]
      BY <2>2 DEF Export
    <3>2. (/\ GetExporter(s).rpc
           /\ ~SkippedByFilter(GetExporter(s).callee)
           /\ sampled) \in BOOLEAN
      BY ZenonT(30)
    <3>3. QED
      BY <3>1, <3>2, SentBatch
  <2>3. QED
    BY <2>1, <2>2 DEF IInv, TypeOK
<1>2. worker' \in [Signals -> Worker] /\ \A t \in Signals : WorkerInv(worker'[t])
  BY <1>1, OneWorker
<1>3. QED
  BY <1>2 DEF Export, IInv, TypeOK

LEMMA EndExportIInv ==
  ASSUME IInv, NEW s \in Signals, EndExport(s) PROVE IInv'
<1> DEFINE w == [worker[s] EXCEPT !.phase = "idle", !.traced = FALSE,
                                  !.result = ExportResult(worker[s].status)]
<1>1. worker[s] \in Worker /\ WorkerInv(worker[s]) /\ worker[s].phase = "answered"
  BY DEF IInv, TypeOK, EndExport
<1>2. w \in Worker
  BY <1>1 DEF Worker, ExportResult
<1>3. WorkerInv(w)
  <2>1. /\ w.phase = "idle" /\ w.inFlight = worker[s].inFlight
        /\ w.arrived = worker[s].arrived /\ w.result = ExportResult(worker[s].status)
    BY <1>1 DEF Worker
  <2>2. QED
    BY <1>1, <2>1 DEF WorkerInv, SentOnce, StatusIsTrue, ResultIsTrue, ExportResult
<1>4. worker' = [worker EXCEPT ![s] = w]
  BY DEF EndExport
<1>5. worker' \in [Signals -> Worker] /\ \A t \in Signals : WorkerInv(worker'[t])
  BY <1>2, <1>3, <1>4, OneWorker
<1>6. queue' \in [Signals -> 0 .. MaxQueue]
  BY OfferedFits DEF EndExport, IInv, TypeOK, Signals
<1>7. QED
  BY <1>5, <1>6 DEF EndExport, IInv, TypeOK

LEMMA TakeBatchIInv ==
  ASSUME IInv, NEW s \in Signals, TakeBatch(s) PROVE IInv'
<1> DEFINE w == [Idle EXCEPT !.phase = "export"]
<1>1. w \in Worker
  BY DEF Idle, Worker
<1>2. WorkerInv(w)
  BY DEF Idle, WorkerInv, SentOnce, StatusIsTrue, ResultIsTrue
<1>3. worker' \in [Signals -> Worker] /\ \A t \in Signals : WorkerInv(worker'[t])
  BY <1>1, <1>2, OneWorker DEF TakeBatch
<1>4. queue' \in [Signals -> 0 .. MaxQueue]
  BY BatchAssumption, QueueAssumption DEF TakeBatch, IInv, TypeOK
<1>5. QED
  BY <1>3, <1>4 DEF TakeBatch, IInv, TypeOK

\* The network moves a request on: the sum of the two places stays, and what is
\* at the collector only grows.
LEMMA ArriveIInv ==
  ASSUME IInv, NEW s \in Signals, Arrive(s) PROVE IInv'
<1> DEFINE w == [worker[s] EXCEPT !.inFlight = @ - 1, !.arrived = @ + 1]
<1>1. worker[s] \in Worker /\ WorkerInv(worker[s]) /\ worker[s].inFlight > 0
  BY DEF IInv, TypeOK, Arrive
<1>2. w \in Worker
  <2>1. worker[s].inFlight - 1 \in Nat /\ worker[s].arrived + 1 \in Nat
    BY <1>1 DEF Worker
  <2>2. QED
    BY <1>1, <2>1 DEF Worker
<1>3. WorkerInv(w)
  BY <1>1 DEF Worker, WorkerInv, SentOnce, StatusIsTrue, ResultIsTrue
<1>4. worker' = [worker EXCEPT ![s] = w]
  BY DEF Arrive, IInv, TypeOK
<1>5. worker' \in [Signals -> Worker] /\ \A t \in Signals : WorkerInv(worker'[t])
  BY <1>2, <1>3, <1>4, OneWorker
<1>6. QED
  BY <1>5 DEF Arrive, IInv, TypeOK

LEMMA AnswerIInv ==
  ASSUME IInv, NEW s \in Signals, Answer(s) PROVE IInv'
<1>1. PICK status \in {"OK", "error"} :
        worker' = [worker EXCEPT ![s].phase = "answered", ![s].status = status]
  BY DEF Answer
<1> DEFINE w == [worker[s] EXCEPT !.phase = "answered", !.status = status]
<1>2. worker[s] \in Worker /\ WorkerInv(worker[s]) /\ worker[s].arrived > 0
  BY DEF IInv, TypeOK, Answer
<1>3. w \in Worker
  BY <1>2 DEF Worker
<1>4. WorkerInv(w)
  BY <1>2 DEF Worker, WorkerInv, SentOnce, StatusIsTrue, ResultIsTrue
<1>5. worker' = [worker EXCEPT ![s] = w]
  BY <1>1 DEF IInv, TypeOK
<1>6. worker' \in [Signals -> Worker] /\ \A t \in Signals : WorkerInv(worker'[t])
  BY <1>3, <1>4, <1>5, OneWorker
<1>7. QED
  BY <1>6 DEF Answer, IInv, TypeOK

LEMMA FailCallIInv ==
  ASSUME IInv, NEW s \in Signals, FailCall(s) PROVE IInv'
<1> DEFINE w == [worker[s] EXCEPT !.phase = "answered", !.status = "error"]
<1>1. worker[s] \in Worker /\ WorkerInv(worker[s])
  BY DEF IInv, TypeOK
<1>2. w \in Worker
  BY <1>1 DEF Worker
<1>3. WorkerInv(w)
  BY <1>1 DEF Worker, WorkerInv, SentOnce, StatusIsTrue, ResultIsTrue
<1>4. worker' = [worker EXCEPT ![s] = w]
  BY DEF FailCall, IInv, TypeOK
<1>5. worker' \in [Signals -> Worker] /\ \A t \in Signals : WorkerInv(worker'[t])
  BY <1>2, <1>3, <1>4, OneWorker
<1>6. QED
  BY <1>5 DEF FailCall, IInv, TypeOK

\* The steps of the application and of a processor's Shutdown leave the workers
\* alone.
LEMMA ElsewhereIInv ==
  ASSUME IInv, NEW s \in Signals,
         FallQuiet \/ Produce(s) \/ CloseProcessor(s) \/ Shutdown(s)
  PROVE  IInv'
<1>1. CASE FallQuiet
  BY <1>1 DEF FallQuiet, IInv, TypeOK
<1>2. CASE Produce(s)
  <2>1. queue' \in [Signals -> 0 .. MaxQueue]
    BY <1>2, OfferedFits DEF Produce, IInv, TypeOK
  <2>2. QED
    BY <1>2, <2>1 DEF Produce, IInv, TypeOK
<1>3. CASE CloseProcessor(s)
  BY <1>3 DEF CloseProcessor, IInv, TypeOK
<1>4. CASE Shutdown(s)
  BY <1>4 DEF Shutdown, IInv, TypeOK
<1>5. QED
  BY <1>1, <1>2, <1>3, <1>4

LEMMA NextIInv == IInv /\ [Next]_vars => IInv'
<1> SUFFICES ASSUME IInv, [Next]_vars PROVE IInv'
  OBVIOUS
<1>1. CASE FallQuiet
  BY <1>1, ElsewhereIInv DEF Signals
<1>2. ASSUME NEW s \in Signals,
             Produce(s) \/ CloseProcessor(s) \/ Shutdown(s)
      PROVE  IInv'
  BY <1>2, ElsewhereIInv
<1>3. ASSUME NEW s \in Signals, WorkerStep(s) PROVE IInv'
  BY <1>3, TakeBatchIInv, ExportIInv, EndExportIInv DEF WorkerStep
<1>4. ASSUME NEW s \in Signals, Arrive(s) \/ Answer(s) \/ FailCall(s) PROVE IInv'
  BY <1>4, ArriveIInv, AnswerIInv, FailCallIInv
<1>5. CASE UNCHANGED vars
  BY <1>5 DEF vars, IInv, TypeOK
<1>6. QED
  BY <1>1, <1>2, <1>3, <1>4, <1>5 DEF Next
-----------------------------------------------------------------------------
\* The strengthened invariant of the exporters holds whatever the network, the
\* collector and the application do, with any capacities.
THEOREM ExportInvariance == Spec => []IInv
BY InitIInv, NextIInv, PTL DEF Spec

\* Types: every queue stays within its capacity and every result is one of the
\* SDK's two.
THEOREM ExportTypeCorrect == Spec => []TypeOK
<1>1. IInv => TypeOK
  BY DEF IInv
<1>2. QED
  BY <1>1, ExportInvariance, PTL

\* No batch is at the collector twice, also when its call timed out and the
\* request came late.
THEOREM NoBatchArrivesTwice == Spec => []NoBatchTwice
<1>1. IInv => NoBatchTwice
  BY DEF IInv, TypeOK, Worker, WorkerInv, SentOnce, NoBatchTwice
<1>2. QED
  BY <1>1, ExportInvariance, PTL

\* An export that returned success left its batch at the collector.
THEOREM SuccessMeansArrival == Spec => []SuccessIsArrival
<1>1. IInv => SuccessIsArrival
  BY DEF IInv, WorkerInv, ResultIsTrue, SuccessIsArrival
<1>2. QED
  BY <1>1, ExportInvariance, PTL
-----------------------------------------------------------------------------
(* BatchExport implements ReportChannel.  Beyond the invariant above this    *)
(* needs that a processor which is shut has nothing left, so that no batch   *)
(* meets an exporter that is shut down, and that the trace exporter's own    *)
(* calls have no span.                                                       *)

ShutInv(s) ==
  /\ exporterIsShutdown[s] <=> processor[s] = "shut"
  /\ processor[s] = "shut" => queue[s] = 0 /\ worker[s].phase = "idle"

\* A batch that is not sent yet has no result, the worker's record being new.
FreshInv(w) == w.phase = "export" => w.result = "none"

ChannelInv ==
  /\ \A s \in Signals : ShutInv(s) /\ FreshInv(worker[s])
  /\ ~worker["trace"].traced

LEMMA OfferedGrows ==
  ASSUME NEW s
  PROVE  \/ Offered(s) = queue
         \/ /\ processor[s] = "open" /\ queue[s] < MaxQueue
            /\ Offered(s) = [queue EXCEPT ![s] = @ + 1]
BY DEF Offered

\* A processor that is shut keeps its queue as it is.
LEMMA ShutQueue ==
  ASSUME IInv, ChannelInv, NEW s \in Signals, queue' \in {queue, Offered(s)},
         processor' = processor, exporterIsShutdown' = exporterIsShutdown,
         \A t \in Signals : worker'[t].phase = worker[t].phase \/ worker'[t].phase = "idle"
  PROVE  \A t \in Signals : ShutInv(t)'
<1> SUFFICES ASSUME NEW t \in Signals PROVE ShutInv(t)'
  OBVIOUS
<1>1. queue \in [Signals -> 0 .. MaxQueue]
  BY DEF IInv, TypeOK
<1>2. processor[t] = "shut" => queue'[t] = queue[t]
  <2>1. CASE t = s
    BY <2>1, OfferedGrows
  <2>2. CASE t # s
    BY <1>1, <2>2, OfferedGrows
  <2>3. QED
    BY <2>1, <2>2
<1>3. QED
  BY <1>2 DEF ChannelInv, ShutInv

LEMMA WorkerOf ==
  ASSUME IInv, NEW s \in Signals, NEW w, worker' = [worker EXCEPT ![s] = w]
  PROVE  /\ worker'[s] = w
         /\ \A t \in Signals : t # s => worker'[t] = worker[t]
BY DEF IInv, TypeOK

LEMMA TraceIsNotTraced ==
  ASSUME IInv, NEW s \in Signals, GetExporter(s).rpc, ~SkippedByFilter(GetExporter(s).callee)
  PROVE  s # "trace"
<1>1. protocol = "http" => ~GetExporter(s).rpc
  BY DEF GetExporter
<1>2. protocol \in {"http", "grpc"}
  BY ProtocolAssumption DEF IInv, TypeOK
<1>3. protocol = "grpc" => GetExporter(s).callee = ServiceName[s]
  BY DEF GetExporter
<1>4. QED
  BY <1>1, <1>2, <1>3 DEF SkippedByFilter

LEMMA ExportSends ==
  ASSUME IInv, ChannelInv, NEW s \in Signals, Export(s)
  PROVE  \E b \in BOOLEAN :
           /\ b => s # "trace"
           /\ worker' = [worker EXCEPT ![s] =
                [Idle EXCEPT !.phase = "call", !.traced = b, !.inFlight = 1]]
<1>1. ~exporterIsShutdown[s]
  BY DEF Export, ChannelInv, ShutInv
<1>2. PICK sampled \in BOOLEAN :
        worker' = [worker EXCEPT ![s] =
          [Idle EXCEPT !.phase = "call",
                       !.traced = /\ GetExporter(s).rpc
                                  /\ ~SkippedByFilter(GetExporter(s).callee)
                                  /\ sampled,
                       !.inFlight = 1]]
  BY <1>1 DEF Export
<1> DEFINE b == /\ GetExporter(s).rpc
                /\ ~SkippedByFilter(GetExporter(s).callee)
                /\ sampled
<1>3. b \in BOOLEAN
  BY ZenonT(30)
<1>4. b => s # "trace"
  BY TraceIsNotTraced
<1>5. QED
  BY <1>2, <1>3, <1>4

LEMMA SentParts ==
  ASSUME NEW b \in BOOLEAN
  PROVE  LET w == [Idle EXCEPT !.phase = "call", !.traced = b, !.inFlight = 1]
         IN  /\ w.phase = "call" /\ w.inFlight = 1 /\ w.arrived = 0 /\ w.result = "none"
             /\ w.traced = b
BY DEF Idle

LEMMA InitChannelInv == Init => ChannelInv
BY DEF Init, ChannelInv, ShutInv, FreshInv, Signals, Idle

LEMMA NextChannelInv == IInv /\ ChannelInv /\ [Next]_vars => ChannelInv'
<1> SUFFICES ASSUME IInv, ChannelInv, [Next]_vars PROVE ChannelInv'
  OBVIOUS
<1>1. CASE FallQuiet \/ UNCHANGED vars
  BY <1>1 DEF FallQuiet, vars, ChannelInv, ShutInv, FreshInv
<1>2. ASSUME NEW s \in Signals, Produce(s) PROVE ChannelInv'
  <2>1. \A t \in Signals : ShutInv(t)'
    BY <1>2, ShutQueue DEF Produce
  <2>2. QED
    BY <1>2, <2>1 DEF Produce, ChannelInv, FreshInv
<1>3. ASSUME NEW s \in Signals, CloseProcessor(s) PROVE ChannelInv'
  BY <1>3 DEF CloseProcessor, ChannelInv, ShutInv, FreshInv, IInv, TypeOK
<1>4. ASSUME NEW s \in Signals, Shutdown(s) PROVE ChannelInv'
  BY <1>4 DEF Shutdown, ChannelInv, ShutInv, FreshInv, IInv, TypeOK
<1>5. ASSUME NEW s \in Signals, TakeBatch(s) PROVE ChannelInv'
  <2>1. /\ worker'[s] = [Idle EXCEPT !.phase = "export"]
        /\ \A t \in Signals : t # s => worker'[t] = worker[t]
    BY <1>5, WorkerOf DEF TakeBatch
  <2>2. \A t \in Signals : t # s => queue'[t] = queue[t]
    BY <1>5 DEF TakeBatch, IInv, TypeOK
  <2>3. \A t \in Signals : ShutInv(t)'
    BY <1>5, <2>1, <2>2 DEF TakeBatch, ChannelInv, ShutInv
  <2>4. ~worker'["trace"].traced /\ \A t \in Signals : FreshInv(worker'[t])
    BY <2>1 DEF ChannelInv, FreshInv, Signals, Idle
  <2>5. QED
    BY <2>3, <2>4 DEF ChannelInv
<1>6. ASSUME NEW s \in Signals, Export(s) PROVE ChannelInv'
  <2>1. PICK b \in BOOLEAN :
          /\ b => s # "trace"
          /\ worker' = [worker EXCEPT ![s] =
               [Idle EXCEPT !.phase = "call", !.traced = b, !.inFlight = 1]]
    BY <1>6, ExportSends
  <2>2. /\ worker'[s].traced = b /\ worker'[s].phase = "call"
        /\ \A t \in Signals : t # s => worker'[t] = worker[t]
    BY <2>1, WorkerOf, SentParts
  <2>3. processor[s] # "shut"
    BY <1>6 DEF Export, ChannelInv, ShutInv
  <2>4. \A t \in Signals : ShutInv(t)'
    BY <1>6, <2>2, <2>3 DEF Export, ChannelInv, ShutInv
  <2>5. ~worker'["trace"].traced /\ \A t \in Signals : FreshInv(worker'[t])
    BY <2>1, <2>2 DEF ChannelInv, FreshInv, Signals
  <2>6. QED
    BY <2>4, <2>5 DEF ChannelInv
<1>7. ASSUME NEW s \in Signals, EndExport(s) PROVE ChannelInv'
  <2>1. /\ worker'[s] = [worker[s] EXCEPT !.phase = "idle", !.traced = FALSE,
                                          !.result = ExportResult(worker[s].status)]
        /\ \A t \in Signals : t # s => worker'[t] = worker[t]
    BY <1>7 DEF EndExport, IInv, TypeOK
  <2>2. worker[s] \in Worker
    BY DEF IInv, TypeOK
  <2>3. worker'[s].phase = "idle" /\ worker'[s].traced = FALSE
    BY <2>1, <2>2 DEF Worker
  <2>4. \A t \in Signals : ShutInv(t)'
    <3>1. "trace" \in Signals /\ queue' \in {queue, Offered("trace")}
      BY <1>7 DEF EndExport, Signals
    <3>2. processor' = processor /\ exporterIsShutdown' = exporterIsShutdown
      BY <1>7 DEF EndExport
    <3>3. \A t \in Signals :
            worker'[t].phase = worker[t].phase \/ worker'[t].phase = "idle"
      BY <2>1, <2>3
    <3>4. QED
      BY <3>1, <3>2, <3>3, ShutQueue
  <2>5. ~worker'["trace"].traced /\ \A t \in Signals : FreshInv(worker'[t])
    BY <2>1, <2>3 DEF ChannelInv, FreshInv, Signals
  <2>6. QED
    BY <2>4, <2>5 DEF ChannelInv
<1>8. ASSUME NEW s \in Signals, Arrive(s) PROVE ChannelInv'
  <2>1. \A t \in Signals : /\ worker'[t].phase = worker[t].phase
                           /\ worker'[t].traced = worker[t].traced
                           /\ worker'[t].result = worker[t].result
    BY <1>8 DEF Arrive, IInv, TypeOK, Worker
  <2>2. QED
    BY <1>8, <2>1 DEF Arrive, ChannelInv, ShutInv, FreshInv, Signals
<1>9. ASSUME NEW s \in Signals, Answer(s) \/ FailCall(s) PROVE ChannelInv'
  <2>1. worker[s].phase = "call"
    BY <1>9 DEF Answer, FailCall
  <2>2. \E status \in {"OK", "error"} :
          worker' = [worker EXCEPT ![s].phase = "answered", ![s].status = status]
    BY <1>9 DEF Answer, FailCall
  <2>3. /\ worker'[s].traced = worker[s].traced /\ worker'[s].phase = "answered"
        /\ \A t \in Signals : t # s => worker'[t] = worker[t]
    BY <2>2 DEF IInv, TypeOK, Worker
  <2>4. UNCHANGED <<queue, processor, exporterIsShutdown>>
    BY <1>9 DEF Answer, FailCall
  <2>5. \A t \in Signals : ShutInv(t)'
    BY <2>1, <2>3, <2>4 DEF ChannelInv, ShutInv
  <2>6. ~worker'["trace"].traced /\ \A t \in Signals : FreshInv(worker'[t])
    BY <2>3 DEF ChannelInv, FreshInv, Signals
  <2>7. QED
    BY <2>5, <2>6 DEF ChannelInv
<1>10. QED
  BY <1>1, <1>2, <1>3, <1>4, <1>5, <1>6, <1>7, <1>8, <1>9 DEF Next, WorkerStep
-----------------------------------------------------------------------------
(* What ReportChannel sees of the state. *)

Doors == [s \in Signals |-> Door[processor[s]]]
Stages == [s \in Signals |-> Stage(worker[s])]
Sent == [s \in Signals |-> Requests(worker[s])]
Outcomes == [s \in Signals |-> worker[s].result]

\* A worker with a new record is a new stage, request and outcome of its signal.
LEMMA StageMoves ==
  ASSUME NEW s \in Signals, NEW v,
         Stage(worker'[s]) = v, \A t \in Signals : t # s => worker'[t] = worker[t]
  PROVE  Stages' = [Stages EXCEPT ![s] = v]
BY DEF Stages, Stage

LEMMA RequestMoves ==
  ASSUME NEW s \in Signals, NEW v,
         Requests(worker'[s]) = v, \A t \in Signals : t # s => worker'[t] = worker[t]
  PROVE  Sent' = [Sent EXCEPT ![s] = v]
<1>1. \A t \in Signals : t # s => Requests(worker[t])' = Requests(worker[t])
  BY DEF Requests
<1>2. Requests(worker[s])' = v
  BY DEF Requests
<1>3. QED
  BY <1>1, <1>2 DEF Sent

LEMMA OutcomeMoves ==
  ASSUME NEW s \in Signals, NEW v,
         worker'[s].result = v, \A t \in Signals : t # s => worker'[t] = worker[t]
  PROVE  Outcomes' = [Outcomes EXCEPT ![s] = v]
BY DEF Outcomes

LEMMA DoorMoves ==
  ASSUME NEW s \in Signals, NEW v,
         Door[processor'[s]] = v, \A t \in Signals : t # s => processor'[t] = processor[t]
  PROVE  Doors' = [Doors EXCEPT ![s] = v]
BY DEF Doors

LEMMA DoorOpen ==
  ASSUME IInv, NEW s \in Signals
  PROVE  /\ Doors[s] = "open" <=> processor[s] = "open"
         /\ Doors[s] = "closing" <=> processor[s] = "closing"
         /\ Doors[s] = "closed" <=> processor[s] = "shut"
BY DEF Doors, Door, IInv, TypeOK

\* Offers and a processor's end.
LEMMA ChannelStep ==
  ASSUME IInv, ChannelInv, NEW s \in Signals,
         Produce(s) \/ CloseProcessor(s) \/ Shutdown(s)
  PROVE  [C!Next]_(C!vars)
<1>1. CASE Produce(s)
  <2>1. UNCHANGED <<Doors, Stages, Sent, Outcomes>>
    BY <1>1 DEF Produce, Doors, Stages, Sent, Outcomes
  <2>2. CASE queue' = queue
    BY <2>1, <2>2 DEF C!vars, Doors, Stages, Sent, Outcomes
  <2>3. CASE /\ processor[s] = "open" /\ queue[s] < MaxQueue
             /\ queue' = [queue EXCEPT ![s] = @ + 1]
    <3>1. C!Accept(s)
      BY <2>1, <2>3, DoorOpen DEF C!Accept, C!Grows, Doors, Stages, Sent, Outcomes
    <3>2. QED
      BY <3>1 DEF C!Next, C!Signals, Signals
  <2>4. QED
    BY <1>1, <2>2, <2>3, OfferedGrows DEF Produce
<1>2. CASE CloseProcessor(s)
  <2>1. Doors' = [Doors EXCEPT ![s] = "closing"]
    <3>1. /\ processor'[s] = "closing"
          /\ \A t \in Signals : t # s => processor'[t] = processor[t]
      BY <1>2 DEF CloseProcessor, IInv, TypeOK
    <3>2. Door[processor'[s]] = "closing"
      BY <3>1 DEF Door
    <3>3. QED
      BY <3>1, <3>2, DoorMoves
  <2>2. UNCHANGED <<queue, Stages, Sent, Outcomes>>
    BY <1>2 DEF CloseProcessor, Stages, Sent, Outcomes
  <2>3. C!Close(s)
    BY <1>2, <2>1, <2>2, DoorOpen DEF CloseProcessor, C!Close, Doors, Stages, Sent, Outcomes
  <2>4. QED
    BY <2>3 DEF C!Next, C!Signals, Signals
<1>3. CASE Shutdown(s)
  <2>1. Doors' = [Doors EXCEPT ![s] = "closed"]
    <3>1. /\ processor'[s] = "shut"
          /\ \A t \in Signals : t # s => processor'[t] = processor[t]
      BY <1>3 DEF Shutdown, IInv, TypeOK
    <3>2. Door[processor'[s]] = "closed"
      BY <3>1 DEF Door
    <3>3. QED
      BY <3>1, <3>2, DoorMoves
  <2>2. UNCHANGED <<queue, Stages, Sent, Outcomes>>
    BY <1>3 DEF Shutdown, Stages, Sent, Outcomes
  <2>3. Stages[s] = "idle" /\ queue[s] = 0
    BY <1>3 DEF Shutdown, Stages, Stage
  <2>4. C!Finish(s)
    BY <1>3, <2>1, <2>2, <2>3, DoorOpen
    DEF Shutdown, C!Finish, Doors, Stages, Sent, Outcomes
  <2>5. QED
    BY <2>4 DEF C!Next, C!Signals, Signals
<1>4. QED
  BY <1>1, <1>2, <1>3

LEMMA TakeStep ==
  ASSUME IInv, ChannelInv, NEW s \in Signals, TakeBatch(s)
  PROVE  C!Next
<1> DEFINE w == [Idle EXCEPT !.phase = "export"]
<1>1. worker' = [worker EXCEPT ![s] = w]
  BY DEF TakeBatch
<1>2. Stage(w) = "taken" /\ Requests(w) = "none" /\ w.result = "none"
  BY DEF Idle, Stage, Requests
<1> HIDE DEF w
<1>3. /\ Stages' = [Stages EXCEPT ![s] = "taken"]
      /\ Sent' = [Sent EXCEPT ![s] = "none"]
      /\ Outcomes' = [Outcomes EXCEPT ![s] = "none"]
  <2>1. worker'[s] = w /\ \A t \in Signals : t # s => worker'[t] = worker[t]
    BY <1>1, WorkerOf
  <2>2. /\ Stage(worker'[s]) = "taken" /\ Requests(worker'[s]) = "none"
        /\ worker'[s].result = "none"
    BY <1>2, <2>1
  <2>3. QED
    BY <2>1, <2>2, StageMoves, RequestMoves, OutcomeMoves
<1>4. Stages[s] = "idle" /\ Doors[s] # "closed"
  BY DoorOpen DEF TakeBatch, Stages, Stage
<1>5. \E left \in 0 .. queue[s] - 1 : queue' = [queue EXCEPT ![s] = left]
  <2> DEFINE left == IF queue[s] > MaxBatch THEN queue[s] - MaxBatch ELSE 0
  <2>1. queue[s] \in Nat /\ queue[s] > 0
    BY DEF TakeBatch, IInv, TypeOK
  <2>2. left \in 0 .. queue[s] - 1
    BY <2>1, BatchAssumption, QueueAssumption
  <2>3. queue' = [queue EXCEPT ![s] = left]
    BY DEF TakeBatch
  <2>4. QED
    BY <2>2, <2>3
<1>6. Doors' = Doors
  BY DEF TakeBatch, Doors
<1>7. C!Take(s)
  BY <1>3, <1>4, <1>5, <1>6 DEF C!Take, Doors, Stages, Sent, Outcomes
<1>8. QED
  BY <1>7 DEF C!Next, C!Progress, C!Signals, Signals

LEMMA SendStep ==
  ASSUME IInv, ChannelInv, NEW s \in Signals, Export(s)
  PROVE  C!Next
<1>1. PICK b \in BOOLEAN :
        /\ b => s # "trace"
        /\ worker' = [worker EXCEPT ![s] =
             [Idle EXCEPT !.phase = "call", !.traced = b, !.inFlight = 1]]
  BY ExportSends
<1> DEFINE w == [Idle EXCEPT !.phase = "call", !.traced = b, !.inFlight = 1]
<1>2. w.phase = "call" /\ w.inFlight = 1 /\ w.arrived = 0 /\ w.result = "none"
  BY SentParts
<1>3. worker' = [worker EXCEPT ![s] = w]
  BY <1>1
<1> HIDE DEF w
<1>4. Stage(w) = "sent" /\ Requests(w) = "out"
  BY <1>2 DEF Stage, Requests
<1>5. /\ Stages' = [Stages EXCEPT ![s] = "sent"]
      /\ Sent' = [Sent EXCEPT ![s] = "out"]
      /\ Outcomes' = [Outcomes EXCEPT ![s] = "none"]
  <2>1. worker'[s] = w /\ \A t \in Signals : t # s => worker'[t] = worker[t]
    BY <1>3, WorkerOf
  <2>2. /\ Stage(worker'[s]) = "sent" /\ Requests(worker'[s]) = "out"
        /\ worker'[s].result = "none"
    BY <1>2, <1>4, <2>1
  <2>3. QED
    BY <2>1, <2>2, StageMoves, RequestMoves, OutcomeMoves
<1>6. Stages[s] = "taken"
  BY DEF Export, Stages, Stage
<1>7. Outcomes[s] = "none"
  BY DEF Export, ChannelInv, FreshInv, Outcomes
<1>8. Outcomes' = Outcomes
  BY <1>5, <1>7 DEF Outcomes
<1>9. UNCHANGED <<queue, Doors>>
  BY DEF Export, Doors
<1>10. C!Send(s)
  BY <1>5, <1>6, <1>8, <1>9 DEF C!Send, Doors, Stages, Sent, Outcomes
<1>11. QED
  BY <1>10 DEF C!Next, C!Progress, C!Signals, Signals

LEMMA ConcludeStep ==
  ASSUME IInv, ChannelInv, NEW s \in Signals, EndExport(s)
  PROVE  C!Next
<1> DEFINE w == [worker[s] EXCEPT !.phase = "idle", !.traced = FALSE,
                                  !.result = ExportResult(worker[s].status)]
<1>1. worker' = [worker EXCEPT ![s] = w] /\ worker[s].phase = "answered"
  BY DEF EndExport
<1>2. worker[s] \in Worker /\ WorkerInv(worker[s])
  BY DEF IInv, TypeOK
<1>3. /\ w.phase = "idle" /\ w.inFlight = worker[s].inFlight
      /\ w.arrived = worker[s].arrived /\ w.result = ExportResult(worker[s].status)
  BY <1>2 DEF Worker
<1> HIDE DEF w
<1>4. Stage(w) = "idle" /\ Requests(w) = Requests(worker[s])
  BY <1>3 DEF Stage, Requests
<1>5. /\ Stages' = [Stages EXCEPT ![s] = "idle"]
      /\ Sent' = Sent
      /\ Outcomes' = [Outcomes EXCEPT ![s] = w.result]
  <2>1. worker'[s] = w /\ \A t \in Signals : t # s => worker'[t] = worker[t]
    BY <1>1, WorkerOf
  <2>2. /\ Stage(worker'[s]) = "idle" /\ Requests(worker'[s]) = Sent[s]
        /\ worker'[s].result = w.result
    BY <1>4, <2>1 DEF Sent
  <2>3. Sent' = [Sent EXCEPT ![s] = Sent[s]]
    BY <2>1, <2>2, RequestMoves
  <2>4. Sent' = Sent
    BY <2>3 DEF Sent
  <2>5. QED
    BY <2>1, <2>2, <2>4, StageMoves, OutcomeMoves
<1>6. Stages[s] = "sent"
  BY <1>1 DEF Stages, Stage
<1>7. /\ w.result \in {"kSuccess", "kFailure"}
      /\ w.result = "kSuccess" => Sent[s] = "there"
  <2>1. w.result = "kSuccess" => worker[s].status = "OK"
    BY <1>3 DEF ExportResult
  <2>2. w.result = "kSuccess" => worker[s].inFlight = 0 /\ worker[s].arrived = 1
    BY <1>1, <1>2, <2>1 DEF Worker, WorkerInv, SentOnce, StatusIsTrue
  <2>3. QED
    BY <1>3, <2>2 DEF ExportResult, Sent, Requests
<1>8. queue' = queue \/ (s = "log" /\ C!Grows("trace"))
  <2>1. CASE ~worker[s].traced
    BY <2>1 DEF EndExport
  <2>2. CASE worker[s].traced
    <3>1. s = "log"
      BY <2>2 DEF ChannelInv, Signals
    <3>2. queue' = Offered("trace")
      BY <2>2 DEF EndExport
    <3>3. Doors["trace"] = "open" <=> processor["trace"] = "open"
      BY DoorOpen DEF Signals
    <3>4. QED
      BY <3>1, <3>2, <3>3, OfferedGrows DEF C!Grows, Doors
  <2>3. QED
    BY <2>1, <2>2, <1>2 DEF Worker
<1>9. Doors' = Doors
  BY DEF EndExport, Doors
<1>10. C!Conclude(s)
  BY <1>5, <1>6, <1>7, <1>8, <1>9 DEF C!Conclude, Doors, Stages, Sent, Outcomes
<1>11. QED
  BY <1>10 DEF C!Next, C!Progress, C!Signals, Signals

LEMMA ReachStep ==
  ASSUME IInv, ChannelInv, NEW s \in Signals, Arrive(s)
  PROVE  C!Next
<1> DEFINE w == [worker[s] EXCEPT !.inFlight = @ - 1, !.arrived = @ + 1]
<1>1. worker[s] \in Worker /\ worker[s].inFlight = 1 /\ worker[s].arrived = 0
  BY DEF IInv, TypeOK, Arrive, Worker, WorkerInv, SentOnce
<1>2. worker' = [worker EXCEPT ![s] = w]
  BY DEF Arrive, IInv, TypeOK
<1>3. /\ w.phase = worker[s].phase /\ w.result = worker[s].result
      /\ w.inFlight = 0 /\ w.arrived = 1
  BY <1>1 DEF Worker
<1> HIDE DEF w
<1>4. Stage(w) = Stage(worker[s]) /\ Requests(w) = "there" /\ Sent[s] = "out"
  BY <1>1, <1>3 DEF Stage, Requests, Sent
<1>5. /\ Stages' = Stages
      /\ Sent' = [Sent EXCEPT ![s] = "there"]
      /\ Outcomes' = Outcomes
  <2>1. worker'[s] = w /\ \A t \in Signals : t # s => worker'[t] = worker[t]
    BY <1>2, WorkerOf
  <2>2. /\ Stage(worker'[s]) = Stages[s] /\ Requests(worker'[s]) = "there"
        /\ worker'[s].result = Outcomes[s]
    BY <1>3, <1>4, <2>1 DEF Stages, Outcomes
  <2>3. /\ Stages' = [Stages EXCEPT ![s] = Stages[s]]
        /\ Outcomes' = [Outcomes EXCEPT ![s] = Outcomes[s]]
    BY <2>1, <2>2, StageMoves, OutcomeMoves
  <2>4. Stages' = Stages /\ Outcomes' = Outcomes
    BY <2>3 DEF Stages, Outcomes
  <2>5. QED
    BY <2>1, <2>2, <2>4, RequestMoves
<1>6. UNCHANGED <<queue, Doors>>
  BY DEF Arrive, Doors
<1>7. C!Reach(s)
  BY <1>4, <1>5, <1>6 DEF C!Reach, Doors, Stages, Sent, Outcomes
<1>8. QED
  BY <1>7 DEF C!Next, C!Signals, Signals

\* The channel does not see why a call ended.
LEMMA AnswerStep ==
  ASSUME IInv, ChannelInv, NEW s \in Signals, Answer(s) \/ FailCall(s)
  PROVE  UNCHANGED C!vars
<1>1. PICK status \in {"OK", "error"} :
        worker' = [worker EXCEPT ![s].phase = "answered", ![s].status = status]
  BY DEF Answer, FailCall
<1> DEFINE w == [worker[s] EXCEPT !.phase = "answered", !.status = status]
<1>2. worker[s] \in Worker /\ worker[s].phase = "call"
  BY DEF IInv, TypeOK, Answer, FailCall
<1>3. worker' = [worker EXCEPT ![s] = w]
  BY <1>1 DEF IInv, TypeOK
<1>4. /\ w.phase = "answered" /\ w.result = worker[s].result
      /\ w.inFlight = worker[s].inFlight /\ w.arrived = worker[s].arrived
  BY <1>2 DEF Worker
<1> HIDE DEF w
<1>5. Stage(w) = Stage(worker[s]) /\ Requests(w) = Requests(worker[s])
  BY <1>2, <1>4 DEF Stage, Requests
<1>6. Stages' = Stages /\ Sent' = Sent /\ Outcomes' = Outcomes
  <2>1. worker'[s] = w /\ \A t \in Signals : t # s => worker'[t] = worker[t]
    BY <1>3, WorkerOf
  <2>2. /\ Stage(worker'[s]) = Stages[s] /\ Requests(worker'[s]) = Sent[s]
        /\ worker'[s].result = Outcomes[s]
    BY <1>4, <1>5, <2>1 DEF Stages, Sent, Outcomes
  <2>3. /\ Stages' = [Stages EXCEPT ![s] = Stages[s]]
        /\ Sent' = [Sent EXCEPT ![s] = Sent[s]]
        /\ Outcomes' = [Outcomes EXCEPT ![s] = Outcomes[s]]
    BY <2>1, <2>2, StageMoves, RequestMoves, OutcomeMoves
  <2>4. QED
    BY <2>3 DEF Stages, Sent, Outcomes
<1>7. UNCHANGED <<queue, Doors>>
  BY DEF Answer, FailCall, Doors
<1>8. QED
  BY <1>6, <1>7 DEF C!vars, Doors, Stages, Sent, Outcomes

\* Both exporters with their processors are the channel ReportChannel describes:
\* what was accepted before a Shutdown is sent, a batch is sent once and answered
\* for truthfully, and only exports of logs make more to report.
THEOREM ImplementsReportChannel == Spec => C!Spec
<1>1. Init => C!Init
  <2> SUFFICES ASSUME Init PROVE C!Init
    OBVIOUS
  <2>1. \A s \in Signals : /\ Doors[s] = "open" /\ Stages[s] = "idle"
                           /\ Sent[s] = "none" /\ Outcomes[s] = "none"
    BY DEF Init, Idle, Doors, Door, Stages, Stage, Sent, Requests, Outcomes
  <2>2. /\ Doors = [s \in Signals |-> "open"] /\ Stages = [s \in Signals |-> "idle"]
        /\ Sent = [s \in Signals |-> "none"] /\ Outcomes = [s \in Signals |-> "none"]
    BY <2>1 DEF Doors, Stages, Sent, Outcomes
  <2>3. queue = [s \in Signals |-> 0]
    BY DEF Init
  <2>4. QED
    BY <2>2, <2>3 DEF C!Init, C!Signals, Signals, Doors, Stages, Sent, Outcomes
<1>2. IInv /\ ChannelInv /\ [Next]_vars => [C!Next]_(C!vars)
  <2> SUFFICES ASSUME IInv, ChannelInv, [Next]_vars PROVE [C!Next]_(C!vars)
    OBVIOUS
  <2>1. CASE FallQuiet \/ UNCHANGED vars
    <3>1. UNCHANGED <<queue, Doors, Stages, Sent, Outcomes>>
      BY <2>1 DEF FallQuiet, vars, Doors, Stages, Sent, Outcomes
    <3>2. QED
      BY <3>1 DEF C!vars, Doors, Stages, Sent, Outcomes
  <2>2. ASSUME NEW s \in Signals,
               Produce(s) \/ CloseProcessor(s) \/ Shutdown(s)
        PROVE  [C!Next]_(C!vars)
    BY <2>2, ChannelStep
  <2>3. ASSUME NEW s \in Signals, WorkerStep(s) PROVE C!Next
    BY <2>3, TakeStep, SendStep, ConcludeStep DEF WorkerStep
  <2>4. ASSUME NEW s \in Signals, Arrive(s) PROVE C!Next
    BY <2>4, ReachStep
  <2>5. ASSUME NEW s \in Signals, Answer(s) \/ FailCall(s) PROVE UNCHANGED C!vars
    BY <2>5, AnswerStep
  <2>6. QED
    BY <2>1, <2>2, <2>3, <2>4, <2>5 DEF Next
<1>3. Spec => []ChannelInv
  BY InitChannelInv, NextChannelInv, ExportInvariance, PTL DEF Spec
<1>4. QED
  BY <1>1, <1>2, <1>3, ExportInvariance, PTL DEF Spec, C!Spec
=============================================================================
