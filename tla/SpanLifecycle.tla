--------------------------- MODULE SpanLifecycle ---------------------------
(***************************************************************************)
(* The life of a span between the two tracing filters, the user code that  *)
(* shares it and the processor chain (tracing/server_filter.cc,            *)
(* tracing/client_filter.cc, tracing/deferred_sample_processor.cc).        *)
(*                                                                         *)
(* A context is one server call or one reusable client context.  Its       *)
(* filter runs at the PRE point (NewSpan) and at the POST point            *)
(* (FinishSpan); FinishSpan takes one step per call it makes on the span,  *)
(* because every such call locks the span for itself and user code that    *)
(* got the span from GetTracingSpan may run between two of them.           *)
(*                                                                         *)
(* The SDK's Span is external: it stops recording at its first End, runs   *)
(* OnEnd of the processor chain there, ignores everything later, and its   *)
(* destructor is an End.                                                   *)
(*                                                                         *)
(* A definition just above another one with the same parameters is a       *)
(* plausible wrong version of it, used to try the properties out.          *)
(***************************************************************************)
EXTENDS OpenTelemetryTracing

CONSTANTS Spans,           \* identities of the spans ever started
          ServerContexts,  \* server calls
          ClientContexts,  \* client contexts
          NoSpan,          \* an empty span pointer
          Configs,         \* plugin configurations
          TraceIds,        \* words read from the trace ids met
          Durations        \* span durations, in the unit of the slow threshold

ASSUME ContextAssumption == ServerContexts \cap ClientContexts = {}
ASSUME NoSpanAssumption == NoSpan \notin Spans
ASSUME ConfigAssumption == Configs \subseteq Config
ASSUME TraceIdAssumption == TraceIds \subseteq Word
ASSUME DurationAssumption == Durations \subseteq Nat

VARIABLES config,    \* the configuration, read once when the plugin starts
          ctx,       \* the contexts, with the filter data they carry
          span,      \* the spans
          userHolds  \* spans that user code holds a shared pointer to

vars == <<config, ctx, span, userHolds>>

Contexts == ServerContexts \cup ClientContexts

\* "pre" is the time before the PRE point, "call" the call itself, "add_request"
\* to "end" the steps of FinishSpan, "drop_parent" the middle of destruction.
Phases == {"unmade", "pre", "call", "add_request", "add_response", "set_status", "end",
           "post", "drop_parent", "gone"}

\* started: unused, then recording (a real Span) or noop (a NoopSpan), then ended.
\* handed counts the calls of BatchSpanProcessor::OnEnd with the span.  call,
\* statusBy and endedBy record, for the properties, how the call the span
\* stands for came out, who wrote the status last and who ended the span.
Span ==
  [phase : {"unused", "recording", "noop", "ended"},
   rec : Recordable(Nat),
   body : BOOLEAN,
   handed : Nat,
   call : {"unknown", "ok", "failed"},
   statusBy : {"nobody", "filter", "user"},
   endedBy : {"nobody", "filter", "user", "drop"}]

UnusedSpan ==
  [phase |-> "unused",
   rec |-> [sampled |-> FALSE, code |-> "kUnset", duration |-> 0],
   body |-> FALSE, handed |-> 0,
   call |-> "unknown", statusBy |-> "nobody", endedBy |-> "nobody"]

\* Types of the state; a span's status is one of the three StatusCode values.
TypeOK ==
  /\ config \in Configs
  /\ ctx \in [Contexts -> [phase : Phases,
                           span : Spans \cup {NoSpan},
                           parent : Spans \cup {NoSpan},
                           failed : BOOLEAN]]
  /\ span \in [Spans -> Span]
  /\ userHolds \subseteq Spans

Init ==
  /\ config \in Configs
  /\ ctx = [c \in Contexts |->
              [phase |-> IF c \in ServerContexts THEN "pre" ELSE "unmade",
               span |-> NoSpan, parent |-> NoSpan, failed |-> FALSE]]
  /\ span = [s \in Spans |-> UnusedSpan]
  /\ userHolds = {}
-----------------------------------------------------------------------------
(* The SDK's span, as far as the filters and the processor see it. *)

IsRecording(s) == s # NoSpan /\ span[s].phase = "recording"

\* A span that starts with decision d, its recordable being one of recs.
Started(d, recs) ==
  {[UnusedSpan EXCEPT !.phase = IF d = "DROP" THEN "noop" ELSE "recording",
                      !.rec = SetIdentity(r, d = "RECORD_AND_SAMPLE")] : r \in recs}

Ended(sp, d, who) ==
  LET rec == SetDuration(sp.rec, d)
  IN  [sp EXCEPT !.phase = "ended", !.rec = rec, !.endedBy = who,
                 !.handed = @ + HandedOver(config, rec)]

WithStatus(sp, code, who) ==
  LET rec == SetStatus(sp.rec, code)
  IN  [sp EXCEPT !.rec = rec, !.statusBy = who]

\* span after an End of s that finds it recording or not.
AfterEnd(s, d, who) ==
  IF IsRecording(s) THEN [span EXCEPT ![s] = Ended(@, d, who)] ELSE span

\* Whether somebody other than the filter data slot of c points to s.
HeldElsewhere(c, slot, s) ==
  \/ s \in userHolds
  \/ \E o \in Contexts : \/ ctx[o].span = s /\ <<o, "span">> # <<c, slot>>
                         \/ ctx[o].parent = s /\ <<o, "parent">> # <<c, slot>>

\* span after slot of c lets go of s: the last pointer runs the destructor.
AfterDrop(c, slot, s, d) ==
  IF HeldElsewhere(c, slot, s) THEN span ELSE AfterEnd(s, d, "drop")
-----------------------------------------------------------------------------
(* The filters. *)

\* MakeClientContext of the framework copies the span of the server context it
\* is given; a client context made from nothing has no parent span.
MakeClientContext(c) ==
  /\ ctx[c].phase = "unmade"
  /\ \E p \in {NoSpan} \cup
             {ctx[o].span : o \in {o \in ServerContexts : ctx[o].phase # "gone"}} :
       ctx' = [ctx EXCEPT ![c] = [@ EXCEPT !.phase = "pre", !.parent = p]]
  /\ UNCHANGED <<config, span, userHolds>>

\* The decisions NewSpan can get from the sampler of a configuration.  The trace
\* id is any of TraceIds: which spans share a trace does not matter here.
StartDecisions ==
  [cfg \in Configs |->
     [parentSampled \in BOOLEAN |->
        {ShouldSample(SamplerOptions(cfg), forced, parentSampled, id) :
           forced \in BOOLEAN, id \in TraceIds}]]

\* PRE point of the server filter: whatever the carrier yields, a span starts
\* and SetFilterData stores it.
ServerPre(c) ==
  /\ ctx[c].phase = "pre"
  /\ \E s \in Spans, remoteSampled \in BOOLEAN :
       /\ span[s].phase = "unused"
       /\ \E d \in StartDecisions[config][remoteSampled] :
            \E sp \in Started(d, FreshRecordables(config)) :
              span' = [span EXCEPT ![s] = sp]
       /\ ctx' = [ctx EXCEPT ![c] = [@ EXCEPT !.phase = "call", !.span = s]]
  /\ UNCHANGED <<config, userHolds>>

\* PRE point of the client filter, on a fresh context or on one used again:
\* the new span replaces the pointer of the previous call.
ClientPre(c) ==
  /\ ctx[c].phase \in {"pre", "post"}
  /\ LET parentSampled == ctx[c].parent # NoSpan /\ span[ctx[c].parent].rec.sampled
     IN  \E s \in Spans, dur \in Durations :
           /\ span[s].phase = "unused"
           /\ \E d \in StartDecisions[config][parentSampled] :
                \E sp \in Started(d, FreshRecordables(config)) :
                  span' = [AfterDrop(c, "span", ctx[c].span, dur) EXCEPT ![s] = sp]
           /\ ctx' = [ctx EXCEPT ![c] = [@ EXCEPT !.phase = "call", !.span = s]]
  /\ UNCHANGED <<config, userHolds>>

\* POST point, up to and including the IsRecording test.  The point is also
\* reached without a PRE point when an earlier filter rejected the call.
Post(c) ==
  /\ ctx[c].phase \in {"pre", "call"}
  /\ \E failed \in BOOLEAN :
       /\ ctx' = [ctx EXCEPT ![c] =
                   [@ EXCEPT !.failed = failed,
                             !.phase = IF IsRecording(ctx[c].span)
                                       THEN "add_request" ELSE "post"]]
       /\ span' = IF IsRecording(ctx[c].span)
                  THEN [span EXCEPT ![ctx[c].span].call =
                          IF failed THEN "failed" ELSE "ok"]
                  ELSE span
  /\ UNCHANGED <<config, userHolds>>

BodyOnAnyCall(opts, sampled, failed) ==
  ~opts.disable_trace_body /\ (sampled \/ opts.deferred_sample_error)

NeedReportReqRsp(opts, sampled, failed) ==
  /\ ~opts.disable_trace_body
  /\ sampled \/ (opts.deferred_sample_error /\ failed)

\* span after AddEvent with a message of s; one that is not protobuf leaves none.
AfterAddEvent(s, isProtobuf) ==
  IF isProtobuf /\ IsRecording(s) THEN [span EXCEPT ![s].body = TRUE] ELSE span

\* NeedReportReqRsp, asked once for both messages, and AddRequestEvent.
AddRequestEvent(c) ==
  /\ ctx[c].phase = "add_request"
  /\ LET s == ctx[c].span
         needed == NeedReportReqRsp(FilterOptions(config), span[s].rec.sampled, ctx[c].failed)
     IN  /\ ctx' = [ctx EXCEPT ![c].phase = IF needed THEN "add_response" ELSE "set_status"]
         /\ \E isProtobuf \in BOOLEAN :
              span' = IF needed THEN AfterAddEvent(s, isProtobuf) ELSE span
  /\ UNCHANGED <<config, userHolds>>

AddRsponseEvent(c) ==
  /\ ctx[c].phase = "add_response"
  /\ ctx' = [ctx EXCEPT ![c].phase = "set_status"]
  /\ \E isProtobuf \in BOOLEAN : span' = AfterAddEvent(ctx[c].span, isProtobuf)
  /\ UNCHANGED <<config, userHolds>>

AlwaysOk(failed) == "kOk"

\* detail::SetStatus
StatusOf(failed) == IF failed THEN "kError" ELSE "kOk"

SetSpanStatus(c) ==
  /\ ctx[c].phase = "set_status"
  /\ ctx' = [ctx EXCEPT ![c].phase = "end"]
  /\ LET s == ctx[c].span
     IN  span' = IF IsRecording(s)
                 THEN [span EXCEPT ![s] = WithStatus(@, StatusOf(ctx[c].failed), "filter")]
                 ELSE span
  /\ UNCHANGED <<config, userHolds>>

ForgetEnd(c) ==
  /\ ctx[c].phase = "end"
  /\ ctx' = [ctx EXCEPT ![c].phase = "post"]
  /\ UNCHANGED <<config, span, userHolds>>

EndSpan(c) ==
  /\ ctx[c].phase = "end"
  /\ ctx' = [ctx EXCEPT ![c].phase = "post"]
  /\ \E d \in Durations : span' = AfterEnd(ctx[c].span, d, "filter")
  /\ UNCHANGED <<config, userHolds>>

\* The context is destroyed, perhaps before its POST point, and its filter data
\* with it: first the span, then the parent span of a client context.
DropSpan(c) ==
  /\ ctx[c].phase \in {"pre", "call", "post"}
  /\ \E d \in Durations : span' = AfterDrop(c, "span", ctx[c].span, d)
  /\ ctx' = [ctx EXCEPT ![c] = [@ EXCEPT !.phase = "drop_parent", !.span = NoSpan]]
  /\ UNCHANGED <<config, userHolds>>

DropParent(c) ==
  /\ ctx[c].phase = "drop_parent"
  /\ \E d \in Durations : span' = AfterDrop(c, "parent", ctx[c].parent, d)
  /\ ctx' = [ctx EXCEPT ![c] = [@ EXCEPT !.phase = "gone", !.parent = NoSpan]]
  /\ UNCHANGED <<config, userHolds>>
-----------------------------------------------------------------------------
(* User code. *)

\* GetTracingSpan: a copy of the pointer in the filter data of a live context.
AcquireSpan(c) ==
  /\ ctx[c].phase \in Phases \ {"drop_parent", "gone"}
  /\ ctx[c].span # NoSpan
  /\ userHolds' = userHolds \cup {ctx[c].span}
  /\ UNCHANGED <<config, ctx, span>>

UserSetStatus(s) ==
  /\ s \in userHolds /\ IsRecording(s)
  /\ \E code \in StatusCodes :
       span' = [span EXCEPT ![s] = WithStatus(@, code, "user")]
  /\ UNCHANGED <<config, ctx, userHolds>>

UserEnd(s) ==
  /\ s \in userHolds /\ IsRecording(s)
  /\ \E d \in Durations : span' = AfterEnd(s, d, "user")
  /\ UNCHANGED <<config, ctx, userHolds>>

UserRelease(s) ==
  /\ s \in userHolds
  /\ userHolds' = userHolds \ {s}
  /\ \E d \in Durations :
       span' = IF \E c \in Contexts : s \in {ctx[c].span, ctx[c].parent}
               THEN span ELSE AfterEnd(s, d, "drop")
  /\ UNCHANGED <<config, ctx>>
-----------------------------------------------------------------------------
Finish(c) == AddRequestEvent(c) \/ AddRsponseEvent(c) \/ SetSpanStatus(c) \/ EndSpan(c)
Destroy(c) == DropSpan(c) \/ DropParent(c)

Next ==
  \/ \E c \in ServerContexts : ServerPre(c) \/ AcquireSpan(c)
  \/ \E c \in ClientContexts : MakeClientContext(c) \/ ClientPre(c)
  \/ \E c \in Contexts : Post(c) \/ Finish(c) \/ Destroy(c)
  \/ \E s \in Spans : UserSetStatus(s) \/ UserEnd(s) \/ UserRelease(s)

\* A filter that started to finish a span goes on, the framework destroys every
\* context sooner or later, and user code does not keep a span for ever.
Fairness ==
  /\ \A c \in Contexts : WF_vars(Finish(c)) /\ WF_vars(Destroy(c))
  /\ \A s \in Spans : WF_vars(UserRelease(s))

Spec == Init /\ [][Next]_vars
FairSpec == Spec /\ Fairness
-----------------------------------------------------------------------------
(* What the component promises. *)

Slow(s) == span[s].rec.duration > config.deferred_sample_slow_duration
FinishedByFilter(s) == span[s].endedBy = "filter" /\ span[s].statusBy = "filter"

\* However the filter, the user and the destructor interleave, the batch
\* processor gets a span at most once, and never one that still records.
HandedOnce ==
  \A s \in Spans : span[s].handed <= IF span[s].phase = "ended" THEN 1 ELSE 0

\* Head sampling is final: a sampled span that ended was handed over, whoever
\* ended it and whatever status it had (OnEnd, deferred_sample_processor.cc).
SampledIsHanded ==
  \A s \in Spans : span[s].phase = "ended" /\ span[s].rec.sampled => span[s].handed = 1

\* The filters' NeedReportReqRsp and the processor's ShouldDeferredSampler agree:
\* a request or response body is only ever attached to a span that is handed
\* over, as long as the status the filter wrote stands.
BodyIsHanded ==
  \A s \in Spans :
    span[s].phase = "ended" /\ span[s].body /\ span[s].statusBy = "filter" =>
      span[s].handed = 1

\* With deferred error sampling on, a failed call that its filter finished is
\* handed over although its trace was not sampled.
FailedCallIsHanded ==
  \A s \in Spans :
    /\ config.enable_deferred_sample /\ config.deferred_sample_error
    /\ span[s].call = "failed" /\ FinishedByFilter(s) /\ span[s].phase = "ended"
    => span[s].handed = 1

\* A call that was not sampled, succeeded, was fast and was finished by its
\* filter is not handed over, with or without deferred sampling.
QuietCallIsDropped ==
  \A s \in Spans :
    /\ span[s].phase = "ended" /\ ~span[s].rec.sampled /\ ~Slow(s)
    /\ span[s].call = "ok" /\ FinishedByFilter(s)
    => span[s].handed = 0

\* After the POST point of its context no span still records, so the pointer a
\* reused client context replaces, or a context that dies later, ends nothing.
PostedIsEnded ==
  \A c \in Contexts : ctx[c].phase = "post" => ~IsRecording(ctx[c].span)

\* README.md:204 makes sampling erroneous calls a switch of its own, off by default:
\* with deferred_sample_error off, a failed call whose filter wrote that status and
\* ended the span is handed over only if it was sampled or slow.
ErrorSamplingIsOptIn ==
  \A s \in Spans :
    span[s].call = "failed" /\ FinishedByFilter(s) /\ span[s].handed = 1 =>
      \/ span[s].rec.sampled
      \/ Slow(s)
      \/ config.deferred_sample_error

\* deferred_sample_processor.h:85 speaks of spans that encounter errors: a span
\* nobody gave a status has not.
UnsampledHasCause ==
  \A s \in Spans :
    span[s].handed = 1 => \/ span[s].rec.sampled
                          \/ Slow(s)
                          \/ span[s].statusBy # "nobody"

-----------------------------------------------------------------------------
(* SpanLifecycle implements SpanReport: the fate of a span, read off its state. *)

Fate(s) ==
  CASE span[s].phase = "unused"    -> "none"
    [] span[s].phase = "recording" -> "open"
    [] span[s].phase = "noop"      -> "ignored"
    [] OTHER -> IF span[s].handed = 1 THEN "reported" ELSE "dropped"

R == INSTANCE SpanReport
       WITH fate    <- [s \in Spans |-> Fate(s)],
            sampled <- [s \in Spans |-> span[s].rec.sampled]

\* Span by span, tracing behaves as SpanReport promises: a span that records is
\* settled exactly once, a sampled one by a report, and no path of the filters,
\* the user code or the contexts leaves it open for ever.
RefinesReport == R!FairSpec
=============================================================================
