----------------------------- MODULE CallChain -----------------------------
(***************************************************************************)
(* How a trace spreads over services: NewSpan of the two filters           *)
(* (tracing/server_filter.cc, tracing/client_filter.cc), the carriers      *)
(* (tracing/text_map_carrier.cc) and the sampler of every service.         *)
(*                                                                         *)
(* A header is the span context a carrier can hold under the propagation   *)
(* keys.  A request has two places for one: the http header proper and the *)
(* transinfo of the trpc protocol, which an http request carries in its    *)
(* trpc-trans-info field.  A request that was sent arrives at any later     *)
(* time, any number of times, or never.                                    *)
(* A definition just above another one with the same parameters is a       *)
(* plausible wrong version of it, used to try the properties out.          *)
(***************************************************************************)
EXTENDS OpenTelemetryTracing

CONSTANTS Services, Configs,
          Spans,           \* identities of the spans ever started
          ClientContexts,  \* client contexts, each used for any number of calls
          TraceIds,        \* words read from the trace ids met
          None             \* no span, no context, no header

ASSUME ConfigAssumption == Configs \subseteq Config
ASSUME TraceIdAssumption == TraceIds \subseteq Word

VARIABLES config,  \* the configuration of each service
          span,    \* the spans; a server span keeps the request it was made for
          ctx,     \* the client contexts
          net      \* all requests sent

vars == <<config, span, ctx, net>>

Codecs == {"trpc", "http"}
Header == [trace : TraceIds, span : Spans, sampled : BOOLEAN]
Carrier == [header : Header \cup {None}, transinfo : Header \cup {None}]

\* via is, for the properties, the client span of the call that sent the request.
Request == [to : Services, codec : Codecs, carrier : Carrier, via : Spans \cup {None}]

Span ==
  [kind : {"server", "client"}, service : Services, trace : TraceIds,
   parent : Spans \cup {None}, sampled : BOOLEAN, forced : BOOLEAN,
   request : Request \cup {None}]

ClientContext ==
  [phase : {"ready", "invoked"}, service : Services, codec : Codecs,
   carrier : Carrier, parent : Spans \cup {None}, span : Spans \cup {None}]

ASSUME NoneAssumption == None \notin Spans \cup Header \cup Request \cup Span \cup ClientContext

Init ==
  /\ config \in [Services -> Configs]
  /\ span = [s \in Spans |-> None]
  /\ ctx = [c \in ClientContexts |-> None]
  /\ net = {}

Started == {s \in Spans : span[s] # None}
-----------------------------------------------------------------------------
(* Carriers. *)

\* A writer that leaves a key alone that is there already.
InjectOnce(codec, carrier, header) ==
  CASE codec = "http" /\ carrier.header = None    -> [carrier EXCEPT !.header = header]
    [] codec # "http" /\ carrier.transinfo = None -> [carrier EXCEPT !.transinfo = header]
    [] OTHER -> carrier

\* HttpTraceContext::Inject through the writer that GetClientCarrierFunc returns.
Inject(codec, carrier, header) ==
  IF codec = "http" THEN [carrier EXCEPT !.header = header]
                    ELSE [carrier EXCEPT !.transinfo = header]

TransInfoFirst(codec, carrier) ==
  IF codec = "http" /\ carrier.transinfo = None THEN carrier.header ELSE carrier.transinfo

\* HttpTraceContext::Extract through the reader that GetServerCarrierFunc returns:
\* HttpHeaderReader falls back on the trpc-trans-info field.
Extract(codec, carrier) ==
  IF codec = "http" /\ carrier.header # None THEN carrier.header ELSE carrier.transinfo
-----------------------------------------------------------------------------
(* Starting a span. *)

\* What the sampler of a configuration answers; a table, so that TLC computes
\* the arithmetic once.
Decision ==
  [cfg \in Configs |-> [forced \in BOOLEAN |-> [parentSampled \in BOOLEAN |->
     [id \in TraceIds |-> ShouldSample(SamplerOptions(cfg), forced, parentSampled, id)]]]]

UsedTraces == {span[s].trace : s \in Started}

\* Tracer::StartSpan of the SDK with a sampler's answer.  A dropped span has a
\* valid, unsampled context all the same.
StartSpan(kind, service, parent, request, forced, trace) ==
  [kind |-> kind, service |-> service, trace |-> trace,
   parent |-> IF parent = None THEN None ELSE parent.span,
   sampled |->
     Decision[config[service]][forced][parent # None /\ parent.sampled][trace]
       = "RECORD_AND_SAMPLE",
   forced |-> forced, request |-> request]

\* A valid parent gives the trace id, otherwise a new one is drawn.
NewSpans(kind, service, parent, request) ==
  {StartSpan(kind, service, parent, request, forced, trace) :
     forced \in BOOLEAN,
     trace \in IF parent = None THEN TraceIds \ UsedTraces ELSE {parent.trace}}

ShortTraceId(s, r) == [trace |-> r.trace % Half, span |-> s, sampled |-> r.sampled]

\* Span::GetContext of span s, whose record is r.
SpanContext(s, r) == [trace |-> r.trace, span |-> s, sampled |-> r.sampled]
-----------------------------------------------------------------------------
(* The filters and the framework around them. *)

\* Requests from callers that do not trace.
Untraced == [to : Services, codec : Codecs, via : {None},
             carrier : [header : {None}, transinfo : {None}]]

\* NewSpan of the server filter.
ServerPre(request) ==
  /\ \E s \in Spans \ Started :
     \E r \in NewSpans("server", request.to,
                       Extract(request.codec, request.carrier), request) :
       span' = [span EXCEPT ![s] = r]
  /\ UNCHANGED <<config, ctx, net>>

\* The framework: a client context made for a server call copies its span and
\* may copy what its request carried; one made from nothing carries nothing.
MakeClientContext(c) ==
  /\ ctx[c] = None
  /\ \E service \in Services, codec \in Codecs :
     \E p \in {None} \cup {s \in Started : span[s].kind = "server" /\ span[s].service = service} :
     \E header, transinfo \in {None} \cup
          IF p = None THEN {} ELSE {span[p].request.carrier.header,
                                    span[p].request.carrier.transinfo} :
       /\ codec = "trpc" => header = None
       /\ ctx' = [ctx EXCEPT ![c] =
                    [phase |-> "ready", service |-> service, codec |-> codec,
                     carrier |-> [header |-> header, transinfo |-> transinfo],
                     parent |-> p, span |-> None]]
  /\ UNCHANGED <<config, span, net>>

ChainedAttempts(context) == IF context.span = None THEN context.parent ELSE context.span

OnlySampledParent(context) ==
  IF context.parent # None /\ span[context.parent].sampled THEN context.parent ELSE None

\* Whose context NewSpan of the client filter puts into op.parent.
ParentOf(context) == context.parent

\* NewSpan of the client filter, on a fresh context or on one used again for
\* another attempt, whose carrier still holds what the last one injected.
ClientPre(c) ==
  /\ ctx[c] # None
  /\ \E s \in Spans \ Started :
       LET p == ParentOf(ctx[c])
       IN  \E r \in NewSpans("client", ctx[c].service,
                             IF p = None THEN None ELSE SpanContext(p, span[p]), None) :
             /\ span' = [span EXCEPT ![s] = r]
             /\ ctx' = [ctx EXCEPT ![c] =
                  [ctx[c] EXCEPT
                     !.phase = "invoked", !.span = s,
                     !.carrier = Inject(ctx[c].codec, ctx[c].carrier, SpanContext(s, r))]]
  /\ UNCHANGED <<config, net>>

\* The framework encodes the request and sends it; what a trpc client sends may
\* arrive at an http server.
Send(c) ==
  /\ ctx[c] # None /\ ctx[c].phase = "invoked"
  /\ \E service \in Services, codec \in {ctx[c].codec, "http"} :
       net' = net \cup {[to |-> service, codec |-> codec,
                         carrier |-> ctx[c].carrier, via |-> ctx[c].span]}
  /\ ctx' = [ctx EXCEPT ![c].phase = "ready"]
  /\ UNCHANGED <<config, span>>

Next ==
  \/ \E request \in net \cup Untraced : ServerPre(request)
  \/ \E c \in ClientContexts : MakeClientContext(c) \/ ClientPre(c) \/ Send(c)

Spec == Init /\ [][Next]_vars
-----------------------------------------------------------------------------
(* What the chain promises. *)

\* Types of the state.
TypeOK ==
  /\ config \in [Services -> Configs]
  /\ span \in [Spans -> Span \cup {None}]
  /\ ctx \in [ClientContexts -> ClientContext \cup {None}]
  /\ net \subseteq Request

\* However contexts are reused, requests pass other services' headers on and the
\* network loses, delays or repeats them: the parent of a server span is the
\* client span of the very call that sent its request.
ServerParentIsCaller ==
  \A s \in Started : span[s].kind = "server" => span[s].parent = span[s].request.via

\* Every attempt made on a client context, the first and every later one (each is
\* the context's span at some time), has for parent the very server span the
\* context was made for, sampled or not, and none if it was made from nothing: it
\* hangs neither under the attempt before it nor beside it as a root.
AttemptsAreSiblings ==
  \A c \in ClientContexts :
    ctx[c] # None /\ ctx[c].span # None => span[ctx[c].span].parent = ctx[c].parent

\* A call stays in the trace of the call it is made for, on either side of the
\* wire and whether or not that trace is sampled.
OneTrace ==
  /\ \A s \in Started :
       span[s].request # None /\ span[s].request.via # None =>
         span[s].trace = span[span[s].request.via].trace
  /\ \A c \in ClientContexts :
       ctx[c] # None /\ ctx[c].parent # None /\ ctx[c].span # None =>
         span[ctx[c].span].trace = span[ctx[c].parent].trace

\* A sampled span is followed by sampled spans in every service that does not
\* disable parent sampling.
SamplingReachesDown ==
  \A s \in Started :
    LET p == span[s].parent
    IN  /\ p # None /\ span[p].sampled
        /\ ~config[span[s].service].disable_parent_sampling
        => span[s].sampled

\* A trace drawn at its root is complete in every service whose fraction is not
\* smaller, even where parent sampling is disabled and whatever happened between.
DrawnTraceIsWhole ==
  \A s, t \in Started :
    LET f == config[span[s].service].fraction
        g == config[span[t].service].fraction
    IN  /\ span[s].parent = None /\ span[s].sampled /\ ~span[s].forced
        /\ span[t].trace = span[s].trace
        /\ f[1] * g[2] <= g[1] * f[2]
        => span[t].sampled
=============================================================================
