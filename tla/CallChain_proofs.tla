--------------------------- MODULE CallChain_proofs ---------------------------
(***************************************************************************)
(* Proofs about CallChain, for any services, configurations, spans, client *)
(* contexts and trace ids.                                                 *)
(***************************************************************************)
EXTENDS CallChain, Sampler_proofs, TLAPS

\* What a span keeps of the span it was started under: its trace, and what the
\* sampler of its service answered when it was told about that parent.
SpanInv(s) ==
  LET r == span[s]
  IN  /\ r.parent # None => r.parent \in Started /\ r.trace = span[r.parent].trace
      /\ r.sampled <=>
           Decision[config[r.service]][r.forced][r.parent # None /\ span[r.parent].sampled]
                   [r.trace] = "RECORD_AND_SAMPLE"
      /\ r.kind = "server" => r.request \in net \cup Untraced /\ r.parent = r.request.via
      /\ r.kind = "client" => r.request = None
      /\ r.kind = "client" /\ r.parent # None =>
           span[r.parent].kind = "server" /\ span[r.parent].service = r.service

\* A client context that was used holds, where a server will look, the context
\* of the span it used last.
ContextInv(c) ==
  LET x == ctx[c]
  IN  /\ x.codec = "trpc" => x.carrier.header = None
      /\ x.parent # None =>
           /\ x.parent \in Started
           /\ span[x.parent].kind = "server" /\ span[x.parent].service = x.service
      /\ x.phase = "invoked" => x.span # None
      /\ x.span # None =>
           /\ x.span \in Started /\ span[x.span].parent = x.parent
           /\ Extract(x.codec, x.carrier) = SpanContext(x.span, span[x.span])

\* A server finds in a request the context of the span that sent it.
RequestInv(request) ==
  /\ request.via \in Started
  /\ Extract(request.codec, request.carrier) = SpanContext(request.via, span[request.via])

SpansInv == \A s \in Started : SpanInv(s)
ContextsInv == \A c \in ClientContexts : ctx[c] # None => ContextInv(c)
NetInv == \A request \in net : RequestInv(request)

IInv == TypeOK /\ SpansInv /\ ContextsInv /\ NetInv
-----------------------------------------------------------------------------
(* Carriers. *)

LEMMA CarrierFields ==
  ASSUME NEW carrier \in Carrier
  PROVE  carrier.header \in Header \cup {None} /\ carrier.transinfo \in Header \cup {None}
BY DEF Carrier

LEMMA ExtractType ==
  ASSUME NEW codec, NEW carrier \in Carrier
  PROVE  Extract(codec, carrier) \in Header \cup {None}
BY CarrierFields DEF Extract

\* What was injected is what is extracted, by a server of the same protocol, and
\* by one that takes http when the carrier holds no http header.
LEMMA InjectType ==
  ASSUME NEW codec \in Codecs, NEW carrier \in Carrier, NEW header \in Header
  PROVE  Inject(codec, carrier, header) \in Carrier
BY DEF Inject, Carrier

LEMMA InjectedIsExtracted ==
  ASSUME NEW codec \in Codecs, NEW carrier \in Carrier, NEW header \in Header
  PROVE  /\ Extract(codec, Inject(codec, carrier, header)) = header
         /\ codec = "trpc" => Inject(codec, carrier, header).header = carrier.header
BY NoneAssumption DEF Inject, Extract, Carrier, Codecs

LEMMA HttpReadsTransinfo ==
  ASSUME NEW carrier \in Carrier, carrier.header = None
  PROVE  Extract("http", carrier) = Extract("trpc", carrier)
BY DEF Extract
-----------------------------------------------------------------------------
(* Spans. *)

LEMMA RecordFields ==
  ASSUME NEW r \in Span
  PROVE  /\ r.service \in Services /\ r.trace \in TraceIds /\ r.sampled \in BOOLEAN
         /\ r.forced \in BOOLEAN /\ r.parent \in Spans \cup {None}
         /\ r.request \in Request \cup {None} /\ r.kind \in {"server", "client"}
BY DEF Span

LEMMA StartedSpan ==
  ASSUME TypeOK, NEW s \in Started
  PROVE  s \in Spans /\ span[s] \in Span
BY DEF TypeOK, Started

LEMMA SpanContextType ==
  ASSUME TypeOK, NEW s \in Spans, NEW r \in Span
  PROVE  SpanContext(s, r) \in Header
BY RecordFields DEF SpanContext, Header

\* The record of a new span, started under a span of the chain or under none.
LEMMA NewSpanRecord ==
  ASSUME TypeOK, NEW kind \in {"server", "client"}, NEW service \in Services,
         NEW p \in Started \cup {None}, NEW request \in Request \cup {None},
         NEW parent,
         parent = IF p = None THEN None ELSE SpanContext(p, span[p]),
         NEW r \in NewSpans(kind, service, parent, request)
  PROVE  /\ r \in Span
         /\ r.kind = kind /\ r.service = service /\ r.request = request /\ r.parent = p
         /\ p # None => r.trace = span[p].trace
         /\ r.sampled <=>
              Decision[config[service]][r.forced][p # None /\ span[p].sampled][r.trace]
                = "RECORD_AND_SAMPLE"
<1>1. PICK forced \in BOOLEAN,
           trace \in IF parent = None THEN TraceIds \ UsedTraces ELSE {parent.trace} :
        r = StartSpan(kind, service, parent, request, forced, trace)
  BY DEF NewSpans
<1>2. CASE p = None
  <2>1. parent = None /\ trace \in TraceIds
    BY <1>1, <1>2
  <2>2. QED
    BY <1>1, <1>2, <2>1 DEF StartSpan, Span
<1>3. CASE p # None
  <2>1. p \in Spans /\ span[p] \in Span /\ p \in Started
    BY <1>3, StartedSpan
  <2>2. parent \in Header /\ parent = SpanContext(p, span[p])
    BY <1>3, <2>1, SpanContextType
  <2>3. parent # None /\ trace = parent.trace
    BY <1>1, <2>2, NoneAssumption
  <2>4. parent.trace = span[p].trace /\ parent.span = p /\ parent.sampled = span[p].sampled
    BY <2>2 DEF SpanContext
  <2>5. trace \in TraceIds
    BY <2>1, <2>3, <2>4, RecordFields
  <2>6. p # None /\ parent # None
    BY <1>3, <2>3
  <2>7. QED
    BY <1>1, <2>1, <2>3, <2>4, <2>5, <2>6 DEF StartSpan, Span
<1>4. QED
  BY <1>2, <1>3

\* Starting a span changes no other.
LEMMA OtherSpans ==
  ASSUME TypeOK, NEW s \in Spans \ Started, NEW r \in Span, span' = [span EXCEPT ![s] = r]
  PROVE  /\ span' \in [Spans -> Span \cup {None}]
         /\ span'[s] = r /\ Started' = Started \cup {s}
         /\ \A t \in Started : span'[t] = span[t]
<1>1. span' \in [Spans -> Span \cup {None}] /\ span'[s] = r
  BY DEF TypeOK
<1>2. \A t \in Spans : t # s => span'[t] = span[t]
  BY DEF TypeOK
<1>3. r # None
  BY NoneAssumption
<1>4. QED
  BY <1>1, <1>2, <1>3 DEF Started

\* What was true of spans, contexts and requests stays true.
LEMMA OldSpansKeep ==
  ASSUME SpansInv, config' = config, net \subseteq net',
         Started \subseteq Started', \A t \in Started : span'[t] = span[t],
         NEW s \in Started
  PROVE  SpanInv(s)'
<1> DEFINE r == span[s]
<1>1. SpanInv(s) /\ span'[s] = r
  BY DEF SpansInv
<1>2. r.parent # None => r.parent \in Started' /\ span'[r.parent] = span[r.parent]
  BY <1>1 DEF SpanInv
<1>3. (r.parent # None /\ span'[r.parent].sampled) = (r.parent # None /\ span[r.parent].sampled)
  BY <1>2
<1>4. Untraced' = Untraced /\ Decision' = Decision
  BY DEF Untraced, Decision
<1>5. QED
  BY <1>1, <1>2, <1>3, <1>4 DEF SpanInv

LEMMA OldContextKeeps ==
  ASSUME Started \subseteq Started', \A t \in Started : span'[t] = span[t],
         NEW c \in ClientContexts, ContextInv(c), ctx'[c] = ctx[c]
  PROVE  ContextInv(c)'
BY DEF ContextInv, SpanContext, Extract

LEMMA OldRequestKeeps ==
  ASSUME Started \subseteq Started', \A t \in Started : span'[t] = span[t],
         NEW request, RequestInv(request)
  PROVE  RequestInv(request)'
BY DEF RequestInv, SpanContext, Extract
-----------------------------------------------------------------------------
(* The actions. *)

LEMMA InitIInv == Init => IInv
<1> SUFFICES ASSUME Init PROVE IInv
  OBVIOUS
<1>1. Started = {} /\ \A c \in ClientContexts : ctx[c] = None
  BY DEF Init, Started
<1>2. TypeOK
  BY DEF Init, TypeOK
<1>3. QED
  BY <1>1, <1>2 DEF Init, IInv, SpansInv, ContextsInv, NetInv

LEMMA RequestType ==
  ASSUME TypeOK, NEW request \in net \cup Untraced
  PROVE  request \in Request /\ request.to \in Services /\ request.carrier \in Carrier
<1>1. request \in Request
  BY DEF TypeOK, Untraced, Request, Carrier
<1>2. QED
  BY <1>1 DEF Request

\* The span a server finds in a request, if any, is the one that sent it.
LEMMA RequestParent ==
  ASSUME IInv, NEW request \in net \cup Untraced
  PROVE  /\ request.via \in Started \cup {None}
         /\ Extract(request.codec, request.carrier) =
              IF request.via = None THEN None ELSE SpanContext(request.via, span[request.via])
<1>1. CASE request \in Untraced
  <2>1. request.via = None /\ request.carrier = [header |-> None, transinfo |-> None]
    BY <1>1 DEF Untraced
  <2>2. QED
    BY <2>1 DEF Extract
<1>2. CASE request \in net
  <2>1. RequestInv(request)
    BY <1>2 DEF IInv, NetInv
  <2>2. request.via # None
    BY <2>1, NoneAssumption DEF RequestInv, Started
  <2>3. QED
    BY <2>1, <2>2 DEF RequestInv
<1>3. QED
  BY <1>1, <1>2

LEMMA ServerPreIInv ==
  ASSUME IInv, NEW request \in net \cup Untraced, ServerPre(request) PROVE IInv'
<1> DEFINE parent == Extract(request.codec, request.carrier)
<1>1. PICK s \in Spans \ Started, r \in NewSpans("server", request.to, parent, request) :
        span' = [span EXCEPT ![s] = r]
  BY DEF ServerPre
<1>2. config' = config /\ ctx' = ctx /\ net' = net
  BY DEF ServerPre
<1>3. TypeOK
  BY DEF IInv
<1>4. request \in Request /\ request.to \in Services /\ request # None
  BY <1>3, RequestType, NoneAssumption
<1>5. /\ r \in Span /\ r.kind = "server" /\ r.service = request.to /\ r.request = request
      /\ r.parent = request.via
      /\ request.via # None => r.trace = span[request.via].trace
      /\ r.sampled <=>
           Decision[config[request.to]][r.forced]
                   [request.via # None /\ span[request.via].sampled][r.trace]
             = "RECORD_AND_SAMPLE"
  <2> DEFINE p == request.via
             service == request.to
  <2>1. /\ parent = IF p = None THEN None ELSE SpanContext(p, span[p])
        /\ p \in Started \cup {None} /\ service \in Services
        /\ request \in Request \cup {None}
    BY <1>4, RequestParent
  <2>2. r \in NewSpans("server", service, parent, request)
    BY <1>1
  <2> HIDE DEF parent, p, service
  <2>3. /\ r \in Span /\ r.kind = "server" /\ r.service = service /\ r.request = request
        /\ r.parent = p
        /\ p # None => r.trace = span[p].trace
        /\ r.sampled <=>
             Decision[config[service]][r.forced][p # None /\ span[p].sampled][r.trace]
               = "RECORD_AND_SAMPLE"
    BY <1>3, <2>1, <2>2, NewSpanRecord
  <2>4. QED
    BY <2>3 DEF p, service
<1>6. /\ span' \in [Spans -> Span \cup {None}]
      /\ span'[s] = r /\ Started' = Started \cup {s}
      /\ \A t \in Started : span'[t] = span[t]
  BY <1>1, <1>3, <1>5, OtherSpans
<1>7. TypeOK'
  BY <1>2, <1>3, <1>6 DEF TypeOK
<1>8. SpansInv'
  <2>1. \A t \in Started : SpanInv(t)'
    BY <1>2, <1>6, OldSpansKeep DEF IInv
  <2>2. r.parent # None => r.parent \in Started /\ span'[r.parent] = span[r.parent]
    BY <1>5, <1>6, RequestParent
  <2>3. SpanInv(s)'
    <3>1. Untraced' = Untraced /\ Decision' = Decision
      BY DEF Untraced, Decision
    <3>2. (r.parent # None /\ span'[r.parent].sampled)
            = (request.via # None /\ span[request.via].sampled)
      BY <1>5, <2>2
    <3>3. QED
      BY <1>2, <1>5, <1>6, <2>2, <3>1, <3>2 DEF SpanInv
  <2>4. QED
    BY <1>6, <2>1, <2>3 DEF SpansInv
<1>9. ContextsInv'
  BY <1>2, <1>6, OldContextKeeps DEF IInv, ContextsInv
<1>10. NetInv'
  BY <1>2, <1>6, OldRequestKeeps DEF IInv, NetInv
<1>11. QED
  BY <1>7, <1>8, <1>9, <1>10 DEF IInv

LEMMA ContextFields ==
  ASSUME TypeOK, NEW c \in ClientContexts, ctx[c] # None
  PROVE  /\ ctx[c] \in ClientContext
         /\ ctx[c].service \in Services /\ ctx[c].codec \in Codecs
         /\ ctx[c].carrier \in Carrier
         /\ ctx[c].parent \in Spans \cup {None} /\ ctx[c].span \in Spans \cup {None}
BY DEF TypeOK, ClientContext

LEMMA ClientPreIInv == ASSUME IInv, NEW c \in ClientContexts, ClientPre(c) PROVE IInv'
<1> DEFINE x == ctx[c]
           p == x.parent
           parent == IF p = None THEN None ELSE SpanContext(p, span[p])
<1>1. PICK s \in Spans \ Started, r \in NewSpans("client", x.service, parent, None) :
        /\ span' = [span EXCEPT ![s] = r]
        /\ ctx' = [ctx EXCEPT ![c] =
             [ctx[c] EXCEPT
                !.phase = "invoked", !.span = s,
                !.carrier = Inject(ctx[c].codec, ctx[c].carrier, SpanContext(s, r))]]
  BY DEF ClientPre, ParentOf
<1>2. config' = config /\ net' = net /\ x # None
  BY DEF ClientPre
<1>3. TypeOK /\ ContextInv(c)
  BY <1>2 DEF IInv, ContextsInv
<1>4. /\ x \in ClientContext /\ x.service \in Services /\ x.codec \in Codecs
      /\ x.carrier \in Carrier
  BY <1>2, <1>3, ContextFields
<1>5. p \in Started \cup {None}
  BY <1>3 DEF ContextInv
<1>6. /\ r \in Span /\ r.kind = "client" /\ r.service = x.service /\ r.request = None
      /\ r.parent = p
      /\ p # None => r.trace = span[p].trace
      /\ r.sampled <=>
           Decision[config[x.service]][r.forced][p # None /\ span[p].sampled][r.trace]
             = "RECORD_AND_SAMPLE"
  <2>1. parent = IF p = None THEN None ELSE SpanContext(p, span[p])
    BY DEF parent
  <2> HIDE DEF p, x, parent
  <2>2. r \in NewSpans("client", x.service, parent, None)
    BY <1>1
  <2>3. TypeOK /\ x.service \in Services /\ None \in Request \cup {None}
    BY <1>3, <1>4
  <2>4. QED
    BY <1>5, <2>1, <2>2, <2>3, NewSpanRecord
<1>7. /\ span' \in [Spans -> Span \cup {None}]
      /\ span'[s] = r /\ Started' = Started \cup {s}
      /\ \A t \in Started : span'[t] = span[t]
  BY <1>1, <1>3, <1>6, OtherSpans
<1> DEFINE header == SpanContext(s, r)
           carrier == Inject(x.codec, x.carrier, header)
           y == [x EXCEPT !.phase = "invoked", !.span = s, !.carrier = carrier]
<1>8. header \in Header /\ carrier \in Carrier
  BY <1>3, <1>4, <1>6, SpanContextType, InjectType
<1>9. /\ y \in ClientContext /\ y.codec = x.codec /\ y.carrier = carrier
      /\ y.service = x.service /\ y.parent = p /\ y.span = s
  <2> HIDE DEF carrier
  <2>1. QED
    BY <1>4, <1>8 DEF ClientContext
<1>10. /\ ctx' = [ctx EXCEPT ![c] = y]
       /\ ctx' \in [ClientContexts -> ClientContext \cup {None}] /\ ctx'[c] = y
       /\ \A d \in ClientContexts : d # c => ctx'[d] = ctx[d]
  <2>1. ctx' = [ctx EXCEPT ![c] = y]
    BY <1>1
  <2> HIDE DEF y
  <2>2. QED
    BY <1>3, <1>9, <2>1 DEF TypeOK
<1> HIDE DEF y
<1>11. TypeOK'
  BY <1>2, <1>3, <1>7, <1>10 DEF TypeOK
<1>12. SpansInv'
  <2>1. \A t \in Started : SpanInv(t)'
    BY <1>2, <1>7, OldSpansKeep DEF IInv
  <2>2. r.parent # None => r.parent \in Started /\ span'[r.parent] = span[r.parent]
    BY <1>5, <1>6, <1>7
  <2>3. SpanInv(s)'
    <3>1. Decision' = Decision
      BY DEF Decision
    <3>2. (r.parent # None /\ span'[r.parent].sampled) = (p # None /\ span[p].sampled)
      BY <1>6, <2>2
    <3>3. p # None => span[p].kind = "server" /\ span[p].service = x.service
      BY <1>3 DEF ContextInv
    <3>4. QED
      BY <1>2, <1>6, <1>7, <2>2, <3>1, <3>2, <3>3 DEF SpanInv
  <2>4. QED
    BY <1>7, <2>1, <2>3 DEF SpansInv
<1>13. ContextsInv'
  <2>1. ASSUME NEW d \in ClientContexts, d # c, ctx'[d] # None PROVE ContextInv(d)'
    BY <1>7, <1>10, <2>1, OldContextKeeps DEF IInv, ContextsInv
  <2>2. ContextInv(c)'
    <3>1. /\ Extract(y.codec, y.carrier) = header
          /\ y.codec = "trpc" => y.carrier.header = None
      BY <1>3, <1>4, <1>8, <1>9, InjectedIsExtracted DEF ContextInv
    <3>2. p # None =>
            /\ p \in Started' /\ span'[p] = span[p]
            /\ span[p].kind = "server" /\ span[p].service = x.service
      BY <1>3, <1>7 DEF ContextInv
    <3>3. /\ s # None /\ s \in Started'
          /\ span'[s].parent = p /\ SpanContext(s, span'[s]) = header
      BY <1>6, <1>7, NoneAssumption
    <3> HIDE DEF header, carrier, p
    <3>4. QED
      BY <1>9, <1>10, <3>1, <3>2, <3>3 DEF ContextInv
  <2>3. QED
    BY <2>1, <2>2 DEF ContextsInv
<1>14. NetInv'
  BY <1>2, <1>7, OldRequestKeeps DEF IInv, NetInv
<1>15. QED
  BY <1>11, <1>12, <1>13, <1>14 DEF IInv

\* Sending and making a context start nothing.
LEMMA NoNewSpans ==
  ASSUME TypeOK, UNCHANGED <<config, span>>
  PROVE  /\ Started \subseteq Started' /\ \A t \in Started : span'[t] = span[t]
         /\ Started' = Started
BY DEF Started

LEMMA MakeClientContextIInv ==
  ASSUME IInv, NEW c \in ClientContexts, MakeClientContext(c) PROVE IInv'
<1> DEFINE Callers(service) ==
             {None} \cup {s \in Started : span[s].kind = "server" /\ span[s].service = service}
           Copied(p) == {None} \cup IF p = None THEN {}
                                   ELSE {span[p].request.carrier.header,
                                         span[p].request.carrier.transinfo}
           Fresh(service, codec, header, transinfo, p) ==
             [phase |-> "ready", service |-> service, codec |-> codec,
              carrier |-> [header |-> header, transinfo |-> transinfo],
              parent |-> p, span |-> None]
<1>1. PICK service \in Services, codec \in Codecs : \E p \in Callers(service) :
        \E header, transinfo \in Copied(p) :
          /\ codec = "trpc" => header = None
          /\ ctx' = [ctx EXCEPT ![c] = Fresh(service, codec, header, transinfo, p)]
  BY DEF MakeClientContext
<1>2. PICK p \in Callers(service) : \E header, transinfo \in Copied(p) :
        /\ codec = "trpc" => header = None
        /\ ctx' = [ctx EXCEPT ![c] = Fresh(service, codec, header, transinfo, p)]
  BY <1>1
<1>a. PICK header, transinfo \in Copied(p) :
        /\ codec = "trpc" => header = None
        /\ ctx' = [ctx EXCEPT ![c] = Fresh(service, codec, header, transinfo, p)]
  BY <1>2
<1>3. config' = config /\ span' = span /\ net' = net
  BY DEF MakeClientContext
<1>4. TypeOK
  BY DEF IInv
<1>5. header \in Header \cup {None} /\ transinfo \in Header \cup {None}
  <2>1. CASE p = None
    BY <2>1
  <2>2. CASE p # None
    <3>1. p \in Started /\ span[p].kind = "server" /\ span[p] \in Span
      BY <1>4, <2>2, StartedSpan
    <3>2. span[p].request \in net \cup Untraced
      BY <3>1 DEF IInv, SpansInv, SpanInv
    <3>3. span[p].request.carrier \in Carrier
      BY <1>4, <3>2, RequestType
    <3>4. QED
      BY <2>2, <3>3, CarrierFields
  <2>3. QED
    BY <2>1, <2>2
<1> DEFINE y == Fresh(service, codec, header, transinfo, p)
<1>6. /\ y \in ClientContext
      /\ y.codec = "trpc" => y.carrier.header = None
      /\ y.phase = "ready" /\ y.service = service /\ y.parent = p /\ y.span = None
  BY <1>a, <1>4, <1>5, StartedSpan DEF ClientContext, Carrier
<1>7. /\ ctx' \in [ClientContexts -> ClientContext \cup {None}] /\ ctx'[c] = y
      /\ \A d \in ClientContexts : d # c => ctx'[d] = ctx[d]
  <2>1. ctx' = [ctx EXCEPT ![c] = y]
    BY <1>a
  <2> HIDE DEF y
  <2>2. QED
    BY <1>4, <1>6, <2>1 DEF TypeOK
<1> HIDE DEF y
<1>8. TypeOK'
  BY <1>3, <1>4, <1>7 DEF TypeOK
<1>9. SpansInv'
  BY <1>3, <1>4, NoNewSpans, OldSpansKeep DEF IInv, SpansInv
<1>10. ContextsInv'
  <2>1. ASSUME NEW d \in ClientContexts, d # c, ctx'[d] # None PROVE ContextInv(d)'
    BY <1>3, <1>4, <1>7, <2>1, NoNewSpans, OldContextKeeps DEF IInv, ContextsInv
  <2>2. ContextInv(c)'
    BY <1>1, <1>3, <1>4, <1>6, <1>7, NoNewSpans DEF ContextInv
  <2>3. QED
    BY <2>1, <2>2 DEF ContextsInv
<1>11. NetInv'
  BY <1>3, <1>4, NoNewSpans, OldRequestKeeps DEF IInv, NetInv
<1>12. QED
  BY <1>8, <1>9, <1>10, <1>11 DEF IInv

LEMMA SendIInv == ASSUME IInv, NEW c \in ClientContexts, Send(c) PROVE IInv'
<1> DEFINE x == ctx[c]
<1>1. PICK service \in Services, codec \in {x.codec, "http"} :
        net' = net \cup {[to |-> service, codec |-> codec,
                          carrier |-> x.carrier, via |-> x.span]}
  BY DEF Send
<1>2. /\ config' = config /\ span' = span
      /\ x # None /\ x.phase = "invoked"
      /\ ctx' = [ctx EXCEPT ![c].phase = "ready"]
  BY DEF Send
<1>3. TypeOK /\ ContextInv(c)
  BY <1>2 DEF IInv, ContextsInv
<1>4. /\ x \in ClientContext /\ x.codec \in Codecs /\ x.carrier \in Carrier
      /\ x.span \in Started
  BY <1>2, <1>3, ContextFields DEF ContextInv
<1> DEFINE y == [x EXCEPT !.phase = "ready"]
<1>a. PICK request :
        request = [to |-> service, codec |-> codec, carrier |-> x.carrier, via |-> x.span]
  OBVIOUS
<1>5. request \in Request
  BY <1>a, <1>3, <1>4, StartedSpan DEF Request, Codecs
<1>6. /\ y \in ClientContext /\ y.codec = x.codec /\ y.carrier = x.carrier
      /\ y.service = x.service /\ y.parent = x.parent /\ y.span = x.span
      /\ y.phase = "ready"
  BY <1>4 DEF ClientContext
<1>7. /\ ctx' \in [ClientContexts -> ClientContext \cup {None}] /\ ctx'[c] = y
      /\ \A d \in ClientContexts : d # c => ctx'[d] = ctx[d]
  <2>1. ctx' = [ctx EXCEPT ![c] = y]
    BY <1>2, <1>3 DEF TypeOK
  <2> HIDE DEF y
  <2>2. QED
    BY <1>3, <1>6, <2>1 DEF TypeOK
<1>8. RequestInv(request)
  <2>1. Extract(x.codec, x.carrier) = SpanContext(x.span, span[x.span])
    BY <1>3, <1>4, StartedSpan, NoneAssumption DEF ContextInv
  <2>2. Extract(codec, x.carrier) = Extract(x.codec, x.carrier)
    <3>1. CASE x.codec = "http"
      BY <3>1
    <3>2. CASE x.codec = "trpc"
      BY <1>3, <1>4, <3>2, HttpReadsTransinfo DEF ContextInv
    <3>3. QED
      BY <1>4, <3>1, <3>2 DEF Codecs
  <2>3. QED
    BY <1>a, <1>4, <2>1, <2>2 DEF RequestInv
<1> HIDE DEF y
<1>9. TypeOK'
  BY <1>a, <1>1, <1>2, <1>3, <1>5, <1>7 DEF TypeOK
<1>10. SpansInv'
  <2>1. net \subseteq net'
    BY <1>1
  <2>2. QED
    BY <1>2, <1>3, <2>1, NoNewSpans, OldSpansKeep DEF IInv, SpansInv
<1>11. ContextsInv'
  <2>1. ASSUME NEW d \in ClientContexts, d # c, ctx'[d] # None PROVE ContextInv(d)'
    BY <1>2, <1>3, <1>7, <2>1, NoNewSpans, OldContextKeeps DEF IInv, ContextsInv
  <2>2. ContextInv(c)'
    BY <1>2, <1>3, <1>6, <1>7, NoNewSpans DEF ContextInv
  <2>3. QED
    BY <2>1, <2>2 DEF ContextsInv
<1>12. NetInv'
  <2>1. ASSUME NEW other \in net PROVE RequestInv(other)'
    BY <1>2, <1>3, NoNewSpans, OldRequestKeeps DEF IInv, NetInv
  <2>2. RequestInv(request)'
    BY <1>2, <1>3, <1>8, NoNewSpans, OldRequestKeeps
  <2>3. QED
    BY <1>a, <1>1, <2>1, <2>2 DEF NetInv
<1>13. QED
  BY <1>9, <1>10, <1>11, <1>12 DEF IInv

LEMMA NextIInv == IInv /\ [Next]_vars => IInv'
<1> SUFFICES ASSUME IInv, [Next]_vars PROVE IInv'
  OBVIOUS
<1>1. ASSUME NEW request \in net \cup Untraced, ServerPre(request) PROVE IInv'
  BY <1>1, ServerPreIInv
<1>2. ASSUME NEW c \in ClientContexts, MakeClientContext(c) \/ ClientPre(c) \/ Send(c)
      PROVE  IInv'
  BY <1>2, MakeClientContextIInv, ClientPreIInv, SendIInv
<1>3. CASE UNCHANGED vars
  <2>1. config' = config /\ span' = span /\ ctx' = ctx /\ net' = net
    BY <1>3 DEF vars
  <2>2. TypeOK /\ TypeOK'
    BY <2>1 DEF IInv, TypeOK
  <2>3. SpansInv'
    BY <2>1, <2>2, NoNewSpans, OldSpansKeep DEF IInv, SpansInv
  <2>4. ContextsInv'
    BY <2>1, <2>2, NoNewSpans, OldContextKeeps DEF IInv, ContextsInv
  <2>5. NetInv'
    BY <2>1, <2>2, NoNewSpans, OldRequestKeeps DEF IInv, NetInv
  <2>6. QED
    BY <2>2, <2>3, <2>4, <2>5 DEF IInv
<1>4. QED
  BY <1>1, <1>2, <1>3 DEF Next
-----------------------------------------------------------------------------
(* The theorems. *)

\* The strengthened invariant holds in every reachable state.
THEOREM ChainInvariance == Spec => []IInv
<1>1. QED
  BY InitIInv, NextIInv, PTL DEF Spec

\* Type correctness.
THEOREM ChainTypeCorrect == Spec => []TypeOK
<1>1. IInv => TypeOK
  BY DEF IInv
<1>2. QED
  BY <1>1, ChainInvariance, PTL

\* The parent of a server span is the client span of the call that sent its
\* request.
THEOREM ParentsAreCallers == Spec => []ServerParentIsCaller
<1>1. IInv => ServerParentIsCaller
  BY DEF IInv, SpansInv, SpanInv, ServerParentIsCaller
<1>2. QED
  BY <1>1, ChainInvariance, PTL

\* Each attempt on a client context has for parent the server span the context was
\* made for.
THEOREM AttemptsShareTheirParent == Spec => []AttemptsAreSiblings
<1>1. IInv => AttemptsAreSiblings
  BY DEF IInv, ContextsInv, ContextInv, AttemptsAreSiblings
<1>2. QED
  BY <1>1, ChainInvariance, PTL

\* A call stays in the trace of the call it is made for.
THEOREM TraceIsKept == Spec => []OneTrace
<1>1. IInv => OneTrace
  <2> SUFFICES ASSUME IInv PROVE OneTrace
    OBVIOUS
  <2>1. ASSUME NEW s \in Started, span[s].request # None, span[s].request.via # None
        PROVE  span[s].trace = span[span[s].request.via].trace
    <3>1. SpanInv(s) /\ span[s].kind = "server"
      BY <2>1, StartedSpan, RecordFields DEF IInv, SpansInv, SpanInv
    <3>2. QED
      BY <2>1, <3>1 DEF SpanInv
  <2>2. ASSUME NEW c \in ClientContexts, ctx[c] # None, ctx[c].parent # None,
               ctx[c].span # None
        PROVE  span[ctx[c].span].trace = span[ctx[c].parent].trace
    <3>1. ctx[c].span \in Started /\ span[ctx[c].span].parent = ctx[c].parent
      BY <2>2 DEF IInv, ContextsInv, ContextInv
    <3>2. SpanInv(ctx[c].span)
      BY <3>1 DEF IInv, SpansInv
    <3>3. QED
      BY <2>2, <3>1, <3>2 DEF SpanInv
  <2>3. QED
    BY <2>1, <2>2 DEF OneTrace
<1>2. QED
  BY <1>1, ChainInvariance, PTL

LEMMA DecisionIsShouldSample ==
  ASSUME NEW cfg \in Configs, NEW forced \in BOOLEAN, NEW parentSampled \in BOOLEAN,
         NEW id \in TraceIds
  PROVE  Decision[cfg][forced][parentSampled][id] =
           ShouldSample(SamplerOptions(cfg), forced, parentSampled, id)
BY DEF Decision

\* Three ways to be sampled, whatever the rest of the configuration says.
LEMMA Sampled ==
  ASSUME NEW cfg \in Configs, NEW forced \in BOOLEAN, NEW parentSampled \in BOOLEAN,
         NEW id \in TraceIds
  PROVE  ShouldSample(SamplerOptions(cfg), forced, parentSampled, id) = "RECORD_AND_SAMPLE"
           <=> \/ forced
               \/ ~cfg.disable_parent_sampling /\ parentSampled
               \/ RandomlySampled(CalculateThreshold(cfg.fraction), id)
BY DEF ShouldSample, SamplerOptions

\* The answer a started span was given.
LEMMA SampledSpan ==
  ASSUME IInv, NEW s \in Started
  PROVE  LET r == span[s]
             cfg == config[r.service]
         IN  /\ cfg \in Configs /\ r.trace \in TraceIds
             /\ r.sampled <=>
                  \/ r.forced
                  \/ ~cfg.disable_parent_sampling /\ r.parent # None /\ span[r.parent].sampled
                  \/ RandomlySampled(CalculateThreshold(cfg.fraction), r.trace)
<1> DEFINE r == span[s]
           cfg == config[r.service]
           parentSampled == r.parent # None /\ span[r.parent].sampled
<1>1. SpanInv(s) /\ TypeOK
  BY DEF IInv, SpansInv
<1>2. r \in Span /\ r.service \in Services /\ r.forced \in BOOLEAN /\ r.trace \in TraceIds
  BY <1>1, StartedSpan, RecordFields
<1>3. cfg \in Configs
  BY <1>1, <1>2 DEF TypeOK
<1>4. parentSampled \in BOOLEAN
  OBVIOUS
<1>5. r.sampled <=> Decision[cfg][r.forced][parentSampled][r.trace] = "RECORD_AND_SAMPLE"
  BY <1>1 DEF SpanInv
<1> HIDE DEF r, cfg
<1>6. r.sampled <=>
        \/ r.forced
        \/ ~cfg.disable_parent_sampling /\ parentSampled
        \/ RandomlySampled(CalculateThreshold(cfg.fraction), r.trace)
  <2> HIDE DEF parentSampled
  <2>1. QED
    BY <1>2, <1>3, <1>4, <1>5, DecisionIsShouldSample, Sampled
<1>7. QED
  BY <1>2, <1>3, <1>6 DEF r, cfg

\* A sampled span is followed by sampled spans wherever parent sampling is on.
THEOREM SamplingIsInherited == Spec => []SamplingReachesDown
<1>1. IInv => SamplingReachesDown
  BY SampledSpan DEF SamplingReachesDown
<1>2. QED
  BY <1>1, ChainInvariance, PTL

LEMMA FractionsAreDoubles ==
  /\ \A c \in Configs : c.fraction \in Doubles
  /\ TraceIds \subseteq Word
BY ConfigAssumption, TraceIdAssumption DEF Config

\* A trace drawn at its root is complete in every service whose fraction is not
\* smaller, whatever lies between.
THEOREM DrawnTracesAreWhole == Spec => []DrawnTraceIsWhole
<1>1. IInv => DrawnTraceIsWhole
  <2> SUFFICES ASSUME IInv, NEW s \in Started, NEW t \in Started,
                      span[s].parent = None, span[s].sampled, ~span[s].forced,
                      span[t].trace = span[s].trace,
                      config[span[s].service].fraction[1] * config[span[t].service].fraction[2]
                        <= config[span[t].service].fraction[1] * config[span[s].service].fraction[2]
               PROVE  span[t].sampled
    BY DEF DrawnTraceIsWhole
  <2>1. RandomlySampled(CalculateThreshold(config[span[s].service].fraction), span[s].trace)
    BY SampledSpan
  <2>2. /\ config[span[s].service] \in Configs /\ config[span[t].service] \in Configs
        /\ span[s].trace \in TraceIds
    BY SampledSpan
  <2>3. RandomlySampled(CalculateThreshold(config[span[t].service].fraction), span[s].trace)
    <3> DEFINE f == config[span[s].service].fraction
               g == config[span[t].service].fraction
    <3>1. f \in Doubles /\ g \in Doubles /\ span[s].trace \in Word
      BY <2>2, FractionsAreDoubles
    <3>2. f[1] * g[2] <= g[1] * f[2] /\ RandomlySampled(CalculateThreshold(f), span[s].trace)
      BY <2>1
    <3> HIDE DEF f, g
    <3>3. RandomlySampled(CalculateThreshold(g), span[s].trace)
      BY <3>1, <3>2, DrawsNest
    <3>4. QED
      BY <3>3 DEF g
  <2>4. QED
    BY <2>3, SampledSpan
<1>2. QED
  BY <1>1, ChainInvariance, PTL
=============================================================================
