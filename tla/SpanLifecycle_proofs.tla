----------------------- MODULE SpanLifecycle_proofs -----------------------
(***************************************************************************)
(* Proofs about SpanLifecycle, for every set of spans, contexts and         *)
(* configurations.                                                         *)
(***************************************************************************)
EXTENDS SpanLifecycle, TLAPS

\* What one span has gone through so far.  Without deferred sampling only sampled
\* spans record.  handed is exactly what OnEnd made of
\* the recordable when the span ended; a body is attached for a reason that
\* OnEnd will see too; a status the filter wrote is that of the call.
SpanInv(cfg, sp) ==
  /\ sp.handed = IF sp.phase = "ended" THEN HandedOver(cfg, sp.rec) ELSE 0
  /\ sp.phase \in {"unused", "noop"} => ~sp.rec.sampled
  /\ sp.phase \in {"recording", "ended"} =>
       sp.rec.sampled \/ cfg.enable_deferred_sample
  /\ sp.body => \/ sp.rec.sampled
                \/ FilterOptions(cfg).deferred_sample_error /\ sp.call = "failed"
  /\ sp.statusBy = "filter" => /\ sp.call # "unknown"
                               /\ sp.rec.code = StatusOf(sp.call = "failed")

SpansInv == \A s \in Spans : SpanInv(config, span[s])

\* The span in a context's filter data has started, and no other context's
\* filter works on it.
ContextsInv ==
  /\ \A c \in Contexts : ctx[c].span # NoSpan => span[ctx[c].span].phase # "unused"
  /\ \A c \in Contexts : ctx[c].parent # NoSpan => span[ctx[c].parent].phase # "unused"
  /\ \A c, o \in Contexts : ctx[c].span = ctx[o].span /\ ctx[c].span # NoSpan => c = o

\* What a filter knows of its call, from the context x and its span sp.  Before the
\* POST point the span has not been told how the call came out; between two steps
\* of FinishSpan it has, and a response is added only if bodies are reported.
FilterKnows(cfg, x, sp) ==
  /\ x.phase \in {"unmade", "pre"} => x.span = NoSpan
  /\ x.phase = "call" => x.span # NoSpan /\ sp.call = "unknown"
  /\ x.phase \in {"add_request", "add_response", "set_status", "end"} =>
       x.span # NoSpan /\ sp.call = IF x.failed THEN "failed" ELSE "ok"
  /\ x.phase = "add_response" =>
       NeedReportReqRsp(FilterOptions(cfg), sp.rec.sampled, x.failed)

FilterInv == \A c \in Contexts : FilterKnows(config, ctx[c], span[ctx[c].span])

IInv == TypeOK /\ SpansInv /\ ContextsInv /\ FilterInv /\ PostedIsEnded

Finished ==
  HandedOnce /\ SampledIsHanded /\ BodyIsHanded /\ FailedCallIsHanded /\ QuietCallIsDropped
-----------------------------------------------------------------------------
(* The operators the actions are built from. *)

LEMMA HandedOverRange ==
  ASSUME NEW c, NEW r
  PROVE  HandedOver(c, r) \in {0, 1}
BY DEF HandedOver, OnEnd

\* A decision of the sampler is one of the three the code returns.
LEMMA StartDecisionsRange ==
  ASSUME config \in Configs, NEW sampled \in BOOLEAN,
         NEW d \in StartDecisions[config][sampled]
  PROVE  d \in Decisions /\ (d = "RECORD_ONLY" => config.enable_deferred_sample)
<1>1. PICK f \in BOOLEAN, id \in TraceIds :
        d = ShouldSample(SamplerOptions(config), f, sampled, id)
  BY DEF StartDecisions
<1> QED
  BY <1>1 DEF ShouldSample, Decisions, SamplerOptions

\* A span that starts is a typed span and satisfies the invariant of one.
LEMMA StartedSpan ==
  ASSUME NEW d \in Decisions, d = "RECORD_ONLY" => config.enable_deferred_sample,
         NEW sp \in Started(d, FreshRecordables(config))
  PROVE  /\ sp \in Span
         /\ SpanInv(config, sp)
         /\ sp.phase \in {"recording", "noop"}
         /\ sp.call = "unknown"
<1>1. PICK r \in FreshRecordables(config) :
        sp = [UnusedSpan EXCEPT !.phase = IF d = "DROP" THEN "noop" ELSE "recording",
                                !.rec = SetIdentity(r, d = "RECORD_AND_SAMPLE")]
  BY DEF Started
<1>2. r \in Recordable(Nat)
  <2>1. r \in MakeRecordable
    BY DEF FreshRecordables
  <2>2. PICK code \in StatusCodes : r = [sampled |-> FALSE, code |-> code, duration |-> 0]
    BY <2>1 DEF MakeRecordable
  <2> QED
    BY <2>2 DEF Recordable
<1>3. SetIdentity(r, d = "RECORD_AND_SAMPLE") \in Recordable(Nat)
  BY <1>2 DEF SetIdentity, Recordable
<1>4. SetIdentity(r, d = "RECORD_AND_SAMPLE").sampled = (d = "RECORD_AND_SAMPLE")
  BY <1>2 DEF SetIdentity, Recordable
<1> QED
  BY <1>1, <1>3, <1>4 DEF UnusedSpan, Span, SpanInv, Decisions

\* An End counts what OnEnd makes of the recordable, and changes nothing else
\* that the invariant speaks of.
LEMMA EndedSpan ==
  ASSUME NEW sp \in Span, SpanInv(config, sp), sp.phase = "recording",
         NEW d \in Durations, NEW who \in {"filter", "user", "drop"}
  PROVE  /\ Ended(sp, d, who) \in Span
         /\ SpanInv(config, Ended(sp, d, who))
         /\ Ended(sp, d, who).phase = "ended"
         /\ Ended(sp, d, who).call = sp.call
         /\ Ended(sp, d, who).rec.sampled = sp.rec.sampled
<1> DEFINE rec == SetDuration(sp.rec, d)
<1>1. rec \in Recordable(Nat) /\ rec.sampled = sp.rec.sampled /\ rec.code = sp.rec.code
  BY DurationAssumption DEF SetDuration, Recordable, Span
<1>2. HandedOver(config, rec) \in Nat
  BY HandedOverRange
<1>3. Ended(sp, d, who) = [sp EXCEPT !.phase = "ended", !.rec = rec, !.endedBy = who,
                                     !.handed = @ + HandedOver(config, rec)]
  BY DEF Ended
<1>4. sp.handed = 0
  BY DEF SpanInv
<1> DEFINE e == Ended(sp, d, who)
<1> HIDE DEF rec
<1>5. /\ e.phase = "ended" /\ e.rec = rec /\ e.handed = HandedOver(config, rec)
      /\ e.body = sp.body /\ e.call = sp.call /\ e.statusBy = sp.statusBy
  BY <1>2, <1>3, <1>4 DEF Span
<1>6. e \in Span
  <2>1. [sp EXCEPT !.phase = "ended", !.rec = rec] \in Span
    BY <1>1 DEF Span
  <2>2. [sp EXCEPT !.phase = "ended", !.rec = rec, !.endedBy = who] \in Span
    BY <2>1 DEF Span
  <2>3. sp.handed + HandedOver(config, rec) \in Nat
    BY <1>2 DEF Span
  <2> QED
    BY <1>3, <2>2, <2>3 DEF Span
<1> HIDE DEF e
<1>7. SpanInv(config, e)
  BY <1>1, <1>5 DEF SpanInv
<1> QED
  BY <1>1, <1>5, <1>6, <1>7 DEF e

\* A status written while the span records.
LEMMA StatusedSpan ==
  ASSUME NEW sp \in Span, NEW code \in StatusCodes, NEW who \in {"filter", "user"}
  PROVE  LET new == WithStatus(sp, code, who)
         IN  /\ new \in Span
             /\ new.rec.code = code /\ new.rec.sampled = sp.rec.sampled
             /\ new.statusBy = who
             /\ new.phase = sp.phase /\ new.call = sp.call
             /\ new.handed = sp.handed /\ new.body = sp.body
<1> DEFINE rec == SetStatus(sp.rec, code)
<1>1. rec \in Recordable(Nat) /\ rec.sampled = sp.rec.sampled /\ rec.code = code
  BY DEF SetStatus, Recordable, Span
<1>2. WithStatus(sp, code, who) = [sp EXCEPT !.rec = rec, !.statusBy = who]
  BY DEF WithStatus
<1> HIDE DEF rec
<1> QED
  BY <1>1, <1>2 DEF Span

-----------------------------------------------------------------------------
(* The span function after a step. *)

\* t is a span function that keeps the invariant of every span, and in which no
\* span forgets its call, its start, its end or, once started, its sampling flag.
Steady(t) ==
  /\ t \in [Spans -> Span]
  /\ \A x \in Spans :
       /\ SpanInv(config, t[x])
       /\ t[x].call = span[x].call
       /\ span[x].phase # "unused" =>
            t[x].phase # "unused" /\ t[x].rec.sampled = span[x].rec.sampled
       /\ span[x].phase \in {"noop", "ended"} => t[x].phase \in {"noop", "ended"}

LEMMA AfterEndSteady ==
  ASSUME TypeOK, SpansInv, NEW s, NEW d \in Durations, NEW who \in {"filter", "user", "drop"}
  PROVE  /\ Steady(AfterEnd(s, d, who))
         /\ s \in Spans => AfterEnd(s, d, who)[s].phase # "recording"
<1>1. CASE IsRecording(s) /\ s \in Spans
  <2>1. span[s] \in Span /\ SpanInv(config, span[s]) /\ span[s].phase = "recording"
    BY <1>1 DEF TypeOK, SpansInv, IsRecording
  <2>2. /\ Ended(span[s], d, who) \in Span
        /\ SpanInv(config, Ended(span[s], d, who))
        /\ Ended(span[s], d, who).phase = "ended"
        /\ Ended(span[s], d, who).call = span[s].call
        /\ Ended(span[s], d, who).rec.sampled = span[s].rec.sampled
    BY <2>1, EndedSpan
  <2>3. AfterEnd(s, d, who) = [span EXCEPT ![s] = Ended(span[s], d, who)]
    BY <1>1 DEF AfterEnd
  <2> QED
    BY <1>1, <2>2, <2>3 DEF Steady, TypeOK, SpansInv
<1>2. CASE IsRecording(s) /\ s \notin Spans
  BY <1>2 DEF AfterEnd, Steady, TypeOK, SpansInv
<1>3. CASE ~IsRecording(s)
  BY <1>3, NoSpanAssumption DEF AfterEnd, Steady, TypeOK, SpansInv, IsRecording
<1> QED
  BY <1>1, <1>2, <1>3

LEMMA AfterDropSteady ==
  ASSUME TypeOK, SpansInv, NEW c, NEW slot, NEW s, NEW d \in Durations
  PROVE  Steady(AfterDrop(c, slot, s, d))
<1>1. Steady(AfterEnd(s, d, "drop"))
  BY AfterEndSteady
<1>2. Steady(span)
  BY DEF Steady, TypeOK, SpansInv
<1> QED
  BY <1>1, <1>2 DEF AfterDrop

\* A steady step that at most ends a span, destroys a context's pointers or
\* takes a filter past the POST point keeps what is known of contexts and filters.
LEMMA SteadyStep ==
  ASSUME IInv, config' = config, Steady(span'),
         \A c \in Contexts :
           \/ ctx'[c] = ctx[c]
           \/ /\ ctx'[c].span \in {ctx[c].span, NoSpan}
              /\ ctx'[c].parent \in {ctx[c].parent, NoSpan}
              /\ \/ ctx'[c].phase \in {"drop_parent", "gone"}
                 \/ /\ ctx'[c].phase = "post"
                    /\ ctx'[c].span # NoSpan => span'[ctx'[c].span].phase # "recording"
  PROVE  SpansInv' /\ ContextsInv' /\ FilterInv' /\ PostedIsEnded'
<1> USE DEF IInv
<1>0. \A c \in Contexts : ctx[c].span # NoSpan => ctx[c].span \in Spans
  BY DEF TypeOK
<1>00. \A c \in Contexts : ctx[c].parent # NoSpan => ctx[c].parent \in Spans
  BY DEF TypeOK
<1>1. SpansInv'
  BY DEF Steady, SpansInv
<1>2. ContextsInv'
  BY <1>0, <1>00 DEF Steady, ContextsInv
<1>3. FilterInv'
  <2> SUFFICES ASSUME NEW c \in Contexts PROVE FilterKnows(config, ctx'[c], span'[ctx'[c].span])
    BY DEF FilterInv
  <2>1. CASE ctx'[c] = ctx[c]
    <3>1. ctx[c].span # NoSpan =>
            /\ span'[ctx[c].span].call = span[ctx[c].span].call
            /\ span'[ctx[c].span].rec.sampled = span[ctx[c].span].rec.sampled
      BY <1>0 DEF Steady, ContextsInv
    <3>2. FilterKnows(config, ctx[c], span[ctx[c].span])
      BY DEF FilterInv
    <3> QED
      BY <2>1, <3>1, <3>2 DEF FilterKnows
  <2>2. CASE ctx'[c].phase \in {"drop_parent", "gone", "post"}
    BY <2>2 DEF FilterKnows
  <2> QED
    BY <2>1, <2>2
<1>4. PostedIsEnded'
  <2> SUFFICES ASSUME NEW c \in Contexts, ctx'[c].phase = "post", ctx'[c].span # NoSpan
               PROVE  span'[ctx'[c].span].phase # "recording"
    BY DEF PostedIsEnded, IsRecording
  <2>1. CASE ctx'[c] # ctx[c]
    BY <2>1
  <2>2. CASE ctx'[c] = ctx[c]
    <3>1. ctx[c].phase = "post" /\ ctx'[c].span = ctx[c].span /\ ctx[c].span \in Spans
      BY <1>0, <2>2
    <3>2. span[ctx[c].span].phase # "recording" /\ span[ctx[c].span].phase # "unused"
      BY <3>1 DEF PostedIsEnded, IsRecording, ContextsInv
    <3>3. span[ctx[c].span].phase \in {"noop", "ended"}
      BY <3>1, <3>2 DEF TypeOK, Span
    <3> QED
      BY <3>1, <3>3 DEF Steady
  <2> QED
    BY <2>1, <2>2
<1> QED
  BY <1>1, <1>2, <1>3, <1>4
-----------------------------------------------------------------------------
(* The invariant is inductive. *)

LEMMA InitInv == Init => IInv
<1> SUFFICES ASSUME Init PROVE IInv
  OBVIOUS
<1>1. UnusedSpan \in Span
  BY DEF UnusedSpan, Span, Recordable, StatusCodes
<1>2. TypeOK
  BY <1>1 DEF Init, TypeOK, Phases
<1>3. SpansInv
  BY DEF Init, SpansInv, SpanInv, UnusedSpan
<1>4. ContextsInv /\ FilterInv /\ PostedIsEnded
  BY DEF Init, ContextsInv, FilterInv, FilterKnows, PostedIsEnded, IsRecording
<1> QED
  BY <1>2, <1>3, <1>4 DEF IInv

\* A new span in a context's filter data: it was unused, so it is nobody's.
LEMMA PreStep ==
  ASSUME IInv, config' = config, TypeOK',
         NEW c \in Contexts, NEW s \in Spans, span[s].phase = "unused",
         NEW old, Steady(old),
         SpanInv(config, span'[s]), span'[s].phase \in {"recording", "noop"},
         span'[s].call = "unknown",
         \A x \in Spans : x # s => span'[x] = old[x],
         ctx'[c].span = s, ctx'[c].phase = "call", ctx'[c].parent = ctx[c].parent,
         \A o \in Contexts : o # c => ctx'[o] = ctx[o]
  PROVE  IInv'
<1> USE DEF IInv
<1>0. \A o \in Contexts : ctx[o].span # NoSpan =>
           /\ ctx[o].span \in Spans
           /\ ctx[o].span # s
           /\ span'[ctx[o].span] = old[ctx[o].span]
  BY DEF TypeOK, ContextsInv
<1>1. \A o \in Contexts : ctx[o].parent # NoSpan =>
           /\ ctx[o].parent \in Spans
           /\ ctx[o].parent # s
           /\ span'[ctx[o].parent] = old[ctx[o].parent]
  BY DEF TypeOK, ContextsInv
<1>2. SpansInv'
  BY DEF Steady, SpansInv
<1>3. \A o \in Contexts : ctx'[o].parent = ctx[o].parent
  OBVIOUS
<1>6. ContextsInv'
  <2>1. ASSUME NEW o \in Contexts, ctx'[o].span # NoSpan
        PROVE  span'[ctx'[o].span].phase # "unused"
    <3>1. CASE o = c
      BY <3>1
    <3>2. CASE o # c
      <4>1. ctx[o].span # NoSpan /\ span[ctx[o].span].phase # "unused"
        BY <2>1, <3>2 DEF ContextsInv
      <4> QED
        BY <3>2, <4>1, <1>0 DEF Steady
    <3> QED
      BY <3>1, <3>2
  <2>2. ASSUME NEW o \in Contexts, ctx'[o].parent # NoSpan
        PROVE  span'[ctx'[o].parent].phase # "unused"
    <3>1. ctx[o].parent # NoSpan /\ span[ctx[o].parent].phase # "unused"
      BY <2>2, <1>3 DEF ContextsInv
    <3> QED
      BY <3>1, <1>1, <1>3 DEF Steady
  <2>3. ASSUME NEW o \in Contexts, NEW q \in Contexts,
               ctx'[o].span = ctx'[q].span, ctx'[o].span # NoSpan
        PROVE  o = q
    <3>1. CASE o # c /\ q # c
      BY <2>3, <3>1 DEF ContextsInv
    <3>2. CASE o = c \/ q = c
      BY <2>3, <3>2, <1>0
    <3> QED
      BY <3>1, <3>2
  <2> QED
    BY <2>1, <2>2, <2>3 DEF ContextsInv
<1>7. FilterInv'
  <2> SUFFICES ASSUME NEW o \in Contexts PROVE FilterKnows(config, ctx'[o], span'[ctx'[o].span])
    BY DEF FilterInv
  <2>1. CASE o = c
    BY <2>1, NoSpanAssumption DEF FilterKnows
  <2>2. CASE o # c
    <3>1. ctx[o].span # NoSpan =>
            /\ span'[ctx[o].span].call = span[ctx[o].span].call
            /\ span'[ctx[o].span].rec.sampled = span[ctx[o].span].rec.sampled
      BY <1>0 DEF Steady, ContextsInv
    <3>2. FilterKnows(config, ctx[o], span[ctx[o].span])
      BY DEF FilterInv
    <3> QED
      BY <2>2, <3>1, <3>2 DEF FilterKnows
  <2> QED
    BY <2>1, <2>2
<1>8. PostedIsEnded'
  <2> SUFFICES ASSUME NEW o \in Contexts, ctx'[o].phase = "post", ctx'[o].span # NoSpan
               PROVE  span'[ctx'[o].span].phase # "recording"
    BY DEF PostedIsEnded, IsRecording
  <2>1. ctx'[o] = ctx[o]
    OBVIOUS
  <2>2. span[ctx[o].span].phase \in {"noop", "ended"}
    BY <2>1, <1>0 DEF PostedIsEnded, IsRecording, ContextsInv, TypeOK, Span
  <2> QED
    BY <2>1, <2>2, <1>0 DEF Steady
<1> QED
  BY <1>2, <1>6, <1>7, <1>8

\* A step of FinishSpan that has told the span how the call came out.
LEMMA FinishStep ==
  ASSUME IInv, config' = config, TypeOK', NEW c \in Contexts, ctx[c].span \in Spans,
         SpanInv(config, span'[ctx[c].span]),
         span'[ctx[c].span].phase = span[ctx[c].span].phase,
         span'[ctx[c].span].call = IF ctx'[c].failed THEN "failed" ELSE "ok",
         \A x \in Spans : x # ctx[c].span => span'[x] = span[x],
         ctx'[c].phase \in {"add_request", "add_response", "set_status", "end"},
         ctx'[c].phase = "add_response" =>
           NeedReportReqRsp(FilterOptions(config), span'[ctx[c].span].rec.sampled, ctx'[c].failed),
         ctx'[c].span = ctx[c].span, ctx'[c].parent = ctx[c].parent,
         \A o \in Contexts : o # c => ctx'[o] = ctx[o]
  PROVE  IInv'
<1> USE DEF IInv
<1>1. SpansInv'
  BY DEF SpansInv
<1>2. \A o \in Contexts : /\ ctx'[o].span = ctx[o].span /\ ctx'[o].parent = ctx[o].parent
                          /\ ctx[o].span \in Spans \cup {NoSpan}
                          /\ ctx[o].parent \in Spans \cup {NoSpan}
  BY DEF TypeOK
<1>3. \A x \in Spans : span'[x].phase = span[x].phase
  OBVIOUS
<1>4. ContextsInv'
  BY <1>2, <1>3 DEF ContextsInv
<1>5. \A o \in Contexts : o # c /\ ctx[o].span # NoSpan =>
        span'[ctx[o].span] = span[ctx[o].span]
  BY <1>2, NoSpanAssumption DEF ContextsInv
<1>6. FilterInv'
  <2> SUFFICES ASSUME NEW o \in Contexts PROVE FilterKnows(config, ctx'[o], span'[ctx'[o].span])
    BY DEF FilterInv
  <2>1. CASE o = c
    BY <2>1, NoSpanAssumption DEF FilterKnows
  <2>2. CASE o # c
    <3>1. FilterKnows(config, ctx[o], span[ctx[o].span])
      BY DEF FilterInv
    <3> QED
      BY <2>2, <1>5, <3>1 DEF FilterKnows
  <2> QED
    BY <2>1, <2>2
<1>7. PostedIsEnded'
  <2> SUFFICES ASSUME NEW o \in Contexts, ctx'[o].phase = "post", ctx'[o].span # NoSpan
               PROVE  span'[ctx'[o].span].phase # "recording"
    BY DEF PostedIsEnded, IsRecording
  <2>1. o # c /\ ctx'[o] = ctx[o]
    OBVIOUS
  <2>2. span[ctx[o].span].phase # "recording"
    BY <2>1 DEF PostedIsEnded, IsRecording
  <2> QED
    BY <2>1, <2>2, <1>5
<1> QED
  BY <1>1, <1>4, <1>6, <1>7

\* The span of c keeps its invariant, its phase, its call and its sampling flag,
\* and no other span changes.
EventWritten(c) ==
  LET s == ctx[c].span
  IN  /\ span' \in [Spans -> Span]
      /\ SpanInv(config, span'[s])
      /\ span'[s].phase = span[s].phase /\ span'[s].call = span[s].call
      /\ span'[s].rec.sampled = span[s].rec.sampled
      /\ \A x \in Spans : x # s => span'[x] = span[x]

\* A message's event on the span of a call, where bodies are reported.
LEMMA AddEventWrites ==
  ASSUME TypeOK, SpansInv, NEW c \in Contexts, ctx[c].span \in Spans,
         span[ctx[c].span].call = IF ctx[c].failed THEN "failed" ELSE "ok",
         \/ span' = span
         \/ /\ NeedReportReqRsp(FilterOptions(config), span[ctx[c].span].rec.sampled,
                                ctx[c].failed)
            /\ span' = [span EXCEPT ![ctx[c].span].body = TRUE]
  PROVE  EventWritten(c)
<1> DEFINE s == ctx[c].span
<1>0. span \in [Spans -> Span] /\ s \in Spans /\ span[s] \in Span /\ SpanInv(config, span[s])
  BY DEF TypeOK, SpansInv
<1>1. CASE span' = span
  BY <1>0, <1>1 DEF EventWritten
<1>2. CASE /\ NeedReportReqRsp(FilterOptions(config), span[s].rec.sampled, ctx[c].failed)
           /\ span' = [span EXCEPT ![s].body = TRUE]
  <2>1. /\ span'[s] = [span[s] EXCEPT !.body = TRUE]
        /\ \A x \in Spans : x # s => span'[x] = span[x]
    BY <1>0, <1>2
  <2>2. [span[s] EXCEPT !.body = TRUE] \in Span
    BY <1>0 DEF Span
  <2>3. \/ span[s].rec.sampled
        \/ FilterOptions(config).deferred_sample_error /\ ctx[c].failed
    BY <1>2 DEF NeedReportReqRsp
  <2>4. /\ span'[s].phase = span[s].phase /\ span'[s].call = span[s].call
        /\ span'[s].rec = span[s].rec /\ span'[s].handed = span[s].handed
        /\ span'[s].statusBy = span[s].statusBy
    BY <1>0, <2>1 DEF Span
  <2>5. SpanInv(config, span'[s])
    BY <1>0, <2>3, <2>4 DEF SpanInv
  <2>6. span' \in [Spans -> Span]
    BY <1>0, <1>2, <2>1, <2>2
  <2> QED
    BY <2>1, <2>4, <2>5, <2>6 DEF EventWritten
<1> QED
  BY <1>1, <1>2

CtxType == [phase : Phases, span : Spans \cup {NoSpan},
            parent : Spans \cup {NoSpan}, failed : BOOLEAN]

LEMMA NextInv == IInv /\ [Next]_vars => IInv'
<1> SUFFICES ASSUME IInv, [Next]_vars PROVE IInv'
  OBVIOUS
<1>0. TypeOK /\ SpansInv /\ ContextsInv /\ FilterInv /\ PostedIsEnded
  BY DEF IInv
<1>00. ctx \in [Contexts -> CtxType] /\ span \in [Spans -> Span]
  BY <1>0 DEF TypeOK, CtxType
<1>000. Steady(span)
  BY <1>0, <1>00 DEF Steady, SpansInv
<1>1. ASSUME NEW c \in ServerContexts, ServerPre(c) PROVE IInv'
  <2>1. PICK s \in Spans, remoteSampled \in BOOLEAN :
          /\ span[s].phase = "unused"
          /\ \E d \in StartDecisions[config][remoteSampled] :
               \E sp \in Started(d, FreshRecordables(config)) :
                 span' = [span EXCEPT ![s] = sp]
          /\ ctx' = [ctx EXCEPT ![c] = [@ EXCEPT !.phase = "call", !.span = s]]
    BY <1>1 DEF ServerPre
  <2>a. PICK d \in StartDecisions[config][remoteSampled] :
          \E sp \in Started(d, FreshRecordables(config)) : span' = [span EXCEPT ![s] = sp]
    BY <2>1
  <2>2. PICK sp \in Started(d, FreshRecordables(config)) : span' = [span EXCEPT ![s] = sp]
    BY <2>a
  <2>3. /\ sp \in Span /\ SpanInv(config, sp)
        /\ sp.phase \in {"recording", "noop"} /\ sp.call = "unknown"
    <3>1. config \in Configs
      BY <1>0 DEF TypeOK
    <3> QED
      BY <3>1, StartDecisionsRange, StartedSpan
  <2>4. c \in Contexts /\ config' = config /\ userHolds' = userHolds
    BY <1>1 DEF ServerPre, Contexts
  <2>b. ctx' = [ctx EXCEPT ![c] = [@ EXCEPT !.phase = "call", !.span = s]]
    BY <2>1
  <2>5. /\ ctx'[c].span = s /\ ctx'[c].phase = "call" /\ ctx'[c].parent = ctx[c].parent
        /\ \A o \in Contexts : o # c => ctx'[o] = ctx[o]
        /\ ctx' \in [Contexts -> CtxType]
    BY <1>00, <2>b, <2>4 DEF CtxType, Phases
  <2>6. TypeOK'
    <3>2. span' \in [Spans -> Span]
      BY <1>00, <2>2, <2>3
    <3> QED
      BY <1>0, <2>4, <2>5, <3>2 DEF TypeOK, CtxType
  <2>7. span'[s] = sp /\ \A x \in Spans : x # s => span'[x] = span[x]
    BY <1>00, <2>2
  <2> QED
    BY <1>000, <2>1, <2>3, <2>4, <2>5, <2>6, <2>7, PreStep
<1>2. ASSUME NEW c \in ClientContexts, ClientPre(c) PROVE IInv'
  <2> DEFINE parentSampled == ctx[c].parent # NoSpan /\ span[ctx[c].parent].rec.sampled
  <2>1. PICK s \in Spans, dur \in Durations :
          /\ span[s].phase = "unused"
          /\ \E d \in StartDecisions[config][parentSampled] :
               \E sp \in Started(d, FreshRecordables(config)) :
                 span' = [AfterDrop(c, "span", ctx[c].span, dur) EXCEPT ![s] = sp]
          /\ ctx' = [ctx EXCEPT ![c] = [@ EXCEPT !.phase = "call", !.span = s]]
    BY <1>2 DEF ClientPre
  <2> DEFINE old == AfterDrop(c, "span", ctx[c].span, dur)
  <2>a. PICK d \in StartDecisions[config][parentSampled] :
          \E sp \in Started(d, FreshRecordables(config)) : span' = [old EXCEPT ![s] = sp]
    BY <2>1
  <2>2. PICK sp \in Started(d, FreshRecordables(config)) : span' = [old EXCEPT ![s] = sp]
    BY <2>a
  <2>3. /\ sp \in Span /\ SpanInv(config, sp)
        /\ sp.phase \in {"recording", "noop"} /\ sp.call = "unknown"
    <3>1. config \in Configs
      BY <1>0 DEF TypeOK
    <3>2. parentSampled \in BOOLEAN
      OBVIOUS
    <3> HIDE DEF parentSampled
    <3> QED
      BY <3>1, <3>2, StartDecisionsRange, StartedSpan
  <2>4. c \in Contexts /\ config' = config /\ userHolds' = userHolds
    BY <1>2 DEF ClientPre, Contexts
  <2>b. ctx' = [ctx EXCEPT ![c] = [@ EXCEPT !.phase = "call", !.span = s]]
    BY <2>1
  <2>5. /\ ctx'[c].span = s /\ ctx'[c].phase = "call" /\ ctx'[c].parent = ctx[c].parent
        /\ \A o \in Contexts : o # c => ctx'[o] = ctx[o]
        /\ ctx' \in [Contexts -> CtxType]
    BY <1>00, <2>b, <2>4 DEF CtxType, Phases
  <2>6. Steady(old)
    BY <1>0, AfterDropSteady
  <2> HIDE DEF old
  <2>7. TypeOK'
    <3>2. span' \in [Spans -> Span]
      BY <2>2, <2>3, <2>6 DEF Steady
    <3> QED
      BY <1>0, <2>4, <2>5, <3>2 DEF TypeOK, CtxType
  <2>8. span'[s] = sp /\ \A x \in Spans : x # s => span'[x] = old[x]
    BY <2>2, <2>6 DEF Steady
  <2> QED
    BY <2>1, <2>3, <2>4, <2>5, <2>6, <2>7, <2>8, PreStep
<1>3. ASSUME NEW c \in ClientContexts, MakeClientContext(c) PROVE IInv'
  <2>1. PICK p \in {NoSpan} \cup
               {ctx[o].span : o \in {o \in ServerContexts : ctx[o].phase # "gone"}} :
          ctx' = [ctx EXCEPT ![c] = [@ EXCEPT !.phase = "pre", !.parent = p]]
    BY <1>3 DEF MakeClientContext
  <2>2. /\ c \in Contexts /\ config' = config /\ span' = span /\ userHolds' = userHolds
        /\ "pre" \in Phases
    BY <1>3 DEF MakeClientContext, Contexts, Phases
  <2>3. p \in Spans \cup {NoSpan} /\ (p # NoSpan => span[p].phase # "unused")
    BY <1>0, <1>00 DEF ContextsInv, Contexts, CtxType
  <2>4. /\ ctx' \in [Contexts -> CtxType] /\ ctx'[c].phase = "pre"
        /\ ctx'[c].span = ctx[c].span /\ ctx'[c].parent = p
        /\ \A o \in Contexts : o # c => ctx'[o] = ctx[o]
    BY <1>00, <2>1, <2>2, <2>3 DEF CtxType, Phases
  <2>5. TypeOK'
    BY <1>0, <2>2, <2>4 DEF TypeOK, CtxType
  <2>6. \A o \in Contexts : ctx'[o].span = ctx[o].span
    BY <2>4
  <2>7. ContextsInv'
    <3>1. \A o \in Contexts : ctx'[o].span # NoSpan => span[ctx'[o].span].phase # "unused"
      BY <1>0, <2>6 DEF ContextsInv
    <3>2. \A o \in Contexts : ctx'[o].parent # NoSpan => span[ctx'[o].parent].phase # "unused"
      BY <1>0, <2>3, <2>4 DEF ContextsInv
    <3>3. \A o, q \in Contexts : ctx'[o].span = ctx'[q].span /\ ctx'[o].span # NoSpan => o = q
      BY <1>0, <2>6 DEF ContextsInv
    <3> QED
      BY <2>2, <3>1, <3>2, <3>3 DEF ContextsInv
  <2>8. SpansInv' /\ FilterInv' /\ PostedIsEnded'
    BY <1>0, <1>3, <2>2, <2>4 
       DEF SpansInv, FilterInv, FilterKnows, PostedIsEnded, IsRecording, MakeClientContext
  <2> QED
    BY <2>5, <2>7, <2>8 DEF IInv
<1>4. ASSUME NEW c \in Contexts, DropSpan(c) PROVE IInv'
  <2>1. PICK d \in Durations : span' = AfterDrop(c, "span", ctx[c].span, d)
    BY <1>4 DEF DropSpan
  <2>2. Steady(span')
    BY <1>0, <2>1, AfterDropSteady
  <2>3. /\ config' = config /\ userHolds' = userHolds /\ "drop_parent" \in Phases
        /\ ctx' = [ctx EXCEPT ![c] = [@ EXCEPT !.phase = "drop_parent", !.span = NoSpan]]
    BY <1>4 DEF DropSpan, Phases
  <2>4. /\ ctx' \in [Contexts -> CtxType] /\ ctx'[c].phase = "drop_parent"
        /\ ctx'[c].span = NoSpan /\ ctx'[c].parent = ctx[c].parent
        /\ ctx'[c].failed = ctx[c].failed
        /\ \A o \in Contexts : o # c => ctx'[o] = ctx[o]
    BY <1>00, <2>3 DEF CtxType, Phases
  <2>5. TypeOK'
    BY <1>0, <2>2, <2>3, <2>4 DEF TypeOK, CtxType, Steady
  <2>6. SpansInv' /\ ContextsInv' /\ FilterInv' /\ PostedIsEnded'
    BY <2>2, <2>3, <2>4, SteadyStep
  <2> QED
    BY <2>5, <2>6 DEF IInv
<1>5. ASSUME NEW c \in Contexts, DropParent(c) PROVE IInv'
  <2>1. PICK d \in Durations : span' = AfterDrop(c, "parent", ctx[c].parent, d)
    BY <1>5 DEF DropParent
  <2>2. Steady(span')
    BY <1>0, <2>1, AfterDropSteady
  <2>3. /\ config' = config /\ userHolds' = userHolds /\ "gone" \in Phases
        /\ ctx' = [ctx EXCEPT ![c] = [@ EXCEPT !.phase = "gone", !.parent = NoSpan]]
    BY <1>5 DEF DropParent, Phases
  <2>4. /\ ctx' \in [Contexts -> CtxType] /\ ctx'[c].phase = "gone"
        /\ ctx'[c].span = ctx[c].span /\ ctx'[c].parent = NoSpan
        /\ ctx'[c].failed = ctx[c].failed
        /\ \A o \in Contexts : o # c => ctx'[o] = ctx[o]
    BY <1>00, <2>3 DEF CtxType, Phases
  <2>5. TypeOK'
    BY <1>0, <2>2, <2>3, <2>4 DEF TypeOK, CtxType, Steady
  <2>6. SpansInv' /\ ContextsInv' /\ FilterInv' /\ PostedIsEnded'
    BY <2>2, <2>3, <2>4, SteadyStep
  <2> QED
    BY <2>5, <2>6 DEF IInv
<1>6. ASSUME NEW c \in ServerContexts, AcquireSpan(c) PROVE IInv'
  <2>1. /\ config' = config /\ ctx' = ctx /\ span' = span
        /\ userHolds' = userHolds \cup {ctx[c].span} /\ ctx[c].span # NoSpan /\ c \in Contexts
    BY <1>6 DEF AcquireSpan, Contexts
  <2>2. TypeOK'
    BY <1>0, <2>1 DEF TypeOK
  <2>3. SpansInv' /\ ContextsInv' /\ FilterInv' /\ PostedIsEnded'
    BY <1>0, <2>1 DEF SpansInv, ContextsInv, FilterInv, PostedIsEnded, IsRecording
  <2> QED
    BY <2>2, <2>3 DEF IInv
<1>7. ASSUME NEW c \in Contexts, Post(c) PROVE IInv'
  <2> DEFINE s == ctx[c].span
  <2>1. PICK failed \in BOOLEAN :
          /\ ctx' = [ctx EXCEPT ![c] =
                       [@ EXCEPT !.failed = failed,
                                 !.phase = IF IsRecording(s) THEN "add_request" ELSE "post"]]
          /\ span' = IF IsRecording(s)
                     THEN [span EXCEPT ![s].call = IF failed THEN "failed" ELSE "ok"]
                     ELSE span
    BY <1>7 DEF Post
  <2>2. config' = config /\ userHolds' = userHolds
    BY <1>7 DEF Post
  <2>3. /\ ctx' \in [Contexts -> CtxType]
        /\ ctx'[c].phase = IF IsRecording(s) THEN "add_request" ELSE "post"
        /\ ctx'[c].failed = failed
        /\ ctx'[c].span = ctx[c].span /\ ctx'[c].parent = ctx[c].parent
        /\ \A o \in Contexts : o # c => ctx'[o] = ctx[o]
    BY <1>00, <2>1 DEF CtxType, Phases
  <2>4. CASE ~IsRecording(s)
    <3>1. span' = span
      BY <2>1, <2>4
    <3>2. s # NoSpan => span[s].phase # "recording"
      BY <2>4 DEF IsRecording
    <3>3. TypeOK'
      BY <1>0, <2>2, <2>3, <3>1 DEF TypeOK, CtxType
    <3>4. SpansInv' /\ ContextsInv' /\ FilterInv' /\ PostedIsEnded'
      BY <1>000, <2>2, <2>3, <2>4, <3>1, <3>2, SteadyStep
    <3> QED
      BY <3>3, <3>4 DEF IInv
  <2>5. CASE IsRecording(s)
    <3>1. s \in Spans /\ span[s].phase = "recording" /\ span[s] \in Span
      BY <1>00, <2>5 DEF IsRecording, CtxType
    <3>2. span[s].call = "unknown"
      BY <1>0, <1>7, <3>1, NoSpanAssumption DEF FilterInv, FilterKnows, Post
    <3>3. SpanInv(config, span[s])
      BY <1>0, <3>1 DEF SpansInv
    <3>4. /\ span'[s] = [span[s] EXCEPT !.call = IF failed THEN "failed" ELSE "ok"]
          /\ \A x \in Spans : x # s => span'[x] = span[x]
      BY <1>00, <2>1, <2>5, <3>1
    <3>5. /\ span'[s] \in Span
          /\ span'[s].phase = span[s].phase /\ span'[s].rec = span[s].rec
          /\ span'[s].call = IF failed THEN "failed" ELSE "ok"
          /\ span'[s].handed = span[s].handed /\ span'[s].body = span[s].body
          /\ span'[s].statusBy = span[s].statusBy
      BY <3>1, <3>4 DEF Span
    <3>6. SpanInv(config, span'[s])
      BY <3>2, <3>3, <3>5 DEF SpanInv
    <3>7. TypeOK'
      <4>1. span' \in [Spans -> Span]
        BY <1>00, <2>1, <2>5, <3>4, <3>5
      <4> QED
        BY <1>0, <2>2, <2>3, <4>1 DEF TypeOK, CtxType
    <3> HIDE DEF s
    <3>8. s = ctx[c].span
      BY DEF s
    <3> QED
      <4>1. /\ ctx[c].span \in Spans /\ SpanInv(config, span'[ctx[c].span])
            /\ span'[ctx[c].span].phase = span[ctx[c].span].phase
            /\ span'[ctx[c].span].call = IF ctx'[c].failed THEN "failed" ELSE "ok"
            /\ \A x \in Spans : x # ctx[c].span => span'[x] = span[x]
        BY <2>3, <3>1, <3>4, <3>5, <3>6, <3>8
      <4>2. ctx'[c].phase = "add_request"
        BY <2>3, <2>5
      <4> QED
        BY <2>2, <2>3, <3>7, <4>1, <4>2, FinishStep
  <2> QED
    BY <2>4, <2>5
<1>8. ASSUME NEW c \in Contexts, AddRequestEvent(c) PROVE IInv'
  <2> DEFINE needed == NeedReportReqRsp(FilterOptions(config), span[ctx[c].span].rec.sampled,
                                        ctx[c].failed)
  <2>1. /\ ctx[c].phase = "add_request" /\ config' = config /\ userHolds' = userHolds
        /\ ctx' = [ctx EXCEPT ![c].phase = IF needed THEN "add_response" ELSE "set_status"]
        /\ \E isProtobuf \in BOOLEAN :
             span' = IF needed THEN AfterAddEvent(ctx[c].span, isProtobuf) ELSE span
    BY <1>8 DEF AddRequestEvent
  <2>2. /\ ctx[c].span \in Spans
        /\ span[ctx[c].span].call = IF ctx[c].failed THEN "failed" ELSE "ok"
    BY <1>0, <1>00, <2>1 DEF FilterInv, FilterKnows, CtxType
  <2>3. span' = span \/ (needed /\ span' = [span EXCEPT ![ctx[c].span].body = TRUE])
    BY <2>1 DEF AfterAddEvent
  <2>4. EventWritten(c)
    BY <1>0, <2>2, <2>3, AddEventWrites
  <2>5. /\ ctx' \in [Contexts -> CtxType]
        /\ ctx'[c].phase = IF needed THEN "add_response" ELSE "set_status"
        /\ ctx'[c].failed = ctx[c].failed
        /\ ctx'[c].span = ctx[c].span /\ ctx'[c].parent = ctx[c].parent
        /\ \A o \in Contexts : o # c => ctx'[o] = ctx[o]
    <3> HIDE DEF needed
    <3> QED
      BY <1>00, <2>1 DEF CtxType, Phases
  <2>6. TypeOK'
    BY <1>0, <2>1, <2>4, <2>5 DEF TypeOK, CtxType, EventWritten
  <2>7. ctx'[c].phase = "add_response" =>
          NeedReportReqRsp(FilterOptions(config), span'[ctx[c].span].rec.sampled, ctx'[c].failed)
    BY <2>4, <2>5 DEF EventWritten
  <2> HIDE DEF needed
  <2> QED
    BY <2>1, <2>2, <2>4, <2>5, <2>6, <2>7, FinishStep DEF EventWritten
<1>15. ASSUME NEW c \in Contexts, AddRsponseEvent(c) PROVE IInv'
  <2>1. /\ ctx[c].phase = "add_response" /\ config' = config /\ userHolds' = userHolds
        /\ ctx' = [ctx EXCEPT ![c].phase = "set_status"]
        /\ \E isProtobuf \in BOOLEAN : span' = AfterAddEvent(ctx[c].span, isProtobuf)
    BY <1>15 DEF AddRsponseEvent
  <2>2. /\ ctx[c].span \in Spans
        /\ span[ctx[c].span].call = IF ctx[c].failed THEN "failed" ELSE "ok"
        /\ NeedReportReqRsp(FilterOptions(config), span[ctx[c].span].rec.sampled, ctx[c].failed)
    BY <1>0, <1>00, <2>1 DEF FilterInv, FilterKnows, CtxType
  <2>3. span' = span \/ span' = [span EXCEPT ![ctx[c].span].body = TRUE]
    BY <2>1 DEF AfterAddEvent
  <2>4. EventWritten(c)
    BY <1>0, <2>2, <2>3, AddEventWrites
  <2>5. /\ ctx' \in [Contexts -> CtxType] /\ ctx'[c].phase = "set_status"
        /\ ctx'[c].failed = ctx[c].failed
        /\ ctx'[c].span = ctx[c].span /\ ctx'[c].parent = ctx[c].parent
        /\ \A o \in Contexts : o # c => ctx'[o] = ctx[o]
    BY <1>00, <2>1 DEF CtxType, Phases
  <2>6. TypeOK'
    BY <1>0, <2>1, <2>4, <2>5 DEF TypeOK, CtxType, EventWritten
  <2> QED
    BY <2>1, <2>2, <2>4, <2>5, <2>6, FinishStep DEF EventWritten
<1>9. ASSUME NEW c \in Contexts, SetSpanStatus(c) PROVE IInv'
  <2>1. span' = IF IsRecording(ctx[c].span)
                THEN [span EXCEPT ![ctx[c].span] =
                        WithStatus(span[ctx[c].span], StatusOf(ctx[c].failed), "filter")]
                ELSE span
    BY <1>9 DEF SetSpanStatus
  <2>2. config' = config /\ userHolds' = userHolds /\ ctx[c].phase = "set_status"
    BY <1>9 DEF SetSpanStatus
  <2>3. /\ ctx' \in [Contexts -> CtxType] /\ ctx'[c].phase = "end"
        /\ ctx'[c].failed = ctx[c].failed
        /\ ctx'[c].span = ctx[c].span /\ ctx'[c].parent = ctx[c].parent
        /\ \A o \in Contexts : o # c => ctx'[o] = ctx[o]
    BY <1>00, <1>9 DEF SetSpanStatus, CtxType, Phases
  <2>4. /\ ctx[c].span \in Spans
        /\ span[ctx[c].span].call = IF ctx[c].failed THEN "failed" ELSE "ok"
        /\ span[ctx[c].span] \in Span /\ SpanInv(config, span[ctx[c].span])
    BY <1>0, <1>00, <2>2 DEF FilterInv, FilterKnows, CtxType, SpansInv
  <2>5. /\ span' \in [Spans -> Span]
        /\ SpanInv(config, span'[ctx[c].span])
        /\ span'[ctx[c].span].phase = span[ctx[c].span].phase
        /\ span'[ctx[c].span].call = span[ctx[c].span].call
        /\ \A x \in Spans : x # ctx[c].span => span'[x] = span[x]
    <3>1. CASE ~IsRecording(ctx[c].span)
      BY <1>00, <2>1, <2>4, <3>1
    <3>2. CASE IsRecording(ctx[c].span)
      <4> DEFINE new == WithStatus(span[ctx[c].span], StatusOf(ctx[c].failed), "filter")
      <4>1. /\ new \in Span
            /\ new.rec.code = StatusOf(ctx[c].failed)
            /\ new.rec.sampled = span[ctx[c].span].rec.sampled
            /\ new.statusBy = "filter"
            /\ new.phase = span[ctx[c].span].phase /\ new.call = span[ctx[c].span].call
            /\ new.handed = span[ctx[c].span].handed /\ new.body = span[ctx[c].span].body
        BY <2>4, StatusedSpan DEF StatusOf, StatusCodes
      <4>2. /\ span[ctx[c].span].phase = "recording"
            /\ span[ctx[c].span].call # "unknown"
            /\ StatusOf(ctx[c].failed) = StatusOf(span[ctx[c].span].call = "failed")
        BY <2>4, <3>2 DEF IsRecording, StatusOf
      <4> HIDE DEF new
      <4>3. SpanInv(config, new)
        BY <2>4, <4>1, <4>2 DEF SpanInv
      <4>4. /\ span' \in [Spans -> Span] /\ span'[ctx[c].span] = new
            /\ \A x \in Spans : x # ctx[c].span => span'[x] = span[x]
        BY <1>00, <2>1, <2>4, <3>2, <4>1 DEF new
      <4> QED
        BY <4>1, <4>3, <4>4
    <3> QED
      BY <3>1, <3>2
  <2>6. TypeOK'
    BY <1>0, <2>2, <2>3, <2>5 DEF TypeOK, CtxType
  <2> QED
    BY <2>2, <2>3, <2>4, <2>5, <2>6, FinishStep
<1>10. ASSUME NEW c \in Contexts, EndSpan(c) PROVE IInv'
  <2>1. PICK d \in Durations : span' = AfterEnd(ctx[c].span, d, "filter")
    BY <1>10 DEF EndSpan
  <2>2. /\ Steady(span')
        /\ ctx[c].span \in Spans => span'[ctx[c].span].phase # "recording"
    BY <1>0, <2>1, AfterEndSteady
  <2>3. config' = config /\ userHolds' = userHolds
    BY <1>10 DEF EndSpan
  <2>4. /\ ctx' \in [Contexts -> CtxType] /\ ctx'[c].phase = "post"
        /\ ctx'[c].span = ctx[c].span /\ ctx'[c].parent = ctx[c].parent
        /\ ctx[c].span \in Spans \cup {NoSpan}
        /\ \A o \in Contexts : o # c => ctx'[o] = ctx[o]
    BY <1>00, <1>10 DEF EndSpan, CtxType, Phases
  <2>5. TypeOK'
    BY <1>0, <2>2, <2>3, <2>4 DEF TypeOK, CtxType, Steady
  <2>6. SpansInv' /\ ContextsInv' /\ FilterInv' /\ PostedIsEnded'
    BY <2>2, <2>3, <2>4, SteadyStep
  <2> QED
    BY <2>5, <2>6 DEF IInv
<1>11. ASSUME NEW s \in Spans, UserSetStatus(s) PROVE IInv'
  <2>1. PICK code \in StatusCodes :
          span' = [span EXCEPT ![s] = WithStatus(span[s], code, "user")]
    BY <1>11 DEF UserSetStatus
  <2>2. /\ config' = config /\ ctx' = ctx /\ userHolds' = userHolds
        /\ span[s].phase = "recording" /\ span[s] \in Span /\ SpanInv(config, span[s])
    BY <1>0, <1>00, <1>11 DEF UserSetStatus, IsRecording, SpansInv
  <2> DEFINE new == WithStatus(span[s], code, "user")
  <2>3. /\ new \in Span /\ new.rec.sampled = span[s].rec.sampled
        /\ new.statusBy = "user"
        /\ new.phase = span[s].phase /\ new.call = span[s].call
        /\ new.handed = span[s].handed /\ new.body = span[s].body
    BY <2>2, StatusedSpan
  <2> HIDE DEF new
  <2>4. span' = [span EXCEPT ![s] = new]
    BY <2>1 DEF new
  <2>5. /\ span' \in [Spans -> Span] /\ span'[s] = new
        /\ \A x \in Spans : x # s => span'[x] = span[x]
    BY <1>00, <2>3, <2>4
  <2>6. SpanInv(config, new)
    BY <2>2, <2>3 DEF SpanInv
  <2>8. Steady(span')
    BY <1>000, <2>2, <2>3, <2>5, <2>6 DEF Steady
  <2> QED
    BY <1>0, <2>2, <2>5, <2>8, SteadyStep DEF IInv, TypeOK
<1>12. ASSUME NEW s \in Spans, UserEnd(s) PROVE IInv'
  <2>1. PICK d \in Durations : span' = AfterEnd(s, d, "user")
    BY <1>12 DEF UserEnd
  <2>2. Steady(span')
    BY <1>0, <2>1, AfterEndSteady
  <2>3. config' = config /\ ctx' = ctx /\ userHolds' = userHolds
    BY <1>12 DEF UserEnd
  <2>4. TypeOK'
    BY <1>0, <2>2, <2>3 DEF TypeOK, Steady
  <2> QED
    BY <1>0, <2>2, <2>3, <2>4, SteadyStep DEF IInv
<1>13. ASSUME NEW s \in Spans, UserRelease(s) PROVE IInv'
  <2>1. PICK d \in Durations :
          span' = IF \E c \in Contexts : s \in {ctx[c].span, ctx[c].parent}
                  THEN span ELSE AfterEnd(s, d, "drop")
    BY <1>13 DEF UserRelease
  <2>2. Steady(AfterEnd(s, d, "drop"))
    BY <1>0, AfterEndSteady
  <2>3. Steady(span')
    BY <1>000, <2>1, <2>2
  <2>4. config' = config /\ ctx' = ctx /\ userHolds' = userHolds \ {s}
    BY <1>13 DEF UserRelease
  <2>5. TypeOK'
    BY <1>0, <2>3, <2>4 DEF TypeOK, Steady
  <2> QED
    BY <1>0, <2>3, <2>4, <2>5, SteadyStep DEF IInv
<1>14. CASE UNCHANGED vars
  BY <1>0, <1>14 DEF vars, IInv, TypeOK, SpansInv, ContextsInv, FilterInv, PostedIsEnded, IsRecording
<1> QED
  BY <1>1, <1>2, <1>3, <1>4, <1>5, <1>6, <1>7, <1>8, <1>9, <1>10, <1>11, <1>12, <1>13, <1>14,
     <1>15 DEF Next, Finish, Destroy
-----------------------------------------------------------------------------
(* What the invariant says of a finished span. *)

LEMMA InvFinished == IInv => Finished
<1> SUFFICES ASSUME IInv, NEW s \in Spans
             PROVE  /\ span[s].handed <= IF span[s].phase = "ended" THEN 1 ELSE 0
                    /\ span[s].phase = "ended" /\ span[s].rec.sampled => span[s].handed = 1
                    /\ span[s].phase = "ended" /\ span[s].body /\ span[s].statusBy = "filter"
                         => span[s].handed = 1
                    /\ /\ config.enable_deferred_sample /\ config.deferred_sample_error
                       /\ span[s].call = "failed" /\ FinishedByFilter(s)
                       /\ span[s].phase = "ended"
                       => span[s].handed = 1
                    /\ /\ span[s].phase = "ended" /\ ~span[s].rec.sampled /\ ~Slow(s)
                       /\ span[s].call = "ok" /\ FinishedByFilter(s)
                       => span[s].handed = 0
  BY DEF Finished, HandedOnce, SampledIsHanded, BodyIsHanded, FailedCallIsHanded,
         QuietCallIsDropped
<1>1. SpanInv(config, span[s])
  BY DEF IInv, SpansInv
<1>2. CASE span[s].phase # "ended"
  BY <1>1, <1>2 DEF SpanInv
<1>3. CASE span[s].phase = "ended"
  <2>1. span[s].handed = HandedOver(config, span[s].rec) /\ span[s].handed \in {0, 1}
    BY <1>1, <1>3, HandedOverRange DEF SpanInv
  <2>2. span[s].rec.sampled => span[s].handed = 1
    BY <2>1 DEF HandedOver, OnEnd, ShouldDeferredSampler
  <2>3. config.enable_deferred_sample /\ span[s].rec.code = "kError" => span[s].handed = 1
    BY <2>1 DEF HandedOver, OnEnd, ShouldDeferredSampler, DeferredOptions
  <2>4. span[s].statusBy = "filter" /\ span[s].call = "failed" => span[s].rec.code = "kError"
    BY <1>1 DEF SpanInv, StatusOf
  <2>5. span[s].statusBy = "filter" /\ span[s].call = "ok" => span[s].rec.code = "kOk"
    BY <1>1 DEF SpanInv, StatusOf
  <2>6. span[s].body => \/ span[s].rec.sampled
                        \/ config.enable_deferred_sample /\ span[s].call = "failed"
    BY <1>1 DEF SpanInv, FilterOptions
  <2>7. span[s].rec.sampled \/ config.enable_deferred_sample
    BY <1>1, <1>3 DEF SpanInv
  <2>8. ~span[s].rec.sampled /\ ~Slow(s) /\ span[s].rec.code = "kOk" => span[s].handed = 0
    BY <2>1, <2>7 DEF HandedOver, OnEnd, ShouldDeferredSampler, DeferredOptions, Slow
  <2> QED
    BY <1>3, <2>1, <2>2, <2>3, <2>4, <2>5, <2>6, <2>8 DEF FinishedByFilter
<1> QED
  BY <1>2, <1>3

\* The inductive invariant holds in every reachable state.
THEOREM Invariance == Spec => []IInv
<1>1. Init => IInv
  BY InitInv
<1>2. IInv /\ [Next]_vars => IInv'
  BY NextInv
<1> QED
  BY <1>1, <1>2, PTL DEF Spec

\* The state of the contexts and of the spans keeps its types.
THEOREM TypeCorrect == Spec => []TypeOK
<1>1. IInv => TypeOK
  BY DEF IInv
<1> QED
  BY <1>1, Invariance, PTL

\* However filters, users and destructors interleave, the batch processor gets a
\* span at most once, and only when it has ended.
THEOREM HandedAtMostOnce == Spec => []HandedOnce
<1>1. IInv => HandedOnce
  BY InvFinished DEF Finished
<1> QED
  BY <1>1, Invariance, PTL

\* A sampled span that ended was handed to the batch processor.
THEOREM SampledSpansAreHanded == Spec => []SampledIsHanded
<1>1. IInv => SampledIsHanded
  BY InvFinished DEF Finished
<1> QED
  BY <1>1, Invariance, PTL

\* The filters attach a body only to spans the processor will hand over.
THEOREM BodiesAreHanded == Spec => []BodyIsHanded
<1>1. IInv => BodyIsHanded
  BY InvFinished DEF Finished
<1> QED
  BY <1>1, Invariance, PTL

\* Deferred error sampling misses no failed call that its filter finished.
THEOREM FailedCallsAreHanded == Spec => []FailedCallIsHanded
<1>1. IInv => FailedCallIsHanded
  BY InvFinished DEF Finished
<1> QED
  BY <1>1, Invariance, PTL

\* Unsampled, successful, fast calls leave no span behind.
THEOREM QuietCallsAreDropped == Spec => []QuietCallIsDropped
<1>1. IInv => QuietCallIsDropped
  BY InvFinished DEF Finished
<1> QED
  BY <1>1, Invariance, PTL

\* No span of a context past its POST point still records.
THEOREM PostedSpansAreEnded == Spec => []PostedIsEnded
<1>1. IInv => PostedIsEnded
  BY DEF IInv
<1> QED
  BY <1>1, Invariance, PTL
-----------------------------------------------------------------------------
(* SpanLifecycle implements the safety part of SpanReport: every step of the  *)
(* filters, the user code and the contexts moves at most one span, and moves  *)
(* it the way SpanReport allows.                                              *)

\* What SpanReport sees of a span.
Same(a, b) ==
  a.phase = b.phase /\ a.handed = b.handed /\ a.rec.sampled = b.rec.sampled

Moves(a, b) ==
  \/ /\ a.phase = "unused" /\ b.phase = "recording"
  \/ /\ a.phase = "unused" /\ b.phase = "noop"
     /\ a.rec.sampled = b.rec.sampled
  \/ /\ a.phase = "recording" /\ b.phase = "ended"
     /\ a.rec.sampled = b.rec.sampled
     /\ b.handed \in {0, 1}
     /\ a.rec.sampled => b.handed = 1

OneMoves(t) ==
  \/ \A x \in Spans : Same(span[x], t[x])
  \/ \E s \in Spans : /\ Moves(span[s], t[s])
                      /\ \A x \in Spans : x # s => Same(span[x], t[x])

AbsFate == [s \in Spans |-> Fate(s)]
AbsSampled == [s \in Spans |-> span[s].rec.sampled]
-----------------------------------------------------------------------------
\* A span that moves takes a step of SpanReport, the others stay as they are.
LEMMA MoveMaps ==
  ASSUME TypeOK, TypeOK', OneMoves(span')
  PROVE  [R!Next]_(R!vars)
<1>1. \A x \in Spans : Same(span[x], span'[x]) =>
        Fate(x)' = Fate(x) /\ span'[x].rec.sampled = span[x].rec.sampled
  BY DEF Same, Fate
<1>2. CASE \A x \in Spans : Same(span[x], span'[x])
  <2>1. AbsFate' = AbsFate /\ AbsSampled' = AbsSampled
    BY <1>1, <1>2 DEF AbsFate, AbsSampled
  <2> QED
    BY <2>1 DEF R!vars, AbsFate, AbsSampled
<1>3. ASSUME NEW s \in Spans, Moves(span[s], span'[s]),
             \A x \in Spans : x # s => Same(span[x], span'[x])
      PROVE  R!Next
  <2>1. \A x \in Spans : x # s =>
          Fate(x)' = Fate(x) /\ span'[x].rec.sampled = span[x].rec.sampled
    BY <1>1, <1>3
  <2>2. AbsFate' = [AbsFate EXCEPT ![s] = Fate(s)']
    BY <2>1 DEF AbsFate
  <2>3. AbsSampled' = [AbsSampled EXCEPT ![s] = span'[s].rec.sampled]
    BY <2>1 DEF AbsSampled
  <2>4. span'[s].rec.sampled = span[s].rec.sampled => AbsSampled' = AbsSampled
    BY <2>3 DEF AbsSampled
  <2>5. span'[s].rec.sampled \in BOOLEAN
    BY DEF TypeOK, Span, Recordable
  <2>6. CASE span[s].phase = "unused" /\ span'[s].phase = "recording"
    <3>1. Fate(s) = "none" /\ Fate(s)' = "open"
      BY <2>6 DEF Fate
    <3>2. R!Start(s)
      BY <2>2, <2>3, <2>5, <3>1 DEF R!Start, AbsFate, AbsSampled
    <3> QED
      BY <3>2 DEF R!Next
  <2>7. CASE /\ span[s].phase = "unused" /\ span'[s].phase = "noop"
             /\ span[s].rec.sampled = span'[s].rec.sampled
    <3>1. Fate(s) = "none" /\ Fate(s)' = "ignored"
      BY <2>7 DEF Fate
    <3>2. R!Ignore(s)
      BY <2>2, <2>4, <2>7, <3>1 DEF R!Ignore, AbsFate, AbsSampled
    <3> QED
      BY <3>2 DEF R!Next
  <2>8. CASE /\ span[s].phase = "recording" /\ span'[s].phase = "ended"
             /\ span[s].rec.sampled = span'[s].rec.sampled
             /\ span'[s].handed \in {0, 1}
             /\ span[s].rec.sampled => span'[s].handed = 1
    <3>1. Fate(s) = "open"
      BY <2>8 DEF Fate
    <3>2. CASE span'[s].handed = 1
      <4>1. Fate(s)' = "reported"
        BY <2>8, <3>2 DEF Fate
      <4>2. R!Report(s)
        BY <2>2, <2>4, <2>8, <3>1, <4>1 DEF R!Report, AbsFate, AbsSampled
      <4> QED
        BY <4>2 DEF R!Next
    <3>3. CASE span'[s].handed = 0
      <4>1. Fate(s)' = "dropped" /\ ~span[s].rec.sampled
        BY <2>8, <3>3 DEF Fate
      <4>2. R!Discard(s)
        BY <2>2, <2>4, <2>8, <3>1, <4>1 DEF R!Discard, AbsFate, AbsSampled
      <4> QED
        BY <4>2 DEF R!Next
    <3> QED
      BY <2>8, <3>2, <3>3
  <2> QED
    BY <1>3, <2>6, <2>7, <2>8 DEF Moves
<1> QED
  BY <1>2, <1>3 DEF OneMoves

\* An End moves the span it finds recording, and settles it.
LEMMA EndMoves ==
  ASSUME TypeOK, SpansInv, NEW s, NEW d \in Durations, NEW who \in {"filter", "user", "drop"}
  PROVE  OneMoves(AfterEnd(s, d, who))
<1>1. CASE IsRecording(s) /\ s \in Spans
  <2> DEFINE new == Ended(span[s], d, who)
  <2>1. span[s] \in Span /\ SpanInv(config, span[s]) /\ span[s].phase = "recording"
    BY <1>1 DEF TypeOK, SpansInv, IsRecording
  <2>2. /\ SpanInv(config, new) /\ new.phase = "ended"
        /\ new.rec.sampled = span[s].rec.sampled
    BY <2>1, EndedSpan
  <2>3. AfterEnd(s, d, who) = [span EXCEPT ![s] = new]
    BY <1>1 DEF AfterEnd
  <2> HIDE DEF new
  <2>4. new.handed = HandedOver(config, new.rec) /\ new.handed \in {0, 1}
    BY <2>2, HandedOverRange DEF SpanInv
  <2>5. span[s].rec.sampled => new.handed = 1
    BY <2>2, <2>4 DEF HandedOver, OnEnd, ShouldDeferredSampler
  <2>6. Moves(span[s], new)
    BY <2>1, <2>2, <2>4, <2>5 DEF Moves
  <2> QED
    BY <1>1, <2>3, <2>6 DEF OneMoves, Same, TypeOK
<1>2. CASE IsRecording(s) /\ s \notin Spans
  BY <1>2 DEF AfterEnd, OneMoves, Same, TypeOK
<1>3. CASE ~IsRecording(s)
  BY <1>3 DEF AfterEnd, OneMoves, Same
<1> QED
  BY <1>1, <1>2, <1>3

LEMMA DropMoves ==
  ASSUME TypeOK, SpansInv, NEW c, NEW slot, NEW s, NEW d \in Durations
  PROVE  OneMoves(AfterDrop(c, slot, s, d))
<1>1. OneMoves(AfterEnd(s, d, "drop"))
  BY EndMoves
<1>2. OneMoves(span)
  BY DEF OneMoves, Same
<1> QED
  BY <1>1, <1>2 DEF AfterDrop

\* A PRE point moves the span it starts.
LEMMA StartMoves ==
  ASSUME TypeOK, SpansInv, NEW s \in Spans, span[s].phase = "unused",
         NEW sampled \in BOOLEAN, NEW d \in StartDecisions[config][sampled],
         NEW sp \in Started(d, FreshRecordables(config))
  PROVE  OneMoves([span EXCEPT ![s] = sp])
<1>1. SpanInv(config, sp) /\ sp \in Span /\ sp.phase \in {"recording", "noop"}
  <2>1. config \in Configs
    BY DEF TypeOK
  <2> QED
    BY <2>1, StartDecisionsRange, StartedSpan
<1>2. SpanInv(config, span[s]) /\ span[s] \in Span
  BY DEF SpansInv, TypeOK
<1>3. sp.phase = "noop" => span[s].rec.sampled = sp.rec.sampled
  BY <1>1, <1>2 DEF SpanInv, Span, Recordable
<1>4. Moves(span[s], sp)
  BY <1>1, <1>3 DEF Moves
<1> QED
  BY <1>4 DEF OneMoves, Same, TypeOK
\* A step that writes one span without starting or ending it moves none.
LEMMA WriteMoves ==
  ASSUME TypeOK, NEW s \in Spans, NEW new,
         new.phase = span[s].phase, new.handed = span[s].handed,
         new.rec.sampled = span[s].rec.sampled
  PROVE  OneMoves([span EXCEPT ![s] = new])
BY DEF OneMoves, Same, TypeOK

LEMMA StepMoves == IInv /\ [Next]_vars => OneMoves(span')
<1> SUFFICES ASSUME IInv, [Next]_vars PROVE OneMoves(span')
  OBVIOUS
<1>0. TypeOK /\ SpansInv /\ PostedIsEnded /\ FilterInv
  BY DEF IInv
<1>00. \A c \in Contexts : ctx[c].span # NoSpan => ctx[c].span \in Spans /\ span[ctx[c].span] \in Span
  BY <1>0 DEF TypeOK
<1>q. ASSUME span' = span PROVE OneMoves(span')
  BY <1>q DEF OneMoves, Same
<1>1. ASSUME NEW c \in ServerContexts, ServerPre(c) PROVE OneMoves(span')
  <2>1. PICK s \in Spans, remoteSampled \in BOOLEAN :
          /\ span[s].phase = "unused"
          /\ \E d \in StartDecisions[config][remoteSampled] :
               \E sp \in Started(d, FreshRecordables(config)) :
                 span' = [span EXCEPT ![s] = sp]
    BY <1>1 DEF ServerPre
  <2>2. PICK d \in StartDecisions[config][remoteSampled] :
          \E sp \in Started(d, FreshRecordables(config)) : span' = [span EXCEPT ![s] = sp]
    BY <2>1
  <2>3. PICK sp \in Started(d, FreshRecordables(config)) : span' = [span EXCEPT ![s] = sp]
    BY <2>2
  <2> QED
    BY <1>0, <2>1, <2>3, StartMoves
<1>2. ASSUME NEW c \in ClientContexts, ClientPre(c) PROVE OneMoves(span')
  <2> DEFINE parentSampled == ctx[c].parent # NoSpan /\ span[ctx[c].parent].rec.sampled
  <2>1. PICK s \in Spans, dur \in Durations :
          /\ span[s].phase = "unused"
          /\ \E d \in StartDecisions[config][parentSampled] :
               \E sp \in Started(d, FreshRecordables(config)) :
                 span' = [AfterDrop(c, "span", ctx[c].span, dur) EXCEPT ![s] = sp]
    BY <1>2 DEF ClientPre
  <2>2. c \in Contexts /\ ctx[c].phase \in {"pre", "post"}
    BY <1>2 DEF ClientPre, Contexts
  <2>3. ~IsRecording(ctx[c].span)
    BY <1>0, <2>2 DEF PostedIsEnded, FilterInv, FilterKnows, IsRecording
  <2>4. AfterDrop(c, "span", ctx[c].span, dur) = span
    BY <2>3 DEF AfterDrop, AfterEnd
  <2>5. PICK d \in StartDecisions[config][parentSampled] :
          \E sp \in Started(d, FreshRecordables(config)) : span' = [span EXCEPT ![s] = sp]
    BY <2>1, <2>4
  <2>6. PICK sp \in Started(d, FreshRecordables(config)) : span' = [span EXCEPT ![s] = sp]
    BY <2>5
  <2>7. parentSampled \in BOOLEAN
    OBVIOUS
  <2> HIDE DEF parentSampled
  <2> QED
    BY <1>0, <2>1, <2>6, <2>7, StartMoves
<1>3. ASSUME NEW c \in ClientContexts, MakeClientContext(c) PROVE OneMoves(span')
  BY <1>3, <1>q DEF MakeClientContext
<1>4. ASSUME NEW c \in Contexts, DropSpan(c) PROVE OneMoves(span')
  BY <1>0, <1>4, DropMoves DEF DropSpan
<1>5. ASSUME NEW c \in Contexts, DropParent(c) PROVE OneMoves(span')
  BY <1>0, <1>5, DropMoves DEF DropParent
<1>6. ASSUME NEW c \in ServerContexts, AcquireSpan(c) PROVE OneMoves(span')
  BY <1>6, <1>q DEF AcquireSpan
<1>7. ASSUME NEW c \in Contexts, Post(c) PROVE OneMoves(span')
  <2>1. CASE ~IsRecording(ctx[c].span)
    BY <1>7, <1>q, <2>1 DEF Post
  <2>2. CASE IsRecording(ctx[c].span)
    <3>1. PICK failed \in BOOLEAN :
            span' = [span EXCEPT ![ctx[c].span].call = IF failed THEN "failed" ELSE "ok"]
      BY <1>7, <2>2 DEF Post
    <3>2. ctx[c].span \in Spans /\ span[ctx[c].span] \in Span
      BY <1>00, <2>2 DEF IsRecording
    <3> DEFINE new == [span[ctx[c].span] EXCEPT !.call = IF failed THEN "failed" ELSE "ok"]
    <3>3. span' = [span EXCEPT ![ctx[c].span] = new]
      BY <3>1
    <3>4. /\ new.phase = span[ctx[c].span].phase /\ new.handed = span[ctx[c].span].handed
          /\ new.rec.sampled = span[ctx[c].span].rec.sampled
      BY <3>2 DEF Span
    <3> HIDE DEF new
    <3> QED
      BY <1>0, <3>2, <3>3, <3>4, WriteMoves
  <2> QED
    BY <2>1, <2>2
<1>8. ASSUME NEW c \in Contexts, AddRequestEvent(c) \/ AddRsponseEvent(c)
      PROVE  OneMoves(span')
  <2>1. CASE span' = span
    BY <1>q, <2>1
  <2>2. CASE span' # span
    <3>1. span' = [span EXCEPT ![ctx[c].span].body = TRUE] /\ IsRecording(ctx[c].span)
      BY <1>8, <2>2 DEF AddRequestEvent, AddRsponseEvent, AfterAddEvent
    <3>2. ctx[c].span \in Spans /\ span[ctx[c].span] \in Span
      BY <1>00, <3>1 DEF IsRecording
    <3> DEFINE new == [span[ctx[c].span] EXCEPT !.body = TRUE]
    <3>3. span' = [span EXCEPT ![ctx[c].span] = new]
      BY <3>1
    <3>4. /\ new.phase = span[ctx[c].span].phase /\ new.handed = span[ctx[c].span].handed
          /\ new.rec.sampled = span[ctx[c].span].rec.sampled
      BY <3>2 DEF Span
    <3> HIDE DEF new
    <3> QED
      BY <1>0, <3>2, <3>3, <3>4, WriteMoves
  <2> QED
    BY <2>1, <2>2
<1>9. ASSUME NEW c \in Contexts, SetSpanStatus(c) PROVE OneMoves(span')
  <2>1. CASE ~IsRecording(ctx[c].span)
    BY <1>9, <1>q, <2>1 DEF SetSpanStatus
  <2>2. CASE IsRecording(ctx[c].span)
    <3> DEFINE new == WithStatus(span[ctx[c].span], StatusOf(ctx[c].failed), "filter")
    <3>1. span' = [span EXCEPT ![ctx[c].span] = new]
      BY <1>9, <2>2 DEF SetSpanStatus
    <3>2. ctx[c].span \in Spans /\ span[ctx[c].span] \in Span
      BY <1>00, <2>2 DEF IsRecording
    <3>3. /\ new.phase = span[ctx[c].span].phase /\ new.handed = span[ctx[c].span].handed
          /\ new.rec.sampled = span[ctx[c].span].rec.sampled
      BY <3>2, StatusedSpan DEF StatusOf, StatusCodes
    <3> HIDE DEF new
    <3> QED
      BY <1>0, <3>1, <3>2, <3>3, WriteMoves
  <2> QED
    BY <2>1, <2>2
<1>10. ASSUME NEW c \in Contexts, EndSpan(c) PROVE OneMoves(span')
  BY <1>0, <1>10, EndMoves DEF EndSpan
<1>11. ASSUME NEW s \in Spans, UserSetStatus(s) PROVE OneMoves(span')
  <2>1. PICK code \in StatusCodes :
          span' = [span EXCEPT ![s] = WithStatus(span[s], code, "user")]
    BY <1>11 DEF UserSetStatus
  <2> DEFINE new == WithStatus(span[s], code, "user")
  <2>2. span[s] \in Span
    BY <1>0 DEF TypeOK
  <2>3. /\ new.phase = span[s].phase /\ new.handed = span[s].handed
        /\ new.rec.sampled = span[s].rec.sampled
    BY <2>2, StatusedSpan
  <2> HIDE DEF new
  <2>4. span' = [span EXCEPT ![s] = new]
    BY <2>1 DEF new
  <2> QED
    BY <1>0, <2>3, <2>4, WriteMoves
<1>12. ASSUME NEW s \in Spans, UserEnd(s) PROVE OneMoves(span')
  BY <1>0, <1>12, EndMoves DEF UserEnd
<1>13. ASSUME NEW s \in Spans, UserRelease(s) PROVE OneMoves(span')
  <2>1. PICK d \in Durations :
          span' = IF \E c \in Contexts : s \in {ctx[c].span, ctx[c].parent}
                  THEN span ELSE AfterEnd(s, d, "drop")
    BY <1>13 DEF UserRelease
  <2>2. OneMoves(AfterEnd(s, d, "drop"))
    BY <1>0, EndMoves
  <2> QED
    BY <1>q, <2>1, <2>2
<1>14. CASE UNCHANGED vars
  BY <1>14, <1>q DEF vars
<1> QED
  BY <1>1, <1>2, <1>3, <1>4, <1>5, <1>6, <1>7, <1>8, <1>9, <1>10, <1>11, <1>12, <1>13, <1>14
     DEF Next, Finish, Destroy

\* Under the refinement mapping, every behaviour of the filters, the user code
\* and the processor chain is one of SpanReport: each span is settled at most
\* once, and a sampled one only by a report.
THEOREM ImplementsSpanReport == Spec => R!Spec
<1>1. Init => R!Init
  BY DEF Init, R!Init, Fate, UnusedSpan
<1>2. IInv /\ IInv' /\ [Next]_vars => [R!Next]_(R!vars)
  BY StepMoves, MoveMaps DEF IInv
<1> QED
  BY <1>1, <1>2, Invariance, PTL DEF Spec, R!Spec
===========================================================================
