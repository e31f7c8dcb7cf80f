---------------------- MODULE TelemetryLifecycle_proofs ----------------------
(***************************************************************************)
(* Proofs about TelemetryLifecycle, for any configurations, builds,        *)
(* protocols, carrier functions, limits and calls.                         *)
(***************************************************************************)
EXTENDS TelemetryLifecycle, TLAPS

\* A part that has read the configuration found one, and OpenTelemetryMetrics::Init
\* cannot fail halfway.
PartsInv ==
  /\ \A p \in Parts : part[p] # "fresh" => node \in Nodes
  /\ phase \in {"tracing", "metrics", "log"} => node \in Nodes
  /\ part["metrics"] # "read"

\* What the filters took from the parts: metrics are on only if they are ready
\* and enabled, bodies only if the configuration asks for them.
FiltersInv ==
  \A s \in Sides :
    /\ filter[s].enabled =>
         part["metrics"] = "ready" /\ ConfigOf("metrics").metrics.enabled
    /\ ~filter[s].disable_trace_body => ~Documented("traces", "disable_trace_body", TRUE)

\* No empty function is registered, and what is registered stands; for http only
\* from Init of the filter on, before which no call uses it.
SettingsInv ==
  /\ \A s \in Sides, p \in Protocols :
       /\ carriers[s][p] # NoFunc
       /\ filter[s].tracer_factory \/ p # "http" => carriers[s][p] = StandingFunc(s, p)
  /\ maxLength \in SuffixLength .. SizeModulus - 1

\* Calls run only when users no longer register anything.
CallsInv ==
  /\ phase # "running" => \A c \in Calls : call[c].carrier = "unused" /\ call[c].body = 0
  /\ \A c \in Calls : call[c].carrier # NoFunc

LogInv == instance.sink => part["log"] = "ready"

IInv ==
  /\ TypeOK /\ PartsInv /\ FiltersInv /\ SettingsInv /\ CallsInv /\ LogInv
  /\ CarrierStands /\ BodyIsWanted
-----------------------------------------------------------------------------
(* Decoding. *)

LEMMA DecodeSections ==
  ASSUME NEW n
  PROVE  /\ Decode(n).traces = DecodeTraces(n)
         /\ Decode(n).metrics = DecodeMetrics(n)
         /\ Decode(n).logs = DecodeLogs(n)
<1>1. DOMAIN Overlay(n, DefaultConfig) =
        {"addr", "protocol", "selector_name", "timeout", "sampler", "metrics", "logs", "traces"}
  BY DEF Overlay, DefaultConfig
<1>2. QED
  BY <1>1 DEF Decode

\* A key that is missing, alone or with its section, has the documented default.
LEMMA DecodedBody ==
  ASSUME NEW n
  PROVE  DecodeTraces(n).disable_trace_body =
           IF "traces" \in DOMAIN n /\ "disable_trace_body" \in DOMAIN n["traces"]
           THEN n["traces"]["disable_trace_body"] ELSE TRUE
<1>1. "disable_trace_body" \in DOMAIN TracesConfig /\ TracesConfig["disable_trace_body"] = TRUE
  BY DEF TracesConfig
<1>2. DecodeTraces(n).disable_trace_body =
        IF "disable_trace_body" \in DOMAIN Section(n, "traces")
        THEN Section(n, "traces")["disable_trace_body"] ELSE TRUE
  BY <1>1 DEF DecodeTraces, Overlay
<1>3. "disable_trace_body" \notin DOMAIN << >>
  OBVIOUS
<1>4. QED
  BY <1>2, <1>3 DEF Section

LEMMA DefaultSwitches ==
  /\ DefaultConfig.metrics.enabled = FALSE
  /\ DefaultConfig.traces.disable_trace_body = TRUE
  /\ DefaultConfig.traces.enable_deferred_sample = FALSE
  /\ DefaultConfig.traces.deferred_sample_error = FALSE
BY DEF DefaultConfig, MetricsConfig, TracesConfig

\* What a filter reads from a part, initialised or not, is a boolean.
LEMMA SwitchesAreBoolean ==
  ASSUME PartsInv, NEW p \in Parts
  PROVE  /\ ConfigOf(p).metrics.enabled \in BOOLEAN
         /\ ConfigOf(p).traces.disable_trace_body \in BOOLEAN
         /\ ConfigOf(p).traces.enable_deferred_sample \in BOOLEAN
         /\ ConfigOf(p).traces.deferred_sample_error \in BOOLEAN
<1>1. CASE part[p] = "fresh"
  BY <1>1, DefaultSwitches, ZenonT(30) DEF ConfigOf
<1>2. CASE part[p] # "fresh"
  BY <1>2, NodeAssumption DEF ConfigOf, PartsInv
<1>3. QED
  BY <1>1, <1>2

\* GetLogLevel gives a level of the framework, whatever the configuration says.
LEMMA LevelNames == Levels = {"trace", "debug", "info", "warn", "error", "critical"}
BY DEF Levels, LevelRank

LEMMA GetLogLevelRange == ASSUME NEW name PROVE GetLogLevel(name) \in Levels
BY LevelNames DEF GetLogLevel
-----------------------------------------------------------------------------
(* The start of the process. *)

LEMMA FreshCallIsIdle ==
  ASSUME NEW protocol
  PROVE  FreshCall(protocol).carrier = "unused" /\ FreshCall(protocol).body = 0
BY DEF FreshCall

\* What a call has not used or reported cannot be wrong.
LEMMA NothingUsed ==
  /\ \A c \in Calls : call[c].carrier = "unused" => call[c].carrier # NoFunc
  /\ \A c \in Calls : call[c].body = 0 => ~(call[c].body > 0)
BY FuncAssumption

LEMMA InitIInv == Init => IInv
<1> SUFFICES ASSUME Init PROVE IInv
  OBVIOUS
<1>1. PICK protocolOf \in [Calls -> Protocols] :
        call = [c \in Calls |-> FreshCall(protocolOf[c])]
  BY DEF Init
<1>2. \A c \in Calls : call[c] = FreshCall(protocolOf[c])
  BY <1>1
<1>3. \A s \in Sides, p \in Protocols :
        /\ carriers[s][p] = "TransInfoCarrierFunc" /\ chosen[s][p] = NoFunc
        /\ ~filter[s].tracer_factory
  BY DEF Init, NoCarriers, NothingChosen, FreshFilter
<1>4. TypeOK
  <2>1. call \in [Calls -> [protocol : Protocols, next : 1 .. 5, skipped : BOOLEAN,
                            span : {"none", "noop", "recording", "ended"},
                            sampled : BOOLEAN, carrier : CarrierFuncs \cup {"unused"},
                            begun : Nat, body : Nat, started : Nat, handled : Nat]]
    BY <1>1 DEF FreshCall
  <2>2. instance \in [min_level : Levels, sink : BOOLEAN]
    BY DEF Init, NoInstance, Levels, LevelRank
  <2>3. filter \in [Sides -> [tracer_factory : BOOLEAN, disable_trace_body : BOOLEAN,
                              deferred_sample_error : BOOLEAN, enabled : BOOLEAN]]
    BY DEF Init, FreshFilter
  <2>4. /\ carriers \in [Sides -> [Protocols -> CarrierFuncs]]
        /\ chosen \in [Sides -> [Protocols -> Funcs \cup {NoFunc}]]
    BY DEF Init, NoCarriers, NothingChosen, CarrierFuncs
  <2>5. maxLength \in Nat
    BY LengthAssumption DEF Init
  <2>6. QED
    BY <2>1, <2>2, <2>3, <2>4, <2>5 DEF Init, TypeOK
<1>5. PartsInv
  BY DEF Init, PartsInv, Parts
<1>6. FiltersInv /\ LogInv
  BY DEF Init, FiltersInv, FreshFilter, LogInv, NoInstance
<1>7. SettingsInv
  BY <1>3, FuncAssumption, LengthAssumption DEF Init, SettingsInv, StandingFunc
<1>8. CallsInv /\ CarrierStands /\ BodyIsWanted
  <2>1. \A c \in Calls : call[c].carrier = "unused" /\ call[c].body = 0
    BY <1>2, FreshCallIsIdle
  <2>2. CallsInv
    BY <2>1, NothingUsed DEF CallsInv
  <2>3. CarrierStands
    BY <2>1 DEF CarrierStands
  <2>4. BodyIsWanted
    BY <2>1, NothingUsed DEF BodyIsWanted
  <2>5. QED
    BY <2>2, <2>3, <2>4
<1>9. QED
  BY <1>4, <1>5, <1>6, <1>7, <1>8 DEF IInv

\* While the process starts, a step that leaves calls, settings and filters alone
\* and only ever makes parts ready keeps the invariant.
LEMMA StartStep ==
  ASSUME IInv, phase \notin {"running", "stopped"}, TypeOK', PartsInv', LogInv',
         UNCHANGED <<node, filter, settings, call>>,
         part["metrics"] # "fresh" => part'["metrics"] = part["metrics"]
  PROVE  IInv'
<1>1. FiltersInv'
  <2>1. ASSUME NEW s \in Sides, filter[s].enabled
        PROVE  part'["metrics"] = "ready" /\ ConfigOf("metrics")'.metrics.enabled
    <3>1. part["metrics"] = "ready" /\ ConfigOf("metrics").metrics.enabled
      BY <2>1 DEF IInv, FiltersInv
    <3>2. QED
      BY <3>1 DEF ConfigOf
  <2>2. \A s \in Sides :
          ~filter[s].disable_trace_body => ~Documented("traces", "disable_trace_body", TRUE)
    BY DEF IInv, FiltersInv
  <2>3. QED
    BY <2>1, <2>2 DEF FiltersInv, Documented
<1>2. SettingsInv'
  BY DEF IInv, SettingsInv, StandingFunc, settings
<1>3. CallsInv'
  BY DEF IInv, CallsInv
<1>4. CarrierStands' /\ BodyIsWanted'
  <2>1. CarrierStands'
    BY DEF IInv, CarrierStands, StandingFunc, settings, Side
  <2>2. BodyIsWanted'
    BY DEF IInv, BodyIsWanted, Documented, settings
  <2>3. QED
    BY <2>1, <2>2
<1>5. QED
  BY <1>1, <1>2, <1>3, <1>4 DEF IInv

\* The builds of the plugin, and what an early return may leave behind.
LEMMA NextPhases ==
  /\ AfterMetrics \in {"log", "server"}
  /\ AfterTracing \in {"metrics", "log", "server"}
BY DEF AfterTracing, AfterMetrics

LEMMA RegisterIInv == ASSUME IInv, Register PROVE IInv'
<1>1. TypeOK' /\ PartsInv' /\ LogInv'
  BY DEF Register, IInv, TypeOK, PartsInv, LogInv, settings
<1>2. QED
  BY <1>1, StartStep DEF Register

LEMMA ReadConfigIInv == ASSUME IInv, ReadConfig PROVE IInv'
<1>1. TypeOK'
  BY DEF ReadConfig, Fail, GoOn, IInv, TypeOK, settings
<1>2. PartsInv' /\ LogInv'
  BY DEF ReadConfig, Fail, GoOn, IInv, TypeOK, PartsInv, LogInv
<1>3. QED
  BY <1>1, <1>2, StartStep DEF ReadConfig

LEMMA InitTracingIInv == ASSUME IInv, InitTracing PROVE IInv'
<1>1. part' \in [Parts -> {"fresh", "read", "ready"}]
  BY DEF InitTracing, IInv, TypeOK
<1>2. \A p \in Parts \ {"tracing"} : part'[p] = part[p]
  BY DEF InitTracing, IInv, TypeOK
<1>3. /\ phase' \in {"metrics", "log", "server", "stopped"}
      /\ plugin' \in {"unregistered", "registered", "ready", "dropped"}
  BY NextPhases DEF InitTracing, Fail, GoOn, IInv, TypeOK
<1>4. TypeOK'
  BY <1>1, <1>3 DEF InitTracing, IInv, TypeOK, settings
<1>5. PartsInv' /\ LogInv'
  BY <1>2 DEF InitTracing, IInv, PartsInv, LogInv, Parts
<1>6. QED
  BY <1>2, <1>4, <1>5, StartStep DEF InitTracing, Parts

LEMMA InitMetricsIInv == ASSUME IInv, InitMetrics PROVE IInv'
<1>1. part' \in [Parts -> {"fresh", "read", "ready"}]
  BY DEF InitMetrics, IInv, TypeOK
<1>2. /\ \A p \in Parts \ {"metrics"} : part'[p] = part[p]
      /\ part'["metrics"] = "ready"
  BY DEF InitMetrics, IInv, TypeOK, Parts
<1>3. /\ phase' \in {"log", "server"}
      /\ plugin' \in {"unregistered", "registered", "ready", "dropped"}
  BY NextPhases DEF InitMetrics, GoOn, IInv, TypeOK
<1>4. TypeOK'
  BY <1>1, <1>3 DEF InitMetrics, IInv, TypeOK, settings
<1>5. PartsInv' /\ LogInv'
  BY <1>2 DEF InitMetrics, IInv, PartsInv, LogInv, Parts
<1>6. part["metrics"] # "fresh" => part'["metrics"] = part["metrics"]
  BY <1>2 DEF IInv, PartsInv, TypeOK, Parts
<1>7. QED
  BY <1>4, <1>5, <1>6, StartStep DEF InitMetrics

\* The three outcomes of InitLog: the instance has a sink only in the last.
LEMMA InitLogIInv == ASSUME IInv, InitLog PROVE IInv'
<1>1. /\ phase' \in {"server", "stopped"}
      /\ plugin' \in {"unregistered", "registered", "ready", "dropped"}
      /\ \/ UNCHANGED <<part, instance>>
         \/ instance' = NoInstance /\ UNCHANGED part
         \/ /\ part' = [part EXCEPT !.log = "ready"]
            /\ instance' = [min_level |-> GetLogLevel(Decode(node).logs.level), sink |-> TRUE]
  <2>1. CASE ~host.logFactory
    BY <2>1 DEF InitLog, Fail
  <2>2. CASE host.logFactory /\ ~Decode(node).logs.enabled
    BY <2>2 DEF InitLog, GoOn
  <2>3. CASE host.logFactory /\ Decode(node).logs.enabled
    BY <2>3 DEF InitLog, GoOn
  <2>4. QED
    BY <2>1, <2>2, <2>3
<1>2. /\ part' \in [Parts -> {"fresh", "read", "ready"}]
      /\ \A p \in Parts \ {"log"} : part'[p] = part[p]
  BY <1>1 DEF IInv, TypeOK
<1>3. instance' \in [min_level : Levels, sink : BOOLEAN]
  <2>1. instance \in [min_level : Levels, sink : BOOLEAN]
    BY DEF IInv, TypeOK
  <2>2. NoInstance \in [min_level : Levels, sink : BOOLEAN]
    BY LevelNames DEF NoInstance
  <2>3. [min_level |-> GetLogLevel(Decode(node).logs.level), sink |-> TRUE]
          \in [min_level : Levels, sink : BOOLEAN]
    BY GetLogLevelRange
  <2>4. QED
    BY <1>1, <2>1, <2>2, <2>3
<1>4. TypeOK'
  BY <1>1, <1>2, <1>3 DEF InitLog, IInv, TypeOK, settings
<1>5. PartsInv'
  BY <1>1, <1>2 DEF InitLog, IInv, PartsInv, Parts
<1>6. LogInv'
  BY <1>1 DEF IInv, LogInv, NoInstance, TypeOK, Parts
<1>7. QED
  BY <1>2, <1>4, <1>5, <1>6, StartStep DEF InitLog, Parts
-----------------------------------------------------------------------------
(* The filters and what users register. *)

FilterMembers ==
  [tracer_factory : BOOLEAN, disable_trace_body : BOOLEAN,
   deferred_sample_error : BOOLEAN, enabled : BOOLEAN]

\* A filter asks for bodies only if the configuration does, also when the part it
\* took its options from was never initialised.
LEMMA BodiesAreAskedFor ==
  ASSUME PartsInv, ~ConfigOf("tracing").traces.disable_trace_body
  PROVE  ~Documented("traces", "disable_trace_body", TRUE)
<1>1. part["tracing"] # "fresh"
  BY DefaultSwitches DEF ConfigOf
<1>2. node # Absent
  BY <1>1, AbsentAssumption DEF PartsInv, Parts
<1>3. ConfigOf("tracing").traces = DecodeTraces(node)
  BY <1>1, DecodeSections DEF ConfigOf
<1>4. QED
  BY <1>2, <1>3, DecodedBody DEF Documented

\* Metrics a filter finds enabled are ready: the defaults have them off.
LEMMA EnabledIsReady ==
  ASSUME TypeOK, PartsInv, ConfigOf("metrics").metrics.enabled
  PROVE  part["metrics"] = "ready"
<1>1. part["metrics"] # "fresh"
  BY DefaultSwitches DEF ConfigOf
<1>2. QED
  BY <1>1 DEF PartsInv, TypeOK, Parts

LEMMA InitFilterIInv ==
  ASSUME IInv, NEW side \in Sides, InitFilter(side) PROVE IInv'
<1>1. /\ phase \in Sides /\ phase' \in {"client", "running", "stopped"}
      /\ UNCHANGED <<node, host, plugin, part, instance, maxLength, call>>
  BY DEF InitFilter, Sides
<1>2. filter \in [Sides -> FilterMembers]
  BY DEF IInv, TypeOK, FilterMembers
<1> DEFINE old == filter[side]
           mid == TracingFilterOptions(old)
           new == MetricsFilterOptions(mid)
<1>3. old \in FilterMembers
  BY <1>2
<1>4. /\ mid \in FilterMembers /\ mid.enabled = old.enabled
      /\ mid.disable_trace_body = ConfigOf("tracing").traces.disable_trace_body
  BY <1>3, SwitchesAreBoolean DEF TracingFilterOptions, FilterMembers, Parts, IInv
<1>5. /\ new \in FilterMembers /\ new.disable_trace_body = mid.disable_trace_body
      /\ new.enabled \in {old.enabled, ConfigOf("metrics").metrics.enabled}
  BY <1>4, SwitchesAreBoolean DEF MetricsFilterOptions, FilterMembers, Parts, IInv
<1>6. filter' = [filter EXCEPT ![side] = new] \/ filter' = filter
  BY DEF InitFilter
<1>7. filter' \in [Sides -> FilterMembers]
  <2> HIDE DEF new
  <2>1. QED
    BY <1>2, <1>5, <1>6
<1>8. \A s \in Sides : filter'[s] = filter[s] \/ (s = side /\ filter'[s] = new)
  <2> HIDE DEF new
  <2>1. QED
    BY <1>2, <1>6
<1>9. \A p \in {"tracing", "metrics"} : ConfigOf(p)' = ConfigOf(p)
  BY <1>1 DEF ConfigOf
<1>10. FiltersInv'
  <2>1. ASSUME NEW s \in Sides, filter'[s].enabled
        PROVE  part["metrics"] = "ready" /\ ConfigOf("metrics").metrics.enabled
    <3>1. CASE filter'[s] = filter[s]
      BY <2>1, <3>1 DEF IInv, FiltersInv
    <3>2. CASE s = side /\ filter'[s] = new
      <4>1. old.enabled \/ ConfigOf("metrics").metrics.enabled
        BY <1>5, <2>1, <3>2
      <4>2. QED
        BY <4>1, EnabledIsReady DEF IInv, FiltersInv
    <3>3. QED
      BY <1>8, <3>1, <3>2
  <2>2. ASSUME NEW s \in Sides, ~filter'[s].disable_trace_body
        PROVE  ~Documented("traces", "disable_trace_body", TRUE)
    <3>1. CASE filter'[s] = filter[s]
      BY <2>2, <3>1 DEF IInv, FiltersInv
    <3>2. CASE s = side /\ filter'[s] = new
      BY <1>4, <1>5, <2>2, <3>2, BodiesAreAskedFor DEF IInv
    <3>3. QED
      BY <1>8, <3>1, <3>2
  <2>3. QED
    BY <1>1, <1>9, <2>1, <2>2 DEF FiltersInv, Documented
<1>12. carriers' \in [Sides -> [Protocols -> CarrierFuncs]]
  <2> DEFINE registered ==
        [p \in Protocols |-> CASE p = "trpc" -> "TransInfoCarrierFunc"
                               [] p = "http" -> "HttpCarrierFunc"
                               [] OTHER -> carriers[side][p]]
  <2>1. carriers \in [Sides -> [Protocols -> CarrierFuncs]]
    BY DEF IInv, TypeOK
  <2>2. ASSUME NEW p \in Protocols
        PROVE  (CASE p = "trpc" -> "TransInfoCarrierFunc"
                  [] p = "http" -> "HttpCarrierFunc"
                  [] OTHER -> carriers[side][p]) \in CarrierFuncs
    BY <2>1 DEF CarrierFuncs
  <2>3. registered \in [Protocols -> CarrierFuncs]
    BY <2>2
  <2>4. carriers' = [carriers EXCEPT ![side] = registered] \/ carriers' = carriers
    BY DEF InitFilter
  <2>5. QED
    <3> HIDE DEF registered
    <3>1. QED
      BY <2>1, <2>3, <2>4
<1>19. chosen' \in [Sides -> [Protocols -> Funcs \cup {NoFunc}]]
  BY DEF InitFilter, IInv, TypeOK
<1>13. TypeOK'
  BY <1>1, <1>7, <1>12, <1>19 DEF IInv, TypeOK, FilterMembers
<1>14. PartsInv' /\ LogInv'
  BY <1>1 DEF IInv, PartsInv, LogInv
<1>15. SettingsInv'
  <2>1. /\ filter \in [Sides -> FilterMembers]
        /\ carriers \in [Sides -> [Protocols -> CarrierFuncs]]
        /\ chosen \in [Sides -> [Protocols -> Funcs \cup {NoFunc}]]
    BY <1>2 DEF IInv, TypeOK
  <2>2. CASE ~InFactory
    BY <1>1, <2>2 DEF InitFilter, IInv, SettingsInv, StandingFunc
  <2>3. CASE InFactory
    <3>1. \A s \in Sides : s # side => /\ filter'[s] = filter[s] /\ chosen'[s] = chosen[s]
                                      /\ carriers'[s] = carriers[s]
      BY <2>1, <2>3 DEF InitFilter
    <3>2. \A p \in Protocols :
            /\ p = "trpc" => carriers'[side][p] = "TransInfoCarrierFunc"
                             /\ chosen'[side][p] = NoFunc
            /\ p = "http" => carriers'[side][p] = "HttpCarrierFunc" /\ chosen'[side][p] = NoFunc
            /\ p \notin {"trpc", "http"} => /\ carriers'[side][p] = carriers[side][p]
                                          /\ chosen'[side][p] = chosen[side][p]
      BY <2>1, <2>3 DEF InitFilter
    <3>3. ASSUME NEW s \in Sides, NEW p \in Protocols
          PROVE  /\ carriers'[s][p] # NoFunc
                 /\ filter'[s].tracer_factory \/ p # "http" =>
                      carriers'[s][p] = StandingFunc(s, p)'
      <4>1. CASE s # side
        BY <3>1, <4>1 DEF IInv, SettingsInv, StandingFunc
      <4>2. CASE s = side
        BY <3>2, <4>2, FuncAssumption DEF IInv, SettingsInv, StandingFunc
      <4>3. QED
        BY <4>1, <4>2
    <3>4. QED
      BY <1>1, <3>3 DEF IInv, SettingsInv
  <2>4. QED
    BY <2>2, <2>3
<1>16. \A c \in Calls : call[c].carrier = "unused" /\ call[c].body = 0
  BY <1>1 DEF IInv, CallsInv, Sides
<1>17. CallsInv' /\ CarrierStands' /\ BodyIsWanted'
  <2>1. CallsInv'
    BY <1>1, <1>16, NothingUsed DEF CallsInv
  <2>2. CarrierStands'
    BY <1>1, <1>16 DEF CarrierStands
  <2>3. BodyIsWanted'
    BY <1>1, <1>16, NothingUsed DEF BodyIsWanted
  <2>4. QED
    BY <2>1, <2>2, <2>3
<1>18. QED
  BY <1>10, <1>13, <1>14, <1>15, <1>17 DEF IInv

\* What users register, they register before the first call.
LEMMA SettingStep ==
  ASSUME IInv, Starting, TypeOK', SettingsInv', UNCHANGED <<node, host, startup, call>>
  PROVE  IInv'
<1>1. PartsInv' /\ LogInv'
  BY DEF IInv, PartsInv, LogInv, startup
<1>2. FiltersInv'
  BY DEF IInv, FiltersInv, ConfigOf, Documented, startup
<1>3. \A c \in Calls : call[c].carrier = "unused" /\ call[c].body = 0
  BY DEF IInv, CallsInv, Starting
<1>4. CallsInv' /\ CarrierStands' /\ BodyIsWanted'
  <2>1. CallsInv'
    BY <1>3, NothingUsed DEF CallsInv
  <2>2. CarrierStands'
    BY <1>3 DEF CarrierStands
  <2>3. BodyIsWanted'
    BY <1>3, NothingUsed DEF BodyIsWanted
  <2>4. QED
    BY <2>1, <2>2, <2>3
<1>5. QED
  BY <1>1, <1>2, <1>4 DEF IInv

LEMMA SetCarrierFuncIInv ==
  ASSUME IInv, NEW side \in Sides, NEW protocol \in Protocols,
         NEW func \in Funcs \cup {NoFunc}, SetCarrierFunc(side, protocol, func)
  PROVE  IInv'
<1>1. /\ carriers' = [carriers EXCEPT ![side][protocol] = func]
      /\ chosen' = [chosen EXCEPT ![side][protocol] = func]
      /\ func # NoFunc /\ Starting
  BY DEF SetCarrierFunc, SettableFunc
<1>2. /\ carriers \in [Sides -> [Protocols -> CarrierFuncs]]
      /\ chosen \in [Sides -> [Protocols -> Funcs \cup {NoFunc}]]
      /\ func \in CarrierFuncs /\ func \in Funcs \cup {NoFunc}
  BY DEF IInv, TypeOK, CarrierFuncs
<1>3. /\ carriers' \in [Sides -> [Protocols -> CarrierFuncs]]
      /\ chosen' \in [Sides -> [Protocols -> Funcs \cup {NoFunc}]]
  BY <1>1, <1>2
<1>4. TypeOK'
  BY <1>3 DEF SetCarrierFunc, IInv, TypeOK, startup
<1>5. \A s \in Sides, p \in Protocols :
        \/ carriers'[s][p] = func /\ chosen'[s][p] = func
        \/ carriers'[s][p] = carriers[s][p] /\ chosen'[s][p] = chosen[s][p]
  BY <1>1, <1>2
<1>6. SettingsInv'
  BY <1>1, <1>5 DEF SetCarrierFunc, IInv, SettingsInv, StandingFunc, startup
<1>7. QED
  BY <1>1, <1>4, <1>6, SettingStep DEF SetCarrierFunc

LEMMA SetMaxStringLengthIInv ==
  ASSUME IInv, NEW limit \in Limits, SetMaxStringLength(limit) PROVE IInv'
<1>1. limit \in SuffixLength .. SizeModulus - 1
  BY LengthAssumption DEF SetMaxStringLength, SettableLength
<1>2. TypeOK'
  BY <1>1, LengthAssumption DEF SetMaxStringLength, IInv, TypeOK, startup
<1>3. SettingsInv'
  BY <1>1 DEF SetMaxStringLength, IInv, SettingsInv, StandingFunc, startup
<1>4. QED
  BY <1>2, <1>3, SettingStep DEF SetMaxStringLength
-----------------------------------------------------------------------------
(* Calls. *)

CallRecord ==
  [protocol : Protocols, next : 1 .. 5, skipped : BOOLEAN,
   span : {"none", "noop", "recording", "ended"},
   sampled : BOOLEAN, carrier : CarrierFuncs \cup {"unused"},
   begun : Nat, body : Nat, started : Nat, handled : Nat]

\* The carrier a call used stands, and the body it reported is wanted.
CallInv(side, r) ==
  /\ r.carrier # NoFunc
  /\ r.carrier # "unused" => r.carrier = StandingFunc(side, r.protocol)
  /\ r.body > 0 =>
       ~Documented("traces", "disable_trace_body", TRUE) /\ r.body <= maxLength

\* A body in a span is never longer than the limit: the limit leaves room for
\* the suffix, so that the unsigned difference does not wrap.
LEMMA ReportedLengthFits ==
  ASSUME NEW length \in Lengths, maxLength \in SuffixLength .. SizeModulus - 1
  PROVE  ReportedLength(length) \in Nat /\ ReportedLength(length) <= maxLength
<1>1. length \in Nat /\ SuffixLength \in Nat /\ SizeModulus \in Nat
  BY LengthAssumption
<1>2. QED
  BY <1>1 DEF ReportedLength

LEMMA NewSpanKeeps ==
  ASSUME IInv, NEW side \in Sides, filter[side].tracer_factory,
         NEW r \in CallRecord, CallInv(side, r), NEW new \in NewSpan(side, r)
  PROVE  new \in CallRecord /\ CallInv(side, new) /\ new.next = r.next
<1>1. PICK sampled \in BOOLEAN, kind \in {"recording", "noop"} :
        new = [r EXCEPT !.begun = @ + 1, !.carrier = carriers[side][r.protocol],
                        !.sampled = sampled, !.span = kind]
  BY DEF NewSpan
<1>2. carriers[side][r.protocol] \in CarrierFuncs /\ r.protocol \in Protocols
  BY DEF IInv, TypeOK, CallRecord
<1> DEFINE mid == [r EXCEPT !.begun = @ + 1, !.carrier = carriers[side][r.protocol],
                            !.span = kind]
<1>3. mid \in CallRecord
  <2>1. r.begun + 1 \in Nat
    BY DEF CallRecord
  <2>2. QED
    BY <1>2, <2>1 DEF CallRecord
<1>4. new = [mid EXCEPT !.sampled = sampled]
  BY <1>1 DEF CallRecord
<1>5. new \in CallRecord
  BY <1>3, <1>4 DEF CallRecord
<1>6. /\ new.carrier = carriers[side][r.protocol] /\ new.protocol = r.protocol
      /\ new.body = r.body /\ new.next = r.next
  BY <1>1 DEF CallRecord
<1>7. CallInv(side, new)
  BY <1>2, <1>6 DEF CallInv, IInv, SettingsInv
<1>8. QED
  BY <1>5, <1>6, <1>7

LEMMA FinishSpanKeeps ==
  ASSUME IInv, NEW side \in Sides, NEW r \in CallRecord, CallInv(side, r),
         NEW new \in FinishSpan(side, r)
  PROVE  new \in CallRecord /\ CallInv(side, new) /\ new.next = r.next
<1>1. CASE r.span # "recording"
  BY <1>1 DEF FinishSpan
<1>2. CASE r.span = "recording"
  <2>a. PICK failed \in BOOLEAN, length \in Lengths : new = EndedSpan(side, r, failed, length)
    BY <1>2 DEF FinishSpan
  <2> DEFINE body == IF NeedReportReqRsp(side, r, failed) THEN ReportedLength(length) ELSE 0
  <2>b. /\ new = [r EXCEPT !.span = "ended", !.body = body]
        /\ body = 0 \/ body = ReportedLength(length)
    BY <2>a DEF EndedSpan
  <2>1. body # 0 => ~filter[side].disable_trace_body
    BY DEF NeedReportReqRsp
  <2> HIDE DEF body
  <2>2. body \in Nat /\ body <= maxLength
    <3>1. maxLength \in Nat
      BY DEF IInv, TypeOK
    <3>2. ReportedLength(length) \in Nat /\ ReportedLength(length) <= maxLength
      BY ReportedLengthFits DEF IInv, SettingsInv
    <3>3. QED
      BY <2>b, <3>1, <3>2
  <2>3. new \in CallRecord
    BY <2>b, <2>2 DEF CallRecord
  <2>4. /\ new.carrier = r.carrier /\ new.protocol = r.protocol
        /\ new.body = body /\ new.next = r.next
    BY <2>b DEF CallRecord
  <2>5. body # 0 => ~Documented("traces", "disable_trace_body", TRUE)
    BY <2>1 DEF IInv, FiltersInv
  <2>6. CallInv(side, new)
    <3>1. body > 0 => body # 0 /\ body <= maxLength
      BY <2>2
    <3>2. QED
      BY <2>4, <2>5, <3>1 DEF CallInv
  <2>7. QED
    BY <2>3, <2>4, <2>6
<1>3. QED
  BY <1>1, <1>2

LEMMA TracingFilterKeeps ==
  ASSUME IInv, NEW side \in Sides, NEW point, NEW r \in CallRecord, CallInv(side, r),
         NEW new \in TracingFilter(side, point, r)
  PROVE  new \in CallRecord /\ CallInv(side, new) /\ new.next = r.next
<1>1. \/ new = r
      \/ filter[side].tracer_factory /\ new \in NewSpan(side, r)
      \/ new \in FinishSpan(side, r)
  BY DEF TracingFilter
<1>2. QED
  BY <1>1, NewSpanKeeps, FinishSpanKeeps

LEMMA MetricsFilterKeeps ==
  ASSUME NEW side \in Sides, NEW point, NEW r \in CallRecord, CallInv(side, r)
  PROVE  LET new == MetricsFilter(side, point, r)
         IN  new \in CallRecord /\ CallInv(side, new) /\ new.next = r.next
<1>1. MetricsFilter(side, point, r) \in
        {r, [r EXCEPT !.started = @ + 1], [r EXCEPT !.handled = @ + 1]}
  BY DEF MetricsFilter
<1>2. r.started + 1 \in Nat /\ r.handled + 1 \in Nat
  BY DEF CallRecord
<1>3. \A new \in {r, [r EXCEPT !.started = @ + 1], [r EXCEPT !.handled = @ + 1]} :
        /\ new \in CallRecord /\ new.next = r.next
        /\ new.carrier = r.carrier /\ new.protocol = r.protocol /\ new.body = r.body
  BY <1>2 DEF CallRecord
<1>4. QED
  BY <1>1, <1>3 DEF CallInv

\* A step of a running process that gives one call a new record.
LEMMA CallStep ==
  ASSUME IInv, phase = "running", NEW c \in Calls,
         NEW r \in CallRecord, CallInv(Side(c), r),
         call' = [call EXCEPT ![c] = r],
         UNCHANGED <<node, host, startup, settings>>
  PROVE  IInv'
<1>1. call \in [Calls -> CallRecord]
  BY DEF IInv, TypeOK, CallRecord
<1>2. call' \in [Calls -> CallRecord]
  BY <1>1
<1>3. \A o \in Calls : call'[o] = call[o] \/ (o = c /\ call'[o] = r)
  BY <1>1
<1>4. TypeOK'
  BY <1>2 DEF IInv, TypeOK, CallRecord, startup, settings
<1>5. PartsInv' /\ LogInv'
  BY DEF IInv, PartsInv, LogInv, startup
<1>6. FiltersInv'
  BY DEF IInv, FiltersInv, ConfigOf, Documented, startup
<1>7. SettingsInv'
  BY DEF IInv, SettingsInv, StandingFunc, settings, startup
<1>8. CallsInv'
  BY <1>3 DEF IInv, CallsInv, CallInv, startup
<1>9. CarrierStands'
  BY <1>3 DEF IInv, CarrierStands, CallInv, StandingFunc, settings, Side
<1>10. BodyIsWanted'
  BY <1>3 DEF IInv, BodyIsWanted, CallInv, Documented, settings
<1>11. QED
  BY <1>4, <1>5, <1>6, <1>7, <1>8, <1>9, <1>10 DEF IInv

\* What the invariant says of one call, and how far a call can be.
LEMMA CallOfInv ==
  ASSUME IInv, NEW c \in Calls
  PROVE  call[c] \in CallRecord /\ CallInv(Side(c), call[c]) /\ Side(c) \in Sides
<1>1. call[c] \in CallRecord
  BY DEF IInv, TypeOK, CallRecord
<1>2. CallInv(Side(c), call[c])
  BY DEF IInv, CallsInv, CarrierStands, BodyIsWanted, CallInv, StandingFunc
<1>3. QED
  BY <1>1, <1>2 DEF Side, Sides

LEMMA FilterPointsLength ==
  ASSUME host \in Hosts, NEW side \in Sides PROVE Len(FilterPoints(side)) \in 2 .. 4
<1>1. host.TRPC_BUILD_INCLUDE_PROMETHEUS \in BOOLEAN
  BY HostAssumption
<1>2. QED
  BY <1>1 DEF FilterPoints, Sides

LEMMA NextPointFits ==
  ASSUME IInv, NEW c \in Calls, call[c].next <= Len(FilterPoints(Side(c)))
  PROVE  call[c].next + 1 \in 1 .. 5
<1> DEFINE count == Len(FilterPoints(Side(c)))
<1>1. call[c].next \in 1 .. 5
  BY CallOfInv DEF CallRecord
<1>2. host \in Hosts
  BY DEF IInv, TypeOK
<1>3. count \in 2 .. 4 /\ call[c].next <= count
  BY <1>2, CallOfInv, FilterPointsLength
<1> HIDE DEF count
<1>4. QED
  BY <1>1, <1>3

LEMMA RunPointIInv == ASSUME IInv, NEW c \in Calls, RunPoint(c) PROVE IInv'
<1> DEFINE side == Side(c)
           points == FilterPoints(side)
           point == points[call[c].next]
           traced == IF ForTracing(point) THEN TracingFilter(side, point, call[c])
                     ELSE {call[c]}
           measured(after) ==
             IF ForMetrics(side, point) THEN MetricsFilter(side, point, after) ELSE after
<1>1. PICK after \in traced :
        call' = [call EXCEPT ![c] = [measured(after) EXCEPT !.next = @ + 1]]
  BY DEF RunPoint
<1>2. phase = "running" /\ call[c].next <= Len(points)
  BY DEF RunPoint
<1>3. call[c] \in CallRecord /\ CallInv(side, call[c]) /\ side \in Sides
  BY CallOfInv
<1>4. after \in CallRecord /\ CallInv(side, after) /\ after.next = call[c].next
  BY <1>3, TracingFilterKeeps
<1> DEFINE last == measured(after)
<1>5. last \in CallRecord /\ CallInv(side, last) /\ last.next = call[c].next
  BY <1>3, <1>4, MetricsFilterKeeps
<1> DEFINE new == [last EXCEPT !.next = @ + 1]
<1> HIDE DEF last
<1>6. last.next + 1 \in 1 .. 5
  BY <1>2, <1>5, NextPointFits
<1>7. new \in CallRecord
  BY <1>5, <1>6 DEF CallRecord
<1>8. new.carrier = last.carrier /\ new.protocol = last.protocol /\ new.body = last.body
  BY <1>5 DEF CallRecord
<1>9. CallInv(side, new)
  BY <1>5, <1>8 DEF CallInv
<1>10. call' = [call EXCEPT ![c] = new]
  BY <1>1 DEF last
<1>11. QED
  <2> HIDE DEF new
  <2>1. QED
    BY <1>2, <1>7, <1>9, <1>10, CallStep DEF RunPoint

LEMMA SkipPointIInv == ASSUME IInv, NEW c \in Calls, SkipPoint(c) PROVE IInv'
<1> DEFINE new == [call[c] EXCEPT !.next = @ + 1, !.skipped = TRUE]
<1>1. phase = "running" /\ call[c].next <= Len(FilterPoints(Side(c)))
  BY DEF SkipPoint
<1>2. call[c] \in CallRecord /\ CallInv(Side(c), call[c]) /\ Side(c) \in Sides
  BY CallOfInv
<1>3. call[c].next + 1 \in 1 .. 5
  BY <1>1, NextPointFits
<1>4. new \in CallRecord
  BY <1>2, <1>3 DEF CallRecord
<1>5. /\ new.carrier = call[c].carrier /\ new.protocol = call[c].protocol
      /\ new.body = call[c].body
  BY <1>2 DEF CallRecord
<1>6. CallInv(Side(c), new)
  BY <1>2, <1>5 DEF CallInv
<1>7. call' = [call EXCEPT ![c] = new]
  BY DEF SkipPoint, IInv, TypeOK
<1>8. QED
  <2> HIDE DEF new
  <2>1. QED
    BY <1>1, <1>4, <1>6, <1>7, CallStep DEF SkipPoint
-----------------------------------------------------------------------------
LEMMA NextIInv == IInv /\ [Next]_vars => IInv'
<1> SUFFICES ASSUME IInv, [Next]_vars PROVE IInv'
  OBVIOUS
<1>1. CASE Register \/ ReadConfig \/ InitTracing \/ InitMetrics \/ InitLog
  BY <1>1, RegisterIInv, ReadConfigIInv, InitTracingIInv, InitMetricsIInv, InitLogIInv
<1>2. ASSUME NEW side \in Sides, InitFilter(side) PROVE IInv'
  BY <1>2, InitFilterIInv
<1>3. ASSUME NEW side \in Sides, NEW p \in Protocols, NEW f \in Funcs \cup {NoFunc},
             SetCarrierFunc(side, p, f)
      PROVE  IInv'
  BY <1>3, SetCarrierFuncIInv
<1>4. ASSUME NEW l \in Limits, SetMaxStringLength(l) PROVE IInv'
  BY <1>4, SetMaxStringLengthIInv
<1>5. ASSUME NEW c \in Calls, RunPoint(c) \/ SkipPoint(c) PROVE IInv'
  BY <1>5, RunPointIInv, SkipPointIInv
<1>6. CASE UNCHANGED vars
  BY <1>6 DEF vars, startup, settings, IInv, TypeOK, PartsInv, FiltersInv, SettingsInv,
              CallsInv, LogInv, CarrierStands, BodyIsWanted, ConfigOf, Documented, StandingFunc
<1>7. QED
  BY <1>1, <1>2, <1>3, <1>4, <1>5, <1>6 DEF Next

\* The strengthened invariant holds whatever is configured, registered and built,
\* and wherever an Init fails.
THEOREM LifecycleInvariance == Spec => []IInv
BY InitIInv, NextIInv, PTL DEF Spec

\* Types of the plugin's state; the level of the logger instance is one of the
\* framework's whatever name was configured.
THEOREM LifecycleTypeCorrect == Spec => []TypeOK
<1>1. IInv => TypeOK
  BY DEF IInv
<1>2. QED
  BY <1>1, LifecycleInvariance, PTL

\* No call and no log meets a part that was not initialised.
THEOREM OnlyInitialisedPartsAreUsed == Spec => []NothingUninitialisedIsUsed
<1>1. IInv => NothingUninitialisedIsUsed
  BY DEF IInv, LogInv, FiltersInv, CallsInv, NothingUninitialisedIsUsed
<1>2. QED
  BY <1>1, LifecycleInvariance, PTL

\* A call uses the carrier function that stands for its protocol: the last choice
\* of a user, or the plugin's where there is none since Init of the filter.
THEOREM ChosenCarriersStand == Spec => []CarrierStands
<1>1. IInv => CarrierStands
  BY DEF IInv
<1>2. QED
  BY <1>1, LifecycleInvariance, PTL

\* A body is reported only where the configuration asks for it, and fits the
\* limit.
THEOREM ReportedBodiesAreWanted == Spec => []BodyIsWanted
<1>1. IInv => BodyIsWanted
  BY DEF IInv
<1>2. QED
  BY <1>1, LifecycleInvariance, PTL
-----------------------------------------------------------------------------
(* A plugin that became ready, and the calls it then covers. *)

\* InitLog was reached only with its part compiled in, after the parts before it.
\* A plugin that is ready has what its build and its configuration ask for, and
\* so has each filter whose Init came after.
ReadyInv ==
  /\ phase = "log" =>
       /\ host.ENABLE_LOGS_PREVIEW
       /\ host.TRPC_BUILD_INCLUDE_PROMETHEUS => part["metrics"] = "ready"
  /\ plugin = "ready" =>
       /\ phase \in {"server", "client", "running"} /\ node \in Nodes
       /\ host.TRPC_BUILD_INCLUDE_PROMETHEUS => part["metrics"] = "ready"
       /\ host.ENABLE_LOGS_PREVIEW =>
            IF Decode(node).logs.enabled
            THEN /\ part["log"] = "ready"
                 /\ instance = [min_level |-> GetLogLevel(Decode(node).logs.level),
                                sink |-> TRUE]
            ELSE ~instance.sink
  /\ \A s \in Sides :
       /\ filter[s].enabled => host.TRPC_BUILD_INCLUDE_PROMETHEUS
       /\ plugin = "ready" /\ (phase = "running" \/ (phase = "client" /\ s = "server")) =>
            /\ filter[s].tracer_factory
            /\ filter[s].enabled <=> /\ host.TRPC_BUILD_INCLUDE_PROMETHEUS
                                     /\ Decode(node).metrics.enabled

LEMMA HostSwitches ==
  ASSUME host \in Hosts
  PROVE  host.TRPC_BUILD_INCLUDE_PROMETHEUS \in BOOLEAN /\ host.ENABLE_LOGS_PREVIEW \in BOOLEAN
BY HostAssumption

LEMMA InitReadyInv == Init => ReadyInv
BY DEF Init, ReadyInv, FreshFilter, Sides

LEMMA NotReadyYet ==
  ASSUME IInv, ReadyInv,
         phase \in {"register", "config", "tracing", "metrics", "log"}
  PROVE  plugin # "ready"
BY DEF ReadyInv

LEMMA ReadConfigReadyInv ==
  ASSUME IInv, ReadyInv, Register \/ ReadConfig PROVE ReadyInv'
<1>1. plugin' # "ready" /\ phase' # "log" /\ UNCHANGED <<host, filter>>
  BY DEF ReadyInv, Register, ReadConfig, Fail, GoOn
<1>2. QED
  BY <1>1 DEF ReadyInv

LEMMA InitTracingReadyInv == ASSUME IInv, ReadyInv, InitTracing PROVE ReadyInv'
<1>1. plugin # "ready" /\ node \in Nodes /\ host \in Hosts
  BY DEF InitTracing, ReadyInv, IInv, PartsInv, TypeOK
<1>2. UNCHANGED <<node, host, filter>>
  BY DEF InitTracing
<1>3. CASE Fail
  BY <1>1, <1>2, <1>3 DEF Fail, ReadyInv
<1>4. CASE GoOn(AfterTracing)
  <2>1. plugin' = "ready" <=> AfterTracing = "server"
    BY <1>1, <1>4 DEF GoOn
  <2>2. phase' = AfterTracing
    BY <1>4 DEF GoOn
  <2>3. AfterTracing \in {"log", "server"} => ~host.TRPC_BUILD_INCLUDE_PROMETHEUS
    BY DEF AfterTracing
  <2>4. /\ AfterTracing = "server" => ~host.ENABLE_LOGS_PREVIEW
        /\ AfterTracing = "log" => host.ENABLE_LOGS_PREVIEW
    BY DEF AfterTracing, AfterMetrics
  <2>5. QED
    BY <1>1, <1>2, <2>1, <2>2, <2>3, <2>4 DEF ReadyInv
<1>5. QED
  BY <1>3, <1>4 DEF InitTracing

LEMMA InitMetricsReadyInv == ASSUME IInv, ReadyInv, InitMetrics PROVE ReadyInv'
<1>1. plugin # "ready" /\ node \in Nodes /\ part'["metrics"] = "ready"
  BY DEF InitMetrics, ReadyInv, IInv, PartsInv, TypeOK, Parts
<1>2. /\ UNCHANGED <<node, host, filter>>
      /\ phase' = AfterMetrics /\ (plugin' = "ready" <=> AfterMetrics = "server")
  BY <1>1 DEF InitMetrics, GoOn
<1>3. /\ AfterMetrics = "server" => ~host.ENABLE_LOGS_PREVIEW
      /\ AfterMetrics = "log" => host.ENABLE_LOGS_PREVIEW
  BY DEF AfterMetrics
<1>4. QED
  BY <1>1, <1>2, <1>3 DEF ReadyInv

LEMMA InitLogReadyInv == ASSUME IInv, ReadyInv, InitLog PROVE ReadyInv'
<1>1. /\ plugin # "ready" /\ node \in Nodes /\ phase = "log"
      /\ host.TRPC_BUILD_INCLUDE_PROMETHEUS => part["metrics"] = "ready"
      /\ part \in [Parts -> {"fresh", "read", "ready"}]
  BY DEF InitLog, ReadyInv, IInv, PartsInv, TypeOK
<1>2. UNCHANGED <<node, host, filter>>
  BY DEF InitLog
<1> DEFINE logs == Decode(node).logs
<1>3. CASE ~host.logFactory
  <2>1. Fail
    BY <1>3 DEF InitLog
  <2>2. QED
    BY <1>1, <1>2, <2>1 DEF Fail, ReadyInv
<1>4. CASE host.logFactory /\ ~logs.enabled
  <2>1. GoOn("server") /\ instance' = NoInstance /\ UNCHANGED part
    BY <1>4 DEF InitLog
  <2>2. QED
    BY <1>1, <1>2, <1>4, <2>1 DEF GoOn, ReadyInv, NoInstance
<1>5. CASE host.logFactory /\ logs.enabled
  <2>1. /\ GoOn("server") /\ part' = [part EXCEPT !.log = "ready"]
        /\ instance' = [min_level |-> GetLogLevel(logs.level), sink |-> TRUE]
    BY <1>5 DEF InitLog
  <2>2. part'["log"] = "ready" /\ part'["metrics"] = part["metrics"]
    BY <1>1, <2>1 DEF Parts
  <2>3. QED
    BY <1>1, <1>2, <1>5, <2>1, <2>2 DEF GoOn, ReadyInv
<1>6. QED
  BY <1>3, <1>4, <1>5

LEMMA InitFilterReadyInv ==
  ASSUME IInv, ReadyInv, NEW side \in Sides, InitFilter(side) PROVE ReadyInv'
<1>1. /\ phase = side /\ phase' \in {"client", "running", "stopped"}
      /\ UNCHANGED <<node, host, plugin, part, instance>>
      /\ plugin = "ready" => phase' = IF side = "server" THEN "client" ELSE "running"
  BY DEF InitFilter, Sides, InFactory
<1>2. filter \in [Sides -> FilterMembers] /\ host \in Hosts
  BY DEF IInv, TypeOK, FilterMembers
<1> DEFINE old == filter[side]
           mid == TracingFilterOptions(old)
           new == MetricsFilterOptions(mid)
           on == host.TRPC_BUILD_INCLUDE_PROMETHEUS
<1>3. old \in FilterMembers /\ (old.enabled => on)
  BY <1>2 DEF ReadyInv
<1>4. mid \in FilterMembers /\ mid.enabled = old.enabled /\ mid.tracer_factory
  BY <1>3, SwitchesAreBoolean DEF TracingFilterOptions, FilterMembers, Parts, IInv
<1>5. /\ new.tracer_factory
      /\ new.enabled = IF on THEN ConfigOf("metrics").metrics.enabled ELSE old.enabled
  BY <1>4 DEF MetricsFilterOptions, FilterMembers
<1>6. \A s \in Sides : filter'[s] = filter[s] \/ (s = side /\ filter'[s] = new)
  <2>1. filter' = [filter EXCEPT ![side] = new] \/ filter' = filter
    BY DEF InitFilter
  <2> HIDE DEF new
  <2>2. QED
    BY <1>2, <2>1
<1>7. plugin = "ready" => filter'[side] = new
  <2>1. plugin = "ready" => filter' = [filter EXCEPT ![side] = new]
    BY DEF InitFilter, InFactory
  <2> HIDE DEF new
  <2>2. QED
    BY <1>2, <2>1
<1>8. plugin = "ready" /\ on => ConfigOf("metrics") = Decode(node)
  BY DEF ReadyInv, ConfigOf
<1>9. on \in BOOLEAN /\ old.enabled \in BOOLEAN
  BY <1>2, <1>3, HostSwitches DEF FilterMembers
<1> HIDE DEF old, mid, new
<1>10. plugin = "ready" =>
         /\ filter'[side].tracer_factory
         /\ filter'[side].enabled <=> on /\ Decode(node).metrics.enabled
  BY <1>3, <1>5, <1>7, <1>8, <1>9
<1>11. \A s \in Sides : filter'[s].enabled => on
  BY <1>3, <1>5, <1>6, <1>9 DEF ReadyInv
<1>12. plugin = "ready" /\ side = "client" =>
         /\ filter'["server"].tracer_factory
         /\ filter'["server"].enabled <=> on /\ Decode(node).metrics.enabled
  BY <1>1, <1>6 DEF ReadyInv, Sides
<1>13. QED
  BY <1>1, <1>10, <1>11, <1>12 DEF ReadyInv, Sides

LEMMA NextReadyInv == IInv /\ ReadyInv /\ [Next]_vars => ReadyInv'
<1> SUFFICES ASSUME IInv, ReadyInv, [Next]_vars PROVE ReadyInv'
  OBVIOUS
<1>1. CASE Register \/ ReadConfig \/ InitTracing \/ InitMetrics \/ InitLog
  BY <1>1, ReadConfigReadyInv, InitTracingReadyInv, InitMetricsReadyInv, InitLogReadyInv
<1>2. ASSUME NEW side \in Sides, InitFilter(side) PROVE ReadyInv'
  BY <1>2, InitFilterReadyInv
<1>3. CASE UNCHANGED <<node, host, startup>>
  BY <1>3 DEF startup, ReadyInv
<1>4. (\E side \in Sides : \E p \in Protocols, f \in Funcs \cup {NoFunc} :
         SetCarrierFunc(side, p, f))
      \/ (\E l \in Limits : SetMaxStringLength(l))
      \/ (\E c \in Calls : RunPoint(c) \/ SkipPoint(c))
      \/ UNCHANGED vars
      => UNCHANGED <<node, host, startup>>
  BY DEF SetCarrierFunc, SetMaxStringLength, RunPoint, SkipPoint, vars
<1>5. QED
  BY <1>1, <1>2, <1>3, <1>4 DEF Next
-----------------------------------------------------------------------------
(* The points of a call. *)

\* The index of the point that starts the span, the next one ends it, and of the
\* one that is counted as handled, where metrics are compiled in.
SpanPoint(side) == IF side = "server" /\ host.TRPC_BUILD_INCLUDE_PROMETHEUS THEN 2 ELSE 1
HandledPoint(side) == IF side = "server" THEN 4 ELSE 2

\* What a call that skipped nothing has done by the point that is next.
Covered(side, r) ==
  /\ r.begun = IF r.next > SpanPoint(side) THEN 1 ELSE 0
  /\ r.span \in IF r.next <= SpanPoint(side) THEN {"none"}
                ELSE IF r.next = SpanPoint(side) + 1 THEN {"noop", "recording"}
                ELSE {"noop", "ended"}
  /\ r.started = IF filter[side].enabled /\ r.next > 1 THEN 1 ELSE 0
  /\ r.handled = IF filter[side].enabled /\ r.next > HandledPoint(side) THEN 1 ELSE 0

CoverageInv ==
  /\ phase # "running" =>
       \A c \in Calls :
         /\ call[c].next = 1 /\ call[c].span = "none"
         /\ call[c].begun = 0 /\ call[c].started = 0 /\ call[c].handled = 0
  /\ phase = "running" /\ plugin = "ready" =>
       \A c \in Calls : call[c].skipped \/ Covered(Side(c), call[c])

\* Which points of a wrapper its two filters act on.
LEMMA PointsOfSpan ==
  ASSUME host \in Hosts, NEW side \in Sides, NEW n \in Nat,
         n >= 1, n <= Len(FilterPoints(side))
  PROVE  LET point == FilterPoints(side)[n]
         IN  /\ point \in {"SERVER_PRE_RPC_INVOKE", "CLIENT_PRE_RPC_INVOKE"}
                  <=> n = SpanPoint(side)
             /\ point \in {"SERVER_POST_RPC_INVOKE", "CLIENT_POST_RPC_INVOKE"}
                  <=> n = SpanPoint(side) + 1
             /\ ForTracing(point) <=> n \in {SpanPoint(side), SpanPoint(side) + 1}
<1> DEFINE on == host.TRPC_BUILD_INCLUDE_PROMETHEUS
           point == FilterPoints(side)[n]
<1>1. on \in BOOLEAN
  BY HostSwitches
<1>2. CASE side = "client"
  <2>1. FilterPoints(side) = <<"CLIENT_PRE_RPC_INVOKE", "CLIENT_POST_RPC_INVOKE">>
    BY <1>2 DEF FilterPoints
  <2>2. Len(FilterPoints(side)) = 2
    BY <2>1
  <2>3. n \in {1, 2}
    BY <2>2
  <2>4. SpanPoint(side) = 1
    BY <1>2 DEF SpanPoint
  <2>5. QED
    BY <2>1, <2>3, <2>4 DEF ForTracing
<1>3. CASE side = "server" /\ ~on
  <2>1. FilterPoints(side) = <<"SERVER_PRE_RPC_INVOKE", "SERVER_POST_RPC_INVOKE">>
    BY <1>3 DEF FilterPoints
  <2>2. Len(FilterPoints(side)) = 2
    BY <2>1
  <2>3. n \in {1, 2}
    BY <2>2
  <2>4. SpanPoint(side) = 1
    BY <1>3 DEF SpanPoint
  <2>5. QED
    BY <2>1, <2>3, <2>4 DEF ForTracing
<1>4. CASE side = "server" /\ on
  <2>1. FilterPoints(side) = <<"SERVER_POST_RECV_MSG", "SERVER_PRE_RPC_INVOKE",
                               "SERVER_POST_RPC_INVOKE", "SERVER_PRE_SEND_MSG">>
    BY <1>4 DEF FilterPoints
  <2>2. Len(FilterPoints(side)) = 4
    BY <2>1
  <2>3. n \in {1, 2, 3, 4}
    BY <2>2
  <2>4. SpanPoint(side) = 2
    BY <1>4 DEF SpanPoint
  <2>5. QED
    BY <2>1, <2>3, <2>4 DEF ForTracing
<1>5. QED
  BY <1>1, <1>2, <1>3, <1>4 DEF Sides

LEMMA PointsOfMetrics ==
  ASSUME host \in Hosts, NEW side \in Sides, NEW n \in Nat,
         n >= 1, n <= Len(FilterPoints(side)), host.TRPC_BUILD_INCLUDE_PROMETHEUS
  PROVE  LET point == FilterPoints(side)[n]
         IN  /\ point \in {"SERVER_POST_RECV_MSG", "CLIENT_PRE_RPC_INVOKE"} <=> n = 1
             /\ point \in {"SERVER_PRE_SEND_MSG", "CLIENT_POST_RPC_INVOKE"}
                  <=> n = HandledPoint(side)
             /\ n \in {1, HandledPoint(side)} => ForMetrics(side, point)
<1>1. CASE side = "client"
  <2>1. FilterPoints(side) = <<"CLIENT_PRE_RPC_INVOKE", "CLIENT_POST_RPC_INVOKE">>
    BY <1>1 DEF FilterPoints
  <2>2. Len(FilterPoints(side)) = 2
    BY <2>1
  <2>3. n \in {1, 2}
    BY <2>2
  <2>4. HandledPoint(side) = 2
    BY <1>1 DEF HandledPoint
  <2>5. QED
    BY <1>1, <2>1, <2>3, <2>4 DEF ForMetrics
<1>2. CASE side = "server"
  <2>1. FilterPoints(side) = <<"SERVER_POST_RECV_MSG", "SERVER_PRE_RPC_INVOKE",
                               "SERVER_POST_RPC_INVOKE", "SERVER_PRE_SEND_MSG">>
    BY <1>2 DEF FilterPoints
  <2>2. Len(FilterPoints(side)) = 4
    BY <2>1
  <2>3. n \in {1, 2, 3, 4}
    BY <2>2
  <2>4. HandledPoint(side) = 4
    BY <1>2 DEF HandledPoint
  <2>5. QED
    BY <2>1, <2>3, <2>4 DEF ForMetrics
<1>3. QED
  BY <1>1, <1>2 DEF Sides

\* What each filter makes of a record.
LEMMA TracingEffect ==
  ASSUME NEW side \in Sides, filter[side].tracer_factory, NEW point, NEW r \in CallRecord,
         NEW new \in IF ForTracing(point) THEN TracingFilter(side, point, r) ELSE {r}
  PROVE  LET starts == point \in {"SERVER_PRE_RPC_INVOKE", "CLIENT_PRE_RPC_INVOKE"}
             ends == point \in {"SERVER_POST_RPC_INVOKE", "CLIENT_POST_RPC_INVOKE"}
         IN  /\ new.started = r.started /\ new.handled = r.handled
             /\ new.next = r.next /\ new.skipped = r.skipped
             /\ starts => new.begun = r.begun + 1 /\ new.span \in {"noop", "recording"}
             /\ ends => /\ new.begun = r.begun
                        /\ new.span = IF r.span = "recording" THEN "ended" ELSE r.span
             /\ ~starts /\ ~ends => new = r
<1>1. CASE point \in {"SERVER_PRE_RPC_INVOKE", "CLIENT_PRE_RPC_INVOKE"}
  <2>1. new \in NewSpan(side, r)
    BY <1>1 DEF ForTracing, TracingFilter
  <2>2. PICK sampled \in BOOLEAN, kind \in {"recording", "noop"} :
          new = [r EXCEPT !.begun = @ + 1, !.carrier = carriers[side][r.protocol],
                          !.sampled = sampled, !.span = kind]
    BY <2>1 DEF NewSpan
  <2>3. QED
    BY <1>1, <2>2 DEF CallRecord
<1>2. CASE point \in {"SERVER_POST_RPC_INVOKE", "CLIENT_POST_RPC_INVOKE"}
  <2>1. new \in FinishSpan(side, r)
    BY <1>2 DEF ForTracing, TracingFilter
  <2>2. CASE r.span # "recording"
    BY <1>2, <2>1, <2>2 DEF FinishSpan
  <2>3. CASE r.span = "recording"
    <3>1. PICK failed \in BOOLEAN, length \in Lengths : new = EndedSpan(side, r, failed, length)
      BY <2>1, <2>3 DEF FinishSpan
    <3>2. PICK body : new = [r EXCEPT !.span = "ended", !.body = body]
      BY <3>1 DEF EndedSpan
    <3>3. QED
      BY <1>2, <2>3, <3>2 DEF CallRecord
  <2>4. QED
    BY <2>2, <2>3
<1>3. CASE point \notin {"SERVER_PRE_RPC_INVOKE", "CLIENT_PRE_RPC_INVOKE",
                         "SERVER_POST_RPC_INVOKE", "CLIENT_POST_RPC_INVOKE"}
  BY <1>3 DEF ForTracing
<1>4. QED
  BY <1>1, <1>2, <1>3

LEMMA MetricsEffect ==
  ASSUME NEW side, NEW point, NEW r \in CallRecord
  PROVE  LET new == MetricsFilter(side, point, r)
             on == filter[side].enabled
             first == point \in {"SERVER_POST_RECV_MSG", "CLIENT_PRE_RPC_INVOKE"}
             last == point \in {"SERVER_PRE_SEND_MSG", "CLIENT_POST_RPC_INVOKE"}
         IN  /\ new.started = r.started + (IF on /\ first THEN 1 ELSE 0)
             /\ new.handled = r.handled + (IF on /\ last THEN 1 ELSE 0)
             /\ new.begun = r.begun /\ new.span = r.span
             /\ new.next = r.next /\ new.skipped = r.skipped
<1>1. r.started \in Nat /\ r.handled \in Nat
  BY DEF CallRecord
<1>2. CASE ~filter[side].enabled
  BY <1>1, <1>2 DEF MetricsFilter
<1>3. CASE filter[side].enabled /\ point \in {"SERVER_POST_RECV_MSG", "CLIENT_PRE_RPC_INVOKE"}
  <2>1. MetricsFilter(side, point, r) = [r EXCEPT !.started = @ + 1]
    BY <1>3 DEF MetricsFilter
  <2>2. QED
    BY <1>1, <1>3, <2>1 DEF CallRecord
<1>4. CASE filter[side].enabled /\ point \in {"SERVER_PRE_SEND_MSG", "CLIENT_POST_RPC_INVOKE"}
  <2>1. MetricsFilter(side, point, r) = [r EXCEPT !.handled = @ + 1]
    BY <1>4 DEF MetricsFilter
  <2>2. QED
    BY <1>1, <1>4, <2>1 DEF CallRecord
<1>5. CASE filter[side].enabled /\ point \notin {"SERVER_POST_RECV_MSG", "CLIENT_PRE_RPC_INVOKE",
                                                 "SERVER_PRE_SEND_MSG", "CLIENT_POST_RPC_INVOKE"}
  BY <1>1, <1>5 DEF MetricsFilter
<1>6. QED
  BY <1>2, <1>3, <1>4, <1>5

\* A point the framework visits takes a covered call to a covered call.
LEMMA RunPointCovers ==
  ASSUME IInv, ReadyInv, CoverageInv, NEW c \in Calls, RunPoint(c),
         plugin = "ready"
  PROVE  call'[c].skipped \/ Covered(Side(c), call'[c])
<1> DEFINE side == Side(c)
           n == call[c].next
           point == FilterPoints(side)[n]
           on == filter[side].enabled
<1>a. PICK r : r = call[c]
  OBVIOUS
<1>1. PICK after \in IF ForTracing(point) THEN TracingFilter(side, point, r) ELSE {r} :
        call' = [call EXCEPT ![c] =
          [(IF ForMetrics(side, point) THEN MetricsFilter(side, point, after) ELSE after)
             EXCEPT !.next = @ + 1]]
  BY <1>a DEF RunPoint
<1>b. PICK last : last = IF ForMetrics(side, point) THEN MetricsFilter(side, point, after) ELSE after
  OBVIOUS
<1>2. /\ phase = "running" /\ n <= Len(FilterPoints(side)) /\ n >= 1 /\ n \in Nat
      /\ host \in Hosts /\ side \in Sides /\ r \in CallRecord /\ CallInv(side, r)
      /\ n = r.next
  <2>1. call[c] \in CallRecord /\ CallInv(side, call[c]) /\ side \in Sides
    BY CallOfInv
  <2>2. phase = "running" /\ n <= Len(FilterPoints(side)) /\ host \in Hosts
    BY DEF RunPoint, IInv, TypeOK
  <2>3. n \in 1 .. 5
    BY <2>1 DEF CallRecord
  <2> HIDE DEF side
  <2>4. QED
    BY <1>a, <2>1, <2>2, <2>3
<1>3. after \in CallRecord /\ CallInv(side, after)
  BY <1>1, <1>2, TracingFilterKeeps
<1>4. last \in CallRecord
  BY <1>b, <1>2, <1>3, MetricsFilterKeeps
<1>5. filter[side].tracer_factory /\ (r.skipped \/ Covered(side, r))
  BY <1>2, <1>a DEF ReadyInv, CoverageInv
<1>6. /\ on \in BOOLEAN /\ (on => host.TRPC_BUILD_INCLUDE_PROMETHEUS)
  BY <1>2 DEF ReadyInv, IInv, TypeOK
<1> DEFINE starts == point \in {"SERVER_PRE_RPC_INVOKE", "CLIENT_PRE_RPC_INVOKE"}
           ends == point \in {"SERVER_POST_RPC_INVOKE", "CLIENT_POST_RPC_INVOKE"}
           first == point \in {"SERVER_POST_RECV_MSG", "CLIENT_PRE_RPC_INVOKE"}
           final == point \in {"SERVER_PRE_SEND_MSG", "CLIENT_POST_RPC_INVOKE"}
<1>7. /\ after.started = r.started /\ after.handled = r.handled
      /\ after.next = r.next /\ after.skipped = r.skipped
      /\ starts => after.begun = r.begun + 1 /\ after.span \in {"noop", "recording"}
      /\ ends => /\ after.begun = r.begun
                 /\ after.span = IF r.span = "recording" THEN "ended" ELSE r.span
      /\ ~starts /\ ~ends => after = r
  BY <1>1, <1>2, <1>5, TracingEffect
<1>8. (starts <=> n = SpanPoint(side)) /\ (ends <=> n = SpanPoint(side) + 1)
  BY <1>2, PointsOfSpan
<1>9. on => /\ first <=> n = 1
            /\ final <=> n = HandledPoint(side)
            /\ n \in {1, HandledPoint(side)} => ForMetrics(side, point)
  BY <1>2, <1>6, PointsOfMetrics
<1>10. /\ last.started = after.started + (IF on /\ first /\ ForMetrics(side, point) THEN 1 ELSE 0)
       /\ last.handled = after.handled + (IF on /\ final /\ ForMetrics(side, point) THEN 1 ELSE 0)
       /\ last.begun = after.begun /\ last.span = after.span
       /\ last.next = after.next /\ last.skipped = after.skipped
  <2>1. after.started \in Nat /\ after.handled \in Nat
    BY <1>3 DEF CallRecord
  <2>2. CASE ForMetrics(side, point)
    BY <1>b, <1>3, <2>2, MetricsEffect
  <2>3. CASE ~ForMetrics(side, point)
    BY <1>b, <2>1, <2>3
  <2>4. QED
    BY <2>2, <2>3
<1>c. PICK new : new = [last EXCEPT !.next = @ + 1]
  OBVIOUS
<1>11. /\ new.started = last.started /\ new.handled = last.handled /\ new.begun = last.begun
       /\ new.span = last.span /\ new.next = n + 1 /\ new.skipped = r.skipped
  BY <1>c, <1>2, <1>4, <1>7, <1>10 DEF CallRecord
<1>12. call'[c] = new
  BY <1>1, <1>b, <1>c DEF IInv, TypeOK
<1>13. SpanPoint(side) \in {1, 2} /\ HandledPoint(side) \in {2, 4}
  BY DEF SpanPoint, HandledPoint
<1> HIDE DEF on, starts, ends, first, final, n, point
<1> SUFFICES ASSUME ~r.skipped PROVE call'[c].skipped \/ Covered(side, call'[c])
  BY <1>11, <1>12
<1>14. /\ new.begun = IF n + 1 > SpanPoint(side) THEN 1 ELSE 0
       /\ new.span \in IF n + 1 <= SpanPoint(side) THEN {"none"}
                       ELSE IF n + 1 = SpanPoint(side) + 1 THEN {"noop", "recording"}
                       ELSE {"noop", "ended"}
  <2>1. /\ r.begun = IF n > SpanPoint(side) THEN 1 ELSE 0
        /\ r.span \in IF n <= SpanPoint(side) THEN {"none"}
                      ELSE IF n = SpanPoint(side) + 1 THEN {"noop", "recording"}
                      ELSE {"noop", "ended"}
    BY <1>2, <1>5 DEF Covered
  <2>2. CASE n < SpanPoint(side)
    BY <1>2, <1>7, <1>8, <1>10, <1>11, <1>13, <2>1, <2>2
  <2>3. CASE n = SpanPoint(side)
    BY <1>2, <1>7, <1>8, <1>10, <1>11, <1>13, <2>1, <2>3
  <2>4. CASE n = SpanPoint(side) + 1
    BY <1>2, <1>7, <1>8, <1>10, <1>11, <1>13, <2>1, <2>4
  <2>5. CASE n > SpanPoint(side) + 1
    BY <1>2, <1>7, <1>8, <1>10, <1>11, <1>13, <2>1, <2>5
  <2>6. QED
    BY <1>2, <1>13, <2>2, <2>3, <2>4, <2>5
<1>15. /\ new.started = IF on /\ n + 1 > 1 THEN 1 ELSE 0
       /\ new.handled = IF on /\ n + 1 > HandledPoint(side) THEN 1 ELSE 0
  <2>1. /\ r.started = IF on /\ n > 1 THEN 1 ELSE 0
        /\ r.handled = IF on /\ n > HandledPoint(side) THEN 1 ELSE 0
    BY <1>2, <1>5 DEF Covered, on
  <2>2. CASE ~on
    BY <1>7, <1>10, <1>11, <2>1, <2>2
  <2>3. CASE on
    BY <1>2, <1>7, <1>9, <1>10, <1>11, <1>13, <2>1, <2>3
  <2>4. QED
    BY <2>2, <2>3
<1>16. Covered(side, new)
  BY <1>11, <1>14, <1>15 DEF Covered, on
<1>17. QED
  BY <1>12, <1>16

LEMMA InitCoverageInv == Init => CoverageInv
<1> SUFFICES ASSUME Init PROVE CoverageInv
  OBVIOUS
<1>1. PICK protocolOf \in [Calls -> Protocols] :
        call = [c \in Calls |-> FreshCall(protocolOf[c])]
  BY DEF Init
<1>2. QED
  BY <1>1 DEF Init, CoverageInv, FreshCall

LEMMA NextCoverageInv == IInv /\ ReadyInv /\ CoverageInv /\ [Next]_vars => CoverageInv'
<1> SUFFICES ASSUME IInv, ReadyInv, CoverageInv, [Next]_vars PROVE CoverageInv'
  OBVIOUS
<1>1. ASSUME NEW c \in Calls, RunPoint(c) \/ SkipPoint(c) PROVE CoverageInv'
  <2>1. phase = "running" /\ UNCHANGED <<node, host, phase, plugin, filter>>
    BY <1>1 DEF RunPoint, SkipPoint, startup
  <2>2. SUFFICES ASSUME plugin = "ready", NEW o \in Calls
                 PROVE  call'[o].skipped \/ Covered(Side(o), call[o])'
    BY <2>1 DEF CoverageInv, Side
  <2>3. CASE o # c
    <3>1. call'[o] = call[o]
      BY <1>1, <2>3 DEF RunPoint, SkipPoint, IInv, TypeOK
    <3>2. call[o].skipped \/ Covered(Side(o), call[o])
      BY <2>1, <2>2 DEF CoverageInv
    <3>3. QED
      BY <2>1, <3>1, <3>2 DEF Covered, SpanPoint, HandledPoint
  <2>4. CASE o = c /\ SkipPoint(c)
    BY <2>4 DEF SkipPoint, IInv, TypeOK
  <2>5. CASE o = c /\ RunPoint(c)
    <3>1. call'[c].skipped \/ Covered(Side(c), call'[c])
      BY <2>2, <2>5, RunPointCovers
    <3>2. QED
      BY <2>1, <2>5, <3>1 DEF Covered, SpanPoint, HandledPoint
  <2>6. QED
    BY <1>1, <2>3, <2>4, <2>5
<1>2. ASSUME phase # "running", UNCHANGED call PROVE CoverageInv'
  <2>1. \A c \in Calls :
          /\ call'[c].next = 1 /\ call'[c].span = "none"
          /\ call'[c].begun = 0 /\ call'[c].started = 0 /\ call'[c].handled = 0
    BY <1>2 DEF CoverageInv
  <2>2. \A c \in Calls : Covered(Side(c), call[c])'
    <3> TAKE c \in Calls
    <3>1. SpanPoint(Side(c))' \in {1, 2} /\ HandledPoint(Side(c))' \in {2, 4}
      BY DEF SpanPoint, HandledPoint
    <3>2. QED
      BY <2>1, <3>1 DEF Covered
  <2>3. QED
    BY <2>1, <2>2 DEF CoverageInv
<1>3. CASE UNCHANGED vars
  BY <1>3 DEF vars, startup, CoverageInv, Covered, SpanPoint, HandledPoint, Side
<1>4. CASE Register \/ ReadConfig \/ InitTracing \/ InitMetrics \/ InitLog
  <2>1. phase # "running" /\ UNCHANGED call
    BY <1>4 DEF Register, ReadConfig, InitTracing, InitMetrics, InitLog
  <2>2. QED
    BY <1>2, <2>1
<1>5. ASSUME NEW side \in Sides,
             InitFilter(side) \/ \E p \in Protocols, f \in Funcs \cup {NoFunc} :
                                   SetCarrierFunc(side, p, f)
      PROVE  CoverageInv'
  <2>1. phase # "running" /\ UNCHANGED call
    BY <1>5 DEF InitFilter, SetCarrierFunc, Starting, Sides
  <2>2. QED
    BY <1>2, <2>1
<1>6. ASSUME NEW l \in Limits, SetMaxStringLength(l) PROVE CoverageInv'
  <2>1. phase # "running" /\ UNCHANGED call
    BY <1>6 DEF SetMaxStringLength, Starting
  <2>2. QED
    BY <1>2, <2>1
<1>7. QED
  BY <1>1, <1>3, <1>4, <1>5, <1>6 DEF Next
-----------------------------------------------------------------------------
(* What is documented, and what was decoded. *)

LEMMA SectionKey ==
  ASSUME NEW n, NEW section, NEW defaults, NEW key \in DOMAIN defaults
  PROVE  Overlay(Section(n, section), defaults)[key] =
           IF section \in DOMAIN n /\ key \in DOMAIN n[section]
           THEN n[section][key] ELSE defaults[key]
<1>1. Overlay(Section(n, section), defaults)[key] =
        IF key \in DOMAIN Section(n, section) THEN Section(n, section)[key] ELSE defaults[key]
  BY DEF Overlay
<1>2. key \notin DOMAIN << >>
  OBVIOUS
<1>3. QED
  BY <1>1, <1>2 DEF Section

LEMMA DocumentedKey ==
  ASSUME node \in Nodes, NEW section, NEW defaults, NEW key \in DOMAIN defaults
  PROVE  Documented(section, key, defaults[key]) = Overlay(Section(node, section), defaults)[key]
BY AbsentAssumption, SectionKey DEF Documented

LEMMA DocumentedIsDecoded ==
  ASSUME node \in Nodes
  PROVE  /\ Documented("metrics", "enabled", FALSE) = Decode(node).metrics.enabled
         /\ Documented("logs", "enabled", FALSE) = Decode(node).logs.enabled
         /\ Documented("logs", "level", "error") = Decode(node).logs.level
         /\ Documented("logs", "enable_sampler", FALSE) = Decode(node).logs.enable_sampler
         /\ Documented("logs", "enable_sampler_error", FALSE)
              = Decode(node).logs.enable_sampler_error
<1>1. /\ Decode(node).metrics = Overlay(Section(node, "metrics"), MetricsConfig)
      /\ Decode(node).logs = Overlay(Section(node, "logs"), LogsConfig)
  BY DecodeSections DEF DecodeMetrics, DecodeLogs
<1>2. /\ "enabled" \in DOMAIN MetricsConfig
      /\ \A key \in {"enabled", "level", "enable_sampler", "enable_sampler_error"} :
           key \in DOMAIN LogsConfig
  BY DEF MetricsConfig, LogsConfig
<1>3. /\ Documented("metrics", "enabled", MetricsConfig["enabled"])
           = Decode(node).metrics["enabled"]
      /\ \A key \in {"enabled", "level", "enable_sampler", "enable_sampler_error"} :
           Documented("logs", key, LogsConfig[key]) = Decode(node).logs[key]
  BY <1>1, <1>2, DocumentedKey
<1>4. /\ MetricsConfig["enabled"] = FALSE /\ LogsConfig["enabled"] = FALSE
      /\ LogsConfig["level"] = "error" /\ LogsConfig["enable_sampler"] = FALSE
      /\ LogsConfig["enable_sampler_error"] = FALSE
  BY DEF MetricsConfig, LogsConfig
<1>5. Documented("metrics", "enabled", FALSE) = Decode(node).metrics.enabled
  BY <1>3, <1>4
<1>6. Documented("logs", "enabled", FALSE) = Decode(node).logs.enabled
  BY <1>3, <1>4
<1>7. Documented("logs", "level", "error") = Decode(node).logs.level
  BY <1>3, <1>4
<1>8. Documented("logs", "enable_sampler", FALSE) = Decode(node).logs.enable_sampler
  BY <1>3, <1>4
<1>9. Documented("logs", "enable_sampler_error", FALSE)
        = Decode(node).logs.enable_sampler_error
  BY <1>3, <1>4
<1>10. QED
  BY <1>5, <1>6, <1>7, <1>8, <1>9

LEMMA CoveredAtTheEnd == IInv /\ ReadyInv /\ CoverageInv => CallIsCovered
<1> SUFFICES ASSUME IInv, ReadyInv, CoverageInv, plugin = "ready", NEW c \in Calls,
                    call[c].next > Len(FilterPoints(Side(c))), ~call[c].skipped
             PROVE  /\ call[c].begun = 1 /\ call[c].span \in {"noop", "ended"}
                    /\ call[c].started = call[c].handled
                    /\ call[c].started = IF /\ host.TRPC_BUILD_INCLUDE_PROMETHEUS
                                            /\ Documented("metrics", "enabled", FALSE)
                                         THEN 1 ELSE 0
  BY DEF CallIsCovered
<1> DEFINE side == Side(c)
           on == host.TRPC_BUILD_INCLUDE_PROMETHEUS
           count == Len(FilterPoints(side))
<1>1. /\ host \in Hosts /\ side \in Sides /\ on \in BOOLEAN
      /\ call[c] \in CallRecord /\ node \in Nodes
  BY CallOfInv, HostSwitches DEF IInv, TypeOK, ReadyInv
<1>2. count \in 2 .. 4 /\ call[c].next \in 1 .. 5
  BY <1>1, FilterPointsLength DEF CallRecord
<1>3. phase = "running"
  <2>1. call[c].next # 1
    BY <1>2
  <2>2. phase # "running" => call[c].next = 1
    BY DEF CoverageInv
  <2>3. QED
    BY <2>1, <2>2
<1>4. /\ Covered(side, call[c])
      /\ filter[side].enabled <=> on /\ Decode(node).metrics.enabled
  BY <1>1, <1>3 DEF CoverageInv, ReadyInv
<1>5. /\ count = SpanPoint(side) + 1 \/ count = SpanPoint(side) + 2
      /\ on => count = HandledPoint(side)
  <2>1. CASE side = "client"
    BY <2>1 DEF FilterPoints, SpanPoint, HandledPoint
  <2>2. CASE side = "server" /\ on
    BY <2>2 DEF FilterPoints, SpanPoint, HandledPoint
  <2>3. CASE side = "server" /\ ~on
    BY <2>3 DEF FilterPoints, SpanPoint, HandledPoint
  <2>4. QED
    BY <1>1, <2>1, <2>2, <2>3 DEF Sides
<1>6. SpanPoint(side) \in {1, 2} /\ HandledPoint(side) \in {2, 4}
  BY DEF SpanPoint, HandledPoint
<1>7. Documented("metrics", "enabled", FALSE) = Decode(node).metrics.enabled
  BY <1>1, DocumentedIsDecoded
<1> DEFINE n == call[c].next
<1>8. n > SpanPoint(side) + 1 /\ n > 1 /\ (on => n > HandledPoint(side))
  <2> HIDE DEF count, on
  <2>1. n > count
    BY DEF count
  <2>2. QED
    BY <1>2, <1>5, <1>6, <2>1
<1>9. filter[side].enabled \in BOOLEAN /\ Decode(node).metrics.enabled \in BOOLEAN
  BY <1>1, NodeAssumption DEF IInv, TypeOK
<1> HIDE DEF n, on
<1>10. call[c].begun = 1 /\ call[c].span \in {"noop", "ended"}
  BY <1>2, <1>4, <1>6, <1>8 DEF Covered, n
<1>11. /\ call[c].started = IF filter[side].enabled THEN 1 ELSE 0
       /\ call[c].handled = IF filter[side].enabled THEN 1 ELSE 0
  BY <1>4, <1>8 DEF Covered, n
<1>12. QED
  BY <1>4, <1>7, <1>10, <1>11 DEF on

LEMMA LevelsCompared ==
  ASSUME NEW level \in Levels
  PROVE  AtLeast(level, "error") <=> level \in {"error", "critical"}
BY LevelNames DEF AtLeast, LevelRank

LEMMA DocumentedLevelIsUsed ==
  ASSUME NEW name \in DocumentedLevels
  PROVE  GetLogLevel(name) = IF name = "fatal" THEN "critical" ELSE name
BY LevelNames DEF DocumentedLevels, GetLogLevel

LEMMA LogsFollowConfiguration == IInv /\ ReadyInv => LogsAsDocumented
<1> SUFFICES ASSUME IInv, ReadyInv, NEW c \in ServerCalls, NEW level \in Levels,
                    host.ENABLE_LOGS_PREVIEW, plugin = "ready",
                    Documented("logs", "level", "error") \in DocumentedLevels,
                    call[c].span # "none"
             PROVE  LET minimum == Documented("logs", "level", "error")
                    IN  Emitted(c, level) <=>
                          /\ Documented("logs", "enabled", FALSE)
                          /\ AtLeast(level, IF minimum = "fatal" THEN "critical" ELSE minimum)
                          /\ \/ ~Documented("logs", "enable_sampler", FALSE)
                             \/ call[c].sampled
                             \/ /\ Documented("logs", "enable_sampler_error", FALSE)
                                /\ level \in {"error", "critical"}
  BY DEF LogsAsDocumented
<1> DEFINE logs == Decode(node).logs
<1>1. node \in Nodes
  BY DEF ReadyInv
<1>2. /\ Documented("logs", "enabled", FALSE) = logs.enabled
      /\ Documented("logs", "level", "error") = logs.level
      /\ Documented("logs", "enable_sampler", FALSE) = logs.enable_sampler
      /\ Documented("logs", "enable_sampler_error", FALSE) = logs.enable_sampler_error
  BY <1>1, DocumentedIsDecoded
<1>3. /\ logs.enabled \in BOOLEAN /\ logs.enable_sampler \in BOOLEAN
      /\ logs.enable_sampler_error \in BOOLEAN
  BY <1>1, NodeAssumption
<1>4. HasServerTracingSpan(c)
  BY DEF HasServerTracingSpan, InFactory
<1>5. CASE ~logs.enabled
  <2>1. ~instance.sink
    BY <1>5 DEF ReadyInv
  <2>2. ~Emitted(c, level)
    BY <2>1 DEF Emitted, ReachesSink
  <2>3. QED
    BY <1>2, <1>5, <2>2
<1>6. CASE logs.enabled
  <2>1. /\ part["log"] = "ready"
        /\ instance.min_level = GetLogLevel(logs.level) /\ instance.sink
    BY <1>6 DEF ReadyInv
  <2>2. ConfigOf("log").logs = logs
    BY <2>1 DEF ConfigOf
  <2>3. Emitted(c, level) <=>
          AtLeast(level, GetLogLevel(logs.level)) /\ ShouldReport(ConfigOf("log"), level, call[c].sampled)
    BY <1>4, <2>1 DEF Emitted, ReachesSink
  <2>4. ShouldReport(ConfigOf("log"), level, call[c].sampled) <=>
          \/ ~logs.enable_sampler
          \/ call[c].sampled
          \/ logs.enable_sampler_error /\ level \in {"error", "critical"}
    BY <1>3, <2>2, LevelsCompared DEF ShouldReport
  <2>5. GetLogLevel(logs.level) = IF logs.level = "fatal" THEN "critical" ELSE logs.level
    BY <1>2, DocumentedLevelIsUsed
  <2> HIDE DEF logs
  <2>6. QED
    BY <1>2, <1>6, <2>3, <2>4, <2>5
<1>7. QED
  BY <1>3, <1>5, <1>6

\* What a ready plugin is and how far its calls have come hold throughout.
THEOREM ReadyInvariance == Spec => [](ReadyInv /\ CoverageInv)
<1>1. Init => ReadyInv /\ CoverageInv
  BY InitReadyInv, InitCoverageInv
<1>2. IInv /\ (ReadyInv /\ CoverageInv) /\ [Next]_vars => (ReadyInv /\ CoverageInv)'
  BY NextReadyInv, NextCoverageInv
<1>3. QED
  BY <1>1, <1>2, LifecycleInvariance, PTL DEF Spec

\* Every call that passes all points of its wrapper has one span, settled, and is
\* counted once at either end exactly if metrics are compiled in and enabled.
THEOREM CallsAreCovered == Spec => []CallIsCovered
BY ReadyInvariance, LifecycleInvariance, CoveredAtTheEnd, PTL

\* The sink reports a record of a server call with a span exactly if the
\* configuration says so, for every level README.md lists.
THEOREM LogsFollowTheDocument == Spec => []LogsAsDocumented
BY ReadyInvariance, LifecycleInvariance, LogsFollowConfiguration, PTL
=============================================================================
