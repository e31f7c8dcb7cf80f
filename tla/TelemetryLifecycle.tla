------------------------- MODULE TelemetryLifecycle -------------------------
(***************************************************************************)
(* The plugin as a whole: registration and Init of its parts               *)
(* (opentelemetry_telemetry.cc, opentelemetry_telemetry_api.cc), Init and  *)
(* dispatch of the filters (opentelemetry_server_filter.cc,                *)
(* opentelemetry_client_filter.cc and the four filters they wrap), what    *)
(* users register before calls start, and what a call and its logs then    *)
(* meet, with every part ready or not.                                     *)
(*                                                                         *)
(* What the framework does when an Init fails is not this plugin's: the    *)
(* process stops, or goes on with the plugin in its factory or without it. *)
(* The documentation has users register carriers and limits at start-up.   *)
(* Start, Stop and Destroy only pass the call on to parts that do nothing  *)
(* in it.                                                                  *)
(*                                                                         *)
(* A definition just above another one with the same parameters is a       *)
(* plausible wrong version of it, used to try the properties out.          *)
(***************************************************************************)
EXTENDS OpenTelemetryLogging, Sequences

CONSTANTS Nodes,          \* YAML nodes of the plugin
          Absent,         \* no such node: GetPluginConfig fails
          Hosts,          \* how the plugin was built, and where it runs
          ServerCalls, ClientCalls,
          Protocols,      \* codec names
          Funcs,          \* carrier functions of users
          NoFunc,         \* a carrier function that is empty
          Limits,         \* lengths users pass to SetMaxStringLength
          Lengths,        \* lengths of JSON bodies
          kDefaultMaxStringLength, SuffixLength,
          SizeModulus     \* 2 to the width of size_t

ASSUME AbsentAssumption == Absent \notin Nodes
\* as<bool>() of a value that is no boolean throws.
ASSUME NodeAssumption ==
  \A n \in Nodes :
    /\ Decode(n).metrics.enabled \in BOOLEAN /\ Decode(n).logs.enabled \in BOOLEAN
    /\ Decode(n).logs.enable_sampler \in BOOLEAN
    /\ Decode(n).logs.enable_sampler_error \in BOOLEAN
    /\ Decode(n).traces.disable_trace_body \in BOOLEAN
    /\ Decode(n).traces.enable_deferred_sample \in BOOLEAN
    /\ Decode(n).traces.deferred_sample_error \in BOOLEAN
ASSUME FuncAssumption ==
  /\ NoFunc \notin Funcs \cup {"TransInfoCarrierFunc", "HttpCarrierFunc"}
  /\ "unused" \notin Funcs \cup {NoFunc}
ASSUME HostAssumption ==
  Hosts \subseteq [ENABLE_LOGS_PREVIEW : BOOLEAN,
                   TRPC_BUILD_INCLUDE_PROMETHEUS : BOOLEAN,
                   logFactory : BOOLEAN]
ASSUME CallAssumption == ServerCalls \cap ClientCalls = {}
ASSUME LengthAssumption ==
  /\ SizeModulus \in Nat /\ SuffixLength \in Nat
  /\ kDefaultMaxStringLength \in SuffixLength .. SizeModulus - 1
  /\ Limits \cup Lengths \subseteq 0 .. SizeModulus - 1

VARIABLES node,       \* the plugin's node in the configuration file
          host,
          phase,      \* what the framework is about to initialise
          plugin,     \* the telemetry plugin: in the factory or not, ready or not
          part,       \* its parts
          instance,   \* the logger instance of the framework
          filter,     \* the members of the wrapped filters
          carriers,   \* the carrier functions registered
          chosen,     \* for the properties, the carrier functions users chose
                      \* last, unless Init of the filter came later
          maxLength,  \* max_string_length
          call

startup == <<phase, plugin, part, instance, filter>>
settings == <<carriers, chosen, maxLength>>
vars == <<node, host, startup, settings, call>>

Sides == {"server", "client"}
Calls == ServerCalls \cup ClientCalls
Side(c) == IF c \in ServerCalls THEN "server" ELSE "client"

Parts == {"tracing", "metrics", "log"}
CarrierFuncs == Funcs \cup {"TransInfoCarrierFunc", "HttpCarrierFunc", NoFunc}

NoInstance == [min_level |-> "critical", sink |-> FALSE]

\* use_grpc_reported_ is the protocol of BatchExport.
FreshFilter ==
  [tracer_factory |-> FALSE, disable_trace_body |-> TRUE,
   deferred_sample_error |-> FALSE, enabled |-> FALSE]

\* next is the index of the filter point that comes next.  begun, started and
\* handled count the spans started and the reports made; body is the length of
\* the body reported.
FreshCall(protocol) ==
  [protocol |-> protocol, next |-> 1, skipped |-> FALSE,
   span |-> "none", sampled |-> FALSE, carrier |-> "unused",
   begun |-> 0, body |-> 0, started |-> 0, handled |-> 0]

\* Types of the state; min_level is a level of the framework.
TypeOK ==
  /\ node \in Nodes \cup {Absent} /\ host \in Hosts
  /\ phase \in {"register", "config", "tracing", "metrics", "log", "server", "client",
                "running", "stopped"}
  /\ plugin \in {"unregistered", "registered", "ready", "dropped"}
  /\ part \in [Parts -> {"fresh", "read", "ready"}]
  /\ instance \in [min_level : Levels, sink : BOOLEAN]
  /\ filter \in [Sides -> [tracer_factory : BOOLEAN, disable_trace_body : BOOLEAN,
                           deferred_sample_error : BOOLEAN, enabled : BOOLEAN]]
  /\ carriers \in [Sides -> [Protocols -> CarrierFuncs]]
  /\ chosen \in [Sides -> [Protocols -> Funcs \cup {NoFunc}]]
  /\ maxLength \in Nat
  /\ call \in [Calls -> [protocol : Protocols, next : 1 .. 5, skipped : BOOLEAN,
                         span : {"none", "noop", "recording", "ended"},
                         sampled : BOOLEAN, carrier : CarrierFuncs \cup {"unused"},
                         begun : Nat, body : Nat, started : Nat, handled : Nat]]

\* GetServerCarrierFunc and GetClientCarrierFunc give the transinfo function for
\* a protocol nobody registered one for.
NoCarriers == [s \in Sides |-> [p \in Protocols |-> "TransInfoCarrierFunc"]]
NothingChosen == [s \in Sides |-> [p \in Protocols |-> NoFunc]]

Init ==
  /\ node \in Nodes \cup {Absent} /\ host \in Hosts
  /\ phase = "register" /\ plugin = "unregistered"
  /\ part = [p \in Parts |-> "fresh"]
  /\ instance = NoInstance
  /\ filter = [s \in Sides |-> FreshFilter]
  /\ carriers = NoCarriers /\ chosen = NothingChosen
  /\ maxLength = kDefaultMaxStringLength
  /\ \E protocolOf \in [Calls -> Protocols] :
       call = [c \in Calls |-> FreshCall(protocolOf[c])]

\* config_ of a part: the defaults until its Init has read the configuration.
ConfigOf(p) == IF part[p] = "fresh" THEN DefaultConfig ELSE Decode(node)
-----------------------------------------------------------------------------
(* Registration and the Init of the telemetry plugin, in order. *)

\* trpc::opentelemetry::Init
Register ==
  /\ phase = "register"
  /\ phase' = "config" /\ plugin' = "registered"
  /\ UNCHANGED <<node, host, part, instance, filter, settings, call>>

\* Init goes on with the next part, or it returns 0 and the filters follow.
GoOn(next) ==
  /\ phase' = next
  /\ plugin' = IF next = "server" THEN "ready" ELSE plugin

\* Init returns -1 and the framework stops or initialises the filters.
Fail ==
  /\ phase' \in {"server", "stopped"}
  /\ plugin' \in {"registered", "dropped"}

\* The parts that were compiled in follow each other.
AfterMetrics == IF host.ENABLE_LOGS_PREVIEW THEN "log" ELSE "server"
AfterTracing == IF host.TRPC_BUILD_INCLUDE_PROMETHEUS THEN "metrics" ELSE AfterMetrics

ReadConfig ==
  /\ phase = "config"
  /\ IF node = Absent THEN Fail ELSE GoOn("tracing")
  /\ UNCHANGED <<node, host, part, instance, filter, settings, call>>

\* GetExporter of the traces and of the logs: both go by the same protocol.
ExporterExists == Decode(node).protocol \in {"http", "grpc"}

InitTracing ==
  /\ phase = "tracing"
  /\ part' = [part EXCEPT !.tracing = IF ExporterExists THEN "ready" ELSE "read"]
  /\ IF ExporterExists THEN GoOn(AfterTracing) ELSE Fail
  /\ UNCHANGED <<node, host, instance, filter, settings, call>>

\* OpenTelemetryMetrics::Init; it makes the families if metrics are enabled.
InitMetrics ==
  /\ phase = "metrics"
  /\ part' = [part EXCEPT !.metrics = "ready"]
  /\ GoOn(AfterMetrics)
  /\ UNCHANGED <<node, host, instance, filter, settings, call>>

LogInitForgotten ==
  /\ phase = "log"
  /\ IF host.logFactory
     THEN /\ GoOn("server")
          /\ instance' = IF Decode(node).logs.enabled
                         THEN [min_level |-> GetLogLevel(Decode(node).logs.level), sink |-> TRUE]
                         ELSE NoInstance
     ELSE Fail /\ UNCHANGED instance
  /\ UNCHANGED <<node, host, part, filter, settings, call>>

\* InitLog: the logging plugin is initialised and becomes the sink of a logger
\* instance only if logs are enabled; otherwise the instance has no sink.  Its
\* own exporter cannot fail any more: the traces had one for the same protocol.
InitLog ==
  /\ phase = "log"
  /\ LET logs == Decode(node).logs
     IN  CASE ~host.logFactory -> Fail /\ UNCHANGED <<part, instance>>
           [] host.logFactory /\ ~logs.enabled ->
                GoOn("server") /\ instance' = NoInstance /\ UNCHANGED part
           [] host.logFactory /\ logs.enabled ->
                /\ GoOn("server") /\ part' = [part EXCEPT !.log = "ready"]
                /\ instance' = [min_level |-> GetLogLevel(logs.level), sink |-> TRUE]
  /\ UNCHANGED <<node, host, filter, settings, call>>
-----------------------------------------------------------------------------
(* Init of the filters. *)

\* What TelemetryFactory::Get finds.
InFactory == plugin \in {"registered", "ready"}

\* Init of a tracing filter: the options that matter to it.
TracingFilterOptions(members) ==
  LET traces == ConfigOf("tracing").traces
  IN  [members EXCEPT
         !.tracer_factory = TRUE,
         !.disable_trace_body = traces.disable_trace_body,
         !.deferred_sample_error =
            traces.enable_deferred_sample /\ traces.deferred_sample_error]

\* Init of a metrics filter, if there is one.
MetricsFilterOptions(members) ==
  IF host.TRPC_BUILD_INCLUDE_PROMETHEUS
  THEN [members EXCEPT !.enabled = ConfigOf("metrics").metrics.enabled]
  ELSE members

\* Init of a wrapper: first its tracing filter, which sets the carrier functions
\* of two protocols whatever the user set before, then its metrics filter.
\* Without the plugin the first Init fails and the second is not reached.
InitFilter(side) ==
  /\ phase = side
  /\ phase' \in {IF side = "server" THEN "client" ELSE "running"}
                  \cup (IF InFactory THEN {} ELSE {"stopped"})
  /\ IF InFactory
     THEN /\ filter' = [filter EXCEPT ![side] = MetricsFilterOptions(TracingFilterOptions(@))]
          /\ carriers' = [carriers EXCEPT ![side] =
               [p \in Protocols |-> CASE p = "trpc" -> "TransInfoCarrierFunc"
                                      [] p = "http" -> "HttpCarrierFunc"
                                      [] OTHER -> @[p]]]
          /\ chosen' = [chosen EXCEPT ![side] =
               [p \in Protocols |-> IF p \in {"trpc", "http"} THEN NoFunc ELSE @[p]]]
     ELSE UNCHANGED <<filter, carriers, chosen>>
  /\ UNCHANGED <<node, host, plugin, part, instance, maxLength, call>>
-----------------------------------------------------------------------------
(* What users register while the process starts. *)

Starting == phase \notin {"running", "stopped"}

\* An empty function is refused.
SettableFunc(func) == func # NoFunc

\* A registry that keeps what is in it.
EmplaceCarrierFunc(side, protocol, func) ==
  /\ Starting /\ SettableFunc(func)
  /\ carriers' = [carriers EXCEPT ![side][protocol] =
                    IF @ = "TransInfoCarrierFunc" THEN func ELSE @]
  /\ chosen' = [chosen EXCEPT ![side][protocol] = func]
  /\ UNCHANGED <<node, host, startup, maxLength, call>>

\* SetServerCarrierFunc and SetClientCarrierFunc
SetCarrierFunc(side, protocol, func) ==
  /\ Starting /\ SettableFunc(func)
  /\ carriers' = [carriers EXCEPT ![side][protocol] = func]
  /\ chosen' = [chosen EXCEPT ![side][protocol] = func]
  /\ UNCHANGED <<node, host, startup, maxLength, call>>

SetAnyLength(limit) == TRUE

\* A limit that does not leave room for the suffix is refused.
SettableLength(limit) == limit >= SuffixLength

SetMaxStringLength(limit) ==
  /\ Starting /\ SettableLength(limit)
  /\ maxLength' = limit
  /\ UNCHANGED <<node, host, startup, carriers, chosen, call>>
-----------------------------------------------------------------------------
(* Calls. *)

OnlyTracingPoints(side) ==
  IF side = "server" THEN <<"SERVER_PRE_RPC_INVOKE", "SERVER_POST_RPC_INVOKE">>
  ELSE <<"CLIENT_PRE_RPC_INVOKE", "CLIENT_POST_RPC_INVOKE">>

\* GetFilterPoint of the wrappers, in the order the framework visits them.
FilterPoints(side) ==
  CASE side = "client" -> <<"CLIENT_PRE_RPC_INVOKE", "CLIENT_POST_RPC_INVOKE">>
    [] side = "server" /\ ~host.TRPC_BUILD_INCLUDE_PROMETHEUS ->
         <<"SERVER_PRE_RPC_INVOKE", "SERVER_POST_RPC_INVOKE">>
    [] side = "server" /\ host.TRPC_BUILD_INCLUDE_PROMETHEUS ->
         <<"SERVER_POST_RECV_MSG", "SERVER_PRE_RPC_INVOKE",
           "SERVER_POST_RPC_INVOKE", "SERVER_PRE_SEND_MSG">>

\* NewSpan: the carrier function is looked up and used; without an initialised
\* provider the tracer gives spans that do nothing, as it does for a span that is
\* neither sampled nor recorded.
NewSpan(side, c) ==
  LET provided == part["tracing"] = "ready"
      deferred == provided /\ ConfigOf("tracing").traces.enable_deferred_sample
  IN  {[c EXCEPT !.begun = @ + 1, !.carrier = carriers[side][c.protocol],
                 !.sampled = sampled,
                 !.span = IF sampled \/ deferred THEN "recording" ELSE "noop"] :
         sampled \in IF provided THEN BOOLEAN ELSE {FALSE}}

\* GetMsgJsonData: the difference is one of size_t and wraps below zero.
ReportedLength(length) ==
  LET room == maxLength - SuffixLength
      kept == IF room < 0 THEN room + SizeModulus ELSE room
  IN  IF length <= maxLength THEN length
      ELSE (IF length < kept THEN length ELSE kept) + SuffixLength

NeedReportReqRsp(side, c, failed) ==
  /\ ~filter[side].disable_trace_body
  /\ c.sampled \/ (filter[side].deferred_sample_error /\ failed)

\* The span with the bodies of protobuf messages added, ended.
EndedSpan(side, c, failed, length) ==
  [c EXCEPT !.span = "ended",
            !.body = IF NeedReportReqRsp(side, c, failed) THEN ReportedLength(length) ELSE 0]

\* FinishSpan: nothing without a span that records.
FinishSpan(side, c) ==
  IF c.span # "recording" THEN {c}
  ELSE {EndedSpan(side, c, failed, length) : failed \in BOOLEAN, length \in Lengths}

TracingFilter(side, point, c) ==
  IF ~filter[side].tracer_factory THEN {c}
  ELSE CASE point \in {"SERVER_PRE_RPC_INVOKE", "CLIENT_PRE_RPC_INVOKE"} -> NewSpan(side, c)
         [] point \in {"SERVER_POST_RPC_INVOKE", "CLIENT_POST_RPC_INVOKE"} -> FinishSpan(side, c)
         [] OTHER -> {c}

MetricsFilter(side, point, c) ==
  IF ~filter[side].enabled THEN c
  ELSE CASE point \in {"SERVER_POST_RECV_MSG", "CLIENT_PRE_RPC_INVOKE"} ->
              [c EXCEPT !.started = @ + 1]
         [] point \in {"SERVER_PRE_SEND_MSG", "CLIENT_POST_RPC_INVOKE"} ->
              [c EXCEPT !.handled = @ + 1]
         [] OTHER -> c

ForTracing(point) ==
  point \in {"SERVER_PRE_RPC_INVOKE", "SERVER_POST_RPC_INVOKE",
             "CLIENT_PRE_RPC_INVOKE", "CLIENT_POST_RPC_INVOKE"}
ForMetrics(side, point) ==
  /\ host.TRPC_BUILD_INCLUDE_PROMETHEUS
  /\ side = "client" \/ point \in {"SERVER_POST_RECV_MSG", "SERVER_PRE_SEND_MSG"}

\* operator() of a wrapper at the next point of a call.
RunPoint(c) ==
  LET side == Side(c)
      points == FilterPoints(side)
      point == points[call[c].next]
      traced == IF ForTracing(point) THEN TracingFilter(side, point, call[c])
                ELSE {call[c]}
  IN  /\ phase = "running" /\ call[c].next <= Len(points)
      /\ \E after \in traced :
           call' = [call EXCEPT ![c] =
             [(IF ForMetrics(side, point) THEN MetricsFilter(side, point, after) ELSE after)
                EXCEPT !.next = @ + 1]]
      /\ UNCHANGED <<node, host, startup, settings>>

\* Another filter rejected the call, or there is nothing to send: the framework
\* leaves a point out.
SkipPoint(c) ==
  /\ phase = "running" /\ call[c].next <= Len(FilterPoints(Side(c)))
  /\ call' = [call EXCEPT ![c].next = @ + 1, ![c].skipped = TRUE]
  /\ UNCHANGED <<node, host, startup, settings>>
-----------------------------------------------------------------------------
(* Logs of a call, made through the plugin's logger instance. *)

\* OpenTelemetryLogging::GetServerTracingSpan finds the span of a server call; a
\* client context holds data of another type under the same index.
HasServerTracingSpan(c) == InFactory /\ c \in ServerCalls /\ call[c].span # "none"

\* The framework hands a record to the sink.
ReachesSink(level) == instance.sink /\ AtLeast(level, instance.min_level)

\* OpenTelemetryLogging::Log emits the record.
Emitted(c, level) ==
  /\ ReachesSink(level) /\ HasServerTracingSpan(c)
  /\ ShouldReport(ConfigOf("log"), level, call[c].sampled)
-----------------------------------------------------------------------------
Next ==
  \/ Register \/ ReadConfig \/ InitTracing \/ InitMetrics \/ InitLog
  \/ \E side \in Sides :
       \/ InitFilter(side)
       \/ \E p \in Protocols, f \in Funcs \cup {NoFunc} : SetCarrierFunc(side, p, f)
  \/ \E l \in Limits : SetMaxStringLength(l)
  \/ \E c \in Calls : RunPoint(c) \/ SkipPoint(c)

Spec == Init /\ [][Next]_vars
-----------------------------------------------------------------------------
(* What the plugin promises, whatever was configured and whichever Init failed. *)

\* A key of a section as README.md documents it: its value or its default.
Documented(section, key, default) ==
  IF node # Absent /\ section \in DOMAIN node /\ key \in DOMAIN node[section]
  THEN node[section][key] ELSE default

\* No call and no log meets a part that was not initialised: a record that the
\* sink gets finds its logger, a metrics filter that reports finds the families,
\* and no carrier function in use is empty.
NothingUninitialisedIsUsed ==
  /\ instance.sink => part["log"] = "ready"
  /\ \A s \in Sides :
       filter[s].enabled => part["metrics"] = "ready" /\ ConfigOf("metrics").metrics.enabled
  /\ \A c \in Calls : call[c].carrier # NoFunc

\* A call that passes all its points has one span, settled at the end, and is
\* counted once as started and once as handled if metrics are compiled in and
\* enabled (README.md:208): the points a wrapper asks for and the ones it passes
\* on fit together on either side.
CallIsCovered ==
  \A c \in Calls :
    call[c].next > Len(FilterPoints(Side(c))) /\ ~call[c].skipped /\ plugin = "ready" =>
      /\ call[c].begun = 1 /\ call[c].span \in {"noop", "ended"}
      /\ call[c].started = call[c].handled
      /\ call[c].started = IF /\ host.TRPC_BUILD_INCLUDE_PROMETHEUS
                              /\ Documented("metrics", "enabled", FALSE)
                           THEN 1 ELSE 0

\* The values README.md:213 lists for logs:level.
DocumentedLevels == {"trace", "debug", "info", "warn", "error", "fatal"}

\* A record of a call with a span is reported exactly when README.md:651-655 says
\* so, with the defaults of README.md:212-215.
LogsAsDocumented ==
  \A c \in ServerCalls, level \in Levels :
    LET minimum == Documented("logs", "level", "error")
        wanted == /\ Documented("logs", "enabled", FALSE)
                  /\ AtLeast(level, IF minimum = "fatal" THEN "critical" ELSE minimum)
                  /\ \/ ~Documented("logs", "enable_sampler", FALSE)
                     \/ call[c].sampled
                     \/ /\ Documented("logs", "enable_sampler_error", FALSE)
                        /\ level \in {"error", "critical"}
    IN  /\ host.ENABLE_LOGS_PREVIEW /\ plugin = "ready"
        /\ minimum \in DocumentedLevels /\ call[c].span # "none"
        => (Emitted(c, level) <=> wanted)

\* The last choice of a user, if Init of the filter did not register its own
\* function afterwards, otherwise the plugin's: transinfo for every protocol but
\* http (README.md:435).
StandingFunc(side, protocol) ==
  IF chosen[side][protocol] # NoFunc THEN chosen[side][protocol]
  ELSE IF protocol = "http" THEN "HttpCarrierFunc" ELSE "TransInfoCarrierFunc"

\* Of all the functions that users and Init of the filters registered for the
\* protocol of a call, in whatever order, the call uses the one that stands: the
\* choice made last, never an earlier one, and for trpc and http also one that was
\* made after Init.
CarrierStands ==
  \A c \in Calls :
    call[c].carrier # "unused" =>
      call[c].carrier = StandingFunc(Side(c), call[c].protocol)

\* A body is reported only if the configuration asks for it (README.md:202), in
\* a degraded process too, and never longer than the limit in force.
BodyIsWanted ==
  \A c \in Calls :
    call[c].body > 0 =>
      /\ ~Documented("traces", "disable_trace_body", TRUE)
      /\ call[c].body <= maxLength

\* README.md:216 calls logs:resources the resource attributes of the logs.
LogResourcesAsConfigured ==
  part["log"] = "ready" =>
    Documented("logs", "resources", {}) \subseteq LogResources(ConfigOf("log"))
=============================================================================
