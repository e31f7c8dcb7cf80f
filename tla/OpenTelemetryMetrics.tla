------------------------ MODULE OpenTelemetryMetrics ------------------------
(***************************************************************************)
(* The metrics plugin (metrics/opentelemetry_metrics.cc), its two filters  *)
(* (metrics/server_filter.cc, metrics/client_filter.cc), the classes of    *)
(* return codes (metrics/common.cc) and the reporting interface for users  *)
(* (metrics/opentelemetry_metrics_api.cc).                                 *)
(*                                                                         *)
(* Every metric of the prometheus library locks itself, so one report is   *)
(* one step.  The second filter point makes two reports, between which     *)
(* other calls make theirs.  Metrics keep nothing in a context: a client   *)
(* context that is used again is another call here.  Values, descriptions  *)
(* and latencies are left out.                                             *)
(* A definition just above another one with the same parameters is a       *)
(* plausible wrong version of it, used to try the properties out.          *)
(***************************************************************************)
EXTENDS Integers, Sequences, FiniteSets, FiniteSetsExt, BagsExt

CONSTANTS INT_MAX,                   \* the largest int, 2^31 - 1 in the code
          ServerCalls, ClientCalls,
          Names,     \* who calls whom: the names in the contexts of the calls
          Statuses,  \* [framework, func] return codes
          Configs,   \* values of the plugin's configuration
          Labels,    \* label sets of user metrics
          Shapes     \* valid quantiles, or bucket bounds, users ask for

Types == {"success", "timeout", "exception"}

ASSUME IntAssumption == INT_MAX \in Nat
ASSUME CallsAssumption ==
  ServerCalls \cap ClientCalls = {} /\ IsFiniteSet(ServerCalls \cup ClientCalls)
ASSUME NamesAssumption ==
  \A n \in Names :
    DOMAIN n = {"caller_service", "caller_method", "callee_service", "callee_method"}
ASSUME ConfigAssumption ==
  \A c \in Configs :
    /\ c.enabled \in BOOLEAN
    /\ c.codes \in Seq([code : Nat, type : STRING, service : STRING, method : STRING])

VARIABLES plugin,    \* how far the telemetry plugin has come
          config,    \* what Init reads
          call,      \* the calls the filters see
          families,  \* the families of the module report: bags of label sets
          attr,      \* the four families of user metrics
          report     \* the last report of a user

vars == <<plugin, config, call, families, attr, report>>

Calls == ServerCalls \cup ClientCalls
Items == {"gauge", "counter", "summary", "histogram"}
Unset == [shape |-> "none", count |-> 0]

NoStatus == [framework |-> 0, func |-> 0]
Families == {"client_started_total", "client_handled_total", "client_handled_seconds",
             "server_started_total", "server_handled_total", "server_handled_seconds"}

Init ==
  /\ plugin = "absent"
  /\ config \in Configs
  /\ call \in [Calls -> [phase : {"new"}, started : {FALSE}, names : Names,
                         status : {NoStatus}]]
  /\ families = [f \in Families |-> <<>>]
  /\ attr = [item \in Items |-> [l \in Labels |-> Unset]]
  /\ report = [policy |-> "none", labels |-> {}, shape |-> "none", result |-> "none"]

\* config_ of an object whose Init has not run has metrics disabled, and only
\* an Init that finds them enabled makes the families.
Enabled == plugin = "ready" /\ config.enabled
-----------------------------------------------------------------------------
(* Classes of return codes. *)

\* A code is configured as a uint64_t and becomes the int key of user_code_map.
ToInt(code) ==
  LET low == code % (2 * (INT_MAX + 1))
  IN  IF low <= INT_MAX THEN low ELSE low - 2 * (INT_MAX + 1)

AnyTypeRules(code) == {i \in DOMAIN config.codes : ToInt(config.codes[i].code) = code}

\* user_code_map[code], as InitUserCodeMap fills it: the positions of its rules.
UserRules(code) ==
  {i \in DOMAIN config.codes :
     config.codes[i].type \in Types /\ ToInt(config.codes[i].code) = code}

\* The empty name matches every service or method.
IsMatchUserDefine(rule, service, method) ==
  rule.service \in {"", service} /\ rule.method \in {"", method}

\* default_code_map, anything else is an exception.
SetCallResultByDefault(code) ==
  CASE code = 0 -> "success"
    [] code \in {21, 24, 101, 102} -> "timeout"
    [] OTHER -> "exception"

NoFallThrough(code, service, method) ==
  LET first == config.codes[Min(UserRules(code))]
  IN  IF UserRules(code) = {} THEN SetCallResultByDefault(code)
      ELSE IF IsMatchUserDefine(first, service, method) THEN first.type ELSE "exception"

\* The first rule that matches decides.
CodeType(code, service, method) ==
  LET matching == {i \in UserRules(code) : IsMatchUserDefine(config.codes[i], service, method)}
  IN  IF matching = {} THEN SetCallResultByDefault(code) ELSE config.codes[Min(matching)].type

SetCallResult(code, infos) ==
  [caller_service |-> infos.caller_service, caller_method |-> infos.caller_method,
   callee_service |-> infos.callee_service, callee_method |-> infos.callee_method,
   code |-> code, code_type |-> CodeType(code, infos.callee_service, infos.callee_method)]
-----------------------------------------------------------------------------
(* The module report of the two filters. *)

HandledSwapped ==
  [kClientStartedCount |-> "client_started_total",
   kClientHandledCount |-> "client_handled_total",
   kClientHandledTime  |-> "server_handled_seconds",
   kServerStartedCount |-> "server_started_total",
   kServerHandledCount |-> "server_handled_total",
   kServerHandledTime  |-> "client_handled_seconds"]

\* Which family the function registered for a type of report adds to.
ModuleReportMap ==
  [kClientStartedCount |-> "client_started_total",
   kClientHandledCount |-> "client_handled_total",
   kClientHandledTime  |-> "client_handled_seconds",
   kServerStartedCount |-> "server_started_total",
   kServerHandledCount |-> "server_handled_total",
   kServerHandledTime  |-> "server_handled_seconds"]

ModuleReport(type, infos) ==
  families' = IF Enabled
              THEN [families EXCEPT ![ModuleReportMap[type]] = BagAdd(@, infos)]
              ELSE families

\* A server does not know the method its caller runs.
Infos(c) ==
  IF c \in ServerCalls THEN [call[c].names EXCEPT !.caller_method = ""]
                       ELSE call[c].names

\* SERVER_POST_RECV_MSG, CLIENT_PRE_RPC_INVOKE.
ReportStartedTotal(c) ==
  /\ plugin = "ready" /\ call[c].phase = "new"
  /\ call' = [call EXCEPT ![c] = [@ EXCEPT !.phase = "started", !.started = TRUE]]
  /\ ModuleReport(IF c \in ServerCalls THEN "kServerStartedCount"
                                       ELSE "kClientStartedCount", Infos(c))
  /\ UNCHANGED <<plugin, config, attr, report>>

\* SERVER_PRE_SEND_MSG, CLIENT_POST_RPC_INVOKE.  A call that an earlier filter
\* rejected comes here without the first point.
ReportHandledSeconds(c) ==
  /\ plugin = "ready" /\ call[c].phase \in {"new", "started"}
  /\ call' = [call EXCEPT ![c].phase = "timed"]
  /\ ModuleReport(IF c \in ServerCalls THEN "kServerHandledTime"
                                       ELSE "kClientHandledTime", Infos(c))
  /\ UNCHANGED <<plugin, config, attr, report>>

FrameworkOnly(status) == status.framework

\* What the framework says goes before what the function returned.
RetCode(status) == IF status.framework = 0 THEN status.func ELSE status.framework

\* The rest of that point.
ReportHandledTotal(c) ==
  /\ plugin = "ready" /\ call[c].phase = "timed"
  /\ \E status \in Statuses :
       /\ call' = [call EXCEPT ![c] = [@ EXCEPT !.phase = "handled", !.status = status]]
       /\ ModuleReport(IF c \in ServerCalls THEN "kServerHandledCount"
                                            ELSE "kClientHandledCount",
                       SetCallResult(RetCode(status), Infos(c)))
  /\ UNCHANGED <<plugin, config, attr, report>>
-----------------------------------------------------------------------------
(* User metrics. *)

Policies == {"SET", "SUM", "MID", "QUANTILES", "HISTOGRAM"}

\* What a user can pass with a policy.  MID brings its own quantiles; quantiles
\* can be none or not be pairs, buckets can be none.
ShapesFor(policy) ==
  CASE policy = "MID"       -> {"median"}
    [] policy = "QUANTILES" -> {"empty", "malformed"} \cup Shapes
    [] policy = "HISTOGRAM" -> {"empty"} \cup Shapes
    [] OTHER -> {"none"}

Item(policy) ==
  CASE policy = "SET" -> "gauge"
    [] policy = "SUM" -> "counter"
    [] policy \in {"MID", "QUANTILES"} -> "summary"
    [] OTHER -> "histogram"

\* Family::Add and an observation: the metric of a label set is made on its
\* first use, and a later Add finds it and drops the shape it was given.
Observe(policy, labels, shape) ==
  attr' = [attr EXCEPT ![Item(policy)][labels] =
            [shape |-> IF @.count = 0 THEN shape ELSE @.shape, count |-> @.count + 1]]

Answer(policy, labels, shape, result) ==
  report' = [policy |-> policy, labels |-> labels, shape |-> shape, result |-> result]

AddBeforeCheck(policy, labels, shape) ==
  /\ Enabled
  /\ Observe(policy, labels, shape)
  /\ Answer(policy, labels, shape,
            IF shape \in {"empty", "malformed"} THEN "fail" ELSE "ok")
  /\ UNCHANGED plugin

\* SetDataReport, SumDataReport, MidDataReport, QuantilesDataReport and
\* HistogramDataReport: a shape that is no good fails before the family is
\* touched, and a family that was never made is an uninitialised pointer.
DataReport(policy, labels, shape) ==
  \/ /\ shape \in {"empty", "malformed"}
     /\ Answer(policy, labels, shape, "fail")
     /\ UNCHANGED <<plugin, attr>>
  \/ /\ shape \notin {"empty", "malformed"} /\ Enabled
     /\ Observe(policy, labels, shape)
     /\ Answer(policy, labels, shape, "ok")
     /\ UNCHANGED plugin
  \/ /\ shape \notin {"empty", "malformed"} /\ ~Enabled
     /\ plugin' = "crashed"
     /\ Answer(policy, labels, shape, "none")
     /\ UNCHANGED attr

\* The Report*MetricsInfo functions of the interface for users.
ReportMetricsInfo(policy, labels, shape) ==
  /\ plugin # "crashed"
  /\ IF plugin = "absent"
     THEN Answer(policy, labels, shape, "fail") /\ UNCHANGED <<plugin, attr>>
     ELSE DataReport(policy, labels, shape)
  /\ UNCHANGED <<config, call, families>>

\* SingleAttrReport and MultiAttrReport, through the framework.  "other" is an
\* unknown policy, or a MultiAttrReport without values.
AttrReport(policy, labels, shape) ==
  /\ plugin \in {"registered", "ready"}
  /\ IF Enabled /\ policy # "other"
     THEN DataReport(policy, labels, shape)
     ELSE Answer(policy, labels, shape, "fail") /\ UNCHANGED <<plugin, attr>>
  /\ UNCHANGED <<config, call, families>>
-----------------------------------------------------------------------------
Register ==
  /\ plugin = "absent" /\ plugin' = "registered"
  /\ UNCHANGED <<config, call, families, attr, report>>

\* Init.  One that cannot read the configuration leaves all as it was.
InitMetrics ==
  /\ plugin = "registered" /\ plugin' = "ready"
  /\ UNCHANGED <<config, call, families, attr, report>>

Next ==
  \/ Register
  \/ InitMetrics
  \/ \E c \in Calls :
       ReportStartedTotal(c) \/ ReportHandledSeconds(c) \/ ReportHandledTotal(c)
  \/ \E policy \in Policies, labels \in Labels :
       \E shape \in ShapesFor(policy) : ReportMetricsInfo(policy, labels, shape)
  \/ \E policy \in Policies \cup {"other"}, labels \in Labels :
       \E shape \in ShapesFor(policy) : AttrReport(policy, labels, shape)

Spec == Init /\ [][Next]_vars
-----------------------------------------------------------------------------
(* What the component promises. *)

\* The class in a label set is one of the three, whatever types rules have.
TypeOK ==
  /\ plugin \in {"absent", "registered", "ready", "crashed"}
  /\ config \in Configs
  /\ call \in [Calls -> [phase : {"new", "started", "timed", "handled"}, started : BOOLEAN,
                         names : Names, status : Statuses \cup {NoStatus}]]
  /\ DOMAIN families = Families
  /\ \A f \in Families : families[f] \in [DOMAIN families[f] -> Nat \ {0}]
  /\ \A f \in {"server_handled_total", "client_handled_total"} :
       \A l \in DOMAIN families[f] : l.code_type \in Types
  /\ attr \in [Items -> [Labels -> [shape : {"none", "median"} \cup Shapes, count : Nat]]]
  /\ report.result \in {"none", "ok", "fail"}

Identity(infos) ==
  <<infos.caller_service, infos.caller_method, infos.callee_service, infos.callee_method>>

\* The observations in a bag of label sets, those with the given label sets only,
\* and how many a family holds.
Occurrences(bag, labels) == UNION {{l} \X (1 .. bag[l]) : l \in labels}
Counted(f, labels) == Cardinality(Occurrences(families[f], labels))

Sides == {"server", "client"}
Side(c) == IF c \in ServerCalls THEN "server" ELSE "client"
Identities == {Identity(Infos(c)) : c \in Calls}

\* The family of a side that counts the calls that passed a point: the first one,
\* the latency in the second, and the rest of it.
Points == {"started", "timed", "handled"}
FamilyOf(side, point) ==
  CASE side = "server" /\ point = "started" -> "server_started_total"
    [] side = "server" /\ point = "timed"   -> "server_handled_seconds"
    [] side = "server" /\ point = "handled" -> "server_handled_total"
    [] side = "client" /\ point = "started" -> "client_started_total"
    [] side = "client" /\ point = "timed"   -> "client_handled_seconds"
    [] side = "client" /\ point = "handled" -> "client_handled_total"

HasPassed(c, point) ==
  CASE point = "started" -> call[c].started
    [] point = "timed"   -> call[c].phase \in {"timed", "handled"}
    [] point = "handled" -> call[c].phase = "handled"

Passed(side, point, id) ==
  {c \in Calls : Side(c) = side /\ Identity(Infos(c)) = id /\ HasPassed(c, point)}

\* With metrics enabled each call is counted once at each of its points, in the
\* families of its side and under its own names, so that rates and shares that
\* are computed across the three families of a side agree: a handled call that
\* has a latency but no total yet is still inside its second point.
EveryCallIsCountedOnce ==
  Enabled => \A side \in Sides, point \in Points, id \in Identities :
    LET f == FamilyOf(side, point)
    IN  Counted(f, {l \in DOMAIN families[f] : Identity(l) = id})
          = Cardinality(Passed(side, point, id))

\* The rules with a supported type that name a code for a service and a method.
RulesOn(code, service, method) ==
  {config.codes[i] : i \in {j \in DOMAIN config.codes :
     /\ config.codes[j].type \in Types
     /\ config.codes[j].code = code
     /\ config.codes[j].service \in {"", service}
     /\ config.codes[j].method \in {"", method}}}

CodesAreInts == \A i \in DOMAIN config.codes : config.codes[i].code <= INT_MAX

\* README.md:606-635: the class of a handled call is one some rule gives its code
\* for this very service and method; 0, the four timeouts and the rest have
\* their default class exactly when no rule applies.  Rules for other services
\* and rules with an unknown type change nothing.
ClassAsDocumented ==
  CodesAreInts =>
    \A f \in {"server_handled_total", "client_handled_total"} :
      \A l \in DOMAIN families[f] :
        LET rules == RulesOn(l.code, l.callee_service, l.callee_method)
        IN  IF rules # {} THEN \E rule \in rules : l.code_type = rule.type
            ELSE /\ l.code_type = "success" <=> l.code = 0
                 /\ l.code_type = "timeout" <=> l.code \in {21, 24, 101, 102}

\* Whether a call succeeded, and whether a rule says it did.
Succeeded(c) == call[c].status.framework = 0 /\ call[c].status.func = 0
Excused(c) ==
  \E code \in {call[c].status.framework, call[c].status.func} :
    \E rule \in RulesOn(code, Infos(c).callee_service, Infos(c).callee_method) :
      rule.type = "success"

\* A call that failed anywhere, in the framework or in the function, is not
\* counted as a success unless a rule says so of one of its two codes
\* (ReportServerHandledTotal and ReportClientHandledTotal).
FailuresAreSeen ==
  CodesAreInts => \A side \in Sides, id \in Identities :
    LET f == FamilyOf(side, "handled")
    IN  Counted(f, {l \in DOMAIN families[f] : Identity(l) = id /\ l.code_type = "success"})
          <= Cardinality({c \in Passed(side, "handled", id) : Succeeded(c) \/ Excused(c)})

\* A user report is all or nothing: one that fails leaves no series behind, not
\* even an empty one, and one that changes a metric adds one observation to the
\* item README.md:518-524 lists for its policy, under its labels.
ReportIsAllOrNothing ==
  [][/\ report'.result = "fail" => attr' = attr
     /\ attr' # attr =>
          /\ report'.result = "ok"
          /\ \A item \in Items, l \in Labels :
               attr'[item][l].count =
                 attr[item][l].count +
                   (IF item = Item(report'.policy) /\ l = report'.labels THEN 1 ELSE 0)
    ]_<<attr, report>>

\* metrics/opentelemetry_metrics_api.h:28: a report returns 0 for success and
\* non-zero for failure.
ReportsReturn == plugin # "crashed"

\* README.md:523: QUANTILES calculates the specific quantile values, those the
\* caller passes (metrics/opentelemetry_metrics_api.h:45).
QuantilesAreServed ==
  report.result = "ok" /\ report.policy = "QUANTILES" =>
    attr["summary"][report.labels].shape = report.shape
=============================================================================
