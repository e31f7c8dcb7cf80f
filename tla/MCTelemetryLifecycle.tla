------------------------ MODULE MCTelemetryLifecycle ------------------------
(* TelemetryLifecycle for TLC: one call on each side, three protocols, and *)
(* configurations that leave out, set and misspell what Init depends on.   *)
EXTENDS TelemetryLifecycle, FiniteSets, TLC

CONSTANTS s1, c1, userFunc, otherFunc

MCServerCalls == {s1}
MCClientCalls == {c1}
MCFuncs == {userFunc, otherFunc}
MCProtocols == {"trpc", "http", "own"}

MCNodes ==
  {[addr |-> "a"],
   [protocol |-> "udp", logs |-> [enabled |-> TRUE], metrics |-> [enabled |-> TRUE],
    traces |-> [disable_trace_body |-> FALSE]],
   [protocol |-> "grpc", metrics |-> [enabled |-> TRUE],
    logs |-> [enabled |-> TRUE, level |-> "info", resources |-> {<<"team", "x">>}],
    traces |-> [disable_trace_body |-> FALSE]],
   [metrics |-> [codes |-> <<>>], logs |-> [enabled |-> TRUE, enable_sampler |-> TRUE],
    traces |-> [disable_trace_body |-> FALSE, enable_deferred_sample |-> TRUE,
                deferred_sample_error |-> TRUE]],
   [logs |-> [enabled |-> TRUE, enable_sampler |-> TRUE, enable_sampler_error |-> TRUE,
              level |-> "warn"],
    traces |-> [enable_deferred_sample |-> TRUE]],
   [logs |-> [enabled |-> TRUE, level |-> "fatal", enable_sampler_error |-> TRUE]]}

\* Everything compiled in, with and without a log factory, and each macro alone.
MCHosts ==
  {[ENABLE_LOGS_PREVIEW |-> TRUE, TRPC_BUILD_INCLUDE_PROMETHEUS |-> TRUE, logFactory |-> f] :
     f \in BOOLEAN} \cup
  {[ENABLE_LOGS_PREVIEW |-> b, TRPC_BUILD_INCLUDE_PROMETHEUS |-> ~b, logFactory |-> TRUE] :
     b \in BOOLEAN}

\* Users choose, any number of times, for one protocol and side at a time, and
\* calls follow each other: the choices of different protocols and the states of
\* different calls share nothing.
FewChoices ==
  Cardinality({x \in Sides \X Protocols : chosen[x[1]][x[2]] \in Funcs}) <= 1
Apart == \E c \in Calls : \A o \in Calls \ {c} : call[o].next = 1
Bounded == FewChoices /\ Apart

\* No definition tells one function of a user from another.
FuncSymmetry == Permutations(MCFuncs)
=============================================================================
