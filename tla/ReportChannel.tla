--------------------------- MODULE ReportChannel ---------------------------
(***************************************************************************)
(* What exporting promises about each signal, without saying how: a        *)
(* bounded channel that may drop what is offered, but neither loses what   *)
(* it accepted before it tried to deliver it, nor delivers it twice, nor   *)
(* claims a delivery that did not happen, nor feeds on itself.             *)
(* BatchExport implements this specification.                              *)
(***************************************************************************)
EXTENDS Integers

CONSTANT Capacity

VARIABLES backlog,  \* how much was accepted and not taken yet
          door,     \* open; closing, when nothing is accepted; closed
          stage,    \* of the last batch: taken, sent, or dealt with (idle)
          request,  \* of the last batch: not sent (none), out or there
          outcome   \* what was said of the last batch

vars == <<backlog, door, stage, request, outcome>>

Signals == {"trace", "log"}

Init ==
  /\ backlog = [s \in Signals |-> 0]
  /\ door = [s \in Signals |-> "open"]
  /\ stage = [s \in Signals |-> "idle"]
  /\ request = [s \in Signals |-> "none"]
  /\ outcome = [s \in Signals |-> "none"]

Grows(s) ==
  /\ door[s] = "open" /\ backlog[s] < Capacity
  /\ backlog' = [backlog EXCEPT ![s] = @ + 1]

Accept(s) == Grows(s) /\ UNCHANGED <<door, stage, request, outcome>>

Take(s) ==
  /\ stage[s] = "idle" /\ door[s] # "closed"
  /\ \E left \in 0 .. backlog[s] - 1 : backlog' = [backlog EXCEPT ![s] = left]
  /\ stage' = [stage EXCEPT ![s] = "taken"]
  /\ request' = [request EXCEPT ![s] = "none"]
  /\ outcome' = [outcome EXCEPT ![s] = "none"]
  /\ UNCHANGED door

\* Whatever was taken is sent, and sent once.
Send(s) ==
  /\ stage[s] = "taken"
  /\ stage' = [stage EXCEPT ![s] = "sent"]
  /\ request' = [request EXCEPT ![s] = "out"]
  /\ UNCHANGED <<backlog, door, outcome>>

\* Perhaps only after the batch was given up.
Reach(s) ==
  /\ request[s] = "out"
  /\ request' = [request EXCEPT ![s] = "there"]
  /\ UNCHANGED <<backlog, door, stage, outcome>>

\* Sending logs may make a trace, nothing else feeds a channel from inside.
Conclude(s) ==
  /\ stage[s] = "sent"
  /\ stage' = [stage EXCEPT ![s] = "idle"]
  /\ \E said \in {"kSuccess", "kFailure"} :
       /\ said = "kSuccess" => request[s] = "there"
       /\ outcome' = [outcome EXCEPT ![s] = said]
  /\ UNCHANGED backlog \/ (s = "log" /\ Grows("trace"))
  /\ UNCHANGED <<door, request>>

Close(s) ==
  /\ door[s] = "open"
  /\ door' = [door EXCEPT ![s] = "closing"]
  /\ UNCHANGED <<backlog, stage, request, outcome>>

\* Only what is empty is closed.
Finish(s) ==
  /\ door[s] = "closing" /\ stage[s] = "idle" /\ backlog[s] = 0
  /\ door' = [door EXCEPT ![s] = "closed"]
  /\ UNCHANGED <<backlog, stage, request, outcome>>

Progress(s) == Take(s) \/ Send(s) \/ Conclude(s)

Next ==
  \E s \in Signals :
    Accept(s) \/ Progress(s) \/ Reach(s) \/ Close(s) \/ Finish(s)

Spec == Init /\ [][Next]_vars

FairSpec ==
  Spec /\ \A s \in Signals : WF_vars(Progress(s)) /\ WF_vars(Finish(s))
=============================================================================
