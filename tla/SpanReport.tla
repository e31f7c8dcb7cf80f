----------------------------- MODULE SpanReport -----------------------------
(***************************************************************************)
(* What tracing promises about one span, without saying how: it starts,    *)
(* sampled or not, and if it records it is settled exactly once; a sampled *)
(* span is settled by a report, any other by a report or by being dropped. *)
(* SpanLifecycle implements this specification.                            *)
(***************************************************************************)
CONSTANT Spans

VARIABLES fate,    \* where each span is
          sampled  \* the head-sampling flag each span carries

vars == <<fate, sampled>>

Init ==
  /\ fate = [s \in Spans |-> "none"]
  /\ sampled = [s \in Spans |-> FALSE]

Start(s) ==
  /\ fate[s] = "none"
  /\ \E flag \in BOOLEAN :
       /\ sampled' = [sampled EXCEPT ![s] = flag]
       /\ fate' = [fate EXCEPT ![s] = "open"]

\* Neither sampled nor recorded: nothing will ever come of it.
Ignore(s) ==
  /\ fate[s] = "none"
  /\ fate' = [fate EXCEPT ![s] = "ignored"]
  /\ UNCHANGED sampled

Report(s) ==
  /\ fate[s] = "open"
  /\ fate' = [fate EXCEPT ![s] = "reported"]
  /\ UNCHANGED sampled

Discard(s) ==
  /\ fate[s] = "open" /\ ~sampled[s]
  /\ fate' = [fate EXCEPT ![s] = "dropped"]
  /\ UNCHANGED sampled

Next == \E s \in Spans : Start(s) \/ Ignore(s) \/ Report(s) \/ Discard(s)

Spec == Init /\ [][Next]_vars

FairSpec ==
  Spec /\ \A s \in Spans : WF_vars(Report(s) \/ Discard(s))
=============================================================================
