---------------------- MODULE DeferredSampleProcessor ----------------------
(***************************************************************************)
(* tracing/deferred_sample_processor.cc: the recordable that remembers     *)
(* what the tail decision needs, and that decision itself.                 *)
(*                                                                         *)
(* A DeferredRecordable is a record of the three members the decision      *)
(* reads.  What it only forwards to the inner recordable is left out.      *)
(* A definition just above another one with the same parameters is a       *)
(* plausible wrong version of it, used to try the properties out.          *)
(***************************************************************************)
EXTENDS Naturals

StatusCodes == {"kUnset", "kOk", "kError"}

Recordable(durations) ==
  [sampled : BOOLEAN, code : StatusCodes, duration : durations]

\* The constructor leaves code_ and duration_ uninitialised.  duration_ is
\* always written by Span::End before it is read, so its first value is
\* immaterial; code_ is read even if nobody wrote it, so it is any code.
MakeRecordable ==
  {[sampled |-> FALSE, code |-> code, duration |-> 0] : code \in StatusCodes}

SetIdentity(recordable, sampled) == [recordable EXCEPT !.sampled = sampled]
SetStatus(recordable, code) == [recordable EXCEPT !.code = code]

\* The start of the span minus its end.
NegativeDuration(recordable, duration) == [recordable EXCEPT !.duration = 0 - duration]

SetDuration(recordable, duration) == [recordable EXCEPT !.duration = duration]

SlowInclusive(opts, recordable) ==
  \/ recordable.sampled
  \/ opts.enable_sample_error /\ recordable.code # "kOk"
  \/ recordable.duration >= opts.sample_slow_duration

OnlySlowOrError(opts, recordable) ==
  \/ opts.enable_sample_error /\ recordable.code # "kOk"
  \/ recordable.duration > opts.sample_slow_duration

ShouldDeferredSampler(opts, recordable) ==
  \/ recordable.sampled
  \/ opts.enable_sample_error /\ recordable.code # "kOk"
  \/ recordable.duration > opts.sample_slow_duration

OnEndPerReason(opts, recordable) ==
  (IF recordable.sampled THEN 1 ELSE 0)
  + (IF recordable.duration > opts.sample_slow_duration THEN 1 ELSE 0)
  + (IF opts.enable_sample_error /\ recordable.code # "kOk" THEN 1 ELSE 0)

\* How often OnEnd calls OnEnd of the inner processor.
OnEnd(opts, recordable) == IF ShouldDeferredSampler(opts, recordable) THEN 1 ELSE 0
=============================================================================
