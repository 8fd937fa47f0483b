-------------------------- MODULE AnalyticsPolling --------------------------
(***************************************************************************)
(* One analytics calculation: submit it, then read its result until it is  *)
(* there (clients/lotus_analytics_client.py _post_analytics_request and    *)
(* clients/lotus_analytics_async_polling.py), under the elapsed-time       *)
(* budget of execution_budget.py or a cap on the reads.                    *)
(*                                                                         *)
(* Timers count down to 0 with Tick.  A timer that is due fires at some    *)
(* later point, and an answer may be handled late: the event loop may be   *)
(* busy.  Each request_with_retry_outcome is one exchange with one outcome *)
(* (UpstreamCall is about what happens inside).                            *)
(***************************************************************************)
EXTENDS Integers

CONSTANTS
  Calls,     \* [bounded, budget, capped, cap, admitted]: the arguments
  Guidance,  \* recommended_poll_after_seconds of a response; 0: none, or not usable
  Fallback   \* poll_interval_seconds

CallType == [bounded : BOOLEAN, budget : Nat, capped : BOOLEAN, cap : Nat, admitted : BOOLEAN]

ASSUME PollingAssumption ==
  /\ Calls \subseteq CallType
  /\ Guidance \subseteq Nat
  /\ Fallback \in Nat \ {0}

\* What request_with_retry_outcome returns: a status of the source, or its own
\* 503 for a transient or for a terminal failure of the transport.
SourceStatuses  == {"done", "pending", "redirect", "error", "source 504"}
GatewayStatuses == {"transient", "terminal"}
\* result_path of a 202: absent, at the configured source, or elsewhere.
Paths    == {"none", "home", "foreign"}
\* named: a 202 with a calculation_id, which it may have without a path.
Outcomes ==
  [status : SourceStatuses \cup GatewayStatuses, path : Paths, named : BOOLEAN,
   guidance : Guidance \cup {0}]

VARIABLES
  call,     \* the arguments; admitted: caller headers are bound to the client
  pc,       \* where the call is
  left,     \* remaining_seconds of a bounded budget; 0 stands for <= 0
  nap,      \* what is left of asyncio.sleep
  reads,    \* state.attempts
  last,     \* state.status_code: of the last read, at first of the 202
  path,     \* result_path
  answer,   \* what the caller gets
  accepted, \* history: a 202 with a result path was handled
  named,    \* history: a 202 with a calculation_id was handled
  wait      \* history: what is left of the cadence the last response asked for

vars == <<call, pc, left, nap, reads, last, path, answer, accepted, named, wait>>

NoAnswer == [status |-> "none", identity |-> FALSE]

Init ==
  /\ call \in Calls
  /\ pc       = "start"
  /\ left     = call.budget
  /\ nap      = 0
  /\ reads    = 0
  /\ last     = "pending"
  /\ path     = "none"
  /\ answer   = NoAnswer
  /\ accepted = FALSE
  /\ named    = FALSE
  /\ wait     = 0

-----------------------------------------------------------------------------
(* AnalyticsPollBudget.                                                    *)

Expired_Strict == call.bounded /\ left < 0
Expired == call.bounded /\ left = 0

Recommended(o) == IF o.guidance > 0 THEN o.guidance ELSE Fallback

PollInterval_Fallback(o) == IF call.bounded /\ left < Fallback THEN left ELSE Fallback
PollInterval(o) ==
  IF call.bounded /\ left < Recommended(o) THEN left ELSE Recommended(o)

-----------------------------------------------------------------------------
Return(status) == pc' = "done" /\ answer' = [status |-> status, identity |-> FALSE]

DeadlineAnswer(known) == [status |-> "deadline", identity |-> known]

ReturnDeadline_NoIdentity(known) == pc' = "done" /\ answer' = DeadlineAnswer(FALSE)
ReturnDeadline(known) == pc' = "done" /\ answer' = DeadlineAnswer(known)

\* A redirect is not followed when caller headers are bound, and is refused.
Admitted(status) == IF call.admitted /\ status = "redirect" THEN "refused" ELSE status

Submit ==
  /\ pc = "start"
  /\ IF Expired THEN ReturnDeadline(FALSE) ELSE pc' = "submitting" /\ UNCHANGED answer
  /\ UNCHANGED <<call, left, nap, reads, last, path, accepted, named, wait>>

\* Sleep for the cadence of o, or for what is left of the budget.
StartNap(o) ==
  /\ wait' = Recommended(o)
  /\ nap' = PollInterval(o)
  /\ IF PollInterval(o) > 0 THEN pc' = "napping" /\ UNCHANGED answer
                            ELSE ReturnDeadline(TRUE)

IsAccepted(o) == o.status = "pending" /\ o.path # "none"

IsNamed(o) == o.status = "pending" /\ o.named

OutsideSource(p) == call.admitted /\ p = "foreign"

\* The submission deadline keeps whatever identity a 202 gave, its path or its
\* calculation_id; a 504 of the source is returned as it is.
Submitted ==
  /\ pc = "submitting"
  /\ \E o \in Outcomes :
       /\ accepted' = IsAccepted(o)
       /\ named' = IsNamed(o)
       /\ path' = IF o.status = "pending" THEN o.path ELSE "none"
       /\ IF Expired /\ o.status # "source 504"
          THEN ReturnDeadline(IsAccepted(o) \/ IsNamed(o)) /\ UNCHANGED <<nap, wait>>
          ELSE IF ~IsAccepted(o)
          THEN Return(Admitted(o.status)) /\ UNCHANGED <<nap, wait>>
          ELSE IF OutsideSource(o.path)
          THEN Return("refused") /\ UNCHANGED <<nap, wait>>
          ELSE StartNap(o)
  /\ UNCHANGED <<call, left, reads, last>>

\* asyncio.timeout of run_request: what the exchange would have brought is
\* not known.
SubmissionTimesOut ==
  /\ pc = "submitting"
  /\ Expired
  /\ ReturnDeadline(FALSE)
  /\ UNCHANGED <<call, left, nap, reads, last, path, accepted, named, wait>>

\* The sleep is over: the head of the loop, up to the next read.  At the cap
\* the call ends with the last status, which of a bounded call may be that of
\* a failed exchange.
Wake ==
  /\ pc = "napping"
  /\ nap = 0
  /\ IF call.capped /\ reads >= call.cap THEN Return(last)
     ELSE IF Expired THEN ReturnDeadline(TRUE)
     ELSE pc' = "reading" /\ UNCHANGED answer
  /\ UNCHANGED <<call, left, nap, reads, last, path, accepted, named, wait>>

Continues_NotTransient(o) == o.status = "pending"
Continues(o) == o.status = "pending" \/ (call.bounded /\ o.status = "transient")

Counted(n) == n + 1

\* A failure of the transport carries no guidance.
Read ==
  /\ pc = "reading"
  /\ \E o \in Outcomes :
       /\ o.status \in GatewayStatuses => o.guidance = 0
       /\ IF Expired THEN ReturnDeadline(TRUE) /\ UNCHANGED <<nap, wait>>
          ELSE IF Continues(o) THEN StartNap(o)
          ELSE Return(Admitted(o.status)) /\ UNCHANGED <<nap, wait>>
       /\ last' = Admitted(o.status)
  /\ reads' = Counted(reads)
  /\ UNCHANGED <<call, left, path, accepted, named>>

ReadTimesOut_Unwrapped == FALSE
ReadTimesOut ==
  /\ pc = "reading"
  /\ Expired
  /\ ReturnDeadline(TRUE)
  /\ UNCHANGED <<call, left, nap, reads, last, path, accepted, named, wait>>

\* The task is cancelled by whoever waits for it.
Cancel ==
  /\ pc \in {"submitting", "napping", "reading"}
  /\ pc' = "cancelled"
  /\ UNCHANGED <<call, left, nap, reads, last, path, answer, accepted, named, wait>>

\* Only whether any of a timer is left matters, so it stops at 0.
Down_Unbounded(n) == n - 1
Down(n) == IF n > 0 THEN n - 1 ELSE 0

Tick ==
  /\ pc \notin {"done", "cancelled"}
  /\ left > 0 \/ nap > 0 \/ wait > 0
  /\ left' = Down(left)
  /\ nap' = Down(nap)
  /\ wait' = Down(wait)
  /\ UNCHANGED <<call, pc, reads, last, path, answer, accepted, named>>

Next ==
  \/ Submit \/ Submitted \/ SubmissionTimesOut
  \/ Wake \/ Read \/ ReadTimesOut
  \/ Cancel \/ Tick

Spec == Init /\ [][Next]_vars
=============================================================================
