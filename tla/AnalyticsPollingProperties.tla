--------------------- MODULE AnalyticsPollingProperties ---------------------
(* What the analytics client promises about one calculation.               *)
EXTENDS AnalyticsPolling

ReadStatuses == SourceStatuses \cup GatewayStatuses \cup {"refused"}

AnswerType ==
  [status : ReadStatuses \cup {"none", "deadline"},
   identity : BOOLEAN]

\* The state is well typed: timers do not go below zero.
TypeOK ==
  /\ call \in Calls
  /\ pc \in {"start", "submitting", "napping", "reading", "done", "cancelled"}
  /\ left \in Nat /\ nap \in Nat /\ reads \in Nat /\ wait \in Nat
  /\ last \in ReadStatuses /\ path \in Paths
  /\ answer \in AnswerType
  /\ accepted \in BOOLEAN /\ named \in BOOLEAN

\* An answer given when the budget is used up says so, whatever arrived late;
\* the deadline is not blamed before.  The exception is a 504 of the source
\* itself on the submission (_post_observed_analytics_request).  A cap on the
\* reads would be looked at first; the bounded callers set none.
LateAnswerIsDeadline ==
  pc = "done" /\ call.bounded /\ ~call.capped =>
    /\ left = 0 => answer.status \in {"deadline", "source 504"}
    /\ answer.status = "deadline" => left = 0

\* A deadline answer names the calculation if and only if the source has taken
\* it on and told its result path or its identity: the caller can come back for
\* the result, and is never sent after one that was not
\* (build_async_poll_deadline_payload).
DeadlineKeepsIdentity ==
  answer.status = "deadline" => answer.identity = (accepted \/ named)

\* A bounded call whose calculation was accepted ends with the source's word
\* on it or with the deadline, not with a failure of the transport on the way
\* and not with "pending" (_result_after_poll_outcome).
AcceptedIsPursued ==
  pc = "done" /\ call.bounded /\ ~call.capped /\ accepted =>
    answer.status \notin {"pending", "transient"}

\* What a bounded call may end with: a late answer is the deadline's, and an
\* accepted calculation is pursued to its result or to the deadline.
BoundedAnswer == LateAnswerIsDeadline /\ AcceptedIsPursued

\* The admitted caller's authority is sent to the configured source only.
AuthorityStaysHome ==
  pc = "reading" /\ call.admitted => path = "home"

StartsReading == pc # "reading" /\ pc' = "reading"

\* No result is read before the cadence that the last response asked for is
\* over, the accepted response included, although a sleep is cut to the
\* budget; and none when the budget is used up.
ReadsInTime ==
  [][StartsReading => wait = 0 /\ (call.bounded => left > 0)]_vars

-----------------------------------------------------------------------------
(* Time passes and timers fire.  Nothing is assumed of the source.         *)
PollingFairness ==
  /\ WF_vars(Tick)
  /\ WF_vars(Submit)
  /\ WF_vars(Wake)
  /\ WF_vars(SubmissionTimesOut)
  /\ WF_vars(ReadTimesOut)

FairSpec == Spec /\ PollingFairness

Ended == pc \in {"done", "cancelled"}

\* A bounded call ends although the source never answers an exchange, or
\* answers "pending" for ever.
BudgetEndsCall == call.bounded ~> Ended

\* A capped call ends if its exchanges do.
CapEndsCall ==
  [](call.capped) /\ []<>(pc \notin {"submitting", "reading"}) => <>Ended

\* The budget and the cap each see to it that a call ends.
CallsEnd == BudgetEndsCall /\ CapEndsCall

\* The safety core of CallsEnd.  A sleep never outlasts the budget: when that
\* is used up, the call has a turn wherever it is.
BudgetEndsSleep ==
  call.bounded /\ pc = "napping" /\ left = 0 => nap = 0

\* Every turn of a bounded call takes some of its budget or brings it nearer to
\* a sleep that does; only the time that passes after its end takes nothing.
TurnsOfTick == 5

TurnsLeft ==
  IF Ended THEN 0
  ELSE TurnsOfTick * left + CASE pc = "start"      -> 5
                              [] pc = "submitting" -> 4
                              [] pc = "napping"    -> IF nap = 0 THEN 3 ELSE 1
                              [] pc = "reading"    -> 2

BudgetRunsOut ==
  [][call.bounded /\ ~(Tick /\ left = 0) => TurnsLeft' >= 0 /\ TurnsLeft' < TurnsLeft]_vars

\* Every turn of a capped call brings it nearer to a read, and every read
\* nearer to the cap, whatever the answers are.
TurnsOfRead == 3

ReadsLeft ==
  IF Ended THEN 0
  ELSE TurnsOfRead * (call.cap - reads) + CASE pc = "start"      -> 4
                                            [] pc = "submitting" -> 3
                                            [] pc = "napping"    -> 2
                                            [] pc = "reading"    -> 1

CapRunsOut ==
  [][call.capped /\ ~Tick => ReadsLeft' >= 0 /\ ReadsLeft' < ReadsLeft]_vars

-----------------------------------------------------------------------------
\* docs/standards/scalability-availability.md: "If the budget expires, the
\* analytics client returns reason code ASYNC_RESULT_DEADLINE_EXHAUSTED."
ExpiryGivesReasonCode ==
  pc = "done" /\ Expired => answer.status = "deadline"
=============================================================================
