----------------------- MODULE UpstreamCallProperties -----------------------
(* What an upstream call promises its caller.                              *)
EXTENDS UpstreamCall

Errors == RequestErrors \cup {"none", "target refused", "redirect refused", "deadline exceeded"}

AnswerType == [status : Statuses \cup {"none", "503"}, kind : Kinds, error : Errors]

\* The state is well typed: the answer is one that the callers know.
TypeOK ==
  /\ call \in Calls
  /\ pc \in {"start", "unsent", "sent", "backoff", "done", "cancelled", "raised"}
  /\ attempt \in Nat
  /\ hop \in {"origin", "replayed", "fetched"}
  /\ flight \subseteq Nat \X {"origin", "replayed"}
  /\ effects \subseteq Nat \X {"origin", "replayed"}
  /\ answer \in AnswerType

\* A caller that cannot replay an ambiguous loss and retries on no status.
Cautious == ~call.retryAmbiguous /\ call.statuses = {}

\* Such a call, and one with a key, takes effect at most once, however its
\* answers are lost, its timeouts are set, and its requests are delayed or
\* redirected.  The first is what retry_ambiguous_request_errors=False is for
\* (the review actions of lotus_ai_client.py), the second what its
\* execute_workflow_pack mints one key per call for.
TakesEffectOnce ==
  Cautious \/ call.keyed => \A j, k \in effects : j = k

\* When such a call is told that the connection failed, nothing was sent and
\* nothing will take effect: it may be submitted again.  This is what the
\* comment in request_with_retry_outcome is about (a post-commit redirect
\* target failure misread as pre-send).
ConnectFailureMeansUnsent ==
  Cautious /\ answer.error \in PreSend => flight = {} /\ effects = {}

\* At most max(0, max_retries) + 1 attempts are made, a call with a negative
\* number of retries makes its one attempt, and "exhausted retries" is never
\* the answer: the policy does not retry from the last attempt.
RetryIsBounded ==
  /\ attempt < RetryAttempts(call.maxRetries)
  /\ answer.kind # "retries_exhausted"

\* A signed Core request is delivered to no other target than the one that
\* was checked, and its caller sees no redirect.
SignedRequestStaysHome ==
  call.core => hop = "origin" /\ answer.status \notin Redirects

\* What an answer means to the caller of a mutation: a success, a producer
\* that answered (with a refusal or a redirect that is not followed), a call
\* that was never sent, or a loss, a gateway that is busy, a deadline.
Meaning(a) ==
  CASE a.status = "ok" -> "yes"
    [] a.status \in {"refused"} \cup Redirects \/ a.error = "redirect refused" -> "settled"
    [] a.kind = "unsupported_method" \/ a.error \in PreSend \cup {"target refused"} -> "unsent"
    [] OTHER -> "unknown"

Told ==
  CASE pc = "done"      -> Meaning(answer)
    [] pc = "raised"    -> "unsent"
    [] pc = "cancelled" -> "unknown"
    [] OTHER            -> "pending"

TookEffect ==
  CASE effects = {}                    -> "none"
    [] \E j, k \in effects : j # k     -> "more"
    [] OTHER                           -> "once"

Careful == INSTANCE CarefulCall
  WITH careful <- Cautious, single <- Cautious \/ call.keyed, told <- Told, effect <- TookEffect

\* Every behaviour is one of CarefulCall: however late the network delivers
\* what a cautious call has sent, no effect comes after a success, a refusal
\* or a redirect was returned, and none ever after a failure to connect; a
\* success is told after the effect.
ImplementsCarefulCall == Careful!Spec

-----------------------------------------------------------------------------
(* Timers fire and a task that can go on does.  Nothing is assumed of the  *)
(* network: HTTPX bounds the wait for each chunk, not for the exchange.    *)
FairSpec ==
  /\ Spec
  /\ WF_vars(RefuseMethod \/ Begin)
  /\ WF_vars(NextAttempt)
  /\ WF_vars(Deadline)

Ended == pc \in {"done", "cancelled", "raised"}

\* A call with a total deadline, or to Core with an execution authority,
\* ends even if the producer trickles its answer for ever.
DeadlineEndsCall == (call.deadline \/ call.core) ~> Ended

\* Every call ends if no exchange hangs for ever.
RetriesEnd == []<>(pc \notin {"unsent", "sent"}) => <>Ended

\* Either is enough for a call to end, whatever its arguments.
CallsEnd == DeadlineEndsCall /\ RetriesEnd

\* The safety core of CallsEnd: every stretch between two awaits takes a piece
\* of what the arguments allow the call, an attempt at most five of them, its
\* redirect included.  Only the producer's work on a copy takes none.
StepsOfAttempt == 6

StepsInAttempt ==
  CASE pc = "start"   -> 6
    [] pc = "unsent"  -> IF hop = "origin" THEN 5 ELSE 3
    [] pc = "sent"    -> IF hop = "origin" THEN 4 ELSE 2
    [] pc = "backoff" -> 1

StepsLeft ==
  IF Ended THEN 0
  ELSE StepsOfAttempt * (RetryAttempts(call.maxRetries) - attempt) + StepsInAttempt

StepsRunOut == [][~Process => StepsLeft' >= 0 /\ StepsLeft' < StepsLeft]_vars

-----------------------------------------------------------------------------
\* docs/standards/durability-consistency.md: the gateway "preserves
\* replay-safe behavior".  A call takes effect at most once, with a key or
\* without.
PreservesReplaySafety == \A j, k \in effects : j = k
=============================================================================
