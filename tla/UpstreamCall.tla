---------------------------- MODULE UpstreamCall ----------------------------
(***************************************************************************)
(* One logical call to a producer over a transport that loses answers:     *)
(* clients/http_json_resilience.py and clients/http_resilience.py with the *)
(* policy of clients/http_retry_policy.py, inside the optional deadlines   *)
(* of clients/observed_fanout.py and clients/core_auth_context.py.         *)
(*                                                                         *)
(* The call asks for an effect at the producer.  Every request put on the  *)
(* wire is a copy <<attempt, hop>>; a copy whose answer was lost may still *)
(* be processed, at any later time.  HTTPX and the producer are external:  *)
(* the producer of a keyed call replays what it did for that key.          *)
(***************************************************************************)
EXTENDS Integers, FiniteSets

CONSTANT Calls  \* the argument lists the callers of src/ and its tests use

Redirects == {"moved", "replay"}   \* 301-303, re-sent as a GET; 307-308, re-sent as it was
Statuses  == {"ok", "refused", "busy"} \cup Redirects

PreSend  == {"ConnectError", "ConnectTimeout", "PoolTimeout"}
Lost     == {"ReadError", "RemoteProtocolError", "ReadTimeout", "WriteTimeout"}
Terminal == {"LocalProtocolError", "TooManyRedirects", "DecodingError"}
TimeoutExceptions == {"ConnectTimeout", "PoolTimeout", "ReadTimeout", "WriteTimeout"}
RequestErrors     == PreSend \cup Lost \cup Terminal

\* The arguments that matter.  follow is follow_redirects, core the signed
\* transport, deadline a total_deadline_seconds; keyed: the headers or the
\* body carry an idempotency key.
CallType ==
  [supported : BOOLEAN, binary : BOOLEAN, maxRetries : Int, statuses : SUBSET Statuses,
   retryTimeouts : BOOLEAN, retryAmbiguous : BOOLEAN, follow : BOOLEAN,
   keyed : BOOLEAN, deadline : BOOLEAN, core : BOOLEAN]

\* The binary variant has neither the gate on ambiguous losses nor deadlines.
ASSUME CallAssumption ==
  /\ Calls \subseteq CallType
  /\ \A c \in Calls : c.binary => c.retryAmbiguous /\ c.follow /\ ~c.deadline /\ ~c.core

Kinds == {"none", "transport", "timeout", "terminal_request_error",
          "unsupported_method", "retries_exhausted"}

VARIABLES
  call,     \* the arguments
  pc,       \* where the call is
  attempt,  \* the loop variable of _execute_json_request
  hop,      \* where the current request goes: the url given, or where it was redirected
  flight,   \* copies on the wire that the producer may still process
  effects,  \* copies that took effect
  answer    \* the outcome returned to the caller

vars == <<call, pc, attempt, hop, flight, effects, answer>>

Copy == <<attempt, hop>>

NoAnswer == [status |-> "none", kind |-> "none", error |-> "none"]

Init ==
  /\ call \in Calls
  /\ pc      = "start"
  /\ attempt = 0
  /\ hop     = "origin"
  /\ flight  = {}
  /\ effects = {}
  /\ answer  = NoAnswer

-----------------------------------------------------------------------------
(* The policy.                                                             *)

RetryAttempts(maxRetries) == (IF maxRetries > 0 THEN maxRetries ELSE 0) + 1

ShouldRetryStatus(s) == s \in call.statuses /\ attempt < call.maxRetries

IsRetryable(e) == e \notin Terminal

IsAmbiguous(e) == e \in Lost

ShouldRetryError(e) ==
  /\ IsRetryable(e)
  /\ e \in TimeoutExceptions => call.retryTimeouts
  /\ IsAmbiguous(e) => call.retryAmbiguous
  /\ attempt < call.maxRetries

FailureKind_ClassName(e) == IF call.binary THEN "none" ELSE e
FailureKind(e) ==
  IF call.binary THEN "none"
  ELSE IF e \in TimeoutExceptions THEN "timeout"
  ELSE IF IsRetryable(e) THEN "transport" ELSE "terminal_request_error"

FollowsRedirects_AsAsked(c)  == c.follow /\ ~c.core
FollowsRedirects(c) == c.follow /\ c.retryAmbiguous /\ ~c.core

-----------------------------------------------------------------------------
(* The loop.                                                               *)

Return(status, kind, error) ==
  /\ pc' = "done"
  /\ answer' = [status |-> status, kind |-> kind, error |-> error]

RefuseMethod ==
  /\ pc = "start"
  /\ ~call.supported
  /\ Return("503", "unsupported_method", "none")
  /\ UNCHANGED <<call, attempt, hop, flight, effects>>

\* The target of a Core call is checked, then its headers are signed: the
\* first ends in an answer, the second in a CoreAuthorityError.
RefuseCore ==
  /\ pc = "start"
  /\ call.core
  /\ \/ Return("503", "none", "target refused")
     \/ pc' = "raised" /\ UNCHANGED answer
  /\ UNCHANGED <<call, attempt, hop, flight, effects>>

Begin ==
  /\ pc = "start"
  /\ call.supported
  /\ pc' = "unsent"
  /\ UNCHANGED <<call, attempt, hop, flight, effects, answer>>

\* A redirect turned into a GET asks for no effect.
Send ==
  /\ pc = "unsent"
  /\ pc' = "sent"
  /\ flight' = IF hop = "fetched" THEN flight ELSE flight \cup {Copy}
  /\ UNCHANGED <<call, attempt, hop, effects, answer>>

RaiseOrRetry(e) ==
  IF ShouldRetryError(e) THEN pc' = "backoff" /\ UNCHANGED answer
                         ELSE Return("503", FailureKind(e), e)

FailUnsent ==
  /\ pc = "unsent"
  /\ \E e \in PreSend \cup {"LocalProtocolError"} : RaiseOrRetry(e)
  /\ UNCHANGED <<call, attempt, hop, flight, effects>>

LoseAnswer ==
  /\ pc = "sent"
  /\ \E e \in Lost : RaiseOrRetry(e)
  /\ UNCHANGED <<call, attempt, hop, flight, effects>>

\* What a response means for its copy: a success comes after the effect; an
\* intermediary that is busy does not know whether the copy got through.
Responds(s) ==
  /\ s = "ok" => Copy \notin flight
  /\ flight' = IF s = "busy" THEN flight ELSE flight \ {Copy}

GarbledAnswer ==
  /\ pc = "sent"
  /\ \E s \in Statuses : Responds(s)
  /\ RaiseOrRetry("DecodingError")
  /\ UNCHANGED <<call, attempt, hop, effects>>

\* One redirect is followed; more of them stand for a loop.
FollowRedirect ==
  /\ pc = "sent"
  /\ FollowsRedirects(call)
  /\ \E s \in Redirects :
       /\ Responds(s)
       /\ IF hop = "origin"
          THEN /\ hop' = IF s = "moved" THEN "fetched" ELSE "replayed"
               /\ pc' = "unsent"
               /\ UNCHANGED answer
          ELSE RaiseOrRetry("TooManyRedirects") /\ UNCHANGED hop
  /\ UNCHANGED <<call, attempt, effects>>

Receive ==
  /\ pc = "sent"
  /\ \E s \in Statuses :
       /\ Responds(s)
       /\ s \in Redirects => ~FollowsRedirects(call)
       /\ IF ShouldRetryStatus(s) THEN pc' = "backoff" /\ UNCHANGED answer
          ELSE IF call.core /\ s \in Redirects
               THEN Return("503", "none", "redirect refused")
               ELSE Return(s, "none", "none")
  /\ UNCHANGED <<call, attempt, hop, effects>>

NextAttempt ==
  /\ pc = "backoff"
  /\ attempt' = attempt + 1
  /\ hop' = "origin"
  /\ IF attempt' < RetryAttempts(call.maxRetries)
     THEN pc' = "unsent" /\ UNCHANGED answer
     ELSE Return("503", "retries_exhausted", "none")
  /\ UNCHANGED <<call, flight, effects>>

HasDeadline_NotCore(c) == c.deadline
HasDeadline(c) == c.deadline \/ c.core

\* asyncio.timeout around the attempts and the sleeps between them.
Deadline ==
  /\ pc \in {"unsent", "sent", "backoff"}
  /\ HasDeadline(call)
  /\ Return("503", "none", "deadline exceeded")
  /\ UNCHANGED <<call, attempt, hop, flight, effects>>

\* The caller gives up: a budget or a deadline of its own cancels the task.
Cancel ==
  /\ pc \in {"unsent", "sent", "backoff"}
  /\ pc' = "cancelled"
  /\ UNCHANGED <<call, attempt, hop, flight, effects, answer>>

\* The replay identity of a copy.  The headers and the body are built once
\* and serve every attempt; without a key nothing ties two copies together.
ReplayIdentity_PerAttempt(k) == k[1]
ReplayIdentity(k) == IF call.keyed THEN <<"key">> ELSE k

\* The producer processes a copy, whether or not anybody still waits for it.
Process ==
  /\ \E k \in flight :
       /\ flight' = flight \ {k}
       /\ effects' = IF \E j \in effects : ReplayIdentity(j) = ReplayIdentity(k)
                     THEN effects ELSE effects \cup {k}
  /\ UNCHANGED <<call, pc, attempt, hop, answer>>

Next ==
  \/ RefuseMethod \/ RefuseCore \/ Begin \/ Send
  \/ FailUnsent \/ LoseAnswer \/ GarbledAnswer \/ FollowRedirect \/ Receive
  \/ NextAttempt \/ Deadline \/ Cancel \/ Process

Spec == Init /\ [][Next]_vars
=============================================================================
