------------------------- MODULE UpstreamCallProofs -------------------------
(***************************************************************************)
(* Proofs about UpstreamCall, for any argument lists: in particular for    *)
(* any number of retries.                                                  *)
(***************************************************************************)
EXTENDS UpstreamCallProperties, TLAPS

Live == {"start", "unsent", "sent", "backoff"}

\* While the call goes on there is no answer; the back-off is reached only if
\* one more attempt is left.
LoopInv ==
  /\ pc \in Live => answer = NoAnswer
  /\ pc = "backoff" => attempt < call.maxRetries
  /\ attempt < RetryAttempts(call.maxRetries)
  /\ answer.kind # "retries_exhausted"

\* A cautious call has one copy at most, that of the current attempt, and
\* none when it may still make another one.
CautiousInv ==
  Cautious =>
    /\ hop = "origin"
    /\ flight \cup effects \subseteq {<<attempt, "origin">>}
    /\ pc \in {"start", "unsent", "backoff"} => flight = {} /\ effects = {}
    /\ answer.error \in PreSend => flight = {} /\ effects = {}

CoreInv == call.core => hop = "origin" /\ answer.status \notin Redirects

KeyedInv == call.keyed => \A j, k \in effects : j = k

IInv == TypeOK /\ LoopInv /\ CautiousInv /\ CoreInv /\ KeyedInv

\* An answer with a known status, kind and error.
LEMMA ReturnEffect ==
  ASSUME NEW s \in Statuses \cup {"503"}, NEW k \in Kinds, NEW e \in Errors,
         Return(s, k, e)
  PROVE  /\ pc' = "done" /\ answer' \in AnswerType
         /\ answer'.status = s /\ answer'.kind = k /\ answer'.error = e
BY DEF Return, AnswerType

\* An exception either starts a back-off, which the policy must allow, or is
\* the answer.
LEMMA RaiseEffect ==
  ASSUME NEW e \in RequestErrors, RaiseOrRetry(e)
  PROVE  \/ /\ pc' = "backoff" /\ answer' = answer /\ attempt < call.maxRetries
            /\ e \notin Terminal /\ (e \in Lost => call.retryAmbiguous)
         \/ /\ pc' = "done" /\ answer' \in AnswerType
            /\ answer'.status = "503" /\ answer'.kind # "retries_exhausted" /\ answer'.error = e
<1>1. CASE ShouldRetryError(e)
  BY <1>1 DEF RaiseOrRetry, ShouldRetryError, IsRetryable, IsAmbiguous
<1>2. CASE ~ ShouldRetryError(e)
  <2>1. FailureKind(e) \in Kinds \ {"retries_exhausted"} /\ e \in Errors
    BY DEF FailureKind, Kinds, Errors
  <2>2. Return("503", FailureKind(e), e)
    BY <1>2 DEF RaiseOrRetry
  <2> QED BY <2>1, <2>2, ReturnEffect
<1> QED BY <1>1, <1>2

\* The initial states satisfy the inductive invariant.
LEMMA InitEstablishes == Init => IInv
<1> SUFFICES ASSUME Init PROVE IInv
  OBVIOUS
<1> USE CallAssumption DEF Init, NoAnswer
<1>1. call.maxRetries \in Int
  BY DEF CallType
<1>2. TypeOK
  BY DEF TypeOK, Kinds, Errors, AnswerType
<1>3. LoopInv
  BY <1>1 DEF LoopInv, RetryAttempts, Live
<1>4. CautiousInv /\ CoreInv /\ KeyedInv
  BY DEF CautiousInv, CoreInv, KeyedInv, PreSend, Redirects
<1> QED BY <1>2, <1>3, <1>4 DEF IInv

\* Every step preserves the inductive invariant.
LEMMA NextPreserves == IInv /\ [Next]_vars => IInv'
<1> SUFFICES ASSUME IInv, [Next]_vars PROVE IInv'
  OBVIOUS
<1> USE CallAssumption DEF IInv
<1>0. /\ call.maxRetries \in Int /\ call.statuses \subseteq Statuses
      /\ call.core \in BOOLEAN /\ call.keyed \in BOOLEAN /\ call.retryAmbiguous \in BOOLEAN
  BY DEF TypeOK, CallType
<1>1. CASE RefuseMethod
  <2>1. /\ pc' = "done" /\ answer' \in AnswerType /\ answer'.status = "503"
        /\ answer'.kind = "unsupported_method" /\ answer'.error = "none"
        /\ UNCHANGED <<call, attempt, hop, flight, effects>>
    BY <1>1, ReturnEffect DEF RefuseMethod, Kinds, Errors
  <2>2. TypeOK' /\ LoopInv'
    BY <2>1 DEF TypeOK, LoopInv, Live
  <2>3. CautiousInv' /\ CoreInv' /\ KeyedInv'
    BY <2>1 DEF CautiousInv, CoreInv, KeyedInv, Cautious, PreSend, Redirects
  <2> QED BY <2>2, <2>3
<1>2. CASE RefuseCore
  <2>1. UNCHANGED <<call, attempt, hop, flight, effects>>
    BY <1>2 DEF RefuseCore
  <2>2. CASE Return("503", "none", "target refused")
    <3>1. /\ pc' = "done" /\ answer' \in AnswerType /\ answer'.status = "503"
          /\ answer'.kind = "none" /\ answer'.error = "target refused"
      BY <2>2, ReturnEffect DEF Kinds, Errors
    <3>2. TypeOK' /\ LoopInv'
      BY <2>1, <3>1 DEF TypeOK, LoopInv, Live
    <3>3. CautiousInv' /\ CoreInv' /\ KeyedInv'
      BY <2>1, <3>1 DEF CautiousInv, CoreInv, KeyedInv, Cautious, PreSend, Redirects
    <3> QED BY <3>2, <3>3
  <2>3. CASE pc' = "raised" /\ UNCHANGED answer
    <3>1. TypeOK' /\ LoopInv'
      BY <2>1, <2>3 DEF TypeOK, LoopInv, Live
    <3>2. CautiousInv' /\ CoreInv' /\ KeyedInv'
      BY <2>1, <2>3 DEF CautiousInv, CoreInv, KeyedInv, Cautious
    <3> QED BY <3>1, <3>2
  <2> QED BY <1>2, <2>2, <2>3 DEF RefuseCore
<1>3. CASE Begin
  <2> USE <1>3 DEF Begin
  <2>1. TypeOK'
    BY DEF TypeOK
  <2>2. LoopInv'
    BY DEF LoopInv, Live
  <2>3. CautiousInv' /\ CoreInv' /\ KeyedInv'
    BY DEF CautiousInv, CoreInv, KeyedInv, Cautious
  <2> QED BY <2>1, <2>2, <2>3
<1>4. CASE Send
  <2> USE <1>4 DEF Send, Copy
  <2>1. TypeOK'
    BY DEF TypeOK
  <2>2. LoopInv'
    BY DEF LoopInv, Live
  <2>3. CautiousInv'
    BY DEF CautiousInv, Cautious, LoopInv, Live, NoAnswer, PreSend
  <2>4. CoreInv' /\ KeyedInv'
    BY DEF CoreInv, KeyedInv
  <2> QED BY <2>1, <2>2, <2>3, <2>4
<1>5. CASE FailUnsent
  <2>1. PICK e \in PreSend \cup {"LocalProtocolError"} : RaiseOrRetry(e)
    BY <1>5 DEF FailUnsent
  <2>2. e \in RequestErrors
    BY DEF RequestErrors, Terminal
  <2> USE <1>5, <2>1, <2>2, RaiseEffect DEF FailUnsent
  <2>3. TypeOK'
    BY DEF TypeOK
  <2>4. LoopInv'
    BY <1>0 DEF LoopInv, Live
  <2>5. CautiousInv' /\ CoreInv' /\ KeyedInv'
    BY DEF CautiousInv, CoreInv, KeyedInv, Cautious, Redirects
  <2> QED BY <2>3, <2>4, <2>5
<1>6. CASE LoseAnswer
  <2>1. PICK e \in Lost : RaiseOrRetry(e)
    BY <1>6 DEF LoseAnswer
  <2>2. e \in RequestErrors
    BY DEF RequestErrors
  <2> USE <1>6, <2>1, <2>2, RaiseEffect DEF LoseAnswer
  <2>3. TypeOK'
    BY DEF TypeOK
  <2>4. LoopInv'
    BY <1>0 DEF LoopInv, Live
  <2>5. CautiousInv' /\ CoreInv' /\ KeyedInv'
    BY DEF CautiousInv, CoreInv, KeyedInv, Cautious, Redirects, PreSend, Lost
  <2> QED BY <2>3, <2>4, <2>5
<1>7. CASE GarbledAnswer
  <2>1. "DecodingError" \in RequestErrors /\ "DecodingError" \in Terminal
    BY DEF RequestErrors, Terminal
  <2>2. RaiseOrRetry("DecodingError") /\ flight' \subseteq flight
    BY <1>7 DEF GarbledAnswer, Responds
  <2>3. pc' = "done" /\ answer'.error = "DecodingError" /\ answer'.status = "503"
    BY <2>1, <2>2, RaiseEffect
  <2> USE <1>7, <2>1, <2>2, <2>3, RaiseEffect DEF GarbledAnswer
  <2>4. TypeOK'
    BY DEF TypeOK
  <2>5. LoopInv'
    BY DEF LoopInv, Live
  <2>6. CautiousInv' /\ CoreInv' /\ KeyedInv'
    BY DEF CautiousInv, CoreInv, KeyedInv, Cautious, Redirects, PreSend
  <2> QED BY <2>4, <2>5, <2>6
<1>8. CASE FollowRedirect
  <2>1. ~ Cautious /\ ~ call.core /\ UNCHANGED <<call, attempt, effects>>
    BY <1>8 DEF FollowRedirect, FollowsRedirects, Cautious
  <2>2. PICK s \in Redirects :
          /\ Responds(s)
          /\ IF hop = "origin"
             THEN /\ hop' = IF s = "moved" THEN "fetched" ELSE "replayed"
                  /\ pc' = "unsent"
                  /\ UNCHANGED answer
             ELSE RaiseOrRetry("TooManyRedirects") /\ UNCHANGED hop
    BY <1>8 DEF FollowRedirect
  <2>3. flight' \subseteq flight
    BY <2>2 DEF Responds
  <2>4. CASE hop = "origin"
    <3>1. TypeOK'
      BY <2>1, <2>2, <2>3, <2>4 DEF TypeOK
    <3>2. LoopInv'
      BY <1>8, <2>1, <2>2, <2>4 DEF LoopInv, Live, FollowRedirect
    <3> QED BY <2>1, <3>1, <3>2 DEF CautiousInv, Cautious, CoreInv, KeyedInv
  <2>5. CASE hop # "origin"
    <3>1. RaiseOrRetry("TooManyRedirects") /\ hop' = hop
      BY <2>2, <2>5
    <3>2. "TooManyRedirects" \in RequestErrors /\ "TooManyRedirects" \in Terminal
      BY DEF RequestErrors, Terminal
    <3>3. TypeOK'
      BY <2>1, <2>3, <3>1, <3>2, RaiseEffect DEF TypeOK
    <3>4. LoopInv'
      BY <2>1, <3>1, <3>2, RaiseEffect DEF LoopInv, Live
    <3> QED BY <2>1, <3>3, <3>4 DEF CautiousInv, Cautious, CoreInv, KeyedInv
  <2> QED BY <2>4, <2>5
<1>9. CASE Receive
  <2>1. PICK s \in Statuses :
          /\ Responds(s)
          /\ s \in Redirects => ~FollowsRedirects(call)
          /\ IF ShouldRetryStatus(s) THEN pc' = "backoff" /\ UNCHANGED answer
             ELSE IF call.core /\ s \in Redirects
                  THEN Return("503", "none", "redirect refused")
                  ELSE Return(s, "none", "none")
    BY <1>9 DEF Receive
  <2>2. flight' \subseteq flight /\ UNCHANGED <<call, attempt, hop, effects>> /\ pc = "sent"
    BY <1>9, <2>1 DEF Receive, Responds
  <2>3. CASE ShouldRetryStatus(s)
    <3>1. pc' = "backoff" /\ answer' = answer /\ attempt < call.maxRetries /\ ~Cautious
      BY <2>1, <2>3 DEF ShouldRetryStatus, Cautious
    <3>2. TypeOK'
      BY <2>2, <3>1 DEF TypeOK
    <3>3. LoopInv'
      BY <2>2, <3>1 DEF LoopInv, Live
    <3> QED BY <2>2, <3>1, <3>2, <3>3 DEF CautiousInv, Cautious, CoreInv, KeyedInv
  <2>4. CASE ~ ShouldRetryStatus(s)
    <3>1. /\ pc' = "done" /\ answer' \in AnswerType /\ answer'.kind = "none"
          /\ answer'.error \in {"none", "redirect refused"}
          /\ answer'.status = "503" \/ (answer'.status = s /\ (call.core => s \notin Redirects))
      BY <2>1, <2>4, ReturnEffect DEF Kinds, Errors
    <3>2. TypeOK'
      BY <2>2, <3>1 DEF TypeOK
    <3>3. LoopInv'
      BY <2>2, <3>1 DEF LoopInv, Live
    <3>4. CautiousInv'
      BY <2>2, <3>1 DEF CautiousInv, Cautious, PreSend
    <3>5. CoreInv' /\ KeyedInv'
      BY <2>2, <3>1 DEF CoreInv, KeyedInv, Redirects
    <3> QED BY <3>2, <3>3, <3>4, <3>5
  <2> QED BY <2>3, <2>4
<1>10. CASE NextAttempt
  <2>1. /\ pc = "backoff" /\ attempt' = attempt + 1 /\ hop' = "origin"
        /\ UNCHANGED <<call, flight, effects>>
        /\ attempt + 1 < RetryAttempts(call.maxRetries)
    BY <1>0, <1>10 DEF NextAttempt, LoopInv, RetryAttempts, TypeOK
  <2>2. pc' = "unsent" /\ answer' = answer
    BY <1>10, <2>1 DEF NextAttempt
  <2>3. TypeOK'
    BY <2>1, <2>2 DEF TypeOK
  <2>4. LoopInv'
    BY <2>1, <2>2 DEF LoopInv, Live
  <2>5. CautiousInv'
    BY <2>1, <2>2 DEF CautiousInv, Cautious
  <2>6. CoreInv' /\ KeyedInv'
    BY <2>1, <2>2 DEF CoreInv, KeyedInv
  <2> QED BY <2>3, <2>4, <2>5, <2>6
<1>11. CASE Deadline
  <2>1. /\ pc' = "done" /\ answer' \in AnswerType /\ answer'.status = "503"
        /\ answer'.kind = "none" /\ answer'.error = "deadline exceeded"
        /\ UNCHANGED <<call, attempt, hop, flight, effects>>
    BY <1>11, ReturnEffect DEF Deadline, Kinds, Errors
  <2>2. TypeOK' /\ LoopInv'
    BY <2>1 DEF TypeOK, LoopInv, Live
  <2>3. CautiousInv' /\ CoreInv' /\ KeyedInv'
    BY <2>1 DEF CautiousInv, CoreInv, KeyedInv, Cautious, PreSend, Redirects
  <2> QED BY <2>2, <2>3
<1>12. CASE Cancel
  <2> USE <1>12 DEF Cancel
  <2>1. TypeOK'
    BY DEF TypeOK
  <2>2. LoopInv'
    BY DEF LoopInv, Live
  <2>3. CautiousInv' /\ CoreInv' /\ KeyedInv'
    BY DEF CautiousInv, CoreInv, KeyedInv, Cautious
  <2> QED BY <2>1, <2>2, <2>3
<1>13. CASE Process
  <2>1. PICK k \in flight :
          /\ flight' = flight \ {k}
          /\ effects' = IF \E j \in effects : ReplayIdentity(j) = ReplayIdentity(k)
                        THEN effects ELSE effects \cup {k}
    BY <1>13 DEF Process
  <2>2. UNCHANGED <<call, pc, attempt, hop, answer>>
    BY <1>13 DEF Process
  <2>3. TypeOK'
    BY <2>1, <2>2 DEF TypeOK
  <2>4. LoopInv' /\ CoreInv'
    BY <2>2 DEF LoopInv, CoreInv
  <2>5. CautiousInv'
    BY <2>1, <2>2 DEF CautiousInv, Cautious
  <2>6. KeyedInv'
    BY <2>1, <2>2 DEF KeyedInv, ReplayIdentity
  <2> QED BY <2>3, <2>4, <2>5, <2>6
<1>14. CASE UNCHANGED vars
  BY <1>14 DEF vars, TypeOK, LoopInv, CautiousInv, Cautious, CoreInv, KeyedInv
<1> QED
  BY <1>1, <1>2, <1>3, <1>4, <1>5, <1>6, <1>7, <1>8, <1>9, <1>10, <1>11, <1>12, <1>13, <1>14
  DEF Next

\* The inductive invariant holds in every reachable state.
THEOREM Invariance == Spec => []IInv
<1> QED BY InitEstablishes, NextPreserves, PTL DEF Spec

\* Type correctness: in particular the answer of a call is one of those its
\* callers know.
THEOREM TypeCorrect == Spec => []TypeOK
<1>1. IInv => TypeOK
  BY DEF IInv
<1> QED BY Invariance, <1>1, PTL

\* A call that does not replay ambiguous losses, or that carries a key, takes
\* effect at most once (request_with_retry_outcome).
THEOREM EffectOnce == Spec => []TakesEffectOnce
<1>1. IInv => TakesEffectOnce
  BY DEF IInv, CautiousInv, KeyedInv, TakesEffectOnce
<1> QED BY Invariance, <1>1, PTL

\* A cautious call that reports a connection failure has sent nothing, so it
\* may be submitted again (is_ambiguous_response_loss_error, and the redirect
\* rule of request_with_retry_outcome).
THEOREM ConnectFailure == Spec => []ConnectFailureMeansUnsent
<1>1. IInv => ConnectFailureMeansUnsent
  BY DEF IInv, CautiousInv, ConnectFailureMeansUnsent
<1> QED BY Invariance, <1>1, PTL

\* Whatever max_retries is, the attempts stay within retry_attempts and the
\* loop of _execute_json_request is left by a return.
THEOREM Bounded == Spec => []RetryIsBounded
<1>1. IInv => RetryIsBounded
  BY DEF IInv, LoopInv, RetryIsBounded
<1> QED BY Invariance, <1>1, PTL

\* A signed request reaches no target but its own (_execute_core_with_authority).
THEOREM SignedStaysHome == Spec => []SignedRequestStaysHome
<1>1. IInv => SignedRequestStaysHome
  BY DEF IInv, CoreInv, SignedRequestStaysHome
<1> QED BY Invariance, <1>1, PTL
-----------------------------------------------------------------------------
(***************************************************************************)
(* ImplementsCarefulCall.  What the mapping needs beyond IInv: a cautious  *)
(* call that waits for an answer has sent its copy, and what it tells is   *)
(* true of the copy.                                                       *)
(***************************************************************************)
AnswerInv ==
  Cautious =>
    /\ pc = "sent"      => <<attempt, "origin">> \in flight \cup effects
    /\ Told = "yes"     => flight = {} /\ effects # {}
    /\ Told = "settled" => flight = {}
    /\ Told = "unsent"  => flight = {} /\ effects = {}

\* The fields of an answer.
LEMMA Returned ==
  ASSUME NEW s, NEW k, NEW e, Return(s, k, e)
  PROVE  pc' = "done" /\ answer'.status = s /\ answer'.kind = k /\ answer'.error = e
BY DEF Return

\* Nothing is told before the call ends, and then one of the four answers.
LEMMA TellsWhenEnded ==
  /\ pc \in Live => Told = "pending"
  /\ Told \in {"pending", "yes", "settled", "unsent", "unknown"}
  /\ Told' \in {"pending", "yes", "settled", "unsent", "unknown"}
BY DEF Told, Meaning, Live

\* Cautious and call.keyed are settled by the arguments.
LEMMA ArgumentsStay == [Next]_vars => call' = call
BY DEF Next, vars, RefuseMethod, RefuseCore, Begin, Send, FailUnsent, LoseAnswer, GarbledAnswer,
       FollowRedirect, Receive, NextAttempt, Deadline, Cancel, Process

\* Before the first byte of a cautious call there is nothing to answer for.
LEMMA NothingSent ==
  ASSUME IInv, Cautious, pc \in {"start", "unsent", "backoff"}
  PROVE  flight = {} /\ effects = {} /\ Told = "pending"
BY DEF IInv, CautiousInv, Told

\* Every step preserves AnswerInv.
LEMMA AnswerPreserved == IInv /\ IInv' /\ AnswerInv /\ [Next]_vars => AnswerInv'
<1> SUFFICES ASSUME IInv, IInv', AnswerInv, [Next]_vars, Cautious
             PROVE  AnswerInv'
  BY ArgumentsStay DEF AnswerInv, Cautious
<1>1. CASE pc' \in {"start", "unsent", "backoff"}
  BY <1>1 DEF AnswerInv, Told
<1>2. CASE RefuseMethod \/ RefuseCore \/ FailUnsent \/ NextAttempt
  <2>1. pc \in {"start", "unsent", "backoff"} /\ UNCHANGED <<flight, effects>>
    BY <1>2 DEF RefuseMethod, RefuseCore, FailUnsent, NextAttempt
  <2>2. flight' = {} /\ effects' = {}
    BY <2>1, NothingSent
  <2>3. pc' # "sent"
    BY <1>2 DEF RefuseMethod, RefuseCore, FailUnsent, NextAttempt, RaiseOrRetry, Return
  <2>4. Told' # "yes"
    <3>1. CASE FailUnsent
      <4>1. PICK e \in PreSend \cup {"LocalProtocolError"} : RaiseOrRetry(e)
        BY <3>1 DEF FailUnsent
      <4>2. e \in RequestErrors
        BY DEF RequestErrors, Terminal
      <4>3. pc' = "backoff" \/ (pc' = "done" /\ answer'.status = "503")
        BY <4>1, <4>2, RaiseEffect
      <4> QED
        BY <4>3 DEF Told, Meaning
    <3>2. CASE RefuseMethod \/ RefuseCore \/ NextAttempt
      <4>1. pc' \in {"raised", "unsent"} \/ (pc' = "done" /\ answer'.status = "503")
        BY <3>2, Returned DEF RefuseMethod, RefuseCore, NextAttempt
      <4> QED
        BY <4>1 DEF Told, Meaning
    <3> QED
      BY <1>2, <3>1, <3>2
  <2> QED
    BY <2>2, <2>3, <2>4 DEF AnswerInv
<1>3. CASE Send
  <2>1. pc' = "sent" /\ flight' = flight \cup {<<attempt, "origin">>} /\ attempt' = attempt
    BY <1>3 DEF Send, Copy, IInv, CautiousInv
  <2> QED
    BY <2>1 DEF AnswerInv, Told
<1>4. CASE LoseAnswer
  <2>1. PICK e \in Lost : RaiseOrRetry(e)
    BY <1>4 DEF LoseAnswer
  <2>2. e \in RequestErrors /\ e \notin PreSend \cup {"target refused", "redirect refused"}
    BY DEF RequestErrors, PreSend, Lost
  <2>3. /\ pc' = "done" /\ answer'.status = "503" /\ answer'.error = e
        /\ answer'.kind # "unsupported_method"
    <3>1. ~ call.retryAmbiguous
      BY DEF Cautious
    <3>2. ~ ShouldRetryError(e)
      BY <3>1 DEF ShouldRetryError, IsAmbiguous
    <3>3. FailureKind(e) # "unsupported_method"
      BY DEF FailureKind
    <3> QED
      BY <2>1, <3>2, <3>3 DEF RaiseOrRetry, Return
  <2>4. Told' = "unknown"
    BY <2>2, <2>3 DEF Told, Meaning, Redirects
  <2> QED
    BY <2>3, <2>4 DEF AnswerInv
<1>5. CASE GarbledAnswer
  <2>1. ~ ShouldRetryError("DecodingError") /\ FailureKind("DecodingError") # "unsupported_method"
    BY DEF ShouldRetryError, IsRetryable, Terminal, FailureKind
  <2>2. /\ pc' = "done" /\ answer'.status = "503" /\ answer'.error = "DecodingError"
        /\ answer'.kind # "unsupported_method"
    BY <1>5, <2>1 DEF GarbledAnswer, RaiseOrRetry, Return
  <2>3. Told' = "unknown"
    BY <2>2 DEF Told, Meaning, Redirects, PreSend
  <2> QED
    BY <2>2, <2>3 DEF AnswerInv
<1>6. CASE FollowRedirect
  BY <1>6 DEF FollowRedirect, FollowsRedirects, Cautious
<1>7. CASE Receive
  <2>1. PICK s \in Statuses :
          /\ Responds(s)
          /\ IF ShouldRetryStatus(s) THEN pc' = "backoff" /\ UNCHANGED answer
             ELSE IF call.core /\ s \in Redirects
                  THEN Return("503", "none", "redirect refused")
                  ELSE Return(s, "none", "none")
    BY <1>7 DEF Receive
  <2>2. /\ <<attempt, "origin">> \in flight \cup effects /\ Copy = <<attempt, "origin">>
        /\ flight \subseteq {<<attempt, "origin">>} /\ effects' = effects
    BY <1>7 DEF Receive, AnswerInv, IInv, CautiousInv, Copy
  <2>3. s # "busy" => flight' = {}
    BY <2>1, <2>2 DEF Responds
  <2>4. s = "ok" => effects' # {}
    BY <2>1, <2>2 DEF Responds
  <2>5. /\ pc' = "done" /\ answer'.kind = "none"
        /\ \/ answer'.status = s /\ answer'.error = "none"
           \/ s \in Redirects /\ answer'.status = "503" /\ answer'.error = "redirect refused"
    <3>1. ~ ShouldRetryStatus(s)
      BY DEF ShouldRetryStatus, Cautious
    <3>2. CASE Return("503", "none", "redirect refused") /\ s \in Redirects
      BY <3>2 DEF Return
    <3>3. CASE Return(s, "none", "none")
      BY <3>3 DEF Return
    <3> QED
      BY <2>1, <3>1, <3>2, <3>3
  <2>6. /\ Told' = "yes" => s = "ok"
        /\ Told' = "settled" => s # "busy"
        /\ Told' # "unsent"
    BY <2>5 DEF Told, Meaning, Redirects, Statuses, PreSend
  <2> QED
    BY <2>3, <2>4, <2>5, <2>6 DEF AnswerInv
<1>8. CASE Deadline \/ Cancel
  <2>1. \/ pc' = "cancelled"
        \/ /\ pc' = "done" /\ answer'.status = "503" /\ answer'.kind = "none"
           /\ answer'.error = "deadline exceeded"
    BY <1>8, Returned DEF Deadline, Cancel
  <2>2. Told' = "unknown"
    BY <2>1 DEF Told, Meaning, Redirects, PreSend
  <2> QED
    BY <2>1, <2>2 DEF AnswerInv
<1>9. CASE Process
  <2>1. PICK k \in flight :
          /\ flight' = flight \ {k}
          /\ effects' = IF \E j \in effects : ReplayIdentity(j) = ReplayIdentity(k)
                        THEN effects ELSE effects \cup {k}
    BY <1>9 DEF Process
  <2>2. UNCHANGED <<pc, attempt, answer>>
    BY <1>9 DEF Process
  <2>3. k = <<attempt, "origin">> /\ effects \subseteq {k}
    BY <2>1 DEF IInv, CautiousInv
  <2>4. k \in effects'
    BY <2>1, <2>3
  <2>5. Told \notin {"yes", "settled", "unsent"}
    BY <2>1 DEF AnswerInv
  <2>6. Told' = Told
    BY <2>2 DEF Told
  <2> QED
    BY <2>2, <2>3, <2>4, <2>5, <2>6 DEF AnswerInv
<1>10. CASE UNCHANGED vars
  BY <1>10 DEF vars, AnswerInv, Told
<1>11. CASE Begin
  BY <1>1, <1>11 DEF Begin
<1> QED
  BY <1>2, <1>3, <1>4, <1>5, <1>6, <1>7, <1>8, <1>9, <1>10, <1>11 DEF Next

\* Only the producer makes an effect, and it tells the caller nothing.
LEMMA ProcessMaps ==
  ASSUME IInv, IInv', AnswerInv, Process
  PROVE  Careful!TakeEffect \/ UNCHANGED <<Cautious, call, Told, TookEffect>>
<1>1. PICK k \in flight : effects' = effects \/ effects' = effects \cup {k}
  BY DEF Process
<1>2. call' = call /\ Told' = Told /\ (Cautious' <=> Cautious)
  BY DEF Process, Told, Cautious
<1>3. Cautious => Told \notin {"yes", "settled", "unsent"}
  BY <1>1 DEF AnswerInv
<1>4. Told \in {"pending", "unknown", "yes", "settled", "unsent"}
  BY TellsWhenEnded
<1>5. TookEffect' = TookEffect \/ (TookEffect = "none" /\ TookEffect' = "once")
        \/ (TookEffect = "once" /\ TookEffect' = "more")
  BY <1>1 DEF TookEffect
<1>6. Cautious \/ call.keyed => TookEffect' # "more"
  BY <1>2 DEF IInv, CautiousInv, KeyedInv, TookEffect
<1> QED
  BY <1>2, <1>3, <1>4, <1>5, <1>6 DEF Careful!TakeEffect

\* Every step tells, takes effect, or shows nothing.
LEMMA StepMaps ==
  IInv /\ IInv' /\ AnswerInv /\ AnswerInv' /\ [Next]_vars => [Careful!Next]_(Careful!vars)
<1> SUFFICES ASSUME IInv, IInv', AnswerInv, AnswerInv', [Next]_vars
             PROVE  Careful!Next \/ UNCHANGED <<Cautious, call, Told, TookEffect>>
  BY DEF Careful!vars
<1>1. call' = call /\ (Cautious' <=> Cautious)
  BY ArgumentsStay DEF Cautious
<1>2. CASE Process
  BY <1>2, ProcessMaps DEF Careful!Next
<1>3. CASE UNCHANGED vars
  BY <1>1, <1>3 DEF vars, Told, TookEffect
<1>4. CASE Next /\ ~ Process
  <2>1. pc \in Live /\ effects' = effects
    BY <1>4 DEF Next, Live, RefuseMethod, RefuseCore, Begin, Send, FailUnsent, LoseAnswer, GarbledAnswer,
                FollowRedirect, Receive, NextAttempt, Deadline, Cancel
  <2>2. Told = "pending" /\ Told' \in Careful!Answers \cup {"pending"}
    BY <2>1, TellsWhenEnded DEF Careful!Answers
  <2>3. TookEffect' = TookEffect
    BY <2>1 DEF TookEffect
  <2>4. CASE Told' = "pending"
    BY <1>1, <2>2, <2>3, <2>4
  <2>5. CASE Told' \in Careful!Answers
    <3>1. Cautious /\ Told' = "yes" => TookEffect = "once"
      <4>1. Cautious => \A j, k \in effects : j = k
        BY DEF IInv, CautiousInv
      <4> QED
        BY <1>1, <2>1, <4>1 DEF AnswerInv, TookEffect
    <3>2. Cautious /\ Told' = "unsent" => TookEffect = "none"
      BY <1>1, <2>1 DEF AnswerInv, TookEffect
    <3>3. Careful!Tell(Told')
      BY <1>1, <2>2, <2>3, <3>1, <3>2 DEF Careful!Tell
    <3> QED
      BY <2>5, <3>3 DEF Careful!Next
  <2> QED
    BY <2>2, <2>4, <2>5
<1> QED
  BY <1>2, <1>3, <1>4

\* The call starts with nothing told and no effect.
LEMMA InitMaps == Init => Careful!Init /\ AnswerInv
<1> SUFFICES ASSUME Init
             PROVE  Careful!Init /\ AnswerInv
  OBVIOUS
<1>1. Told = "pending" /\ TookEffect = "none" /\ pc = "start"
  BY DEF Init, Told, TookEffect
<1>2. Cautious \in BOOLEAN /\ (Cautious \/ call.keyed) \in BOOLEAN
  BY DEF Cautious
<1> QED
  BY <1>1, <1>2 DEF Careful!Init, AnswerInv

\* An upstream call keeps the promise of CarefulCall, whatever its arguments:
\* what request_with_retry_outcome tells a caller that replays nothing
\* ambiguous is true of the producer, for good (http_retry_policy.py:56-71,
\* http_json_resilience.py:278-282).
THEOREM CarefulRefinement == Spec => ImplementsCarefulCall
<1>1. Init => Careful!Init /\ AnswerInv
  BY InitMaps
<1>2. Spec => []AnswerInv
  BY <1>1, AnswerPreserved, Invariance, PTL DEF Spec
<1>3. IInv /\ IInv' /\ AnswerInv /\ AnswerInv' /\ [Next]_vars => [Careful!Next]_(Careful!vars)
  BY StepMaps
<1> QED
  BY <1>1, <1>2, <1>3, Invariance, PTL DEF Spec, Careful!Spec, ImplementsCarefulCall

-----------------------------------------------------------------------------
\* What a call has left is a number; a call that goes on has a step left.
StepsCount ==
  /\ StepsLeft \in Nat
  /\ pc \in Live => /\ StepsLeft > 0
                   /\ StepsInAttempt \in 1..6
                   /\ StepsLeft = 6 * (RetryAttempts(call.maxRetries) - attempt) + StepsInAttempt

LEMMA StepsAre == IInv => StepsCount
<1> SUFFICES ASSUME TypeOK, LoopInv PROVE StepsCount
  BY DEF IInv
<1>1. RetryAttempts(call.maxRetries) \in Nat /\ attempt \in Nat /\ attempt < RetryAttempts(call.maxRetries)
  BY CallAssumption DEF TypeOK, LoopInv, RetryAttempts, CallType
<1>2. PICK n \in Nat : n = RetryAttempts(call.maxRetries) - attempt
  BY <1>1
<1>3. CASE pc \in Live
  <2>1. StepsInAttempt \in 1..6
    BY <1>3 DEF StepsInAttempt, Live
  <2>2. StepsLeft = 6 * n + StepsInAttempt
    BY <1>2, <1>3 DEF StepsLeft, StepsOfAttempt, Ended, Live
  <2> QED BY <1>2, <2>1, <2>2 DEF StepsCount
<1>4. CASE Ended
  BY <1>4 DEF StepsLeft, Ended, Live, StepsCount
<1> QED BY <1>3, <1>4 DEF TypeOK, Live, Ended

\* Where a step of the call leaves it: it has ended, it is nearer to the end
\* of its attempt, or it begins the next one.
LEMMA StepsTake ==
  ASSUME IInv, Next, ~Process
  PROVE  /\ pc \in Live
         /\ \/ Ended'
            \/ pc' \in Live /\ attempt' = attempt /\ StepsInAttempt' < StepsInAttempt
            \/ pc' \in Live /\ attempt' = attempt + 1 /\ pc = "backoff" /\ pc' = "unsent"
<1>1. CASE RefuseMethod \/ RefuseCore \/ Deadline \/ Cancel
  <2>1. pc \in Live /\ pc' \in {"done", "raised", "cancelled"}
    BY <1>1, Zenon DEF RefuseMethod, RefuseCore, Deadline, Cancel, Return, Live
  <2> QED BY <2>1 DEF Ended
<1>2. CASE Begin \/ Send
  BY <1>2 DEF Begin, Send, Live, StepsInAttempt
<1>3. ASSUME NEW e, RaiseOrRetry(e), pc \in {"unsent", "sent"}, attempt' = attempt
      PROVE  Ended' \/ (pc' \in Live /\ attempt' = attempt /\ StepsInAttempt' < StepsInAttempt)
  <2>1. pc' = "backoff" \/ pc' = "done"
    BY <1>3, Zenon DEF RaiseOrRetry, Return
  <2> QED BY <1>3, <2>1 DEF Live, Ended, StepsInAttempt
<1>4. CASE FailUnsent \/ LoseAnswer \/ GarbledAnswer
  BY <1>3, <1>4 DEF FailUnsent, LoseAnswer, GarbledAnswer, Live
<1>5. CASE FollowRedirect
  <2>1. /\ pc = "sent" /\ attempt' = attempt
        /\ \/ hop = "origin" /\ hop' # "origin" /\ pc' = "unsent"
           \/ RaiseOrRetry("TooManyRedirects")
    BY <1>5 DEF FollowRedirect
  <2> QED BY <1>3, <2>1 DEF Live, StepsInAttempt
<1>6. CASE Receive
  <2>1. pc = "sent" /\ attempt' = attempt /\ (pc' = "backoff" \/ pc' = "done")
    BY <1>6, Zenon DEF Receive, Return
  <2> QED BY <2>1 DEF Live, Ended, StepsInAttempt
<1>7. CASE NextAttempt
  <2>1. pc = "backoff" /\ attempt' = attempt + 1 /\ (pc' = "unsent" \/ pc' = "done")
    BY <1>7, Zenon DEF NextAttempt, Return
  <2> QED BY <2>1 DEF Live, Ended
<1> QED BY <1>1, <1>2, <1>4, <1>5, <1>6, <1>7 DEF Next

\* The loop of _execute_json_request ends for every policy, whatever each
\* attempt meets, redirects included: it has no more than StepsLeft steps.
THEOREM StepsRunOutHolds == Spec => StepsRunOut
<1>1. IInv /\ IInv' /\ [Next]_vars => [~Process => StepsLeft' >= 0 /\ StepsLeft' < StepsLeft]_vars
  <2> SUFFICES ASSUME IInv, IInv', Next, ~Process
               PROVE  StepsLeft' >= 0 /\ StepsLeft' < StepsLeft
    BY DEF vars
  <2>1. /\ StepsLeft \in Nat /\ StepsLeft > 0 /\ StepsInAttempt \in 1..6
        /\ StepsLeft = 6 * (RetryAttempts(call.maxRetries) - attempt) + StepsInAttempt
    BY StepsAre, StepsTake DEF StepsCount
  <2>2. /\ StepsLeft' \in Nat
        /\ pc' \in Live => /\ StepsInAttempt' \in 1..6
                          /\ StepsLeft' = 6 * (RetryAttempts(call.maxRetries)' - attempt') + StepsInAttempt'
    <3>1. StepsCount'
      BY StepsAre, PTL
    <3> QED BY <3>1 DEF StepsCount
  <2>3. /\ attempt \in Nat /\ RetryAttempts(call.maxRetries) \in Nat
        /\ RetryAttempts(call.maxRetries)' = RetryAttempts(call.maxRetries)
    BY ArgumentsStay, CallAssumption DEF IInv, TypeOK, RetryAttempts, CallType
  <2>4. CASE Ended'
    BY <2>1, <2>4 DEF StepsLeft
  <2>5. CASE pc' \in Live /\ attempt' = attempt /\ StepsInAttempt' < StepsInAttempt
    BY <2>1, <2>2, <2>3, <2>5
  <2>6. CASE pc' \in Live /\ attempt' = attempt + 1 /\ pc = "backoff" /\ pc' = "unsent"
    <3>1. StepsInAttempt = 1 /\ StepsInAttempt' <= 5
      BY <2>6 DEF StepsInAttempt
    <3> QED BY <2>1, <2>2, <2>3, <2>6, <3>1
  <2> QED BY <2>4, <2>5, <2>6, StepsTake
<1> QED BY <1>1, Invariance, PTL DEF Spec, StepsRunOut
=============================================================================
