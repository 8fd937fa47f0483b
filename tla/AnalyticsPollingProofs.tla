----------------------- MODULE AnalyticsPollingProofs -----------------------
(***************************************************************************)
(* Proofs about AnalyticsPolling, for any budgets, caps, cadences and      *)
(* fallback interval.                                                      *)
(***************************************************************************)
EXTENDS AnalyticsPollingProperties, TLAPS

\* The calculation is read only after it was accepted, where it may be read.
PhaseInv ==
  /\ pc \in {"start", "submitting"} => ~accepted /\ ~named /\ answer = NoAnswer
  /\ pc \in {"napping", "reading"} =>
       accepted /\ answer = NoAnswer /\ (call.admitted => path = "home")

\* A sleep outlasts the cadence that was asked for, or the budget.
NapInv ==
  pc = "napping" => wait <= nap \/ (call.bounded /\ left <= nap)

EndInv ==
  /\ LateAnswerIsDeadline
  /\ DeadlineKeepsIdentity
  /\ AcceptedIsPursued

IInv == TypeOK /\ PhaseInv /\ NapInv /\ EndInv

LEMMA CallTypes ==
  ASSUME TypeOK
  PROVE  /\ call.bounded \in BOOLEAN /\ call.capped \in BOOLEAN /\ call.admitted \in BOOLEAN
         /\ call.budget \in Nat
BY PollingAssumption DEF TypeOK, CallType

\* The interval is positive, and what poll_interval makes of it is bounded by
\* it and by the budget.
LEMMA Intervals ==
  ASSUME TypeOK, NEW o \in Outcomes
  PROVE  /\ Recommended(o) \in Nat /\ Recommended(o) > 0
         /\ PollInterval(o) \in Nat
         /\ \/ PollInterval(o) = Recommended(o)
            \/ call.bounded /\ PollInterval(o) = left
         /\ PollInterval(o) = 0 => Expired
<1>1. Recommended(o) \in Nat /\ Recommended(o) > 0
  <2>1. o.guidance \in Nat
    <3>1. o.guidance \in Guidance \cup {0}
      BY DEF Outcomes
    <3>2. CASE o.guidance = 0
      BY <3>2
    <3>3. CASE o.guidance \in Guidance
      BY <3>3, PollingAssumption
    <3> QED BY <3>1, <3>2, <3>3
  <2>2. Fallback \in Nat /\ Fallback > 0
    BY PollingAssumption
  <2> QED BY <2>1, <2>2 DEF Recommended
<1>2. left \in Nat
  BY DEF TypeOK
<1> QED BY <1>1, <1>2 DEF PollInterval, Expired

\* What a sleep leaves behind.
LEMMA NapEffect ==
  ASSUME TypeOK, NEW o \in Outcomes, StartNap(o)
  PROVE  /\ wait' \in Nat /\ nap' \in Nat
         /\ \/ /\ pc' = "napping" /\ answer' = answer
               /\ wait' <= nap' \/ (call.bounded /\ left <= nap')
            \/ pc' = "done" /\ answer' = DeadlineAnswer(TRUE) /\ Expired
<1>1. wait' = Recommended(o) /\ nap' = PollInterval(o)
  BY DEF StartNap
<1>2. left \in Nat
  BY DEF TypeOK
<1>3. /\ Recommended(o) \in Nat /\ PollInterval(o) \in Nat
      /\ PollInterval(o) = Recommended(o) \/ (call.bounded /\ PollInterval(o) = left)
      /\ PollInterval(o) = 0 => Expired
  BY Intervals
<1>4. CASE PollInterval(o) > 0
  BY <1>1, <1>2, <1>3, <1>4 DEF StartNap
<1>5. CASE PollInterval(o) = 0
  <2>1. pc' = "done" /\ answer' = DeadlineAnswer(TRUE)
    BY <1>5 DEF StartNap, ReturnDeadline
  <2>2. wait' \in Nat /\ nap' \in Nat
    BY <1>1, <1>3
  <2>3. Expired
    BY <1>3, <1>5
  <2> QED BY <2>1, <2>2, <2>3
<1>6. PollInterval(o) > 0 \/ PollInterval(o) = 0
  BY <1>3
<1> QED BY <1>4, <1>5, <1>6

LEMMA AnswerTypes ==
  /\ \A b \in BOOLEAN : DeadlineAnswer(b) \in AnswerType
  /\ \A s \in SourceStatuses \cup GatewayStatuses \cup {"refused"} :
       [status |-> s, identity |-> FALSE] \in AnswerType
BY DEF DeadlineAnswer, AnswerType, ReadStatuses

\* The initial states satisfy the inductive invariant.
LEMMA InitEstablishes == Init => IInv
<1> SUFFICES ASSUME Init PROVE IInv
  OBVIOUS
<1> USE PollingAssumption DEF Init
<1>1. TypeOK
  BY DEF TypeOK, CallType, Paths, AnswerType, ReadStatuses, SourceStatuses, NoAnswer
<1>2. PhaseInv /\ NapInv /\ EndInv
  BY DEF PhaseInv, NapInv, EndInv, NoAnswer, LateAnswerIsDeadline, DeadlineKeepsIdentity,
         AcceptedIsPursued
<1> QED BY <1>1, <1>2 DEF IInv

\* An answer at the deadline, of a calculation that is known or not, keeps
\* the invariant; so does an answer before it.
LEMMA DeadlineAnswered ==
  ASSUME IInv, Expired, NEW b \in BOOLEAN, pc' = "done", answer' = DeadlineAnswer(b),
         (accepted \/ named)' = b, UNCHANGED <<call, left>>
  PROVE  PhaseInv' /\ NapInv' /\ EndInv'
BY DEF PhaseInv, NapInv, EndInv, LateAnswerIsDeadline, DeadlineKeepsIdentity,
       AcceptedIsPursued, DeadlineAnswer, Expired

\* Every step preserves the inductive invariant.
LEMMA NextPreserves == IInv /\ [Next]_vars => IInv'
<1> SUFFICES ASSUME IInv, [Next]_vars PROVE IInv'
  OBVIOUS
<1>0. TypeOK
  BY DEF IInv
<1>1. CASE Submit
  <2>1. UNCHANGED <<call, left, nap, reads, last, path, accepted, named, wait>> /\ pc = "start"
    BY <1>1 DEF Submit
  <2>2. ~accepted /\ ~named /\ answer = NoAnswer
    BY <2>1 DEF IInv, PhaseInv
  <2>3. CASE Expired
    <3>1. pc' = "done" /\ answer' = DeadlineAnswer(FALSE)
      BY <1>1, <2>3 DEF Submit, ReturnDeadline
    <3>2. (accepted \/ named)' = FALSE
      BY <1>0, <2>1, <2>2 DEF TypeOK
    <3>3. TypeOK'
      BY <1>0, <2>1, <3>1, AnswerTypes DEF TypeOK
    <3> QED BY <2>1, <2>3, <3>1, <3>2, <3>3, DeadlineAnswered DEF IInv
  <2>4. CASE ~Expired
    <3>1. pc' = "submitting" /\ answer' = answer
      BY <1>1, <2>4 DEF Submit
    <3>2. TypeOK'
      BY <1>0, <2>1, <3>1 DEF TypeOK
    <3>3. PhaseInv' /\ NapInv' /\ EndInv'
      BY <2>1, <2>2, <3>1 DEF IInv, PhaseInv, NapInv, EndInv, LateAnswerIsDeadline,
         DeadlineKeepsIdentity, AcceptedIsPursued, NoAnswer
    <3> QED BY <3>2, <3>3 DEF IInv
  <2> QED BY <2>3, <2>4
<1>2. CASE Submitted
  <2>1. PICK o \in Outcomes :
          /\ accepted' = IsAccepted(o) /\ named' = IsNamed(o)
          /\ path' = IF o.status = "pending" THEN o.path ELSE "none"
          /\ IF Expired /\ o.status # "source 504"
             THEN ReturnDeadline(IsAccepted(o) \/ IsNamed(o)) /\ UNCHANGED <<nap, wait>>
             ELSE IF ~IsAccepted(o)
             THEN Return(Admitted(o.status)) /\ UNCHANGED <<nap, wait>>
             ELSE IF OutsideSource(o.path)
             THEN Return("refused") /\ UNCHANGED <<nap, wait>>
             ELSE StartNap(o)
    BY <1>2 DEF Submitted
  <2>2. UNCHANGED <<call, left, reads, last>> /\ pc = "submitting"
    BY <1>2 DEF Submitted
  <2>3. answer = NoAnswer
    BY <2>2 DEF IInv, PhaseInv
  <2>4. /\ o.status \in SourceStatuses \cup GatewayStatuses
        /\ o.path \in Paths /\ path' \in Paths
        /\ IsAccepted(o) \in BOOLEAN /\ accepted' \in BOOLEAN
        /\ IsNamed(o) \in BOOLEAN /\ named' \in BOOLEAN
    BY <2>1 DEF Outcomes, Paths, IsAccepted, IsNamed
  <2>5. CASE Expired /\ o.status # "source 504"
    <3>1. pc' = "done" /\ answer' = DeadlineAnswer(IsAccepted(o) \/ IsNamed(o)) /\ UNCHANGED <<nap, wait>>
      BY <2>1, <2>5 DEF ReturnDeadline
    <3>2. TypeOK'
      BY <1>0, <2>2, <2>4, <3>1, AnswerTypes DEF TypeOK
    <3>3. PhaseInv' /\ NapInv' /\ EndInv'
      BY <2>1, <2>2, <2>4, <2>5, <3>1, DeadlineAnswered
    <3> QED BY <3>2, <3>3 DEF IInv
  <2>6. CASE ~(Expired /\ o.status # "source 504") /\ ~IsAccepted(o)
    <3>1. /\ pc' = "done" /\ UNCHANGED <<nap, wait>> /\ ~accepted'
          /\ answer' = [status |-> Admitted(o.status), identity |-> FALSE]
      BY <2>1, <2>6 DEF Return
    <3>2. /\ Admitted(o.status) \in SourceStatuses \cup GatewayStatuses \cup {"refused"}
          /\ Expired => Admitted(o.status) = "source 504"
      BY <2>4, <2>6 DEF Admitted
    <3>3. answer' \in AnswerType /\ answer'.status = Admitted(o.status)
      BY <3>1, <3>2, AnswerTypes
    <3>4. TypeOK'
      BY <1>0, <2>2, <2>4, <3>1, <3>3 DEF TypeOK
    <3>5. LateAnswerIsDeadline' /\ DeadlineKeepsIdentity'
      BY <2>2, <3>1, <3>2, <3>3 DEF LateAnswerIsDeadline, DeadlineKeepsIdentity, Expired,
         SourceStatuses, GatewayStatuses
    <3>6. PhaseInv' /\ NapInv' /\ AcceptedIsPursued'
      BY <3>1 DEF PhaseInv, NapInv, AcceptedIsPursued
    <3> QED BY <3>4, <3>5, <3>6 DEF IInv, EndInv
  <2>7. CASE /\ ~(Expired /\ o.status # "source 504") /\ IsAccepted(o)
             /\ OutsideSource(o.path)
    <3>1. /\ pc' = "done" /\ UNCHANGED <<nap, wait>>
          /\ answer' = [status |-> "refused", identity |-> FALSE]
      BY <2>1, <2>7 DEF Return
    <3>2. ~Expired
      BY <2>7 DEF IsAccepted
    <3>3. answer' \in AnswerType /\ answer'.status = "refused"
      BY <3>1, AnswerTypes
    <3>4. TypeOK'
      BY <1>0, <2>2, <2>4, <3>1, <3>3 DEF TypeOK
    <3>5. PhaseInv' /\ NapInv' /\ EndInv'
      BY <2>2, <3>1, <3>2, <3>3 DEF PhaseInv, NapInv, EndInv, LateAnswerIsDeadline,
         DeadlineKeepsIdentity, AcceptedIsPursued, Expired
    <3> QED BY <3>4, <3>5 DEF IInv
  <2>8. CASE /\ ~(Expired /\ o.status # "source 504") /\ IsAccepted(o)
             /\ ~OutsideSource(o.path)
    <3>1. StartNap(o) /\ accepted'
      BY <2>1, <2>8
    <3>2. call.admitted => path' = "home"
      BY <2>1, <2>4, <2>8 DEF OutsideSource, IsAccepted, Paths
    <3>3. ~Expired
      BY <2>8 DEF IsAccepted
    <3>4. /\ pc' = "napping" /\ answer' = answer
          /\ wait' \in Nat /\ nap' \in Nat
          /\ wait' <= nap' \/ (call.bounded /\ left <= nap')
      BY <1>0, <3>1, <3>3, NapEffect
    <3>5. TypeOK'
      BY <1>0, <2>2, <2>4, <3>4 DEF TypeOK
    <3>6. PhaseInv' /\ NapInv' /\ EndInv'
      BY <2>2, <2>3, <3>1, <3>2, <3>4 DEF PhaseInv, NapInv, EndInv, LateAnswerIsDeadline,
         DeadlineKeepsIdentity, AcceptedIsPursued, NoAnswer
    <3> QED BY <3>5, <3>6 DEF IInv
  <2> QED BY <2>5, <2>6, <2>7, <2>8
<1>3. CASE SubmissionTimesOut
  <2>1. /\ UNCHANGED <<call, left, nap, reads, last, path, accepted, named, wait>> /\ pc = "submitting"
        /\ Expired /\ pc' = "done" /\ answer' = DeadlineAnswer(FALSE)
    BY <1>3 DEF SubmissionTimesOut, ReturnDeadline
  <2>2. (accepted \/ named)' = FALSE
    BY <1>0, <2>1 DEF IInv, PhaseInv, TypeOK
  <2>3. TypeOK'
    BY <1>0, <2>1, AnswerTypes DEF TypeOK
  <2> QED BY <2>1, <2>2, <2>3, DeadlineAnswered DEF IInv
<1>4. CASE Wake
  <2>1. UNCHANGED <<call, left, nap, reads, last, path, accepted, named, wait>> /\ pc = "napping"
    BY <1>4 DEF Wake
  <2>2. accepted = TRUE /\ answer = NoAnswer /\ (call.admitted => path = "home")
    BY <1>0, <2>1 DEF IInv, PhaseInv, TypeOK
  <2>3. CASE call.capped /\ reads >= call.cap
    <3>1. pc' = "done" /\ answer' = [status |-> last, identity |-> FALSE]
      BY <1>4, <2>3 DEF Wake, Return
    <3>2. answer' \in AnswerType /\ answer'.status # "deadline"
      BY <1>0, <3>1, AnswerTypes DEF TypeOK, ReadStatuses, SourceStatuses, GatewayStatuses
    <3>3. TypeOK'
      BY <1>0, <2>1, <3>1, <3>2 DEF TypeOK
    <3>4. PhaseInv' /\ NapInv' /\ EndInv'
      BY <2>1, <2>3, <3>1, <3>2 DEF PhaseInv, NapInv, EndInv, LateAnswerIsDeadline,
         DeadlineKeepsIdentity, AcceptedIsPursued
    <3> QED BY <3>3, <3>4 DEF IInv
  <2>4. CASE ~(call.capped /\ reads >= call.cap) /\ Expired
    <3>1. pc' = "done" /\ answer' = DeadlineAnswer(TRUE)
      BY <1>4, <2>4 DEF Wake, ReturnDeadline
    <3>2. TypeOK'
      BY <1>0, <2>1, <3>1, AnswerTypes DEF TypeOK
    <3> QED BY <2>1, <2>2, <2>4, <3>1, <3>2, DeadlineAnswered DEF IInv
  <2>5. CASE ~(call.capped /\ reads >= call.cap) /\ ~Expired
    <3>1. pc' = "reading" /\ answer' = answer
      BY <1>4, <2>5 DEF Wake
    <3>2. TypeOK'
      BY <1>0, <2>1, <3>1 DEF TypeOK
    <3>3. PhaseInv' /\ NapInv' /\ EndInv'
      BY <2>1, <2>2, <3>1 DEF PhaseInv, NapInv, EndInv, LateAnswerIsDeadline,
         DeadlineKeepsIdentity, AcceptedIsPursued, NoAnswer
    <3> QED BY <3>2, <3>3 DEF IInv
  <2> QED BY <2>3, <2>4, <2>5
<1>5. CASE Read
  <2>1. PICK o \in Outcomes :
          IF Expired THEN ReturnDeadline(TRUE) /\ UNCHANGED <<nap, wait>>
          ELSE IF Continues(o) THEN StartNap(o)
          ELSE Return(Admitted(o.status)) /\ UNCHANGED <<nap, wait>>
    BY <1>5 DEF Read
  <2>2. /\ UNCHANGED <<call, left, path, accepted, named>> /\ pc = "reading"
        /\ reads' = reads + 1 /\ last' \in ReadStatuses
    BY <1>5 DEF Read, Counted, Outcomes, Admitted, ReadStatuses
  <2>3. accepted = TRUE /\ answer = NoAnswer /\ (call.admitted => path = "home")
    BY <1>0, <2>2 DEF IInv, PhaseInv, TypeOK
  <2>4. CASE Expired
    <3>1. pc' = "done" /\ answer' = DeadlineAnswer(TRUE) /\ UNCHANGED <<nap, wait>>
      BY <2>1, <2>4 DEF ReturnDeadline
    <3>2. TypeOK'
      <4>1. answer' \in AnswerType
        BY <3>1, AnswerTypes
      <4>2. reads' \in Nat
        BY <1>0, <2>2 DEF TypeOK
      <4> QED BY <1>0, <2>2, <3>1, <4>1, <4>2 DEF TypeOK
    <3> QED BY <2>2, <2>3, <2>4, <3>1, <3>2, DeadlineAnswered DEF IInv
  <2>5. CASE ~Expired /\ Continues(o)
    <3>1. /\ pc' = "napping" /\ answer' = answer
          /\ wait' \in Nat /\ nap' \in Nat
          /\ wait' <= nap' \/ (call.bounded /\ left <= nap')
      BY <1>0, <2>1, <2>5, NapEffect
    <3>2. TypeOK'
      BY <1>0, <2>2, <3>1 DEF TypeOK
    <3>3. PhaseInv' /\ NapInv' /\ EndInv'
      BY <2>2, <2>3, <3>1 DEF PhaseInv, NapInv, EndInv, LateAnswerIsDeadline,
         DeadlineKeepsIdentity, AcceptedIsPursued, NoAnswer
    <3> QED BY <3>2, <3>3 DEF IInv
  <2>6. CASE ~Expired /\ ~Continues(o)
    <3>1. /\ pc' = "done" /\ UNCHANGED <<nap, wait>>
          /\ answer' = [status |-> Admitted(o.status), identity |-> FALSE]
      BY <2>1, <2>6 DEF Return
    <3>2. /\ Admitted(o.status) \in SourceStatuses \cup GatewayStatuses \cup {"refused"}
          /\ Admitted(o.status) # "pending"
          /\ call.bounded => Admitted(o.status) # "transient"
      BY <2>6 DEF Admitted, Continues, Outcomes
    <3>3. answer' \in AnswerType /\ answer'.status = Admitted(o.status)
      BY <3>1, <3>2, AnswerTypes
    <3>4. TypeOK'
      BY <1>0, <2>2, <3>1, <3>3 DEF TypeOK
    <3>5. LateAnswerIsDeadline' /\ DeadlineKeepsIdentity'
      BY <2>2, <2>6, <3>1, <3>2, <3>3 DEF LateAnswerIsDeadline, DeadlineKeepsIdentity, Expired,
         SourceStatuses, GatewayStatuses
    <3>6. PhaseInv' /\ NapInv' /\ AcceptedIsPursued'
      BY <2>2, <3>1, <3>2, <3>3 DEF PhaseInv, NapInv, AcceptedIsPursued
    <3> QED BY <3>4, <3>5, <3>6 DEF IInv, EndInv
  <2> QED BY <2>4, <2>5, <2>6
<1>6. CASE ReadTimesOut
  <2>1. /\ UNCHANGED <<call, left, nap, reads, last, path, accepted, named, wait>> /\ pc = "reading"
        /\ Expired /\ pc' = "done" /\ answer' = DeadlineAnswer(TRUE)
    BY <1>6 DEF ReadTimesOut, ReturnDeadline
  <2>2. accepted' = TRUE
    BY <1>0, <2>1 DEF IInv, PhaseInv, TypeOK
  <2>3. TypeOK'
    BY <1>0, <2>1, AnswerTypes DEF TypeOK
  <2> QED BY <2>1, <2>2, <2>3, DeadlineAnswered DEF IInv
<1>7. CASE Cancel
  <2>1. UNCHANGED <<call, left, nap, reads, last, path, answer, accepted, named, wait>> /\ pc' = "cancelled"
    BY <1>7 DEF Cancel
  <2>2. TypeOK'
    BY <1>0, <2>1 DEF TypeOK
  <2>3. PhaseInv' /\ NapInv' /\ EndInv'
    BY <2>1 DEF IInv, PhaseInv, NapInv, EndInv, LateAnswerIsDeadline, DeadlineKeepsIdentity,
       AcceptedIsPursued
  <2> QED BY <2>2, <2>3 DEF IInv
<1>8. CASE Tick
  <2>1. /\ UNCHANGED <<call, pc, reads, last, path, answer, accepted, named>> /\ pc # "done"
        /\ left' = Down(left) /\ nap' = Down(nap) /\ wait' = Down(wait)
    BY <1>8 DEF Tick
  <2>2. TypeOK'
    BY <1>0, <2>1 DEF TypeOK, Down
  <2>3. PhaseInv'
    BY <2>1 DEF IInv, PhaseInv
  <2>4. NapInv'
    BY <1>0, <2>1 DEF IInv, NapInv, TypeOK, Down
  <2>5. EndInv'
    BY <2>1 DEF IInv, EndInv, LateAnswerIsDeadline, DeadlineKeepsIdentity, AcceptedIsPursued
  <2> QED BY <2>2, <2>3, <2>4, <2>5 DEF IInv
<1>9. CASE UNCHANGED vars
  BY <1>9 DEF vars, IInv, TypeOK, PhaseInv, NapInv, EndInv, LateAnswerIsDeadline,
     DeadlineKeepsIdentity, AcceptedIsPursued
<1> QED
  BY <1>1, <1>2, <1>3, <1>4, <1>5, <1>6, <1>7, <1>8, <1>9 DEF Next

\* The inductive invariant holds in every reachable state.
THEOREM Invariance == Spec => []IInv
<1> QED BY InitEstablishes, NextPreserves, PTL DEF Spec

\* Type correctness.
THEOREM TypeCorrect == Spec => []TypeOK
<1>1. IInv => TypeOK
  BY DEF IInv
<1> QED BY Invariance, <1>1, PTL

\* An answer given when the budget is used up is the deadline's.
THEOREM LateAnswers == Spec => []LateAnswerIsDeadline
<1>1. IInv => LateAnswerIsDeadline
  BY DEF IInv, EndInv
<1> QED BY Invariance, <1>1, PTL

\* A deadline answer names the calculation iff the source accepted it.
THEOREM Identity == Spec => []DeadlineKeepsIdentity
<1>1. IInv => DeadlineKeepsIdentity
  BY DEF IInv, EndInv
<1> QED BY Invariance, <1>1, PTL

\* An accepted bounded calculation is pursued through transport failures.
THEOREM Pursued == Spec => []AcceptedIsPursued
<1>1. IInv => AcceptedIsPursued
  BY DEF IInv, EndInv
<1> QED BY Invariance, <1>1, PTL

\* A bounded call ends with the deadline's answer or with the source's.
THEOREM BoundedAnswers == Spec => []BoundedAnswer
<1>1. LateAnswerIsDeadline /\ AcceptedIsPursued => BoundedAnswer
  BY DEF BoundedAnswer
<1> QED BY LateAnswers, Pursued, <1>1, PTL

\* Admitted authority goes to the configured source only.
THEOREM AuthorityHome == Spec => []AuthorityStaysHome
<1>1. IInv => AuthorityStaysHome
  BY DEF IInv, PhaseInv, AuthorityStaysHome
<1> QED BY Invariance, <1>1, PTL

\* A read starts only when the cadence of the last response is over and, for
\* a bounded call, the budget is not: poll_interval and the checks around it.
THEOREM InTime == Spec => ReadsInTime
<1>1. IInv /\ [Next]_vars => [StartsReading => wait = 0 /\ (call.bounded => left > 0)]_vars
  <2> SUFFICES ASSUME IInv, Next, StartsReading
               PROVE  wait = 0 /\ (call.bounded => left > 0)
    BY DEF vars, StartsReading
  <2>1. Wake
    <3>1. ~Submit /\ ~SubmissionTimesOut /\ ~ReadTimesOut /\ ~Cancel /\ ~Tick
      BY DEF StartsReading, Submit, SubmissionTimesOut, ReadTimesOut, Cancel, Tick, ReturnDeadline
    <3>2. ASSUME Submitted PROVE FALSE
      BY <3>2 DEF StartsReading, Submitted, ReturnDeadline, Return, StartNap
    <3>3. ~Read
      BY DEF StartsReading, Read
    <3> QED BY <3>1, <3>2, <3>3 DEF Next
  <2>2. /\ pc = "napping" /\ nap = 0 /\ ~Expired
    BY <2>1 DEF Wake, StartsReading, Return, ReturnDeadline
  <2>3. left \in Nat /\ nap \in Nat /\ wait \in Nat
    BY DEF IInv, TypeOK
  <2>4. wait <= 0 \/ (call.bounded /\ left <= 0)
    BY <2>2 DEF IInv, NapInv
  <2> QED BY <2>2, <2>3, <2>4 DEF Expired
<1> QED BY Invariance, <1>1, PTL DEF Spec, ReadsInTime

-----------------------------------------------------------------------------
(***************************************************************************)
(* The safety core of CallsEnd: no sleep outlasts the budget, and no read  *)
(* is made beyond the cap.                                                 *)
(***************************************************************************)
TurnInv ==
  /\ call.bounded /\ pc = "napping" => nap <= left
  /\ call.capped => reads <= call.cap /\ (pc = "reading" => reads < call.cap)

Naps == /\ pc' = "napping" /\ nap' \in Nat /\ nap' > 0
        /\ call.bounded => nap' <= left

\* A sleep is of the cadence that was asked for, or of what the budget has left.
LEMMA NapFits ==
  ASSUME TypeOK, NEW o \in Outcomes, StartNap(o)
  PROVE  pc' = "done" \/ Naps
<1>1. nap' = PollInterval(o) /\ ((pc' = "napping" /\ PollInterval(o) > 0) \/ pc' = "done")
  BY DEF StartNap, ReturnDeadline
<1>2. PollInterval(o) \in Nat /\ (call.bounded => PollInterval(o) <= left)
  <2>1. Recommended(o) \in Nat /\ PollInterval(o) \in Nat /\ left \in Nat
    BY Intervals DEF TypeOK
  <2> QED BY <2>1 DEF PollInterval
<1> QED BY <1>1, <1>2 DEF Naps

\* What a step does to the place of a call in its loop and to its timers.
LEMMA Moves ==
  ASSUME TypeOK, Next
  PROVE  /\ call' = call /\ ~Ended
         /\ \/ Ended'
            \/ pc = "start" /\ pc' = "submitting" /\ left' = left /\ nap' = nap /\ reads' = reads
            \/ pc = "submitting" /\ Naps /\ left' = left /\ reads' = reads
            \/ /\ pc = "napping" /\ nap = 0 /\ pc' = "reading" /\ left' = left /\ nap' = nap /\ reads' = reads
               /\ call.capped => reads < call.cap
            \/ pc = "reading" /\ Naps /\ left' = left /\ reads' = reads + 1
            \/ Tick
<1>1. CASE Submit
  BY <1>1, Zenon DEF Submit, ReturnDeadline, Ended
<1>2. CASE Submitted
  <2>1. pc = "submitting" /\ call' = call /\ left' = left /\ reads' = reads
    BY <1>2, Zenon DEF Submitted
  <2>2. pc' = "done" \/ \E o \in Outcomes : StartNap(o)
    BY <1>2, Zenon DEF Submitted, ReturnDeadline, Return
  <2> QED BY <2>1, <2>2, NapFits DEF Ended
<1>3. CASE SubmissionTimesOut \/ ReadTimesOut \/ Cancel
  BY <1>3, Zenon DEF SubmissionTimesOut, ReadTimesOut, Cancel, ReturnDeadline, Ended
<1>4. CASE Wake
  <2>1. /\ pc = "napping" /\ nap = 0 /\ call' = call /\ left' = left /\ nap' = nap /\ reads' = reads
        /\ pc' = "done" \/ (pc' = "reading" /\ ~(call.capped /\ reads >= call.cap))
    BY <1>4, Zenon DEF Wake, ReturnDeadline, Return
  <2>2. reads \in Nat /\ call.cap \in Nat
    BY PollingAssumption DEF TypeOK, CallType
  <2> QED BY <2>1, <2>2 DEF Ended
<1>5. CASE Read
  <2>1. pc = "reading" /\ call' = call /\ left' = left /\ reads' = reads + 1
    BY <1>5 DEF Read, Counted
  <2>2. pc' = "done" \/ \E o \in Outcomes : StartNap(o)
    BY <1>5, Zenon DEF Read, ReturnDeadline, Return
  <2> QED BY <2>1, <2>2, NapFits DEF Ended
<1>6. CASE Tick
  BY <1>6 DEF Tick, Ended
<1> QED BY <1>1, <1>2, <1>3, <1>4, <1>5, <1>6 DEF Next

\* The types of what the turns are counted by.
LEMMA TurnTypes ==
  ASSUME TypeOK
  PROVE  left \in Nat /\ nap \in Nat /\ reads \in Nat /\ call.cap \in Nat
BY PollingAssumption DEF TypeOK, CallType

LEMMA TurnStep == IInv /\ TurnInv /\ [Next]_vars => TurnInv'
<1> SUFFICES ASSUME TypeOK, TurnInv, [Next]_vars PROVE TurnInv'
  BY DEF IInv
<1>0. left \in Nat /\ nap \in Nat /\ reads \in Nat /\ call.cap \in Nat
  BY TurnTypes
<1>1. CASE UNCHANGED vars
  BY <1>1 DEF vars, TurnInv
<1>2. CASE Tick
  BY <1>0, <1>2 DEF Tick, Down, TurnInv
<1>3. CASE Next /\ Ended'
  <2>1. call' = call /\ pc' # "napping" /\ pc' # "reading"
    BY <1>3, Moves DEF Ended
  <2>2. reads' = reads \/ (pc = "reading" /\ reads' = reads + 1)
    BY <1>3, Zenon DEF Next, Submit, Submitted, SubmissionTimesOut, Wake, Read, Counted, ReadTimesOut, Cancel, Tick
  <2> QED BY <1>0, <2>1, <2>2 DEF TurnInv
<1>4. CASE Next /\ ~Ended' /\ ~Tick
  BY <1>0, <1>4, Moves DEF TurnInv, Naps
<1> QED BY <1>1, <1>2, <1>3, <1>4

LEMMA TurnsStand == Spec => [](IInv /\ TurnInv)
<1>1. Init => TurnInv
  BY PollingAssumption DEF Init, TurnInv, CallType
<1> QED BY <1>1, TurnStep, Invariance, PTL DEF Spec

\* A bounded call never oversleeps its deadline: poll_interval cuts the sleep
\* to remaining_seconds (execution_budget.py).
THEOREM SleepEndsInBudget == Spec => []BudgetEndsSleep
<1>1. IInv /\ TurnInv => BudgetEndsSleep
  BY TurnTypes DEF IInv, TurnInv, BudgetEndsSleep
<1> QED BY <1>1, TurnsStand, PTL

\* The loop of _run_async_poll_loop ends with the budget, whatever the source
\* answers: TurnsLeft bounds the turns until it is used up, and then each of
\* them is the last but one at most.
THEOREM BudgetRunsOutHolds == Spec => BudgetRunsOut
<1>1. IInv /\ TurnInv /\ [Next]_vars =>
        [call.bounded /\ ~(Tick /\ left = 0) => TurnsLeft' >= 0 /\ TurnsLeft' < TurnsLeft]_vars
  <2> SUFFICES ASSUME TypeOK, TypeOK', TurnInv, Next, call.bounded, ~(Tick /\ left = 0)
               PROVE  TurnsLeft' >= 0 /\ TurnsLeft' < TurnsLeft
    BY NextPreserves DEF IInv, vars
  <2>0. /\ left \in Nat /\ nap \in Nat /\ left' \in Nat /\ nap' \in Nat
        /\ pc \in {"start", "submitting", "napping", "reading"} /\ ~Ended
    BY Moves DEF TypeOK, Ended
  <2>1. CASE Ended'
    BY <2>0, <2>1 DEF TurnsLeft, TurnsOfTick
  <2>2. CASE Tick
    BY <2>0, <2>2 DEF Tick, Down, TurnsLeft, TurnsOfTick, Ended
  <2>3. CASE ~Ended' /\ ~Tick
    BY <2>0, <2>3, Moves DEF TurnsLeft, TurnsOfTick, Naps, Ended
  <2> QED BY <2>1, <2>2, <2>3
<1> QED BY <1>1, TurnsStand, PTL DEF Spec, BudgetRunsOut

\* The loop ends with the cap on the reads (max_attempts), whatever the source
\* answers: ReadsLeft bounds the turns.
THEOREM CapRunsOutHolds == Spec => CapRunsOut
<1>1. IInv /\ TurnInv /\ TurnInv' /\ [Next]_vars =>
        [call.capped /\ ~Tick => ReadsLeft' >= 0 /\ ReadsLeft' < ReadsLeft]_vars
  <2> SUFFICES ASSUME TypeOK, TurnInv, TurnInv', Next, call.capped, ~Tick
               PROVE  ReadsLeft' >= 0 /\ ReadsLeft' < ReadsLeft
    BY DEF IInv, vars
  <2>0. /\ reads \in Nat /\ call.cap \in Nat /\ reads <= call.cap
        /\ pc \in {"start", "submitting", "napping", "reading"} /\ ~Ended
    BY Moves, TurnTypes DEF TypeOK, Ended, TurnInv
  <2>1. CASE Ended'
    BY <2>0, <2>1 DEF ReadsLeft, TurnsOfRead
  <2>2. CASE ~Ended'
    <3>1. call' = call /\ reads' <= call.cap
      BY <2>2, Moves DEF TurnInv
    <3> QED BY <2>0, <2>2, <3>1, Moves DEF ReadsLeft, TurnsOfRead, Naps, TurnInv, Ended
  <2> QED BY <2>1, <2>2
<1> QED BY <1>1, TurnsStand, PTL DEF Spec, CapRunsOut
=============================================================================
