-------------------- MODULE EvidenceCompletionProperties --------------------
(***************************************************************************)
(* What is checked of EvidenceCompletion.                                  *)
(***************************************************************************)
EXTENDS EvidenceCompletion

Results == [status : Statuses \cup {"none", "refused", "misshapen"}, stage : BOOLEAN, staged : BOOLEAN]

(* Every variable has the type of what it stands for, and no calculation   *)
(* polls more often than it may.                                           *)
EvidenceTypeOK ==
  /\ source   \in [Calculations -> SourceRecords]
  /\ step     \in [Calculations -> {"reading", "sleeping", "refreshing", "done"}]
  /\ due      \in [Calculations -> SUBSET Records]
  /\ attempts \in [Calculations -> 0 .. PollAttempts]
  /\ shown    \in [Calculations -> [Records -> Results]]
  /\ quality  \subseteq Qualities
  /\ view     \in {"none", "unavailable", "partial", "supported"}
  /\ began    \in BOOLEAN
  /\ spoilt   \in BOOLEAN
  /\ misses   \in [Calculations -> 0 .. 2]

(* The label of the view is earned (performance_workspace_evidence_-       *)
(* response.py:31-61, :95-117): "supported" only if every calculation is   *)
(* complete at the source in both records, although they were read at      *)
(* different instants, and the source has supported every result; anything *)
(* less only if some calculation was not complete when the request began,  *)
(* some read failed or the source has qualified a result; and              *)
(* "unavailable" only if reads failed or the source says so.               *)
EvidenceIsTrue ==
  /\ view = "supported" => WholeAtSource /\ quality \subseteq {"supported"}
  /\ view \in {"partial", "unavailable"} =>
       spoilt \/ ~began \/ ~(quality \subseteq {"supported"})
  /\ view = "unavailable" => spoilt \/ "unavailable" \in quality

(* The execution catches up with the lineage (evidence_completion.py:58-   *)
(* 74): when the lineage is shown complete, and the execution's stage said *)
(* so at the source when the lineage was read, the execution shown says so *)
(* too, although it may have been read before; unless its last read was    *)
(* refused, it is no record or it has failed itself.                       *)
ExecutionCatchesUp ==
  \A c \in Calculations :
    step[c] = "done" /\ Lineage(c).status = "complete" /\ Lineage(c).staged =>
      \/ Execution(c).stage
      \/ misses[c] > 0
      \/ Execution(c).status \in {"failed", "misshapen"}

(* A poll replaces an execution that was read well by a refusal            *)
(* (evidence_completion.py:105), yet one refusal does not cost a           *)
(* calculation whose lineage completes its execution: it takes two in a    *)
(* row.  (A misshapen answer does cost it, be it a poll's or a refresh's.) *)
OneRefusedReadIsAbsorbed ==
  \A c \in Calculations :
    /\ step[c] = "done" /\ attempts[c] > 0
    /\ Lineage(c).status = "complete"
    /\ Execution(c) = Refused
    => misses[c] = 2

(* A finished calculation shows an execution as good as its lineage, which *)
(* was read after it: one that caught up, and that one refusal has not      *)
(* cost it.                                                                *)
ExecutionIsKept == ExecutionCatchesUp /\ OneRefusedReadIsAbsorbed

(* Each call ends (it has a timeout), the timer of the interval fires, and *)
(* the loop gives every task that is ready its turn.  The source need not  *)
(* move.                                                                   *)
EvidenceFairness ==
  /\ \A c \in Calculations : WF_evidenceVars(EvidenceTurn(c))
  /\ WF_evidenceVars(AssemblesView)

EvidenceFairSpec == EvidenceSpec /\ EvidenceFairness

(* The view is assembled although a lineage may stay under way for ever.   *)
ViewIsAssembled == <>(view # "none")

(* Its safety core (evidence_completion.py:76-127).  A gather that goes on *)
(* awaits an answer; and whatever the source answers, each turn of         *)
(* fetch_calculation_evidence takes one of the steps that it has left: the *)
(* polls, and in each of them two answers, and a refresh.                  *)
StepsOf(c) ==
  4 * (PollAttempts - attempts[c])
    + CASE step[c] = "reading"    -> IF due[c] = Records THEN 3 ELSE 2
        [] step[c] = "refreshing" -> 1
        [] OTHER                  -> 0

GathersAwait == \A c \in Calculations : step[c] = "reading" => due[c] # {}

PollsRunOut ==
  [][\A c \in Calculations : EvidenceTurn(c) =>
       /\ StepsOf(c)' >= 0 /\ StepsOf(c)' < StepsOf(c)
       /\ \A d \in Calculations : d # c => StepsOf(d)' = StepsOf(d)]_evidenceVars
=============================================================================
