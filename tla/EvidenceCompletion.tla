------------------------- MODULE EvidenceCompletion -------------------------
(***************************************************************************)
(* services/performance_calculation_evidence_completion.py and its callers *)
(* in performance_calculation_evidence.py and performance_workspace_-      *)
(* evidence.py: the evidence shown beside a performance view.              *)
(*                                                                         *)
(* lotus-performance keeps two records of a calculation: its execution,    *)
(* one of whose stages is the materialization of the lineage, and the      *)
(* lineage itself.  They are written at different instants, and read with  *)
(* two calls that are answered at different instants.  A request gathers   *)
(* both records of each calculation, polls a few times while the lineage   *)
(* is under way, reads the execution once more when the lineage is         *)
(* complete and the stage does not say so, and labels what it has.         *)
(*                                                                         *)
(* "open" stands for the transient statuses (pending, running,             *)
(* in_progress).  A read can fail in two ways that the code tells apart:   *)
(* it is refused (an error status, the client's own 503 included), or it   *)
(* is misshapen (a lower status with a payload that has no status of a     *)
(* calculation; what is no JSON becomes such a payload).  The payload of a *)
(* refusal is taken to have no status of a calculation either.             *)
(*                                                                         *)
(* The label also depends on how the source qualified the results of the   *)
(* calculations themselves, which the request had before it began to       *)
(* gather their evidence.                                                  *)
(***************************************************************************)
EXTENDS Naturals

CONSTANTS
  Calculations,  \* the calculations of the view that have an identity (of a
                 \* view that has none, nothing is read)
  PollAttempts   \* poll_attempts

ASSUME EvidenceAssumption == PollAttempts \in Nat /\ Calculations # {}

Records  == {"execution", "lineage"}
Statuses == {"open", "complete", "failed"}

VARIABLES
  source,    \* lotus-performance's records of each calculation
  step,      \* where fetch_calculation_evidence is, for each calculation
  due,       \* due[c]: the reads of c's gather that are not answered
  attempts,  \* attempts[c]: the polls begun
  shown,     \* shown[c]: the last result of each read
  quality,   \* the states of the source supportability of the results
  view,      \* the state of the evidence view, once assembled
  began,     \* history: every calculation was complete when the request began
  spoilt,    \* history: some read of the request failed
  misses     \* history: misses[c]: reads of c's execution refused in a row (2: or more)

evidenceVars == <<source, step, due, attempts, shown, quality, view, began, spoilt, misses>>

(* Of a calculation: the two statuses, and whether the execution's stage   *)
(* says that the lineage is materialized, which is recorded after it is.   *)
SourceRecords ==
  {s \in [execution : Statuses, stage : BOOLEAN, lineage : Statuses] :
     s.stage => s.lineage = "complete"}

(* A result; staged is history: the stage at the source at that instant.   *)
Unread    == [status |-> "none", stage |-> FALSE, staged |-> FALSE]
Refused   == [status |-> "refused", stage |-> FALSE, staged |-> FALSE]
Misshapen == [status |-> "misshapen", stage |-> FALSE, staged |-> FALSE]
Unusable  == {Refused, Misshapen}

(* performance_evidence_state of an item of the supportability: one item   *)
(* for each result that is no error, "partial" if the source qualified it  *)
(* in no readable way.  A result that is an error may have the identity of *)
(* its calculation and still give no item.                                 *)
Qualities == {"supported", "partial", "unavailable"}

Snapshot(c, record) ==
  [status |-> source[c][record],
   stage  |-> record = "execution" /\ source[c].stage,
   staged |-> record = "lineage" /\ source[c].stage]

WholeAtSource ==
  \A c \in Calculations : source[c].execution = "complete" /\ source[c].lineage = "complete"

EvidenceInit ==
  /\ source   \in [Calculations -> SourceRecords]
  /\ step     = [c \in Calculations |-> "reading"]
  /\ due      = [c \in Calculations |-> Records]
  /\ attempts = [c \in Calculations |-> 0]
  /\ shown    = [c \in Calculations |-> [record \in Records |-> Unread]]
  /\ quality  \in SUBSET Qualities
  /\ view     = "none"
  /\ began    = WholeAtSource
  /\ spoilt   = FALSE
  /\ misses   = [c \in Calculations |-> 0]

-----------------------------------------------------------------------------
(* lotus-performance.                                                      *)
RecordMoves(c, record, status) ==
  /\ source[c][record] = "open"
  /\ source' = [source EXCEPT ![c][record] = status]

StageMoves(c) ==
  /\ source[c].lineage = "complete" /\ ~source[c].stage
  /\ source' = [source EXCEPT ![c].stage = TRUE]

SourceMoves(c) ==
  /\ \/ \E record \in Records, status \in {"complete", "failed"} : RecordMoves(c, record, status)
     \/ StageMoves(c)
  /\ UNCHANGED <<step, due, attempts, shown, quality, view, began, spoilt, misses>>

-----------------------------------------------------------------------------
(* A read of c's record ends: with what the source has, or with nothing    *)
(* that can be used.                                                       *)
ReadResults(c, record) == {Snapshot(c, record)} \cup Unusable

Reads(c, record, result) ==
  /\ result \in ReadResults(c, record)
  /\ spoilt' = (spoilt \/ result \in Unusable)
  /\ misses' = IF record = "lineage" THEN misses
               ELSE [misses EXCEPT ![c] = IF result # Refused THEN 0
                                             ELSE IF @ = 0 THEN 1 ELSE 2]

(* What follows a gather, by its two results and the polls made before.    *)
(* The first execution settles whether there is anything to wait for; the  *)
(* executions that polls read do not.                                      *)
Follows_WithoutRefresh(execution, lineage, polls) ==  \* mutant
  CASE polls = 0 /\ execution.status \notin {"open", "complete"} -> "done"
    [] OTHER -> IF lineage.status = "open" /\ polls < PollAttempts THEN "sleeping" ELSE "done"

Follows(execution, lineage, polls) ==
  IF polls = 0 /\ execution.status \notin {"open", "complete"} THEN "done"
  ELSE CASE lineage.status = "complete" -> IF execution.stage THEN "done" ELSE "refreshing"
         [] lineage.status = "open"     -> IF polls < PollAttempts THEN "sleeping" ELSE "done"
         [] OTHER                       -> "done"

(* One of the two reads of a gather is answered: its result replaces what  *)
(* an earlier gather gave, whatever it is.  The second of them ends the    *)
(* gather.                                                                 *)
ReadAnswered(c, record) ==
  /\ step[c] = "reading"
  /\ record \in due[c]
  /\ due' = [due EXCEPT ![c] = @ \ {record}]
  /\ \E result \in ReadResults(c, record) :
       /\ Reads(c, record, result)
       /\ shown' = [shown EXCEPT ![c][record] = result]
  /\ step' = IF due[c] # {record} THEN step
             ELSE [step EXCEPT ![c] =
                     Follows(shown'[c]["execution"], shown'[c]["lineage"], attempts[c])]
  /\ UNCHANGED <<source, attempts, quality, view, began>>

Polls_Uncounted(c) ==  \* mutant
  /\ step[c] = "sleeping"
  /\ step' = [step EXCEPT ![c] = "reading"]
  /\ due'  = [due EXCEPT ![c] = Records]
  /\ UNCHANGED <<source, attempts, shown, quality, view, began, spoilt, misses>>

(* The interval is over: both records are read again.                      *)
Polls(c) ==
  /\ step[c] = "sleeping"
  /\ step'     = [step EXCEPT ![c] = "reading"]
  /\ due'      = [due EXCEPT ![c] = Records]
  /\ attempts' = [attempts EXCEPT ![c] = @ + 1]
  /\ UNCHANGED <<source, shown, quality, view, began, spoilt, misses>>

RefreshEnds_ByAnything(c) ==  \* mutant: a refusal replaces the execution too
  /\ step[c] = "refreshing"
  /\ step' = [step EXCEPT ![c] = "done"]
  /\ \E result \in ReadResults(c, "execution") :
       /\ Reads(c, "execution", result)
       /\ shown' = [shown EXCEPT ![c]["execution"] = result]
  /\ UNCHANGED <<source, due, attempts, quality, view, began>>

(* refresh_execution_after_lineage_completion: a refused read leaves the   *)
(* execution that there is; a misshapen one takes its place.               *)
RefreshEnds(c) ==
  /\ step[c] = "refreshing"
  /\ step' = [step EXCEPT ![c] = "done"]
  /\ \E result \in ReadResults(c, "execution") :
       /\ Reads(c, "execution", result)
       /\ shown' = IF result = Refused THEN shown
                   ELSE [shown EXCEPT ![c]["execution"] = result]
  /\ UNCHANGED <<source, due, attempts, quality, view, began>>

-----------------------------------------------------------------------------
Execution(c) == shown[c]["execution"]
Lineage(c)   == shown[c]["lineage"]

Backed(c)   == Execution(c) \notin Unusable \/ Lineage(c) \notin Unusable
Complete_ByLineage(c) == Lineage(c).status = "complete"  \* mutant
Complete(c) == Execution(c).status = "complete" /\ Lineage(c).status = "complete"

(* resolve_evidence_state, asked only where the evidence is complete: the  *)
(* label is no better than the source's qualification of the results.      *)
Resolved_Unqualified == "supported"  \* mutant
Resolved ==
  IF "unavailable" \in quality THEN "unavailable"
  ELSE IF quality \subseteq {"supported"} THEN "supported" ELSE "partial"

(* Every calculation has its evidence: the view is labelled.               *)
AssemblesView ==
  /\ view = "none"
  /\ \A c \in Calculations : step[c] = "done"
  /\ view' = IF \A c \in Calculations : ~Backed(c) THEN "unavailable"
             ELSE IF \A c \in Calculations : Complete(c) THEN Resolved ELSE "partial"
  /\ UNCHANGED <<source, step, due, attempts, shown, quality, began, spoilt, misses>>

EvidenceTurn(c) ==
  \/ \E record \in Records : ReadAnswered(c, record)
  \/ Polls(c) \/ RefreshEnds(c)

EvidenceNext ==
  \/ \E c \in Calculations : EvidenceTurn(c) \/ SourceMoves(c)
  \/ AssemblesView

EvidenceSpec == EvidenceInit /\ [][EvidenceNext]_evidenceVars
=============================================================================
