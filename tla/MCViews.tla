------------------------------- MODULE MCViews -------------------------------
(* Small instances of three services that gather what they show, and that  *)
(* share no state: each behaviour is one of the benchmark assignment of    *)
(* the performance workspace, or of its evidence view, or of an advisor's  *)
(* book, while the others stay where they start.                           *)
EXTENDS BenchmarkAssignmentProperties, EvidenceCompletionProperties, AdvisorBookProperties, TLC

CONSTANTS r1, r2, r3, none, k1, k2

MCRequests     == {r1, r2, r3}
MCCalculations == {k1, k2}

(* No assignment at first, then two codes one after the other. *)
MCAssigned == 0 :> FALSE @@ 1 :> TRUE @@ 2 :> TRUE

VARIABLE part

(* The second calculation is there for the labels and failures of both:    *)
(* its execution is complete at the source from the start.  The            *)
(* qualification of the results only matters for the label: where it       *)
(* varies, only the first calculation varies at the source.                *)
RecordedAtSource(c) ==
  source[c] = [execution |-> "complete", stage |-> TRUE, lineage |-> "complete"]

MCInit ==
  /\ Init /\ EvidenceInit /\ BookInit
  /\ part \in {"assignment", "evidence", "book"}
  /\ part # "evidence" =>
       WholeAtSource /\ (\A c \in Calculations : source[c].stage) /\ quality = {}
  /\ source[k2].execution = "complete"
  /\ quality # {} => RecordedAtSource(k2)
  /\ part # "book" => feed = {} /\ keyed /\ scoped /\ route = "workspace"

MCNext ==
  \/ part = "assignment" /\ Next /\ UNCHANGED <<evidenceVars, bookVars, part>>
  \/ part = "evidence" /\ EvidenceNext /\ UNCHANGED <<vars, bookVars, part>>
  \/ part = "book" /\ BookNext /\ UNCHANGED <<vars, evidenceVars, part>>

(* EvidenceFairSpec and BookFairSpec, of the behaviours that are of them.  *)
MCSpec ==
  /\ MCInit /\ [][MCNext]_<<vars, evidenceVars, bookVars, part>>
  /\ \A c \in Calculations : WF_evidenceVars(part = "evidence" /\ EvidenceTurn(c))
  /\ WF_evidenceVars(part = "evidence" /\ AssemblesView)
  /\ WF_bookVars(part = "book" /\ LoopTurn)

(* ViewIsAssembled and BookIsAnswered, of the behaviours that are of the   *)
(* evidence view, or of a book.                                            *)
MCViewsAreMade ==
  /\ part = "evidence" => ViewIsAssembled
  /\ part = "book" => BookIsAnswered
=============================================================================
