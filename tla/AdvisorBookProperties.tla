----------------------- MODULE AdvisorBookProperties -----------------------
(***************************************************************************)
(* What is checked of AdvisorBook.                                         *)
(***************************************************************************)
EXTENDS AdvisorBook

(* Every variable has the type of what it stands for; a request that is    *)
(* not read yet, or that has not the block, has no state of a block.       *)
BookTypeOK ==
  /\ feed \subseteq Actions
  /\ keyed \in BOOLEAN /\ scoped \in BOOLEAN
  /\ route \in {"workspace", "items", "values"}
  /\ budget \in 0 .. Deadline
  /\ stage \in {"members", "facts", "answered", "refused", "timed out"}
  /\ cohort \in {"unknown", "empty", "known"}
  /\ value \in Values /\ actions \in Coverages
  /\ cursor \in Nat /\ count \in 0 .. MaxPages
  /\ seen \subseteq Actions
  /\ total \in Nat \cup {NotStated}
  /\ mixed \in BOOLEAN /\ silent \in BOOLEAN /\ faulty \in BOOLEAN
  /\ first \subseteq Actions /\ sizes \subseteq Nat
  /\ changes \in 0 .. MaxChanges

(* What the answer says of its own counts is earned, either way.  It says  *)
(* that the feed was fully read only if as many actions were counted as    *)
(* the feed had at some instant of the read; and they are exactly those of *)
(* the first page's instant if the feed stood still, or if it changed once *)
(* and every page stated its total.  It blames the deadline, the bound on  *)
(* pages or the source only if the budget was used up, all pages were      *)
(* read, or the feed changed or its cursors were at fault                  *)
(* (read_action_feed, _final_coverage).                                    *)
CoverageIsEarned ==
  /\ actions = "complete" =>
       /\ Cardinality(seen) \in sizes
       /\ changes = 0 \/ (changes = 1 /\ ~silent) => seen = first
  /\ actions = "deadline" => budget = 0
  /\ actions = "page budget" => count = MaxPages
  /\ actions \in {"mismatch", "inconsistent"} => changes > 0 \/ faulty

(* Time passes, the budget's timers fire, and what has all its blocks is   *)
(* returned.  Nothing is assumed of the sources.                           *)
LoopTurn == BookTick \/ MembersLate \/ ValueLate \/ FeedLate \/ BookAnswered

BookFairSpec == BookSpec /\ WF_bookVars(LoopTurn)

(* Though no source ever answers, a request below the budget ends; and a   *)
(* workspace whose members are known ends with an answer, whatever becomes *)
(* of the values and of the actions.                                       *)
BookEnds ==
  \/ stage = "answered"
  \/ stage \in {"refused", "timed out"} /\ ~(route = "workspace" /\ cohort = "known")

BookIsAnswered == <>(route = "values" \/ BookEnds)

(* Its safety core.  Whatever becomes of the values and of the actions, a  *)
(* workspace whose members are known is neither refused nor timed out; and *)
(* each turn of the request, or of its clock, takes one of those that it   *)
(* has left, however the feed changes between them.                        *)
EnrichmentsDegrade ==
  route = "workspace" /\ cohort = "known" => stage \in {"facts", "answered"}

BlockLeft(block) == IF block = "pending" THEN 1 ELSE 0

BookLeft ==
  budget + (MaxPages - count)
    + CASE stage = "members" -> 4
        [] stage = "facts"   -> 1 + BlockLeft(value) + BlockLeft(actions)
        [] OTHER             -> 0

BookRunsOut == [][~FeedChanges => BookLeft' >= 0 /\ BookLeft' < BookLeft]_bookVars
=============================================================================
