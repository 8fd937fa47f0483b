----------------------- MODULE AdvisorBriefProperties -----------------------
(***************************************************************************)
(* What is checked of AdvisorBrief.                                        *)
(***************************************************************************)
EXTENDS AdvisorBrief

States   == 1 .. MaxLog
Views    == [allowed : SUBSET Actions, seen : States]
Postures == [allowed : SUBSET Actions, seen : States, state : States]
Loads    == [step : {"consumer", "operator", "rest"}, view : Views \cup {Nothing},
             posture : Postures \cup {Nothing}]
Briefs   == [run : Runs \cup {Nothing}, posture : Postures \cup {Nothing}]
Fills    == [phase : {"free", "source", "load", "done"}, scope : Scopes \cup {Nothing},
             run : Runs \cup {Nothing}, load : Loads, brief : Briefs \cup {Nothing}]
Calls    == [phase : {"idle", "waiting", "post", "load"}, action : Actions \cup {Nothing},
             run : Runs \cup {Nothing}, base : Nat, load : Loads, old : SUBSET Runs]
Answers  == [kind : {"none", "brief", "refused", "failed", "reviewed"},
             run : Runs \cup {Nothing}, posture : Postures \cup {Nothing}]

(* Every variable has the type of what it stands for, and a request that   *)
(* waits for a fill or works on a review knows its run.                    *)
TypeOK ==
  /\ log \in [Runs -> Seq(SUBSET Actions)] /\ \A r \in Runs : Len(log[r]) <= MaxLog
  /\ store \in [Scopes -> Briefs \cup {Nothing}]
  /\ inflight \in [Scopes -> Runs \cup {Nothing}]
  /\ fill \in [Runs -> Fills]
  /\ call \in [Callers -> Calls]
  /\ \A c \in Callers : call[c].phase # "idle" => call[c].run \in Runs
  /\ answer \in [Callers -> Answers]
  /\ settled \subseteq Runs
  /\ kept \in [Callers -> Runs \cup {Nothing}]

(* A run whose review was confirmed is not shown again as it stood before: *)
(* a request that begins after the confirmation is never given the brief   *)
(* of that run, neither from the cache nor by a fill that was under way    *)
(* when clear_cache (advisor_brief_service.py:303) ran.                    *)
ReviewedBriefIsRebuilt ==
  \A c \in Callers :
     /\ answer[c].kind = "brief" => answer[c].run \notin call[c].old
     /\ call[c].phase = "post" => call[c].run \notin call[c].old

(* The response to a review action shows the run that was reviewed, in a   *)
(* state at least as late as the one the action led to                     *)
(* (advisor_brief_service.py:299-307).                                     *)
ReviewShowsItself ==
  \A c \in Callers : answer[c].kind = "reviewed" =>
     /\ answer[c].run = call[c].run
     /\ answer[c].posture # Nothing =>
          answer[c].posture.seen >= call[c].base /\ answer[c].posture.state >= answer[c].posture.seen

(* A review action names no run (review_actions.py:54-69).  It goes to the *)
(* run of the brief that the advisor was last shown for as long as the     *)
(* cache has kept that brief: no late fill takes its place.                *)
ReviewReachesShownBrief ==
  \A c \in Callers : call[c].phase = "post" /\ kept[c] # Nothing => call[c].run = kept[c]

(* What an advisor is shown, or reviews, was made for the very context     *)
(* that the request was admitted in (with_caller_headers, :81-87).         *)
BriefStaysInContext ==
  \A c \in Callers, r \in Runs :
     (answer[c].kind = "brief" /\ answer[c].run = r) \/ (call[c].phase = "post" /\ call[c].run = r) =>
       fill[r].scope = ScopeOf[c]
=============================================================================
