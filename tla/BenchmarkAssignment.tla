------------------------ MODULE BenchmarkAssignment ------------------------
(***************************************************************************)
(* services/performance_workspace_benchmark_assignment.py: which benchmark *)
(* a portfolio is compared with, read from lotus-core through the cache of *)
(* the performance workspace.                                              *)
(*                                                                         *)
(* A code is served from the cache.  What is no code (no assignment, an    *)
(* error answer or an unreadable one) reaches the cache too, since the     *)
(* cache stores whatever a fill returns, but it is discarded by whoever    *)
(* meets it: a request that waited for it takes it as its answer, and a    *)
(* request that finds it stored asks lotus-core again, outside the cache,  *)
(* and sets the code it gets.                                              *)
(*                                                                         *)
(* One key is modelled: assignments of other portfolios, dates, currencies *)
(* and tenants have keys, hence entries and fills, of their own.  The      *)
(* cache is used as AsyncTtlCache provides it.  A fetch is one request to  *)
(* lotus-core, whether a fill or a refresh makes it.                       *)
(***************************************************************************)
EXTENDS Naturals

CONSTANTS
  Requests,  \* requests of the workspace that name no benchmark
  MaxFetches, \* bound: fetches
  LastRevision, \* bound: revisions of the assignment
  Assigned,  \* Assigned[v]: does revision v of the assignment have a code?
  Nothing    \* no fetch, no entry

ASSUME BenchmarkAssumption ==
  /\ LastRevision \in Nat
  /\ Assigned \in [0 .. LastRevision -> BOOLEAN]
  /\ MaxFetches \in Nat
  /\ Nothing \notin 1 .. MaxFetches

Fetches   == 1 .. MaxFetches
Revisions == 0 .. LastRevision

VARIABLES
  revision,  \* lotus-core: the revision of the assignment
  fetch,     \* fetch[f]: its phase and, once answered, its result
  entry,     \* the fetch whose result the cache holds for the key, or Nothing
  inflight,  \* the fill that requests may join, or Nothing
  call,      \* call[r]: where the request of r is, and the fetch it awaits
  answer,    \* answer[r]: what it was given
  before,    \* history: the fetches that had ended when r began
  newest     \* history: the latest revision ever held by the entry

vars == <<revision, fetch, entry, inflight, call, answer, before, newest>>

FreeFetch == [phase |-> "free", kind |-> "none", revision |-> 0]
NoAnswer  == [kind |-> "none", told |-> FALSE, from |-> Nothing]

Init ==
  /\ revision = 0
  /\ fetch    = [f \in Fetches |-> FreeFetch]
  /\ entry    = Nothing
  /\ inflight = Nothing
  /\ call     = [r \in Requests |-> [phase |-> "idle", fetch |-> Nothing]]
  /\ answer   = [r \in Requests |-> NoAnswer]
  /\ before   = [r \in Requests |-> {}]
  /\ newest   = 0

Ended == {f \in Fetches : fetch[f].phase = "ended"}

-----------------------------------------------------------------------------
(* lotus-core. *)

Reassign ==
  /\ revision + 1 \in Revisions
  /\ revision' = revision + 1
  /\ UNCHANGED <<fetch, entry, inflight, call, answer, before, newest>>

(* _fetch_benchmark_assignment_result: a code, no assignment, or a failure *)
(* (an error status or an invalid payload); or the client raises.          *)
Answer(f) ==
  /\ fetch[f].phase = "asked"
  /\ \E kind \in {IF Assigned[revision] THEN "code" ELSE "missing", "failed", "raised"} :
        fetch' = [fetch EXCEPT ![f] = [phase |-> "answered", kind |-> kind, revision |-> revision]]
  /\ UNCHANGED <<revision, entry, inflight, call, answer, before, newest>>

-----------------------------------------------------------------------------
(* The request ends; a failure is recorded among its warnings.             *)
Gets(r, f, recorded) ==
  /\ call'   = [call EXCEPT ![r] = [phase |-> "done", fetch |-> Nothing]]
  /\ answer' = [answer EXCEPT ![r] = [kind |-> fetch[f].kind, told |-> recorded, from |-> f]]

Failed(f) == fetch[f].kind \in {"failed", "raised"}

Awaits(r, phase, f) == call' = [call EXCEPT ![r] = [phase |-> phase, fetch |-> f]]

(* Fetches are numbered as they are made. *)
Ask(f) ==
  /\ \A g \in Fetches : fetch[g].phase = "free" <=> f <= g
  /\ fetch' = [fetch EXCEPT ![f].phase = "asked"]

Begins(r) ==
  /\ call[r].phase = "idle"
  /\ before' = [before EXCEPT ![r] = Ended]
  /\ UNCHANGED <<revision, newest>>

(* cache.discard: the entry goes, and a fill in flight is detached. *)
Discard == entry' = Nothing /\ inflight' = Nothing

HitCode(r) ==
  /\ Begins(r)
  /\ entry # Nothing /\ fetch[entry].kind = "code"
  /\ Gets(r, entry, FALSE)
  /\ UNCHANGED <<fetch, entry, inflight>>

HitMissing_Trusts(r) ==  \* mutant: what is no code is served from the cache
  /\ Begins(r)
  /\ entry # Nothing /\ fetch[entry].kind # "code"
  /\ Gets(r, entry, Failed(entry))
  /\ UNCHANGED <<fetch, entry, inflight>>

(* A cached result without a code is discarded and fetched again. *)
HitMissing(r) ==
  /\ Begins(r)
  /\ entry # Nothing /\ fetch[entry].kind # "code"
  /\ Discard
  /\ \E f \in Fetches : Ask(f) /\ Awaits(r, "refreshing", f)
  /\ UNCHANGED answer

Join(r) ==
  /\ Begins(r)
  /\ entry = Nothing /\ inflight # Nothing
  /\ Awaits(r, "waiting", inflight)
  /\ UNCHANGED <<fetch, entry, inflight, answer>>

StartFill(r) ==
  /\ Begins(r)
  /\ entry = Nothing /\ inflight = Nothing
  /\ \E f \in Fetches : Ask(f) /\ Awaits(r, "waiting", f) /\ inflight' = f
  /\ UNCHANGED <<entry, answer>>

(* A fetch awaited by its own request, and by nobody else. *)
Refreshes(f) == \E r \in Requests : call[r] = [phase |-> "refreshing", fetch |-> f]

Holds(f) ==
  /\ entry'  = f
  /\ newest' = IF fetch[f].kind = "code" /\ fetch[f].revision > newest
                 THEN fetch[f].revision ELSE newest

Publish_Unfenced(f) ==  \* mutant: a detached fill is stored as well
  /\ fetch[f].phase = "answered" /\ ~Refreshes(f)
  /\ fetch' = [fetch EXCEPT ![f].phase = "ended"]
  /\ inflight' = IF inflight = f THEN Nothing ELSE inflight
  /\ IF fetch[f].kind = "raised" THEN UNCHANGED <<entry, newest>> ELSE Holds(f)
  /\ UNCHANGED <<revision, call, answer, before>>

Publish_Poisons(f) ==  \* mutant: a fill that raises keeps its slot
  /\ fetch[f].phase = "answered" /\ ~Refreshes(f)
  /\ fetch' = [fetch EXCEPT ![f].phase = "ended"]
  /\ IF inflight = f /\ fetch[f].kind # "raised"
       THEN inflight' = Nothing /\ Holds(f)
       ELSE UNCHANGED <<entry, inflight, newest>>
  /\ UNCHANGED <<revision, call, answer, before>>

(* A fill ends: its result is stored unless it raised or was detached. *)
Publish(f) ==
  /\ fetch[f].phase = "answered" /\ ~Refreshes(f)
  /\ fetch' = [fetch EXCEPT ![f].phase = "ended"]
  /\ IF inflight = f
       THEN /\ inflight' = Nothing
            /\ IF fetch[f].kind = "raised" THEN UNCHANGED <<entry, newest>> ELSE Holds(f)
       ELSE UNCHANGED <<entry, inflight, newest>>
  /\ UNCHANGED <<revision, call, answer, before>>

Resume_Recorded(r) ==  \* mutant: only a result that nobody else met is recorded
  LET f == call[r].fetch IN
  /\ call[r].phase = "waiting" /\ fetch[f].phase = "ended"
  /\ Gets(r, f, Failed(f) /\ (entry = f \/ fetch[f].kind = "raised"))
  /\ IF fetch[f].kind \in {"missing", "failed"} THEN Discard ELSE UNCHANGED <<entry, inflight>>
  /\ UNCHANGED <<revision, fetch, before, newest>>

(* A waiter of a fill resumes.  A result without a code is discarded,      *)
(* recorded if it is a failure, and is the answer; an exception is         *)
(* recorded by the gather of fetch_benchmark_context.                      *)
Resume(r) ==
  LET f == call[r].fetch IN
  /\ call[r].phase = "waiting" /\ fetch[f].phase = "ended"
  /\ Gets(r, f, Failed(f))
  /\ IF fetch[f].kind \in {"missing", "failed"} THEN Discard ELSE UNCHANGED <<entry, inflight>>
  /\ UNCHANGED <<revision, fetch, before, newest>>

(* A refresh ends: a code is set, whatever the key holds by now. *)
Refreshed(r) ==
  LET f == call[r].fetch IN
  /\ call[r].phase = "refreshing" /\ fetch[f].phase = "answered"
  /\ fetch' = [fetch EXCEPT ![f].phase = "ended"]
  /\ Gets(r, f, Failed(f))
  /\ IF fetch[f].kind = "code" THEN Holds(f) /\ inflight' = Nothing
                               ELSE UNCHANGED <<entry, inflight, newest>>
  /\ UNCHANGED <<revision, before>>

(* The request's task is cancelled: a fill goes on, a refresh does not. *)
Cancel(r) ==
  /\ call[r].phase \in {"waiting", "refreshing"}
  /\ call'  = [call EXCEPT ![r] = [phase |-> "cancelled", fetch |-> Nothing]]
  /\ fetch' = IF call[r].phase = "refreshing"
                THEN [fetch EXCEPT ![call[r].fetch].phase = "ended"] ELSE fetch
  /\ UNCHANGED <<revision, entry, inflight, answer, before, newest>>

Expire ==
  /\ entry # Nothing
  /\ entry' = Nothing
  /\ UNCHANGED <<revision, fetch, inflight, call, answer, before, newest>>

Ends(r) == Resume(r) \/ Refreshed(r)

Next ==
  \/ \E r \in Requests :
        \/ HitCode(r) \/ HitMissing(r) \/ Join(r) \/ StartFill(r)
        \/ Ends(r) \/ Cancel(r)
  \/ \E f \in Fetches : Answer(f) \/ Publish(f)
  \/ Expire
  \/ Reassign

Spec == Init /\ [][Next]_vars
=============================================================================
