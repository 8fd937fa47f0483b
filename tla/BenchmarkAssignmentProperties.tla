-------------------- MODULE BenchmarkAssignmentProperties --------------------
(***************************************************************************)
(* What is checked of BenchmarkAssignment.                                 *)
(***************************************************************************)
EXTENDS BenchmarkAssignment

Kinds == {"code", "missing", "failed", "raised"}

(* Every variable has the type of what it stands for; what the cache holds *)
(* and what requests may join was fetched, or is being fetched, by a fill  *)
(* or a refresh.                                                           *)
TypeOK ==
  /\ revision \in Revisions /\ newest \in Revisions
  /\ fetch \in [Fetches -> [phase : {"free", "asked", "answered", "ended"},
                            kind : Kinds \cup {"none"}, revision : Revisions]]
  /\ entry \in Fetches \cup {Nothing}
  /\ entry # Nothing => fetch[entry].phase = "ended" /\ fetch[entry].kind \in Kinds \ {"raised"}
  /\ inflight \in Fetches \cup {Nothing}
  /\ inflight # Nothing => fetch[inflight].phase \in {"asked", "answered"}
  /\ call \in [Requests -> [phase : {"idle", "waiting", "refreshing", "done", "cancelled"},
                            fetch : Fetches \cup {Nothing}]]
  /\ \A r \in Requests :
        call[r].phase \in {"waiting", "refreshing"} => fetch[call[r].fetch].phase # "free"
  /\ answer \in [Requests -> [kind : Kinds \cup {"none"}, told : BOOLEAN,
                              from : Fetches \cup {Nothing}]]
  /\ before \in [Requests -> SUBSET Fetches]

(* "No benchmark", for whatever reason, is never served from the past: it  *)
(* comes from a fetch that had not ended when the request began, so an     *)
(* assignment made before that fetch was answered cannot be missed for the *)
(* ttl of the cache (benchmark_assignment.py:162-184).                     *)
AbsenceIsNotCached ==
  \A r \in Requests : answer[r].kind \in Kinds \ {"code"} => answer[r].from \notin before[r]

(* A request is told that the assignment is unavailable exactly when the   *)
(* fetch it relied on failed: each waiter of a shared failure is, and a    *)
(* valid "not assigned", or a code found after a cached failure, is not    *)
(* reported as one (benchmark_assignment.py:164-184).                      *)
FailureIsTold ==
  \A r \in Requests : call[r].phase = "done" => (answer[r].told <=> Failed(answer[r].from))

(* Fills never take the cache back to an older assignment, although every  *)
(* waiter of a fill without a code discards whatever the key holds by      *)
(* then, a newer fill in flight included: only the set of a refresh can    *)
(* (benchmark_assignment.py:184).                                          *)
OnlyRefreshesGoBack ==
  [][(entry' # entry /\ entry' # Nothing /\ fetch'[entry'].kind = "code")
       => \/ fetch'[entry'].revision >= newest
          \/ Refreshes(entry')]_vars
=============================================================================
