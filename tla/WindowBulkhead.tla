--------------------------- MODULE WindowBulkhead ---------------------------
(***************************************************************************)
(* What the attribution-trend orchestrator promises: at most Limit windows *)
(* are active in the process, a window is active at most once and keeps    *)
(* the disposition it ends with, a request closes only when none of its    *)
(* windows is active, and the verdict it closes with tells the truth about *)
(* its windows.  A request is stopped at most once, by its deadline or a   *)
(* cancellation: from then on it starts no window and records none, its    *)
(* active windows are dropped, and it closes as stopped; a request that    *)
(* nobody stopped drops nothing.                                           *)
(***************************************************************************)
EXTENDS Naturals, FiniteSets

CONSTANTS
  Requests,     \* requests that fan out windows
  WindowCount,  \* WindowCount[r]: the number of windows of r
  Limit         \* how many windows may be active at once

VARIABLES
  window,  \* window[x]: the status of window x = <<request, index>>
  verdict  \* verdict[r]: "none", "open", "stopping", or how r closed

vars == <<window, verdict>>

WindowsOf(r) == {r} \X (1..WindowCount[r])
Windows      == UNION {WindowsOf(r) : r \in Requests}
Ended        == {"ok", "failed"}

Init ==
  /\ window  = [x \in Windows |-> "waiting"]
  /\ verdict = [r \in Requests |-> "none"]

Open(r) ==
  /\ verdict[r] = "none"
  /\ verdict' = [verdict EXCEPT ![r] = "open"]
  /\ UNCHANGED window

(* The deadline or a cancellation reaches the request. *)
Stop(r) ==
  /\ verdict[r] = "open"
  /\ verdict' = [verdict EXCEPT ![r] = "stopping"]
  /\ UNCHANGED window

Admissible(x) == window[x] = "waiting" /\ verdict[x[1]] = "open"

Admit(x) ==
  /\ Admissible(x)
  /\ Cardinality({y \in Windows : window[y] = "active"}) < Limit
  /\ window' = [window EXCEPT ![x] = "active"]
  /\ UNCHANGED verdict

End(x, how) ==
  /\ window[x] = "active" /\ verdict[x[1]] = "open"
  /\ window' = [window EXCEPT ![x] = how]
  /\ UNCHANGED verdict

(* A worker that finishes a window starts the next one with the permit.    *)
EndAndAdmit(x, how, y) ==
  /\ window[x] = "active"
  /\ Admissible(y)
  /\ x[1] = y[1]
  /\ window' = [window EXCEPT ![x] = how, ![y] = "active"]
  /\ UNCHANGED verdict

(* A window that is cut off by the deadline or a cancellation.             *)
Drop(x) ==
  /\ window[x] = "active" /\ verdict[x[1]] = "stopping"
  /\ window' = [window EXCEPT ![x] = "dropped"]
  /\ UNCHANGED verdict

Truthful(how, statuses) ==
  /\ how = "complete"  => statuses \subseteq {"ok"}
  /\ how = "partial"   => statuses \subseteq Ended /\ "failed" \in statuses
  /\ how = "timed_out" => ~ statuses \subseteq Ended

Stopped == {"timed_out", "cancelled"}

Close(r, how) ==
  /\ IF how \in Stopped THEN verdict[r] = "stopping" ELSE verdict[r] \in {"none", "open"}
  /\ \A x \in WindowsOf(r) : window[x] # "active"
  /\ Truthful(how, {window[x] : x \in WindowsOf(r)})
  /\ verdict' = [verdict EXCEPT ![r] = how]
  /\ UNCHANGED window

Next ==
  \/ \E r \in Requests : Open(r) \/ Stop(r)
  \/ \E x \in Windows :
       \/ Admit(x)
       \/ Drop(x)
       \/ \E how \in Ended : End(x, how) \/ \E y \in Windows : EndAndAdmit(x, how, y)
  \/ \E r \in Requests, how \in {"complete", "partial", "timed_out", "cancelled"} : Close(r, how)

Spec == Init /\ [][Next]_vars
=============================================================================
