--------------------- MODULE AttributionTrendProperties ---------------------
(* What must hold of the attribution-trend bulkhead and of its requests.   *)
EXTENDS AttributionTrend

WorkerPcs == {"none", "new", "waiting", "granted", "running", "done", "cancelled"}
Phases    == {"idle", "waiting", "stopping", "draining", "done"}

(* Type invariant: every variable of run(), its workers, the semaphore and *)
(* the two gauges keeps its type; a worker's index is one it took.         *)
TypeOK ==
  /\ phase        \in [Requests -> Phases]
  /\ requestState \in [Requests -> {"complete", "timed_out", "cancelled"}]
  /\ verdict      \in [Requests -> {"none", "open", "complete", "partial", "timed_out", "cancelled"}]
  /\ interrupted  \in [Requests -> BOOLEAN]
  /\ taken        \in [Requests -> Nat]
  /\ \A r \in Requests : taken[r] <= WindowCount[r]
  /\ result       \in [Windows -> {"deadline", "ok", "failed"}]
  /\ queuedCount  \in [Requests -> Nat]
  /\ pc           \in [Workers -> WorkerPcs]
  /\ cur          \in [Workers -> Nat]
  /\ \A w \in Workers : cur[w] <= taken[w[1]]
  /\ hit          \in [Workers -> BOOLEAN]
  /\ free         \in 0..Limit
  /\ line         \in Seq(Workers)
  /\ queuedGauge  \in Nat
  /\ activeGauge  \in Nat
  /\ started      \subseteq Windows

Running == {w \in Workers : pc[w] = "running"}
Holding == {w \in Workers : pc[w] \in {"granted", "running"}}

(* No path through acquire, the operation, the deadline or a cancellation  *)
(* loses or invents a permit: those held and those free are always Limit,  *)
(* and the active gauge counts the windows that run.                       *)
PermitsConserved ==
  /\ free + Cardinality(Holding) = Limit
  /\ activeGauge = Cardinality(Running)

(* A free permit is never left idle next to a pending waiter for good: a   *)
(* waiter that was given one is still to resume, and wakes the next.       *)
NoLostWakeup ==
  (free > 0 /\ \E w \in Workers : Pending(w, pc)) => \E w \in Workers : pc[w] = "granted"

Open(r) == phase[r] \notin {"idle", "done"}

(* The queued gauge is the number of windows of open requests that have    *)
(* not been admitted, and of those whose clean-up was itself cancelled.    *)
QueuedGaugeExact ==
  queuedGauge =
    Cardinality({x \in Windows : x \notin started /\ (Open(x[1]) \/ interrupted[x[1]])})

(* What the gauge is described as: the windows that wait for the bulkhead  *)
(* (analytics_ui_metrics.py:57-61).                                        *)
QueuedGaugeCountsWaitingWindows ==
  queuedGauge = Cardinality({x \in Windows : x \notin started /\ Open(x[1])})

(* Every behaviour is one of WindowBulkhead: at most Limit windows active, *)
(* each at most once and with one disposition, none of them when run()     *)
(* returns, and a request state that is true of the windows; once the      *)
(* deadline or a cancellation has reached a request, however the two meet  *)
(* and whoever unwinds first, it starts no window and records no result.   *)
WindowStatus(x) ==
  IF result[x] # "deadline" THEN result[x]
  ELSE IF x \notin started THEN "waiting"
  ELSE IF \E w \in Workers : pc[w] = "running" /\ <<w[1], cur[w]>> = x THEN "active"
  ELSE "dropped"

(* Neither the deadline nor a cancellation has reached the request. *)
Untouched(r) == requestState[r] = "complete" /\ ~interrupted[r]

RequestStatus(r) == IF Open(r) /\ ~Untouched(r) THEN "stopping" ELSE verdict[r]

Bulkhead == INSTANCE WindowBulkhead
  WITH window  <- [x \in Windows |-> WindowStatus(x)],
       verdict <- [r \in Requests |-> RequestStatus(r)]

ImplementsBulkhead == Bulkhead!Spec

-----------------------------------------------------------------------------
(* The loop gives every task that is ready its turn and fires every timer  *)
(* that is due.  It does not make an operation end, unless it was          *)
(* cancelled, nor a request be cancelled.                                  *)
WorkerTurn(w)  == Begin(w) \/ Resume(w) \/ Unwind(w)
RequestTurn(r) == \/ WorkersDone(r) \/ Deadline(r) \/ FirstStopped(r)
                  \/ Conclude(r) \/ ConcludeInterrupted(r)

Fairness ==
  /\ \A w \in Workers : WF_vars(WorkerTurn(w))
  /\ \A r \in Requests : WF_vars(RequestTurn(r))

FairSpec == Spec /\ Fairness

(* The deadline bounds a request even when operations never end and        *)
(* another request holds every permit: run() always returns or raises.     *)
(* Each request is made once, so that to end them all is to come back to a *)
(* state where none is open, with every permit free again.                 *)
EveryRequestEnds ==
  []<>(/\ \A r \in Requests : phase[r] \in {"idle", "done"}
       /\ free = Limit)

(* The turns the loop owes, whether or not an operation ever ends: ...     *)
WorkerHasTurn(w) ==
  \/ pc[w] = "new"
  \/ hit[w] /\ pc[w] \in {"waiting", "granted"} /\ \E n \in DOMAIN line : line[n] = w
  \/ hit[w] /\ pc[w] = "running"

(* ... and of these three, which are the guards of RequestTurn, the first  *)
(* is the deadline where it is not the end of the last worker.             *)
RequestHasTurn(r) ==
  \/ phase[r] = "waiting"  /\ (AllFinished(r) \/ \A w \in WorkersOf(r) : pc[w] # "new")
  \/ phase[r] = "stopping" /\ (AllFinished(r) \/ \E w \in WorkersOf(r) : pc[w] = "cancelled")
  \/ phase[r] = "draining" /\ AllFinished(r)

(* The safety core of EveryRequestEnds: no request waits for an operation, *)
(* for a permit or for another request.  It has a turn of its own, or one  *)
(* of its workers has, until run() is over; and when no request is open,   *)
(* every permit is back and the active gauge is down.                      *)
NobodyIsStuck ==
  /\ \A r \in Requests : Open(r) => RequestHasTurn(r) \/ \E w \in WorkersOf(r) : WorkerHasTurn(w)
  /\ (\A r \in Requests : ~Open(r)) => free = Limit /\ activeGauge = 0

(* These turns are used up: a worker that is cancelled does nothing but    *)
(* unwind, one that has finished stays so, and a request never goes back.  *)
Rank(p) == CASE p = "idle" -> 0 [] p = "waiting" -> 1 [] p = "stopping" -> 2
             [] p = "draining" -> 3 [] p = "done" -> 4

TurnUsed ==
  /\ \A w \in Workers : hit[w] => pc'[w] = "cancelled" \/ (hit'[w] /\ ~Finished(w)' /\ cur'[w] = cur[w])
  /\ \A w \in Workers : Finished(w) => Finished(w)'
  /\ \A r \in Requests : Rank(phase'[r]) >= Rank(phase[r])

TurnsAreUsedUp == [][TurnUsed]_vars
=============================================================================
