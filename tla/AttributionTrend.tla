-------------------------- MODULE AttributionTrend --------------------------
(***************************************************************************)
(* services/attribution_trend_orchestration.py: requests fan their windows *)
(* out over workers that share one process-wide semaphore, under a         *)
(* deadline per request.                                                   *)
(*                                                                         *)
(* An action is a stretch between two awaits of one task on the event      *)
(* loop: a worker, or the request that runs them.  Cancelling a task marks *)
(* it; the CancelledError reaches it on a later turn, and what it awaited  *)
(* may take time to unwind.  An operation passes a CancelledError on, as   *)
(* every client of this repository does.                                   *)
(***************************************************************************)
EXTENDS Naturals, Sequences, FiniteSets, SequencesExt

CONSTANTS
  Requests,     \* requests for an attribution trend
  WindowCount,  \* WindowCount[r]: window_count of r
  Limit         \* concurrency_limit of the admission controller

ASSUME TrendAssumption ==
  /\ IsFiniteSet(Requests)
  /\ WindowCount \in [Requests -> Nat]
  /\ Limit \in Nat \ {0}

WindowsOf(r) == 1..WindowCount[r]
Windows      == UNION {{r} \X WindowsOf(r) : r \in Requests}
WorkersOf(r) == {r} \X {n \in WindowsOf(r) : n <= Limit}
Workers      == UNION {WorkersOf(r) : r \in Requests}

VARIABLES
  phase,         \* where run() is
  requestState,  \* request_state
  verdict,       \* what the caller of run() sees: a state, or its CancelledError
  interrupted,   \* the wait for the cancelled workers was itself cancelled
  taken,         \* how many indices were taken from queue
  result,        \* results
  queuedCount,   \* queued_count
  pc,            \* where each worker is
  cur,           \* the index a worker holds
  hit,           \* the worker has been cancelled and has not unwound
  free,          \* the semaphore's value
  line,          \* the semaphore's waiters, first come first served
  queuedGauge,   \* GATEWAY_ATTRIBUTION_TREND_QUEUED_WINDOWS
  activeGauge,   \* GATEWAY_ATTRIBUTION_TREND_ACTIVE_WINDOWS
  started        \* history: the windows that were admitted

runVars    == <<phase, requestState, verdict, interrupted>>
workVars   == <<taken, result, queuedCount, cur, started>>
semVars    == <<free, line>>
vars == <<runVars, workVars, pc, hit, semVars, queuedGauge, activeGauge>>

Init ==
  /\ phase        = [r \in Requests |-> "idle"]
  /\ requestState = [r \in Requests |-> "complete"]
  /\ verdict      = [r \in Requests |-> "none"]
  /\ interrupted  = [r \in Requests |-> FALSE]
  /\ taken        = [r \in Requests |-> 0]
  /\ result       = [x \in Windows |-> "deadline"]
  /\ queuedCount  = [r \in Requests |-> 0]
  /\ pc           = [w \in Workers |-> "none"]
  /\ cur          = [w \in Workers |-> 0]
  /\ hit          = [w \in Workers |-> FALSE]
  /\ free         = Limit
  /\ line         = <<>>
  /\ queuedGauge  = 0
  /\ activeGauge  = 0
  /\ started      = {}

-----------------------------------------------------------------------------
(* asyncio.Semaphore, as acquire() and release() of execute use it.        *)

Pending(w, state) == state[w] = "waiting" /\ ~hit[w]
SomeoneInLine     == \E n \in DOMAIN line : pc[line[n]] = "granted" \/ Pending(line[n], pc)
Locked            == free = 0 \/ SomeoneInLine

First(n, queue, state) ==
  /\ n \in DOMAIN queue
  /\ Pending(queue[n], state)
  /\ \A m \in 1..(n - 1) : ~ Pending(queue[m], state)

(* Mutant: a permit that comes back wakes nobody. *)
WakeNext_Forgets(value, queue, state) == free' = value /\ pc' = state

(* _wake_up_next: the first pending waiter is given a permit. *)
WakeNext(value, queue, state) ==
  IF value > 0 /\ \E n \in DOMAIN queue : Pending(queue[n], state)
  THEN \E n \in DOMAIN queue :
         /\ First(n, queue, state)
         /\ free' = value - 1
         /\ pc' = [state EXCEPT ![queue[n]] = "granted"]
  ELSE free' = value /\ pc' = state

(* A waiter takes its future out of the line. *)
LeavesLine(w) == \E n \in DOMAIN line : line[n] = w /\ line' = RemoveAt(line, n)

-----------------------------------------------------------------------------
(* A worker.                                                               *)

QueueEmpty(r) == taken[r] = WindowCount[r]

(* Mutant: mark_admitted leaves the request's own count alone. *)
Admitted_KeepsCount(w, i) ==
  /\ started'     = started \cup {<<w[1], i>>}
  /\ queuedCount' = queuedCount
  /\ queuedGauge' = queuedGauge - 1

(* on_admitted, and the operation starts with the worker's window.         *)
Admitted(w, i) ==
  /\ started'     = started \cup {<<w[1], i>>}
  /\ queuedCount' = [queuedCount EXCEPT ![w[1]] = @ - 1]
  /\ queuedGauge' = queuedGauge - 1

Takes(w) ==
  /\ taken' = [taken EXCEPT ![w[1]] = @ + 1]
  /\ cur'   = [cur EXCEPT ![w] = taken[w[1]] + 1]

(* The first turn of a worker. *)
BeginEmpty(w) ==
  /\ pc[w] = "new" /\ ~hit[w]
  /\ QueueEmpty(w[1])
  /\ pc' = [pc EXCEPT ![w] = "done"]
  /\ UNCHANGED <<runVars, workVars, hit, semVars, queuedGauge, activeGauge>>

BeginAdmitted(w) ==
  /\ pc[w] = "new" /\ ~hit[w]
  /\ ~QueueEmpty(w[1])
  /\ ~Locked
  /\ Takes(w)
  /\ Admitted(w, taken[w[1]] + 1)
  /\ free' = free - 1
  /\ pc' = [pc EXCEPT ![w] = "running"]
  /\ activeGauge' = activeGauge + 1
  /\ UNCHANGED <<runVars, result, hit, line>>

BeginWaiting(w) ==
  /\ pc[w] = "new" /\ ~hit[w]
  /\ ~QueueEmpty(w[1])
  /\ Locked
  /\ Takes(w)
  /\ line' = Append(line, w)
  /\ pc' = [pc EXCEPT ![w] = "waiting"]
  /\ UNCHANGED <<runVars, result, queuedCount, started, hit, free, queuedGauge, activeGauge>>

(* The waiter that was given a permit resumes. *)
Resume(w) ==
  /\ pc[w] = "granted" /\ ~hit[w]
  /\ LeavesLine(w)
  /\ WakeNext(free, line', [pc EXCEPT ![w] = "running"])
  /\ Admitted(w, cur[w])
  /\ activeGauge' = activeGauge + 1
  /\ UNCHANGED <<runVars, taken, result, cur, hit>>

Records(w, how) ==
  /\ pc[w] = "running" /\ ~hit[w]
  /\ how \in {"ok", "failed"}
  /\ result' = [result EXCEPT ![<<w[1], cur[w]>>] = how]
  /\ UNCHANGED <<runVars, hit>>

(* The operation ends and the worker finds no further window.              *)
FinishLast(w, how) ==
  /\ Records(w, how)
  /\ QueueEmpty(w[1])
  /\ WakeNext(free + 1, line, [pc EXCEPT ![w] = "done"])
  /\ activeGauge' = activeGauge - 1
  /\ UNCHANGED <<taken, cur, line, started, queuedCount, queuedGauge>>

(* ... or takes the next one, and the permit, as nobody is in line for it. *)
FinishAndGoOn(w, how) ==
  /\ Records(w, how)
  /\ ~QueueEmpty(w[1])
  /\ ~SomeoneInLine
  /\ Takes(w)
  /\ Admitted(w, taken[w[1]] + 1)
  /\ UNCHANGED <<pc, semVars, activeGauge>>

(* ... or takes the next one, and lines up behind the others.              *)
FinishAndLineUp(w, how) ==
  /\ Records(w, how)
  /\ ~QueueEmpty(w[1])
  /\ SomeoneInLine
  /\ Takes(w)
  /\ WakeNext(free + 1, line, [pc EXCEPT ![w] = "waiting"])
  /\ line' = Append(line, w)
  /\ activeGauge' = activeGauge - 1
  /\ UNCHANGED <<started, queuedCount, queuedGauge>>

(* CancelledError reaches the worker before its first turn ...             *)
UnwindNew(w) ==
  /\ hit[w] /\ pc[w] = "new"
  /\ hit' = [hit EXCEPT ![w] = FALSE]
  /\ pc'  = [pc EXCEPT ![w] = "cancelled"]
  /\ UNCHANGED <<runVars, workVars, semVars, queuedGauge, activeGauge>>

(* ... in acquire(), where its future was cancelled ...                    *)
UnwindWaiting(w) ==
  /\ hit[w] /\ pc[w] = "waiting"
  /\ hit'  = [hit EXCEPT ![w] = FALSE]
  /\ pc'   = [pc EXCEPT ![w] = "cancelled"]
  /\ LeavesLine(w)
  /\ UNCHANGED <<runVars, workVars, free, queuedGauge, activeGauge>>

(* ... in acquire(), where it was given a permit, which goes back ...      *)
UnwindGranted(w) ==
  /\ hit[w] /\ pc[w] = "granted"
  /\ hit'  = [hit EXCEPT ![w] = FALSE]
  /\ LeavesLine(w)
  /\ WakeNext(free + 1, line', [pc EXCEPT ![w] = "cancelled"])
  /\ UNCHANGED <<runVars, workVars, queuedGauge, activeGauge>>

(* ... or in its operation.                                                *)
UnwindRunning(w) ==
  /\ hit[w] /\ pc[w] = "running"
  /\ hit' = [hit EXCEPT ![w] = FALSE]
  /\ WakeNext(free + 1, line, [pc EXCEPT ![w] = "cancelled"])
  /\ activeGauge' = activeGauge - 1
  /\ UNCHANGED <<runVars, workVars, line, queuedGauge>>

-----------------------------------------------------------------------------
(* A request.                                                              *)

Finished(w)    == pc[w] \in {"done", "cancelled"}
AllFinished(r) == \A w \in WorkersOf(r) : Finished(w)

RunEmpty(r) ==
  /\ phase[r] = "idle"
  /\ WindowCount[r] = 0
  /\ phase'   = [phase EXCEPT ![r] = "done"]
  /\ verdict' = [verdict EXCEPT ![r] = "complete"]
  /\ UNCHANGED <<requestState, interrupted, workVars, pc, hit, semVars, queuedGauge, activeGauge>>

Run(r) ==
  /\ phase[r] = "idle"
  /\ WindowCount[r] > 0
  /\ phase'       = [phase EXCEPT ![r] = "waiting"]
  /\ verdict'     = [verdict EXCEPT ![r] = "open"]
  /\ queuedCount' = [queuedCount EXCEPT ![r] = WindowCount[r]]
  /\ queuedGauge' = queuedGauge + WindowCount[r]
  /\ pc'          = [w \in Workers |-> IF w[1] = r THEN "new" ELSE pc[w]]
  /\ UNCHANGED <<requestState, interrupted, taken, result, cur, started, hit, semVars, activeGauge>>

(* gather() is done: wait_for returns, and there is nobody to cancel.      *)
WorkersDone(r) ==
  /\ phase[r] = "waiting"
  /\ AllFinished(r)
  /\ phase' = [phase EXCEPT ![r] = "draining"]
  /\ UNCHANGED <<requestState, verdict, interrupted, workVars, pc, hit, semVars, queuedGauge, activeGauge>>

(* Mutant: only the workers that run an operation are cancelled. *)
HitWorkers_OnlyRunning(r) ==
  hit' = [w \in Workers |-> hit[w] \/ (w[1] = r /\ pc[w] = "running")]

HitWorkers(r) == hit' = [w \in Workers |-> hit[w] \/ (w[1] = r /\ ~Finished(w))]

StopsWaiting(r, why) ==
  /\ phase[r] = "waiting"
  /\ HitWorkers(r)
  /\ phase'        = [phase EXCEPT ![r] = "stopping"]
  /\ requestState' = [requestState EXCEPT ![r] = why]
  /\ UNCHANGED <<verdict, interrupted, workVars, pc, semVars, queuedGauge, activeGauge>>

(* The deadline.  Its timer fires on a later turn of the loop than the     *)
(* first turn of the workers, which run() scheduled before it.             *)
Deadline(r) ==
  /\ ~AllFinished(r)
  /\ \A w \in WorkersOf(r) : pc[w] # "new"
  /\ StopsWaiting(r, "timed_out")

(* The request is cancelled while it waits for its workers ...             *)
Cancel(r) == StopsWaiting(r, "cancelled")

(* ... while wait_for waits for the workers it has cancelled ...           *)
CancelStopping(r) ==
  /\ phase[r] = "stopping"
  /\ phase'        = [phase EXCEPT ![r] = "draining"]
  /\ requestState' = [requestState EXCEPT ![r] = "cancelled"]
  /\ UNCHANGED <<verdict, interrupted, workVars, pc, hit, semVars, queuedGauge, activeGauge>>

(* ... or while the finally block waits in _cancel_workers.  The gather    *)
(* there cancels the workers again and raises once they are all done.      *)
CancelDraining(r) ==
  /\ phase[r] = "draining"
  /\ ~interrupted[r]
  /\ HitWorkers(r)
  /\ interrupted' = [interrupted EXCEPT ![r] = TRUE]
  /\ UNCHANGED <<phase, requestState, verdict, workVars, pc, semVars, queuedGauge, activeGauge>>

(* wait_for sees the first cancelled worker; the finally block cancels the *)
(* rest once more.                                                         *)
FirstStopped(r) ==
  /\ phase[r] = "stopping"
  /\ AllFinished(r) \/ \E w \in WorkersOf(r) : pc[w] = "cancelled"
  /\ HitWorkers(r)
  /\ phase' = [phase EXCEPT ![r] = "draining"]
  /\ UNCHANGED <<requestState, verdict, interrupted, workVars, pc, semVars, queuedGauge, activeGauge>>

(* _resolve_request_state *)
Resolved(r) ==
  IF requestState[r] = "complete" /\ \E i \in WindowsOf(r) : result[<<r, i>>] # "ok"
  THEN "partial" ELSE requestState[r]

(* Mutant: run returns without waiting for the workers it cancelled. *)
Conclude_Early(r) ==
  /\ phase[r] = "draining"
  /\ ~interrupted[r]
  /\ phase'       = [phase EXCEPT ![r] = "done"]
  /\ verdict'     = [verdict EXCEPT ![r] = Resolved(r)]
  /\ queuedCount' = [queuedCount EXCEPT ![r] = 0]
  /\ queuedGauge' = queuedGauge - queuedCount[r]
  /\ UNCHANGED <<requestState, interrupted, taken, result, cur, started, pc, hit, semVars, activeGauge>>

(* Mutant: the windows that never ran stay in the gauge. *)
Conclude_KeepsGauge(r) ==
  /\ phase[r] = "draining"
  /\ ~interrupted[r]
  /\ AllFinished(r)
  /\ phase'       = [phase EXCEPT ![r] = "done"]
  /\ verdict'     = [verdict EXCEPT ![r] = Resolved(r)]
  /\ queuedCount' = [queuedCount EXCEPT ![r] = 0]
  /\ UNCHANGED <<requestState, interrupted, taken, result, cur, started, pc, hit, semVars, queuedGauge, activeGauge>>

(* Every worker is done: the finally block goes on to its end. *)
Conclude(r) ==
  /\ phase[r] = "draining"
  /\ ~interrupted[r]
  /\ AllFinished(r)
  /\ phase'       = [phase EXCEPT ![r] = "done"]
  /\ verdict'     = [verdict EXCEPT ![r] = Resolved(r)]
  /\ queuedCount' = [queuedCount EXCEPT ![r] = 0]
  /\ queuedGauge' = queuedGauge - queuedCount[r]
  /\ UNCHANGED <<requestState, interrupted, taken, result, cur, started, pc, hit, semVars, activeGauge>>

(* ... or the CancelledError leaves it there.                              *)
ConcludeInterrupted(r) ==
  /\ phase[r] = "draining"
  /\ interrupted[r]
  /\ AllFinished(r)
  /\ phase'   = [phase EXCEPT ![r] = "done"]
  /\ verdict' = [verdict EXCEPT ![r] = "cancelled"]
  /\ UNCHANGED <<requestState, interrupted, workVars, pc, hit, semVars, queuedGauge, activeGauge>>

-----------------------------------------------------------------------------
Begin(w)  == BeginEmpty(w) \/ BeginAdmitted(w) \/ BeginWaiting(w)
Finish(w) == \E how \in {"ok", "failed"} :
               FinishLast(w, how) \/ FinishAndGoOn(w, how) \/ FinishAndLineUp(w, how)
Unwind(w) == UnwindNew(w) \/ UnwindWaiting(w) \/ UnwindGranted(w) \/ UnwindRunning(w)

WorkerStep(w) == Begin(w) \/ Resume(w) \/ Finish(w) \/ Unwind(w)

RequestStep(r) ==
  \/ RunEmpty(r) \/ Run(r)
  \/ WorkersDone(r) \/ Deadline(r) \/ FirstStopped(r)
  \/ Conclude(r) \/ ConcludeInterrupted(r)
  \/ Cancel(r) \/ CancelStopping(r) \/ CancelDraining(r)

AllReturned == (\A r \in Requests : phase[r] = "done") /\ UNCHANGED vars

Next ==
  \/ \E w \in Workers : WorkerStep(w)
  \/ \E r \in Requests : RequestStep(r)
  \/ AllReturned

Spec == Init /\ [][Next]_vars
=============================================================================
