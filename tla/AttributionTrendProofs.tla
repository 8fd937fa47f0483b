----------------------- MODULE AttributionTrendProofs -----------------------
(***************************************************************************)
(* Proofs about AttributionTrend, for any requests, windows and limit.     *)
(***************************************************************************)
EXTENDS AttributionTrendProperties, FiniteSetTheorems, TLAPS

(***************************************************************************)
(* The inductive invariant: types without the sizes of the counters, who   *)
(* owns which window, which workers an open request has, what its count    *)
(* means, and the two properties themselves.                               *)
(***************************************************************************)
Shapes ==
  /\ phase        \in [Requests -> Phases]
  /\ requestState \in [Requests -> {"complete", "timed_out", "cancelled"}]
  /\ verdict      \in [Requests -> {"none", "open", "complete", "partial", "timed_out", "cancelled"}]
  /\ interrupted  \in [Requests -> BOOLEAN]
  /\ taken        \in [Requests -> Nat]
  /\ \A r \in Requests : taken[r] <= WindowCount[r]
  /\ result       \in [Windows -> {"deadline", "ok", "failed"}]
  /\ queuedCount  \in [Requests -> Int]
  /\ pc           \in [Workers -> WorkerPcs]
  /\ cur          \in [Workers -> Nat]
  /\ \A w \in Workers : cur[w] <= taken[w[1]]
  /\ hit          \in [Workers -> BOOLEAN]
  /\ free         \in Nat
  /\ line         \in Seq(Workers)
  /\ queuedGauge  \in Int
  /\ activeGauge  \in Int
  /\ started      \subseteq Windows

Busy(w)   == pc[w] \in {"waiting", "granted", "running"}
InLine(w) == pc[w] \in {"waiting", "granted"}

(* A busy worker owns the window it took; one in line has not started it.  *)
OwnInv ==
  /\ \A w \in Workers : Busy(w) => cur[w] # 0
  /\ \A w \in Workers : InLine(w) => <<w[1], cur[w]>> \notin started
  /\ \A v, w \in Workers : Busy(v) /\ Busy(w) /\ v[1] = w[1] /\ cur[v] = cur[w] => v = w
  /\ \A x \in started : x[2] <= taken[x[1]]

(* Workers live inside their request. *)
OpenInv ==
  /\ \A w \in Workers : Busy(w) \/ pc[w] = "new" => Open(w[1])
  /\ \A r \in Requests : phase[r] = "idle" => taken[r] = 0
  /\ \A r \in Requests : interrupted[r] => phase[r] \in {"draining", "done"}

NotStarted(r) == {x \in Windows : x[1] = r /\ x \notin started}

(* queued_count is the number of windows still to be admitted. *)
CountInv ==
  \A r \in Requests :
    queuedCount[r] = IF Open(r) \/ interrupted[r] THEN Cardinality(NotStarted(r)) ELSE 0

IInv ==
  /\ Shapes
  /\ OwnInv
  /\ OpenInv
  /\ CountInv
  /\ PermitsConserved
  /\ QueuedGaugeExact

-----------------------------------------------------------------------------
(* Windows are pairs of a request and an index of one of its windows. *)
LEMMA WindowNames ==
  /\ \A r \in Requests : \A i \in 1..WindowCount[r] : <<r, i>> \in Windows
  /\ \A x \in Windows : /\ x[1] \in Requests /\ x[2] \in 1..WindowCount[x[1]]
                        /\ x = <<x[1], x[2]>>
BY DEF Windows, WindowsOf

(* Workers are pairs of a request and a number up to its size.             *)
LEMMA WorkerNames ==
  \A w \in Workers : /\ w[1] \in Requests
                     /\ w \in WorkersOf(w[1])
                     /\ WindowCount[w[1]] > 0
<1> SUFFICES ASSUME NEW w \in Workers
             PROVE  w[1] \in Requests /\ w \in WorkersOf(w[1]) /\ WindowCount[w[1]] > 0
  OBVIOUS
<1>1. PICK r \in Requests : w \in WorkersOf(r)
  BY DEF Workers
<1>2. w[1] = r /\ w[2] \in WindowsOf(r)
  BY <1>1 DEF WorkersOf
<1> QED
  BY <1>1, <1>2, TrendAssumption DEF WindowsOf

(* The windows of one request, of all, and the workers are finite sets.    *)
LEMMA Finite ==
  /\ IsFiniteSet(Windows)
  /\ IsFiniteSet(Workers)
  /\ \A r \in Requests : /\ IsFiniteSet({r} \X WindowsOf(r))
                         /\ Cardinality({r} \X WindowsOf(r)) = WindowCount[r]
<1>1. ASSUME NEW r \in Requests
      PROVE  /\ IsFiniteSet({r} \X WindowsOf(r))
             /\ Cardinality({r} \X WindowsOf(r)) = WindowCount[r]
  <2>1. WindowCount[r] \in Nat
    BY TrendAssumption
  <2> DEFINE n == WindowCount[r]
  <2>2. IsFiniteSet(1..n) /\ Cardinality(1..n) = n
    BY <2>1, FS_Interval
  <2>3. IsFiniteSet({r}) /\ Cardinality({r}) = 1
    BY FS_Singleton
  <2>4. /\ IsFiniteSet({r} \X (1..n))
        /\ Cardinality({r} \X (1..n)) = Cardinality({r}) * Cardinality(1..n)
    BY <2>2, <2>3, FS_Product
  <2>5. Cardinality({r} \X (1..n)) = 1 * n
    BY <2>2, <2>3, <2>4
  <2>6. 1 * n = n
    BY <2>1
  <2>7. QED
    BY <2>4, <2>5, <2>6 DEF WindowsOf
<1> DEFINE f == [r \in Requests |-> {r} \X WindowsOf(r)]
           T == {{r} \X WindowsOf(r) : r \in Requests}
<1>2. IsFiniteSet(T)
  <2>1. f \in [Requests -> T] /\ \A t \in T : \E r \in Requests : f[r] = t
    OBVIOUS
  <2>2. f \in Surjection(Requests, T)
    BY <2>1 DEF Surjection
  <2>3. QED
    BY <2>2, TrendAssumption, FS_Surjection
<1>3. IsFiniteSet(Windows)
  <2>1. \A S \in T : IsFiniteSet(S)
    BY <1>1
  <2>2. IsFiniteSet(UNION T)
    BY <1>2, <2>1, FS_UNION
  <2>3. QED
    BY <2>2 DEF Windows
<1>4. Workers \subseteq Windows
  BY DEF Workers, WorkersOf, Windows
<1>5. IsFiniteSet(Workers)
  BY <1>3, <1>4, FS_Subset
<1> QED
  BY <1>1, <1>3, <1>5

HeldIn(state) == {w \in Workers : state[w] \in {"granted", "running"}}
RunsIn(state) == {w \in Workers : state[w] = "running"}

(* What _wake_up_next does: at most one waiter moves from waiting to       *)
(* granted, and the permit it gets is one that was free.                   *)
LEMMA WakeEffect ==
  ASSUME NEW value \in Nat, NEW queue \in Seq(Workers),
         NEW state \in [Workers -> WorkerPcs],
         WakeNext(value, queue, state)
  PROVE  /\ free' \in Nat
         /\ pc' \in [Workers -> WorkerPcs]
         /\ \A u \in Workers : pc'[u] = state[u] \/ (state[u] = "waiting" /\ pc'[u] = "granted")
         /\ free' + Cardinality(HeldIn(pc')) = value + Cardinality(HeldIn(state))
         /\ RunsIn(pc') = RunsIn(state)
<1>0. IsFiniteSet(HeldIn(state))
  BY Finite, FS_Subset DEF HeldIn
<1>1. CASE free' = value /\ pc' = state
  BY <1>1, <1>0, FS_CardinalityType
<1>2. CASE \E n \in DOMAIN queue : /\ value > 0
                                   /\ First(n, queue, state)
                                   /\ free' = value - 1
                                   /\ pc' = [state EXCEPT ![queue[n]] = "granted"]
  <2>1. PICK n \in DOMAIN queue : /\ value > 0
                                  /\ First(n, queue, state)
                                  /\ free' = value - 1
                                  /\ pc' = [state EXCEPT ![queue[n]] = "granted"]
    BY <1>2
  <2> DEFINE v == queue[n]
  <2>2. v \in Workers /\ state[v] = "waiting"
    BY <2>1 DEF First, Pending
  <2> HIDE DEF v
  <2>3. pc' = [state EXCEPT ![v] = "granted"]
    BY <2>1 DEF v
  <2>4. HeldIn(pc') = HeldIn(state) \cup {v} /\ v \notin HeldIn(state)
    BY <2>2, <2>3 DEF HeldIn
  <2>5. Cardinality(HeldIn(pc')) = Cardinality(HeldIn(state)) + 1
    BY <2>4, <1>0, FS_AddElement
  <2>6. RunsIn(pc') = RunsIn(state)
    BY <2>2, <2>3 DEF RunsIn
  <2>7. pc' \in [Workers -> WorkerPcs]
    BY <2>2, <2>3 DEF WorkerPcs
  <2>8. \A u \in Workers : pc'[u] = state[u] \/ (state[u] = "waiting" /\ pc'[u] = "granted")
    BY <2>2, <2>3
  <2> QED
    BY <2>1, <2>5, <2>6, <2>7, <2>8, <1>0, FS_CardinalityType
<1> QED
  BY <1>1, <1>2 DEF WakeNext

(* Whoever leaves the line or joins it, a sequence of workers remains.     *)
LEMMA LineEffect ==
  ASSUME line \in Seq(Workers), NEW w \in Workers,
         LeavesLine(w) \/ line' = Append(line, w)
  PROVE  line' \in Seq(Workers)
<1>1. CASE LeavesLine(w)
  <2>1. PICK n \in DOMAIN line : line' = RemoveAt(line, n)
    BY <1>1 DEF LeavesLine
  <2>2. n \in 1..Len(line)
    OBVIOUS
  <2>3. SubSeq(line, 1, n - 1) \in Seq(Workers) /\ SubSeq(line, n + 1, Len(line)) \in Seq(Workers)
    BY <2>2
  <2> QED
    BY <2>1, <2>3 DEF RemoveAt
<1> QED
  BY <1>1

USE DEF Busy, InLine

(* Taking an index from the queue gives the worker one of its windows.     *)
LEMMA TakesEffect ==
  ASSUME Shapes, NEW w \in Workers, ~QueueEmpty(w[1]), Takes(w)
  PROVE  /\ taken' \in [Requests -> Nat]
         /\ cur' \in [Workers -> Nat]
         /\ \A r \in Requests : taken'[r] <= WindowCount[r] /\ taken'[r] >= taken[r]
         /\ \A u \in Workers : cur'[u] <= taken'[u[1]]
         /\ <<w[1], taken[w[1]] + 1>> \in Windows
<1>1. w[1] \in Requests /\ WindowCount[w[1]] \in Nat /\ taken[w[1]] \in Nat
  BY WorkerNames, TrendAssumption DEF Shapes
<1>2. taken[w[1]] + 1 \in 1..WindowCount[w[1]]
  <2>1. taken[w[1]] <= WindowCount[w[1]] /\ taken[w[1]] # WindowCount[w[1]]
    BY <1>1 DEF Shapes, QueueEmpty
  <2> QED
    BY <1>1, <2>1
<1>3. taken' = [taken EXCEPT ![w[1]] = taken[w[1]] + 1] /\ cur' = [cur EXCEPT ![w] = taken[w[1]] + 1]
  BY DEF Takes
<1>4. <<w[1], taken[w[1]] + 1>> \in Windows
  BY <1>1, <1>2, WindowNames
<1>5. taken' \in [Requests -> Nat] /\ cur' \in [Workers -> Nat]
  BY <1>1, <1>3 DEF Shapes
<1>6. \A r \in Requests : taken'[r] <= WindowCount[r] /\ taken'[r] >= taken[r]
  BY <1>1, <1>2, <1>3 DEF Shapes
<1>7. \A u \in Workers : cur'[u] <= taken'[u[1]]
  BY <1>1, <1>3, <1>5, <1>6, WorkerNames DEF Shapes
<1> QED
  BY <1>4, <1>5, <1>6, <1>7

(* Admission only counts. *)
LEMMA AdmittedEffect ==
  ASSUME Shapes, NEW w \in Workers, NEW i, <<w[1], i>> \in Windows, Admitted(w, i)
  PROVE  /\ queuedCount' \in [Requests -> Int]
         /\ queuedGauge' \in Int
         /\ started' \subseteq Windows
<1>1. w[1] \in Requests /\ queuedCount \in [Requests -> Int] /\ queuedGauge \in Int
  BY WorkerNames DEF Shapes
<1>2. queuedCount' \in [Requests -> Int] /\ queuedGauge' \in Int
  BY <1>1 DEF Admitted
<1>3. started' \subseteq Windows
  BY DEF Shapes, Admitted
<1> QED
  BY <1>2, <1>3

(* A step of a worker keeps the types. *)
LEMMA ShapesWorker ==
  ASSUME Shapes, OwnInv, NEW w \in Workers, WorkerStep(w)
  PROVE  Shapes'
<1>0. w[1] \in Requests /\ WindowCount[w[1]] \in Nat
  BY WorkerNames, TrendAssumption
<1>a. \A v \in WorkerPcs : [pc EXCEPT ![w] = v] \in [Workers -> WorkerPcs]
  BY DEF Shapes
<1>b. {"new", "waiting", "granted", "running", "done", "cancelled"} \subseteq WorkerPcs
  BY DEF WorkerPcs
<1>c. [hit EXCEPT ![w] = FALSE] \in [Workers -> BOOLEAN]
  BY DEF Shapes
<1>d. activeGauge - 1 \in Int /\ activeGauge + 1 \in Int /\ free + 1 \in Nat
  BY DEF Shapes
<1>e. pc[w] = "granted" => <<w[1], cur[w]>> \in Windows
  <2>1. cur[w] \in Nat /\ taken[w[1]] \in Nat /\ cur[w] <= taken[w[1]] /\ taken[w[1]] <= WindowCount[w[1]]
    BY <1>0 DEF Shapes
  <2>2. pc[w] = "granted" => cur[w] # 0
    BY DEF OwnInv
  <2> QED
    BY <1>0, <2>1, <2>2, WindowNames
<1>1. CASE BeginEmpty(w)
  BY <1>1, <1>a, <1>b DEF Shapes, BeginEmpty, runVars, workVars, semVars
<1>2. CASE BeginAdmitted(w)
  <2>1. free - 1 \in Nat
    BY <1>2 DEF Shapes, BeginAdmitted, Locked
  <2>2. ~QueueEmpty(w[1]) /\ Takes(w) /\ Admitted(w, taken[w[1]] + 1)
    BY <1>2 DEF BeginAdmitted
  <2> QED
    BY <1>2, <1>a, <1>b, <1>d, <2>1, <2>2, TakesEffect, AdmittedEffect DEF Shapes, BeginAdmitted, runVars
<1>3. CASE BeginWaiting(w)
  <2>1. line' \in Seq(Workers)
    BY <1>3, LineEffect DEF Shapes, BeginWaiting
  <2>2. ~QueueEmpty(w[1]) /\ Takes(w)
    BY <1>3 DEF BeginWaiting
  <2> QED
    BY <1>3, <1>a, <1>b, <2>1, <2>2, TakesEffect DEF Shapes, BeginWaiting, runVars
<1>4. CASE Resume(w)
  <2>1. line' \in Seq(Workers)
    BY <1>4, LineEffect DEF Shapes, Resume
  <2>2. free' \in Nat /\ pc' \in [Workers -> WorkerPcs]
    BY <1>4, <1>a, <1>b, <2>1, WakeEffect DEF Shapes, Resume
  <2>3. Admitted(w, cur[w])
    BY <1>4 DEF Resume
  <2> QED
    BY <1>4, <1>d, <1>e, <2>1, <2>2, <2>3, AdmittedEffect DEF Shapes, Resume, runVars
<1>5. ASSUME NEW how \in {"ok", "failed"}, Records(w, how)
      PROVE  result' \in [Windows -> {"deadline", "ok", "failed"}]
  BY <1>5 DEF Shapes, Records
<1>6. ASSUME NEW how \in {"ok", "failed"}, FinishLast(w, how)
      PROVE  Shapes'
  <2>1. free' \in Nat /\ pc' \in [Workers -> WorkerPcs]
    BY <1>6, <1>a, <1>b, <1>d, WakeEffect DEF Shapes, FinishLast
  <2> QED
    BY <1>5, <1>6, <1>d, <2>1 DEF Shapes, FinishLast, Records, runVars
<1>7. ASSUME NEW how \in {"ok", "failed"}, FinishAndGoOn(w, how)
      PROVE  Shapes'
  <2>1. ~QueueEmpty(w[1]) /\ Takes(w) /\ Admitted(w, taken[w[1]] + 1)
    BY <1>7 DEF FinishAndGoOn
  <2> QED
    BY <1>5, <1>7, <2>1, TakesEffect, AdmittedEffect DEF Shapes, FinishAndGoOn, Records, runVars, semVars
<1>8. ASSUME NEW how \in {"ok", "failed"}, FinishAndLineUp(w, how)
      PROVE  Shapes'
  <2>1. ~QueueEmpty(w[1]) /\ Takes(w)
    BY <1>8 DEF FinishAndLineUp
  <2>2. free' \in Nat /\ pc' \in [Workers -> WorkerPcs]
    BY <1>8, <1>a, <1>b, <1>d, WakeEffect DEF Shapes, FinishAndLineUp
  <2>3. line' \in Seq(Workers)
    BY <1>8, LineEffect DEF Shapes, FinishAndLineUp
  <2> QED
    BY <1>5, <1>8, <1>d, <2>1, <2>2, <2>3, TakesEffect DEF Shapes, FinishAndLineUp, Records, runVars
<1>9. CASE UnwindNew(w)
  BY <1>9, <1>a, <1>b, <1>c DEF Shapes, UnwindNew, runVars, workVars, semVars
<1>10. CASE UnwindWaiting(w)
  <2>1. line' \in Seq(Workers)
    BY <1>10, LineEffect DEF Shapes, UnwindWaiting
  <2> QED
    BY <1>10, <1>a, <1>b, <1>c, <2>1 DEF Shapes, UnwindWaiting, runVars, workVars
<1>11. CASE UnwindGranted(w)
  <2>1. line' \in Seq(Workers)
    BY <1>11, LineEffect DEF Shapes, UnwindGranted
  <2>2. free' \in Nat /\ pc' \in [Workers -> WorkerPcs]
    BY <1>11, <1>a, <1>b, <1>d, <2>1, WakeEffect DEF UnwindGranted
  <2> QED
    BY <1>11, <1>c, <2>1, <2>2 DEF Shapes, UnwindGranted, runVars, workVars
<1>12. CASE UnwindRunning(w)
  <2>1. free' \in Nat /\ pc' \in [Workers -> WorkerPcs]
    BY <1>12, <1>a, <1>b, <1>d, WakeEffect DEF Shapes, UnwindRunning
  <2> QED
    BY <1>12, <1>c, <1>d, <2>1 DEF Shapes, UnwindRunning, runVars, workVars
<1> QED
  BY <1>1, <1>2, <1>3, <1>4, <1>6, <1>7, <1>8, <1>9, <1>10, <1>11, <1>12
  DEF WorkerStep, Begin, Finish, Unwind

(* A step of a request keeps the types. *)
LEMMA ShapesRequest ==
  ASSUME Shapes, NEW r \in Requests, RequestStep(r)
  PROVE  Shapes'
<1>0. WindowCount[r] \in Nat
  BY TrendAssumption
<1>1. CASE RunEmpty(r)
  BY <1>1 DEF Shapes, RunEmpty, workVars, semVars, Phases
<1>2. CASE Run(r)
  <2>1. pc' \in [Workers -> WorkerPcs]
    BY <1>2 DEF Shapes, Run, WorkerPcs
  <2> QED
    BY <1>0, <1>2, <2>1 DEF Shapes, Run, semVars, Phases
<1>3. CASE WorkersDone(r)
  BY <1>3 DEF Shapes, WorkersDone, workVars, semVars, Phases
<1>4. HitWorkers(r) => (Shapes => hit' \in [Workers -> BOOLEAN])
  BY DEF Shapes, HitWorkers
<1>5. CASE Deadline(r) \/ Cancel(r)
  BY <1>4, <1>5 DEF Shapes, Deadline, Cancel, StopsWaiting, workVars, semVars, Phases
<1>6. CASE FirstStopped(r)
  BY <1>4, <1>6 DEF Shapes, FirstStopped, workVars, semVars, Phases
<1>7. CASE Conclude(r)
  <2>1. Resolved(r) \in {"complete", "partial", "timed_out", "cancelled"}
    BY DEF Shapes, Resolved
  <2> QED
    BY <1>7, <2>1 DEF Shapes, Conclude, semVars, Phases
<1>8. CASE ConcludeInterrupted(r)
  BY <1>8 DEF Shapes, ConcludeInterrupted, workVars, semVars, Phases
<1>9. CASE CancelStopping(r)
  BY <1>9 DEF Shapes, CancelStopping, workVars, semVars, Phases
<1>10. CASE CancelDraining(r)
  BY <1>4, <1>10 DEF Shapes, CancelDraining, workVars, semVars
<1> QED
  BY <1>1, <1>2, <1>3, <1>5, <1>6, <1>7, <1>8, <1>9, <1>10 DEF RequestStep

-----------------------------------------------------------------------------
(* Taking the next index keeps ownership: the index is new to everybody.   *)
LEMMA OwnTakes ==
  ASSUME Shapes, OwnInv, NEW w \in Workers, Takes(w),
         pc' \in [Workers -> WorkerPcs],
         \A u \in Workers \ {w} : pc'[u] = pc[u] \/ (pc[u] = "waiting" /\ pc'[u] = "granted"),
         \/ started' = started /\ InLine(w)'
         \/ started' = started \cup {<<w[1], taken[w[1]] + 1>>} /\ pc'[w] = "running"
  PROVE  OwnInv'
<1>1. w[1] \in Requests /\ taken[w[1]] \in Nat
  BY WorkerNames DEF Shapes
<1>2. /\ \A u \in Workers : cur'[u] = IF u = w THEN taken[w[1]] + 1 ELSE cur[u]
      /\ \A r \in Requests : taken'[r] = IF r = w[1] THEN taken[r] + 1 ELSE taken[r]
  BY <1>1 DEF Takes, Shapes
<1>3. \A u \in Workers : u # w /\ Busy(u)' => Busy(u)
  OBVIOUS
<1>4. \A u \in Workers : cur[u] \in Nat /\ u[1] \in Requests /\ cur[u] <= taken[u[1]]
  BY WorkerNames DEF Shapes
<1>5. \A u \in Workers : u[1] = w[1] => cur[u] # taken[w[1]] + 1
  BY <1>1, <1>4
<1>6. \A u \in Workers : Busy(u)' => cur'[u] # 0
  BY <1>1, <1>2, <1>3, <1>4 DEF OwnInv
<1>7. <<w[1], taken[w[1]] + 1>> \notin started
  BY <1>1 DEF OwnInv
<1>8. \A u \in Workers : InLine(u)' => <<u[1], cur'[u]>> \notin started'
  <2> SUFFICES ASSUME NEW u \in Workers, InLine(u)'
               PROVE  <<u[1], cur'[u]>> \notin started'
    OBVIOUS
  <2>1. CASE u = w
    BY <2>1, <1>2, <1>7
  <2>2. CASE u # w
    <3>1. InLine(u) /\ cur'[u] = cur[u] /\ <<u[1], cur[u]>> \notin started
      BY <2>2, <1>2 DEF OwnInv
    <3>2. <<u[1], cur[u]>> # <<w[1], taken[w[1]] + 1>>
      BY <1>5
    <3> QED
      BY <3>1, <3>2
  <2> QED
    BY <2>1, <2>2
<1>9. \A u, v \in Workers : Busy(u)' /\ Busy(v)' /\ u[1] = v[1] /\ cur'[u] = cur'[v] => u = v
  <2> SUFFICES ASSUME NEW u \in Workers, NEW v \in Workers,
                      Busy(u)', Busy(v)', u[1] = v[1], cur'[u] = cur'[v]
               PROVE  u = v
    OBVIOUS
  <2>1. CASE u # w /\ v # w
    BY <2>1, <1>2, <1>3 DEF OwnInv
  <2>2. CASE u = w \/ v = w
    BY <2>2, <1>2, <1>5
  <2> QED
    BY <2>1, <2>2
<1>10. \A x \in started' : x[2] <= taken'[x[1]]
  <2> SUFFICES ASSUME NEW x \in started'
               PROVE  x[2] <= taken'[x[1]]
    OBVIOUS
  <2>1. CASE x \in started
    <3>1. x[1] \in Requests /\ x[2] \in Nat /\ x[2] <= taken[x[1]] /\ taken[x[1]] \in Nat
      BY <2>1, WindowNames, TrendAssumption DEF Shapes, OwnInv
    <3> QED
      BY <3>1, <1>2
  <2>2. CASE x = <<w[1], taken[w[1]] + 1>>
    BY <2>2, <1>1, <1>2
  <2> QED
    BY <2>1, <2>2
<1> QED
  BY <1>6, <1>8, <1>9, <1>10 DEF OwnInv

(* Nobody gains a window, and no window starts: ownership stays.           *)
LEMMA OwnQuiet ==
  ASSUME OwnInv, cur' = cur, taken' = taken, started' = started,
         \A u \in Workers : (Busy(u)' => Busy(u)) /\ (InLine(u)' => InLine(u))
  PROVE  OwnInv'
BY DEF OwnInv

(* A waiter that resumes starts the window it owns, and no other's. *)
LEMMA OwnResume ==
  ASSUME Shapes, OwnInv, NEW w \in Workers, pc[w] = "granted", pc' \in [Workers -> WorkerPcs],
         cur' = cur, taken' = taken, started' = started \cup {<<w[1], cur[w]>>},
         pc'[w] = "running",
         \A u \in Workers \ {w} : pc'[u] = pc[u] \/ (pc[u] = "waiting" /\ pc'[u] = "granted")
  PROVE  OwnInv'
<1>1. \A u \in Workers : (Busy(u)' => Busy(u)) /\ (InLine(u)' => InLine(u) /\ u # w)
  OBVIOUS
<1>2. \A u \in Workers : InLine(u)' => <<u[1], cur[u]>> # <<w[1], cur[w]>>
  BY <1>1 DEF OwnInv
<1>3. cur[w] <= taken[w[1]]
  BY DEF Shapes
<1>4. \A u \in Workers : InLine(u)' => <<u[1], cur[u]>> \notin started'
  BY <1>1, <1>2 DEF OwnInv
<1>5. \A x \in started' : x[2] <= taken[x[1]]
  BY <1>3 DEF OwnInv
<1> QED
  BY <1>1, <1>4, <1>5 DEF OwnInv

(* What a step of a worker does to the places of the workers.              *)
LEMMA WorkerMoves ==
  ASSUME Shapes, OwnInv, NEW w \in Workers, WorkerStep(w)
  PROVE  /\ OwnInv'
         /\ phase' = phase /\ interrupted' = interrupted
         /\ \A u \in Workers : Busy(u)' \/ pc'[u] = "new" => Busy(u) \/ pc[u] = "new"
         /\ \A r \in Requests : taken'[r] # taken[r] => r = w[1] /\ (Busy(w) \/ pc[w] = "new")
<1>0. \A v \in WorkerPcs : [pc EXCEPT ![w] = v] \in [Workers -> WorkerPcs]
  BY DEF Shapes
<1>a. {"new", "waiting", "granted", "running", "done", "cancelled"} \subseteq WorkerPcs
  BY DEF WorkerPcs
<1>b. free + 1 \in Nat /\ line \in Seq(Workers) /\ taken \in [Requests -> Nat] /\ w[1] \in Requests
  BY WorkerNames DEF Shapes
<1>c. Shapes'
  BY ShapesWorker
<1>1. CASE BeginEmpty(w)
  BY <1>1, OwnQuiet DEF Shapes, BeginEmpty, runVars, workVars
<1>2. CASE BeginAdmitted(w)
  <2>1. OwnInv'
    BY <1>2, <1>c, OwnTakes DEF Shapes, BeginAdmitted, Admitted
  <2> QED
    BY <1>2, <2>1, <1>b DEF Shapes, BeginAdmitted, Takes, runVars
<1>3. CASE BeginWaiting(w)
  <2>1. OwnInv'
    BY <1>3, <1>c, OwnTakes DEF Shapes, BeginWaiting
  <2> QED
    BY <1>3, <2>1, <1>b DEF Shapes, BeginWaiting, Takes, runVars
<1>4. CASE Resume(w)
  <2> DEFINE s == [pc EXCEPT ![w] = "running"]
  <2>0. free \in Nat /\ line' \in Seq(Workers)
    BY <1>c DEF Shapes
  <2>1. \A u \in Workers : pc'[u] = s[u] \/ (s[u] = "waiting" /\ pc'[u] = "granted")
    BY <1>4, <1>0, <1>a, <2>0, WakeEffect DEF Resume
  <2>2. pc'[w] = "running" /\ \A u \in Workers \ {w} : pc'[u] = pc[u] \/ (pc[u] = "waiting" /\ pc'[u] = "granted")
    BY <2>1 DEF Shapes
  <2>3. OwnInv'
    BY <1>4, <1>c, <2>2, OwnResume DEF Shapes, Resume, Admitted
  <2> QED
    BY <1>4, <2>2, <2>3 DEF Resume, runVars
<1>5. ASSUME NEW how \in {"ok", "failed"}, FinishLast(w, how)
      PROVE  /\ OwnInv'
             /\ phase' = phase /\ interrupted' = interrupted /\ taken' = taken
             /\ \A u \in Workers : Busy(u)' \/ pc'[u] = "new" => Busy(u) \/ pc[u] = "new"
  <2> DEFINE s == [pc EXCEPT ![w] = "done"]
  <2>1. \A u \in Workers : pc'[u] = s[u] \/ (s[u] = "waiting" /\ pc'[u] = "granted")
    BY <1>5, <1>0, <1>a, <1>b, WakeEffect DEF FinishLast
  <2>2. pc'[w] = "done" /\ \A u \in Workers \ {w} : pc'[u] = pc[u] \/ (pc[u] = "waiting" /\ pc'[u] = "granted")
    BY <2>1 DEF Shapes
  <2>3. OwnInv'
    BY <1>5, <2>2, OwnQuiet DEF FinishLast
  <2> QED
    BY <1>5, <2>2, <2>3 DEF FinishLast, Records, runVars
<1>6. ASSUME NEW how \in {"ok", "failed"}, FinishAndGoOn(w, how)
      PROVE  /\ OwnInv'
             /\ phase' = phase /\ interrupted' = interrupted /\ pc' = pc /\ Busy(w)
             /\ \A r \in Requests : taken'[r] # taken[r] => r = w[1]
  <2>1. OwnInv'
    BY <1>6, <1>c, OwnTakes DEF Shapes, FinishAndGoOn, Records, Admitted
  <2> QED
    BY <1>6, <2>1, <1>b DEF FinishAndGoOn, Records, Takes, runVars
<1>7. ASSUME NEW how \in {"ok", "failed"}, FinishAndLineUp(w, how)
      PROVE  /\ OwnInv'
             /\ phase' = phase /\ interrupted' = interrupted /\ Busy(w)
             /\ \A u \in Workers : Busy(u)' \/ pc'[u] = "new" => Busy(u) \/ pc[u] = "new"
             /\ \A r \in Requests : taken'[r] # taken[r] => r = w[1]
  <2> DEFINE s == [pc EXCEPT ![w] = "waiting"]
  <2>1. \A u \in Workers : pc'[u] = s[u] \/ (s[u] = "waiting" /\ pc'[u] = "granted")
    BY <1>7, <1>0, <1>a, <1>b, WakeEffect DEF FinishAndLineUp
  <2>2. \A u \in Workers \ {w} : pc'[u] = pc[u] \/ (pc[u] = "waiting" /\ pc'[u] = "granted")
    BY <2>1 DEF Shapes
  <2>3. InLine(w)'
    BY <2>1 DEF Shapes
  <2>4. OwnInv'
    BY <1>7, <1>c, <2>2, <2>3, OwnTakes DEF Shapes, FinishAndLineUp
  <2> QED
    BY <1>7, <1>b, <2>2, <2>3, <2>4 DEF FinishAndLineUp, Records, Takes, runVars
<1>8. CASE UnwindNew(w)
  BY <1>8, OwnQuiet DEF Shapes, UnwindNew, runVars, workVars
<1>9. CASE UnwindWaiting(w)
  BY <1>9, OwnQuiet DEF Shapes, UnwindWaiting, runVars, workVars
<1>10. ASSUME UnwindGranted(w) \/ UnwindRunning(w)
       PROVE  /\ OwnInv'
              /\ phase' = phase /\ interrupted' = interrupted /\ taken' = taken
              /\ \A u \in Workers : Busy(u)' \/ pc'[u] = "new" => Busy(u) \/ pc[u] = "new"
  <2> DEFINE s == [pc EXCEPT ![w] = "cancelled"]
  <2>0. line' \in Seq(Workers)
    BY <1>c DEF Shapes
  <2>1. \A u \in Workers : pc'[u] = s[u] \/ (s[u] = "waiting" /\ pc'[u] = "granted")
    BY <1>10, <1>0, <1>a, <1>b, <2>0, WakeEffect DEF UnwindGranted, UnwindRunning
  <2>2. pc'[w] = "cancelled" /\ \A u \in Workers \ {w} : pc'[u] = pc[u] \/ (pc[u] = "waiting" /\ pc'[u] = "granted")
    BY <2>1 DEF Shapes
  <2>3. OwnInv'
    BY <1>10, <2>2, OwnQuiet DEF UnwindGranted, UnwindRunning, workVars
  <2> QED
    BY <1>10, <2>2, <2>3 DEF UnwindGranted, UnwindRunning, runVars, workVars
<1> QED
  BY <1>1, <1>2, <1>3, <1>4, <1>5, <1>6, <1>7, <1>8, <1>9, <1>10
  DEF WorkerStep, Begin, Finish, Unwind

(* What a step of a request does: only run makes workers, no one else      *)
(* changes places, and run leaves only when all its workers are done.      *)
LEMMA RequestMoves ==
  ASSUME Shapes, OwnInv, OpenInv, NEW r \in Requests, RequestStep(r)
  PROVE  /\ OwnInv'
         /\ OpenInv'
<1>1. ASSUME UNCHANGED <<pc, cur, taken, started>>
      PROVE  OwnInv'
  BY <1>1, OwnQuiet
<1>2. ASSUME UNCHANGED <<pc, taken>>,
             \A q \in Requests : Open(q)' = Open(q) /\ (phase'[q] = "idle" => phase[q] = "idle"),
             \A q \in Requests : interrupted'[q] => phase'[q] \in {"draining", "done"}
      PROVE  OpenInv'
  BY <1>2, WorkerNames DEF OpenInv
<1>3. AllFinished(r) => \A w \in Workers : w[1] = r => ~Busy(w) /\ pc[w] # "new"
  BY WorkerNames DEF AllFinished, Finished
<1>4. CASE RunEmpty(r)
  <2>1. \A w \in Workers : w[1] # r
    BY <1>4, WorkerNames DEF RunEmpty
  <2>2. OpenInv'
    BY <1>4, <2>1, WorkerNames DEF RunEmpty, OpenInv, Open, Shapes, workVars
  <2> QED
    BY <1>1, <1>4, <2>2 DEF RunEmpty, workVars
<1>5. CASE Run(r)
  <2>1. \A w \in Workers : w[1] = r => ~Busy(w)
    BY <1>5 DEF Run, OpenInv, Open
  <2>2. \A w \in Workers : (Busy(w)' => Busy(w)) /\ (InLine(w)' => InLine(w))
    BY <1>5 DEF Run
  <2>3. OwnInv'
    BY <1>5, <2>2, OwnQuiet DEF Run
  <2>4. \A w \in Workers : Busy(w)' \/ pc'[w] = "new" => w[1] = r \/ Open(w[1])
    BY <1>5 DEF Run, OpenInv
  <2>5. \A q \in Requests : (Open(q) \/ q = r) => Open(q)'
    BY <1>5 DEF Run, Open, Shapes
  <2>6. \A q \in Requests : /\ phase'[q] = "idle" => taken'[q] = 0
                            /\ interrupted'[q] => phase'[q] \in {"draining", "done"}
    BY <1>5 DEF Run, OpenInv, Shapes
  <2> QED
    BY <2>3, <2>4, <2>5, <2>6, WorkerNames DEF OpenInv
<1>6. CASE WorkersDone(r) \/ CancelStopping(r)
  BY <1>1, <1>2, <1>6 DEF WorkersDone, CancelStopping, OpenInv, Open, Shapes, workVars
<1>7. CASE Deadline(r) \/ Cancel(r)
  <2>1. /\ UNCHANGED <<pc, cur, taken, started, interrupted>>
        /\ phase[r] = "waiting"
        /\ phase' = [phase EXCEPT ![r] = "stopping"]
    BY <1>7 DEF Deadline, Cancel, StopsWaiting, workVars
  <2>2. \A q \in Requests : Open(q)' = Open(q) /\ (phase'[q] = "idle" => phase[q] = "idle")
    BY <2>1 DEF Open, Shapes
  <2>3. \A q \in Requests : interrupted'[q] => phase'[q] \in {"draining", "done"}
    BY <2>1 DEF OpenInv, Shapes
  <2> QED
    BY <1>1, <1>2, <2>1, <2>2, <2>3
<1>8. CASE FirstStopped(r)
  BY <1>1, <1>2, <1>8 DEF FirstStopped, OpenInv, Open, Shapes, workVars
<1>9. CASE CancelDraining(r)
  <2>1. UNCHANGED <<phase, pc, cur, taken, started>> /\ phase[r] = "draining"
    BY <1>9 DEF CancelDraining, workVars
  <2>2. \A q \in Requests : interrupted'[q] => phase'[q] \in {"draining", "done"}
    BY <1>9, <2>1 DEF CancelDraining, OpenInv, Shapes
  <2> QED
    BY <1>1, <1>2, <2>1, <2>2 DEF Open
<1>10. CASE Conclude(r) \/ ConcludeInterrupted(r)
  <2>1. /\ UNCHANGED <<pc, cur, taken, started, interrupted>>
        /\ AllFinished(r)
        /\ phase[r] = "draining"
        /\ phase' = [phase EXCEPT ![r] = "done"]
    BY <1>10 DEF Conclude, ConcludeInterrupted, workVars
  <2>2. \A q \in Requests : q # r => Open(q)' = Open(q)
    BY <2>1 DEF Open, Shapes
  <2>3. \A w \in Workers : Busy(w)' \/ pc'[w] = "new" => Open(w[1])'
    BY <1>3, <2>1, <2>2, WorkerNames DEF OpenInv
  <2>4. \A q \in Requests : /\ phase'[q] = "idle" => taken'[q] = 0
                            /\ interrupted'[q] => phase'[q] \in {"draining", "done"}
    BY <2>1 DEF OpenInv, Shapes
  <2>5. OpenInv'
    BY <2>3, <2>4 DEF OpenInv
  <2> QED
    BY <1>1, <2>1, <2>5
<1> QED
  BY <1>4, <1>5, <1>6, <1>7, <1>8, <1>9, <1>10 DEF RequestStep

(* A worker stays inside its request. *)
LEMMA OpenWorker ==
  ASSUME Shapes, OwnInv, OpenInv, NEW w \in Workers, WorkerStep(w)
  PROVE  OpenInv'
<1>1. \A r \in Requests : taken'[r] # taken[r] => Open(r)
  BY WorkerMoves DEF OpenInv
<1>2. \A r \in Requests : phase'[r] = "idle" => taken'[r] = 0
  BY <1>1, WorkerMoves DEF OpenInv, Open
<1>3. \A u \in Workers : Busy(u)' \/ pc'[u] = "new" => Open(u[1])'
  BY WorkerMoves DEF OpenInv, Open
<1> QED
  BY <1>2, <1>3, WorkerMoves DEF OpenInv

-----------------------------------------------------------------------------
(* A step of a worker conserves permits, and the active gauge counts. *)
LEMMA PermitsWorker ==
  ASSUME Shapes, OwnInv, PermitsConserved, NEW w \in Workers, WorkerStep(w)
  PROVE  PermitsConserved'
<1> DEFINE at(v) == [pc EXCEPT ![w] = v]
<1>0. /\ Holding = HeldIn(pc) /\ Running = RunsIn(pc)
      /\ Holding' = HeldIn(pc') /\ Running' = RunsIn(pc')
  BY DEF Holding, Running, HeldIn, RunsIn
<1>1. \A state \in [Workers -> WorkerPcs] :
        /\ IsFiniteSet(HeldIn(state)) /\ Cardinality(HeldIn(state)) \in Nat
        /\ IsFiniteSet(RunsIn(state)) /\ Cardinality(RunsIn(state)) \in Nat
  <2> TAKE state \in [Workers -> WorkerPcs]
  <2>1. HeldIn(state) \in SUBSET Workers /\ RunsIn(state) \in SUBSET Workers
    BY DEF HeldIn, RunsIn
  <2> QED
    BY <2>1, Finite, FS_Subset, FS_CardinalityType
<1>2. /\ pc \in [Workers -> WorkerPcs]
      /\ \A v \in WorkerPcs : at(v) \in [Workers -> WorkerPcs]
  BY DEF Shapes
<1>a. {"new", "waiting", "granted", "running", "done", "cancelled"} \subseteq WorkerPcs
  BY DEF WorkerPcs
<1>3. ASSUME NEW v \in {"waiting", "done", "cancelled"}, pc[w] = "running"
      PROVE  /\ Cardinality(HeldIn(at(v))) = Cardinality(HeldIn(pc)) - 1
             /\ Cardinality(RunsIn(at(v))) = Cardinality(RunsIn(pc)) - 1
  <2>1. HeldIn(at(v)) = HeldIn(pc) \ {w} /\ RunsIn(at(v)) = RunsIn(pc) \ {w}
    BY <1>2, <1>3 DEF HeldIn, RunsIn
  <2>2. w \in HeldIn(pc) /\ w \in RunsIn(pc)
    BY <1>3 DEF HeldIn, RunsIn
  <2> QED
    BY <1>1, <1>2, <2>1, <2>2, FS_RemoveElement
<1>4. ASSUME NEW v \in {"waiting", "done", "cancelled"}, pc[w] \in {"new", "waiting"}
      PROVE  HeldIn(at(v)) = HeldIn(pc) /\ RunsIn(at(v)) = RunsIn(pc)
  BY <1>2, <1>4 DEF HeldIn, RunsIn
<1>5. ASSUME pc[w] = "new"
      PROVE  /\ Cardinality(HeldIn(at("running"))) = Cardinality(HeldIn(pc)) + 1
             /\ Cardinality(RunsIn(at("running"))) = Cardinality(RunsIn(pc)) + 1
  <2>1. /\ HeldIn(at("running")) = HeldIn(pc) \cup {w} /\ w \notin HeldIn(pc)
        /\ RunsIn(at("running")) = RunsIn(pc) \cup {w} /\ w \notin RunsIn(pc)
    BY <1>2, <1>5 DEF HeldIn, RunsIn
  <2> QED
    BY <1>1, <1>2, <2>1, FS_AddElement
<1>6. ASSUME pc[w] = "granted"
      PROVE  /\ HeldIn(at("running")) = HeldIn(pc)
             /\ Cardinality(RunsIn(at("running"))) = Cardinality(RunsIn(pc)) + 1
             /\ Cardinality(HeldIn(at("cancelled"))) = Cardinality(HeldIn(pc)) - 1
             /\ RunsIn(at("cancelled")) = RunsIn(pc)
  <2>1. HeldIn(at("running")) = HeldIn(pc) /\ RunsIn(at("cancelled")) = RunsIn(pc)
    BY <1>2, <1>6 DEF HeldIn, RunsIn
  <2>2. RunsIn(at("running")) = RunsIn(pc) \cup {w} /\ w \notin RunsIn(pc)
    BY <1>2, <1>6 DEF RunsIn
  <2>3. HeldIn(at("cancelled")) = HeldIn(pc) \ {w} /\ w \in HeldIn(pc)
    BY <1>2, <1>6 DEF HeldIn
  <2>4. Cardinality(RunsIn(at("running"))) = Cardinality(RunsIn(pc)) + 1
    BY <1>1, <1>2, <2>2, FS_AddElement
  <2>5. Cardinality(HeldIn(at("cancelled"))) = Cardinality(HeldIn(pc)) - 1
    BY <1>1, <1>2, <2>3, FS_RemoveElement
  <2> QED
    BY <2>1, <2>4, <2>5
<1>7. /\ free \in Nat /\ free + 1 \in Nat /\ activeGauge \in Int /\ Limit \in Nat
      /\ line \in Seq(Workers)
  BY TrendAssumption DEF Shapes
<1>b. line' \in Seq(Workers)
  BY ShapesWorker DEF Shapes
<1>c. /\ free + Cardinality(HeldIn(pc)) = Limit
      /\ activeGauge = Cardinality(RunsIn(pc))
      /\ Cardinality(HeldIn(pc)) \in Nat /\ Cardinality(RunsIn(pc)) \in Nat
  BY <1>0, <1>1, <1>2 DEF PermitsConserved
<1>d. PermitsConserved' <=> /\ free' + Cardinality(HeldIn(pc')) = Limit
                            /\ activeGauge' = Cardinality(RunsIn(pc'))
  BY <1>0 DEF PermitsConserved
<1>8. ASSUME NEW value \in Nat, NEW queue \in Seq(Workers), NEW v \in WorkerPcs,
             WakeNext(value, queue, at(v))
      PROVE  /\ free' + Cardinality(HeldIn(pc')) = value + Cardinality(HeldIn(at(v)))
             /\ RunsIn(pc') = RunsIn(at(v))
  BY <1>2, <1>8, WakeEffect
<1> HIDE DEF at
<1>9. CASE BeginEmpty(w)
  <2>1. pc' = at("done") /\ pc[w] = "new" /\ free' = free /\ activeGauge' = activeGauge
    BY <1>9 DEF BeginEmpty, semVars, at
  <2> QED
    BY <2>1, <1>4, <1>c, <1>d
<1>10. CASE BeginAdmitted(w)
  <2>1. pc' = at("running") /\ pc[w] = "new" /\ free' = free - 1 /\ activeGauge' = activeGauge + 1
    BY <1>10 DEF BeginAdmitted, at
  <2> QED
    BY <2>1, <1>5, <1>7, <1>c, <1>d
<1>11. CASE BeginWaiting(w)
  <2>1. pc' = at("waiting") /\ pc[w] = "new" /\ free' = free /\ activeGauge' = activeGauge
    BY <1>11 DEF BeginWaiting, at
  <2> QED
    BY <2>1, <1>4, <1>c, <1>d
<1>12. CASE Resume(w)
  <2>1. WakeNext(free, line', at("running")) /\ pc[w] = "granted" /\ activeGauge' = activeGauge + 1
    BY <1>12 DEF Resume, at
  <2> QED
    BY <2>1, <1>6, <1>7, <1>8, <1>a, <1>b, <1>c, <1>d
<1>13. ASSUME NEW how \in {"ok", "failed"},
              FinishLast(w, how) \/ FinishAndLineUp(w, how) \/ UnwindRunning(w)
       PROVE  PermitsConserved'
  <2>1. PICK v \in {"done", "waiting", "cancelled"} :
          WakeNext(free + 1, line, at(v)) /\ pc[w] = "running" /\ activeGauge' = activeGauge - 1
    BY <1>13 DEF FinishLast, FinishAndLineUp, UnwindRunning, Records, at
  <2> QED
    BY <2>1, <1>3, <1>7, <1>8, <1>a, <1>c, <1>d
<1>14. ASSUME NEW how \in {"ok", "failed"}, FinishAndGoOn(w, how)
       PROVE  PermitsConserved'
  BY <1>14, <1>c, <1>d DEF FinishAndGoOn, semVars
<1>15. CASE UnwindNew(w) \/ UnwindWaiting(w)
  <2>1. /\ pc' = at("cancelled") /\ pc[w] \in {"new", "waiting"}
        /\ free' = free /\ activeGauge' = activeGauge
    BY <1>15 DEF UnwindNew, UnwindWaiting, semVars, at
  <2> QED
    BY <2>1, <1>4, <1>c, <1>d
<1>16. CASE UnwindGranted(w)
  <2>1. WakeNext(free + 1, line', at("cancelled")) /\ pc[w] = "granted" /\ activeGauge' = activeGauge
    BY <1>16 DEF UnwindGranted, at
  <2> QED
    BY <2>1, <1>6, <1>7, <1>8, <1>a, <1>b, <1>c, <1>d
<1> QED
  BY <1>9, <1>10, <1>11, <1>12, <1>13, <1>14, <1>15, <1>16 DEF WorkerStep, Begin, Finish, Unwind

(* A step of a request touches no permit. *)
LEMMA PermitsRequest ==
  ASSUME Shapes, OpenInv, PermitsConserved, NEW r \in Requests, RequestStep(r)
  PROVE  PermitsConserved'
<1>1. free' = free /\ activeGauge' = activeGauge
  BY DEF RequestStep, RunEmpty, Run, WorkersDone, Deadline, FirstStopped, Conclude, ConcludeInterrupted,
         Cancel, CancelStopping, CancelDraining, StopsWaiting, semVars
<1>2. \A w \in Workers : pc'[w] = pc[w] \/ (pc[w] \notin {"granted", "running"} /\ pc'[w] = "new")
  <2>1. CASE Run(r)
    <3>1. \A w \in Workers : w[1] = r => ~Busy(w)
      BY <2>1 DEF Run, OpenInv, Open
    <3> QED
      BY <2>1, <3>1 DEF Run
  <2>2. CASE pc' = pc
    BY <2>2
  <2> QED
    BY <2>1, <2>2 DEF RequestStep, RunEmpty, WorkersDone, Deadline, FirstStopped, Conclude, ConcludeInterrupted,
       Cancel, CancelStopping, CancelDraining, StopsWaiting
<1>3. Holding' = Holding /\ Running' = Running
  BY <1>2 DEF Holding, Running
<1> QED
  BY <1>1, <1>3 DEF PermitsConserved

-----------------------------------------------------------------------------
Counted == {x \in Windows : x \notin started /\ (Open(x[1]) \/ interrupted[x[1]])}

(* An admission takes one window from what its request still counts, and   *)
(* one from what the gauge counts.                                         *)
LEMMA AdmissionCounts ==
  ASSUME Shapes, CountInv, QueuedGaugeExact, NEW w \in Workers, NEW i,
         <<w[1], i>> \in Windows, <<w[1], i>> \notin started, Open(w[1]),
         Admitted(w, i), phase' = phase, interrupted' = interrupted
  PROVE  CountInv' /\ QueuedGaugeExact'
<1> DEFINE x == <<w[1], i>>
           r == w[1]
<1>1. r \in Requests /\ started' = started \cup {x} /\ queuedGauge' = queuedGauge - 1
  BY WorkerNames DEF Admitted
<1>2. \A q \in Requests : queuedCount'[q] = IF q = r THEN queuedCount[q] - 1 ELSE queuedCount[q]
  BY <1>1 DEF Shapes, Admitted
<1>3. \A q \in Requests : NotStarted(q) \in SUBSET Windows /\ IsFiniteSet(NotStarted(q))
  <2>1. \A q \in Requests : NotStarted(q) \in SUBSET Windows
    BY DEF NotStarted
  <2> QED
    BY <2>1, Finite, FS_Subset
<1>4. Counted \in SUBSET Windows /\ IsFiniteSet(Counted)
  <2>1. Counted \in SUBSET Windows
    BY DEF Counted
  <2> QED
    BY <2>1, Finite, FS_Subset
<1>5. NotStarted(r)' = NotStarted(r) \ {x} /\ x \in NotStarted(r)
  BY <1>1 DEF NotStarted
<1>6. \A q \in Requests : q # r => NotStarted(q)' = NotStarted(q)
  BY <1>1 DEF NotStarted
<1>7. Counted' = Counted \ {x} /\ x \in Counted
  BY <1>1 DEF Counted, Open
<1>8. Cardinality(NotStarted(r)') = Cardinality(NotStarted(r)) - 1
  <2>1. IsFiniteSet(NotStarted(r))
    BY <1>1, <1>3
  <2>2. PICK S, y : S = NotStarted(r) /\ y = x
    OBVIOUS
  <2>3. Cardinality(S \ {y}) = Cardinality(S) - 1
    BY <1>5, <2>1, <2>2, FS_RemoveElement
  <2> QED
    BY <1>5, <2>2, <2>3
<1>9. Cardinality(Counted') = Cardinality(Counted) - 1
  BY <1>4, <1>7, FS_RemoveElement
<1>10. CountInv'
  BY <1>1, <1>2, <1>6, <1>8 DEF CountInv, Open
<1>11. QueuedGaugeExact'
  BY <1>1, <1>9 DEF QueuedGaugeExact, Counted
<1> QED
  BY <1>10, <1>11

(* Nothing that is counted changes. *)
LEMMA CountsQuiet ==
  ASSUME CountInv, QueuedGaugeExact,
         UNCHANGED <<queuedCount, queuedGauge, started>>,
         \A q \in Requests : Open(q)' = Open(q) /\ (Open(q) \/ interrupted'[q] = interrupted[q])
  PROVE  CountInv' /\ QueuedGaugeExact'
<1>1. \A q \in Requests : NotStarted(q)' = NotStarted(q)
  BY DEF NotStarted
<1>2. CountInv'
  <2> SUFFICES ASSUME NEW q \in Requests
               PROVE  queuedCount'[q] = IF Open(q)' \/ interrupted'[q] THEN Cardinality(NotStarted(q)') ELSE 0
    BY DEF CountInv
  <2>1. Open(q)' = Open(q) /\ (Open(q) \/ interrupted'[q] = interrupted[q])
    OBVIOUS
  <2>2. queuedCount[q] = IF Open(q) \/ interrupted[q] THEN Cardinality(NotStarted(q)) ELSE 0
    BY DEF CountInv
  <2> QED
    BY <1>1, <2>1, <2>2
<1>3. \A x \in Windows : (Open(x[1]) \/ interrupted[x[1]])' <=> (Open(x[1]) \/ interrupted[x[1]])
  <2> TAKE x \in Windows
  <2>1. x[1] \in Requests
    BY WindowNames
  <2>2. /\ Open(x[1])' = Open(x[1])
        /\ Open(x[1]) \/ interrupted'[x[1]] = interrupted[x[1]]
    BY <2>1
  <2> QED
    BY <2>2, Zenon
<1>4. Counted' = Counted
  BY <1>3 DEF Counted
<1> QED
  BY <1>2, <1>4 DEF QueuedGaugeExact, Counted

(* A step of a worker keeps both counts. *)
LEMMA CountsWorker ==
  ASSUME IInv, NEW w \in Workers, WorkerStep(w)
  PROVE  CountInv' /\ QueuedGaugeExact'
<1> USE DEF IInv
<1>0. w[1] \in Requests /\ taken[w[1]] \in Nat /\ phase' = phase /\ interrupted' = interrupted
  BY WorkerNames, WorkerMoves DEF Shapes
<1>a. \A q \in Requests : Open(q)' = Open(q)
  BY <1>0 DEF Open
<1>b. <<w[1], taken[w[1]] + 1>> \notin started
  BY <1>0 DEF OwnInv
<1>c. Busy(w) \/ pc[w] = "new" => Open(w[1])
  BY DEF OpenInv
<1>1. CASE UNCHANGED <<queuedCount, queuedGauge, started>>
  BY <1>0, <1>1, <1>a, CountsQuiet
<1>2. ASSUME pc[w] \in {"new", "running"}, ~QueueEmpty(w[1]), Takes(w), Admitted(w, taken[w[1]] + 1)
      PROVE  CountInv' /\ QueuedGaugeExact'
  <2>1. <<w[1], taken[w[1]] + 1>> \in Windows
    BY <1>2, TakesEffect
  <2> QED
    BY <1>0, <1>2, <1>b, <1>c, <2>1, AdmissionCounts
<1>3. CASE Resume(w)
  <2>1. pc[w] = "granted" /\ Admitted(w, cur[w])
    BY <1>3 DEF Resume
  <2>2. cur[w] \in Nat /\ cur[w] # 0 /\ cur[w] <= taken[w[1]] /\ taken[w[1]] <= WindowCount[w[1]]
    BY <1>0, <2>1 DEF Shapes, OwnInv
  <2>3. WindowCount[w[1]] \in Nat
    BY <1>0, TrendAssumption
  <2>4. <<w[1], cur[w]>> \in Windows
    BY <1>0, <2>2, <2>3, WindowNames
  <2>5. <<w[1], cur[w]>> \notin started
    BY <2>1 DEF OwnInv
  <2> QED
    BY <1>0, <1>c, <2>1, <2>4, <2>5, AdmissionCounts
<1>4. CASE BeginAdmitted(w)
  BY <1>2, <1>4 DEF BeginAdmitted
<1>5. ASSUME NEW how \in {"ok", "failed"}, FinishAndGoOn(w, how)
      PROVE  CountInv' /\ QueuedGaugeExact'
  BY <1>2, <1>5 DEF FinishAndGoOn, Records
<1>6. ASSUME NEW how \in {"ok", "failed"}, FinishLast(w, how) \/ FinishAndLineUp(w, how)
      PROVE  UNCHANGED <<queuedCount, queuedGauge, started>>
  BY <1>6 DEF FinishLast, FinishAndLineUp
<1>7. CASE BeginEmpty(w) \/ BeginWaiting(w) \/ Unwind(w)
  BY <1>1, <1>7 DEF BeginEmpty, BeginWaiting, Unwind, UnwindNew, UnwindWaiting, UnwindGranted, UnwindRunning, workVars
<1> QED
  BY <1>1, <1>3, <1>4, <1>5, <1>6, <1>7 DEF WorkerStep, Begin, Finish

(* A step of a request keeps both counts. *)
LEMMA CountsRequest ==
  ASSUME IInv, NEW r \in Requests, RequestStep(r)
  PROVE  CountInv' /\ QueuedGaugeExact'
<1> USE DEF IInv
<1>1. ASSUME UNCHANGED <<queuedCount, queuedGauge, started, interrupted>>,
             \A q \in Requests : Open(q)' = Open(q)
      PROVE  CountInv' /\ QueuedGaugeExact'
  BY <1>1, CountsQuiet
<1>2. CASE RunEmpty(r)
  <2>1. \A q \in Requests : q # r => Open(q)' = Open(q)
    BY <1>2 DEF RunEmpty, Open, Shapes
  <2>2. Open(r)' = Open(r)
    BY <1>2 DEF RunEmpty, Open, Shapes
  <2>3. UNCHANGED <<queuedCount, queuedGauge, started, interrupted>>
    BY <1>2 DEF RunEmpty, workVars
  <2>4. \A q \in Requests : Open(q)' = Open(q)
    BY <2>1, <2>2, Zenon
  <2> QED
    BY <1>1, <2>3, <2>4
<1>3. CASE WorkersDone(r) \/ Deadline(r) \/ Cancel(r) \/ CancelStopping(r) \/ FirstStopped(r)
  <2>1. PICK p \in {"stopping", "draining"} :
          /\ phase' = [phase EXCEPT ![r] = p]
          /\ phase[r] \in {"waiting", "stopping"}
          /\ UNCHANGED <<queuedCount, queuedGauge, started, interrupted>>
    BY <1>3 DEF WorkersDone, Deadline, Cancel, CancelStopping, FirstStopped, StopsWaiting, workVars
  <2>2. \A q \in Requests : Open(q)' = Open(q)
    BY <2>1 DEF Open, Shapes
  <2> QED
    BY <1>1, <2>1, <2>2
<1>4. CASE CancelDraining(r)
  <2>1. /\ UNCHANGED <<queuedCount, queuedGauge, started, phase>>
        /\ interrupted' = [interrupted EXCEPT ![r] = TRUE]
        /\ Open(r)
    BY <1>4 DEF CancelDraining, workVars, Open
  <2>2. \A q \in Requests : Open(q)' = Open(q) /\ (Open(q) \/ interrupted'[q] = interrupted[q])
    BY <2>1 DEF Open, Shapes
  <2> QED
    BY <2>1, <2>2, CountsQuiet
<1>5. CASE ConcludeInterrupted(r)
  <2>1. /\ UNCHANGED <<queuedCount, queuedGauge, started, interrupted>>
        /\ interrupted[r]
        /\ phase' = [phase EXCEPT ![r] = "done"]
    BY <1>5 DEF ConcludeInterrupted, workVars
  <2>2. \A q \in Requests : Open(q)' => Open(q)
    BY <2>1 DEF Open, Shapes
  <2>3. \A q \in Requests : (Open(q) \/ interrupted[q])' <=> (Open(q) \/ interrupted[q])
    BY <2>1 DEF Open, Shapes
  <2>4. Counted' = Counted
    BY <2>1, <2>3, WindowNames DEF Counted
  <2>5. CountInv'
    BY <2>1, <2>3 DEF CountInv, NotStarted
  <2> QED
    BY <2>1, <2>4, <2>5 DEF QueuedGaugeExact, Counted
<1>6. IsFiniteSet(Counted) /\ Cardinality(Counted) = queuedGauge
  <2>1. Counted \in SUBSET Windows
    BY DEF Counted
  <2> QED
    BY <2>1, Finite, FS_Subset DEF QueuedGaugeExact, Counted
<1>7. CASE Run(r)
  <2>1. /\ started' = started /\ interrupted' = interrupted
        /\ phase[r] = "idle" /\ phase' = [phase EXCEPT ![r] = "waiting"]
        /\ queuedCount' = [queuedCount EXCEPT ![r] = WindowCount[r]]
        /\ queuedGauge' = queuedGauge + WindowCount[r]
    BY <1>7 DEF Run
  <2> DEFINE W == {r} \X WindowsOf(r)
  <2>2. \A x \in started : x[1] # r
    <3> SUFFICES ASSUME NEW x \in started, x[1] = r PROVE FALSE
      OBVIOUS
    <3>1. taken[r] = 0
      BY <2>1 DEF OpenInv
    <3>2. x[2] <= 0
      BY <3>1 DEF OwnInv
    <3>3. x \in Windows
      BY DEF Shapes
    <3>4. x[2] \in 1..WindowCount[r] /\ WindowCount[r] \in Nat
      BY <3>3, WindowNames, TrendAssumption
    <3> QED
      BY <3>2, <3>4
  <2>3. \A q \in Requests : q # r => Open(q)' = Open(q)
    BY <2>1 DEF Open, Shapes
  <2>4. Open(r)' /\ ~Open(r) /\ ~interrupted[r]
    BY <2>1 DEF Open, OpenInv, Shapes
  <2>5. W = {x \in Windows : x[1] = r}
    BY WindowNames DEF WindowsOf, Windows
  <2>6. W \subseteq Windows
    BY <2>5
  <2>7. NotStarted(r)' = W
    BY <2>1, <2>2, <2>5 DEF NotStarted
  <2>8. \A q \in Requests : q # r => NotStarted(q)' = NotStarted(q)
    BY <2>1 DEF NotStarted
  <2>9. CountInv'
    <3> SUFFICES ASSUME NEW q \in Requests
                 PROVE  queuedCount'[q] = IF Open(q)' \/ interrupted'[q] THEN Cardinality(NotStarted(q)') ELSE 0
      BY DEF CountInv
    <3>1. CASE q = r
      BY <3>1, <2>1, <2>4, <2>7, Finite DEF Shapes
    <3>2. CASE q # r
      BY <3>2, <2>1, <2>3, <2>8 DEF Shapes, CountInv
    <3> QED
      BY <3>1, <3>2
  <2>10. Counted' = Counted \cup W
    <3>1. \A x \in Windows : x \in Counted' <=> x \in Counted \/ x \in W
      <4> TAKE x \in Windows
      <4>0. x[1] \in Requests
        BY WindowNames
      <4>1. CASE x[1] = r
        BY <4>1, <2>1, <2>2, <2>4, <2>5 DEF Counted
      <4>2. CASE x[1] # r
        BY <4>0, <4>2, <2>1, <2>3, <2>5 DEF Counted
      <4> QED
        BY <4>1, <4>2
    <3> QED
      BY <3>1, <2>6 DEF Counted
  <2>11. Counted \cap W = {}
    BY <2>4, <2>5 DEF Counted
  <2>12. IsFiniteSet(W) /\ Cardinality(W) = WindowCount[r]
    BY Finite
  <2>13. Cardinality(Counted') = Cardinality(Counted) + Cardinality(W) - 0
    <3> HIDE DEF W
    <3> QED
      BY <1>6, <2>10, <2>11, <2>12, FS_Union, FS_EmptySet
  <2>14. WindowCount[r] \in Nat /\ queuedGauge \in Int
    BY TrendAssumption DEF Shapes
  <2>15. Cardinality(Counted') = queuedGauge'
    BY <1>6, <2>1, <2>12, <2>13, <2>14
  <2> QED
    BY <2>9, <2>15 DEF QueuedGaugeExact, Counted
<1>8. CASE Conclude(r)
  <2>1. /\ started' = started /\ interrupted' = interrupted /\ ~interrupted[r]
        /\ phase[r] = "draining" /\ phase' = [phase EXCEPT ![r] = "done"]
        /\ queuedCount' = [queuedCount EXCEPT ![r] = 0]
        /\ queuedGauge' = queuedGauge - queuedCount[r]
    BY <1>8 DEF Conclude
  <2>2. \A q \in Requests : q # r => Open(q)' = Open(q)
    BY <2>1 DEF Open, Shapes
  <2>3. ~Open(r)' /\ Open(r)
    BY <2>1 DEF Open, Shapes
  <2>4. \A q \in Requests : NotStarted(q)' = NotStarted(q)
    BY <2>1 DEF NotStarted
  <2>5. CountInv'
    BY <2>1, <2>2, <2>3, <2>4 DEF CountInv, Shapes
  <2>6. Counted' = Counted \ NotStarted(r)
    <3>1. \A x \in Windows : x \in Counted' <=> x \in Counted /\ x \notin NotStarted(r)
      <4> TAKE x \in Windows
      <4>0. x[1] \in Requests
        BY WindowNames
      <4>1. CASE x[1] = r
        BY <4>1, <2>1, <2>3 DEF Counted, NotStarted
      <4>2. CASE x[1] # r
        BY <4>0, <4>2, <2>1, <2>2 DEF Counted, NotStarted
      <4> QED
        BY <4>1, <4>2
    <3> QED
      BY <3>1 DEF Counted
  <2>7. Counted \cap NotStarted(r) = NotStarted(r)
    BY <2>3 DEF Counted, NotStarted
  <2>8. Cardinality(Counted') = Cardinality(Counted) - Cardinality(NotStarted(r))
    <3>1. PICK C, N : C = Counted /\ N = NotStarted(r)
      OBVIOUS
    <3>2. Cardinality(C \ N) = Cardinality(C) - Cardinality(C \cap N)
      BY <1>6, <3>1, FS_Difference
    <3> QED
      BY <2>6, <2>7, <3>1, <3>2
  <2>9. queuedCount[r] = Cardinality(NotStarted(r))
    BY <2>3 DEF CountInv
  <2>10. Cardinality(Counted') = queuedGauge'
    BY <1>6, <2>1, <2>8, <2>9
  <2> QED
    BY <2>5, <2>10 DEF QueuedGaugeExact, Counted
<1> QED
  BY <1>2, <1>3, <1>4, <1>5, <1>7, <1>8 DEF RequestStep

-----------------------------------------------------------------------------
(* The inductive invariant holds initially and is kept by every step.      *)
LEMMA InitIInv == Init => IInv
<1> SUFFICES ASSUME Init PROVE IInv
  OBVIOUS
<1>1. Shapes
  BY TrendAssumption, WorkerNames DEF Init, Shapes, Phases, WorkerPcs
<1>2. OwnInv /\ OpenInv /\ CountInv
  BY WorkerNames DEF Init, OwnInv, OpenInv, CountInv, Open
<1>3. PermitsConserved
  <2>1. Holding = {} /\ Running = {}
    BY DEF Init, Holding, Running
  <2> QED
    BY <2>1, FS_EmptySet, TrendAssumption DEF Init, PermitsConserved
<1>4. QueuedGaugeExact
  <2>1. Counted = {}
    BY WindowNames DEF Init, Counted, Open
  <2> QED
    BY <2>1, FS_EmptySet DEF Init, QueuedGaugeExact, Counted
<1> QED
  BY <1>1, <1>2, <1>3, <1>4 DEF IInv

LEMMA StepIInv == IInv /\ [Next]_vars => IInv'
<1> SUFFICES ASSUME IInv, [Next]_vars PROVE IInv'
  OBVIOUS
<1>1. ASSUME NEW w \in Workers, WorkerStep(w)
      PROVE  IInv'
  BY <1>1, ShapesWorker, WorkerMoves, OpenWorker, PermitsWorker, CountsWorker DEF IInv
<1>2. ASSUME NEW r \in Requests, RequestStep(r)
      PROVE  IInv'
  BY <1>2, ShapesRequest, RequestMoves, PermitsRequest, CountsRequest DEF IInv
<1>3. CASE UNCHANGED vars
  <2>1. /\ UNCHANGED <<phase, requestState, verdict, interrupted, taken, result, queuedCount>>
        /\ UNCHANGED <<cur, started, pc, hit, free, line, queuedGauge, activeGauge>>
    BY <1>3 DEF vars, runVars, workVars, semVars
  <2>2. Shapes' /\ OwnInv'
    BY <2>1 DEF IInv, Shapes, OwnInv
  <2>3. OpenInv' /\ CountInv'
    BY <2>1 DEF IInv, OpenInv, CountInv, Open, NotStarted
  <2>4. PermitsConserved' /\ QueuedGaugeExact'
    BY <2>1 DEF IInv, PermitsConserved, Holding, Running, QueuedGaugeExact, Open
  <2> QED
    BY <2>2, <2>3, <2>4 DEF IInv
<1> QED
  BY <1>1, <1>2, <1>3 DEF Next, AllReturned

(* The invariant contains the type invariant: counters are sizes of sets.  *)
LEMMA IInvTypes == IInv => TypeOK
<1> SUFFICES ASSUME IInv PROVE TypeOK
  OBVIOUS
<1>1. \A S \in SUBSET Workers : Cardinality(S) \in Nat
  BY Finite, FS_Subset, FS_CardinalityType
<1>2. \A S \in SUBSET Windows : Cardinality(S) \in Nat
  BY Finite, FS_Subset, FS_CardinalityType
<1>2a. queuedCount \in [Requests -> Nat]
  <2>1. ASSUME NEW r \in Requests
        PROVE  queuedCount[r] \in Nat
    <3>1. NotStarted(r) \in SUBSET Windows
      BY DEF NotStarted
    <3>2. Cardinality(NotStarted(r)) \in Nat
      BY <1>2, <3>1
    <3>3. queuedCount[r] = Cardinality(NotStarted(r)) \/ queuedCount[r] = 0
      BY DEF IInv, CountInv
    <3> QED
      BY <3>2, <3>3
  <2> QED
    BY <2>1 DEF IInv, Shapes
<1>3. queuedGauge \in Nat
  BY <1>2 DEF IInv, QueuedGaugeExact
<1>4. activeGauge \in Nat
  BY <1>1 DEF IInv, PermitsConserved, Running
<1>5. free \in 0..Limit
  <2>1. Cardinality(Holding) \in Nat
    BY <1>1 DEF Holding
  <2> QED
    BY <2>1, TrendAssumption DEF IInv, Shapes, PermitsConserved
<1> QED
  BY <1>3, <1>4, <1>5, <1>2a DEF IInv, Shapes, TypeOK

THEOREM Invariance == Spec => []IInv
BY InitIInv, StepIInv, PTL DEF Spec

(* Type correctness for any number of requests and windows and any limit. *)
THEOREM TypeCorrect == Spec => []TypeOK
BY Invariance, IInvTypes, PTL

(* Permits are conserved (execute, :40-56): never more than Limit windows  *)
(* run, whatever the deadline and cancellations do.                        *)
THEOREM PermitsHold == Spec => []PermitsConserved
BY Invariance, PTL DEF IInv

(* The queued gauge is exact up to interrupted clean-ups (:92-99, :110-113). *)
THEOREM QueuedGaugeHolds == Spec => []QueuedGaugeExact
BY Invariance, PTL DEF IInv
-----------------------------------------------------------------------------
(***************************************************************************)
(* NoLostWakeup.  Every waiter stands in the line, so that whoever gives a *)
(* permit back finds it; and the semaphore is only by-passed when nobody   *)
(* stands there.                                                           *)
(***************************************************************************)
StandsIn(u, queue) == \E n \in DOMAIN queue : queue[n] = u

LineInv == \A u \in Workers : InLine(u) => StandsIn(u, line)

(* Two sequences of workers, one after the other. *)
LEMMA Joined ==
  ASSUME NEW a \in Seq(Workers), NEW b \in Seq(Workers)
  PROVE  /\ DOMAIN (a \o b) = 1..(Len(a) + Len(b))
         /\ \A i \in 1..Len(a) : (a \o b)[i] = a[i]
         /\ \A i \in 1..Len(b) : (a \o b)[Len(a) + i] = b[i]
OBVIOUS

(* Taking one element out leaves the others. *)
LEMMA RemoveKeeps ==
  ASSUME NEW queue \in Seq(Workers), NEW n \in DOMAIN queue, NEW u, StandsIn(u, queue), u # queue[n]
  PROVE  StandsIn(u, RemoveAt(queue, n))
<1>1. PICK m \in 1..Len(queue) : queue[m] = u
  BY DEF StandsIn
<1>2. n \in 1..Len(queue) /\ Len(queue) \in Nat /\ m # n
  BY <1>1
<1>3. PICK a, b : a = SubSeq(queue, 1, n - 1) /\ b = SubSeq(queue, n + 1, Len(queue))
  OBVIOUS
<1>a. a \in Seq(Workers) /\ Len(a) = n - 1 /\ \A i \in 1..(n - 1) : a[i] = queue[i]
  BY <1>2, <1>3
<1>b. b \in Seq(Workers) /\ Len(b) = Len(queue) - n
  BY <1>2, <1>3
<1>c. \A i \in 1..(Len(queue) - n) : b[i] = queue[n + i]
  <2> TAKE i \in 1..(Len(queue) - n)
  <2>1. SubSeq(queue, n + 1, Len(queue))[i] = queue[(n + 1) + i - 1]
    BY <1>2
  <2>2. (n + 1) + i - 1 = n + i
    BY <1>2
  <2> QED
    BY <1>3, <2>1, <2>2
<1>4. /\ a \in Seq(Workers) /\ Len(a) = n - 1 /\ \A i \in 1..(n - 1) : a[i] = queue[i]
      /\ b \in Seq(Workers) /\ Len(b) = Len(queue) - n /\ \A i \in 1..(Len(queue) - n) : b[i] = queue[n + i]
  BY <1>a, <1>b, <1>c
<1>5. CASE m < n
  <2>1. m \in 1..Len(a) /\ a[m] = u
    BY <1>1, <1>2, <1>4, <1>5
  <2>2. (a \o b)[m] = u /\ m \in DOMAIN (a \o b)
    BY <1>4, <2>1, Joined
  <2> QED
    BY <1>3, <2>2 DEF StandsIn, RemoveAt
<1>6. CASE m > n
  <2> DEFINE i == m - n
  <2>1. i \in 1..Len(b) /\ n + i = m
    BY <1>2, <1>4, <1>6
  <2>2. b[i] = u
    BY <1>1, <1>4, <2>1
  <2> HIDE DEF i
  <2>3. (a \o b)[Len(a) + i] = u /\ Len(a) + i \in DOMAIN (a \o b)
    BY <1>4, <2>1, <2>2, Joined
  <2> QED
    BY <1>3, <2>3 DEF StandsIn, RemoveAt
<1> QED
  BY <1>1, <1>2, <1>5, <1>6

(* Whoever joins stands at the end. *)
LEMMA AppendKeeps ==
  ASSUME NEW queue \in Seq(Workers), NEW w \in Workers
  PROVE  /\ StandsIn(w, Append(queue, w))
         /\ \A u \in Workers : StandsIn(u, queue) => StandsIn(u, Append(queue, w))
<1>1. /\ Len(queue) \in Nat /\ DOMAIN Append(queue, w) = 1..(Len(queue) + 1)
      /\ Append(queue, w)[Len(queue) + 1] = w
      /\ \A n \in 1..Len(queue) : Append(queue, w)[n] = queue[n]
  OBVIOUS
<1>2. StandsIn(w, Append(queue, w))
  BY <1>1 DEF StandsIn
<1>3. ASSUME NEW u \in Workers, StandsIn(u, queue)
      PROVE  StandsIn(u, Append(queue, w))
  <2>1. PICK n \in 1..Len(queue) : queue[n] = u
    BY <1>3 DEF StandsIn
  <2> QED
    BY <1>1, <2>1 DEF StandsIn
<1> QED
  BY <1>2, <1>3

(* _wake_up_next leaves no permit beside a waiter: it has given one of     *)
(* them a permit, or nobody in the line can take it.                       *)
LEMMA WakeServes ==
  ASSUME NEW value \in Nat, NEW queue \in Seq(Workers), NEW state \in [Workers -> WorkerPcs],
         WakeNext(value, queue, state),
         \A u \in Workers : state[u] = "waiting" /\ ~hit'[u] => ~hit[u] /\ StandsIn(u, queue)
  PROVE  NoLostWakeup'
<1>1. CASE value > 0 /\ \E n \in DOMAIN queue : Pending(queue[n], state)
  <2>1. PICK n \in DOMAIN queue : pc' = [state EXCEPT ![queue[n]] = "granted"]
    BY <1>1 DEF WakeNext
  <2>2. queue[n] \in Workers
    OBVIOUS
  <2>3. pc'[queue[n]] = "granted"
    BY <2>1, <2>2
  <2> QED
    BY <2>2, <2>3 DEF NoLostWakeup
<1>2. CASE ~(value > 0 /\ \E n \in DOMAIN queue : Pending(queue[n], state))
  <2>1. free' = value /\ pc' = state
    BY <1>2 DEF WakeNext
  <2>2. ASSUME NEW u \in Workers, free' > 0, pc'[u] = "waiting", ~hit'[u]
        PROVE  FALSE
    <3>1. ~hit[u] /\ state[u] = "waiting" /\ StandsIn(u, queue)
      BY <2>1, <2>2
    <3> QED
      BY <1>2, <2>1, <2>2, <3>1 DEF Pending, StandsIn
  <2> QED
    BY <2>2 DEF NoLostWakeup, Pending
<1> QED
  BY <1>1, <1>2

(* A step of a worker keeps everybody who waits in the line ... *)
LEMMA LineWorker ==
  ASSUME Shapes, OwnInv, LineInv, NEW w \in Workers, WorkerStep(w)
  PROVE  LineInv'
<1> DEFINE at(v) == [pc EXCEPT ![w] = v]
<1>0. /\ \A v \in WorkerPcs : at(v) \in [Workers -> WorkerPcs]
      /\ {"new", "waiting", "granted", "running", "done", "cancelled"} \subseteq WorkerPcs
      /\ line \in Seq(Workers) /\ free \in Nat /\ free + 1 \in Nat
      /\ pc \in [Workers -> WorkerPcs]
  BY DEF Shapes, WorkerPcs
<1>1. line' \in Seq(Workers)
  BY ShapesWorker DEF Shapes
<1>2. ASSUME LeavesLine(w), ~InLine(w)', \A u \in Workers \ {w} : InLine(u)' => InLine(u)
      PROVE  LineInv'
  <2>1. PICK n \in DOMAIN line : line[n] = w /\ line' = RemoveAt(line, n)
    BY <1>2 DEF LeavesLine
  <2>2. ASSUME NEW u \in Workers, InLine(u)'
        PROVE  StandsIn(u, line')
    <3>1. u # w /\ StandsIn(u, line)
      BY <1>2, <2>2 DEF LineInv
    <3>2. StandsIn(u, RemoveAt(line, n))
      BY <1>0, <2>1, <3>1, RemoveKeeps
    <3> QED
      BY <2>1, <3>2
  <2> QED
    BY <2>2 DEF LineInv, StandsIn
<1>3. ASSUME line' = Append(line, w), \A u \in Workers \ {w} : InLine(u)' => InLine(u)
      PROVE  LineInv'
  <2>1. ASSUME NEW u \in Workers, InLine(u)'
        PROVE  StandsIn(u, line')
    <3>1. u = w \/ StandsIn(u, line)
      BY <1>3, <2>1 DEF LineInv
    <3> QED
      BY <1>0, <1>3, <3>1, AppendKeeps
  <2> QED
    BY <2>1 DEF LineInv, StandsIn
<1>4. ASSUME line' = line, \A u \in Workers : InLine(u)' => InLine(u)
      PROVE  LineInv'
  BY <1>4 DEF LineInv, StandsIn
<1>5. ASSUME NEW value \in Nat, NEW queue \in Seq(Workers), NEW v \in WorkerPcs, WakeNext(value, queue, at(v))
      PROVE  /\ v \notin {"waiting", "granted"} => ~InLine(w)'
             /\ \A u \in Workers \ {w} : InLine(u)' => InLine(u)
  <2>1. PICK s \in [Workers -> WorkerPcs] : s = at(v)
    BY <1>0
  <2>2. \A u \in Workers : pc'[u] = s[u] \/ (s[u] = "waiting" /\ pc'[u] = "granted")
    BY <1>5, <2>1, WakeEffect
  <2> QED
    BY <1>0, <2>1, <2>2
<1> HIDE DEF at
<1>6. CASE Resume(w)
  BY <1>0, <1>1, <1>2, <1>5, <1>6 DEF Resume, at
<1>7. CASE UnwindGranted(w)
  BY <1>0, <1>1, <1>2, <1>5, <1>7 DEF UnwindGranted, at
<1>8. CASE UnwindWaiting(w)
  BY <1>0, <1>2, <1>8 DEF UnwindWaiting
<1>9. CASE BeginWaiting(w)
  BY <1>0, <1>3, <1>9 DEF BeginWaiting
<1>10. ASSUME NEW how \in {"ok", "failed"}, FinishAndLineUp(w, how)
       PROVE  LineInv'
  BY <1>0, <1>3, <1>5, <1>10 DEF FinishAndLineUp, at
<1>11. ASSUME NEW how \in {"ok", "failed"}, FinishLast(w, how) \/ UnwindRunning(w)
       PROVE  LineInv'
  <2>1. PICK v \in {"done", "cancelled"} : WakeNext(free + 1, line, at(v)) /\ line' = line
    BY <1>11 DEF FinishLast, UnwindRunning, at
  <2> QED
    BY <1>0, <1>4, <1>5, <2>1
<1>12. ASSUME NEW how \in {"ok", "failed"}, FinishAndGoOn(w, how)
       PROVE  LineInv'
  BY <1>4, <1>12 DEF FinishAndGoOn, semVars
<1>13. CASE BeginEmpty(w) \/ BeginAdmitted(w) \/ UnwindNew(w)
  BY <1>0, <1>4, <1>13 DEF BeginEmpty, BeginAdmitted, UnwindNew, semVars
<1> QED
  BY <1>6, <1>7, <1>8, <1>9, <1>10, <1>11, <1>12, <1>13 DEF WorkerStep, Begin, Finish, Unwind

(* ... and leaves no permit beside a waiter.                               *)
LEMMA WakeWorker ==
  ASSUME Shapes, OwnInv, LineInv, NoLostWakeup, NEW w \in Workers, WorkerStep(w)
  PROVE  NoLostWakeup'
<1> DEFINE at(v) == [pc EXCEPT ![w] = v]
<1>0. /\ \A v \in WorkerPcs : at(v) \in [Workers -> WorkerPcs]
      /\ {"new", "waiting", "granted", "running", "done", "cancelled"} \subseteq WorkerPcs
      /\ line \in Seq(Workers) /\ free \in Nat /\ free + 1 \in Nat
      /\ pc \in [Workers -> WorkerPcs] /\ hit \in [Workers -> BOOLEAN]
  BY DEF Shapes, WorkerPcs
<1>1. line' \in Seq(Workers)
  BY ShapesWorker DEF Shapes
<1>2. ASSUME LeavesLine(w), NEW u \in Workers, u # w, pc[u] = "waiting"
      PROVE  StandsIn(u, line')
  <2>1. PICK n \in DOMAIN line : line[n] = w /\ line' = RemoveAt(line, n)
    BY <1>2 DEF LeavesLine
  <2>2. StandsIn(u, line)
    BY <1>2 DEF LineInv
  <2> QED
    BY <1>0, <1>2, <2>1, <2>2, RemoveKeeps
<1>3. ~SomeoneInLine => \A u \in Workers : ~Pending(u, pc)
  BY DEF LineInv, SomeoneInLine, StandsIn, Pending
<1>4. ASSUME \A u \in Workers : pc'[u] = "waiting" /\ ~hit'[u] => pc[u] = "waiting" /\ ~hit[u],
             \A u \in Workers : pc[u] = "granted" => pc'[u] = "granted",
             free' = free
      PROVE  NoLostWakeup'
  BY <1>4 DEF NoLostWakeup, Pending
<1>5. CASE BeginAdmitted(w)
  <2>1. \A u \in Workers : ~Pending(u, pc)
    BY <1>3, <1>5 DEF BeginAdmitted, Locked
  <2> QED
    BY <1>0, <1>5, <2>1 DEF BeginAdmitted, NoLostWakeup, Pending
<1>6. CASE BeginWaiting(w)
  <2>1. free' = free /\ hit' = hit /\ pc' = at("waiting") /\ pc[w] = "new"
    BY <1>6 DEF BeginWaiting
  <2>2. free > 0 => \E u \in Workers : pc[u] = "granted"
    <3>1. free > 0 => SomeoneInLine
      BY <1>6 DEF BeginWaiting, Locked
    <3>2. \A n \in DOMAIN line : line[n] \in Workers
      BY <1>0
    <3> QED
      BY <3>1, <3>2 DEF SomeoneInLine, NoLostWakeup
  <2>3. \A u \in Workers : pc[u] = "granted" => pc'[u] = "granted"
    BY <1>0, <2>1
  <2> QED
    BY <2>1, <2>2, <2>3 DEF NoLostWakeup
<1>7. CASE Resume(w)
  <2>1. \A u \in Workers : at("running")[u] = "waiting" /\ ~hit'[u] => ~hit[u] /\ StandsIn(u, line')
    BY <1>0, <1>2, <1>7 DEF Resume
  <2> QED
    BY <1>0, <1>1, <1>7, <2>1, WakeServes DEF Resume
<1>8. CASE UnwindGranted(w)
  <2>1. \A u \in Workers : at("cancelled")[u] = "waiting" /\ ~hit'[u] => ~hit[u] /\ StandsIn(u, line')
    BY <1>0, <1>2, <1>8 DEF UnwindGranted
  <2> QED
    BY <1>0, <1>1, <1>8, <2>1, WakeServes DEF UnwindGranted
<1>9. ASSUME NEW how \in {"ok", "failed"}, FinishLast(w, how) \/ UnwindRunning(w)
      PROVE  NoLostWakeup'
  <2>1. PICK v \in {"done", "cancelled"} :
          /\ WakeNext(free + 1, line, at(v))
          /\ \A u \in Workers \ {w} : hit'[u] = hit[u]
    BY <1>0, <1>9 DEF FinishLast, Records, UnwindRunning
  <2>2. \A u \in Workers : at(v)[u] = "waiting" /\ ~hit'[u] => ~hit[u] /\ StandsIn(u, line)
    BY <1>0, <2>1 DEF LineInv
  <2> QED
    BY <1>0, <2>1, <2>2, WakeServes
<1>10. ASSUME NEW how \in {"ok", "failed"}, FinishAndLineUp(w, how)
       PROVE  NoLostWakeup'
  <2>1. WakeNext(free + 1, line, at("waiting")) /\ SomeoneInLine /\ pc[w] = "running"
    BY <1>10 DEF FinishAndLineUp, Records
  <2>2. PICK n \in DOMAIN line : pc[line[n]] = "granted" \/ Pending(line[n], pc)
    BY <2>1 DEF SomeoneInLine
  <2>3. line[n] \in Workers /\ line[n] # w /\ at("waiting")[line[n]] = pc[line[n]]
    BY <1>0, <2>1, <2>2 DEF Pending
  <2>4. CASE pc[line[n]] = "granted"
    <3>0. PICK s \in [Workers -> WorkerPcs] : s = at("waiting")
      BY <1>0
    <3>a. WakeNext(free + 1, line, s)
      BY <2>1, <3>0
    <3>1. pc'[line[n]] = s[line[n]] \/ (s[line[n]] = "waiting" /\ pc'[line[n]] = "granted")
      <4> HIDE DEF at
      <4>1. \A u \in Workers : pc'[u] = s[u] \/ (s[u] = "waiting" /\ pc'[u] = "granted")
        BY <1>0, <3>a, WakeEffect
      <4> QED
        BY <2>3, <4>1
    <3>2. pc'[line[n]] = "granted"
      BY <2>3, <2>4, <3>0, <3>1
    <3> QED
      BY <2>3, <3>2 DEF NoLostWakeup
  <2>5. CASE Pending(line[n], pc)
    <3>1. Pending(line[n], at("waiting")) /\ free + 1 > 0
      BY <1>0, <2>3, <2>5 DEF Pending
    <3>2. PICK m \in DOMAIN line : pc' = [at("waiting") EXCEPT ![line[m]] = "granted"]
      BY <2>1, <3>1 DEF WakeNext
    <3>3. line[m] \in Workers /\ pc'[line[m]] = "granted"
      BY <1>0, <3>2
    <3> QED
      BY <3>3 DEF NoLostWakeup
  <2> QED
    BY <2>2, <2>4, <2>5
<1>11. ASSUME NEW how \in {"ok", "failed"}, FinishAndGoOn(w, how)
       PROVE  NoLostWakeup'
  BY <1>4, <1>11 DEF FinishAndGoOn, Records, semVars
<1>12. CASE BeginEmpty(w) \/ UnwindNew(w) \/ UnwindWaiting(w)
  <2>1. /\ free' = free
        /\ pc' \in {at("done"), at("cancelled")} /\ pc[w] # "granted"
        /\ \A u \in Workers \ {w} : hit'[u] = hit[u]
    BY <1>0, <1>12 DEF BeginEmpty, UnwindNew, UnwindWaiting, semVars
  <2> QED
    BY <1>0, <1>4, <2>1
<1> QED
  BY <1>5, <1>6, <1>7, <1>8, <1>9, <1>10, <1>11, <1>12 DEF WorkerStep, Begin, Finish, Unwind

(* A request only makes new workers and marks others. *)
LEMMA WakeRequest ==
  ASSUME Shapes, OpenInv, LineInv, NoLostWakeup, NEW r \in Requests, RequestStep(r)
  PROVE  LineInv' /\ NoLostWakeup'
<1>1. free' = free /\ line' = line
  BY DEF RequestStep, RunEmpty, Run, WorkersDone, Deadline, FirstStopped, Conclude, ConcludeInterrupted,
         Cancel, CancelStopping, CancelDraining, StopsWaiting, semVars
<1>2. \A w \in Workers : pc'[w] = pc[w] \/ (~Busy(w) /\ pc'[w] = "new")
  <2>1. CASE Run(r)
    <3>1. \A w \in Workers : w[1] = r => ~Busy(w)
      BY <2>1 DEF Run, OpenInv, Open
    <3> QED
      BY <2>1, <3>1 DEF Run
  <2>2. CASE pc' = pc
    BY <2>2
  <2> QED
    BY <2>1, <2>2 DEF RequestStep, RunEmpty, WorkersDone, Deadline, FirstStopped, Conclude, ConcludeInterrupted,
       Cancel, CancelStopping, CancelDraining, StopsWaiting
<1>3. \A w \in Workers : hit[w] => hit'[w]
  <2>1. hit' = hit \/ HitWorkers(r)
    BY DEF RequestStep, RunEmpty, Run, WorkersDone, Deadline, FirstStopped, Conclude, ConcludeInterrupted,
       Cancel, CancelStopping, CancelDraining, StopsWaiting
  <2> QED
    BY <2>1 DEF HitWorkers
<1>4. LineInv'
  BY <1>1, <1>2 DEF LineInv, StandsIn
<1>5. NoLostWakeup'
  <2>1. \A w \in Workers : pc'[w] = "waiting" /\ ~hit'[w] => pc[w] = "waiting" /\ ~hit[w]
    BY <1>2, <1>3
  <2>2. \A w \in Workers : pc[w] = "granted" => pc'[w] = "granted"
    BY <1>2
  <2> QED
    BY <1>1, <2>1, <2>2 DEF NoLostWakeup, Pending
<1> QED
  BY <1>4, <1>5

LEMMA StepWake == IInv /\ LineInv /\ NoLostWakeup /\ [Next]_vars => LineInv' /\ NoLostWakeup'
<1> SUFFICES ASSUME IInv, LineInv, NoLostWakeup, [Next]_vars
             PROVE  LineInv' /\ NoLostWakeup'
  OBVIOUS
<1>1. CASE UNCHANGED vars
  <2>1. UNCHANGED <<pc, hit, line, free>>
    BY <1>1 DEF vars, semVars
  <2> QED
    BY <2>1 DEF LineInv, StandsIn, NoLostWakeup, Pending
<1> QED
  BY <1>1, LineWorker, WakeWorker, WakeRequest DEF IInv, Next, AllReturned

(* A permit that is free never stays beside a waiter that could take it:   *)
(* release() and a cancelled acquire() (:40-56) wake the next one, and a   *)
(* worker passes the line only when it is empty.                           *)
THEOREM WakeupsArrive == Spec => []NoLostWakeup
<1>1. Init => LineInv /\ NoLostWakeup
  BY WorkerNames DEF Init, LineInv, NoLostWakeup, Pending
<1> QED
  BY <1>1, Invariance, StepWake, PTL DEF Spec
-----------------------------------------------------------------------------
(***************************************************************************)
(* ImplementsBulkhead.  What the mapping needs beyond IInv: a window that  *)
(* has a result was started, and that of a busy worker has none yet; and   *)
(* what a request state says is true of the workers while they unwind.     *)
(***************************************************************************)
Own(w) == <<w[1], cur[w]>>

WindowInv ==
  /\ \A x \in Windows : result[x] # "deadline" => x \in started
  /\ \A w \in Workers : Busy(w) => result[Own(w)] = "deadline"
  /\ \A w \in Workers : pc[w] = "running" => Own(w) \in started
  /\ \A w \in Workers : pc[w] = "done" => QueueEmpty(w[1])

VerdictInv ==
  /\ \A r \in Requests : phase[r] = "idle" => verdict[r] = "none" /\ requestState[r] = "complete"
  /\ \A r \in Requests : Open(r) => verdict[r] = "open"
  /\ \A w \in Workers : pc[w] = "none" => phase[w[1]] = "idle"

(* Nobody has stopped the workers of a request that is to be complete. *)
UntouchedInv ==
  /\ \A r \in Requests : Untouched(r) => phase[r] # "stopping"
  /\ \A w \in Workers : Untouched(w[1]) => ~hit[w] /\ pc[w] # "cancelled"
  /\ \A r \in Requests : Untouched(r) =>
       \A i \in 1..taken[r] : result[<<r, i>>] # "deadline" \/ \E w \in Workers : Busy(w) /\ Own(w) = <<r, i>>

(* Everybody has, of one that the deadline or a cancellation has reached:  *)
(* what is not finished has its CancelledError still to come.              *)
StoppedInv == \A w \in Workers : Untouched(w[1]) \/ Finished(w) \/ hit[w]

(* A request that has timed out has an unfinished window, for good. *)
TimedOutInv ==
  \A r \in Requests : requestState[r] = "timed_out" =>
    \E i \in WindowsOf(r) : result[<<r, i>>] = "deadline"

RefInv == WindowInv /\ VerdictInv /\ UntouchedInv /\ StoppedInv /\ TimedOutInv

-----------------------------------------------------------------------------
(* What a step of a worker does, by what becomes of its window.            *)
Next1(w) == <<w[1], taken[w[1]] + 1>>

Still == result' = result /\ started' = started /\ cur' = cur /\ taken' = taken

TakesOne(w) ==
  /\ ~QueueEmpty(w[1])
  /\ \A r \in Requests : taken'[r] = IF r = w[1] THEN taken[r] + 1 ELSE taken[r]
  /\ \A u \in Workers : cur'[u] = IF u = w THEN taken[w[1]] + 1 ELSE cur[u]

Ends(w) == /\ pc[w] = "running"
           /\ \E how \in {"ok", "failed"} : result' = [result EXCEPT ![Own(w)] = how]

Leaves(w)  == /\ Still /\ pc[w] \in {"new", "waiting", "granted"}
              /\ \/ pc'[w] = "done" /\ pc[w] = "new" /\ QueueEmpty(w[1]) /\ ~hit[w]
                 \/ pc'[w] = "cancelled" /\ hit[w]
Queues(w)  == /\ pc[w] = "new" /\ ~hit[w] /\ TakesOne(w)
              /\ result' = result /\ started' = started /\ pc'[w] = "waiting"
Starts(w)  == /\ pc[w] = "new" /\ ~hit[w] /\ TakesOne(w) /\ free > 0
              /\ result' = result /\ started' = started \cup {Next1(w)} /\ pc'[w] = "running"
Resumes(w) == /\ pc[w] = "granted" /\ ~hit[w] /\ cur' = cur /\ taken' = taken
              /\ result' = result /\ started' = started \cup {Own(w)} /\ pc'[w] = "running"
Stops(w)   == /\ Ends(w) /\ ~hit[w] /\ QueueEmpty(w[1]) /\ pc'[w] = "done"
              /\ cur' = cur /\ taken' = taken /\ started' = started
Requeues(w) == /\ Ends(w) /\ ~hit[w] /\ TakesOne(w) /\ InLine(w)' /\ started' = started
GoesOn(w)  == /\ Ends(w) /\ ~hit[w] /\ TakesOne(w) /\ pc'[w] = "running"
              /\ started' = started \cup {Next1(w)}
Drops(w)   == pc[w] = "running" /\ hit[w] /\ Still /\ pc'[w] = "cancelled"

LEMMA WorkerKinds ==
  ASSUME Shapes, OwnInv, NEW w \in Workers, WorkerStep(w)
  PROVE  /\ phase' = phase /\ requestState' = requestState /\ verdict' = verdict /\ interrupted' = interrupted
         /\ \A u \in Workers \ {w} : /\ cur'[u] = cur[u] /\ hit'[u] = hit[u]
                                     /\ pc'[u] = pc[u] \/ (pc[u] = "waiting" /\ pc'[u] = "granted")
         /\ hit'[w] => hit[w]
         /\ \/ Leaves(w) \/ Queues(w) \/ Starts(w) \/ Resumes(w)
            \/ Stops(w) \/ Requeues(w) \/ GoesOn(w) \/ Drops(w)
<1> DEFINE at(v) == [pc EXCEPT ![w] = v]
           Others == \A u \in Workers \ {w} : /\ cur'[u] = cur[u] /\ hit'[u] = hit[u]
                                              /\ pc'[u] = pc[u] \/ (pc[u] = "waiting" /\ pc'[u] = "granted")
           Quiet == phase' = phase /\ requestState' = requestState /\ verdict' = verdict /\ interrupted' = interrupted
<1>0. /\ \A v \in WorkerPcs : at(v) \in [Workers -> WorkerPcs]
      /\ {"new", "waiting", "granted", "running", "done", "cancelled"} \subseteq WorkerPcs
      /\ line \in Seq(Workers) /\ free \in Nat /\ free + 1 \in Nat
      /\ pc \in [Workers -> WorkerPcs] /\ hit \in [Workers -> BOOLEAN]
      /\ taken \in [Requests -> Nat] /\ cur \in [Workers -> Nat] /\ w[1] \in Requests
  BY WorkerNames DEF Shapes, WorkerPcs
<1>1. line' \in Seq(Workers)
  BY ShapesWorker DEF Shapes
<1>2. ASSUME ~QueueEmpty(w[1]), Takes(w)
      PROVE  TakesOne(w) /\ \A u \in Workers \ {w} : cur'[u] = cur[u]
  BY <1>0, <1>2 DEF Takes, TakesOne
<1>3. ASSUME NEW value \in Nat, NEW queue \in Seq(Workers), NEW v \in WorkerPcs, WakeNext(value, queue, at(v))
      PROVE  /\ pc'[w] = v \/ (v = "waiting" /\ pc'[w] = "granted")
             /\ \A u \in Workers \ {w} : pc'[u] = pc[u] \/ (pc[u] = "waiting" /\ pc'[u] = "granted")
  <2>1. PICK s \in [Workers -> WorkerPcs] : s = at(v)
    BY <1>0
  <2>2. \A u \in Workers : pc'[u] = s[u] \/ (s[u] = "waiting" /\ pc'[u] = "granted")
    BY <1>3, <2>1, WakeEffect
  <2> QED
    BY <1>0, <2>1, <2>2
<1>4. \A v : at(v)[w] = v /\ \A u \in Workers \ {w} : at(v)[u] = pc[u]
  BY <1>0
<1>5. hit' = hit \/ hit' = [hit EXCEPT ![w] = FALSE] =>
        (hit'[w] => hit[w]) /\ \A u \in Workers \ {w} : hit'[u] = hit[u]
  BY <1>0
<1> HIDE DEF at
<1>6. CASE BeginEmpty(w)
  <2>1. Quiet /\ Still /\ pc[w] = "new" /\ ~hit[w] /\ QueueEmpty(w[1]) /\ pc' = at("done") /\ hit' = hit
    BY <1>6 DEF BeginEmpty, runVars, workVars, Still, at
  <2>2. Leaves(w) /\ Others
    BY <1>4, <2>1 DEF Leaves, Still
  <2> QED
    BY <1>5, <2>1, <2>2
<1>7. CASE UnwindNew(w) \/ UnwindWaiting(w)
  <2>1. /\ Quiet /\ Still /\ pc[w] \in {"new", "waiting"} /\ hit[w]
        /\ pc' = at("cancelled") /\ hit' = [hit EXCEPT ![w] = FALSE]
    BY <1>7 DEF UnwindNew, UnwindWaiting, runVars, workVars, Still, at
  <2>2. Leaves(w) /\ Others
    BY <1>4, <1>5, <2>1 DEF Leaves, Still
  <2> QED
    BY <1>5, <2>1, <2>2
<1>8. CASE UnwindGranted(w)
  <2>1. /\ Quiet /\ Still /\ pc[w] = "granted" /\ hit[w]
        /\ WakeNext(free + 1, line', at("cancelled")) /\ hit' = [hit EXCEPT ![w] = FALSE]
    BY <1>8 DEF UnwindGranted, runVars, workVars, Still, at
  <2>2. pc'[w] = "cancelled" /\ \A u \in Workers \ {w} : pc'[u] = pc[u] \/ (pc[u] = "waiting" /\ pc'[u] = "granted")
    BY <1>0, <1>1, <1>3, <2>1
  <2>3. Leaves(w) /\ Others
    BY <1>5, <2>1, <2>2 DEF Leaves, Still
  <2> QED
    BY <1>5, <2>1, <2>3
<1>9. CASE UnwindRunning(w)
  <2>1. /\ Quiet /\ Still /\ pc[w] = "running" /\ hit[w]
        /\ WakeNext(free + 1, line, at("cancelled")) /\ hit' = [hit EXCEPT ![w] = FALSE]
    BY <1>9 DEF UnwindRunning, runVars, workVars, Still, at
  <2>2. pc'[w] = "cancelled" /\ \A u \in Workers \ {w} : pc'[u] = pc[u] \/ (pc[u] = "waiting" /\ pc'[u] = "granted")
    BY <1>0, <1>3, <2>1
  <2>3. Drops(w) /\ Others
    BY <1>5, <2>1, <2>2 DEF Drops, Still
  <2> QED
    BY <1>5, <2>1, <2>3
<1>10. CASE BeginWaiting(w)
  <2>1. /\ Quiet /\ pc[w] = "new" /\ ~hit[w] /\ ~QueueEmpty(w[1]) /\ Takes(w)
        /\ result' = result /\ started' = started /\ pc' = at("waiting") /\ hit' = hit
    BY <1>10 DEF BeginWaiting, runVars, at
  <2>2. Queues(w) /\ Others
    BY <1>2, <1>4, <2>1 DEF Queues
  <2> QED
    BY <1>5, <2>1, <2>2
<1>11. CASE BeginAdmitted(w)
  <2>1. /\ Quiet /\ pc[w] = "new" /\ ~hit[w] /\ ~QueueEmpty(w[1]) /\ Takes(w)
        /\ result' = result /\ started' = started \cup {Next1(w)} /\ pc' = at("running") /\ hit' = hit
        /\ free # 0
    BY <1>11 DEF BeginAdmitted, Admitted, Locked, Next1, runVars, at
  <2>2. Starts(w) /\ Others
    BY <1>0, <1>2, <1>4, <2>1 DEF Starts
  <2> QED
    BY <1>5, <2>1, <2>2
<1>12. CASE Resume(w)
  <2>1. /\ Quiet /\ pc[w] = "granted" /\ ~hit[w] /\ cur' = cur /\ taken' = taken /\ result' = result
        /\ started' = started \cup {Own(w)} /\ WakeNext(free, line', at("running")) /\ hit' = hit
    BY <1>12 DEF Resume, Admitted, Own, runVars, at
  <2>2. pc'[w] = "running" /\ \A u \in Workers \ {w} : pc'[u] = pc[u] \/ (pc[u] = "waiting" /\ pc'[u] = "granted")
    BY <1>0, <1>1, <1>3, <2>1
  <2>3. Resumes(w) /\ Others
    BY <2>1, <2>2 DEF Resumes
  <2> QED
    BY <1>5, <2>1, <2>3
<1>13. ASSUME NEW how \in {"ok", "failed"}, Records(w, how)
       PROVE  Quiet /\ hit' = hit /\ ~hit[w] /\ Ends(w)
  BY <1>13 DEF Records, Ends, Own, runVars
<1>14. ASSUME NEW how \in {"ok", "failed"}, FinishLast(w, how)
       PROVE  Quiet /\ Others /\ hit' = hit /\ Stops(w)
  <2>1. /\ Records(w, how) /\ QueueEmpty(w[1]) /\ WakeNext(free + 1, line, at("done"))
        /\ cur' = cur /\ taken' = taken /\ started' = started
    BY <1>14 DEF FinishLast, at
  <2>2. pc'[w] = "done" /\ \A u \in Workers \ {w} : pc'[u] = pc[u] \/ (pc[u] = "waiting" /\ pc'[u] = "granted")
    BY <1>0, <1>3, <2>1
  <2> QED
    BY <1>13, <2>1, <2>2 DEF Stops
<1>15. ASSUME NEW how \in {"ok", "failed"}, FinishAndLineUp(w, how)
       PROVE  Quiet /\ Others /\ hit' = hit /\ Requeues(w)
  <2>1. /\ Records(w, how) /\ ~QueueEmpty(w[1]) /\ Takes(w) /\ WakeNext(free + 1, line, at("waiting"))
        /\ started' = started
    BY <1>15 DEF FinishAndLineUp, at
  <2>2. InLine(w)' /\ \A u \in Workers \ {w} : pc'[u] = pc[u] \/ (pc[u] = "waiting" /\ pc'[u] = "granted")
    BY <1>0, <1>3, <2>1
  <2> QED
    BY <1>2, <1>13, <2>1, <2>2 DEF Requeues
<1>16. ASSUME NEW how \in {"ok", "failed"}, FinishAndGoOn(w, how)
       PROVE  Quiet /\ Others /\ hit' = hit /\ GoesOn(w)
  <2>1. /\ Records(w, how) /\ ~QueueEmpty(w[1]) /\ Takes(w) /\ pc' = pc
        /\ started' = started \cup {Next1(w)}
    BY <1>16 DEF FinishAndGoOn, Admitted, Next1
  <2> QED
    BY <1>2, <1>13, <2>1 DEF GoesOn, Ends
<1> QED
  BY <1>5, <1>6, <1>7, <1>8, <1>9, <1>10, <1>11, <1>12, <1>14, <1>15, <1>16
  DEF WorkerStep, Begin, Finish, Unwind
(* What is new to a request's workers has neither started nor a result. *)
LEMMA NextIsFresh ==
  ASSUME Shapes, OwnInv, WindowInv, NEW w \in Workers, ~QueueEmpty(w[1])
  PROVE  /\ Next1(w) \in Windows /\ Next1(w) \notin started /\ result[Next1(w)] = "deadline"
         /\ \A u \in Workers : Own(u) # Next1(w)
<1>1. /\ w[1] \in Requests /\ WindowCount[w[1]] \in Nat /\ taken[w[1]] \in Nat
      /\ taken[w[1]] <= WindowCount[w[1]] /\ taken[w[1]] # WindowCount[w[1]]
  BY WorkerNames, TrendAssumption DEF Shapes, QueueEmpty
<1>2. Next1(w) \in Windows
  BY <1>1, WindowNames DEF Next1
<1>3. Next1(w) \notin started
  BY <1>1 DEF OwnInv, Next1
<1>4. \A u \in Workers : cur[u] \in Nat /\ cur[u] <= taken[u[1]]
  BY DEF Shapes
<1>5. \A u \in Workers : Own(u) # Next1(w)
  BY <1>1, <1>4 DEF Own, Next1
<1> QED
  BY <1>2, <1>3, <1>5 DEF WindowInv

(* The window of a busy worker, which nobody else has. *)
LEMMA OwnWindow ==
  ASSUME Shapes, OwnInv, NEW w \in Workers, Busy(w)
  PROVE  /\ Own(w) \in Windows
         /\ \A u \in Workers : Busy(u) /\ Own(u) = Own(w) => u = w
<1>1. /\ w[1] \in Requests /\ WindowCount[w[1]] \in Nat /\ taken[w[1]] \in Nat
      /\ taken[w[1]] <= WindowCount[w[1]] /\ cur[w] \in Nat /\ cur[w] <= taken[w[1]] /\ cur[w] # 0
  BY WorkerNames, TrendAssumption DEF Shapes, OwnInv
<1>2. Own(w) \in Windows
  BY <1>1, WindowNames DEF Own
<1> QED
  BY <1>2 DEF OwnInv, Own

LEMMA WindowWorker ==
  ASSUME Shapes, OwnInv, WindowInv, NEW w \in Workers, WorkerStep(w)
  PROVE  WindowInv'
<1>1. /\ \A u \in Workers \ {w} : /\ cur'[u] = cur[u]
                                  /\ pc'[u] = pc[u] \/ (pc[u] = "waiting" /\ pc'[u] = "granted")
      /\ \/ Leaves(w) \/ Queues(w) \/ Starts(w) \/ Resumes(w)
         \/ Stops(w) \/ Requeues(w) \/ GoesOn(w) \/ Drops(w)
  BY WorkerKinds
<1>2. \A u \in Workers \ {w} : /\ Own(u)' = Own(u) /\ (Busy(u)' => Busy(u))
                               /\ (pc'[u] = "running" => pc[u] = "running")
                               /\ (pc'[u] = "done" => pc[u] = "done")
  BY <1>1 DEF Own
<1>3. started \subseteq started'
  BY <1>1 DEF Leaves, Queues, Starts, Resumes, Stops, Requeues, GoesOn, Drops, Still
<1>4. \A r \in Requests : taken'[r] # taken[r] => ~QueueEmpty(r)
  BY <1>1 DEF Leaves, Queues, Starts, Resumes, Stops, Requeues, GoesOn, Drops, Still, TakesOne
<1>5. ASSUME NEW u \in Workers \ {w}, pc'[u] = "done"
      PROVE  QueueEmpty(u[1])'
  <2>1. QueueEmpty(u[1]) /\ u[1] \in Requests
    BY <1>2, <1>5, WorkerNames DEF WindowInv
  <2> QED
    BY <1>4, <2>1 DEF QueueEmpty
<1>6. CASE result' = result
  <2>1. \A x \in Windows : result'[x] # "deadline" => x \in started'
    BY <1>3, <1>6 DEF WindowInv
  <2>2. \A u \in Workers \ {w} : /\ Busy(u)' => result'[Own(u)'] = "deadline"
                                 /\ pc'[u] = "running" => Own(u)' \in started'
    BY <1>2, <1>3, <1>6 DEF WindowInv
  <2>3. /\ Busy(w)' => result'[Own(w)'] = "deadline"
        /\ pc'[w] = "running" => Own(w)' \in started'
        /\ pc'[w] = "done" => QueueEmpty(w[1])'
    <3>1. CASE Leaves(w) \/ Drops(w)
      BY <3>1 DEF Leaves, Drops, Still, QueueEmpty
    <3>2. CASE Queues(w) \/ Starts(w)
      <4>1. ~QueueEmpty(w[1]) /\ Own(w)' = Next1(w) /\ pc'[w] \in {"waiting", "running"}
        BY <3>2 DEF Queues, Starts, TakesOne, Own, Next1
      <4> QED
        BY <1>6, <3>2, <4>1, NextIsFresh DEF Queues, Starts
    <3>3. CASE Resumes(w)
      BY <1>6, <3>3 DEF Resumes, Own, WindowInv
    <3>4. CASE Stops(w) \/ Requeues(w) \/ GoesOn(w)
      <4>1. Busy(w) /\ \E how \in {"ok", "failed"} : result' = [result EXCEPT ![Own(w)] = how]
        BY <3>4 DEF Stops, Requeues, GoesOn, Ends
      <4>2. Own(w) \in Windows /\ result[Own(w)] = "deadline"
        BY <4>1, OwnWindow DEF WindowInv
      <4> QED
        BY <1>6, <4>1, <4>2 DEF Shapes
    <3> QED
      BY <1>1, <3>1, <3>2, <3>3, <3>4
  <2>4. \A u \in Workers : /\ Busy(u)' => result'[Own(u)'] = "deadline"
                           /\ pc'[u] = "running" => Own(u)' \in started'
                           /\ pc'[u] = "done" => QueueEmpty(u[1])'
    BY <1>5, <2>2, <2>3
  <2> QED
    BY <2>1, <2>4 DEF WindowInv
<1>7. CASE Ends(w)
  <2>1. /\ pc[w] = "running" /\ Own(w) \in Windows /\ Own(w) \in started
        /\ \A u \in Workers : Busy(u) /\ Own(u) = Own(w) => u = w
    BY <1>7, OwnWindow DEF Ends, WindowInv
  <2>2. PICK how \in {"ok", "failed"} : result' = [result EXCEPT ![Own(w)] = how]
    BY <1>7 DEF Ends
  <2>3. \A x \in Windows : result'[x] = IF x = Own(w) THEN how ELSE result[x]
    BY <2>2 DEF Shapes
  <2>4. \A x \in Windows : result'[x] # "deadline" => x \in started'
    BY <1>3, <2>1, <2>3 DEF WindowInv
  <2>5. ASSUME NEW u \in Workers \ {w}
        PROVE  /\ Busy(u)' => result'[Own(u)'] = "deadline"
               /\ pc'[u] = "running" => Own(u)' \in started'
    <3>1. Busy(u) => Own(u) \in Windows /\ Own(u) # Own(w) /\ result[Own(u)] = "deadline"
      BY <2>1, OwnWindow DEF WindowInv
    <3> QED
      BY <1>2, <1>3, <2>3, <3>1 DEF WindowInv
  <2>6. /\ Busy(w)' => result'[Own(w)'] = "deadline"
        /\ pc'[w] = "running" => Own(w)' \in started'
        /\ pc'[w] = "done" => QueueEmpty(w[1])'
    <3>1. CASE Stops(w)
      BY <3>1 DEF Stops, QueueEmpty
    <3>2. CASE Requeues(w) \/ GoesOn(w)
      <4>1. ~QueueEmpty(w[1]) /\ Own(w)' = Next1(w) /\ pc'[w] \in {"waiting", "granted", "running"}
        BY <3>2 DEF Requeues, GoesOn, TakesOne, Own, Next1
      <4>2. result'[Next1(w)] = "deadline"
        BY <2>3, <4>1, NextIsFresh
      <4> QED
        BY <3>2, <4>1, <4>2 DEF Requeues, GoesOn
    <3>3. CASE Leaves(w) \/ Queues(w) \/ Starts(w) \/ Resumes(w) \/ Drops(w)
      <4>1. result' = result
        BY <3>3 DEF Leaves, Queues, Starts, Resumes, Drops, Still
      <4>2. result[Own(w)] = "deadline"
        BY <2>1 DEF WindowInv
      <4> QED
        BY <2>1, <2>3, <4>1, <4>2
    <3> QED
      BY <1>1, <3>1, <3>2, <3>3
  <2>7. \A u \in Workers : /\ Busy(u)' => result'[Own(u)'] = "deadline"
                           /\ pc'[u] = "running" => Own(u)' \in started'
                           /\ pc'[u] = "done" => QueueEmpty(u[1])'
    BY <1>5, <2>5, <2>6
  <2> QED
    BY <2>4, <2>7 DEF WindowInv
<1> QED
  BY <1>1, <1>6, <1>7 DEF Leaves, Queues, Starts, Resumes, Stops, Requeues, GoesOn, Drops, Still

LEMMA StatesWorker ==
  ASSUME Shapes, OwnInv, RefInv, NEW w \in Workers, WorkerStep(w)
  PROVE  VerdictInv' /\ UntouchedInv' /\ StoppedInv' /\ TimedOutInv'
<1> USE DEF RefInv
<1>1. /\ phase' = phase /\ requestState' = requestState /\ verdict' = verdict /\ interrupted' = interrupted
      /\ \A u \in Workers \ {w} : /\ cur'[u] = cur[u] /\ hit'[u] = hit[u]
                                  /\ pc'[u] = pc[u] \/ (pc[u] = "waiting" /\ pc'[u] = "granted")
      /\ hit'[w] => hit[w]
      /\ \/ Leaves(w) \/ Queues(w) \/ Starts(w) \/ Resumes(w)
         \/ Stops(w) \/ Requeues(w) \/ GoesOn(w) \/ Drops(w)
  BY WorkerKinds
<1>2. /\ pc'[w] # "none"
      /\ pc[w] \in {"new", "waiting", "granted", "running"}
      /\ hit[w] <=> pc'[w] = "cancelled"
      /\ hit[w] => result' = result
  BY <1>1 DEF Leaves, Queues, Starts, Resumes, Stops, Requeues, GoesOn, Drops, Still, Ends
<1>3. \A r \in Requests : (Open(r)' <=> Open(r)) /\ (Untouched(r)' <=> Untouched(r))
  BY <1>1 DEF Open, Untouched
<1>4. \A u \in Workers : u[1] \in Requests
  BY WorkerNames
<1>5. VerdictInv'
  <2>1. \A u \in Workers : pc'[u] = "none" => pc[u] = "none"
    BY <1>1, <1>2
  <2> QED
    BY <1>1, <1>3, <2>1 DEF VerdictInv
<1>6. \A u \in Workers : Untouched(u[1])' => ~hit'[u] /\ pc'[u] # "cancelled"
  <2> SUFFICES ASSUME NEW u \in Workers, Untouched(u[1])'
               PROVE  ~hit'[u] /\ pc'[u] # "cancelled"
    OBVIOUS
  <2>1. ~hit[u] /\ pc[u] # "cancelled"
    BY <1>3, <1>4 DEF UntouchedInv
  <2> QED
    BY <1>1, <1>2, <2>1
<1>7. ASSUME Ends(w)
      PROVE  /\ Own(w) \in Windows
             /\ \E how \in {"ok", "failed"} : \A x \in Windows : result'[x] = IF x = Own(w) THEN how ELSE result[x]
  <2>1. Own(w) \in Windows
    BY <1>7, OwnWindow DEF Ends
  <2> QED
    BY <1>7, <2>1 DEF Ends, Shapes
<1>8. \A x \in Windows : result[x] # "deadline" => result'[x] # "deadline"
  <2>1. CASE result' = result
    BY <2>1
  <2>2. CASE Ends(w)
    BY <1>7, <2>2
  <2> QED
    BY <1>1, <2>1, <2>2 DEF Leaves, Queues, Starts, Resumes, Stops, Requeues, GoesOn, Drops, Still
<1>9. ASSUME NEW r \in Requests, Untouched(r)', NEW i \in 1..taken'[r]
      PROVE  result'[<<r, i>>] # "deadline" \/ \E u \in Workers : Busy(u)' /\ Own(u)' = <<r, i>>
  <2>0. taken[r] \in Nat /\ WindowCount[r] \in Nat /\ taken[r] <= WindowCount[r]
    BY TrendAssumption DEF Shapes
  <2>1. ASSUME i <= taken[r]
        PROVE  result'[<<r, i>>] # "deadline" \/ \E u \in Workers : Busy(u)' /\ Own(u)' = <<r, i>>
    <3>1. i \in 1..taken[r] /\ <<r, i>> \in Windows
      BY <2>0, <2>1, WindowNames
    <3>2. CASE result[<<r, i>>] # "deadline"
      BY <1>8, <3>1, <3>2
    <3>3. ASSUME NEW u \in Workers, Busy(u), Own(u) = <<r, i>>
          PROVE  result'[<<r, i>>] # "deadline" \/ \E v \in Workers : Busy(v)' /\ Own(v)' = <<r, i>>
      <4>1. CASE u # w
        BY <1>1, <3>3, <4>1 DEF Own
      <4>2. CASE u = w
        <5>1. w[1] = r /\ ~hit[w]
          BY <1>3, <1>9, <3>3, <4>2 DEF Own, UntouchedInv
        <5>2. CASE Ends(w)
          BY <1>7, <3>1, <3>3, <4>2, <5>2
        <5>3. CASE Resumes(w)
          BY <3>3, <4>2, <5>3 DEF Resumes, Own
        <5> QED
          BY <1>1, <3>3, <4>2, <5>1, <5>2, <5>3 DEF Leaves, Queues, Starts, Stops, Requeues, GoesOn, Drops
      <4> QED
        BY <4>1, <4>2
    <3> QED
      BY <1>3, <1>9, <3>1, <3>2, <3>3 DEF UntouchedInv
  <2>2. ASSUME ~(i <= taken[r])
        PROVE  \E u \in Workers : Busy(u)' /\ Own(u)' = <<r, i>>
    <3>1. taken'[r] # taken[r] /\ (Queues(w) \/ Starts(w) \/ Requeues(w) \/ GoesOn(w))
      BY <1>1, <2>0, <2>2 DEF Leaves, Resumes, Stops, Drops, Still
    <3>2. TakesOne(w) /\ pc'[w] \in {"waiting", "granted", "running"}
      BY <3>1 DEF Queues, Starts, Requeues, GoesOn
    <3>3. r = w[1] /\ taken'[r] = taken[r] + 1 /\ cur'[w] = taken[r] + 1
      BY <3>1, <3>2 DEF TakesOne
    <3>4. i = taken[r] + 1
      BY <2>0, <2>2, <3>3
    <3> QED
      BY <3>2, <3>3, <3>4 DEF Own
  <2> QED
    BY <2>1, <2>2
<1>10. UntouchedInv'
  BY <1>1, <1>3, <1>6, <1>9 DEF UntouchedInv
<1>11. StoppedInv'
  <2> SUFFICES ASSUME NEW u \in Workers, ~Untouched(u[1])'
               PROVE  Finished(u)' \/ hit'[u]
    BY DEF StoppedInv
  <2>1. Finished(u) \/ hit[u]
    BY <1>3, <1>4 DEF StoppedInv
  <2> QED
    BY <1>1, <1>2, <2>1 DEF Finished
<1>12. ASSUME NEW r \in Requests, requestState'[r] = "timed_out"
       PROVE  \E i \in WindowsOf(r) : result'[<<r, i>>] = "deadline"
  <2>1. \A u \in Workers : u[1] = r => Finished(u) \/ hit[u]
    BY <1>1, <1>12 DEF StoppedInv, Untouched
  <2>2. PICK i \in WindowsOf(r) : result[<<r, i>>] = "deadline"
    BY <1>1, <1>12 DEF TimedOutInv
  <2>3. result'[<<r, i>>] = "deadline"
    <3>1. CASE w[1] = r
      <4>1. hit[w]
        BY <1>2, <2>1, <3>1 DEF Finished
      <4> QED
        BY <1>2, <2>2, <4>1
    <3>2. CASE w[1] # r /\ Ends(w)
      <4>1. <<r, i>> \in Windows /\ <<r, i>> # Own(w)
        BY <3>2, WindowNames DEF Own, WindowsOf
      <4> QED
        BY <1>7, <2>2, <3>2, <4>1
    <3>3. CASE result' = result
      BY <2>2, <3>3
    <3> QED
      BY <1>1, <3>1, <3>2, <3>3 DEF Leaves, Queues, Starts, Resumes, Stops, Requeues, GoesOn, Drops, Still
  <2> QED
    BY <2>3
<1> QED
  BY <1>5, <1>10, <1>11, <1>12 DEF TimedOutInv
(* What a step of a request leaves alone. *)
LEMMA RequestKeeps ==
  ASSUME Shapes, OpenInv, NEW r \in Requests, RequestStep(r)
  PROVE  /\ Still
         /\ \A w \in Workers : pc'[w] = pc[w] \/ (w[1] = r /\ phase[r] = "idle" /\ ~Busy(w) /\ pc'[w] = "new")
         /\ \A w \in Workers : (hit[w] => hit'[w]) /\ (w[1] # r => hit'[w] = hit[w])
         /\ \A q \in Requests \ {r} : /\ phase'[q] = phase[q] /\ requestState'[q] = requestState[q]
                                      /\ verdict'[q] = verdict[q] /\ interrupted'[q] = interrupted[q]
<1>1. Still
  BY DEF Still, RequestStep, RunEmpty, Run, WorkersDone, Deadline, FirstStopped, Conclude, ConcludeInterrupted,
         Cancel, CancelStopping, CancelDraining, StopsWaiting, workVars
<1>2. \A w \in Workers : pc'[w] = pc[w] \/ (w[1] = r /\ phase[r] = "idle" /\ ~Busy(w) /\ pc'[w] = "new")
  <2>1. CASE Run(r)
    <3>1. \A w \in Workers : w[1] = r => ~Busy(w)
      BY <2>1 DEF Run, OpenInv, Open
    <3> QED
      BY <2>1, <3>1 DEF Run
  <2>2. CASE pc' = pc
    BY <2>2
  <2> QED
    BY <2>1, <2>2 DEF RequestStep, RunEmpty, WorkersDone, Deadline, FirstStopped, Conclude, ConcludeInterrupted,
       Cancel, CancelStopping, CancelDraining, StopsWaiting
<1>3. \A w \in Workers : (hit[w] => hit'[w]) /\ (w[1] # r => hit'[w] = hit[w])
  <2>1. hit' = hit \/ HitWorkers(r)
    BY DEF RequestStep, RunEmpty, Run, WorkersDone, Deadline, FirstStopped, Conclude, ConcludeInterrupted,
       Cancel, CancelStopping, CancelDraining, StopsWaiting
  <2> QED
    BY <2>1 DEF HitWorkers, Shapes
<1>4. \A q \in Requests \ {r} : /\ phase'[q] = phase[q] /\ requestState'[q] = requestState[q]
                                /\ verdict'[q] = verdict[q] /\ interrupted'[q] = interrupted[q]
  <2>1. /\ \E v : phase' = [phase EXCEPT ![r] = v] \/ phase' = phase
        /\ \E v : requestState' = [requestState EXCEPT ![r] = v] \/ requestState' = requestState
        /\ \E v : verdict' = [verdict EXCEPT ![r] = v] \/ verdict' = verdict
        /\ \E v : interrupted' = [interrupted EXCEPT ![r] = v] \/ interrupted' = interrupted
    BY DEF RequestStep, RunEmpty, Run, WorkersDone, Deadline, FirstStopped, Conclude, ConcludeInterrupted,
       Cancel, CancelStopping, CancelDraining, StopsWaiting
  <2> QED
    BY <2>1 DEF Shapes
<1> QED
  BY <1>1, <1>2, <1>3, <1>4

(* The deadline leaves an unfinished window. *)
LEMMA DeadlineLeavesOne ==
  ASSUME Shapes, OwnInv, WindowInv, VerdictInv, NEW r \in Requests, Deadline(r)
  PROVE  \E i \in WindowsOf(r) : result[<<r, i>>] = "deadline"
<1>1. PICK w \in WorkersOf(r) : ~Finished(w)
  BY DEF Deadline, AllFinished
<1>2. w \in Workers /\ w[1] = r
  BY <1>1 DEF Workers, WorkersOf
<1>3. pc[w] # "new" /\ pc[w] # "none"
  BY <1>1, <1>2 DEF Deadline, StopsWaiting, VerdictInv
<1>4. Busy(w)
  BY <1>1, <1>2, <1>3 DEF Finished, Shapes, WorkerPcs
<1>5. Own(w) \in Windows /\ result[Own(w)] = "deadline"
  BY <1>2, <1>4, OwnWindow DEF WindowInv
<1>6. cur[w] \in WindowsOf(r)
  BY <1>2, <1>5, WindowNames DEF Own, WindowsOf
<1> QED
  BY <1>2, <1>5, <1>6 DEF Own

LEMMA RefRequest ==
  ASSUME Shapes, OwnInv, OpenInv, RefInv, NEW r \in Requests, RequestStep(r)
  PROVE  RefInv'
<1> USE DEF RefInv
<1>1. /\ Still
      /\ \A w \in Workers : pc'[w] = pc[w] \/ (w[1] = r /\ phase[r] = "idle" /\ ~Busy(w) /\ pc'[w] = "new")
      /\ \A w \in Workers : (hit[w] => hit'[w]) /\ (w[1] # r => hit'[w] = hit[w])
      /\ \A q \in Requests \ {r} : /\ phase'[q] = phase[q] /\ requestState'[q] = requestState[q]
                                   /\ verdict'[q] = verdict[q] /\ interrupted'[q] = interrupted[q]
  BY RequestKeeps
<1>2. \A w \in Workers : /\ Own(w)' = Own(w) /\ (Busy(w)' <=> Busy(w))
                         /\ (pc'[w] = "running" => pc[w] = "running")
                         /\ (pc'[w] = "done" => pc[w] = "done")
  BY <1>1 DEF Own, Still
<1>3. WindowInv'
  BY <1>1, <1>2 DEF WindowInv, Still, QueueEmpty
<1>4. /\ phase[r] \in Phases
      /\ \A w \in Workers : w[1] \in Requests
  BY WorkerNames DEF Shapes
<1>5. /\ phase'[r] # "idle"
      /\ Open(r)' => verdict'[r] = "open"
      /\ Untouched(r)' => Untouched(r) /\ phase'[r] # "stopping" /\ \A w \in Workers : w[1] = r => hit'[w] = hit[w]
      /\ Untouched(r) /\ ~Untouched(r)' => HitWorkers(r) /\ pc' = pc
      /\ requestState'[r] = "timed_out" /\ requestState[r] # "timed_out" => Deadline(r)
      /\ phase[r] = "idle" => RunEmpty(r) \/ Run(r)
  <2>1. CASE RunEmpty(r)
    BY <2>1 DEF RunEmpty, Shapes, Open, Untouched, UntouchedInv
  <2>2. CASE Run(r)
    BY <2>2 DEF Run, Shapes, Open, Untouched, UntouchedInv
  <2>3. CASE WorkersDone(r)
    BY <2>3 DEF WorkersDone, Shapes, Open, Untouched, UntouchedInv, VerdictInv
  <2>4. CASE Deadline(r) \/ Cancel(r)
    <3>1. PICK why \in {"timed_out", "cancelled"} : StopsWaiting(r, why)
      BY <2>4 DEF Deadline, Cancel
    <3>2. /\ requestState'[r] = why /\ phase'[r] = "stopping" /\ phase[r] = "waiting" /\ verdict' = verdict
          /\ HitWorkers(r) /\ pc' = pc
      BY <3>1 DEF StopsWaiting, Shapes
    <3>3. Cancel(r) => requestState'[r] = "cancelled"
      BY DEF Cancel, StopsWaiting, Shapes
    <3> QED
      BY <2>4, <3>1, <3>2, <3>3 DEF Open, Untouched, VerdictInv
  <2>5. CASE FirstStopped(r)
    BY <2>5 DEF FirstStopped, Shapes, Open, Untouched, UntouchedInv, VerdictInv
  <2>6. CASE Conclude(r) \/ ConcludeInterrupted(r)
    BY <2>6 DEF Conclude, ConcludeInterrupted, Shapes, Open, Untouched, UntouchedInv
  <2>7. CASE CancelStopping(r)
    <3>1. /\ phase[r] = "stopping" /\ phase'[r] = "draining" /\ requestState'[r] = "cancelled"
          /\ verdict' = verdict
      BY <2>7 DEF CancelStopping, Shapes
    <3>2. ~Untouched(r) /\ ~Untouched(r)'
      BY <3>1 DEF UntouchedInv, Untouched
    <3> QED
      BY <3>1, <3>2 DEF Open, VerdictInv
  <2>8. CASE CancelDraining(r)
    BY <2>8 DEF CancelDraining, Shapes, Open, Untouched, VerdictInv
  <2> QED
    BY <2>1, <2>2, <2>3, <2>4, <2>5, <2>6, <2>7, <2>8 DEF RequestStep
<1>6. VerdictInv'
  <2>1. ASSUME NEW q \in Requests
        PROVE  /\ phase'[q] = "idle" => verdict'[q] = "none" /\ requestState'[q] = "complete"
               /\ Open(q)' => verdict'[q] = "open"
    <3>1. CASE q = r
      BY <1>5, <3>1
    <3>2. CASE q # r
      BY <1>1, <3>2 DEF VerdictInv, Open
    <3> QED
      BY <3>1, <3>2
  <2>2. ASSUME NEW w \in Workers, pc'[w] = "none"
        PROVE  phase'[w[1]] = "idle"
    <3>1. pc[w] = "none" /\ phase[w[1]] = "idle"
      BY <1>1, <2>2 DEF VerdictInv
    <3>2. w[1] # r
      BY <1>5, <2>2, <3>1, WorkerNames DEF RunEmpty, Run
    <3> QED
      BY <1>1, <1>4, <3>1, <3>2
  <2> QED
    BY <2>1, <2>2 DEF VerdictInv
<1>7. \A q \in Requests : Untouched(q)' => Untouched(q)
  <2> TAKE q \in Requests
  <2>1. CASE q = r
    BY <1>5, <2>1
  <2>2. CASE q # r
    BY <1>1, <2>2 DEF Untouched
  <2> QED
    BY <2>1, <2>2
<1>8. UntouchedInv'
  <2>1. ASSUME NEW q \in Requests, Untouched(q)'
        PROVE  phase'[q] # "stopping"
    <3>1. CASE q = r
      BY <1>5, <2>1, <3>1
    <3>2. CASE q # r
      BY <1>1, <1>7, <2>1, <3>2 DEF UntouchedInv
    <3> QED
      BY <3>1, <3>2
  <2>2. ASSUME NEW w \in Workers, Untouched(w[1])'
        PROVE  ~hit'[w] /\ pc'[w] # "cancelled"
    <3>1. ~hit[w] /\ pc[w] # "cancelled"
      BY <1>4, <1>7, <2>2 DEF UntouchedInv
    <3>2. hit'[w] = hit[w]
      BY <1>1, <1>4, <1>5, <2>2
    <3> QED
      BY <1>1, <3>1, <3>2
  <2>3. ASSUME NEW q \in Requests, Untouched(q)', NEW i \in 1..taken'[q]
        PROVE  result'[<<q, i>>] # "deadline" \/ \E w \in Workers : Busy(w)' /\ Own(w)' = <<q, i>>
    <3>1. result[<<q, i>>] # "deadline" \/ \E w \in Workers : Busy(w) /\ Own(w) = <<q, i>>
      BY <1>1, <1>7, <2>3 DEF UntouchedInv, Still
    <3> QED
      BY <1>1, <1>2, <3>1 DEF Still
  <2> QED
    BY <2>1, <2>2, <2>3 DEF UntouchedInv
<1>9. StoppedInv'
  <2> SUFFICES ASSUME NEW w \in Workers, ~Untouched(w[1])'
               PROVE  Finished(w)' \/ hit'[w]
    BY DEF StoppedInv
  <2>1. CASE ~Untouched(w[1])
    <3>1. Finished(w) \/ hit[w]
      BY <2>1 DEF StoppedInv
    <3>2. phase[w[1]] # "idle"
      BY <1>4, <2>1 DEF Untouched, VerdictInv, OpenInv
    <3> QED
      BY <1>1, <3>1, <3>2 DEF Finished
  <2>2. CASE Untouched(w[1])
    <3>1. w[1] = r
      BY <1>1, <1>4, <2>2 DEF Untouched
    <3>2. HitWorkers(r) /\ pc' = pc
      BY <1>5, <2>2, <3>1
    <3> QED
      BY <3>1, <3>2 DEF HitWorkers, Finished
  <2> QED
    BY <2>1, <2>2
<1>10. ASSUME NEW q \in Requests, requestState'[q] = "timed_out"
       PROVE  \E i \in WindowsOf(q) : result'[<<q, i>>] = "deadline"
  <2>1. CASE requestState[q] = "timed_out"
    BY <1>1, <2>1 DEF TimedOutInv, Still
  <2>2. CASE requestState[q] # "timed_out"
    <3>1. q = r /\ Deadline(r)
      BY <1>1, <1>5, <1>10, <2>2
    <3>2. \E i \in WindowsOf(r) : result[<<r, i>>] = "deadline"
      BY <3>1, DeadlineLeavesOne
    <3> QED
      BY <1>1, <3>1, <3>2 DEF Still
  <2> QED
    BY <2>1, <2>2
<1> QED
  BY <1>3, <1>6, <1>8, <1>9, <1>10 DEF TimedOutInv

LEMMA InitRefInv == Init => RefInv
BY WorkerNames, TrendAssumption
DEF Init, RefInv, WindowInv, VerdictInv, UntouchedInv, StoppedInv, TimedOutInv, Open, Untouched

LEMMA StepRefInv == IInv /\ RefInv /\ [Next]_vars => RefInv'
<1> SUFFICES ASSUME IInv, RefInv, [Next]_vars
             PROVE  RefInv'
  OBVIOUS
<1>1. ASSUME NEW w \in Workers, WorkerStep(w)
      PROVE  RefInv'
  BY <1>1, WindowWorker, StatesWorker DEF IInv, RefInv
<1>2. CASE UNCHANGED vars
  <2>1. /\ UNCHANGED <<phase, requestState, verdict, interrupted, taken, result>>
        /\ UNCHANGED <<cur, started, pc, hit>>
    BY <1>2 DEF vars, runVars, workVars
  <2>2. WindowInv'
    BY <2>1 DEF RefInv, WindowInv, Own, QueueEmpty
  <2>3. VerdictInv'
    BY <2>1 DEF RefInv, VerdictInv, Open
  <2>4. UntouchedInv'
    BY <2>1 DEF RefInv, UntouchedInv, Untouched, Own
  <2>5. StoppedInv' /\ TimedOutInv'
    BY <2>1 DEF RefInv, StoppedInv, TimedOutInv, Untouched, Finished
  <2> QED
    BY <2>2, <2>3, <2>4, <2>5 DEF RefInv
<1> QED
  BY <1>1, <1>2, RefRequest DEF IInv, Next, AllReturned
-----------------------------------------------------------------------------
(* The mapping: the status of every window, and of every request. *)
Shown == [x \in Windows |-> WindowStatus(x)]
Told  == [r \in Requests |-> RequestStatus(r)]

RunsWindow(x) == \E w \in Workers : pc[w] = "running" /\ Own(w) = x

(* Under the invariant a window is active exactly while a worker runs it.  *)
LEMMA StatusMeans ==
  ASSUME Shapes, WindowInv, NEW x \in Windows
  PROVE  /\ WindowStatus(x) = "active" <=> RunsWindow(x)
         /\ WindowStatus(x) = "waiting" <=> x \notin started /\ result[x] = "deadline"
         /\ result[x] # "deadline" => WindowStatus(x) = result[x]
         /\ WindowStatus(x) \in {"ok", "failed"} => result[x] # "deadline"
<1>1. RunsWindow(x) => result[x] = "deadline" /\ x \in started
  BY DEF WindowInv, RunsWindow
<1>2. result[x] \in {"deadline", "ok", "failed"}
  BY DEF Shapes
<1> QED
  BY <1>1, <1>2 DEF WindowStatus, RunsWindow, Own

(* After a step, too: what a worker runs is active. *)
LEMMA RunsShows ==
  ASSUME WindowInv', NEW x \in Windows, RunsWindow(x)'
  PROVE  WindowStatus(x)' = "active"
BY DEF WindowInv, RunsWindow, WindowStatus, Own

(* Nothing about a window changes, nor does its status. *)
LEMMA StatusKeeps ==
  ASSUME NEW x \in Windows, result'[x] = result[x], x \in started' <=> x \in started,
         RunsWindow(x)' <=> RunsWindow(x)
  PROVE  WindowStatus(x)' = WindowStatus(x)
BY DEF WindowStatus, RunsWindow, Own

(* A step of a worker is about the window it has and the one it takes.     *)
LEMMA OthersKeepStatus ==
  ASSUME Shapes, OwnInv, NEW w \in Workers, WorkerStep(w), NEW x \in Windows, x # Own(w), x # Own(w)'
  PROVE  WindowStatus(x)' = WindowStatus(x)
<1>1. /\ \A u \in Workers \ {w} : /\ cur'[u] = cur[u]
                                  /\ pc'[u] = pc[u] \/ (pc[u] = "waiting" /\ pc'[u] = "granted")
      /\ \/ Leaves(w) \/ Queues(w) \/ Starts(w) \/ Resumes(w)
         \/ Stops(w) \/ Requeues(w) \/ GoesOn(w) \/ Drops(w)
  BY WorkerKinds
<1>2. RunsWindow(x)' <=> RunsWindow(x)
  <2>1. \A u \in Workers \ {w} : Own(u)' = Own(u) /\ (pc'[u] = "running" <=> pc[u] = "running")
    BY <1>1 DEF Own
  <2> QED
    BY <2>1 DEF RunsWindow
<1>3. result'[x] = result[x]
  <2>1. result' = result \/ \E how : result' = [result EXCEPT ![Own(w)] = how]
    BY <1>1 DEF Leaves, Queues, Starts, Resumes, Stops, Requeues, GoesOn, Drops, Still, Ends
  <2> QED
    BY <2>1 DEF Shapes
<1>4. x \in started' <=> x \in started
  <2>1. /\ Starts(w) \/ GoesOn(w) => Own(w)' = Next1(w)
        /\ started' \in {started, started \cup {Own(w)}, started \cup {Next1(w)}}
        /\ Starts(w) \/ GoesOn(w) \/ started' \in {started, started \cup {Own(w)}}
    BY <1>1 DEF Leaves, Queues, Starts, Resumes, Stops, Requeues, GoesOn, Drops, Still, TakesOne, Own, Next1
  <2> QED
    BY <2>1
<1> QED
  BY <1>2, <1>3, <1>4, StatusKeeps

LEMMA ShownChange ==
  ASSUME NEW x \in Windows, NEW v, WindowStatus(x)' = v,
         \A y \in Windows \ {x} : WindowStatus(y)' = WindowStatus(y)
  PROVE  Shown' = [Shown EXCEPT ![x] = v]
BY DEF Shown

LEMMA SameWindows == Bulkhead!Windows = Windows
BY DEF Bulkhead!Windows, Bulkhead!WindowsOf, Windows, WindowsOf

(* The instance has a name of its own for the size of a set. *)
LEMMA SameSize == \A S : Bulkhead!Cardinality(S) = Cardinality(S)
BY Zenon DEF Bulkhead!Cardinality, Cardinality

Active == {x \in Windows : WindowStatus(x) = "active"}

(* There is room for one more when a permit is free or given to a waiter.  *)
LEMMA RoomForOne ==
  ASSUME Shapes, OwnInv, WindowInv, PermitsConserved, free > 0 \/ \E w \in Workers : pc[w] = "granted"
  PROVE  Cardinality(Active) < Limit
<1>1. /\ IsFiniteSet(Running) /\ IsFiniteSet(Holding)
      /\ Cardinality(Running) \in Nat /\ Cardinality(Holding) \in Nat
  <2>1. Running \in SUBSET Workers /\ Holding \in SUBSET Workers
    BY DEF Running, Holding
  <2> QED
    BY <2>1, Finite, FS_Subset, FS_CardinalityType
<1>2. Cardinality(Running) < Limit
  <2>1. Running \subseteq Holding
    BY DEF Running, Holding
  <2>2. Cardinality(Running) <= Cardinality(Holding)
    BY <1>1, <2>1, FS_Subset
  <2>3. free + Cardinality(Holding) = Limit /\ free \in Nat /\ Limit \in Nat
    BY TrendAssumption DEF PermitsConserved, Shapes
  <2>4. CASE free > 0
    BY <1>1, <2>2, <2>3, <2>4
  <2>5. ASSUME NEW w \in Workers, pc[w] = "granted"
        PROVE  Cardinality(Running) < Limit
    <3>1. Running # Holding
      BY <2>5 DEF Running, Holding
    <3>2. Cardinality(Running) < Cardinality(Holding)
      <4>1. Cardinality(Running) = Cardinality(Holding) => Running = Holding
        BY <1>1, <2>1, FS_Subset
      <4> QED
        BY <1>1, <2>2, <3>1, <4>1
    <3> QED
      BY <1>1, <2>3, <3>2
  <2> QED
    BY <2>4, <2>5
<1>3. Cardinality(Active) <= Cardinality(Running) /\ Cardinality(Active) \in Nat
  <2> DEFINE f == [w \in Running |-> Own(w)]
  <2>1. \A w \in Running : Own(w) \in Active
    BY OwnWindow, StatusMeans DEF Running, Active, RunsWindow
  <2>2. \A x \in Active : \E w \in Running : Own(w) = x
    BY StatusMeans DEF Running, Active, RunsWindow
  <2>3. f \in Surjection(Running, Active)
    BY <2>1, <2>2 DEF Surjection
  <2>4. IsFiniteSet(Active) /\ Cardinality(Active) <= Cardinality(Running)
    BY <1>1, <2>3, FS_Surjection
  <2> QED
    BY <2>4, FS_CardinalityType
<1> QED
  BY <1>1, <1>2, <1>3, TrendAssumption

(* A step of a worker admits, ends or drops a window, or shows nothing.    *)
LEMMA WorkerMaps ==
  ASSUME IInv, RefInv, RefInv', NEW w \in Workers, WorkerStep(w)
  PROVE  Bulkhead!Next \/ UNCHANGED <<Shown, Told>>
<1>0. /\ Shapes /\ OwnInv /\ OpenInv /\ PermitsConserved /\ WindowInv /\ VerdictInv
      /\ Shapes' /\ OwnInv' /\ WindowInv'
  BY ShapesWorker, WorkerMoves DEF IInv, RefInv
<1>1. /\ phase' = phase /\ requestState' = requestState /\ verdict' = verdict /\ interrupted' = interrupted
      /\ \A u \in Workers \ {w} : /\ cur'[u] = cur[u]
                                  /\ pc'[u] = pc[u] \/ (pc[u] = "waiting" /\ pc'[u] = "granted")
      /\ \/ Leaves(w) \/ Queues(w) \/ Starts(w) \/ Resumes(w)
         \/ Stops(w) \/ Requeues(w) \/ GoesOn(w) \/ Drops(w)
  BY <1>0, WorkerKinds
<1>2. \A x \in Windows : x # Own(w) /\ x # Own(w)' => WindowStatus(x)' = WindowStatus(x)
  BY <1>0, OthersKeepStatus
<1>a. Told' = Told
  BY <1>1 DEF Told, RequestStatus, Open, Untouched
<1>3. ASSUME pc[w] \in {"new", "waiting", "granted", "running"}
      PROVE  Told[w[1]] = IF hit[w] THEN "stopping" ELSE "open"
  <2>1. w[1] \in Requests /\ Open(w[1]) /\ verdict[w[1]] = "open"
    BY <1>0, <1>3, WorkerNames DEF OpenInv, VerdictInv
  <2>2. ~Finished(w)
    BY <1>3 DEF Finished
  <2>3. Untouched(w[1]) <=> ~hit[w]
    BY <2>1, <2>2 DEF RefInv, UntouchedInv, StoppedInv
  <2> QED
    BY <2>1, <2>3 DEF Told, RequestStatus
<1>4. CASE Leaves(w) \/ Queues(w)
  <2>1. pc[w] # "running" /\ pc'[w] # "running" /\ result' = result /\ started' = started
    BY <1>4 DEF Leaves, Queues, Still
  <2>2. \A u \in Workers \ {w} : Own(u)' = Own(u) /\ (pc'[u] = "running" <=> pc[u] = "running")
    BY <1>1 DEF Own
  <2>3. \A x \in Windows : RunsWindow(x)' <=> RunsWindow(x)
    BY <2>1, <2>2 DEF RunsWindow
  <2>4. \A x \in Windows : WindowStatus(x)' = WindowStatus(x)
    BY <2>1, <2>3, StatusKeeps
  <2> QED
    BY <1>a, <2>4 DEF Shown
<1>5. ASSUME NEW x \in Windows, x \notin started, result[x] = "deadline", x[1] = w[1],
             pc'[w] = "running", x = Own(w)', free > 0 \/ pc[w] = "granted",
             Told[w[1]] = "open",
             \A y \in Windows \ {x} : WindowStatus(y)' = WindowStatus(y)
      PROVE  Bulkhead!Next
  <2>1. WindowStatus(x) = "waiting"
    BY <1>0, <1>5, StatusMeans
  <2>2. WindowStatus(x)' = "active"
    <3>1. RunsWindow(x)'
      BY <1>5 DEF RunsWindow
    <3> QED
      BY <1>0, <3>1, RunsShows
  <2>3. Shown' = [Shown EXCEPT ![x] = "active"]
    BY <1>5, <2>2, ShownChange
  <2>4. Cardinality({y \in Bulkhead!Windows : Shown[y] = "active"}) < Limit
    <3>1. {y \in Bulkhead!Windows : Shown[y] = "active"} = Active
      BY SameWindows DEF Shown, Active
    <3>2. Cardinality(Active) < Limit
      BY <1>0, <1>5, RoomForOne
    <3> QED
      BY <3>1, <3>2
  <2>5. Shown[x] = "waiting" /\ Told[x[1]] = "open"
    BY <1>5, <2>1 DEF Shown
  <2>6. Bulkhead!Admissible(x)
    BY <2>5 DEF Bulkhead!Admissible, Shown, Told
  <2>7. Cardinality({y \in Bulkhead!Windows : [z \in Windows |-> WindowStatus(z)][y] = "active"}) < Limit
    BY <2>4 DEF Shown
  <2>8. Bulkhead!Admit(x)
    <3>1. [z \in Windows |-> WindowStatus(z)]' = [[z \in Windows |-> WindowStatus(z)] EXCEPT ![x] = "active"]
      BY <2>3 DEF Shown
    <3>2. [r \in Requests |-> RequestStatus(r)]' = [r \in Requests |-> RequestStatus(r)]
      BY <1>a DEF Told
    <3> QED
      BY <2>6, <2>7, <3>1, <3>2, SameSize DEF Bulkhead!Admit
  <2> QED
    BY <2>8, SameWindows DEF Bulkhead!Next
<1>6. CASE Starts(w)
  <2>1. ~QueueEmpty(w[1]) /\ Own(w)' = Next1(w) /\ pc'[w] = "running" /\ free > 0 /\ pc[w] = "new"
    BY <1>6 DEF Starts, TakesOne, Own, Next1
  <2>2. Next1(w) \in Windows /\ Next1(w) \notin started /\ result[Next1(w)] = "deadline" /\ Next1(w)[1] = w[1]
    BY <1>0, <2>1, NextIsFresh DEF Next1
  <2>3. \A y \in Windows \ {Next1(w)} : WindowStatus(y)' = WindowStatus(y)
    <3> SUFFICES ASSUME NEW y \in Windows \ {Next1(w)}, y = Own(w)
                 PROVE  WindowStatus(y)' = WindowStatus(y)
      BY <1>2, <2>1
    <3>1. result' = result /\ started' = started \cup {Next1(w)}
      BY <1>6 DEF Starts
    <3>2. RunsWindow(y)' <=> RunsWindow(y)
      <4>1. \A u \in Workers \ {w} : Own(u)' = Own(u) /\ (pc'[u] = "running" <=> pc[u] = "running")
        BY <1>1 DEF Own
      <4> QED
        BY <2>1, <4>1 DEF RunsWindow
    <3> QED
      BY <3>1, <3>2, StatusKeeps
  <2> QED
    BY <1>3, <1>5, <1>6, <2>1, <2>2, <2>3 DEF Starts
<1>7. CASE Resumes(w)
  <2>1. Own(w)' = Own(w) /\ pc'[w] = "running" /\ pc[w] = "granted"
    BY <1>7 DEF Resumes, Own
  <2>2. Own(w) \in Windows /\ Own(w) \notin started /\ result[Own(w)] = "deadline" /\ Own(w)[1] = w[1]
    BY <1>0, <2>1, OwnWindow DEF OwnInv, WindowInv, Own
  <2> QED
    BY <1>2, <1>3, <1>5, <1>7, <2>1, <2>2 DEF Resumes
<1>8. ASSUME pc[w] = "running"
      PROVE  /\ Own(w) \in Windows /\ Shown[Own(w)] = "active" /\ Own(w) \in started
             /\ result[Own(w)] = "deadline"
             /\ \A u \in Workers \ {w} : pc'[u] = "running" => Own(u)' # Own(w)
  <2>1. /\ Own(w) \in Windows /\ RunsWindow(Own(w)) /\ Own(w) \in started /\ result[Own(w)] = "deadline"
        /\ \A u \in Workers : Busy(u) /\ Own(u) = Own(w) => u = w
    BY <1>0, <1>8, OwnWindow DEF RunsWindow, WindowInv
  <2>2. WindowStatus(Own(w)) = "active"
    BY <1>0, <2>1, StatusMeans
  <2>3. \A u \in Workers \ {w} : pc'[u] = "running" => Own(u)' # Own(w)
    BY <1>1, <2>1 DEF Own
  <2> QED
    BY <2>1, <2>2, <2>3 DEF Shown
<1>9. CASE Drops(w)
  <2>1. /\ pc[w] = "running" /\ pc'[w] = "cancelled" /\ Own(w)' = Own(w)
        /\ result' = result /\ started' = started
    BY <1>9 DEF Drops, Still, Own
  <2>2. PICK x \in Windows : x = Own(w)
    BY <1>8, <2>1
  <2>3. ~RunsWindow(x)'
    BY <1>8, <2>1, <2>2 DEF RunsWindow
  <2>4. WindowStatus(x)' = "dropped"
    BY <1>8, <2>1, <2>2, <2>3 DEF WindowStatus, RunsWindow, Own
  <2>5. Shown' = [Shown EXCEPT ![x] = "dropped"]
    BY <1>2, <2>1, <2>2, <2>4, ShownChange
  <2>6. Told[x[1]] = "stopping"
    BY <1>3, <1>9, <2>1, <2>2 DEF Drops, Own
  <2>7. Bulkhead!Drop(x)
    BY <1>a, <1>8, <2>1, <2>2, <2>5, <2>6 DEF Bulkhead!Drop, Shown, Told
  <2> QED
    BY <2>7, SameWindows DEF Bulkhead!Next
<1>10. ASSUME Ends(w), NEW x \in Windows, x = Own(w)
       PROVE  \E how \in {"ok", "failed"} : WindowStatus(x)' = how
  <2>1. PICK how \in {"ok", "failed"} : result' = [result EXCEPT ![x] = how]
    BY <1>10 DEF Ends
  <2>2. result'[x] = how
    BY <1>0, <1>10, <2>1 DEF Shapes
  <2> QED
    BY <2>2 DEF WindowStatus
<1>11. CASE Stops(w) \/ Requeues(w)
  <2>1. Ends(w) /\ pc[w] = "running" /\ pc'[w] # "running" /\ started' = started
    BY <1>11 DEF Stops, Requeues, Ends
  <2>2. PICK x \in Windows : x = Own(w)
    BY <1>8, <2>1
  <2>3. PICK how \in {"ok", "failed"} : WindowStatus(x)' = how
    BY <1>10, <2>1, <2>2
  <2>4. ASSUME NEW y \in Windows \ {x}
        PROVE  WindowStatus(y)' = WindowStatus(y)
    <3>1. \A u \in Workers \ {w} : Own(u)' = Own(u) /\ (pc'[u] = "running" <=> pc[u] = "running")
      BY <1>1 DEF Own
    <3>2. RunsWindow(y)' <=> RunsWindow(y)
      BY <2>1, <2>2, <3>1 DEF RunsWindow
    <3>3. result'[y] = result[y]
      BY <1>0, <2>1, <2>2 DEF Ends, Shapes
    <3> QED
      BY <2>1, <3>2, <3>3, StatusKeeps
  <2>5. Shown' = [Shown EXCEPT ![x] = how]
    BY <2>3, <2>4, ShownChange
  <2>6. Shown[x] = "active" /\ Told[x[1]] = "open"
    BY <1>3, <1>8, <1>11, <2>1, <2>2 DEF Stops, Requeues, Own
  <2>7. Bulkhead!End(x, how)
    BY <1>a, <2>5, <2>6 DEF Bulkhead!End, Shown, Told
  <2> QED
    BY <2>7, SameWindows DEF Bulkhead!Next, Bulkhead!Ended
<1>12. CASE GoesOn(w)
  <2>1. /\ Ends(w) /\ pc[w] = "running" /\ pc'[w] = "running" /\ ~QueueEmpty(w[1])
        /\ Own(w)' = Next1(w)
    BY <1>12 DEF GoesOn, Ends, TakesOne, Own, Next1
  <2>2. PICK x \in Windows : x = Own(w)
    BY <1>8, <2>1
  <2>3. PICK how \in {"ok", "failed"} : WindowStatus(x)' = how
    BY <1>10, <2>1, <2>2
  <2>4. PICK y \in Windows : y = Next1(w)
    BY <1>0, <2>1, NextIsFresh
  <2>5. y \notin started /\ result[y] = "deadline" /\ y # x /\ y[1] = w[1] /\ x[1] = w[1]
    BY <1>0, <2>1, <2>2, <2>4, NextIsFresh DEF Next1, Own
  <2>6. RunsWindow(y)'
    BY <2>1, <2>4 DEF RunsWindow
  <2>7. WindowStatus(y)' = "active"
    BY <1>0, <2>6, RunsShows
  <2>8. WindowStatus(y) = "waiting"
    BY <1>0, <2>5, StatusMeans
  <2>9. \A z \in Windows \ {x, y} : WindowStatus(z)' = WindowStatus(z)
    BY <1>2, <2>1, <2>2, <2>4
  <2>10. Shown' = [Shown EXCEPT ![x] = how, ![y] = "active"]
    BY <2>3, <2>5, <2>7, <2>9 DEF Shown
  <2>11. Shown[x] = "active" /\ Shown[y] = "waiting" /\ Told[y[1]] = "open"
    BY <1>3, <1>8, <1>12, <2>1, <2>2, <2>5, <2>8 DEF GoesOn, Shown
  <2>12. Bulkhead!EndAndAdmit(x, how, y)
    BY <1>a, <2>5, <2>10, <2>11 DEF Bulkhead!EndAndAdmit, Bulkhead!Admissible, Shown, Told
  <2> QED
    BY <2>12, SameWindows DEF Bulkhead!Next, Bulkhead!Ended
<1> QED
  BY <1>1, <1>4, <1>6, <1>7, <1>9, <1>11, <1>12

-----------------------------------------------------------------------------
(* A request that ends has no window active, ...                           *)
LEMMA EndsQuietly ==
  ASSUME Shapes, WindowInv, NEW r \in Requests, AllFinished(r)
  PROVE  /\ \A w \in Workers : w[1] = r => ~Busy(w)
         /\ \A x \in Bulkhead!WindowsOf(r) : x \in Windows /\ x[1] = r /\ Shown[x] # "active"
<1>1. \A w \in Workers : w[1] = r => ~Busy(w)
  BY WorkerNames DEF AllFinished, Finished
<1>2. \A x \in Bulkhead!WindowsOf(r) : x \in Windows /\ x[1] = r
  BY WindowNames DEF Bulkhead!WindowsOf
<1>3. \A x \in Windows : x[1] = r => ~RunsWindow(x)
  BY <1>1 DEF RunsWindow, Own
<1> QED
  BY <1>1, <1>2, <1>3, StatusMeans DEF Shown

(* ... and all of them have a result if nobody stopped its workers.        *)
LEMMA UntouchedEnds ==
  ASSUME Shapes, RefInv, NEW r \in Requests, AllFinished(r), Untouched(r), WindowCount[r] > 0
  PROVE  \A i \in WindowsOf(r) : result[<<r, i>>] # "deadline"
<1>1. WindowCount[r] \in Nat /\ Limit \in Nat /\ 1 <= Limit
  BY TrendAssumption
<1>2. <<r, 1>> \in WorkersOf(r) /\ <<r, 1>> \in Workers
  BY <1>1 DEF WorkersOf, Workers, WindowsOf
<1>3. PICK w \in Workers : w = <<r, 1>>
  BY <1>2
<1>4. pc[w] = "done"
  BY <1>2, <1>3 DEF AllFinished, Finished, RefInv, UntouchedInv
<1>5. taken[r] = WindowCount[r]
  BY <1>3, <1>4 DEF RefInv, WindowInv, QueueEmpty
<1>6. \A u \in Workers : u[1] = r => ~Busy(u)
  BY WorkerNames DEF AllFinished, Finished
<1> QED
  BY <1>5, <1>6 DEF RefInv, UntouchedInv, Own, WindowsOf

(* What a request says of its windows is true. *)
LEMMA TellsTheTruth ==
  ASSUME Shapes, RefInv, NEW r \in Requests, AllFinished(r), ~interrupted[r]
  PROVE  Bulkhead!Truthful(Resolved(r), {Shown[x] : x \in Bulkhead!WindowsOf(r)})
<1> DEFINE how == Resolved(r)
           T == {Shown[x] : x \in Bulkhead!WindowsOf(r)}
<1>0. WindowInv /\ requestState[r] \in {"complete", "timed_out", "cancelled"}
  BY DEF RefInv, Shapes
<1>1. \A x \in Bulkhead!WindowsOf(r) : \E i \in WindowsOf(r) : x = <<r, i>>
  BY DEF Bulkhead!WindowsOf, WindowsOf
<1>2. \A i \in WindowsOf(r) : <<r, i>> \in Windows /\ <<r, i>> \in Bulkhead!WindowsOf(r)
  BY WindowNames DEF Bulkhead!WindowsOf, WindowsOf
<1>3. \A i \in WindowsOf(r) : /\ result[<<r, i>>] \in {"deadline", "ok", "failed"}
                              /\ result[<<r, i>>] # "deadline" => Shown[<<r, i>>] = result[<<r, i>>]
                              /\ result[<<r, i>>] = "deadline" => Shown[<<r, i>>] \notin {"ok", "failed"}
  BY <1>0, <1>2, StatusMeans DEF Shown, Shapes
<1>4. how = "complete" => T \subseteq {"ok"}
  <2>1. how = "complete" => \A i \in WindowsOf(r) : result[<<r, i>>] = "ok"
    BY <1>0 DEF Resolved
  <2> QED
    BY <1>1, <1>3, <2>1
<1>5. how = "partial" => T \subseteq {"ok", "failed"} /\ "failed" \in T
  <2> SUFFICES ASSUME how = "partial"
               PROVE  T \subseteq {"ok", "failed"} /\ "failed" \in T
    OBVIOUS
  <2>1. PICK i \in WindowsOf(r) : result[<<r, i>>] # "ok" /\ Untouched(r)
    BY <1>0 DEF Resolved, Untouched
  <2>2. WindowCount[r] > 0
    BY TrendAssumption DEF WindowsOf
  <2>3. \A j \in WindowsOf(r) : result[<<r, j>>] # "deadline"
    BY <2>1, <2>2, UntouchedEnds
  <2> QED
    BY <1>1, <1>2, <1>3, <2>1, <2>3
<1>6. how = "timed_out" => ~ T \subseteq {"ok", "failed"}
  <2> SUFFICES ASSUME how = "timed_out"
               PROVE  ~ T \subseteq {"ok", "failed"}
    OBVIOUS
  <2>1. PICK i \in WindowsOf(r) : result[<<r, i>>] = "deadline"
    BY <1>0 DEF Resolved, RefInv, TimedOutInv
  <2> QED
    BY <1>2, <1>3, <2>1
<1> QED
  BY <1>4, <1>5, <1>6 DEF Bulkhead!Truthful, Bulkhead!Ended

(* A step of a request opens, stops or closes it, or shows nothing. *)
LEMMA RequestMaps ==
  ASSUME IInv, RefInv, NEW r \in Requests, RequestStep(r)
  PROVE  Bulkhead!Next \/ UNCHANGED <<Shown, Told>>
<1>0. Shapes /\ OpenInv /\ WindowInv /\ VerdictInv /\ UntouchedInv
  BY DEF IInv, RefInv
<1>1. Shown' = Shown
  <2>1. /\ Still
        /\ \A w \in Workers : pc'[w] = pc[w] \/ (w[1] = r /\ phase[r] = "idle" /\ ~Busy(w) /\ pc'[w] = "new")
    BY <1>0, RequestKeeps
  <2>2. \A w \in Workers : Own(w)' = Own(w) /\ (pc'[w] = "running" <=> pc[w] = "running")
    BY <2>1 DEF Own, Still
  <2>3. \A x \in Windows : RunsWindow(x)' <=> RunsWindow(x)
    BY <2>2 DEF RunsWindow
  <2>4. \A x \in Windows : WindowStatus(x)' = WindowStatus(x)
    BY <2>1, <2>3, StatusKeeps DEF Still
  <2> QED
    BY <2>4 DEF Shown
<1>2. /\ Told[r] = RequestStatus(r)
      /\ \A v : RequestStatus(r)' = v => Told' = [Told EXCEPT ![r] = v]
      /\ RequestStatus(r)' = RequestStatus(r) => Told' = Told
  <2>1. \A q \in Requests \ {r} : RequestStatus(q)' = RequestStatus(q)
    BY <1>0, RequestKeeps DEF RequestStatus, Open, Untouched
  <2> QED
    BY <2>1 DEF Told
<1>3. ASSUME NEW how \in {"complete", "partial", "timed_out", "cancelled"},
             IF how \in {"timed_out", "cancelled"} THEN RequestStatus(r) = "stopping"
                                                   ELSE RequestStatus(r) \in {"none", "open"},
             RequestStatus(r)' = how,
             \A x \in Bulkhead!WindowsOf(r) : Shown[x] # "active",
             Bulkhead!Truthful(how, {Shown[x] : x \in Bulkhead!WindowsOf(r)})
      PROVE  Bulkhead!Next
  <2>1. Told' = [Told EXCEPT ![r] = how]
    BY <1>2, <1>3
  <2>2. Bulkhead!Close(r, how)
    BY <1>1, <1>2, <1>3, <2>1 DEF Bulkhead!Close, Bulkhead!Stopped, Shown, Told
  <2> QED
    BY <2>2 DEF Bulkhead!Next
<1>4. ASSUME phase[r] # "idle", Open(r)', ~Untouched(r)', Open(r), verdict[r] = "open"
      PROVE  Bulkhead!Next \/ UNCHANGED <<Shown, Told>>
  <2>1. RequestStatus(r)' = "stopping" /\ Told' = [Told EXCEPT ![r] = "stopping"]
    BY <1>2, <1>4 DEF RequestStatus
  <2>2. CASE ~Untouched(r)
    BY <1>1, <1>2, <1>4, <2>1, <2>2 DEF RequestStatus
  <2>3. CASE Untouched(r)
    <3>1. Told[r] = "open"
      BY <1>2, <1>4, <2>3 DEF RequestStatus
    <3>2. Bulkhead!Stop(r)
      BY <1>1, <2>1, <3>1 DEF Bulkhead!Stop, Shown, Told
    <3> QED
      BY <3>2 DEF Bulkhead!Next
  <2> QED
    BY <2>2, <2>3
<1>5. CASE RunEmpty(r)
  <2>1. Bulkhead!WindowsOf(r) = {}
    BY <1>5 DEF RunEmpty, Bulkhead!WindowsOf
  <2>2. {Shown[x] : x \in Bulkhead!WindowsOf(r)} = {}
    BY <2>1
  <2>3. Bulkhead!Truthful("complete", {Shown[x] : x \in Bulkhead!WindowsOf(r)})
    BY <2>2 DEF Bulkhead!Truthful
  <2>4. RequestStatus(r) = "none" /\ RequestStatus(r)' = "complete"
    BY <1>0, <1>5 DEF RunEmpty, VerdictInv, RequestStatus, Open, Shapes
  <2> QED
    BY <1>3, <2>1, <2>3, <2>4
<1>6. CASE Run(r)
  <2>1. /\ phase[r] = "idle" /\ verdict[r] = "none" /\ requestState[r] = "complete" /\ ~interrupted[r]
        /\ phase'[r] = "waiting" /\ verdict'[r] = "open"
        /\ requestState' = requestState /\ interrupted' = interrupted
    BY <1>0, <1>6 DEF Run, VerdictInv, OpenInv, Shapes
  <2>2. RequestStatus(r) = "none" /\ RequestStatus(r)' = "open"
    BY <2>1 DEF RequestStatus, Open, Untouched
  <2>3. Told[r] = "none" /\ Told' = [Told EXCEPT ![r] = "open"]
    BY <1>2, <2>2
  <2>4. Bulkhead!Open(r)
    BY <1>1, <2>3 DEF Bulkhead!Open, Shown, Told
  <2> QED
    BY <2>4 DEF Bulkhead!Next
<1>7. CASE Conclude(r)
  <2>1. /\ AllFinished(r) /\ ~interrupted[r] /\ verdict[r] = "open" /\ Open(r)
        /\ phase'[r] = "done" /\ verdict'[r] = Resolved(r)
    BY <1>0, <1>7 DEF Conclude, VerdictInv, Open, Shapes
  <2>2. PICK how \in {"complete", "partial", "timed_out", "cancelled"} :
          /\ how = Resolved(r)
          /\ how \in {"timed_out", "cancelled"} <=> ~Untouched(r)
    BY <1>0, <2>1 DEF Resolved, Untouched, Shapes
  <2>3. /\ RequestStatus(r) = IF how \in {"timed_out", "cancelled"} THEN "stopping" ELSE "open"
        /\ RequestStatus(r)' = how
    BY <2>1, <2>2 DEF RequestStatus, Open
  <2>4. Bulkhead!Truthful(how, {Shown[x] : x \in Bulkhead!WindowsOf(r)})
    BY <1>0, <2>1, <2>2, TellsTheTruth
  <2>5. \A x \in Bulkhead!WindowsOf(r) : Shown[x] # "active"
    BY <1>0, <2>1, EndsQuietly
  <2> QED
    BY <1>3, <2>3, <2>4, <2>5
<1>8. CASE ConcludeInterrupted(r)
  <2>1. /\ AllFinished(r) /\ interrupted[r] /\ Open(r)
        /\ phase'[r] = "done" /\ verdict'[r] = "cancelled"
    BY <1>0, <1>8 DEF ConcludeInterrupted, Open, Shapes
  <2>2. RequestStatus(r) = "stopping" /\ RequestStatus(r)' = "cancelled"
    BY <2>1 DEF RequestStatus, Open, Untouched
  <2>3. Bulkhead!Truthful("cancelled", {Shown[x] : x \in Bulkhead!WindowsOf(r)})
    BY DEF Bulkhead!Truthful
  <2>4. \A x \in Bulkhead!WindowsOf(r) : Shown[x] # "active"
    BY <1>0, <2>1, EndsQuietly
  <2> QED
    BY <1>3, <2>2, <2>3, <2>4
<1>9. CASE WorkersDone(r) \/ FirstStopped(r)
  <2>1. /\ phase[r] \in {"waiting", "stopping"} /\ phase'[r] = "draining"
        /\ requestState' = requestState /\ verdict' = verdict /\ interrupted' = interrupted
    BY <1>0, <1>9 DEF WorkersDone, FirstStopped, Shapes
  <2>2. RequestStatus(r)' = RequestStatus(r)
    BY <2>1 DEF RequestStatus, Open, Untouched
  <2> QED
    BY <1>1, <1>2, <2>2
<1>10. CASE Deadline(r) \/ Cancel(r) \/ CancelStopping(r) \/ CancelDraining(r)
  <2>1. CASE Deadline(r) \/ Cancel(r)
    <3>1. PICK why \in {"timed_out", "cancelled"} : StopsWaiting(r, why)
      BY <2>1 DEF Deadline, Cancel
    <3>2. phase[r] = "waiting" /\ phase'[r] = "stopping" /\ requestState'[r] = why
      BY <1>0, <3>1 DEF StopsWaiting, Shapes
    <3> QED
      BY <1>0, <1>4, <3>2 DEF Open, Untouched, VerdictInv
  <2>2. CASE CancelStopping(r)
    <3>1. phase[r] = "stopping" /\ phase'[r] = "draining" /\ requestState'[r] = "cancelled"
      BY <1>0, <2>2 DEF CancelStopping, Shapes
    <3> QED
      BY <1>0, <1>4, <3>1 DEF Open, Untouched, VerdictInv
  <2>3. CASE CancelDraining(r)
    <3>1. phase[r] = "draining" /\ phase'[r] = "draining" /\ interrupted'[r]
      BY <1>0, <2>3 DEF CancelDraining, Shapes
    <3> QED
      BY <1>0, <1>4, <3>1 DEF Open, Untouched, VerdictInv
  <2> QED
    BY <1>10, <2>1, <2>2, <2>3
<1> QED
  BY <1>5, <1>6, <1>7, <1>8, <1>9, <1>10 DEF RequestStep

LEMMA InitMaps == Init => Bulkhead!Init
<1> SUFFICES ASSUME Init PROVE Bulkhead!Init
  OBVIOUS
<1>1. Shown = [x \in Windows |-> "waiting"]
  BY DEF Init, Shown, WindowStatus
<1>2. Told = [r \in Requests |-> "none"]
  BY DEF Init, Told, RequestStatus, Open
<1> QED
  BY <1>1, <1>2, SameWindows DEF Bulkhead!Init, Shown, Told

LEMMA StepMaps == IInv /\ RefInv /\ RefInv' /\ [Next]_vars => [Bulkhead!Next]_(Bulkhead!vars)
<1> SUFFICES ASSUME IInv, RefInv, RefInv', [Next]_vars
             PROVE  Bulkhead!Next \/ UNCHANGED <<Shown, Told>>
  BY DEF Bulkhead!vars, Shown, Told
<1>1. CASE UNCHANGED vars
  <2>1. UNCHANGED <<result, started, pc, cur, phase, requestState, verdict, interrupted>>
    BY <1>1 DEF vars, runVars, workVars
  <2> QED
    BY <2>1 DEF Shown, WindowStatus, Told, RequestStatus, Open, Untouched
<1> QED
  BY <1>1, WorkerMaps, RequestMaps DEF Next, AllReturned

(* The orchestrator keeps the promise of WindowBulkhead: never more than   *)
(* Limit windows active, each at most once, none when run() returns or     *)
(* raises, and a request state (_resolve_request_state, :173-183) that is  *)
(* true of the windows, whatever the deadline and cancellations do.  Once  *)
(* they have reached a request, no worker of it starts a window or records *)
(* a result any more (the except and finally blocks of run, :104-119).     *)
THEOREM Refinement == Spec => ImplementsBulkhead
<1>1. Spec => []RefInv
  BY InitRefInv, StepRefInv, Invariance, PTL DEF Spec
<1>2. Init => Bulkhead!Init
  BY InitMaps
<1>3. IInv /\ RefInv /\ RefInv' /\ [Next]_vars => [Bulkhead!Next]_(Bulkhead!vars)
  BY StepMaps
<1> QED
  BY <1>1, <1>2, <1>3, Invariance, PTL DEF Spec, Bulkhead!Spec, ImplementsBulkhead
-----------------------------------------------------------------------------
(***************************************************************************)
(* NobodyIsStuck and TurnsAreUsedUp: the safety core of EveryRequestEnds.  *)
(***************************************************************************)

(* A request that nobody stopped only goes on when its workers are done,   *)
(* and only a worker with a turn left carries a CancelledError.            *)
DrainInv == \A r \in Requests : phase[r] = "draining" /\ Untouched(r) => AllFinished(r)
HitInv   == \A w \in Workers : hit[w] => ~Finished(w)
IdleInv  == \A w \in Workers : phase[w[1]] = "idle" => pc[w] = "none"

TurnInv == DrainInv /\ HitInv /\ IdleInv

(* A worker that is cancelled unwinds when it gets its turn. *)
LEMMA HitUnwinds ==
  ASSUME Shapes, OwnInv, NEW w \in Workers, WorkerStep(w), hit[w]
  PROVE  ~hit'[w] /\ pc'[w] = "cancelled"
<1>1. ~hit'[w]
  BY DEF WorkerStep, Begin, BeginEmpty, BeginAdmitted, BeginWaiting, Resume, Finish, FinishLast, FinishAndGoOn,
         FinishAndLineUp, Records, Unwind, UnwindNew, UnwindWaiting, UnwindGranted, UnwindRunning, Shapes
<1>2. pc'[w] = "cancelled"
  BY WorkerKinds DEF Leaves, Queues, Starts, Resumes, Stops, Requeues, GoesOn, Drops
<1> QED
  BY <1>1, <1>2

LEMMA TurnWorker ==
  ASSUME Shapes, OwnInv, OpenInv, TurnInv, NEW w \in Workers, WorkerStep(w)
  PROVE  TurnInv' /\ \A u \in Workers : Finished(u) => Finished(u)'
<1>1. /\ phase' = phase /\ requestState' = requestState /\ interrupted' = interrupted
      /\ \A u \in Workers \ {w} : /\ hit'[u] = hit[u]
                                  /\ pc'[u] = pc[u] \/ (pc[u] = "waiting" /\ pc'[u] = "granted")
      /\ hit'[w] => hit[w]
      /\ Busy(w) \/ pc[w] = "new"
  BY WorkerKinds DEF Busy, Leaves, Queues, Starts, Resumes, Stops, Requeues, GoesOn, Drops, Ends
<1>2. \A u \in Workers : Finished(u) => Finished(u)'
  BY <1>1 DEF Finished, Busy
<1>3. DrainInv'
  BY <1>1, <1>2 DEF TurnInv, DrainInv, Untouched, AllFinished, WorkersOf, Workers
<1>4. HitInv'
  <2>1. ASSUME NEW u \in Workers, hit'[u]
        PROVE  ~Finished(u)'
    <3>1. u # w
      BY <1>1, <2>1, HitUnwinds
    <3> QED
      BY <1>1, <2>1, <3>1 DEF TurnInv, HitInv, Finished
  <2> QED
    BY <2>1 DEF HitInv
<1>5. IdleInv'
  BY <1>1 DEF TurnInv, IdleInv, OpenInv, Open
<1> QED
  BY <1>2, <1>3, <1>4, <1>5 DEF TurnInv

(* What cancels the workers of a request reaches none that has finished.   *)
LEMMA HitsReach ==
  ASSUME Shapes, NEW r \in Requests, RequestStep(r), NEW w \in Workers, hit'[w]
  PROVE  hit[w] \/ (w[1] = r /\ ~Finished(w))
BY DEF RequestStep, RunEmpty, Run, WorkersDone, Deadline, FirstStopped, Conclude, ConcludeInterrupted,
       Cancel, CancelStopping, CancelDraining, StopsWaiting, HitWorkers

(* How a request comes to its last wait, and that it never goes back.      *)
LEMMA PhaseMoves ==
  ASSUME Shapes, UntouchedInv, NEW r \in Requests, RequestStep(r)
  PROVE  /\ phase'[r] # "idle" /\ Rank(phase'[r]) >= Rank(phase[r])
         /\ phase'[r] = "draining" /\ Untouched(r)' => pc' = pc /\ AllFinished(r)
<1>1. CASE RunEmpty(r) \/ Run(r)
  BY <1>1 DEF RunEmpty, Run, Shapes, Rank
<1>2. CASE WorkersDone(r)
  BY <1>2 DEF WorkersDone, Shapes, Rank
<1>3. CASE Deadline(r) \/ Cancel(r)
  BY <1>3 DEF Deadline, Cancel, StopsWaiting, Shapes, Rank
<1>4. CASE FirstStopped(r) \/ CancelStopping(r) \/ CancelDraining(r)
  BY <1>4 DEF FirstStopped, CancelStopping, CancelDraining, Shapes, Rank, UntouchedInv, Untouched
<1>5. CASE Conclude(r) \/ ConcludeInterrupted(r)
  BY <1>5 DEF Conclude, ConcludeInterrupted, Shapes, Rank
<1> QED
  BY <1>1, <1>2, <1>3, <1>4, <1>5 DEF RequestStep

LEMMA TurnRequest ==
  ASSUME Shapes, OpenInv, UntouchedInv, TurnInv, NEW r \in Requests, RequestStep(r)
  PROVE  TurnInv' /\ \A u \in Workers : Finished(u) => Finished(u)'
<1>1. /\ \A w \in Workers : pc'[w] = pc[w] \/ (w[1] = r /\ phase[r] = "idle" /\ ~Busy(w) /\ pc'[w] = "new")
      /\ \A q \in Requests \ {r} : /\ phase'[q] = phase[q] /\ requestState'[q] = requestState[q]
                                   /\ interrupted'[q] = interrupted[q]
      /\ phase'[r] # "idle"
  BY RequestKeeps, PhaseMoves
<1>2. \A u \in Workers : Finished(u) => Finished(u)'
  BY <1>1 DEF Finished, TurnInv, IdleInv
<1>3. ASSUME NEW q \in Requests, phase'[q] = "draining", Untouched(q)'
      PROVE  AllFinished(q)'
  <2>1. CASE q = r
    BY <1>3, <2>1, PhaseMoves DEF AllFinished, Finished
  <2>2. CASE q # r
    BY <1>1, <1>2, <1>3, <2>2 DEF TurnInv, DrainInv, Untouched, AllFinished, WorkersOf, Workers
  <2> QED
    BY <2>1, <2>2
<1>4. ASSUME NEW w \in Workers, hit'[w]
      PROVE  ~Finished(w)'
  BY <1>1, <1>4, HitsReach DEF TurnInv, HitInv, Finished
<1>5. ASSUME NEW w \in Workers, phase'[w[1]] = "idle"
      PROVE  pc'[w] = "none"
  BY <1>1, <1>5, WorkerNames DEF TurnInv, IdleInv
<1> QED
  BY <1>2, <1>3, <1>4, <1>5 DEF TurnInv, DrainInv, HitInv, IdleInv

LEMMA StepTurnInv == IInv /\ RefInv /\ TurnInv /\ [Next]_vars => TurnInv'
<1> SUFFICES ASSUME IInv, RefInv, TurnInv, [Next]_vars
             PROVE  TurnInv'
  OBVIOUS
<1>1. CASE UNCHANGED vars
  <2>1. UNCHANGED <<phase, requestState, interrupted, pc, hit>>
    BY <1>1 DEF vars, runVars
  <2> QED
    BY <2>1 DEF TurnInv, DrainInv, HitInv, IdleInv, Untouched, AllFinished, Finished
<1> QED
  BY <1>1, TurnWorker, TurnRequest DEF IInv, RefInv, Next, AllReturned

LEMMA TurnsStand == Spec => [](IInv /\ RefInv /\ TurnInv)
<1>1. Init => TurnInv
  BY WorkerNames DEF Init, TurnInv, DrainInv, HitInv, IdleInv
<1> QED
  BY <1>1, InitRefInv, StepRefInv, StepTurnInv, Invariance, PTL DEF Spec

(* An open request has a turn, or one of its workers has.                  *)
LEMMA OpenHasTurn ==
  ASSUME Shapes, LineInv, RefInv, TurnInv, NEW r \in Requests, Open(r)
  PROVE  RequestHasTurn(r) \/ \E w \in WorkersOf(r) : WorkerHasTurn(w)
<1>1. phase[r] \in {"waiting", "stopping", "draining"}
  BY DEF Shapes, Phases, Open
<1>2. CASE AllFinished(r)
  BY <1>1, <1>2 DEF RequestHasTurn
<1>3. CASE \E w \in WorkersOf(r) : pc[w] = "new"
  BY <1>3 DEF WorkerHasTurn
<1>4. CASE phase[r] = "waiting" /\ \A w \in WorkersOf(r) : pc[w] # "new"
  BY <1>4 DEF RequestHasTurn
<1>5. CASE ~AllFinished(r) /\ phase[r] # "waiting"
  <2>1. PICK w \in WorkersOf(r) : ~Finished(w)
    BY <1>5 DEF AllFinished
  <2>2. w \in Workers /\ w[1] = r
    BY <2>1 DEF Workers, WorkersOf
  <2>3. ~Untouched(r)
    BY <1>1, <1>5 DEF RefInv, UntouchedInv, TurnInv, DrainInv
  <2>4. hit[w]
    BY <2>1, <2>2, <2>3 DEF RefInv, StoppedInv
  <2>5. pc[w] # "none"
    BY <2>2, <1>1 DEF RefInv, VerdictInv
  <2>6. pc[w] \in {"new", "running"} \/ InLine(w)
    BY <2>1, <2>2, <2>5 DEF Finished, InLine, Shapes, WorkerPcs
  <2>7. WorkerHasTurn(w)
    BY <2>2, <2>4, <2>6 DEF WorkerHasTurn, LineInv, StandsIn, InLine
  <2> QED
    BY <2>7
<1> QED
  BY <1>2, <1>3, <1>4, <1>5

LEMMA AllReturnedAllFree ==
  ASSUME IInv, \A r \in Requests : ~Open(r)
  PROVE  free = Limit /\ activeGauge = 0
<1>1. \A w \in Workers : ~Busy(w)
  BY WorkerNames DEF IInv, OpenInv
<1>2. Holding = {} /\ Running = {}
  BY <1>1 DEF Holding, Running, Busy
<1>3. free + 0 = Limit /\ activeGauge = 0
  BY <1>2, FS_EmptySet DEF IInv, PermitsConserved
<1> QED
  BY <1>3 DEF IInv, Shapes

(* No request waits for an operation, a permit or another request: until   *)
(* run() is over, it or one of its workers has a turn that the loop owes   *)
(* (the deadline of _wait_for_workers, :147-156, is one), and after the    *)
(* last run() every permit is back.  Fairness then leaves no request open  *)
(* for ever, if no turn is taken endlessly, which is TurnsAreUsedUp.       *)
THEOREM NobodyIsStuckHolds == Spec => []NobodyIsStuck
<1>1. Init => LineInv /\ NoLostWakeup
  BY WorkerNames DEF Init, LineInv, NoLostWakeup, Pending
<1>2. Spec => []LineInv
  BY <1>1, Invariance, StepWake, PTL DEF Spec
<1>3. IInv /\ RefInv /\ TurnInv /\ LineInv => NobodyIsStuck
  BY OpenHasTurn, AllReturnedAllFree DEF NobodyIsStuck, IInv
<1> QED
  BY <1>2, <1>3, TurnsStand, PTL

LEMMA TurnsUsed ==
  ASSUME IInv, RefInv, TurnInv, [Next]_vars
  PROVE  TurnUsed
<1>0. /\ Shapes /\ OwnInv /\ OpenInv /\ UntouchedInv
      /\ \A r \in Requests : Rank(phase[r]) >= Rank(phase[r])
  <2>1. \A p \in Phases : Rank(p) \in Nat
    BY DEF Phases, Rank
  <2>2. \A r \in Requests : phase[r] \in Phases
    BY DEF IInv, Shapes
  <2> QED
    BY <2>1, <2>2 DEF IInv, RefInv
<1>1. CASE UNCHANGED vars
  <2>1. UNCHANGED <<phase, pc, hit, cur>>
    BY <1>1 DEF vars, runVars, workVars
  <2> QED
    BY <1>0, <2>1 DEF TurnUsed, Finished, TurnInv, HitInv
<1>2. ASSUME NEW u \in Workers, WorkerStep(u)
      PROVE  TurnUsed
  <2>1. /\ phase' = phase
        /\ \A w \in Workers \ {u} : /\ cur'[w] = cur[w] /\ hit'[w] = hit[w]
                                    /\ pc'[w] = pc[w] \/ (pc[w] = "waiting" /\ pc'[w] = "granted")
    BY <1>0, <1>2, WorkerKinds
  <2>2. TurnInv' /\ \A w \in Workers : Finished(w) => Finished(w)'
    BY <1>0, <1>2, TurnWorker
  <2>3. hit[u] => pc'[u] = "cancelled"
    BY <1>0, <1>2, HitUnwinds
  <2> QED
    BY <1>0, <2>1, <2>2, <2>3 DEF TurnUsed, TurnInv, HitInv
<1>3. ASSUME NEW r \in Requests, RequestStep(r)
      PROVE  TurnUsed
  <2>1. TurnInv' /\ \A w \in Workers : Finished(w) => Finished(w)'
    BY <1>0, <1>3, TurnRequest
  <2>2. /\ \A w \in Workers : hit[w] => hit'[w] /\ cur'[w] = cur[w]
        /\ \A q \in Requests \ {r} : phase'[q] = phase[q]
    BY <1>0, <1>3, RequestKeeps DEF Still
  <2>3. Rank(phase'[r]) >= Rank(phase[r])
    BY <1>0, <1>3, PhaseMoves
  <2> QED
    BY <1>0, <2>1, <2>2, <2>3 DEF TurnUsed, TurnInv, HitInv
<1> QED
  BY <1>1, <1>2, <1>3 DEF Next, AllReturned

(* A worker whose task was cancelled does nothing any more but unwind (the *)
(* CancelledError of execute, :40-56), no worker that has ended runs again *)
(* and no request goes back to an earlier wait of run (:104-119).          *)
THEOREM TurnsAreUsedUpHolds == Spec => TurnsAreUsedUp
<1>1. IInv /\ RefInv /\ TurnInv /\ [Next]_vars => [TurnUsed]_vars
  BY TurnsUsed
<1> QED
  BY <1>1, TurnsStand, PTL DEF Spec, TurnsAreUsedUp
=============================================================================
