------------------------- MODULE PerformanceProofs -------------------------
(***************************************************************************)
(* Proofs about BenchmarkAssignment, for any requests, number of fetches   *)
(* and history of the assignment, and about EvidenceCompletion, for any    *)
(* calculations and number of polls.                                       *)
(***************************************************************************)
EXTENDS BenchmarkAssignmentProperties, EvidenceCompletionProperties, TLAPS

Waits(r) == call[r].phase \in {"waiting", "refreshing"}

\* An answered fetch has a result; a fetch that a request awaits had not
\* ended when the request began.
FetchInv ==
  /\ \A f \in Fetches : fetch[f].phase = "answered" => fetch[f].kind \in Kinds
  /\ \A r \in Requests : Waits(r) => call[r].fetch \in Fetches /\ call[r].fetch \notin before[r]
  /\ \A r \in Requests : before[r] \subseteq Ended

\* What a request was given is the result of a fetch that has ended.
AnswerInv ==
  \A r \in Requests :
     /\ call[r].phase # "done" => answer[r] = NoAnswer
     /\ call[r].phase = "done" =>
          /\ answer[r].from \in Fetches
          /\ fetch[answer[r].from].phase = "ended"
          /\ fetch[answer[r].from].kind = answer[r].kind
          /\ answer[r].kind \in Kinds

\* A refresh is nobody else's; what ends a fill that is awaited is a result.
SharedInv ==
  /\ \A r \in Requests : call[r].phase = "refreshing" =>
       /\ inflight # call[r].fetch
       /\ \A q \in Requests : q # r /\ Waits(q) => call[q].fetch # call[r].fetch
  /\ \A r \in Requests : call[r].phase = "waiting" /\ fetch[call[r].fetch].phase = "ended" =>
       fetch[call[r].fetch].kind \in Kinds

\* No revision comes from the future; a fill that may still be stored is
\* not answered before the latest revision that the cache has held.
FillInv ==
  /\ newest <= revision
  /\ \A f \in Fetches : fetch[f].revision <= revision
  /\ inflight # Nothing /\ fetch[inflight].phase = "answered" =>
       fetch[inflight].revision >= newest

IInv ==
  TypeOK /\ FetchInv /\ AnswerInv /\ AbsenceIsNotCached /\ FailureIsTold /\ FillInv /\ SharedInv

-----------------------------------------------------------------------------
\* The invariant holds initially.
LEMMA InitIInv == Init => IInv
  BY BenchmarkAssumption
  DEF Init, IInv, TypeOK, FetchInv, AnswerInv, AbsenceIsNotCached, FailureIsTold, FillInv, SharedInv,
      Revisions, Fetches, FreeFetch, NoAnswer, Kinds, Waits, Ended

\* A step that ends no fetch, asks for none and gives no answer.
LEMMA StutterIInv == IInv /\ UNCHANGED vars => IInv'
  BY DEF IInv, TypeOK, FetchInv, AnswerInv, AbsenceIsNotCached, FailureIsTold, FillInv, SharedInv, vars,
      Revisions, Fetches, Kinds, Waits, Ended, Failed, NoAnswer

LEMMA ReassignIInv == IInv /\ Reassign => IInv'
  BY BenchmarkAssumption
  DEF Reassign, IInv, TypeOK, FetchInv, AnswerInv, AbsenceIsNotCached, FailureIsTold, FillInv, SharedInv,
      Revisions, Fetches, Kinds, Waits, Ended, Failed, NoAnswer

LEMMA ExpireIInv == IInv /\ Expire => IInv'
  BY DEF Expire, IInv, TypeOK, FetchInv, AnswerInv, AbsenceIsNotCached, FailureIsTold, FillInv, SharedInv,
      Revisions, Fetches, Kinds, Waits, Ended, Failed, NoAnswer

LEMMA AnswerIInv ==
  ASSUME NEW f \in Fetches, IInv, Answer(f) PROVE IInv'
  BY BenchmarkAssumption
  DEF Answer, IInv, TypeOK, FetchInv, AnswerInv, AbsenceIsNotCached, FailureIsTold, FillInv, SharedInv,
      Revisions, Fetches, Kinds, Waits, Ended, Failed, NoAnswer
-----------------------------------------------------------------------------
\* What the helpers of the actions do, fetch by fetch and request by request.

FetchPhases == {"free", "asked", "answered", "ended"}
CallPhases  == {"idle", "waiting", "refreshing", "done", "cancelled"}
FetchType   == [phase : FetchPhases, kind : Kinds \cup {"none"}, revision : Revisions]
CallType    == [phase : CallPhases, fetch : Fetches \cup {Nothing}]
AnswerType  == [kind : Kinds \cup {"none"}, told : BOOLEAN, from : Fetches \cup {Nothing}]

\* Only the phase of f changes, to p.
Moves(f, p) ==
  /\ fetch' \in [Fetches -> FetchType]
  /\ \A g \in Fetches : g # f => fetch'[g] = fetch[g]
  /\ fetch'[f].phase = p /\ fetch'[f].kind = fetch[f].kind /\ fetch'[f].revision = fetch[f].revision

LEMMA PhaseMoves ==
  ASSUME TypeOK, NEW f \in Fetches, NEW p \in FetchPhases, fetch' = [fetch EXCEPT ![f].phase = p]
  PROVE  Moves(f, p)
<1> DEFINE rec == [fetch[f] EXCEPT !.phase = p]
<1>1. fetch \in [Fetches -> FetchType] /\ fetch[f] \in FetchType
  BY DEF TypeOK, FetchType, FetchPhases
<1>2. rec \in FetchType /\ rec.phase = p /\ rec.kind = fetch[f].kind /\ rec.revision = fetch[f].revision
  BY <1>1 DEF FetchType
<1>3. fetch' = [fetch EXCEPT ![f] = rec]
  OBVIOUS
<1> HIDE DEF rec
<1> QED  BY <1>1, <1>2, <1>3 DEF Moves

\* Only the call of r changes: it is in phase p and awaits f.
Calls(r, p, f) ==
  /\ call' \in [Requests -> CallType]
  /\ \A q \in Requests : q # r => call'[q] = call[q]
  /\ call'[r].phase = p /\ call'[r].fetch = f

LEMMA CallMoves ==
  ASSUME TypeOK, NEW r \in Requests, NEW p \in CallPhases, NEW f \in Fetches \cup {Nothing},
         call' = [call EXCEPT ![r] = [phase |-> p, fetch |-> f]]
  PROVE  Calls(r, p, f)
  BY DEF TypeOK, Calls, CallType, CallPhases

\* Only the answer of r changes: it is the result of f.
Answers(r, f, told) ==
  /\ answer' \in [Requests -> AnswerType]
  /\ \A q \in Requests : q # r => answer'[q] = answer[q]
  /\ answer'[r].kind = fetch[f].kind /\ answer'[r].told = told /\ answer'[r].from = f

LEMMA GetsMoves ==
  ASSUME TypeOK, NEW r \in Requests, NEW f \in Fetches, NEW told \in BOOLEAN, Gets(r, f, told)
  PROVE  Calls(r, "done", Nothing) /\ Answers(r, f, told)
<1>1. Calls(r, "done", Nothing)
  BY CallMoves DEF Gets, CallPhases
<1>2. fetch[f].kind \in Kinds \cup {"none"}
  BY DEF TypeOK
<1>3. [kind |-> fetch[f].kind, told |-> told, from |-> f] \in AnswerType
  BY <1>2 DEF AnswerType
<1>4. Answers(r, f, told)
  BY <1>3 DEF Gets, Answers, TypeOK, AnswerType
<1> QED  BY <1>1, <1>4

\* A request that begins has met the fetches that have ended.
LEMMA BeginMoves ==
  ASSUME TypeOK, NEW r \in Requests, Begins(r)
  PROVE  /\ before' \in [Requests -> SUBSET Fetches]
         /\ \A q \in Requests : q # r => before'[q] = before[q]
         /\ before'[r] = Ended
  BY DEF TypeOK, Begins, Ended
-----------------------------------------------------------------------------
\* No fetch starts again, loses its result or gets one.
Grows ==
  /\ fetch' \in [Fetches -> FetchType]
  /\ \A g \in Fetches :
       /\ fetch'[g].kind = fetch[g].kind /\ fetch'[g].revision = fetch[g].revision
       /\ fetch[g].phase = "ended" => fetch'[g].phase = "ended"
       /\ fetch[g].phase # "free" => fetch'[g].phase # "free"
       /\ fetch'[g].phase = "answered" => fetch[g].phase = "answered"

LEMMA MovesGrow ==
  ASSUME IInv, NEW f \in Fetches, NEW p \in {"asked", "ended"}, Moves(f, p),
         p = "asked" => fetch[f].phase = "free"
  PROVE  Grows
  BY DEF Moves, Grows

LEMMA SameGrows == IInv /\ fetch' = fetch => Grows
  BY DEF Grows, IInv, TypeOK, FetchType, FetchPhases

\* Only r is served: it goes on to wait, or it is given the result of a
\* fetch that has ended.
Others(r) ==
  /\ call' \in [Requests -> CallType]
  /\ answer' \in [Requests -> AnswerType]
  /\ before' \in [Requests -> SUBSET Fetches]
  /\ \A q \in Requests : q # r => call'[q] = call[q] /\ answer'[q] = answer[q] /\ before'[q] = before[q]

Given(r, f) ==
  /\ f \in Fetches
  /\ fetch'[f].phase = "ended"
  /\ fetch[f].kind \in Kinds
  /\ fetch[f].kind # "code" => f \notin before'[r]
  /\ answer'[r].from = f /\ answer'[r].kind = fetch[f].kind /\ (answer'[r].told <=> Failed(f))

Served(r) ==
  /\ before'[r] \subseteq Ended'
  /\ \/ call'[r].phase = "done" /\ \E f \in Fetches : Given(r, f)
     \/ /\ call'[r].phase # "done" /\ answer'[r] = NoAnswer
        /\ call'[r].phase \in {"waiting", "refreshing"} =>
             /\ call'[r].fetch \in Fetches /\ call'[r].fetch \notin before'[r]
             /\ fetch'[call'[r].fetch].phase # "free"

\* The part of the invariant that is about requests.
RequestInv == FetchInv /\ AnswerInv /\ AbsenceIsNotCached /\ FailureIsTold

LEMMA ServedRequestInv ==
  ASSUME IInv, NEW r \in Requests, Grows, Others(r), Served(r)
  PROVE  RequestInv' /\ \A q \in Requests : Waits(q)' => fetch'[call'[q].fetch].phase # "free"
<1>1. \A f \in Fetches : fetch'[f].phase = "answered" => fetch'[f].kind \in Kinds
  BY DEF IInv, FetchInv, Grows
<1>2. \A f \in Fetches : Failed(f)' <=> Failed(f)
  BY DEF Grows, Failed
<1>3. ASSUME NEW q \in Requests, q # r
      PROVE  /\ Waits(q)' => /\ call'[q].fetch \in Fetches /\ call'[q].fetch \notin before'[q]
                             /\ fetch'[call'[q].fetch].phase # "free"
             /\ before'[q] \subseteq Ended'
  <2>1. call'[q] = call[q] /\ answer'[q] = answer[q] /\ before'[q] = before[q]
    BY <1>3 DEF Others
  <2>2. Ended \subseteq Ended'
    BY DEF Grows, Ended
  <2> QED  BY <2>1, <2>2 DEF IInv, TypeOK, FetchInv, Waits, Grows
<1>4. ASSUME NEW q \in Requests, q # r
      PROVE  /\ call'[q].phase # "done" => answer'[q] = NoAnswer
             /\ call'[q].phase = "done" =>
                  /\ answer'[q].from \in Fetches /\ fetch'[answer'[q].from].phase = "ended"
                  /\ fetch'[answer'[q].from].kind = answer'[q].kind /\ answer'[q].kind \in Kinds
             /\ answer'[q].kind \in Kinds \ {"code"} => answer'[q].from \notin before'[q]
  <2>1. call'[q] = call[q] /\ answer'[q] = answer[q] /\ before'[q] = before[q]
    BY <1>4 DEF Others
  <2> QED  BY <2>1 DEF IInv, AnswerInv, AbsenceIsNotCached, Grows
<1>5. ASSUME NEW q \in Requests, q # r, call'[q].phase = "done"
      PROVE  answer'[q].told <=> fetch'[answer'[q].from].kind \in {"failed", "raised"}
  <2>1. call'[q] = call[q] /\ answer'[q] = answer[q]
    BY <1>5 DEF Others
  <2>2. answer[q].from \in Fetches
    BY <1>5, <2>1 DEF IInv, AnswerInv
  <2>3. answer[q].told <=> Failed(answer[q].from)
    BY <1>5, <2>1 DEF IInv, FailureIsTold
  <2>4. fetch'[answer[q].from].kind = fetch[answer[q].from].kind
    BY <2>2 DEF Grows
  <2> QED  BY <2>1, <2>3, <2>4 DEF Failed
<1>6. CASE call'[r].phase = "done"
  <2>1. PICK f \in Fetches : Given(r, f)
    BY <1>6 DEF Served
  <2>2. answer'[r].told <=> Failed(f)'
    BY <1>2, <2>1 DEF Given
  <2>3. FetchInv' /\ \A q \in Requests : Waits(q)' => fetch'[call'[q].fetch].phase # "free"
    BY <1>1, <1>3, <1>6 DEF FetchInv, Waits, Served
  <2>4. fetch'[f].kind = fetch[f].kind
    BY DEF Grows
  <2>5. AnswerInv' /\ AbsenceIsNotCached'
    BY <1>4, <1>6, <2>1, <2>4 DEF AnswerInv, AbsenceIsNotCached, Given
  <2>6. answer'[r].from = f
    BY <2>1 DEF Given
  <2>7. FailureIsTold'
    BY <1>5, <2>2, <2>6 DEF FailureIsTold, Failed
  <2> QED  BY <2>3, <2>5, <2>7 DEF RequestInv
<1>7. CASE call'[r].phase # "done"
  <2>1. FetchInv' /\ \A q \in Requests : Waits(q)' => fetch'[call'[q].fetch].phase # "free"
    BY <1>1, <1>3, <1>7 DEF FetchInv, Waits, Served
  <2>2. answer'[r] = NoAnswer /\ answer'[r].kind \notin Kinds
    BY <1>7 DEF Served, NoAnswer, Kinds
  <2>3. AnswerInv'
    BY <1>4, <1>7, <2>2 DEF AnswerInv, NoAnswer
  <2>4. AbsenceIsNotCached'
    BY <1>4, <2>2 DEF AbsenceIsNotCached
  <2>5. FailureIsTold'
    BY <1>5, <1>7 DEF FailureIsTold, Failed
  <2> QED  BY <2>1, <2>3, <2>4, <2>5 DEF RequestInv
<1> QED  BY <1>6, <1>7

\* The part of the invariant that is about the cache.
CacheInv ==
  /\ revision \in Revisions /\ newest \in Revisions
  /\ entry \in Fetches \cup {Nothing}
  /\ entry # Nothing => fetch[entry].phase = "ended" /\ fetch[entry].kind \in Kinds \ {"raised"}
  /\ inflight \in Fetches \cup {Nothing}
  /\ inflight # Nothing => fetch[inflight].phase \in {"asked", "answered"}
  /\ FillInv

LEMMA ServedIInv ==
  ASSUME IInv, NEW r \in Requests, Grows, Others(r), Served(r), CacheInv', SharedInv'
  PROVE  IInv'
<1>1. RequestInv' /\ \A q \in Requests : Waits(q)' => fetch'[call'[q].fetch].phase # "free"
  BY ServedRequestInv
<1>2. TypeOK'
  BY <1>1 DEF TypeOK, CacheInv, Others, Grows, Waits, FetchType, FetchPhases, CallType,
              CallPhases, AnswerType
<1> QED  BY <1>1, <1>2 DEF IInv, RequestInv, CacheInv

\* What keeps fetches apart when the call of r changes: r waits for a fetch
\* that is new or in flight, refreshes with a new one, or is done.
LEMMA CallsShared ==
  ASSUME IInv, NEW r \in Requests, NEW p \in CallPhases, NEW f \in Fetches \cup {Nothing},
         Calls(r, p, f), Grows,
         \/ inflight' \in {inflight, Nothing}
         \/ inflight' \in Fetches /\ fetch[inflight'].phase = "free",
         p = "refreshing" => f \in Fetches /\ fetch[f].phase = "free" /\ inflight' = Nothing,
         p = "waiting" => /\ f \in Fetches /\ fetch'[f].phase # "ended"
                          /\ fetch[f].phase = "free" \/ f = inflight,
         \A g \in Fetches : fetch'[g].phase = "ended" /\ fetch[g].phase # "ended" =>
            call[r].phase = "refreshing" /\ call[r].fetch = g
  PROVE  SharedInv'
<1>1. ASSUME NEW q \in Requests, q # r
      PROVE  call'[q] = call[q] /\ (Waits(q)' <=> Waits(q))
  BY <1>1 DEF Calls, Waits
<1>2. \A q \in Requests : Waits(q) => call[q].fetch \in Fetches /\ fetch[call[q].fetch].phase # "free"
  BY DEF IInv, FetchInv, TypeOK, Waits
<1>3. ASSUME NEW q \in Requests, q # r, Waits(q), call[q].phase = "refreshing"
      PROVE  inflight' # call[q].fetch
  BY <1>2, <1>3, BenchmarkAssumption DEF IInv, SharedInv, Fetches
<1>4. ASSUME NEW q \in Requests, q # r, call[q].phase = "refreshing", p \in {"waiting", "refreshing"}
      PROVE  f # call[q].fetch
  BY <1>2, <1>4 DEF IInv, SharedInv, Waits
<1>5. ASSUME NEW q \in Requests, q # r, Waits(q), p = "refreshing"
      PROVE  f # call[q].fetch
  BY <1>2, <1>5
<1>6. ASSUME NEW q \in Requests, call'[q].phase = "refreshing"
      PROVE  /\ inflight' # call'[q].fetch
             /\ \A o \in Requests : o # q /\ Waits(o)' => call'[o].fetch # call'[q].fetch
  <2>1. CASE q = r
    <3>1. p = "refreshing" /\ call'[q].fetch = f
      BY <1>6, <2>1 DEF Calls
    <3>2. inflight' # f
      BY <3>1, BenchmarkAssumption DEF Fetches
    <3> QED  BY <1>1, <1>5, <2>1, <3>1, <3>2
  <2>2. CASE q # r
    <3>1. call'[q] = call[q] /\ Waits(q) /\ call[q].phase = "refreshing"
      BY <1>1, <1>6, <2>2 DEF Waits
    <3>2. \A o \in Requests : o # q /\ o # r /\ Waits(o) => call[o].fetch # call[q].fetch
      BY <3>1 DEF IInv, SharedInv
    <3>3. Waits(r)' => call'[r].fetch # call[q].fetch
      BY <1>4, <2>2, <3>1 DEF Calls, Waits
    <3> QED  BY <1>1, <1>3, <2>2, <3>1, <3>2, <3>3
  <2> QED  BY <2>1, <2>2
<1>7. ASSUME NEW q \in Requests, call'[q].phase = "waiting", fetch'[call'[q].fetch].phase = "ended"
      PROVE  fetch'[call'[q].fetch].kind \in Kinds
  <2>1. CASE q = r
    BY <1>7, <2>1 DEF Calls
  <2>2. CASE q # r
    <3>1. call'[q] = call[q] /\ Waits(q) /\ call[q].fetch \in Fetches
      BY <1>1, <1>2, <1>7, <2>2 DEF Waits
    <3>2. fetch[call[q].fetch].phase = "ended"
      BY <1>7, <2>2, <3>1 DEF IInv, SharedInv, Waits
    <3>3. fetch[call[q].fetch].kind \in Kinds
      BY <1>7, <3>1, <3>2 DEF IInv, SharedInv
    <3> QED  BY <3>1, <3>3 DEF Grows
  <2> QED  BY <2>1, <2>2
<1> QED  BY <1>6, <1>7 DEF SharedInv
-----------------------------------------------------------------------------
\* Each action of a request preserves the invariant.

LEMMA HitCodeIInv ==
  ASSUME NEW r \in Requests, IInv, HitCode(r) PROVE IInv'
<1>1. /\ entry \in Fetches /\ fetch[entry].phase = "ended" /\ fetch[entry].kind = "code"
      /\ UNCHANGED <<revision, fetch, entry, inflight, newest>>
  BY BenchmarkAssumption DEF IInv, TypeOK, HitCode, Begins
<1>2. Calls(r, "done", Nothing) /\ Answers(r, entry, FALSE)
  BY <1>1, GetsMoves DEF IInv, HitCode
<1>3. /\ before' \in [Requests -> SUBSET Fetches]
      /\ \A q \in Requests : q # r => before'[q] = before[q]
      /\ before'[r] = Ended
  BY BeginMoves DEF IInv, HitCode
<1>4. Grows
  BY <1>1, SameGrows
<1>5. Others(r)
  BY <1>2, <1>3 DEF Others, Calls, Answers
<1>6. ~Failed(entry)
  BY <1>1 DEF Failed
<1>7. Given(r, entry)
  BY <1>1, <1>2, <1>6 DEF Given, Answers, Kinds
<1>8. Served(r)
  BY <1>1, <1>2, <1>3, <1>7 DEF Served, Calls, Ended
<1>20. CacheInv'
  BY <1>1, BenchmarkAssumption DEF CacheInv, IInv, TypeOK, FillInv, Moves, Revisions, Kinds
<1>21. SharedInv'
  BY <1>1, <1>2, <1>4, CallsShared DEF CallPhases, Moves
<1> QED  BY <1>4, <1>5, <1>8, <1>20, <1>21, ServedIInv

LEMMA HitMissingIInv ==
  ASSUME NEW r \in Requests, IInv, HitMissing(r) PROVE IInv'
<1>1. PICK f \in Fetches : Ask(f) /\ Awaits(r, "refreshing", f)
  BY DEF HitMissing
<1>2. /\ fetch[f].phase = "free" /\ call[r].phase = "idle"
      /\ entry' = Nothing /\ inflight' = Nothing
      /\ UNCHANGED <<revision, newest, answer>>
  BY <1>1 DEF HitMissing, Begins, Ask, Discard, Fetches
<1>3. Moves(f, "asked")
  BY <1>1, PhaseMoves DEF IInv, Ask, FetchPhases
<1>4. Calls(r, "refreshing", f)
  BY <1>1, CallMoves DEF IInv, Awaits, CallPhases
<1>5. /\ before' \in [Requests -> SUBSET Fetches]
      /\ \A q \in Requests : q # r => before'[q] = before[q]
      /\ before'[r] = Ended
  BY BeginMoves DEF IInv, HitMissing
<1>6. Grows
  BY <1>2, <1>3, MovesGrow
<1>7. Others(r)
  BY <1>2, <1>4, <1>5 DEF Others, Calls, IInv, TypeOK, CallType, CallPhases, AnswerType
<1>8. Ended \subseteq Ended'
  BY <1>6 DEF Grows, Ended
<1>9. f \notin Ended
  BY <1>2 DEF Ended
<1>10. answer'[r] = NoAnswer
  BY <1>2 DEF IInv, AnswerInv
<1>11. Served(r)
  BY <1>3, <1>4, <1>5, <1>8, <1>9, <1>10 DEF Served, Calls, Moves
<1>20. CacheInv'
  BY <1>2, <1>3, BenchmarkAssumption DEF CacheInv, IInv, TypeOK, FillInv, Moves, Revisions, Kinds
<1>21. SharedInv'
  BY <1>2, <1>3, <1>4, <1>6, CallsShared DEF CallPhases, Moves
<1> QED  BY <1>6, <1>7, <1>11, <1>20, <1>21, ServedIInv

LEMMA StartFillIInv ==
  ASSUME NEW r \in Requests, IInv, StartFill(r) PROVE IInv'
<1>1. PICK f \in Fetches : Ask(f) /\ Awaits(r, "waiting", f) /\ inflight' = f
  BY DEF StartFill
<1>2. /\ fetch[f].phase = "free" /\ call[r].phase = "idle"
      /\ entry' = Nothing /\ inflight' = f
      /\ UNCHANGED <<revision, newest, answer>>
  BY <1>1 DEF StartFill, Begins, Ask, Discard, Fetches
<1>3. Moves(f, "asked")
  BY <1>1, PhaseMoves DEF IInv, Ask, FetchPhases
<1>4. Calls(r, "waiting", f)
  BY <1>1, CallMoves DEF IInv, Awaits, CallPhases
<1>5. /\ before' \in [Requests -> SUBSET Fetches]
      /\ \A q \in Requests : q # r => before'[q] = before[q]
      /\ before'[r] = Ended
  BY BeginMoves DEF IInv, StartFill
<1>6. Grows
  BY <1>2, <1>3, MovesGrow
<1>7. Others(r)
  BY <1>2, <1>4, <1>5 DEF Others, Calls, IInv, TypeOK, CallType, CallPhases, AnswerType
<1>8. Ended \subseteq Ended'
  BY <1>6 DEF Grows, Ended
<1>9. f \notin Ended
  BY <1>2 DEF Ended
<1>10. answer'[r] = NoAnswer
  BY <1>2 DEF IInv, AnswerInv
<1>11. Served(r)
  BY <1>3, <1>4, <1>5, <1>8, <1>9, <1>10 DEF Served, Calls, Moves
<1>20. CacheInv'
  BY <1>2, <1>3, BenchmarkAssumption DEF CacheInv, IInv, TypeOK, FillInv, Moves, Revisions, Kinds
<1>21. SharedInv'
  BY <1>2, <1>3, <1>4, <1>6, CallsShared DEF CallPhases, Moves
<1> QED  BY <1>6, <1>7, <1>11, <1>20, <1>21, ServedIInv

LEMMA JoinIInv ==
  ASSUME NEW r \in Requests, IInv, Join(r) PROVE IInv'
<1>1. /\ inflight \in Fetches /\ fetch[inflight].phase \in {"asked", "answered"}
      /\ call[r].phase = "idle"
      /\ UNCHANGED <<revision, fetch, entry, inflight, newest, answer>>
  BY BenchmarkAssumption DEF IInv, TypeOK, Join, Begins
<1>2. Calls(r, "waiting", inflight)
  BY <1>1, CallMoves DEF IInv, Join, Awaits, CallPhases
<1>3. /\ before' \in [Requests -> SUBSET Fetches]
      /\ \A q \in Requests : q # r => before'[q] = before[q]
      /\ before'[r] = Ended
  BY BeginMoves DEF IInv, Join
<1>4. Grows
  BY <1>1, SameGrows
<1>5. Others(r)
  BY <1>1, <1>2, <1>3 DEF Others, Calls, IInv, TypeOK, CallType, CallPhases, AnswerType
<1>6. answer'[r] = NoAnswer
  BY <1>1 DEF IInv, AnswerInv
<1>7. Served(r)
  BY <1>1, <1>2, <1>3, <1>6 DEF Served, Calls, Ended
<1>20. CacheInv'
  BY <1>1, BenchmarkAssumption DEF CacheInv, IInv, TypeOK, FillInv, Moves, Revisions, Kinds
<1>21. SharedInv'
  BY <1>1, <1>2, <1>4, CallsShared DEF CallPhases, Moves
<1> QED  BY <1>4, <1>5, <1>7, <1>20, <1>21, ServedIInv

LEMMA ResumeIInv ==
  ASSUME NEW r \in Requests, IInv, Resume(r) PROVE IInv'
<1> DEFINE f == call[r].fetch
<1>1. /\ f \in Fetches /\ f \notin before[r] /\ fetch[f].phase = "ended"
      /\ UNCHANGED <<revision, fetch, before, newest>>
  BY DEF IInv, FetchInv, Waits, Resume
<1>2. fetch[f].kind \in Kinds
  BY <1>1 DEF IInv, SharedInv, Resume
<1>3. Failed(f) \in BOOLEAN
  BY DEF Failed
<1>4. Calls(r, "done", Nothing) /\ Answers(r, f, Failed(f))
  BY <1>1, <1>3, GetsMoves DEF IInv, Resume
<1>5. \/ entry' = Nothing /\ inflight' = Nothing
      \/ entry' = entry /\ inflight' = inflight
  BY DEF Resume, Discard
<1> HIDE DEF f
<1>7. Grows
  BY <1>1, SameGrows
<1>8. Others(r)
  BY <1>1, <1>4 DEF Others, Calls, Answers, IInv, TypeOK
<1>9. Given(r, f)
  BY <1>1, <1>2, <1>4 DEF Given, Answers, Moves
<1>10. before'[r] \subseteq Ended'
  BY <1>1, <1>7 DEF IInv, FetchInv, Grows, Ended
<1>11. Served(r)
  BY <1>1, <1>4, <1>9, <1>10 DEF Served, Calls
<1>20. CacheInv'
  BY <1>1, <1>5, BenchmarkAssumption DEF CacheInv, IInv, TypeOK, FillInv, Moves, Revisions, Kinds
<1>21. SharedInv'
  BY <1>1, <1>4, <1>5, <1>7, CallsShared DEF CallPhases, Moves
<1> QED  BY <1>7, <1>8, <1>11, <1>20, <1>21, ServedIInv

LEMMA RefreshedIInv ==
  ASSUME NEW r \in Requests, IInv, Refreshed(r) PROVE IInv'
<1> DEFINE f == call[r].fetch
<1>1. /\ f \in Fetches /\ f \notin before[r] /\ fetch[f].phase = "answered"
      /\ UNCHANGED <<revision, before>>
  BY DEF IInv, FetchInv, Waits, Refreshed
<1>2. fetch[f].kind \in Kinds
  BY <1>1 DEF IInv, FetchInv
<1>3. Failed(f) \in BOOLEAN
  BY DEF Failed
<1>4. Calls(r, "done", Nothing) /\ Answers(r, f, Failed(f))
  BY <1>1, <1>3, GetsMoves DEF IInv, Refreshed
<1>5. Moves(f, "ended")
  BY <1>1, PhaseMoves DEF IInv, Refreshed, FetchPhases
<1>6. \/ /\ entry' = f /\ inflight' = Nothing /\ fetch[f].kind = "code"
         /\ newest' \in {newest, fetch[f].revision}
      \/ entry' = entry /\ inflight' = inflight /\ newest' = newest
  BY DEF Refreshed, Holds
<1>12. call[r].phase = "refreshing" /\ call[r].fetch = f /\ inflight # f
  BY DEF IInv, SharedInv, Refreshed
<1> HIDE DEF f
<1>7. Grows
  BY <1>1, <1>5, MovesGrow
<1>8. Others(r)
  BY <1>1, <1>4 DEF Others, Calls, Answers, IInv, TypeOK
<1>9. Given(r, f)
  BY <1>1, <1>2, <1>4, <1>5 DEF Given, Answers, Moves
<1>10. before'[r] \subseteq Ended'
  BY <1>1, <1>7 DEF IInv, FetchInv, Grows, Ended
<1>11. Served(r)
  BY <1>1, <1>4, <1>9, <1>10 DEF Served, Calls
<1>13. fetch[f].revision \in Revisions /\ fetch[f].revision <= revision
  BY <1>1 DEF IInv, TypeOK, FillInv
<1>14. /\ newest' \in Revisions /\ newest' <= revision
       /\ inflight' # Nothing => inflight' = inflight /\ newest' = newest
  BY <1>6, <1>13 DEF IInv, TypeOK, FillInv
<1>15. FillInv'
  BY <1>1, <1>5, <1>12, <1>14 DEF IInv, TypeOK, FillInv, Moves
<1>16. entry' # Nothing => fetch'[entry'].phase = "ended" /\ fetch'[entry'].kind \in Kinds \ {"raised"}
  BY <1>1, <1>2, <1>5, <1>6 DEF IInv, TypeOK, Moves, Kinds
<1>20. CacheInv'
  BY <1>1, <1>5, <1>6, <1>12, <1>14, <1>15, <1>16 DEF CacheInv, IInv, TypeOK, Moves
<1>21. SharedInv'
  BY <1>1, <1>4, <1>5, <1>6, <1>7, <1>12, CallsShared DEF CallPhases, Moves
<1> QED  BY <1>7, <1>8, <1>11, <1>20, <1>21, ServedIInv

LEMMA CancelIInv ==
  ASSUME NEW r \in Requests, IInv, Cancel(r) PROVE IInv'
<1> DEFINE f == call[r].fetch
<1>1. /\ f \in Fetches /\ f \notin before[r] /\ call[r].phase # "done"
      /\ UNCHANGED <<revision, entry, inflight, answer, before, newest>>
  BY DEF IInv, FetchInv, Waits, Cancel
<1>2. Calls(r, "cancelled", Nothing)
  BY CallMoves DEF IInv, Cancel, CallPhases
<1>3. \/ fetch' = fetch
      \/ call[r].phase = "refreshing" /\ inflight # f /\ Moves(f, "ended")
  BY <1>1, PhaseMoves DEF IInv, SharedInv, Cancel, FetchPhases
<1>4. call[r].fetch = f
  OBVIOUS
<1> HIDE DEF f
<1>5. Grows
  BY <1>1, <1>3, MovesGrow, SameGrows
<1>6. Others(r)
  BY <1>1, <1>2 DEF Others, Calls, IInv, TypeOK, AnswerType
<1>7. before'[r] \subseteq Ended'
  BY <1>1, <1>5 DEF IInv, FetchInv, Grows, Ended
<1>8. answer'[r] = NoAnswer
  BY <1>1 DEF IInv, AnswerInv
<1>9. Served(r)
  BY <1>2, <1>7, <1>8 DEF Served, Calls
<1>20. CacheInv'
  BY <1>1, <1>3 DEF CacheInv, IInv, TypeOK, FillInv, Moves
<1>21. SharedInv'
  BY <1>1, <1>2, <1>3, <1>4, <1>5, CallsShared DEF CallPhases, Moves
<1> QED  BY <1>5, <1>6, <1>9, <1>20, <1>21, ServedIInv

LEMMA PublishIInv ==
  ASSUME NEW f \in Fetches, IInv, Publish(f) PROVE IInv'
<1>1. /\ fetch[f].phase = "answered" /\ fetch[f].kind \in Kinds
      /\ UNCHANGED <<revision, call, answer, before>>
  BY DEF IInv, FetchInv, Publish
<1>2. Moves(f, "ended")
  BY PhaseMoves DEF IInv, Publish, FetchPhases
<1>3. \/ inflight # f /\ entry' = entry /\ inflight' = inflight /\ newest' = newest
      \/ /\ inflight' = Nothing
         /\ \/ entry' = entry /\ newest' = newest
            \/ /\ entry' = f /\ fetch[f].kind # "raised"
               /\ newest' \in {newest, fetch[f].revision}
  BY DEF Publish, Holds
<1>4. Grows
  BY <1>1, <1>2, MovesGrow
<1>5. TypeOK' /\ FillInv'
  <2>1. fetch[f].revision \in Revisions /\ fetch[f].revision <= revision
    BY DEF IInv, TypeOK, FillInv
  <2>2. newest' \in Revisions /\ newest' <= revision
    BY <1>3, <2>1 DEF IInv, TypeOK, FillInv
  <2>3. FillInv'
    BY <1>1, <1>2, <1>3, <2>2 DEF IInv, TypeOK, FillInv, Moves
  <2>4. entry' # Nothing => fetch'[entry'].phase = "ended" /\ fetch'[entry'].kind \in Kinds \ {"raised"}
    BY <1>1, <1>2, <1>3 DEF IInv, TypeOK, Moves, Kinds
  <2>5. inflight' # Nothing => fetch'[inflight'].phase \in {"asked", "answered"}
    BY <1>2, <1>3 DEF IInv, TypeOK, Moves
  <2>6. \A r \in Requests : call[r].phase \in {"waiting", "refreshing"} => fetch'[call[r].fetch].phase # "free"
    BY <1>4 DEF IInv, TypeOK, FetchInv, Waits, Grows
  <2> QED
    BY <1>1, <1>2, <1>3, <2>2, <2>3, <2>4, <2>5, <2>6 DEF IInv, TypeOK, Moves, FetchType, FetchPhases
<1>6. FetchInv'
  BY <1>1, <1>4 DEF IInv, FetchInv, Waits, Ended, Grows
<1>7. AnswerInv' /\ AbsenceIsNotCached'
  <2>1. \A r \in Requests : call[r].phase = "done" =>
           /\ answer[r].from \in Fetches /\ fetch'[answer[r].from].phase = "ended"
           /\ fetch'[answer[r].from].kind = answer[r].kind /\ answer[r].kind \in Kinds
    BY <1>4 DEF IInv, AnswerInv, Grows
  <2>2. AnswerInv'
    BY <1>1, <2>1 DEF IInv, AnswerInv, NoAnswer
  <2> QED  BY <1>1, <2>2 DEF IInv, AbsenceIsNotCached
<1>8. FailureIsTold'
  <2>1. ASSUME NEW r \in Requests, call[r].phase = "done"
        PROVE  answer[r].told <=> fetch'[answer[r].from].kind \in {"failed", "raised"}
    <3>1. answer[r].told <=> fetch[answer[r].from].kind \in {"failed", "raised"}
      BY <2>1 DEF IInv, FailureIsTold, Failed
    <3>2. fetch'[answer[r].from].kind = fetch[answer[r].from].kind
      BY <1>4, <2>1 DEF IInv, AnswerInv, Grows
    <3> QED  BY <3>1, <3>2
  <2> QED  BY <1>1, <2>1 DEF FailureIsTold, Failed
<1>9. SharedInv'
  <2>1. ASSUME NEW r \in Requests, call[r].phase = "waiting", fetch'[call[r].fetch].phase = "ended"
        PROVE  fetch'[call[r].fetch].kind \in Kinds
    <3>1. call[r].fetch \in Fetches
      BY <2>1 DEF IInv, FetchInv, Waits
    <3>2. CASE call[r].fetch = f
      BY <1>1, <1>2, <3>2 DEF Moves
    <3>3. CASE call[r].fetch # f
      BY <1>2, <2>1, <3>1, <3>3 DEF Moves, IInv, SharedInv
    <3> QED  BY <3>2, <3>3
  <2>2. \A r \in Requests : call[r].phase = "refreshing" => inflight' # call[r].fetch
    <3>1. \A r \in Requests : call[r].phase = "refreshing" => call[r].fetch # Nothing
      BY BenchmarkAssumption DEF IInv, FetchInv, Waits, Fetches
    <3> QED  BY <1>3, <3>1 DEF IInv, SharedInv
  <2> QED  BY <1>1, <2>1, <2>2 DEF IInv, SharedInv, Waits
<1> QED  BY <1>5, <1>6, <1>7, <1>8, <1>9 DEF IInv

-----------------------------------------------------------------------------
\* The invariant, for every request, fetch and history of the assignment.
THEOREM Invariance == Spec => []IInv
<1>1. ASSUME IInv, [Next]_vars PROVE IInv'
  <2>1. ASSUME NEW r \in Requests,
               HitCode(r) \/ HitMissing(r) \/ Join(r) \/ StartFill(r) \/ Ends(r) \/ Cancel(r)
        PROVE  IInv'
    BY <1>1, <2>1, HitCodeIInv, HitMissingIInv, JoinIInv, StartFillIInv, ResumeIInv,
       RefreshedIInv, CancelIInv DEF Ends
  <2>2. ASSUME NEW f \in Fetches, Answer(f) \/ Publish(f) PROVE IInv'
    BY <1>1, <2>2, AnswerIInv, PublishIInv
  <2> QED  BY <1>1, <2>1, <2>2, ExpireIInv, ReassignIInv, StutterIInv DEF Next
<1> QED  BY <1>1, InitIInv, PTL DEF Spec

\* Every variable keeps its type.
THEOREM TypesHold == Spec => []TypeOK
<1>1. IInv => TypeOK
  BY DEF IInv
<1> QED  BY <1>1, Invariance, PTL

\* What is no code is never served from the past: the cache may hold it, but
\* whoever meets it there asks again.
THEOREM AbsenceIsFresh == Spec => []AbsenceIsNotCached
<1>1. IInv => AbsenceIsNotCached
  BY DEF IInv
<1> QED  BY <1>1, Invariance, PTL

\* A request is told of a failure exactly when the fetch it relied on failed.
THEOREM FailureReported == Spec => []FailureIsTold
<1>1. IInv => FailureIsTold
  BY DEF IInv
<1> QED  BY <1>1, Invariance, PTL

\* A fill never takes the cache back to an older assignment.
THEOREM FillsGoForward == Spec => OnlyRefreshesGoBack
<1> DEFINE Forward == entry' # entry /\ entry' # Nothing /\ fetch'[entry'].kind = "code"
                        => fetch'[entry'].revision >= newest \/ Refreshes(entry')
<1>1. ASSUME IInv, NEW f \in Fetches, Publish(f) PROVE Forward
  <2>1. fetch[f].phase = "answered" /\ Moves(f, "ended")
    BY <1>1, PhaseMoves DEF IInv, Publish, FetchPhases
  <2>2. entry' # entry => entry' = f /\ inflight = f
    BY <1>1 DEF Publish, Holds
  <2>3. inflight = f => fetch[f].revision >= newest
    BY <1>1, <2>1, BenchmarkAssumption DEF IInv, FillInv, Fetches
  <2> QED  BY <2>1, <2>2, <2>3 DEF Moves
<1>2. ASSUME IInv, NEW r \in Requests, Refreshed(r) PROVE Forward
  <2>1. entry' # entry => entry' = call[r].fetch /\ call[r].phase = "refreshing"
    BY <1>2 DEF Refreshed, Holds
  <2>2. call[r] = [phase |-> call[r].phase, fetch |-> call[r].fetch]
    BY <1>2 DEF IInv, TypeOK
  <2> QED  BY <2>1, <2>2 DEF Refreshes
<1>3. ASSUME IInv, [Next]_vars PROVE [Forward]_vars
  <2>1. ASSUME NEW r \in Requests,
               HitCode(r) \/ HitMissing(r) \/ Join(r) \/ StartFill(r) \/ Resume(r) \/ Cancel(r)
        PROVE  entry' = entry \/ entry' = Nothing
    BY <2>1 DEF HitCode, HitMissing, Join, StartFill, Resume, Cancel, Discard
  <2>2. ASSUME NEW f \in Fetches, Answer(f) PROVE entry' = entry
    BY <2>2 DEF Answer
  <2>3. Expire \/ Reassign \/ UNCHANGED vars => entry' = entry \/ entry' = Nothing
    BY DEF Expire, Reassign, vars
  <2>4. CASE \E r \in Requests : Refreshed(r)
    BY <1>2, <1>3, <2>4
  <2>5. CASE \E f \in Fetches : Publish(f)
    BY <1>1, <1>3, <2>5
  <2>6. CASE entry' = entry \/ entry' = Nothing
    BY <2>6
  <2> QED  BY <1>3, <2>1, <2>2, <2>3, <2>4, <2>5, <2>6 DEF Next, Ends
<1> QED  BY <1>3, Invariance, PTL DEF Spec, OnlyRefreshesGoBack

-----------------------------------------------------------------------------
(* The evidence view.                                                      *)

(* Of one calculation: what is shown is no better than the source, an      *)
(* answered read is unusable only if a read failed, and a calculation that *)
(* is done has what ExecutionCatchesUp and OneRefusedReadIsAbsorbed say.   *)
Sound(c) ==
  /\ step[c] # "reading" => due[c] = {}
  /\ \A record \in Records :
       /\ shown[c][record].status = "complete" => source[c][record] = "complete"
       /\ shown[c][record].status \in {"refused", "misshapen"} => shown[c][record] \in Unusable /\ spoilt
       /\ record \notin due[c] => shown[c][record].status # "none"
  /\ step[c] = "sleeping" => attempts[c] < PollAttempts
  /\ Lineage(c).staged => source[c].stage
  /\ "execution" \notin due[c] /\ Execution(c) = Refused => misses[c] > 0

Settled(c) ==
  step[c] = "done" /\ Lineage(c).status = "complete" =>
    /\ Lineage(c).staged =>
         \/ Execution(c).stage
         \/ misses[c] > 0
         \/ Execution(c).status \in {"failed", "misshapen"}
    /\ attempts[c] > 0 /\ Execution(c) = Refused => misses[c] = 2

(* While everything was complete from the start and no read has failed,    *)
(* the first gather shows it complete.                                     *)
Untroubled(c) ==
  began /\ ~spoilt =>
    /\ source[c].execution = "complete" /\ source[c].lineage = "complete"
    /\ attempts[c] = 0 /\ step[c] # "sleeping"
    /\ \A record \in Records : record \notin due[c] => shown[c][record].status = "complete"

EvidenceInv ==
  /\ EvidenceTypeOK
  /\ \A c \in Calculations : Sound(c) /\ Settled(c) /\ Untroubled(c)
  /\ EvidenceIsTrue

LEMMA EvidenceInitInv == EvidenceInit => EvidenceInv
<1> SUFFICES ASSUME EvidenceInit PROVE EvidenceInv
  OBVIOUS
<1>1. EvidenceTypeOK
  <2>1. WholeAtSource \in BOOLEAN
    BY Zenon DEF WholeAtSource
  <2>2. Unread \in Results
    BY DEF Unread, Results
  <2>3. 0 \in 0 .. PollAttempts
    BY EvidenceAssumption
  <2>4. began \in BOOLEAN
    BY <2>1 DEF EvidenceInit
  <2>5. misses \in [Calculations -> 0 .. 2] /\ attempts \in [Calculations -> 0 .. PollAttempts]
    BY <2>3 DEF EvidenceInit
  <2>6. shown \in [Calculations -> [Records -> Results]]
    BY <2>2 DEF EvidenceInit
  <2> HIDE DEF WholeAtSource
  <2> QED  BY <2>4, <2>5, <2>6 DEF EvidenceInit, EvidenceTypeOK
<1>2. ASSUME NEW c \in Calculations PROVE Sound(c) /\ Settled(c) /\ Untroubled(c)
  BY DEF EvidenceInit, Sound, Settled, Untroubled, Lineage, Execution, Unread, Refused, Misshapen, Unusable,
         Records, WholeAtSource
<1> QED  BY <1>1, <1>2 DEF EvidenceInv, EvidenceIsTrue, EvidenceInit

(* The parts of the invariant that a step of calculation c leaves alone.   *)
LEMMA OthersKeep ==
  ASSUME EvidenceInv, NEW c \in Calculations, NEW d \in Calculations, d # c,
         source'[d] = source[d], step'[d] = step[d], due'[d] = due[d],
         attempts'[d] = attempts[d], shown'[d] = shown[d], misses'[d] = misses[d],
         began' = began, spoilt => spoilt'
  PROVE  (Sound(d) /\ Settled(d) /\ Untroubled(d))'
BY DEF EvidenceInv, Sound, Settled, Untroubled, Lineage, Execution

(* Nothing that was complete at the source ceases to be.                   *)
LEMMA SourceIsMonotone ==
  ASSUME EvidenceInv, NEW c \in Calculations, SourceMoves(c)
  PROVE  EvidenceInv'
<1> USE DEF EvidenceInv
<1>1. PICK s \in SourceRecords :
        /\ source' = [source EXCEPT ![c] = s]
        /\ \A record \in Records : source[c][record] = "complete" => s[record] = "complete"
        /\ source[c].stage => s.stage
  <2>1. ASSUME NEW record \in Records, NEW status \in {"complete", "failed"},
               RecordMoves(c, record, status)
        PROVE  LET s == [source[c] EXCEPT ![record] = status] IN
                 /\ s \in SourceRecords
                 /\ source' = [source EXCEPT ![c] = s]
                 /\ \A r \in Records : source[c][r] = "complete" => s[r] = "complete"
                 /\ source[c].stage => s.stage
    BY <2>1 DEF RecordMoves, EvidenceTypeOK, SourceRecords, Records, Statuses
  <2>2. ASSUME StageMoves(c)
        PROVE  LET s == [source[c] EXCEPT !.stage = TRUE] IN
                 /\ s \in SourceRecords
                 /\ source' = [source EXCEPT ![c] = s]
                 /\ \A r \in Records : source[c][r] = "complete" => s[r] = "complete"
                 /\ source[c].stage => s.stage
    <3>1. source[c] \in SourceRecords /\ source[c].lineage = "complete"
      BY <2>2 DEF StageMoves, EvidenceTypeOK
    <3>2. source' = [source EXCEPT ![c] = [source[c] EXCEPT !.stage = TRUE]]
      BY <2>2 DEF StageMoves
    <3> QED  BY <3>1, <3>2 DEF SourceRecords, Records, Statuses
  <2> QED  BY <2>1, <2>2 DEF SourceMoves
<1>2. UNCHANGED <<step, due, attempts, shown, quality, view, began, spoilt, misses>>
  BY DEF SourceMoves
<1>3. EvidenceTypeOK'
  BY <1>1, <1>2 DEF EvidenceTypeOK
<1>4. (Sound(c) /\ Settled(c) /\ Untroubled(c))'
  BY <1>1, <1>2 DEF EvidenceTypeOK, Sound, Settled, Untroubled, Lineage, Execution, Records
<1>5. ASSUME NEW d \in Calculations, d # c PROVE (Sound(d) /\ Settled(d) /\ Untroubled(d))'
  BY <1>1, <1>2, <1>5, OthersKeep DEF EvidenceTypeOK
<1>6. WholeAtSource => WholeAtSource'
  BY <1>1 DEF WholeAtSource, EvidenceTypeOK, Records
<1> QED  BY <1>2, <1>3, <1>4, <1>5, <1>6 DEF EvidenceIsTrue

(* What a read can give, and what it does to the history.                  *)
LEMMA ReadGives ==
  ASSUME EvidenceTypeOK, NEW c \in Calculations, NEW record \in Records, NEW result,
         Reads(c, record, result)
  PROVE  /\ result \in Results
         /\ result.status # "none"
         /\ result.status = "complete" => source[c][record] = "complete"
         /\ result.status \in {"refused", "misshapen"} => result \in Unusable
         /\ result.staged => source[c].stage
         /\ result \in Unusable => spoilt'
         /\ result \notin Unusable => result = Snapshot(c, record)
         /\ spoilt => spoilt'
         /\ spoilt' \in BOOLEAN /\ misses' \in [Calculations -> 0 .. 2]
         /\ \A d \in Calculations : d # c => misses'[d] = misses[d]
         /\ record = "execution" /\ result = Refused =>
              /\ misses'[c] > 0
              /\ misses[c] > 0 => misses'[c] = 2
         /\ record = "lineage" => misses' = misses
<1>1. result \in Results /\ result.status # "none"
  <2>1. source[c][record] \in Statuses /\ source[c].stage \in BOOLEAN
    BY DEF EvidenceTypeOK, SourceRecords, Records
  <2>2. Snapshot(c, record) \in Results /\ Snapshot(c, record).status # "none"
    BY <2>1 DEF Snapshot, Results, Statuses
  <2>3. Refused \in Results /\ Misshapen \in Results /\ Refused.status # "none" /\ Misshapen.status # "none"
    BY DEF Refused, Misshapen, Results
  <2> QED  BY <2>2, <2>3 DEF Reads, ReadResults, Unusable
<1>2. /\ result.status = "complete" => source[c][record] = "complete"
      /\ result.status \in {"refused", "misshapen"} => result \in Unusable
      /\ result.staged => source[c].stage
      /\ result \notin Unusable => result = Snapshot(c, record)
  BY DEF Reads, ReadResults, Snapshot, Unusable, Refused, Misshapen, EvidenceTypeOK, SourceRecords, Records, Statuses
<1>3. /\ result \in Unusable => spoilt'
      /\ spoilt => spoilt'
      /\ spoilt' \in BOOLEAN
  BY DEF Reads, EvidenceTypeOK
<1>4. /\ misses' \in [Calculations -> 0 .. 2]
      /\ \A d \in Calculations : d # c => misses'[d] = misses[d]
      /\ record = "execution" /\ result = Refused =>
           /\ misses'[c] > 0
           /\ misses[c] > 0 => misses'[c] = 2
      /\ record = "lineage" => misses' = misses
  BY DEF Reads, EvidenceTypeOK
<1> QED  BY <1>1, <1>2, <1>3, <1>4

(* The second answer of a gather: what follows it, and what is then known. *)
LEMMA FollowsIsTyped ==
  ASSUME NEW execution, NEW lineage, NEW polls \in 0 .. PollAttempts
  PROVE  /\ Follows(execution, lineage, polls) \in {"sleeping", "refreshing", "done"}
         /\ Follows(execution, lineage, polls) = "sleeping" =>
              lineage.status = "open" /\ polls < PollAttempts
         /\ Follows(execution, lineage, polls) = "done" /\ lineage.status = "complete" =>
              \/ execution.stage
              \/ polls = 0 /\ execution.status \notin {"open", "complete"}
BY DEF Follows

LEMMA ReadAnsweredInv ==
  ASSUME EvidenceInv, NEW c \in Calculations, NEW record \in Records, ReadAnswered(c, record)
  PROVE  EvidenceInv'
<1> USE DEF EvidenceInv
<1>1. PICK result :
        Reads(c, record, result) /\ shown' = [shown EXCEPT ![c][record] = result]
  BY DEF ReadAnswered
<1>2. /\ step[c] = "reading" /\ record \in due[c]
      /\ due' = [due EXCEPT ![c] = @ \ {record}]
      /\ UNCHANGED <<source, attempts, quality, view, began>>
  BY DEF ReadAnswered
<1> DEFINE e == shown'[c]["execution"]
           l == shown'[c]["lineage"]
<1>3. /\ step' = IF due[c] # {record} THEN step
                 ELSE [step EXCEPT ![c] = Follows(e, l, attempts[c])]
  BY DEF ReadAnswered
<1> HIDE DEF e, l
<1>4. /\ shown' \in [Calculations -> [Records -> Results]]
      /\ shown'[c][record] = result
      /\ \A other \in Records : other # record => shown'[c][other] = shown[c][other]
      /\ \A d \in Calculations : d # c => shown'[d] = shown[d]
  BY <1>1, ReadGives DEF EvidenceTypeOK
<1>5. /\ due' \in [Calculations -> SUBSET Records]
      /\ due'[c] = due[c] \ {record}
      /\ \A d \in Calculations : d # c => due'[d] = due[d]
  BY <1>2 DEF EvidenceTypeOK
<1>6. /\ step' \in [Calculations -> {"reading", "sleeping", "refreshing", "done"}]
      /\ \A d \in Calculations : d # c => step'[d] = step[d]
      /\ due'[c] = {} => step'[c] = Follows(e, l, attempts[c])
      /\ due'[c] # {} => step'[c] = "reading"
  BY <1>2, <1>3, <1>5, FollowsIsTyped DEF EvidenceTypeOK
<1>7. EvidenceTypeOK'
  BY <1>1, <1>2, <1>4, <1>5, <1>6, ReadGives DEF EvidenceTypeOK
<1>8. e = (Execution(c))' /\ l = (Lineage(c))'
  BY DEF e, l, Execution, Lineage
<1>9. Sound(c)'
  <2>1. step'[c] # "reading" => due'[c] = {}
    BY <1>6
  <2>2. ASSUME NEW r \in Records
        PROVE  /\ shown'[c][r].status = "complete" => source'[c][r] = "complete"
               /\ shown'[c][r].status \in {"refused", "misshapen"} => shown'[c][r] \in Unusable /\ spoilt'
               /\ r \notin due'[c] => shown'[c][r].status # "none"
    BY <1>1, <1>2, <1>4, <1>5, ReadGives DEF Sound
  <2>3. l.staged => source'[c].stage
    BY <1>1, <1>2, <1>4, ReadGives DEF Sound, Lineage, l, Records
  <2>4. "execution" \notin due'[c] /\ e = Refused => misses'[c] > 0
    BY <1>1, <1>2, <1>4, <1>5, ReadGives DEF Sound, Execution, e, Records
  <2>5. step'[c] = "sleeping" => attempts'[c] < PollAttempts
    BY <1>2, <1>6, FollowsIsTyped DEF EvidenceTypeOK
  <2> QED  BY <1>8, <2>1, <2>2, <2>3, <2>4, <2>5 DEF Sound
<1>10. Settled(c)'
  <2> SUFFICES ASSUME step'[c] = "done", l.status = "complete"
               PROVE  /\ l.staged => e.stage \/ misses'[c] > 0 \/ e.status \in {"failed", "misshapen"}
                      /\ attempts'[c] > 0 /\ e = Refused => misses'[c] = 2
    BY <1>8 DEF Settled
  <2>1. due'[c] = {} /\ Follows(e, l, attempts[c]) = "done"
    BY <1>6
  <2>2. \/ e.stage
        \/ attempts[c] = 0 /\ e.status \notin {"open", "complete"}
    BY <2>1, FollowsIsTyped DEF EvidenceTypeOK
  <2>3. e \in Results /\ e.status # "none"
    BY <1>4, <1>8, <1>9, <2>1 DEF Sound, Records, e, Execution
  <2>4. e.status = "refused" => misses'[c] > 0
    <3>1. e.status = "refused" => e \in Unusable
      BY <1>8, <1>9, <2>1 DEF Sound, Records, Execution
    <3>2. Misshapen.status # "refused"
      BY DEF Misshapen
    <3>3. e.status = "refused" => e = Refused
      BY <3>1, <3>2 DEF Unusable
    <3> QED  BY <1>8, <1>9, <2>1, <3>3 DEF Sound, Execution
  <2>5. e.stage => e # Refused
    BY DEF Refused
  <2> QED  BY <1>2, <2>2, <2>3, <2>4, <2>5 DEF Results, Statuses
<1>11. Untroubled(c)'
  <2> SUFFICES ASSUME began, ~spoilt'
               PROVE  /\ source[c].execution = "complete" /\ source[c].lineage = "complete"
                      /\ attempts[c] = 0 /\ step'[c] # "sleeping"
                      /\ \A r \in Records : r \notin due'[c] => shown'[c][r].status = "complete"
    BY <1>2 DEF Untroubled
  <2>1. ~spoilt /\ result = Snapshot(c, record)
    BY <1>1, ReadGives DEF EvidenceTypeOK
  <2>2. source[c].execution = "complete" /\ source[c].lineage = "complete" /\ attempts[c] = 0
    BY <2>1 DEF Untroubled
  <2>3. result.status = "complete"
    BY <2>1, <2>2 DEF Snapshot, Records
  <2>4. \A r \in Records : r \notin due'[c] => shown'[c][r].status = "complete"
    BY <1>4, <1>5, <2>1, <2>3 DEF Untroubled
  <2>5. step'[c] # "sleeping"
    BY <1>6, <2>4, FollowsIsTyped DEF l, Records, EvidenceTypeOK
  <2> QED  BY <2>2, <2>4, <2>5
<1>12. ASSUME NEW d \in Calculations, d # c PROVE (Sound(d) /\ Settled(d) /\ Untroubled(d))'
  BY <1>1, <1>2, <1>4, <1>5, <1>6, <1>12, ReadGives, OthersKeep
<1>13. EvidenceIsTrue'
  BY <1>1, <1>2, ReadGives DEF EvidenceIsTrue, WholeAtSource
<1> QED  BY <1>7, <1>9, <1>10, <1>11, <1>12, <1>13

LEMMA PollsInv == ASSUME EvidenceInv, NEW c \in Calculations, Polls(c) PROVE EvidenceInv'
<1> USE DEF EvidenceInv
<1>1. /\ step[c] = "sleeping"
      /\ step'[c] = "reading" /\ due'[c] = Records
      /\ \A d \in Calculations : d # c =>
           step'[d] = step[d] /\ due'[d] = due[d] /\ attempts'[d] = attempts[d]
      /\ UNCHANGED <<source, shown, quality, view, began, spoilt, misses>>
  BY DEF Polls, EvidenceTypeOK
<1>2. attempts[c] < PollAttempts
  BY <1>1 DEF Sound
<1>3. EvidenceTypeOK'
  BY <1>1, <1>2, EvidenceAssumption DEF Polls, EvidenceTypeOK
<1>4. (Sound(c) /\ Settled(c) /\ Untroubled(c))'
  BY <1>1 DEF Sound, Settled, Untroubled, Lineage, Execution, Records
<1>5. ASSUME NEW d \in Calculations, d # c PROVE (Sound(d) /\ Settled(d) /\ Untroubled(d))'
  BY <1>1, <1>5, OthersKeep
<1> QED  BY <1>1, <1>3, <1>4, <1>5 DEF EvidenceIsTrue, WholeAtSource

LEMMA RefreshEndsInv ==
  ASSUME EvidenceInv, NEW c \in Calculations, RefreshEnds(c)
  PROVE  EvidenceInv'
<1> USE DEF EvidenceInv
<1>1. PICK result :
        /\ Reads(c, "execution", result)
        /\ shown' = IF result = Refused THEN shown
                    ELSE [shown EXCEPT ![c]["execution"] = result]
  BY DEF RefreshEnds
<1>2. /\ step[c] = "refreshing" /\ step'[c] = "done" /\ due[c] = {}
      /\ \A d \in Calculations : d # c => step'[d] = step[d]
      /\ UNCHANGED <<source, due, attempts, quality, view, began>>
  BY DEF RefreshEnds, EvidenceTypeOK, Sound
<1> DEFINE e == (Execution(c))'
           l == (Lineage(c))'
<1>3. /\ shown' \in [Calculations -> [Records -> Results]]
      /\ l = Lineage(c)
      /\ e = IF result = Refused THEN Execution(c) ELSE result
      /\ \A d \in Calculations : d # c => shown'[d] = shown[d]
  BY <1>1, ReadGives DEF EvidenceTypeOK, Records, Lineage, Execution
<1>4. EvidenceTypeOK'
  BY <1>1, <1>2, <1>3, ReadGives DEF EvidenceTypeOK, RefreshEnds, Records
<1>5. Sound(c)'
  BY <1>1, <1>2, <1>3, ReadGives DEF Sound, Records, Lineage, Execution
<1>6. Settled(c)'
  <2>1. CASE result = Refused
    BY <1>1, <1>2, <1>3, <2>1, ReadGives DEF Settled, Sound, Records
  <2>2. CASE result = Misshapen
    <3>1. e.status = "misshapen" /\ e # Refused
      BY <1>3, <2>2 DEF Misshapen, Refused
    <3> QED  BY <3>1 DEF Settled
  <2>3. CASE result \notin Unusable
    <3>1. e = Snapshot(c, "execution") /\ e # Refused
      BY <1>1, <1>3, <2>3, ReadGives DEF Records, Unusable
    <3>2. ASSUME l.staged PROVE e.stage
      <4>1. source[c].stage
        BY <1>3, <3>2 DEF Sound
      <4>2. Snapshot(c, "execution").stage
        BY <4>1 DEF Snapshot
      <4> QED  BY <3>1, <4>2
    <3> QED  BY <3>1, <3>2 DEF Settled
  <2> QED  BY <2>1, <2>2, <2>3 DEF Unusable
<1>7. Untroubled(c)'
  BY <1>1, <1>2, <1>3, ReadGives
  DEF Untroubled, Records, Snapshot, Lineage, Execution, EvidenceTypeOK
<1>8. ASSUME NEW d \in Calculations, d # c PROVE (Sound(d) /\ Settled(d) /\ Untroubled(d))'
  BY <1>1, <1>2, <1>3, <1>8, ReadGives, OthersKeep DEF Records
<1>9. EvidenceIsTrue'
  BY <1>1, <1>2, ReadGives DEF EvidenceIsTrue, WholeAtSource, Records
<1> QED  BY <1>4, <1>5, <1>6, <1>7, <1>8, <1>9

LEMMA AssemblesViewInv == EvidenceInv /\ AssemblesView => EvidenceInv'
<1> SUFFICES ASSUME EvidenceInv, AssemblesView PROVE EvidenceInv'
  OBVIOUS
<1> USE DEF EvidenceInv
<1>1. /\ \A c \in Calculations : step[c] = "done"
      /\ view' = IF \A c \in Calculations : ~Backed(c) THEN "unavailable"
                 ELSE IF \A c \in Calculations : Complete(c) THEN Resolved ELSE "partial"
      /\ UNCHANGED <<source, step, due, attempts, shown, quality, began, spoilt, misses>>
  BY DEF AssemblesView
<1>2. EvidenceTypeOK'
  BY <1>1 DEF EvidenceTypeOK, Resolved
<1>3. \A c \in Calculations : (Sound(c) /\ Settled(c) /\ Untroubled(c))'
  BY <1>1 DEF Sound, Settled, Untroubled, Lineage, Execution
<1>4. view' = "supported" => WholeAtSource /\ quality \subseteq {"supported"}
  BY <1>1 DEF Resolved, Complete, WholeAtSource, Sound, Lineage, Execution, Records
<1>5. ASSUME ~spoilt, began PROVE view' = Resolved
  <2>1. \A c \in Calculations : Complete(c)
    BY <1>1, <1>5 DEF Untroubled, Sound, Complete, Lineage, Execution, Records
  <2>2. ASSUME NEW c \in Calculations PROVE Backed(c)
    <3>1. Refused.status # "complete" /\ Misshapen.status # "complete"
      BY DEF Refused, Misshapen
    <3>2. Execution(c).status = "complete"
      BY <2>1 DEF Complete
    <3> QED  BY <3>1, <3>2 DEF Backed, Unusable
  <2> QED  BY <1>1, <2>1, <2>2, EvidenceAssumption
<1>6. ASSUME view' = "unavailable" PROVE spoilt \/ "unavailable" \in quality
  <2>1. CASE \A c \in Calculations : ~Backed(c)
    <3>1. PICK c \in Calculations : Lineage(c) \in Unusable
      BY <2>1, EvidenceAssumption DEF Backed
    <3>2. Lineage(c).status \in {"refused", "misshapen"}
      BY <3>1 DEF Unusable, Refused, Misshapen
    <3> QED  BY <3>2 DEF Sound, Lineage, Records
  <2>2. CASE ~\A c \in Calculations : ~Backed(c)
    BY <1>1, <1>6, <2>2 DEF Resolved
  <2> QED  BY <2>1, <2>2
<1>7. EvidenceIsTrue'
  BY <1>1, <1>4, <1>5, <1>6 DEF EvidenceIsTrue, WholeAtSource, Resolved
<1> QED  BY <1>2, <1>3, <1>7

(* The inductive invariant of the evidence view.                           *)
THEOREM EvidenceInvariance == EvidenceSpec => []EvidenceInv
<1>1. EvidenceInv /\ [EvidenceNext]_evidenceVars => EvidenceInv'
  <2> SUFFICES ASSUME EvidenceInv, [EvidenceNext]_evidenceVars PROVE EvidenceInv'
    OBVIOUS
  <2>1. CASE UNCHANGED evidenceVars
    BY <2>1 DEF evidenceVars, EvidenceInv, EvidenceTypeOK, Sound, Settled, Untroubled,
                EvidenceIsTrue, WholeAtSource, Lineage, Execution
  <2>2. CASE EvidenceNext
    BY <2>2, ReadAnsweredInv, PollsInv, RefreshEndsInv, SourceIsMonotone, AssemblesViewInv
    DEF EvidenceNext, EvidenceTurn
  <2> QED  BY <2>1, <2>2
<1> QED  BY <1>1, EvidenceInitInv, PTL DEF EvidenceSpec

(* Every variable keeps its type, and no calculation polls more often than *)
(* it may.                                                                 *)
THEOREM EvidenceTypesHold == EvidenceSpec => []EvidenceTypeOK
<1>1. EvidenceInv => EvidenceTypeOK
  BY DEF EvidenceInv
<1> QED  BY <1>1, EvidenceInvariance, PTL

(* The label of the view is earned (workspace_evidence_response.py:31-61). *)
THEOREM LabelIsEarned == EvidenceSpec => []EvidenceIsTrue
<1>1. EvidenceInv => EvidenceIsTrue
  BY DEF EvidenceInv
<1> QED  BY <1>1, EvidenceInvariance, PTL

(* The execution shown is as recent as the lineage shown                   *)
(* (evidence_completion.py:59-74).                                         *)
THEOREM ExecutionIsRecent == EvidenceSpec => []ExecutionCatchesUp
<1>1. EvidenceInv => ExecutionCatchesUp
  BY DEF EvidenceInv, Settled, ExecutionCatchesUp
<1> QED  BY <1>1, EvidenceInvariance, PTL

(* It takes two refused reads in a row to lose an execution to a refusal   *)
(* (evidence_completion.py:103-112).                                       *)
THEOREM OneRefusalIsNotEnough == EvidenceSpec => []OneRefusedReadIsAbsorbed
<1>1. EvidenceInv => OneRefusedReadIsAbsorbed
  BY DEF EvidenceInv, Settled, OneRefusedReadIsAbsorbed
<1> QED  BY <1>1, EvidenceInvariance, PTL

(* The execution of a finished calculation is as good as its lineage       *)
(* (evidence_completion.py:58-74, :103-112).                               *)
THEOREM ExecutionHolds == EvidenceSpec => []ExecutionIsKept
<1>1. ExecutionCatchesUp /\ OneRefusedReadIsAbsorbed => ExecutionIsKept
  BY DEF ExecutionIsKept
<1> QED  BY <1>1, ExecutionIsRecent, OneRefusalIsNotEnough, PTL

-----------------------------------------------------------------------------
(* A gather of the evidence awaits an answer as long as it goes on, and    *)
(* ends with the last of its answers (evidence_completion.py:100-107).     *)
THEOREM GathersAwaitHolds == EvidenceSpec => []GathersAwait
<1>1. EvidenceInit => GathersAwait
  BY DEF EvidenceInit, GathersAwait, Records
<1>2. EvidenceTypeOK /\ GathersAwait /\ [EvidenceNext]_evidenceVars => GathersAwait'
  <2> SUFFICES ASSUME EvidenceTypeOK, GathersAwait, [EvidenceNext]_evidenceVars PROVE GathersAwait'
    OBVIOUS
  <2>1. ASSUME NEW c \in Calculations, NEW record \in Records, ReadAnswered(c, record) PROVE GathersAwait'
    <3>1. due' = [due EXCEPT ![c] = @ \ {record}] /\ record \in due[c]
      BY <2>1 DEF ReadAnswered
    <3>2. CASE due[c] # {record}
      <4>1. due'[c] # {} /\ step' = step
        BY <2>1, <3>1, <3>2 DEF ReadAnswered, EvidenceTypeOK
      <4> QED  BY <4>1, <3>1 DEF GathersAwait, EvidenceTypeOK
    <3>3. CASE due[c] = {record}
      <4>1. PICK execution, lineage : step' = [step EXCEPT ![c] = Follows(execution, lineage, attempts[c])]
        BY <2>1, <3>3 DEF ReadAnswered
      <4>2. step'[c] # "reading"
        BY <4>1, FollowsIsTyped DEF EvidenceTypeOK
      <4> QED  BY <4>1, <4>2, <3>1 DEF GathersAwait, EvidenceTypeOK
    <3> QED  BY <3>2, <3>3
  <2>2. ASSUME NEW c \in Calculations, Polls(c) \/ RefreshEnds(c) PROVE GathersAwait'
    <3>1. CASE Polls(c)
      <4>1. due' = [due EXCEPT ![c] = Records] /\ step' = [step EXCEPT ![c] = "reading"]
        BY <3>1 DEF Polls
      <4> QED  BY <4>1 DEF GathersAwait, EvidenceTypeOK, Records
    <3>2. CASE RefreshEnds(c)
      <4>1. due' = due /\ step' = [step EXCEPT ![c] = "done"]
        BY <3>2 DEF RefreshEnds
      <4> QED  BY <4>1 DEF GathersAwait, EvidenceTypeOK
    <3> QED  BY <2>2, <3>1, <3>2
  <2>3. ASSUME NEW c \in Calculations, SourceMoves(c) PROVE GathersAwait'
    BY <2>3 DEF SourceMoves, GathersAwait
  <2>4. CASE AssemblesView \/ UNCHANGED evidenceVars
    BY <2>4 DEF AssemblesView, evidenceVars, GathersAwait
  <2> QED  BY <2>1, <2>2, <2>3, <2>4 DEF EvidenceNext, EvidenceTurn
<1> QED  BY <1>1, <1>2, EvidenceTypesHold, PTL DEF EvidenceSpec

(* Every turn of fetch_calculation_evidence takes one of finitely many,    *)
(* whatever lotus-performance answers (evidence_completion.py:76-127).     *)
THEOREM PollsRunOutHolds == EvidenceSpec => PollsRunOut
<1> DEFINE Takes(c) == /\ StepsOf(c)' >= 0 /\ StepsOf(c)' < StepsOf(c)
                       /\ \A d \in Calculations : d # c => StepsOf(d)' = StepsOf(d)
<1>1. ASSUME EvidenceInv, GathersAwait, EvidenceInv', NEW c \in Calculations, EvidenceTurn(c) PROVE Takes(c)
  <2>1. /\ PollAttempts \in Nat /\ attempts[c] \in Nat /\ attempts'[c] \in Nat
        /\ attempts[c] <= PollAttempts /\ attempts'[c] <= PollAttempts
    BY <1>1, EvidenceAssumption DEF EvidenceInv, EvidenceTypeOK, EvidenceAssumption
  <2>2. ASSUME NEW d \in Calculations, d # c PROVE StepsOf(d)' = StepsOf(d)
    <3>1. step'[d] = step[d] /\ due'[d] = due[d] /\ attempts'[d] = attempts[d]
      BY <1>1, <2>2 DEF EvidenceTurn, ReadAnswered, Polls, RefreshEnds, EvidenceInv, EvidenceTypeOK
    <3> QED  BY <3>1 DEF StepsOf
  <2>3. ASSUME NEW record \in Records, ReadAnswered(c, record) PROVE StepsOf(c)' >= 0 /\ StepsOf(c)' < StepsOf(c)
    <3>1. step[c] = "reading" /\ record \in due[c] /\ due'[c] = due[c] \ {record} /\ attempts' = attempts
      BY <1>1, <2>3 DEF ReadAnswered, EvidenceInv, EvidenceTypeOK
    <3>2. CASE due[c] # {record}
      <4>1. due[c] = Records /\ due'[c] # Records /\ step'[c] = "reading"
        BY <1>1, <2>3, <3>1, <3>2 DEF ReadAnswered, Records, EvidenceInv, EvidenceTypeOK
      <4>2. StepsOf(c) = 4 * (PollAttempts - attempts[c]) + 3 /\ StepsOf(c)' = 4 * (PollAttempts - attempts[c]) + 2
        BY <3>1, <4>1 DEF StepsOf
      <4> QED  BY <4>2, <2>1
    <3>3. CASE due[c] = {record}
      <4>1. due[c] # Records
        BY <3>3 DEF Records
      <4>2. PICK execution, lineage : step' = [step EXCEPT ![c] = Follows(execution, lineage, attempts[c])]
        BY <2>3, <3>3 DEF ReadAnswered
      <4>3. step'[c] \in {"sleeping", "refreshing", "done"}
        BY <1>1, <4>2, FollowsIsTyped DEF EvidenceInv, EvidenceTypeOK
      <4>4. StepsOf(c) = 4 * (PollAttempts - attempts[c]) + 2
        BY <3>1, <4>1 DEF StepsOf
      <4>5. StepsOf(c)' = 4 * (PollAttempts - attempts[c]) + (IF step'[c] = "refreshing" THEN 1 ELSE 0)
        BY <3>1, <4>3 DEF StepsOf
      <4> QED  BY <4>4, <4>5, <2>1
    <3> QED  BY <3>2, <3>3
  <2>4. ASSUME Polls(c) PROVE StepsOf(c)' >= 0 /\ StepsOf(c)' < StepsOf(c)
    <3>1. step[c] = "sleeping" /\ step'[c] = "reading" /\ due'[c] = Records /\ attempts'[c] = attempts[c] + 1
      BY <1>1, <2>4 DEF Polls, EvidenceInv, EvidenceTypeOK
    <3>2. StepsOf(c) = 4 * (PollAttempts - attempts[c]) + 0 /\ StepsOf(c)' = 4 * (PollAttempts - (attempts[c] + 1)) + 3
      BY <3>1 DEF StepsOf
    <3> QED  BY <3>1, <3>2, <2>1
  <2>5. ASSUME RefreshEnds(c) PROVE StepsOf(c)' >= 0 /\ StepsOf(c)' < StepsOf(c)
    <3>1. step[c] = "refreshing" /\ step'[c] = "done" /\ attempts' = attempts
      BY <1>1, <2>5 DEF RefreshEnds, EvidenceInv, EvidenceTypeOK
    <3>2. StepsOf(c) = 4 * (PollAttempts - attempts[c]) + 1 /\ StepsOf(c)' = 4 * (PollAttempts - attempts[c]) + 0
      BY <3>1 DEF StepsOf
    <3> QED  BY <3>2, <2>1
  <2> QED  BY <1>1, <2>2, <2>3, <2>4, <2>5 DEF EvidenceTurn
<1>2. EvidenceInv /\ EvidenceInv' /\ GathersAwait /\ [EvidenceNext]_evidenceVars
        => [\A c \in Calculations : EvidenceTurn(c) => Takes(c)]_evidenceVars
  BY <1>1
<1> QED  BY <1>2, EvidenceInvariance, GathersAwaitHolds, PTL DEF EvidenceSpec, PollsRunOut
=============================================================================
