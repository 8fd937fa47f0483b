------------------------- MODULE AdvisorBriefProofs -------------------------
(***************************************************************************)
(* Proofs about AdvisorBrief, for any requests, contexts, runs and review  *)
(* states.                                                                 *)
(***************************************************************************)
EXTENDS AdvisorBriefProperties, TLAPS

\* A posture is read of a run that was executed, view before profile.
LoadInv(load, r) ==
  /\ load.step = "operator" => load.view \in Views
  /\ load.step # "rest" => log[r] # <<>>

FillLoads ==
  \A r \in Runs :
     /\ fill[r].phase = "source" => fill[r].load = NoLoad
     /\ fill[r].phase = "load" => LoadInv(fill[r].load, r)

CallLoads ==
  \A c \in Callers :
     /\ call[c].phase = "post" => call[c].load = NoLoad
     /\ call[c].phase = "load" => LoadInv(call[c].load, call[c].run)

ExecutedInv == FillLoads /\ CallLoads

\* A run belongs to the context whose fill executes it.
OwnedBy(run, s) == run # Nothing => fill[run].scope = s
Ended(run)      == run # Nothing => fill[run].phase = "done"

FillOK(r) ==
  /\ fill[r].run \in {r, Nothing}
  /\ fill[r].brief # Nothing => fill[r].brief.run \in {r, Nothing}
  /\ fill[r].phase = "free" => fill[r].scope = Nothing

\* A cached brief is of the scope, and its review is not confirmed.
CacheOK(s) ==
  /\ store[s] # Nothing =>
       OwnedBy(store[s].run, s) /\ Ended(store[s].run) /\ store[s].run \notin settled
  /\ inflight[s] # Nothing =>
       fill[inflight[s]].scope = s /\ fill[inflight[s]].phase \in {"source", "load"}

\* A run under review is of a fill that has ended.  What a request waits
\* for, reviews or was given had no confirmed review when it began.
CallOK(c) ==
  /\ call[c].phase # "idle" => fill[call[c].run].scope = ScopeOf[c]
  /\ call[c].phase \in {"post", "load"} => Ended(call[c].run)
  /\ call[c].phase \in {"waiting", "post"} => call[c].run \notin call[c].old
  /\ answer[c].kind = "brief" =>
       OwnedBy(answer[c].run, ScopeOf[c]) /\ answer[c].run \notin call[c].old

OwnerInv ==
  /\ \A r \in Runs : FillOK(r)
  /\ \A s \in Scopes : CacheOK(s)
  /\ \A c \in Callers : CallOK(c)
  /\ \A r \in settled : Ended(r)

IInv == TypeOK /\ ExecutedInv /\ OwnerInv

LEMMA Records ==
  /\ NoLoad \in Loads /\ Loaded(Nothing) \in Loads
  /\ FreeFill \in Fills
  /\ IdleCall \in Calls
  /\ NoAnswer \in Answers
<1>1. NoLoad \in Loads /\ Loaded(Nothing) \in Loads
  BY DEF NoLoad, Loaded, Loads
<1>2. FreeFill \in Fills
  BY <1>1 DEF FreeFill, Fills
<1>3. IdleCall \in Calls
  BY <1>1 DEF IdleCall, Calls
<1>4. NoAnswer \in Answers
  BY DEF NoAnswer, Answers
<1> QED BY <1>1, <1>2, <1>3, <1>4

\* What is read of the posture of a run that was executed.
LEMMA LoadEffect ==
  ASSUME TypeOK, NEW r \in Runs, NEW load \in Loads, LoadInv(load, r),
         NEW next \in NextLoads(load, r)
  PROVE  next \in Loads /\ (next.step = "operator" => next.view \in Views) /\ log[r] # <<>>
<1>1. log[r] \in Seq(SUBSET Actions) /\ Len(log[r]) <= MaxLog /\ MaxLog \in Nat
  BY BriefAssumption DEF TypeOK
<1>2. load.step \in {"consumer", "operator"} /\ log[r] # <<>>
  BY DEF NextLoads, LoadInv, Loads
<1>3. Len(log[r]) \in States /\ Last(log[r]) \in SUBSET Actions
  BY <1>1, <1>2 DEF States, Last
<1>4. Loaded(Nothing) \in Loads /\ Loaded(Nothing).step # "operator"
  BY Records DEF Loaded
<1>5. CASE load.step = "consumer"
  <2> DEFINE view == [allowed |-> Last(log[r]), seen |-> Len(log[r])]
  <2>1. view \in Views
    BY <1>3 DEF Views
  <2>2. next = Loaded(Nothing) \/ next = [step |-> "operator", view |-> view, posture |-> Nothing]
    BY <1>5 DEF NextLoads, AfterConsumerView
  <2> HIDE DEF view
  <2> QED BY <1>2, <1>4, <2>1, <2>2 DEF Loads
<1>6. CASE load.step = "operator"
  <2> DEFINE posture == [allowed |-> load.view.allowed, seen |-> load.view.seen, state |-> Len(log[r])]
  <2>1. load.view \in Views
    BY <1>6 DEF LoadInv
  <2>2. posture \in Postures
    BY <1>3, <2>1 DEF Postures, Views
  <2>3. next = Loaded(Nothing) \/ next = Loaded(posture)
    BY <1>6 DEF NextLoads, AfterOperatorProfile
  <2> HIDE DEF posture
  <2>4. Loaded(posture) \in Loads /\ Loaded(posture).step # "operator"
    BY <2>2 DEF Loaded, Loads
  <2> QED BY <1>2, <1>4, <2>3, <2>4
<1> QED BY <1>2, <1>5, <1>6

\* What a request does with a brief.
LEMMA GivenEffect ==
  ASSUME TypeOK, NEW c \in Callers, NEW a \in Actions \cup {Nothing}, NEW b \in Briefs,
         NEW old \in SUBSET Runs, Given(c, a, b, old)
  PROVE  \E d \in Calls, e \in Answers :
           /\ call' = [call EXCEPT ![c] = d] /\ answer' = [answer EXCEPT ![c] = e]
           /\ d.old = old
           /\ d.phase = "idle" \/ (d.phase = "post" /\ d.run = b.run /\ b.run # Nothing /\ d.load = NoLoad)
           /\ e.kind = "brief" => e.run = b.run
           /\ e.kind # "reviewed" /\ (d.phase = "post" => e.kind = "none")
           /\ kept' \in [Callers -> Runs \cup {Nothing}]
           /\ \/ kept' = kept
              \/ /\ d.phase = "idle"
                 /\ kept' = [kept EXCEPT ![c] = IF store[Key(c)] = b THEN b.run ELSE Nothing]
<1>0. b.run \in Runs \cup {Nothing} /\ b.posture \in Postures \cup {Nothing}
  BY DEF Briefs
<1>1. CASE a # Nothing /\ CanReview(b, a)
  <2> DEFINE d == [IdleCall EXCEPT !.phase = "post", !.action = a, !.run = b.run, !.old = old]
  <2>1. d \in Calls /\ d.old = old /\ d.phase = "post" /\ d.run = b.run /\ d.load = NoLoad
    BY <1>0, Records DEF IdleCall, Calls
  <2>2. b.run # Nothing
    BY <1>1 DEF CanReview
  <2>3. call' = [call EXCEPT ![c] = d] /\ answer' = [answer EXCEPT ![c] = NoAnswer]
        /\ UNCHANGED kept
    BY <1>1 DEF Given
  <2>4. NoAnswer \in Answers /\ NoAnswer.kind = "none"
    BY Records DEF NoAnswer
  <2> HIDE DEF d
  <2> QED BY <2>1, <2>2, <2>3, <2>4 DEF TypeOK
<1>2. CASE ~(a # Nothing /\ CanReview(b, a))
  <2> DEFINE d == [IdleCall EXCEPT !.old = old]
             refused == [NoAnswer EXCEPT !.kind = "refused"]
             brief == [kind |-> "brief", run |-> b.run, posture |-> b.posture]
  <2>1. d \in Calls /\ d.old = old /\ d.phase = "idle"
    BY Records DEF IdleCall, Calls
  <2>2. /\ refused \in Answers /\ refused.kind = "refused"
        /\ brief \in Answers /\ brief.run = b.run /\ brief.kind = "brief"
    BY <1>0, Records DEF NoAnswer, Answers
  <2>3. call' = [call EXCEPT ![c] = d]
    BY <1>2 DEF Given
  <2>4. CASE a # Nothing
    <3>1. answer' = [answer EXCEPT ![c] = refused] /\ UNCHANGED kept
      BY <1>2, <2>4 DEF Given
    <3> HIDE DEF d, refused, brief
    <3> QED BY <2>1, <2>2, <2>3, <3>1 DEF TypeOK
  <2>5. CASE a = Nothing
    <3>1. answer' = [answer EXCEPT ![c] = brief]
          /\ kept' = [kept EXCEPT ![c] = IF store[Key(c)] = b THEN b.run ELSE Nothing]
      BY <1>2, <2>5 DEF Given
    <3>2. kept' \in [Callers -> Runs \cup {Nothing}]
      BY <1>0, <3>1 DEF TypeOK
    <3> HIDE DEF d, refused, brief
    <3> QED BY <2>1, <2>2, <2>3, <3>1, <3>2
  <2> QED BY <2>4, <2>5
<1> QED BY <1>1, <1>2

LEMMA FailsEffect ==
  ASSUME TypeOK, NEW c \in Callers, Fails(c)
  PROVE  \E d \in Calls, e \in Answers :
           /\ call' = [call EXCEPT ![c] = d] /\ answer' = [answer EXCEPT ![c] = e]
           /\ d.old = call[c].old /\ d.phase = "idle" /\ e.kind = "failed"
<1> DEFINE d == [IdleCall EXCEPT !.old = call[c].old]
           e == [NoAnswer EXCEPT !.kind = "failed"]
<1>1. call[c].old \in SUBSET Runs
  BY DEF TypeOK, Calls
<1>2. d \in Calls /\ d.old = call[c].old /\ d.phase = "idle"
  BY <1>1, Records DEF IdleCall, Calls
<1>3. e \in Answers /\ e.kind = "failed"
  BY Records DEF NoAnswer, Answers
<1>4. call' = [call EXCEPT ![c] = d] /\ answer' = [answer EXCEPT ![c] = e]
  BY DEF Fails
<1> HIDE DEF d, e
<1> QED BY <1>2, <1>3, <1>4

LEMMA WaitsEffect ==
  ASSUME TypeOK, NEW c \in Callers, NEW a \in Actions \cup {Nothing}, NEW r \in Runs, Waits(c, a, r)
  PROVE  \E d \in Calls, e \in Answers :
           /\ call' = [call EXCEPT ![c] = d] /\ answer' = [answer EXCEPT ![c] = e]
           /\ d.old = settled /\ d.phase = "waiting" /\ d.run = r /\ e.kind = "none"
<1> DEFINE d == [IdleCall EXCEPT !.phase = "waiting", !.action = a, !.run = r, !.old = settled]
<1>1. d \in Calls /\ d.old = settled /\ d.phase = "waiting" /\ d.run = r
  BY Records DEF IdleCall, Calls, TypeOK
<1>2. NoAnswer \in Answers /\ NoAnswer.kind = "none"
  BY Records DEF NoAnswer
<1>3. call' = [call EXCEPT ![c] = d] /\ answer' = [answer EXCEPT ![c] = NoAnswer]
  BY DEF Waits
<1> HIDE DEF d
<1> QED BY <1>1, <1>2, <1>3

\* What ends a fill.
LEMMA EndEffect ==
  ASSUME TypeOK, NEW r \in Runs, Publish(r) \/ Break(r)
  PROVE  \E d \in Fills :
           /\ fill' = [fill EXCEPT ![r] = d]
           /\ d.phase = "done" /\ d.scope = fill[r].scope /\ d.run = Nothing
           /\ d.brief # Nothing => d.brief.run = fill[r].run
           /\ store' \in [Scopes -> Briefs \cup {Nothing}]
           /\ \A s \in Scopes : store'[s] = store[s]
                               \/ (inflight[s] = r /\ (store'[s] # Nothing => store'[s].run = fill[r].run))
<1>0. fill[r] \in Fills
  BY DEF TypeOK
<1>1. CASE Publish(r)
  <2> DEFINE b == [run |-> fill[r].run, posture |-> fill[r].load.posture]
             d == [FreeFill EXCEPT !.phase = "done", !.scope = fill[r].scope, !.brief = b]
  <2>1. b \in Briefs /\ b.run = fill[r].run
    BY <1>0 DEF Fills, Loads, Briefs
  <2>2. d \in Fills /\ d.phase = "done" /\ d.scope = fill[r].scope /\ d.run = Nothing /\ d.brief = b
    BY <1>0, <2>1, Records DEF FreeFill, Fills
  <2>3. fill' = [fill EXCEPT ![r] = d]
        /\ store' = [s \in Scopes |-> IF inflight[s] = r THEN b ELSE store[s]]
    BY <1>1 DEF Publish
  <2> HIDE DEF b, d
  <2>4. store' \in [Scopes -> Briefs \cup {Nothing}]
    BY <2>1, <2>3 DEF TypeOK
  <2> QED BY <2>1, <2>2, <2>3, <2>4
<1>2. CASE Break(r)
  <2> DEFINE d == [FreeFill EXCEPT !.phase = "done", !.scope = fill[r].scope]
  <2>1. d \in Fills /\ d.phase = "done" /\ d.scope = fill[r].scope /\ d.run = Nothing /\ d.brief = Nothing
    BY <1>0, Records DEF FreeFill, Fills
  <2>2. fill' = [fill EXCEPT ![r] = d] /\ store' = store
    BY <1>2 DEF Break
  <2> HIDE DEF d
  <2> QED BY <2>1, <2>2 DEF TypeOK
<1> QED BY <1>1, <1>2

\* The review states of a run are only ever added to.
LEMMA LogGrows ==
  ASSUME TypeOK, NEW r \in Runs, NEW next \in SUBSET Actions, Len(log[r]) < MaxLog,
         log' = [log EXCEPT ![r] = Append(@, next)]
  PROVE  /\ log' \in [Runs -> Seq(SUBSET Actions)] /\ \A q \in Runs : Len(log'[q]) <= MaxLog
         /\ \A q \in Runs : log[q] # <<>> => log'[q] # <<>>
         /\ log'[r] # <<>>
<1>1. log[r] \in Seq(SUBSET Actions) /\ MaxLog \in Nat
  BY BriefAssumption DEF TypeOK
<1>2. log'[r] = Append(log[r], next) /\ \A q \in Runs : q # r => log'[q] = log[q]
  BY DEF TypeOK
<1>3. /\ Append(log[r], next) \in Seq(SUBSET Actions) /\ Append(log[r], next) # <<>>
      /\ Len(Append(log[r], next)) = Len(log[r]) + 1 /\ Len(log[r]) + 1 <= MaxLog
  BY <1>1
<1>4. log' \in [Runs -> Seq(SUBSET Actions)]
  BY <1>3 DEF TypeOK
<1> QED BY <1>2, <1>3, <1>4 DEF TypeOK

\* Every step preserves the types.
LEMMA NextTypes == TypeOK /\ ExecutedInv /\ [Next]_vars => TypeOK' /\ ExecutedInv'
<1> SUFFICES ASSUME TypeOK, ExecutedInv, [Next]_vars PROVE TypeOK' /\ ExecutedInv'
  OBVIOUS
<1>0. \A c \in Callers : ScopeOf[c] \in Scopes /\ Key(c) = ScopeOf[c]
  BY BriefAssumption DEF Key
<1>1. ASSUME NEW c \in Callers, NEW a \in Actions \cup {Nothing}, Hit(c, a) PROVE TypeOK' /\ ExecutedInv'
  <2>1. store[Key(c)] \in Briefs /\ settled \in SUBSET Runs
    BY <1>0, <1>1 DEF TypeOK, Hit
  <2>2. Given(c, a, store[Key(c)], settled) /\ UNCHANGED <<log, store, inflight, fill, settled>>
    BY <1>1 DEF Hit
  <2>3. PICK d \in Calls, e \in Answers :
           /\ call' = [call EXCEPT ![c] = d] /\ answer' = [answer EXCEPT ![c] = e]
           /\ d.phase = "idle" \/ (/\ d.phase = "post" /\ d.load = NoLoad
                                  /\ d.run = store[Key(c)].run /\ d.run # Nothing)
           /\ kept' \in [Callers -> Runs \cup {Nothing}]
    BY <2>1, <2>2, GivenEffect
  <2>4. d.phase # "idle" => d.run \in Runs
    BY <2>1, <2>3 DEF Briefs
  <2>5. TypeOK'
    BY <2>2, <2>3, <2>4 DEF TypeOK
  <2>6. ExecutedInv'
    BY <2>2, <2>3 DEF ExecutedInv, FillLoads, CallLoads, LoadInv, TypeOK
  <2> QED BY <2>5, <2>6
<1>2. ASSUME NEW c \in Callers, NEW a \in Actions \cup {Nothing}, Join(c, a) PROVE TypeOK' /\ ExecutedInv'
  <2>1. inflight[Key(c)] \in Runs /\ Waits(c, a, inflight[Key(c)]) /\ UNCHANGED <<inflight, fill>>
    BY <1>0, <1>2 DEF Join, TypeOK
  <2>2. PICK d \in Calls, e \in Answers :
           /\ call' = [call EXCEPT ![c] = d] /\ answer' = [answer EXCEPT ![c] = e]
           /\ d.phase = "waiting" /\ d.run = inflight[Key(c)]
    BY <2>1, WaitsEffect
  <2>3. UNCHANGED <<log, store, settled, kept>>
    BY <2>1 DEF Waits
  <2>4. TypeOK'
    BY <2>1, <2>2, <2>3 DEF TypeOK
  <2>5. ExecutedInv'
    BY <2>1, <2>2, <2>3 DEF ExecutedInv, FillLoads, CallLoads, LoadInv, TypeOK
  <2> QED BY <2>4, <2>5
<1>3. ASSUME NEW c \in Callers, NEW a \in Actions \cup {Nothing}, NEW r \in Runs, Start(c, a, r)
      PROVE  TypeOK' /\ ExecutedInv'
  <2> DEFINE f == [FreeFill EXCEPT !.phase = "source", !.scope = ScopeOf[c]]
  <2>1. f \in Fills /\ f.phase = "source" /\ f.load = NoLoad
    BY <1>0, Records DEF FreeFill, Fills
  <2>2. fill' = [fill EXCEPT ![r] = f] /\ inflight' = [inflight EXCEPT ![Key(c)] = r] /\ Waits(c, a, r)
    BY <1>3 DEF Start
  <2>3. PICK d \in Calls, e \in Answers :
           /\ call' = [call EXCEPT ![c] = d] /\ answer' = [answer EXCEPT ![c] = e]
           /\ d.phase = "waiting" /\ d.run = r
    BY <2>2, WaitsEffect
  <2>4. UNCHANGED <<log, store, settled, kept>>
    BY <2>2 DEF Waits
  <2> HIDE DEF f
  <2>5. TypeOK'
    BY <1>0, <2>1, <2>2, <2>3, <2>4 DEF TypeOK
  <2>6. ExecutedInv'
    BY <2>1, <2>2, <2>3, <2>4 DEF ExecutedInv, FillLoads, CallLoads, LoadInv, TypeOK
  <2> QED BY <2>5, <2>6
<1>4. ASSUME NEW c \in Callers, Resume(c) PROVE TypeOK' /\ ExecutedInv'
  <2> DEFINE b == fill[call[c].run].brief
  <2>1. UNCHANGED <<log, store, inflight, fill, settled>> /\ call[c] \in Calls /\ call[c].run \in Runs
        /\ call[c].old \in SUBSET Runs /\ call[c].action \in Actions \cup {Nothing}
    BY <1>4 DEF Resume, TypeOK, Calls
  <2>2. b \in Briefs \cup {Nothing}
    BY <2>1 DEF TypeOK, Fills
  <2>3. \E d \in Calls, e \in Answers :
           /\ call' = [call EXCEPT ![c] = d] /\ answer' = [answer EXCEPT ![c] = e]
           /\ d.phase = "idle" \/ (d.phase = "post" /\ d.run \in Runs /\ d.load = NoLoad)
           /\ kept' \in [Callers -> Runs \cup {Nothing}]
    <3>1. CASE b = Nothing
      <4>1. Fails(c) /\ UNCHANGED kept
        BY <1>4, <3>1 DEF Resume
      <4> QED BY <4>1, FailsEffect DEF TypeOK
    <3>2. CASE b # Nothing
      <4>1. Given(c, call[c].action, b, call[c].old)
        BY <1>4, <3>2 DEF Resume
      <4>2. b \in Briefs /\ b.run \in Runs \cup {Nothing}
        BY <2>2, <3>2 DEF Briefs
      <4> HIDE DEF b
      <4>3. PICK d \in Calls, e \in Answers :
               /\ call' = [call EXCEPT ![c] = d] /\ answer' = [answer EXCEPT ![c] = e]
               /\ d.phase = "idle" \/ (d.phase = "post" /\ d.run = b.run /\ b.run # Nothing /\ d.load = NoLoad)
               /\ kept' \in [Callers -> Runs \cup {Nothing}]
        BY <2>1, <4>1, <4>2, GivenEffect
      <4>4. d.phase = "idle" \/ (d.phase = "post" /\ d.run \in Runs /\ d.load = NoLoad)
        BY <4>2, <4>3
      <4> QED BY <4>3, <4>4
    <3> QED BY <3>1, <3>2
  <2>4. PICK d \in Calls, e \in Answers :
           /\ call' = [call EXCEPT ![c] = d] /\ answer' = [answer EXCEPT ![c] = e]
           /\ d.phase = "idle" \/ (d.phase = "post" /\ d.run \in Runs /\ d.load = NoLoad)
           /\ kept' \in [Callers -> Runs \cup {Nothing}]
    BY <2>3
  <2>5. TypeOK'
    BY <2>1, <2>4 DEF TypeOK
  <2>6. ExecutedInv'
    BY <2>1, <2>4 DEF ExecutedInv, FillLoads, CallLoads, LoadInv, TypeOK
  <2> QED BY <2>5, <2>6
<1>5. ASSUME NEW r \in Runs, Execute(r) PROVE TypeOK' /\ ExecutedInv'
  <2>1. OnlyFill /\ fill[r] \in Fills /\ fill[r].phase = "source" /\ fill[r].load = NoLoad
    BY <1>5 DEF Execute, TypeOK, ExecutedInv, FillLoads, CallLoads
  <2>2. CASE \E first \in SUBSET Actions :
               log' = [log EXCEPT ![r] = <<first>>]
               /\ fill' = [fill EXCEPT ![r].phase = "load", ![r].run = r]
    <3>1. PICK first \in SUBSET Actions :
             log' = [log EXCEPT ![r] = <<first>>]
             /\ fill' = [fill EXCEPT ![r].phase = "load", ![r].run = r]
      BY <2>2
    <3>2. <<first>> \in Seq(SUBSET Actions) /\ Len(<<first>>) = 1 /\ <<first>> # <<>> /\ 1 <= MaxLog
      BY BriefAssumption
    <3>3. fill' \in [Runs -> Fills] /\ fill'[r].load = NoLoad
          /\ \A q \in Runs : q # r => fill'[q] = fill[q]
      BY <2>1, <3>1 DEF TypeOK, Fills
    <3>4. log' \in [Runs -> Seq(SUBSET Actions)] /\ \A q \in Runs : Len(log'[q]) <= MaxLog
      BY <3>1, <3>2 DEF TypeOK
    <3>5. TypeOK'
      BY <2>1, <3>3, <3>4 DEF TypeOK, OnlyFill
    <3>6. log'[r] # <<>> /\ \A q \in Runs : q # r => log'[q] = log[q]
      BY <3>1, <3>2 DEF TypeOK
    <3>7. fill'[r].phase = "load"
      BY <2>1, <3>1 DEF TypeOK, Fills
    <3>8. FillLoads'
      BY <3>3, <3>6, <3>7 DEF ExecutedInv, FillLoads, CallLoads, LoadInv, NoLoad
    <3>9. \A q \in Runs : log[q] # <<>> => log'[q] # <<>>
      BY <3>6
    <3>10. CallLoads'
      BY <2>1, <3>9 DEF OnlyFill, ExecutedInv, FillLoads, CallLoads, LoadInv, TypeOK
    <3> QED BY <3>5, <3>8, <3>10 DEF ExecutedInv
  <2>3. CASE fill' = [fill EXCEPT ![r].phase = "load", ![r].load = Loaded(Nothing)] /\ log' = log
    <3>1. fill' \in [Runs -> Fills] /\ fill'[r].phase = "load" /\ fill'[r].load = Loaded(Nothing)
          /\ \A q \in Runs : q # r => fill'[q] = fill[q]
      BY <2>1, <2>3, Records DEF TypeOK, Fills
    <3>2. TypeOK'
      BY <2>1, <2>3, <3>1 DEF TypeOK, OnlyFill
    <3>3. ExecutedInv'
      BY <2>1, <2>3, <3>1 DEF ExecutedInv, FillLoads, CallLoads, LoadInv, OnlyFill, Loaded
    <3> QED BY <3>2, <3>3
  <2> QED BY <1>5, <2>1, <2>2, <2>3 DEF Execute
<1>6. ASSUME NEW r \in Runs, LoadPosture(r) PROVE TypeOK' /\ ExecutedInv'
  <2>1. OnlyFill /\ log' = log /\ fill[r] \in Fills /\ fill[r].phase = "load"
        /\ fill[r].load \in Loads /\ LoadInv(fill[r].load, r)
    BY <1>6 DEF LoadPosture, TypeOK, ExecutedInv, FillLoads, Fills
  <2>2. PICK next \in NextLoads(fill[r].load, r) : fill' = [fill EXCEPT ![r].load = next]
    BY <1>6 DEF LoadPosture
  <2>3. next \in Loads /\ (next.step = "operator" => next.view \in Views) /\ log[r] # <<>>
    BY <2>1, <2>2, LoadEffect
  <2>4. fill' \in [Runs -> Fills] /\ fill'[r].phase = "load" /\ fill'[r].load = next
        /\ \A q \in Runs : q # r => fill'[q] = fill[q]
    BY <2>1, <2>2, <2>3 DEF TypeOK, Fills
  <2>5. TypeOK'
    BY <2>1, <2>4 DEF TypeOK, OnlyFill
  <2>6. ExecutedInv'
    BY <2>1, <2>3, <2>4 DEF ExecutedInv, FillLoads, CallLoads, LoadInv, OnlyFill
  <2> QED BY <2>5, <2>6
<1>7. ASSUME NEW r \in Runs, Publish(r) \/ Break(r) PROVE TypeOK' /\ ExecutedInv'
  <2>1. PICK d \in Fills : fill' = [fill EXCEPT ![r] = d] /\ d.phase = "done"
                          /\ store' \in [Scopes -> Briefs \cup {Nothing}]
    BY <1>7, EndEffect
  <2>2. inflight' = Released(r) /\ UNCHANGED <<log, call, answer, settled, kept>>
    BY <1>7 DEF Publish, Break
  <2>3. TypeOK'
    BY <2>1, <2>2 DEF TypeOK, Released
  <2>4. ExecutedInv'
    BY <2>1, <2>2 DEF ExecutedInv, FillLoads, CallLoads, LoadInv, TypeOK
  <2> QED BY <2>3, <2>4
<1>8. ASSUME NEW r \in Runs, ReviewElsewhere(r) PROVE TypeOK' /\ ExecutedInv'
  <2>1. PICK next \in SUBSET Actions : log' = [log EXCEPT ![r] = Append(@, next)] /\ Len(log[r]) < MaxLog
    BY <1>8 DEF ReviewElsewhere, Reviewed
  <2>2. UNCHANGED <<store, inflight, fill, call, answer, settled, kept>>
    BY <1>8 DEF ReviewElsewhere
  <2>3. /\ log' \in [Runs -> Seq(SUBSET Actions)] /\ \A q \in Runs : Len(log'[q]) <= MaxLog
        /\ \A q \in Runs : log[q] # <<>> => log'[q] # <<>>
    BY <2>1, LogGrows
  <2>4. TypeOK'
    BY <2>2, <2>3 DEF TypeOK
  <2>5. ExecutedInv'
    BY <2>2, <2>3 DEF ExecutedInv, FillLoads, CallLoads, LoadInv, TypeOK
  <2> QED BY <2>4, <2>5
<1>9. ASSUME NEW c \in Callers, Post(c) PROVE TypeOK' /\ ExecutedInv'
  <2>1. call[c] \in Calls /\ call[c].phase = "post" /\ call[c].run \in Runs /\ call[c].load = NoLoad
    BY <1>9 DEF Post, TypeOK, ExecutedInv, FillLoads, CallLoads
  <2>2. PICK next \in SUBSET Actions : log' = [log EXCEPT ![call[c].run] = Append(@, next)]
    BY <1>9 DEF Post, Reviewed
  <2>3. Len(log[call[c].run]) < MaxLog /\ UNCHANGED <<store, inflight, fill, answer, settled, kept>>
    BY <1>9 DEF Post
  <2>4. Len(log[call[c].run]) + 1 \in Nat
    BY <2>1 DEF TypeOK
  <2>5. call' = [call EXCEPT ![c].phase = "load", ![c].base = Len(log[call[c].run]) + 1]
    BY <1>9 DEF Post
  <2>6. call' \in [Callers -> Calls] /\ call'[c].phase = "load" /\ call'[c].run = call[c].run
        /\ call'[c].load = NoLoad /\ \A d \in Callers : d # c => call'[d] = call[d]
    BY <2>1, <2>4, <2>5 DEF TypeOK, Calls
  <2>7. /\ log' \in [Runs -> Seq(SUBSET Actions)] /\ \A q \in Runs : Len(log'[q]) <= MaxLog
        /\ \A q \in Runs : log[q] # <<>> => log'[q] # <<>>
        /\ log'[call[c].run] # <<>>
    BY <2>1, <2>2, <2>3, LogGrows
  <2>8. TypeOK'
    BY <2>1, <2>3, <2>6, <2>7 DEF TypeOK
  <2>9. FillLoads'
    BY <2>3, <2>7 DEF ExecutedInv, FillLoads, CallLoads, LoadInv
  <2>10. LoadInv(call[c].load, call[c].run)'
    BY <2>6, <2>7 DEF LoadInv, NoLoad
  <2>11. ASSUME NEW d \in Callers, d # c
         PROVE  /\ call'[d].phase = "post" => call'[d].load = NoLoad
                /\ call'[d].phase = "load" => LoadInv(call[d].load, call[d].run)'
    <3>1. call'[d] = call[d] /\ (call[d].phase = "load" => call[d].run \in Runs)
      BY <2>6, <2>11 DEF TypeOK
    <3> QED BY <2>7, <3>1 DEF ExecutedInv, FillLoads, CallLoads, LoadInv
  <2>12. CallLoads'
    <3>1. call'[c].phase = "load" /\ call'[c].load = NoLoad
      BY <2>6
    <3> QED BY <2>10, <2>11, <3>1 DEF CallLoads
  <2> QED BY <2>8, <2>9, <2>12 DEF ExecutedInv
<1>10. ASSUME NEW c \in Callers, PostFails(c) \/ LoadRaises(c) \/ Cancel(c) PROVE TypeOK' /\ ExecutedInv'
  <2>1. UNCHANGED <<log, store, inflight, fill, settled, kept>>
    BY <1>10 DEF PostFails, LoadRaises, Cancel
  <2>2. PICK d \in Calls, e \in Answers :
           /\ call' = [call EXCEPT ![c] = d] /\ answer' = [answer EXCEPT ![c] = e] /\ d.phase = "idle"
    BY <1>10, FailsEffect DEF PostFails, LoadRaises, Cancel
  <2>3. TypeOK'
    BY <2>1, <2>2 DEF TypeOK
  <2>4. ExecutedInv'
    BY <2>1, <2>2 DEF ExecutedInv, FillLoads, CallLoads, LoadInv, TypeOK
  <2> QED BY <2>3, <2>4
<1>11. ASSUME NEW c \in Callers, LoadAgain(c) PROVE TypeOK' /\ ExecutedInv'
  <2>1. call[c] \in Calls /\ call[c].phase = "load" /\ call[c].run \in Runs /\ call[c].load \in Loads
        /\ LoadInv(call[c].load, call[c].run)
        /\ UNCHANGED <<log, store, inflight, fill, answer, settled, kept>>
    BY <1>11 DEF LoadAgain, TypeOK, ExecutedInv, CallLoads, Calls
  <2>2. PICK next \in NextLoads(call[c].load, call[c].run) : call' = [call EXCEPT ![c].load = next]
    BY <1>11 DEF LoadAgain
  <2>3. next \in Loads /\ (next.step = "operator" => next.view \in Views) /\ log[call[c].run] # <<>>
    BY <2>1, <2>2, LoadEffect
  <2>4. call' \in [Callers -> Calls] /\ call'[c].phase = "load" /\ call'[c].run = call[c].run
        /\ call'[c].load = next /\ \A d \in Callers : d # c => call'[d] = call[d]
    BY <2>1, <2>2, <2>3 DEF TypeOK, Calls
  <2>5. TypeOK'
    BY <2>1, <2>4 DEF TypeOK
  <2>6. ExecutedInv'
    BY <2>1, <2>3, <2>4 DEF ExecutedInv, FillLoads, CallLoads, LoadInv
  <2> QED BY <2>5, <2>6
<1>12. ASSUME NEW c \in Callers, Conclude(c) PROVE TypeOK' /\ ExecutedInv'
  <2>1. call[c] \in Calls /\ call[c].run \in Runs /\ call[c].load.posture \in Postures \cup {Nothing}
    BY <1>12 DEF Conclude, TypeOK, Calls, Loads
  <2>2. /\ call' = [call EXCEPT ![c].phase = "idle", ![c].load = NoLoad]
        /\ answer' = [answer EXCEPT ![c] = [kind |-> "reviewed", run |-> call[c].run,
                                             posture |-> call[c].load.posture]]
        /\ settled' = settled \cup {call[c].run}
        /\ UNCHANGED <<log, fill>>
    BY <1>12 DEF Conclude, Reply
  <2>3. /\ store' = [store EXCEPT ![Key(c)] = Nothing] /\ inflight' = [inflight EXCEPT ![Key(c)] = Nothing]
        /\ kept' \in [Callers -> Runs \cup {Nothing}]
    BY <1>12 DEF Conclude, Cleared, Dropped, TypeOK
  <2>4. call' \in [Callers -> Calls] /\ call'[c].phase = "idle"
        /\ \A d \in Callers : d # c => call'[d] = call[d]
    BY <2>1, <2>2, Records DEF TypeOK, Calls
  <2>5. answer' \in [Callers -> Answers]
    BY <2>1, <2>2 DEF TypeOK, Answers
  <2>6. TypeOK'
    BY <2>1, <2>2, <2>3, <2>4, <2>5 DEF TypeOK
  <2>7. ExecutedInv'
    BY <2>2, <2>4 DEF ExecutedInv, FillLoads, CallLoads, LoadInv
  <2> QED BY <2>6, <2>7
<1>13. ASSUME NEW s \in Scopes, Expire(s) \/ ClearElsewhere(s) PROVE TypeOK' /\ ExecutedInv'
  <2>1. /\ store' = [store EXCEPT ![s] = Nothing] /\ kept' \in [Callers -> Runs \cup {Nothing}]
        /\ inflight' \in {inflight, [inflight EXCEPT ![s] = Nothing]}
        /\ UNCHANGED <<log, fill, call, answer, settled>>
    BY <1>13 DEF Expire, ClearElsewhere, Cleared, Dropped, TypeOK
  <2>2. TypeOK'
    BY <2>1 DEF TypeOK
  <2>3. ExecutedInv'
    BY <2>1 DEF ExecutedInv, FillLoads, CallLoads, LoadInv
  <2> QED BY <2>2, <2>3
<1>14. CASE UNCHANGED vars
  BY <1>14 DEF vars, TypeOK, ExecutedInv, FillLoads, CallLoads, LoadInv
<1> QED BY <1>1, <1>2, <1>3, <1>4, <1>5, <1>6, <1>7, <1>8, <1>9, <1>10, <1>11, <1>12, <1>13, <1>14 DEF Next

\* The scope of a fill is kept, and a fill that has ended does not resume.
FillGrows ==
  \A r \in Runs :
     /\ fill[r].scope # Nothing => fill'[r].scope = fill[r].scope
     /\ fill[r].phase = "done" => fill'[r].phase = "done"

LEMMA StaysOwned ==
  ASSUME FillGrows, NEW run \in Runs \cup {Nothing}, NEW s \in Scopes, OwnedBy(run, s)
  PROVE  OwnedBy(run, s)'
<1>1. CASE run = Nothing
  BY <1>1 DEF OwnedBy
<1>2. CASE run \in Runs
  <2>1. fill[run].scope = s /\ s # Nothing
    BY <1>2, BriefAssumption DEF OwnedBy
  <2>2. fill[run].scope # Nothing => fill'[run].scope = fill[run].scope
    BY <1>2 DEF FillGrows
  <2> QED BY <2>1, <2>2 DEF OwnedBy
<1> QED BY <1>1, <1>2

LEMMA StaysEnded ==
  ASSUME FillGrows, NEW run \in Runs \cup {Nothing}, Ended(run)
  PROVE  Ended(run)'
<1>1. CASE run = Nothing
  BY <1>1 DEF Ended
<1>2. CASE run \in Runs
  <2>1. fill[run].phase = "done"
    BY <1>2, BriefAssumption DEF Ended
  <2>2. fill[run].phase = "done" => fill'[run].phase = "done"
    BY <1>2 DEF FillGrows
  <2> QED BY <2>1, <2>2 DEF Ended
<1> QED BY <1>1, <1>2

\* A request that a step leaves alone.
LEMMA CallFrame ==
  ASSUME IInv, FillGrows, NEW c \in Callers, call'[c] = call[c], answer'[c] = answer[c]
  PROVE  CallOK(c)'
<1>1. CallOK(c) /\ ScopeOf[c] \in Scopes /\ ScopeOf[c] # Nothing
  BY BriefAssumption DEF IInv, OwnerInv
<1>2. call[c].phase # "idle" => call[c].run \in Runs
  BY DEF IInv, TypeOK
<1>3. answer[c].run \in Runs \cup {Nothing}
  BY DEF IInv, TypeOK, Answers
<1>4. ASSUME call[c].phase # "idle" PROVE fill'[call[c].run].scope = ScopeOf[c]
  <2>1. call[c].run \in Runs /\ fill[call[c].run].scope = ScopeOf[c]
    BY <1>1, <1>2, <1>4 DEF CallOK
  <2>2. fill[call[c].run].scope # Nothing => fill'[call[c].run].scope = fill[call[c].run].scope
    BY <2>1 DEF FillGrows
  <2> QED BY <1>1, <2>1, <2>2
<1>5. ASSUME call[c].phase \in {"post", "load"} PROVE Ended(call[c].run)'
  <2>1. call[c].run \in Runs /\ Ended(call[c].run)
    BY <1>1, <1>2, <1>5 DEF CallOK
  <2>2. fill[call[c].run].phase = "done" => fill'[call[c].run].phase = "done"
    BY <2>1 DEF FillGrows
  <2> QED BY <2>1, <2>2 DEF Ended
<1>6. ASSUME answer[c].kind = "brief" PROVE OwnedBy(answer[c].run, ScopeOf[c])'
  <2>1. OwnedBy(answer[c].run, ScopeOf[c])
    BY <1>1, <1>6 DEF CallOK
  <2>2. CASE answer[c].run = Nothing
    BY <2>2 DEF OwnedBy
  <2>3. CASE answer[c].run \in Runs
    <3>1. fill[answer[c].run].scope # Nothing => fill'[answer[c].run].scope = fill[answer[c].run].scope
      BY <2>3 DEF FillGrows
    <3> QED BY <1>1, <2>1, <2>3, <3>1, BriefAssumption DEF OwnedBy
  <2> QED BY <1>3, <2>2, <2>3
<1> QED BY <1>1, <1>4, <1>5, <1>6 DEF CallOK, Ended, OwnedBy

\* A scope whose brief and fill a step keeps or drops.
LEMMA CacheFrame ==
  ASSUME IInv, FillGrows, NEW s \in Scopes,
         store'[s] \in {store[s], Nothing}, inflight'[s] \in {inflight[s], Nothing},
         store'[s] # Nothing => store[s].run \notin settled',
         inflight'[s] # Nothing => fill'[inflight[s]].phase \in {"source", "load"}
  PROVE  CacheOK(s)'
<1>1. CacheOK(s) /\ s # Nothing
  BY BriefAssumption DEF IInv, OwnerInv
<1>2. ASSUME store'[s] # Nothing PROVE (OwnedBy(store[s].run, s) /\ Ended(store[s].run))'
  <2> DEFINE run == store[s].run
  <2>1. store'[s] = store[s] /\ run \in Runs \cup {Nothing} /\ OwnedBy(run, s) /\ Ended(run)
    BY <1>1, <1>2 DEF IInv, TypeOK, Briefs, CacheOK
  <2>2. CASE run = Nothing
    BY <2>1, <2>2 DEF OwnedBy, Ended
  <2>3. CASE run \in Runs
    <3>1. /\ fill[run].scope # Nothing => fill'[run].scope = fill[run].scope
          /\ fill[run].phase = "done" => fill'[run].phase = "done"
      BY <2>3 DEF FillGrows
    <3>2. run # Nothing
      BY <2>3, BriefAssumption
    <3>3. fill'[run].scope = s /\ fill'[run].phase = "done"
      BY <1>1, <2>1, <3>1, <3>2 DEF OwnedBy, Ended
    <3> QED BY <2>1, <3>3 DEF OwnedBy, Ended
  <2> QED BY <2>1, <2>2, <2>3
<1>3. ASSUME inflight'[s] # Nothing PROVE fill'[inflight'[s]].scope = s
  <2>1. inflight'[s] = inflight[s] /\ inflight[s] \in Runs /\ fill[inflight[s]].scope = s
    BY <1>1, <1>3 DEF IInv, TypeOK, CacheOK
  <2>2. fill[inflight[s]].scope # Nothing => fill'[inflight[s]].scope = fill[inflight[s]].scope
    BY <2>1 DEF FillGrows
  <2> QED BY <1>1, <2>1, <2>2
<1> QED BY <1>2, <1>3 DEF CacheOK, OwnedBy, Ended

LEMMA SettledFrame ==
  ASSUME IInv, FillGrows, settled' = settled
  PROVE  \A r \in settled' : Ended(r)'
<1> SUFFICES ASSUME NEW r \in settled PROVE Ended(r)'
  OBVIOUS
<1>1. r \in Runs /\ Ended(r)
  BY DEF IInv, TypeOK, OwnerInv
<1> QED BY <1>1, StaysEnded

\* A step of one request, which leaves the fills and the caches alone.
LEMMA RequestStep ==
  ASSUME IInv, UNCHANGED <<store, inflight, fill, settled>>, NEW c \in Callers,
         \A d \in Callers : d # c => call'[d] = call[d] /\ answer'[d] = answer[d],
         CallOK(c)'
  PROVE  OwnerInv'
<1>1. FillGrows
  BY DEF FillGrows
<1>2. \A r \in Runs : FillOK(r)'
  BY DEF IInv, OwnerInv, FillOK
<1>3. ASSUME NEW s \in Scopes PROVE CacheOK(s)'
  BY DEF IInv, OwnerInv, CacheOK, OwnedBy, Ended
<1>4. ASSUME NEW d \in Callers PROVE CallOK(d)'
  <2>1. CASE d = c
    BY <2>1
  <2>2. CASE d # c
    BY <1>1, <2>2, CallFrame
  <2> QED BY <2>1, <2>2
<1>5. \A r \in settled' : Ended(r)'
  BY <1>1, SettledFrame
<1> QED BY <1>2, <1>3, <1>4, <1>5 DEF OwnerInv

\* A request is given a brief of its scope whose review was not confirmed
\* when it began.
LEMMA GivenKeeps ==
  ASSUME IInv, NEW c \in Callers, NEW a \in Actions \cup {Nothing}, NEW b \in Briefs,
         NEW old \in SUBSET Runs, Given(c, a, b, old), UNCHANGED <<store, inflight, fill, settled>>,
         OwnedBy(b.run, ScopeOf[c]), Ended(b.run), b.run \notin old
  PROVE  OwnerInv'
<1>1. TypeOK
  BY DEF IInv
<1>2. PICK d \in Calls, e \in Answers :
         /\ call' = [call EXCEPT ![c] = d] /\ answer' = [answer EXCEPT ![c] = e]
         /\ d.old = old
         /\ d.phase = "idle" \/ (d.phase = "post" /\ d.run = b.run /\ b.run # Nothing /\ d.load = NoLoad)
         /\ e.kind = "brief" => e.run = b.run
  BY <1>1, GivenEffect
<1>3. /\ call'[c] = d /\ answer'[c] = e
      /\ \A x \in Callers : x # c => call'[x] = call[x] /\ answer'[x] = answer[x]
  BY <1>1, <1>2 DEF TypeOK
<1>4. CallOK(c)'
  BY <1>2, <1>3 DEF CallOK, OwnedBy, Ended
<1> QED BY <1>3, <1>4, RequestStep

LEMMA FailsKeeps ==
  ASSUME IInv, NEW c \in Callers, Fails(c), UNCHANGED <<store, inflight, fill, settled>>
  PROVE  OwnerInv'
<1>1. TypeOK
  BY DEF IInv
<1>2. PICK d \in Calls, e \in Answers :
         /\ call' = [call EXCEPT ![c] = d] /\ answer' = [answer EXCEPT ![c] = e]
         /\ d.phase = "idle" /\ e.kind = "failed"
  BY <1>1, FailsEffect
<1>3. /\ call'[c] = d /\ answer'[c] = e
      /\ \A x \in Callers : x # c => call'[x] = call[x] /\ answer'[x] = answer[x]
  BY <1>1, <1>2 DEF TypeOK
<1>4. CallOK(c)'
  BY <1>2, <1>3 DEF CallOK
<1> QED BY <1>3, <1>4, RequestStep

\* Every step preserves who owns what, and what was not confirmed before.
LEMMA NextOwners == IInv /\ [Next]_vars => OwnerInv'
<1> SUFFICES ASSUME IInv, [Next]_vars PROVE OwnerInv'
  OBVIOUS
<1>0. TypeOK /\ \A c \in Callers : ScopeOf[c] \in Scopes /\ Key(c) = ScopeOf[c] /\ ScopeOf[c] # Nothing
  BY BriefAssumption DEF Key, IInv
<1>1. ASSUME NEW c \in Callers, NEW a \in Actions \cup {Nothing}, Hit(c, a) PROVE OwnerInv'
  <2>1. /\ store[ScopeOf[c]] \in Briefs /\ settled \in SUBSET Runs /\ store[ScopeOf[c]] # Nothing
        /\ Given(c, a, store[ScopeOf[c]], settled) /\ UNCHANGED <<store, inflight, fill, settled>>
    BY <1>0, <1>1 DEF TypeOK, Hit
  <2>2. CacheOK(ScopeOf[c])
    BY <1>0 DEF IInv, OwnerInv
  <2> QED BY <2>1, <2>2, GivenKeeps DEF CacheOK
<1>2. ASSUME NEW c \in Callers, NEW a \in Actions \cup {Nothing}, Join(c, a) PROVE OwnerInv'
  <2> DEFINE r == inflight[ScopeOf[c]]
  <2>1. /\ r \in Runs /\ Waits(c, a, r) /\ UNCHANGED <<store, inflight, fill, settled>>
    BY <1>0, <1>2 DEF Join, TypeOK, Waits
  <2>2. fill[r].scope = ScopeOf[c] /\ fill[r].phase \in {"source", "load"}
    BY <1>0, <2>1, BriefAssumption DEF IInv, OwnerInv, CacheOK
  <2>3. r \notin settled
    BY <2>1, <2>2, BriefAssumption DEF IInv, OwnerInv, Ended
  <2> HIDE DEF r
  <2>4. PICK d \in Calls, e \in Answers :
           /\ call' = [call EXCEPT ![c] = d] /\ answer' = [answer EXCEPT ![c] = e]
           /\ d.old = settled /\ d.phase = "waiting" /\ d.run = r /\ e.kind = "none"
    BY <1>0, <2>1, WaitsEffect
  <2>5. /\ call'[c] = d /\ answer'[c] = e
        /\ \A x \in Callers : x # c => call'[x] = call[x] /\ answer'[x] = answer[x]
    BY <1>0, <2>4 DEF TypeOK
  <2>6. CallOK(c)'
    BY <2>1, <2>2, <2>3, <2>4, <2>5 DEF CallOK
  <2> QED BY <2>1, <2>5, <2>6, RequestStep
<1>3. ASSUME NEW c \in Callers, NEW a \in Actions \cup {Nothing}, NEW r \in Runs, Start(c, a, r)
      PROVE  OwnerInv'
  <2> DEFINE f == [FreeFill EXCEPT !.phase = "source", !.scope = ScopeOf[c]]
  <2>1. f.phase = "source" /\ f.scope = ScopeOf[c] /\ f.run = Nothing /\ f.brief = Nothing
    BY DEF FreeFill
  <2>2. /\ fill' = [fill EXCEPT ![r] = f] /\ inflight' = [inflight EXCEPT ![ScopeOf[c]] = r]
        /\ Waits(c, a, r) /\ fill[r].phase = "free" /\ store[ScopeOf[c]] = Nothing
    BY <1>0, <1>3 DEF Start
  <2>3. UNCHANGED <<store, settled>>
    BY <2>2 DEF Waits
  <2> HIDE DEF f
  <2>4. fill'[r] = f /\ \A q \in Runs : q # r => fill'[q] = fill[q]
    BY <1>0, <2>2 DEF TypeOK
  <2>5. fill[r].scope = Nothing
    BY <2>2 DEF IInv, OwnerInv, FillOK
  <2>6. FillGrows
    BY <2>2, <2>4, <2>5 DEF FillGrows
  <2>7. r \notin settled
    BY <2>2, BriefAssumption DEF IInv, OwnerInv, Ended
  <2>8. PICK d \in Calls, e \in Answers :
           /\ call' = [call EXCEPT ![c] = d] /\ answer' = [answer EXCEPT ![c] = e]
           /\ d.old = settled /\ d.phase = "waiting" /\ d.run = r /\ e.kind = "none"
    BY <1>0, <2>2, WaitsEffect
  <2>9. /\ call'[c] = d /\ answer'[c] = e
        /\ \A x \in Callers : x # c => call'[x] = call[x] /\ answer'[x] = answer[x]
    BY <1>0, <2>8 DEF TypeOK
  <2>10. \A q \in Runs : FillOK(q)'
    BY <2>1, <2>4 DEF IInv, OwnerInv, FillOK
  <2>11. ASSUME NEW s \in Scopes PROVE CacheOK(s)'
    <3>1. CASE s = ScopeOf[c]
      <4>1. inflight'[s] = r /\ store'[s] = Nothing
        BY <1>0, <2>2, <2>3, <3>1 DEF TypeOK
      <4> QED BY <2>1, <2>4, <3>1, <4>1 DEF CacheOK
    <3>2. CASE s # ScopeOf[c]
      <4>1. inflight'[s] = inflight[s] /\ CacheOK(s) /\ s # Nothing /\ inflight[s] \in Runs \cup {Nothing}
        BY <1>0, <2>2, <3>2, BriefAssumption DEF IInv, OwnerInv, TypeOK
      <4>2. inflight[s] # Nothing => fill'[inflight[s]].phase \in {"source", "load"}
        BY <2>2, <2>4, <4>1 DEF CacheOK
      <4> QED BY <2>3, <2>6, <4>1, <4>2, CacheFrame DEF CacheOK
    <3> QED BY <3>1, <3>2
  <2>12. CallOK(c)'
    BY <2>1, <2>4, <2>7, <2>8, <2>9 DEF CallOK
  <2>13. ASSUME NEW x \in Callers PROVE CallOK(x)'
    BY <2>6, <2>9, <2>12, CallFrame
  <2>14. \A q \in settled' : Ended(q)'
    BY <2>3, <2>6, SettledFrame
  <2> QED BY <2>10, <2>11, <2>13, <2>14 DEF OwnerInv
<1>4. ASSUME NEW c \in Callers, Resume(c) PROVE OwnerInv'
  <2> DEFINE r == call[c].run
             b == fill[r].brief
  <2>1. UNCHANGED <<store, inflight, fill, settled>> /\ call[c] \in Calls /\ r \in Runs
        /\ call[c].old \in SUBSET Runs /\ call[c].action \in Actions \cup {Nothing}
        /\ call[c].phase = "waiting" /\ fill[r].phase = "done"
    BY <1>0, <1>4 DEF Resume, TypeOK, Calls
  <2>2. b \in Briefs \cup {Nothing}
    BY <1>0, <2>1 DEF TypeOK, Fills
  <2>3. CASE b = Nothing
    <3>1. Fails(c)
      BY <1>4, <2>3 DEF Resume
    <3> QED BY <2>1, <3>1, FailsKeeps
  <2>4. CASE b # Nothing
    <3>1. Given(c, call[c].action, b, call[c].old)
      BY <1>4, <2>4 DEF Resume
    <3>2. fill[r].scope = ScopeOf[c] /\ r \notin call[c].old
      BY <2>1 DEF IInv, OwnerInv, CallOK
    <3>3. b.run \in {r, Nothing}
      BY <2>1, <2>4 DEF IInv, OwnerInv, FillOK
    <3>4. OwnedBy(b.run, ScopeOf[c]) /\ Ended(b.run) /\ b.run \notin call[c].old
      BY <2>1, <3>2, <3>3, BriefAssumption DEF OwnedBy, Ended
    <3>5. b \in Briefs
      BY <2>2, <2>4
    <3> HIDE DEF b, r
    <3> QED BY <2>1, <3>1, <3>4, <3>5, GivenKeeps
  <2> QED BY <2>3, <2>4
<1>5. ASSUME NEW r \in Runs, NEW d \in Fills, fill' = [fill EXCEPT ![r] = d],
             fill[r].phase \in {"source", "load"}, d.phase = "load", d.scope = fill[r].scope,
             d.run \in {fill[r].run, r}, d.brief = fill[r].brief,
             UNCHANGED <<store, inflight, call, answer, settled>>
      PROVE  OwnerInv'
  <2>1. fill'[r] = d /\ \A q \in Runs : q # r => fill'[q] = fill[q]
    BY <1>0, <1>5 DEF TypeOK
  <2>2. FillGrows
    BY <1>5, <2>1 DEF FillGrows
  <2>3. \A q \in Runs : FillOK(q)'
    BY <1>5, <2>1 DEF IInv, OwnerInv, FillOK
  <2>4. ASSUME NEW s \in Scopes PROVE CacheOK(s)'
    <3>1. inflight[s] \in Runs \cup {Nothing} /\ CacheOK(s)
      BY <1>0 DEF TypeOK, IInv, OwnerInv
    <3>2. inflight[s] # Nothing => fill'[inflight[s]].phase \in {"source", "load"}
      BY <1>5, <2>1, <3>1 DEF CacheOK
    <3> QED BY <1>5, <2>2, <3>1, <3>2, CacheFrame DEF CacheOK
  <2>5. \A c \in Callers : CallOK(c)'
    BY <1>5, <2>2, CallFrame
  <2>6. \A q \in settled' : Ended(q)'
    BY <1>5, <2>2, SettledFrame
  <2> QED BY <2>3, <2>4, <2>5, <2>6 DEF OwnerInv
<1>6. ASSUME NEW r \in Runs, Execute(r) PROVE OwnerInv'
  <2>1. fill[r] \in Fills /\ fill[r].phase = "source" /\ OnlyFill
    BY <1>0, <1>6 DEF Execute, TypeOK
  <2>2. UNCHANGED <<store, inflight, call, answer, settled>>
    BY <2>1 DEF OnlyFill
  <2>3. CASE fill' = [fill EXCEPT ![r].phase = "load", ![r].run = r]
    <3> DEFINE d == [fill[r] EXCEPT !.phase = "load", !.run = r]
    <3>1. d \in Fills /\ d.phase = "load" /\ d.scope = fill[r].scope /\ d.run = r /\ d.brief = fill[r].brief
      BY <2>1 DEF Fills
    <3>2. fill' = [fill EXCEPT ![r] = d]
      BY <1>0, <2>3 DEF TypeOK
    <3> HIDE DEF d
    <3> QED BY <1>5, <2>1, <2>2, <3>1, <3>2
  <2>4. CASE fill' = [fill EXCEPT ![r].phase = "load", ![r].load = Loaded(Nothing)]
    <3> DEFINE d == [fill[r] EXCEPT !.phase = "load", !.load = Loaded(Nothing)]
    <3>1. d \in Fills /\ d.phase = "load" /\ d.scope = fill[r].scope /\ d.run = fill[r].run
          /\ d.brief = fill[r].brief
      BY <2>1, Records DEF Fills
    <3>2. fill' = [fill EXCEPT ![r] = d]
      BY <1>0, <2>4 DEF TypeOK
    <3> HIDE DEF d
    <3> QED BY <1>5, <2>1, <2>2, <3>1, <3>2
  <2> QED BY <1>6, <2>3, <2>4 DEF Execute
<1>7. ASSUME NEW r \in Runs, LoadPosture(r) PROVE OwnerInv'
  <2>1. /\ fill[r] \in Fills /\ fill[r].phase = "load" /\ fill[r].load \in Loads /\ LoadInv(fill[r].load, r)
        /\ UNCHANGED <<store, inflight, call, answer, settled>>
    BY <1>0, <1>7 DEF LoadPosture, OnlyFill, TypeOK, IInv, ExecutedInv, FillLoads, Fills
  <2>2. PICK next \in NextLoads(fill[r].load, r) : fill' = [fill EXCEPT ![r].load = next]
    BY <1>7 DEF LoadPosture
  <2>3. next \in Loads
    BY <1>0, <2>1, <2>2, LoadEffect
  <2> DEFINE d == [fill[r] EXCEPT !.load = next]
  <2>4. d \in Fills /\ d.phase = "load" /\ d.scope = fill[r].scope /\ d.run = fill[r].run
        /\ d.brief = fill[r].brief
    BY <2>1, <2>3 DEF Fills
  <2>5. fill' = [fill EXCEPT ![r] = d]
    BY <1>0, <2>2 DEF TypeOK
  <2> HIDE DEF d
  <2> QED BY <1>5, <2>1, <2>4, <2>5
<1>8. ASSUME NEW r \in Runs, Publish(r) \/ Break(r) PROVE OwnerInv'
  <2>1. PICK d \in Fills :
           /\ fill' = [fill EXCEPT ![r] = d]
           /\ d.phase = "done" /\ d.scope = fill[r].scope /\ d.run = Nothing
           /\ d.brief # Nothing => d.brief.run = fill[r].run
           /\ \A s \in Scopes :
                 store'[s] = store[s]
                 \/ (inflight[s] = r /\ (store'[s] # Nothing => store'[s].run = fill[r].run))
    BY <1>0, <1>8, EndEffect
  <2>2. /\ inflight' = Released(r) /\ UNCHANGED <<call, answer, settled>>
        /\ fill[r].phase \in {"source", "load"}
    BY <1>8 DEF Publish, Break
  <2>3. fill'[r] = d /\ \A q \in Runs : q # r => fill'[q] = fill[q]
    BY <1>0, <2>1 DEF TypeOK
  <2>4. FillGrows
    BY <2>1, <2>3 DEF FillGrows
  <2>5. fill[r].run \in {r, Nothing}
    BY DEF IInv, OwnerInv, FillOK
  <2>6. \A q \in Runs : FillOK(q)'
    BY <2>1, <2>3, <2>5 DEF IInv, OwnerInv, FillOK
  <2>7. r \notin settled
    BY <2>2, BriefAssumption DEF IInv, OwnerInv, Ended
  <2>8. ASSUME NEW s \in Scopes PROVE CacheOK(s)'
    <3>1. /\ inflight[s] \in Runs \cup {Nothing} /\ CacheOK(s)
          /\ inflight'[s] = IF inflight[s] = r THEN Nothing ELSE inflight[s]
      BY <1>0, <2>2 DEF TypeOK, IInv, OwnerInv, Released
    <3>2. inflight'[s] # Nothing => fill'[inflight[s]].phase \in {"source", "load"}
      BY <2>3, <3>1 DEF CacheOK
    <3>3. CASE store'[s] = store[s]
      BY <2>2, <2>4, <3>1, <3>2, <3>3, CacheFrame DEF CacheOK
    <3>4. CASE inflight[s] = r /\ (store'[s] # Nothing => store'[s].run = fill[r].run)
      <4>1. inflight'[s] = Nothing /\ fill[r].scope = s
        BY <3>1, <3>4, BriefAssumption DEF CacheOK
      <4>2. fill'[r].scope = s /\ fill'[r].phase = "done"
        BY <2>1, <2>3, <4>1
      <4>3. store'[s] # Nothing => store'[s].run \in {r, Nothing} /\ store'[s].run \notin settled'
        BY <1>0, <2>2, <2>5, <2>7, <3>4, BriefAssumption DEF TypeOK
      <4> QED BY <4>1, <4>2, <4>3 DEF CacheOK, OwnedBy, Ended
    <3> QED BY <2>1, <3>3, <3>4
  <2>9. \A c \in Callers : CallOK(c)'
    BY <2>2, <2>4, CallFrame
  <2>10. \A q \in settled' : Ended(q)'
    BY <2>2, <2>4, SettledFrame
  <2> QED BY <2>6, <2>8, <2>9, <2>10 DEF OwnerInv
<1>9. ASSUME NEW c \in Callers, PostFails(c) \/ LoadRaises(c) \/ Cancel(c) PROVE OwnerInv'
  <2>1. Fails(c) /\ UNCHANGED <<store, inflight, fill, settled>>
    BY <1>9 DEF PostFails, LoadRaises, Cancel
  <2> QED BY <2>1, FailsKeeps
<1>10. ASSUME NEW c \in Callers, Post(c) \/ LoadAgain(c) PROVE OwnerInv'
  <2>1. /\ call[c] \in Calls /\ call[c].phase \in {"post", "load"}
        /\ UNCHANGED <<store, inflight, fill, answer, settled>>
    BY <1>0, <1>10 DEF Post, LoadAgain, TypeOK
  <2>2. /\ call'[c].phase = "load" /\ call'[c].run = call[c].run /\ call'[c].old = call[c].old
        /\ \A x \in Callers : x # c => call'[x] = call[x]
    <3>1. CASE Post(c)
      BY <1>0, <2>1, <3>1 DEF Post, TypeOK, Calls
    <3>2. CASE LoadAgain(c)
      BY <1>0, <2>1, <3>2 DEF LoadAgain, TypeOK, Calls
    <3> QED BY <1>10, <3>1, <3>2
  <2>3. CallOK(c)
    BY DEF IInv, OwnerInv
  <2>4. CallOK(c)'
    BY <2>1, <2>2, <2>3 DEF CallOK, OwnedBy, Ended
  <2> QED BY <2>1, <2>2, <2>4, RequestStep
<1>11. ASSUME NEW c \in Callers, Conclude(c) PROVE OwnerInv'
  <2> DEFINE r == call[c].run
  <2>1. /\ call[c] \in Calls /\ call[c].phase = "load" /\ r \in Runs
        /\ call' = [call EXCEPT ![c].phase = "idle", ![c].load = NoLoad]
        /\ settled' = settled \cup {r} /\ fill' = fill
        /\ store' = [store EXCEPT ![ScopeOf[c]] = Nothing]
        /\ inflight' = [inflight EXCEPT ![ScopeOf[c]] = Nothing]
    BY <1>0, <1>11 DEF Conclude, Reply, Cleared, TypeOK
  <2>2. answer' = [answer EXCEPT ![c] = [kind |-> "reviewed", run |-> r, posture |-> call[c].load.posture]]
    BY <1>11 DEF Conclude, Reply
  <2>3. fill[r].scope = ScopeOf[c] /\ fill[r].phase = "done"
    BY <2>1, BriefAssumption DEF IInv, OwnerInv, CallOK, Ended
  <2> HIDE DEF r
  <2>4. FillGrows /\ \A q \in Runs : FillOK(q)'
    BY <2>1 DEF FillGrows, IInv, OwnerInv, FillOK
  <2>5. /\ call'[c].phase = "idle" /\ answer'[c].kind = "reviewed"
        /\ \A x \in Callers : x # c => call'[x] = call[x] /\ answer'[x] = answer[x]
    BY <1>0, <2>1, <2>2 DEF TypeOK, Calls
  <2>6. ASSUME NEW x \in Callers PROVE CallOK(x)'
    <3>1. CASE x = c
      BY <2>5, <3>1 DEF CallOK
    <3>2. CASE x # c
      BY <2>4, <2>5, <3>2, CallFrame
    <3> QED BY <3>1, <3>2
  <2>7. ASSUME NEW s \in Scopes PROVE CacheOK(s)'
    <3>1. CASE s = ScopeOf[c]
      BY <1>0, <2>1, <3>1 DEF TypeOK, CacheOK
    <3>2. CASE s # ScopeOf[c]
      <4>1. store'[s] = store[s] /\ inflight'[s] = inflight[s] /\ CacheOK(s)
        BY <1>0, <2>1, <3>2 DEF TypeOK, IInv, OwnerInv
      <4>2. store[s] # Nothing => store[s].run # r
        BY <2>1, <2>3, <3>2, <4>1, BriefAssumption DEF CacheOK, OwnedBy
      <4> QED BY <2>1, <2>4, <4>1, <4>2, CacheFrame DEF CacheOK
    <3> QED BY <3>1, <3>2
  <2>8. \A q \in settled' : Ended(q)'
    BY <2>1, <2>3 DEF IInv, OwnerInv, Ended
  <2> QED BY <2>4, <2>6, <2>7, <2>8 DEF OwnerInv
<1>12. ASSUME UNCHANGED <<fill, call, answer, settled>>,
              \A s \in Scopes : store'[s] \in {store[s], Nothing} /\ inflight'[s] \in {inflight[s], Nothing}
       PROVE  OwnerInv'
  <2>1. FillGrows /\ \A q \in Runs : FillOK(q)'
    BY <1>12 DEF FillGrows, IInv, OwnerInv, FillOK
  <2>2. ASSUME NEW s \in Scopes PROVE CacheOK(s)'
    <3>1. CacheOK(s)
      BY DEF IInv, OwnerInv
    <3>2. (store'[s] # Nothing => store[s].run \notin settled')
          /\ (inflight'[s] # Nothing => fill'[inflight[s]].phase \in {"source", "load"})
      BY <1>12, <3>1 DEF CacheOK
    <3> QED BY <1>12, <2>1, <3>2, CacheFrame
  <2>3. \A c \in Callers : CallOK(c)'
    BY <1>12, <2>1, CallFrame
  <2>4. \A q \in settled' : Ended(q)'
    BY <1>12, <2>1, SettledFrame
  <2> QED BY <2>1, <2>2, <2>3, <2>4 DEF OwnerInv
<1>13. ASSUME NEW s \in Scopes, Expire(s) \/ ClearElsewhere(s) PROVE OwnerInv'
  <2>1. /\ store' = [store EXCEPT ![s] = Nothing]
        /\ inflight' \in {inflight, [inflight EXCEPT ![s] = Nothing]}
        /\ UNCHANGED <<fill, call, answer, settled>>
    BY <1>13 DEF Expire, ClearElsewhere, Cleared
  <2>2. \A x \in Scopes : store'[x] \in {store[x], Nothing} /\ inflight'[x] \in {inflight[x], Nothing}
    BY <1>0, <2>1 DEF TypeOK
  <2> QED BY <1>12, <2>1, <2>2
<1>14. ASSUME UNCHANGED vars \/ (\E r \in Runs : ReviewElsewhere(r)) PROVE OwnerInv'
  <2>1. UNCHANGED <<store, inflight, fill, call, answer, settled>>
    BY <1>14 DEF vars, ReviewElsewhere
  <2> QED BY <1>12, <2>1
<1> QED BY <1>1, <1>2, <1>3, <1>4, <1>6, <1>7, <1>8, <1>9, <1>10, <1>11, <1>13, <1>14 DEF Next

\* The initial states satisfy the inductive invariant.
LEMMA InitEstablishes == Init => IInv
<1> SUFFICES ASSUME Init PROVE IInv
  OBVIOUS
<1> USE DEF Init
<1>1. TypeOK
  BY Records, BriefAssumption DEF TypeOK, IdleCall
<1>2. ExecutedInv
  BY DEF ExecutedInv, FillLoads, CallLoads, FreeFill, IdleCall
<1>3. OwnerInv
  BY DEF OwnerInv, FillOK, CacheOK, CallOK, FreeFill, IdleCall, NoAnswer
<1> QED BY <1>1, <1>2, <1>3 DEF IInv

LEMMA Inductive == Spec => []IInv
<1>1. IInv /\ [Next]_vars => IInv'
  BY NextTypes, NextOwners DEF IInv
<1> QED BY <1>1, InitEstablishes, PTL DEF Spec

\* The types of AdvisorBrief, for any requests, contexts and runs.
THEOREM TypesHold == Spec => []TypeOK
<1>1. IInv => TypeOK
  BY DEF IInv
<1> QED BY <1>1, Inductive, PTL

\* A brief whose review was confirmed (advisor_brief_service.py:303) is
\* never given to a request that begins later.
THEOREM ReviewRebuilds == Spec => []ReviewedBriefIsRebuilt
<1>1. IInv => ReviewedBriefIsRebuilt
  BY DEF IInv, OwnerInv, CallOK, ReviewedBriefIsRebuilt
<1> QED BY <1>1, Inductive, PTL

\* No brief crosses caller contexts (advisor_brief_service.py:81-87).
THEOREM ContextsStayApart == Spec => []BriefStaysInContext
<1>1. IInv => BriefStaysInContext
  BY BriefAssumption DEF IInv, OwnerInv, CallOK, OwnedBy, BriefStaysInContext
<1> QED BY <1>1, Inductive, PTL

-----------------------------------------------------------------------------
\* What a review shows, and which brief it reaches.

\* A posture read after the action was recorded is of a state as late.
ShownOK(c) ==
  /\ call[c].phase # "idle" => answer[c].kind = "none"
  /\ call[c].phase = "load" =>
       /\ call[c].base <= Len(log[call[c].run])
       /\ call[c].load.step = "operator" =>
            call[c].base <= call[c].load.view.seen /\ call[c].load.view.seen <= Len(log[call[c].run])
       /\ call[c].load.posture # Nothing =>
            /\ call[c].base <= call[c].load.posture.seen
            /\ call[c].load.posture.seen <= call[c].load.posture.state
  /\ answer[c].kind = "reviewed" =>
       /\ answer[c].run = call[c].run
       /\ answer[c].posture # Nothing =>
            call[c].base <= answer[c].posture.seen /\ answer[c].posture.seen <= answer[c].posture.state

\* A scope has no fill to join while it has a brief, and an advisor who was
\* shown the brief of a scope that keeps it is not waiting for another.
KeptOK(c) ==
  /\ kept[c] # Nothing => store[ScopeOf[c]] # Nothing /\ store[ScopeOf[c]].run = kept[c]
  /\ call[c].phase = "waiting" => kept[c] = Nothing
  /\ call[c].phase = "post" /\ kept[c] # Nothing => call[c].run = kept[c]

OneOrOther == \A s \in Scopes : inflight[s] # Nothing => store[s] = Nothing

ReviewInv == OneOrOther /\ \A c \in Callers : ShownOK(c) /\ KeptOK(c)

\* What is recorded of a run that is under review is only added to.
LEMMA ReviewedGrows ==
  ASSUME IInv, [Next]_vars, NEW c \in Callers, call[c].phase = "load"
  PROVE  /\ call[c].run \in Runs
         /\ Len(log[call[c].run]) \in Nat /\ Len(log'[call[c].run]) \in Nat
         /\ Len(log[call[c].run]) <= Len(log'[call[c].run])
<1> DEFINE q == call[c].run
<1>1. q \in Runs /\ q # Nothing /\ fill[q].phase = "done"
  BY BriefAssumption DEF IInv, OwnerInv, CallOK, Ended, TypeOK
<1>2. log[q] \in Seq(SUBSET Actions) /\ DOMAIN log = Runs
  BY <1>1 DEF IInv, TypeOK
<1> HIDE DEF q
<1>3. ASSUME NEW p \in Runs, NEW next \in SUBSET Actions, log' = Reviewed(p, next)
      PROVE  Len(log'[q]) \in Nat /\ Len(log[q]) <= Len(log'[q])
  <2>1. CASE p = q
    <3>1. log'[q] = Append(log[q], next)
      BY <1>1, <1>2, <1>3, <2>1 DEF Reviewed
    <3> QED BY <1>2, <3>1
  <2>2. CASE p # q
    BY <1>1, <1>2, <1>3, <2>2 DEF Reviewed
  <2> QED BY <2>1, <2>2
<1>4. ASSUME NEW r \in Runs, Execute(r) PROVE log'[q] = log[q]
  BY <1>1, <1>2, <1>4 DEF Execute
<1>5. ASSUME NEW d \in Callers, Post(d) PROVE \E next \in SUBSET Actions : log' = Reviewed(call[d].run, next) /\ call[d].run \in Runs
  BY <1>5 DEF Post, IInv, TypeOK
<1>6. ASSUME NEW r \in Runs, ReviewElsewhere(r) PROVE \E next \in SUBSET Actions : log' = Reviewed(r, next)
  BY <1>6 DEF ReviewElsewhere
<1>7. \/ log' = log
      \/ \E r \in Runs : Execute(r)
      \/ \E p \in Runs : \E next \in SUBSET Actions : log' = Reviewed(p, next)
  BY <1>5, <1>6
  DEF Next, vars, Hit, Join, Start, Waits, Resume, Post, PostFails, LoadAgain, Conclude, Reply, LoadRaises,
      Cancel, LoadPosture, Publish, Break, Expire, ClearElsewhere
<1>8. Len(log[q]) \in Nat /\ (log' = log => Len(log'[q]) \in Nat /\ Len(log[q]) <= Len(log'[q]))
  BY <1>2
<1>9. Len(log'[q]) \in Nat /\ Len(log[q]) <= Len(log'[q])
  BY <1>3, <1>4, <1>7, <1>8
<1> QED BY <1>1, <1>8, <1>9 DEF q

LEMMA ShownRests ==
  ASSUME IInv, [Next]_vars, NEW c \in Callers, ShownOK(c), call'[c] = call[c], answer'[c] = answer[c]
  PROVE  ShownOK(c)'
<1>1. CASE call[c].phase = "load"
  <2>1. /\ Len(log[call[c].run]) \in Nat /\ Len(log'[call[c].run]) \in Nat
        /\ Len(log[call[c].run]) <= Len(log'[call[c].run])
    BY <1>1, ReviewedGrows
  <2>2. call[c].base \in Nat
    BY DEF IInv, TypeOK, Calls
  <2>3. call[c].base <= Len(log'[call[c].run])
    BY <1>1, <2>1, <2>2 DEF ShownOK
  <2>4. call[c].load.step = "operator" =>
          call[c].base <= call[c].load.view.seen /\ call[c].load.view.seen <= Len(log'[call[c].run])
    <3> SUFFICES ASSUME call[c].load.step = "operator"
                 PROVE  call[c].base <= call[c].load.view.seen /\ call[c].load.view.seen <= Len(log'[call[c].run])
      OBVIOUS
    <3>1. call[c].load.view.seen \in States /\ States \subseteq Nat
      BY <1>1 DEF IInv, ExecutedInv, CallLoads, LoadInv, Views, States
    <3>2. call[c].base <= call[c].load.view.seen /\ call[c].load.view.seen <= Len(log[call[c].run])
      BY <1>1 DEF ShownOK
    <3>3. call[c].load.view.seen \in Nat
      BY <3>1
    <3>4. call[c].load.view.seen <= Len(log'[call[c].run])
      BY <2>1, <3>2, <3>3
    <3> QED BY <3>2, <3>4
  <2> QED BY <1>1, <2>3, <2>4 DEF ShownOK
<1>2. CASE call[c].phase # "load"
  BY <1>2 DEF ShownOK
<1> QED BY <1>1, <1>2

\* A request that is not reading a posture, and has no confirmed review.
LEMMA ShownElse ==
  ASSUME NEW c \in Callers, call'[c].phase # "load", answer'[c].kind # "reviewed",
         call'[c].phase # "idle" => answer'[c].kind = "none"
  PROVE  ShownOK(c)'
  BY DEF ShownOK

\* What one read of the posture finds.
LEMMA LoadAgainShows ==
  ASSUME IInv, NEW c \in Callers, ShownOK(c), LoadAgain(c) PROVE ShownOK(c)'
<1>1. PICK next \in NextLoads(call[c].load, call[c].run) : call' = [call EXCEPT ![c].load = next]
  BY DEF LoadAgain
<1>2. /\ call'[c].phase = "load" /\ call'[c].run = call[c].run /\ call'[c].base = call[c].base
      /\ call'[c].load = next /\ call[c].phase = "load" /\ log' = log /\ answer' = answer
  BY <1>1 DEF LoadAgain, IInv, TypeOK, Calls
<1>3. /\ call[c].run \in Runs /\ log[call[c].run] \in Seq(SUBSET Actions)
      /\ call[c].base \in Nat
  BY <1>2 DEF IInv, TypeOK, Calls
<1> DEFINE n == Len(log[call[c].run])
           view == [allowed |-> Last(log[call[c].run]), seen |-> n]
           posture == [allowed |-> call[c].load.view.allowed, seen |-> call[c].load.view.seen, state |-> n]
<1>4. n \in Nat /\ call[c].base <= n
  BY <1>2, <1>3 DEF ShownOK
<1>5. \/ next = Loaded(Nothing)
      \/ next = [step |-> "operator", view |-> view, posture |-> Nothing]
      \/ next = Loaded(posture) /\ call[c].load.step = "operator"
  BY DEF NextLoads, AfterConsumerView, AfterOperatorProfile
<1>6. call[c].load.step = "operator" => call[c].base <= posture.seen /\ posture.seen <= posture.state
  BY <1>2 DEF ShownOK
<1>7. view.seen = n
  OBVIOUS
<1> HIDE DEF view, posture
<1>8. /\ next.step = "operator" => call[c].base <= next.view.seen /\ next.view.seen <= n
      /\ next.posture # Nothing => call[c].base <= next.posture.seen /\ next.posture.seen <= next.posture.state
  BY <1>4, <1>5, <1>6, <1>7 DEF Loaded
<1> QED BY <1>2, <1>4, <1>8 DEF ShownOK

LEMMA PostShows ==
  ASSUME IInv, NEW c \in Callers, ShownOK(c), Post(c) PROVE ShownOK(c)'
<1>1. /\ call[c].phase = "post" /\ call[c].run \in Runs /\ call[c].load = NoLoad
      /\ log[call[c].run] \in Seq(SUBSET Actions) /\ answer[c].kind = "none"
  BY DEF Post, IInv, TypeOK, ExecutedInv, CallLoads, ShownOK
<1>2. PICK next \in SUBSET Actions : log' = Reviewed(call[c].run, next)
  BY DEF Post
<1>3. Len(log'[call[c].run]) = Len(log[call[c].run]) + 1 /\ Len(log[call[c].run]) \in Nat
  <2>1. log'[call[c].run] = Append(log[call[c].run], next)
    BY <1>1, <1>2 DEF Reviewed, IInv, TypeOK
  <2> QED BY <1>1, <2>1
<1>4. /\ call'[c].phase = "load" /\ call'[c].base = Len(log[call[c].run]) + 1
      /\ call'[c].load = call[c].load /\ call'[c].run = call[c].run /\ answer' = answer
  BY DEF Post, IInv, TypeOK, Calls
<1> QED BY <1>1, <1>3, <1>4 DEF ShownOK, NoLoad

LEMMA ConcludeShows ==
  ASSUME IInv, NEW c \in Callers, ShownOK(c), Conclude(c) PROVE ShownOK(c)'
<1>1. /\ call'[c].phase = "idle" /\ call'[c].run = call[c].run /\ call'[c].base = call[c].base
      /\ answer'[c] = [kind |-> "reviewed", run |-> call[c].run, posture |-> call[c].load.posture]
      /\ call[c].phase = "load"
  BY DEF Conclude, Reply, IInv, TypeOK, Calls
<1> QED BY <1>1 DEF ShownOK

\* The brief that a scope keeps, when a request is given or refused one.
LEMMA KeptGiven ==
  ASSUME IInv, ReviewInv, NEW c \in Callers, NEW b \in Briefs, NEW a \in Actions \cup {Nothing},
         NEW old \in SUBSET Runs, Given(c, a, b, old), UNCHANGED <<store, inflight>>,
         kept[c] = Nothing \/ store[ScopeOf[c]] = b, b # Nothing
  PROVE  \A q \in Callers : KeptOK(q)'
<1>1. PICK e \in Calls, f \in Answers :
        /\ call' = [call EXCEPT ![c] = e] /\ answer' = [answer EXCEPT ![c] = f]
        /\ e.phase = "idle" \/ (e.phase = "post" /\ e.run = b.run)
        /\ \/ kept' = kept
           \/ /\ e.phase = "idle"
              /\ kept' = [kept EXCEPT ![c] = IF store[Key(c)] = b THEN b.run ELSE Nothing]
  BY GivenEffect DEF IInv
<1>2. \A q \in Callers : q # c => call'[q] = call[q] /\ kept'[q] = kept[q]
  BY <1>1 DEF IInv, TypeOK
<1>3. call'[c] = e
  BY <1>1 DEF IInv, TypeOK
<1>4. kept'[c] = kept[c] \/ (e.phase = "idle" /\ kept'[c] = IF store[Key(c)] = b THEN b.run ELSE Nothing)
  BY <1>1 DEF IInv, TypeOK
<1>5. KeptOK(c)
  BY DEF ReviewInv
<1>6. KeptOK(c)'
  <2>1. kept'[c] # Nothing => store'[ScopeOf[c]] # Nothing /\ store'[ScopeOf[c]].run = kept'[c]
    BY <1>4, <1>5 DEF KeptOK, Key
  <2>2. call'[c].phase = "post" /\ kept'[c] # Nothing => call'[c].run = kept'[c]
    BY <1>1, <1>3, <1>4, <1>5 DEF KeptOK
  <2> QED BY <1>1, <1>3, <2>1, <2>2 DEF KeptOK
<1>7. ASSUME NEW q \in Callers, q # c PROVE KeptOK(q)'
  BY <1>2, <1>7 DEF ReviewInv, KeptOK
<1> QED BY <1>6, <1>7

\* Nothing of the brief that the scope of c keeps has changed.
LEMMA KeptRests ==
  ASSUME NEW c \in Callers, KeptOK(c), kept'[c] = kept[c], store'[ScopeOf[c]] = store[ScopeOf[c]],
         \/ call'[c].phase \notin {"waiting", "post"}
         \/ call'[c].phase = call[c].phase /\ call'[c].run = call[c].run
  PROVE  KeptOK(c)'
  BY DEF KeptOK

\* The scope s has dropped its brief, and what c was shown with it.
LEMMA KeptDropped ==
  ASSUME IInv, ReviewInv, NEW s \in Scopes, kept' = Dropped(s),
         \A t \in Scopes : t # s => store'[t] = store[t],
         NEW c \in Callers,
         \/ call'[c].phase \notin {"waiting", "post"}
         \/ call'[c].phase = call[c].phase /\ call'[c].run = call[c].run
  PROVE  KeptOK(c)'
<1>1. KeptOK(c) /\ ScopeOf[c] \in Scopes
  BY BriefAssumption DEF ReviewInv
<1>2. CASE ScopeOf[c] = s
  <2>1. kept'[c] = Nothing
    BY <1>2 DEF Dropped
  <2> QED BY <1>1, <2>1 DEF KeptOK
<1>3. CASE ScopeOf[c] # s
  <2>1. kept'[c] = kept[c] /\ store'[ScopeOf[c]] = store[ScopeOf[c]]
    BY <1>1, <1>3 DEF Dropped
  <2> QED BY <1>1, <2>1, KeptRests
<1> QED BY <1>2, <1>3

LEMMA OthersShown ==
  ASSUME IInv, ReviewInv, [Next]_vars, NEW c \in Callers, NEW d, NEW e,
         call' = [call EXCEPT ![c] = d], answer' = [answer EXCEPT ![c] = e], ShownOK(c)'
  PROVE  \A q \in Callers : ShownOK(q)'
<1> SUFFICES ASSUME NEW q \in Callers, q # c PROVE ShownOK(q)'
  OBVIOUS
<1>1. call'[q] = call[q] /\ answer'[q] = answer[q]
  BY DEF IInv, TypeOK
<1> QED BY <1>1, ShownRests DEF ReviewInv

\* A request fails: nothing is shown, and the scope keeps its brief.
LEMMA FailsReview ==
  ASSUME IInv, ReviewInv, [Next]_vars, NEW c \in Callers, Fails(c), UNCHANGED <<store, inflight, kept>>
  PROVE  ReviewInv'
<1>1. PICK d \in Calls, e \in Answers :
        /\ call' = [call EXCEPT ![c] = d] /\ answer' = [answer EXCEPT ![c] = e]
        /\ d.phase = "idle" /\ e.kind = "failed"
  BY FailsEffect DEF IInv
<1>2. call'[c] = d /\ answer'[c] = e /\ \A q \in Callers : q # c => call'[q] = call[q]
  BY <1>1 DEF IInv, TypeOK
<1>3. \A q \in Callers : ShownOK(q)'
  <2>1. ShownOK(c)'
    BY <1>1, <1>2, ShownElse
  <2> QED BY <1>1, <2>1, OthersShown
<1>4. \A q \in Callers : KeptOK(q)'
  BY <1>1, <1>2, KeptRests DEF ReviewInv
<1> QED BY <1>3, <1>4 DEF ReviewInv, OneOrOther

LEMMA GivenReview ==
  ASSUME IInv, ReviewInv, [Next]_vars, NEW c \in Callers, NEW b \in Briefs, NEW a \in Actions \cup {Nothing},
         NEW old \in SUBSET Runs, Given(c, a, b, old), UNCHANGED <<store, inflight>>,
         kept[c] = Nothing \/ store[ScopeOf[c]] = b, b # Nothing
  PROVE  ReviewInv'
<1>1. PICK d \in Calls, e \in Answers :
        /\ call' = [call EXCEPT ![c] = d] /\ answer' = [answer EXCEPT ![c] = e]
        /\ d.phase = "idle" \/ d.phase = "post"
        /\ e.kind # "reviewed" /\ (d.phase = "post" => e.kind = "none")
  BY GivenEffect DEF IInv
<1>2. call'[c] = d /\ answer'[c] = e
  BY <1>1 DEF IInv, TypeOK
<1>3. \A q \in Callers : ShownOK(q)'
  <2>1. ShownOK(c)'
    BY <1>1, <1>2, ShownElse
  <2> QED BY <1>1, <2>1, OthersShown
<1>4. \A q \in Callers : KeptOK(q)'
  BY KeptGiven
<1> QED BY <1>3, <1>4 DEF ReviewInv, OneOrOther

LEMMA WaitsReview ==
  ASSUME IInv, ReviewInv, [Next]_vars, NEW c \in Callers, NEW a \in Actions \cup {Nothing}, NEW r \in Runs,
         Waits(c, a, r), store[Key(c)] = Nothing,
         \A s \in Scopes : inflight'[s] # Nothing => inflight[s] # Nothing \/ s = Key(c)
  PROVE  ReviewInv'
<1>1. PICK d \in Calls, e \in Answers :
        /\ call' = [call EXCEPT ![c] = d] /\ answer' = [answer EXCEPT ![c] = e]
        /\ d.phase = "waiting" /\ e.kind = "none"
  BY WaitsEffect DEF IInv
<1>2. call'[c] = d /\ answer'[c] = e /\ \A q \in Callers : q # c => call'[q] = call[q]
  BY <1>1 DEF IInv, TypeOK
<1>3. \A q \in Callers : ShownOK(q)'
  <2>1. ShownOK(c)'
    BY <1>1, <1>2, ShownElse
  <2> QED BY <1>1, <2>1, OthersShown
<1>4. store' = store /\ kept' = kept /\ kept[c] = Nothing
  BY DEF Waits, ReviewInv, KeptOK, Key
<1>5. KeptOK(c)'
  BY <1>1, <1>2, <1>4 DEF KeptOK
<1>6. ASSUME NEW q \in Callers, q # c PROVE KeptOK(q)'
  BY <1>2, <1>4, <1>6, KeptRests DEF ReviewInv
<1>7. OneOrOther'
  BY <1>4 DEF OneOrOther, ReviewInv
<1> QED BY <1>3, <1>5, <1>6, <1>7 DEF ReviewInv

LEMMA ReviewStep == IInv /\ ReviewInv /\ [Next]_vars => ReviewInv'
<1> SUFFICES ASSUME IInv, ReviewInv, [Next]_vars PROVE ReviewInv'
  OBVIOUS
<1>1. ASSUME NEW c \in Callers, NEW a \in Actions \cup {Nothing}, Hit(c, a) PROVE ReviewInv'
  <2>1. PICK b \in Briefs, old \in SUBSET Runs : b = store[Key(c)] /\ old = settled /\ b # Nothing
    <3>1. Key(c) \in Scopes
      BY BriefAssumption DEF Key
    <3> QED BY <1>1, <3>1 DEF Hit, IInv, TypeOK
  <2>2. Given(c, a, b, old) /\ UNCHANGED <<store, inflight>> /\ store[ScopeOf[c]] = b
    BY <1>1, <2>1 DEF Hit, Key
  <2> QED BY <2>1, <2>2, GivenReview
<1>2. ASSUME NEW c \in Callers, NEW a \in Actions \cup {Nothing}, Join(c, a) PROVE ReviewInv'
  <2>1. PICK r \in Runs : r = inflight[Key(c)]
    <3>1. Key(c) \in Scopes
      BY BriefAssumption DEF Key
    <3> QED BY <1>2, <3>1 DEF Join, IInv, TypeOK
  <2>2. Waits(c, a, r) /\ store[Key(c)] = Nothing /\ inflight' = inflight
    BY <1>2, <2>1 DEF Join
  <2> QED BY <2>2, WaitsReview
<1>3. ASSUME NEW c \in Callers, NEW a \in Actions \cup {Nothing}, NEW r \in Runs, Start(c, a, r)
      PROVE  ReviewInv'
  <2>1. Waits(c, a, r) /\ store[Key(c)] = Nothing /\ inflight' = [inflight EXCEPT ![Key(c)] = r]
    BY <1>3 DEF Start
  <2>2. \A s \in Scopes : inflight'[s] # Nothing => inflight[s] # Nothing \/ s = Key(c)
    BY <2>1 DEF IInv, TypeOK
  <2> QED BY <2>1, <2>2, WaitsReview
<1>4. ASSUME NEW c \in Callers, Resume(c) PROVE ReviewInv'
  <2>1. /\ call[c].phase = "waiting" /\ call[c].run \in Runs /\ UNCHANGED <<store, inflight>>
        /\ call[c].action \in Actions \cup {Nothing} /\ call[c].old \in SUBSET Runs
        /\ fill[call[c].run].brief \in Briefs \cup {Nothing}
    BY <1>4 DEF Resume, IInv, TypeOK, Calls, Fills
  <2>2. CASE fill[call[c].run].brief = Nothing
    BY <1>4, <2>1, <2>2, FailsReview DEF Resume
  <2>3. CASE fill[call[c].run].brief # Nothing
    <3>1. PICK b \in Briefs, a \in Actions \cup {Nothing}, old \in SUBSET Runs :
            b = fill[call[c].run].brief /\ a = call[c].action /\ old = call[c].old
      BY <2>1, <2>3
    <3>2. Given(c, a, b, old) /\ b # Nothing
      BY <1>4, <2>3, <3>1 DEF Resume
    <3>3. kept[c] = Nothing
      BY <2>1 DEF ReviewInv, KeptOK
    <3> QED BY <2>1, <3>2, <3>3, GivenReview
  <2> QED BY <2>2, <2>3
<1>5. ASSUME NEW c \in Callers, PostFails(c) \/ LoadRaises(c) \/ Cancel(c) PROVE ReviewInv'
  BY <1>5, FailsReview DEF PostFails, LoadRaises, Cancel
<1>6. ASSUME NEW c \in Callers, Post(c) \/ LoadAgain(c) PROVE ReviewInv'
  <2>1. /\ \A q \in Callers : q # c => call'[q] = call[q]
        /\ UNCHANGED <<store, inflight, answer, kept>>
        /\ call'[c].phase = "load"
    BY <1>6 DEF Post, LoadAgain, IInv, TypeOK, Calls
  <2>2. ShownOK(c)'
    BY <1>6, PostShows, LoadAgainShows DEF ReviewInv
  <2>3. \A q \in Callers : ShownOK(q)'
    BY <2>1, <2>2, ShownRests DEF ReviewInv
  <2>4. \A q \in Callers : KeptOK(q)'
    BY <2>1, KeptRests DEF ReviewInv
  <2> QED BY <2>1, <2>3, <2>4 DEF ReviewInv, OneOrOther
<1>7. ASSUME NEW c \in Callers, Conclude(c) PROVE ReviewInv'
  <2>1. /\ \A q \in Callers : q # c => call'[q] = call[q] /\ answer'[q] = answer[q]
        /\ call'[c].phase = "idle"
    BY <1>7 DEF Conclude, Reply, IInv, TypeOK, Calls
  <2>2. /\ kept' = Dropped(ScopeOf[c]) /\ ScopeOf[c] \in Scopes
        /\ store' = [store EXCEPT ![ScopeOf[c]] = Nothing]
        /\ inflight' = [inflight EXCEPT ![ScopeOf[c]] = Nothing]
    BY <1>7, BriefAssumption DEF Conclude, Cleared, Key
  <2>3. \A s \in Scopes : s # ScopeOf[c] => store'[s] = store[s]
    BY <2>2 DEF IInv, TypeOK
  <2>4. ShownOK(c)'
    BY <1>7, ConcludeShows DEF ReviewInv
  <2>5. \A q \in Callers : ShownOK(q)'
    BY <2>1, <2>4, ShownRests DEF ReviewInv
  <2>6. \A q \in Callers : KeptOK(q)'
    BY <2>1, <2>2, <2>3, KeptDropped
  <2>7. OneOrOther'
    BY <2>2 DEF ReviewInv, OneOrOther, IInv, TypeOK
  <2> QED BY <2>5, <2>6, <2>7 DEF ReviewInv
<1>8. ASSUME NEW r \in Runs, Publish(r) PROVE ReviewInv'
  <2>1. UNCHANGED <<call, answer, kept>> /\ inflight' = Released(r)
    BY <1>8 DEF Publish
  <2>2. \A s \in Scopes : inflight[s] # r => store'[s] = store[s]
    BY <1>8 DEF Publish
  <2>3. \A q \in Callers : ShownOK(q)'
    BY <2>1, ShownRests DEF ReviewInv
  <2>4. ASSUME NEW q \in Callers PROVE KeptOK(q)'
    <3>1. KeptOK(q) /\ ScopeOf[q] \in Scopes
      BY BriefAssumption DEF ReviewInv
    <3>2. CASE inflight[ScopeOf[q]] = r
      <4>1. kept[q] = Nothing
        BY <3>1, <3>2, BriefAssumption DEF ReviewInv, OneOrOther, KeptOK
      <4> QED BY <2>1, <3>1, <4>1 DEF KeptOK
    <3>3. CASE inflight[ScopeOf[q]] # r
      BY <2>1, <2>2, <3>1, <3>3, KeptRests
    <3> QED BY <3>2, <3>3
  <2>5. OneOrOther'
    BY <2>1, <2>2 DEF ReviewInv, OneOrOther, Released
  <2> QED BY <2>3, <2>4, <2>5 DEF ReviewInv
<1>9. ASSUME NEW s \in Scopes, Expire(s) \/ ClearElsewhere(s) PROVE ReviewInv'
  <2>1. /\ UNCHANGED <<call, answer>> /\ kept' = Dropped(s)
        /\ store' = [store EXCEPT ![s] = Nothing]
        /\ inflight' \in {inflight, [inflight EXCEPT ![s] = Nothing]}
    BY <1>9 DEF Expire, ClearElsewhere, Cleared
  <2>2. \A t \in Scopes : t # s => store'[t] = store[t]
    BY <2>1 DEF IInv, TypeOK
  <2>3. \A q \in Callers : ShownOK(q)'
    BY <2>1, ShownRests DEF ReviewInv
  <2>4. \A q \in Callers : KeptOK(q)'
    BY <2>1, <2>2, KeptDropped
  <2>5. OneOrOther'
    BY <2>1 DEF ReviewInv, OneOrOther, IInv, TypeOK
  <2> QED BY <2>3, <2>4, <2>5 DEF ReviewInv
<1>10. ASSUME UNCHANGED <<store, call, answer, kept>>,
              \A s \in Scopes : inflight'[s] # Nothing => inflight[s] # Nothing
       PROVE  ReviewInv'
  <2>1. \A q \in Callers : ShownOK(q)'
    BY <1>10, ShownRests DEF ReviewInv
  <2>2. \A q \in Callers : KeptOK(q)'
    BY <1>10, KeptRests DEF ReviewInv
  <2> QED BY <1>10, <2>1, <2>2 DEF ReviewInv, OneOrOther
<1>11. ASSUME NEW r \in Runs, Execute(r) \/ LoadPosture(r) \/ Break(r) \/ ReviewElsewhere(r) PROVE ReviewInv'
  <2>1. UNCHANGED <<store, call, answer, kept>>
    BY <1>11 DEF Execute, LoadPosture, Break, ReviewElsewhere, OnlyFill
  <2>2. inflight' = inflight \/ inflight' = Released(r)
    BY <1>11 DEF Execute, LoadPosture, Break, ReviewElsewhere, OnlyFill
  <2>3. \A s \in Scopes : inflight'[s] # Nothing => inflight[s] # Nothing
    BY <2>2 DEF Released
  <2> QED BY <2>1, <2>3, <1>10
<1>12. CASE UNCHANGED vars
  BY <1>10, <1>12 DEF vars
<1> QED BY <1>1, <1>2, <1>3, <1>4, <1>5, <1>6, <1>7, <1>8, <1>9, <1>11, <1>12 DEF Next

LEMMA ReviewInductive == Spec => []ReviewInv
<1>1. Init => ReviewInv
  BY DEF Init, ReviewInv, OneOrOther, ShownOK, KeptOK, NoAnswer, IdleCall
<1>2. IInv /\ ReviewInv /\ [Next]_vars => ReviewInv'
  BY ReviewStep
<1> QED BY <1>1, <1>2, Inductive, PTL DEF Spec

\* The response to a review shows the run that was reviewed, as it stood
\* after the action or later (advisor_brief_service.py:299-307).
THEOREM ReviewIsShown == Spec => []ReviewShowsItself
<1>1. TypeOK /\ ReviewInv => ReviewShowsItself
  <2> SUFFICES ASSUME TypeOK, ReviewInv, NEW c \in Callers, answer[c].kind = "reviewed"
               PROVE  /\ answer[c].run = call[c].run
                      /\ answer[c].posture # Nothing =>
                           /\ answer[c].posture.seen >= call[c].base
                           /\ answer[c].posture.state >= answer[c].posture.seen
    BY DEF ReviewShowsItself
  <2>1. /\ answer[c].run = call[c].run
        /\ answer[c].posture # Nothing =>
             call[c].base <= answer[c].posture.seen /\ answer[c].posture.seen <= answer[c].posture.state
    BY DEF ReviewInv, ShownOK
  <2>2. /\ call[c].base \in Nat
        /\ answer[c].posture # Nothing => answer[c].posture.seen \in Nat /\ answer[c].posture.state \in Nat
    BY DEF TypeOK, Calls, Answers, Postures, States
  <2> QED BY <2>1, <2>2
<1> QED BY <1>1, TypesHold, ReviewInductive, PTL

\* A review goes to the run of the brief that the advisor was shown, for as
\* long as the cache has kept that brief (review_actions.py:54-69).
THEOREM ReviewReaches == Spec => []ReviewReachesShownBrief
<1>1. ReviewInv => ReviewReachesShownBrief
  BY DEF ReviewInv, KeptOK, ReviewReachesShownBrief
<1> QED BY <1>1, ReviewInductive, PTL
=============================================================================
