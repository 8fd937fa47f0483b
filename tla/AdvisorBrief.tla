---------------------------- MODULE AdvisorBrief ----------------------------
(***************************************************************************)
(* services/advisor_brief_*.py: the advisor brief of one portfolio.  A     *)
(* brief is cached for each caller scope; filling the cache executes a new *)
(* run of lotus-ai, whose review posture is then read.  A review action    *)
(* names no run: the service takes the brief from the cache, records the   *)
(* action on the run of that brief, reads the posture again and clears the *)
(* scope's cache.                                                          *)
(*                                                                         *)
(* A fill is named by the run it executes, since no fill executes two.     *)
(* The cache is used as GenerationalCache promises, without generations:   *)
(* a fill that clear detached is not stored.  The text of a brief, its     *)
(* task flow and its supportability are abstracted: their reads are part   *)
(* of the step "rest".                                                     *)
(***************************************************************************)
EXTENDS Naturals, Sequences, SequencesExt

CONSTANTS
  Callers,   \* requests of advisors
  Scopes,    \* admitted caller contexts, each with its part of the cache
  ScopeOf,   \* ScopeOf[c]: the context that request c was admitted in
  Runs,      \* runs of lotus-ai (bound: fills)
  Actions,   \* review actions
  MaxLog,    \* bound: review states of one run
  Nothing    \* no run, brief or posture

ASSUME BriefAssumption ==
  /\ ScopeOf \in [Callers -> Scopes]
  /\ MaxLog \in Nat \ {0}
  /\ Nothing \notin Runs \cup Scopes

VARIABLES
  log,       \* log[r]: the review states of run r so far, each the set of
             \* actions it allows; <<>> before r is executed
  store,     \* store[s]: the brief cached for scope s, or Nothing
  inflight,  \* inflight[s]: the fill that requests of s may join, or Nothing
  fill,      \* fill[r]: the fill that executes r
  call,      \* call[c]: the request of c
  answer,    \* answer[c]: what the last request of c returned
  settled,   \* history: the runs a review of which has been confirmed
  kept       \* history: kept[c]: the run of the last brief c was given, while
             \* its scope has kept that brief since, or Nothing

vars == <<log, store, inflight, fill, call, answer, settled, kept>>

NoLoad   == [step |-> "consumer", view |-> Nothing, posture |-> Nothing]
NoAnswer == [kind |-> "none", run |-> Nothing, posture |-> Nothing]
FreeFill == [phase |-> "free", scope |-> Nothing, run |-> Nothing, load |-> NoLoad, brief |-> Nothing]
IdleCall == [phase |-> "idle", action |-> Nothing, run |-> Nothing, base |-> 0,
             load |-> NoLoad, old |-> {}]

Init ==
  /\ log      = [r \in Runs |-> <<>>]
  /\ store    = [s \in Scopes |-> Nothing]
  /\ inflight = [s \in Scopes |-> Nothing]
  /\ fill     = [r \in Runs |-> FreeFill]
  /\ call     = [c \in Callers |-> IdleCall]
  /\ answer   = [c \in Callers |-> NoAnswer]
  /\ settled  = {}
  /\ kept     = [c \in Callers |-> Nothing]

(* The scope s keeps its brief no longer. *)
Dropped(s) == [c \in Callers |-> IF ScopeOf[c] = s THEN Nothing ELSE kept[c]]

-----------------------------------------------------------------------------
(* lotus-ai. *)

Reviewed(r, next) == [log EXCEPT ![r] = Append(@, next)]

(* A run is reviewed by another client, or by a request given up here. *)
ReviewElsewhere(r) ==
  \E next \in SUBSET Actions :
     /\ log[r] # <<>> /\ Len(log[r]) < MaxLog
     /\ log' = Reviewed(r, next)
     /\ UNCHANGED <<store, inflight, fill, call, answer, settled, kept>>

(* The runtime context of run r is read in steps: the consumer view, whose *)
(* review block holds the allowed actions, then the operator profile with  *)
(* the review state, then the rest.  A posture needs both answers.         *)
Loaded(posture) == [step |-> "rest", view |-> Nothing, posture |-> posture]

AfterConsumerView(r) ==
  {Loaded(Nothing), [step    |-> "operator",
                     view    |-> [allowed |-> Last(log[r]), seen |-> Len(log[r])],
                     posture |-> Nothing]}

AfterOperatorProfile(r, view) ==
  {Loaded(Nothing), Loaded([allowed |-> view.allowed, seen |-> view.seen, state |-> Len(log[r])])}

NextLoads(load, r) ==
  CASE load.step = "consumer" -> AfterConsumerView(r)
    [] load.step = "operator" -> AfterOperatorProfile(r, load.view)
    [] OTHER -> {}

-----------------------------------------------------------------------------
(* What a request does with the brief that the cache gives it. *)

Key_Shared(c) == CHOOSE s \in Scopes : TRUE  \* mutant: one part for all contexts

Key(c) == ScopeOf[c]

CanReview_Unchecked(b, a) == TRUE  \* mutant: the posture is not asked

CanReview(b, a) == b.run # Nothing /\ b.posture # Nothing /\ a \in b.posture.allowed

(* A read returns the brief; a review action goes on to post, unless the   *)
(* brief has no run, no posture, or does not allow it.                     *)
Given(c, a, b, old) ==
  IF a # Nothing /\ CanReview(b, a)
    THEN /\ call'   = [call EXCEPT ![c] = [IdleCall EXCEPT !.phase = "post", !.action = a,
                                                           !.run = b.run, !.old = old]]
         /\ answer' = [answer EXCEPT ![c] = NoAnswer]
         /\ UNCHANGED kept
    ELSE /\ call'   = [call EXCEPT ![c] = [IdleCall EXCEPT !.old = old]]
         /\ IF a # Nothing
              THEN /\ answer' = [answer EXCEPT ![c] = [NoAnswer EXCEPT !.kind = "refused"]]
                   /\ UNCHANGED kept
              ELSE /\ answer' = [answer EXCEPT ![c] = [kind |-> "brief", run |-> b.run,
                                                       posture |-> b.posture]]
                   /\ kept'   = [kept EXCEPT ![c] = IF store[Key(c)] = b THEN b.run ELSE Nothing]

Fails(c) ==
  /\ call'   = [call EXCEPT ![c] = [IdleCall EXCEPT !.old = call[c].old]]
  /\ answer' = [answer EXCEPT ![c] = [NoAnswer EXCEPT !.kind = "failed"]]

(* get_performance_advisor_brief, for a read (a = Nothing) or a review. *)
Hit(c, a) ==
  /\ call[c].phase = "idle"
  /\ store[Key(c)] # Nothing
  /\ Given(c, a, store[Key(c)], settled)
  /\ UNCHANGED <<log, store, inflight, fill, settled>>

Waits(c, a, r) ==
  /\ call'   = [call EXCEPT ![c] = [IdleCall EXCEPT !.phase = "waiting", !.action = a,
                                                    !.run = r, !.old = settled]]
  /\ answer' = [answer EXCEPT ![c] = NoAnswer]
  /\ UNCHANGED <<log, store, settled, kept>>

Join(c, a) ==
  /\ call[c].phase = "idle"
  /\ store[Key(c)] = Nothing /\ inflight[Key(c)] # Nothing
  /\ Waits(c, a, inflight[Key(c)])
  /\ UNCHANGED <<inflight, fill>>

Start(c, a, r) ==
  /\ call[c].phase = "idle"
  /\ store[Key(c)] = Nothing /\ inflight[Key(c)] = Nothing
  /\ fill[r].phase = "free"
  /\ inflight' = [inflight EXCEPT ![Key(c)] = r]
  /\ fill'     = [fill EXCEPT ![r] = [FreeFill EXCEPT !.phase = "source", !.scope = ScopeOf[c]]]
  /\ Waits(c, a, r)

Resume(c) ==
  /\ call[c].phase = "waiting"
  /\ fill[call[c].run].phase = "done"
  /\ LET b == fill[call[c].run].brief IN
     IF b = Nothing THEN Fails(c) /\ UNCHANGED kept
                    ELSE Given(c, call[c].action, b, call[c].old)
  /\ UNCHANGED <<log, store, inflight, fill, settled>>

-----------------------------------------------------------------------------
(* The fill. *)

OnlyFill == UNCHANGED <<store, inflight, call, answer, settled, kept>>

(* The workspace is composed and the workflow pack is executed, which      *)
(* gives a run, or none: the source is unavailable, or lotus-ai fails.     *)
Execute(r) ==
  /\ fill[r].phase = "source"
  /\ \/ \E first \in SUBSET Actions :
          /\ log'  = [log EXCEPT ![r] = <<first>>]
          /\ fill' = [fill EXCEPT ![r].phase = "load", ![r].run = r]
     \/ /\ fill' = [fill EXCEPT ![r].phase = "load", ![r].load = Loaded(Nothing)]
        /\ UNCHANGED log
  /\ OnlyFill

LoadPosture(r) ==
  /\ fill[r].phase = "load"
  /\ \E next \in NextLoads(fill[r].load, r) : fill' = [fill EXCEPT ![r].load = next]
  /\ OnlyFill /\ UNCHANGED log

Released(r) == [s \in Scopes |-> IF inflight[s] = r THEN Nothing ELSE inflight[s]]

Publish_Unfenced(r) ==  \* mutant: a fill that clear detached is stored too
  /\ fill[r].phase = "load" /\ fill[r].load.step = "rest"
  /\ LET b == [run |-> fill[r].run, posture |-> fill[r].load.posture] IN
       /\ fill'  = [fill EXCEPT ![r] = [FreeFill EXCEPT !.phase = "done", !.scope = fill[r].scope, !.brief = b]]
       /\ store' = [store EXCEPT ![fill[r].scope] = b]
  /\ inflight' = Released(r)
  /\ UNCHANGED <<log, call, answer, settled, kept>>

(* The brief is stored, unless the fill was detached. *)
Publish(r) ==
  /\ fill[r].phase = "load" /\ fill[r].load.step = "rest"
  /\ LET b == [run |-> fill[r].run, posture |-> fill[r].load.posture] IN
       /\ fill'  = [fill EXCEPT ![r] = [FreeFill EXCEPT !.phase = "done", !.scope = fill[r].scope, !.brief = b]]
       /\ store' = [s \in Scopes |-> IF inflight[s] = r THEN b ELSE store[s]]
  /\ inflight' = Released(r)
  /\ UNCHANGED <<log, call, answer, settled, kept>>

(* A read of the fill raises; nothing is stored. *)
Break(r) ==
  /\ fill[r].phase \in {"source", "load"}
  /\ fill'     = [fill EXCEPT ![r] = [FreeFill EXCEPT !.phase = "done", !.scope = fill[r].scope]]
  /\ inflight' = Released(r)
  /\ UNCHANGED <<log, store, call, answer, settled, kept>>

-----------------------------------------------------------------------------
(* The review action. *)

(* lotus-ai records the action, if its own state of the run allows it, and *)
(* says so. *)
Post(c) ==
  /\ call[c].phase = "post"
  /\ call[c].action \in Last(log[call[c].run]) /\ Len(log[call[c].run]) < MaxLog
  /\ \E next \in SUBSET Actions : log' = Reviewed(call[c].run, next)
  /\ call' = [call EXCEPT ![c].phase = "load", ![c].base = Len(log[call[c].run]) + 1]
  /\ UNCHANGED <<store, inflight, fill, answer, settled, kept>>

(* Any other status raises: the run does not allow the action any more, or *)
(* the answer is lost, with the action recorded (ReviewElsewhere) or not.  *)
(* The brief stays cached.                                                 *)
PostFails(c) ==
  /\ call[c].phase = "post"
  /\ Fails(c)
  /\ UNCHANGED <<log, store, inflight, fill, settled, kept>>

LoadAgain(c) ==
  /\ call[c].phase = "load"
  /\ \E next \in NextLoads(call[c].load, call[c].run) : call' = [call EXCEPT ![c].load = next]
  /\ UNCHANGED <<log, store, inflight, fill, answer, settled, kept>>

(* clear_cache: the scope's brief goes, and its fill is detached. *)
Cleared(s) ==
  /\ store'    = [store EXCEPT ![s] = Nothing]
  /\ inflight' = [inflight EXCEPT ![s] = Nothing]

Reply(c, posture) ==
  /\ call'    = [call EXCEPT ![c].phase = "idle", ![c].load = NoLoad]
  /\ answer'  = [answer EXCEPT ![c] = [kind |-> "reviewed", run |-> call[c].run, posture |-> posture]]
  /\ settled' = settled \cup {call[c].run}
  /\ UNCHANGED <<log, fill>>

Conclude_WithoutClear(c) ==  \* mutant: the cache is not cleared
  /\ call[c].phase = "load" /\ call[c].load.step = "rest"
  /\ Reply(c, call[c].load.posture)
  /\ UNCHANGED <<store, inflight, kept>>

Conclude_OwnBrief(c) ==  \* mutant: the brief that was reviewed is returned
  /\ call[c].phase = "load" /\ call[c].load.step = "rest"
  /\ Reply(c, IF store[Key(c)] = Nothing THEN Nothing ELSE store[Key(c)].posture)
  /\ Cleared(Key(c))
  /\ kept' = Dropped(ScopeOf[c])

Conclude(c) ==
  /\ call[c].phase = "load" /\ call[c].load.step = "rest"
  /\ Reply(c, call[c].load.posture)
  /\ Cleared(Key(c))
  /\ kept' = Dropped(ScopeOf[c])

(* A read of the posture raises, after the action was recorded. *)
LoadRaises(c) ==
  /\ call[c].phase = "load"
  /\ Fails(c)
  /\ UNCHANGED <<log, store, inflight, fill, settled, kept>>

(* The request is cancelled, wherever it waits; a fill goes on. *)
Cancel(c) ==
  /\ call[c].phase # "idle"
  /\ Fails(c)
  /\ UNCHANGED <<log, store, inflight, fill, settled, kept>>

-----------------------------------------------------------------------------
(* The time to live of a brief ends. *)
Expire(s) ==
  /\ store[s] # Nothing
  /\ store'   = [store EXCEPT ![s] = Nothing]
  /\ kept'    = Dropped(s)
  /\ UNCHANGED <<log, inflight, fill, call, answer, settled>>

(* The review of another brief of the scope ends with clear_cache. *)
ClearElsewhere(s) ==
  /\ Cleared(s)
  /\ kept'    = Dropped(s)
  /\ UNCHANGED <<log, fill, call, answer, settled>>

Next ==
  \/ \E c \in Callers, a \in Actions \cup {Nothing} :
        Hit(c, a) \/ Join(c, a) \/ \E r \in Runs : Start(c, a, r)
  \/ \E c \in Callers : \/ Resume(c) \/ Post(c) \/ PostFails(c) \/ LoadAgain(c)
                         \/ Conclude(c) \/ LoadRaises(c) \/ Cancel(c)
  \/ \E r \in Runs : Execute(r) \/ LoadPosture(r) \/ Publish(r) \/ Break(r) \/ ReviewElsewhere(r)
  \/ \E s \in Scopes : Expire(s) \/ ClearElsewhere(s)

Spec == Init /\ [][Next]_vars
=============================================================================
