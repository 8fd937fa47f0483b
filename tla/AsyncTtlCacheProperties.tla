---------------------- MODULE AsyncTtlCacheProperties ----------------------
(***************************************************************************)
(* What is checked of AsyncTtlCache.                                       *)
(***************************************************************************)
EXTENDS AsyncTtlCache

Phases  == {"free", "running", "finished", "published"}
FillRec == [phase : Phases, outcome : Outcomes, key : Keys \cup {NoKey},
            val : Values \cup {NoValue}]
Answers == [kind : {"none", "value", "error", "abandoned"}, val : Values \cup {NoValue}]

(* Every variable has the type of the attribute or of the task state it    *)
(* stands for; a fill that was started belongs to a key and makes a value. *)
TypeOK ==
  /\ entries  \in [Keys -> Entries \cup {NoEntry}]
  /\ inflight \in [Keys -> Fills \cup {NoFill}]
  /\ fill     \in [Fills -> FillRec]
  /\ \A f \in Fills : fill[f].phase # "free" => fill[f].key \in Keys /\ fill[f].val \in Values
  /\ stopping \in BOOLEAN
  /\ waiting  \in [Callers -> Fills \cup {NoFill}]
  /\ asked    \in [Callers -> LocalKeys \cup {NoKey}]
  /\ admitted \in [Callers -> Nat]
  /\ answer   \in [Callers -> Answers]
  /\ gen      \in [Keys -> Nat]

(* The generation fence of clear, discard and set (:83-97, and the docstring *)
(* at :18-21): no entry was filled before its key was last invalidated or    *)
(* set, whatever fill ends when.                                             *)
GenerationFence ==
  \A key \in Keys : entries[key] # NoEntry => entries[key].val.gen = gen[key]

(* Coalescing (:57-68): of one key and generation at most one fill is      *)
(* running or about to publish.                                            *)
OneFillPerGeneration ==
  \A f, g \in Fills :
    /\ fill[f].phase \in {"running", "finished"}
    /\ fill[g].phase \in {"running", "finished"}
    /\ fill[f].key = fill[g].key
    /\ fill[f].val.gen = fill[g].val.gen
    => f = g

(* A caller that got an error because the shared fill was cancelled sees   *)
(* that only while the loop stops: another caller's cancellation, before   *)
(* or during the wait, never reaches it through the shield (:70).          *)
OnlyShutdownCancelsFills ==
  \A f \in Fills : fill[f].phase # "free" /\ fill[f].outcome = "cancelled" => stopping

(* Namespaces (:31-35, :50): what a call returns was made for the scope of *)
(* the view it went through.                                               *)
OwnNamespace ==
  \A c \in Callers : answer[c].kind = "value" => answer[c].val.scope = ScopeOf[c]

(* AsyncTtlCache implements GenerationalCache.                             *)
NameOf(n) == FullKey(n[1], n[2])
AllNames  == Scopes \X LocalKeys
Abstract == INSTANCE GenerationalCache WITH
  Callers   <- Callers,
  LocalKeys <- LocalKeys,
  ScopeOf   <- ScopeOf,
  Covers    <- [s \in Scopes |-> {t \in Scopes : IsPrefix(s, t)}],
  Nothing   <- NoFill,
  gen       <- [n \in AllNames |-> gen[NameOf(n)]],
  stored    <- [n \in AllNames |-> IF entries[NameOf(n)] = NoEntry THEN NoFill
                                   ELSE entries[NameOf(n)].val],
  pending   <- [c \in Callers |-> IF waiting[c] = NoFill THEN NoFill ELSE asked[c]],
  admitted  <- admitted,
  answer    <- answer

(* The refinement: a waiter is given a value of the generation it was      *)
(* admitted against even when that generation has ended since, and no      *)
(* detached fill ever reaches what later callers are given.                *)
ImplementsGenerationalCache == Abstract!Spec

(* The loop runs every task and callback: a fill ends (each upstream call  *)
(* has a timeout), its callback is called and its waiters resume.          *)
Fairness ==
  /\ \A f \in Fills : WF_vars(FinishFill(f)) /\ WF_vars(PublishFill(f))
  /\ \A c \in Callers : WF_vars(Resume(c))

FairSpec == Spec /\ Fairness

(* No waiter is left behind: not by a fill that fails or is cancelled, not *)
(* by one that was detached while it waited.                               *)
EveryWaiterReturns == \A c \in Callers : waiting[c] # NoFill ~> waiting[c] = NoFill

(* No fill keeps the slot of its key: a failed or cancelled fill does not  *)
(* poison the key (:72-80).                                                *)
SlotIsReleased ==
  \A key \in Keys, f \in Fills : inflight[key] = f ~> inflight[key] # f

(* Nothing is held for good: a fill that fails, is cancelled or detached   *)
(* leaves neither a waiter behind nor the slot of its key taken.           *)
NothingIsHeld == EveryWaiterReturns /\ SlotIsReleased

(* The safety core of NothingIsHeld: whoever waits, waits for a fill that  *)
(* the loop still has to run, to publish or to hand over, and only a fill  *)
(* with such a turn left has the slot of its key.                          *)
NothingIsStranded ==
  /\ \A c \in Callers : waiting[c] # NoFill => fill[waiting[c]].phase \in {"running", "finished", "published"}
  /\ \A key \in Keys : inflight[key] # NoFill => fill[inflight[key]].phase \in {"running", "finished"}

(* These turns are used up: a call keeps to the fill it waits for, and     *)
(* neither that fill nor one that keeps its slot starts over, although     *)
(* the identity of a task that nothing refers to is used again.            *)
Stage(p) == CASE p = "free" -> 0 [] p = "running" -> 1 [] p = "finished" -> 2 [] p = "published" -> 3

GoesForward(f) == /\ Stage(fill'[f].phase) >= Stage(fill[f].phase)
                  /\ fill'[f].key = fill[f].key /\ fill'[f].val = fill[f].val

TurnUsed ==
  /\ \A c \in Callers : waiting[c] # NoFill =>
       waiting'[c] \in {waiting[c], NoFill} /\ GoesForward(waiting[c])
  /\ \A key \in Keys : inflight[key] # NoFill => GoesForward(inflight[key])

FillsGoForward == [][TurnUsed]_vars
=============================================================================
