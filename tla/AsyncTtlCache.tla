--------------------------- MODULE AsyncTtlCache ---------------------------
(***************************************************************************)
(* services/async_ttl_cache.py: a process-local TTL cache that coalesces   *)
(* concurrent fills per key.                                               *)
(*                                                                         *)
(* The event loop runs one callback or one stretch of a coroutine between  *)
(* two awaits at a time, so each action is such a stretch.  The lock of    *)
(* get_or_set_with_status guards a body that never awaits: it is never     *)
(* contended, and the body is one action.  A fill that finishes has its    *)
(* done-callback called on a later turn of the loop, and every waiter is   *)
(* resumed after that callback, which was registered first; other tasks    *)
(* may run in between.                                                     *)
(*                                                                         *)
(* Time is kept per entry, as what is left of its ttl (entry[0] - now): a  *)
(* Tick takes one unit from every entry, and an entry is live while some   *)
(* is left (entry[0] > now).                                               *)
(***************************************************************************)
EXTENDS Naturals, Sequences, SequencesExt

CONSTANTS
  Callers,    \* requests that use the cache, each through one view of it
  ScopeParts, \* what scoped() appends: a tuple of header pairs
  KeyParts,   \* what keys are made of
  LocalKeys,  \* the keys passed in; each begins with a string
  Scopes,     \* the scope prefixes of the views in use; the root view's is <<>>
  ScopeOf,    \* ScopeOf[c]: the scope prefix of the view that c holds
  Fills,      \* identities of the fill tasks (a bound on those alive at once)
  Ttl,        \* ttl_seconds, in ticks
  MaxGen,     \* bound: invalidations and sets of one key
  NoFill,     \* no task, no entry, no value
  NoKey

ASSUME CacheAssumption ==
  /\ Scopes \subseteq Seq(ScopeParts)
  /\ ScopeOf \in [Callers -> Scopes]
  /\ LocalKeys \subseteq Seq(KeyParts) \ {<<>>}
  /\ \A k \in LocalKeys : Head(k) \notin ScopeParts
  /\ Ttl \in Nat
  /\ MaxGen \in Nat
  /\ NoFill \notin Fills
  /\ NoKey \notin LocalKeys
  /\ NoFill \notin LocalKeys

(* A full key is the view's scope followed by the caller's key. *)
FullKey(s, k) == s \o k
Keys    == {FullKey(s, k) : s \in Scopes, k \in LocalKeys}

InScope(key, s) == IsPrefix(s, key)

(* A value remembers the name it was made for and, as history, the         *)
(* generation of the key when its fill began.                              *)
Values  == [scope : Scopes, local : LocalKeys, gen : Nat]
NoValue == NoFill
Entries == [left : Nat, val : Values]
NoEntry == NoFill

ASSUME NoEntryIsNoRecord == NoEntry \notin [left : Nat, val : Values \cup {NoValue}]

Outcomes == {"ok", "error", "cancelled"}

VARIABLES
  entries,   \* _entries: key -> entry, or NoEntry
  inflight,  \* _inflight: key -> fill, or NoFill
  fill,      \* the fill tasks
  stopping,  \* the event loop is cancelling its tasks
  waiting,   \* waiting[c]: the fill that c awaits behind a shield, or NoFill
  asked,     \* asked[c]: the key c passed to the call it waits for, or NoKey
  admitted,  \* history: the generation the call of c that waits was admitted against
  answer,    \* what c's last call returned or raised
  gen        \* history: how often each key was cleared, discarded or set

vars == <<entries, inflight, fill, stopping, waiting, asked, admitted, answer, gen>>

KeyOf(c, k)    == FullKey(ScopeOf[c], k)
ValueFor(c, k) == [scope |-> ScopeOf[c], local |-> k, gen |-> gen[KeyOf(c, k)]]

NoAnswer == [kind |-> "none", val |-> NoValue]
NewFill  == [phase |-> "free", outcome |-> "ok", key |-> NoKey, val |-> NoValue]

Init ==
  /\ entries  = [key \in Keys |-> NoEntry]
  /\ inflight = [key \in Keys |-> NoFill]
  /\ fill     = [f \in Fills |-> NewFill]
  /\ stopping = FALSE
  /\ waiting  = [c \in Callers |-> NoFill]
  /\ asked    = [c \in Callers |-> NoKey]
  /\ admitted = [c \in Callers |-> 0]
  /\ answer   = [c \in Callers |-> NoAnswer]
  /\ gen      = [key \in Keys |-> 0]

-----------------------------------------------------------------------------
Live(key) == entries[key] # NoEntry /\ entries[key].left > 0

(* Mutant: a fill that fails is stored as an empty value. *)
Recorded_CachesFailures(key, outcome, val) ==
  [entries EXCEPT ![key] = [left |-> Ttl, val |-> IF outcome = "ok" THEN val ELSE NoValue]]

(* _record_fill_result: only a result is stored, for a whole ttl. *)
Recorded(key, outcome, val) ==
  IF outcome = "ok" THEN [entries EXCEPT ![key] = [left |-> Ttl, val |-> val]] ELSE entries

(* What awaiting a finished fill gives. *)
Settled(outcome, val) ==
  IF outcome = "ok" THEN [kind |-> "value", val |-> val]
                    ELSE [kind |-> "error", val |-> NoValue]

(* A task object that nothing refers to any more. *)
Unreferenced(f) ==
  /\ fill[f].phase \in {"free", "published"}
  /\ \A c \in Callers : waiting[c] # f
  /\ \A key \in Keys : inflight[key] # f

(* get_or_set_with_status is called: the caller is not awaiting anything. *)
Called(c, k) ==
  /\ waiting[c] = NoFill
  /\ UNCHANGED <<stopping, gen>>

Awaits(c, k, f) ==
  /\ waiting'  = [waiting EXCEPT ![c] = f]
  /\ asked'    = [asked EXCEPT ![c] = k]
  /\ admitted' = [admitted EXCEPT ![c] = gen[KeyOf(c, k)]]
  /\ answer'   = [answer EXCEPT ![c] = NoAnswer]

Returns(c, ans) ==
  /\ answer' = [answer EXCEPT ![c] = ans]
  /\ UNCHANGED <<waiting, asked, admitted>>

(* A call that awaited a fill ends with ans. *)
Leaves(c, ans) ==
  /\ waiting[c] # NoFill
  /\ waiting'  = [waiting EXCEPT ![c] = NoFill]
  /\ asked'    = [asked EXCEPT ![c] = NoKey]
  /\ admitted' = [admitted EXCEPT ![c] = 0]
  /\ answer'   = [answer EXCEPT ![c] = ans]
  /\ UNCHANGED <<entries, inflight, fill, stopping, gen>>

(* A live entry is returned as a hit. *)
Hit(c, k) ==
  /\ Called(c, k)
  /\ Live(KeyOf(c, k))
  /\ Returns(c, Settled("ok", entries[KeyOf(c, k)].val))
  /\ UNCHANGED <<entries, inflight, fill>>

(* A fill in flight is joined.  One that has finished but whose callback   *)
(* has not run yet answers without a further turn of the loop.             *)
Join(c, k) ==
  LET f == inflight[KeyOf(c, k)] IN
  /\ Called(c, k)
  /\ ~Live(KeyOf(c, k))
  /\ f # NoFill
  /\ IF fill[f].phase = "running"
       THEN Awaits(c, k, f)
       ELSE Returns(c, Settled(fill[f].outcome, fill[f].val))
  /\ UNCHANGED <<entries, inflight, fill>>

(* Mutant: a miss starts a fill without looking for one in flight. *)
StartFill_Uncoalesced(c, k, f) ==
  LET key == KeyOf(c, k) IN
  /\ Called(c, k)
  /\ ~Live(key)
  /\ Unreferenced(f)
  /\ fill' = [fill EXCEPT ![f] = [phase |-> "running", outcome |-> "ok",
                                  key |-> key, val |-> ValueFor(c, k)]]
  /\ inflight' = [inflight EXCEPT ![key] = f]
  /\ Awaits(c, k, f)
  /\ UNCHANGED entries

(* No live entry and no fill in flight: the factory's task is started. *)
StartFill(c, k, f) ==
  LET key == KeyOf(c, k) IN
  /\ Called(c, k)
  /\ ~Live(key)
  /\ inflight[key] = NoFill
  /\ Unreferenced(f)
  /\ fill' = [fill EXCEPT ![f] = [phase |-> "running", outcome |-> "ok",
                                  key |-> key, val |-> ValueFor(c, k)]]
  /\ inflight' = [inflight EXCEPT ![key] = f]
  /\ Awaits(c, k, f)
  /\ UNCHANGED entries

(* The factory returned a future that is already done: it is recorded at   *)
(* once and never takes the slot.                                          *)
StartDoneFill(c, k) ==
  LET key == KeyOf(c, k) IN
  /\ Called(c, k)
  /\ ~Live(key)
  /\ inflight[key] = NoFill
  /\ \E outcome \in Outcomes :
        /\ entries' = Recorded(key, outcome, ValueFor(c, k))
        /\ Returns(c, Settled(outcome, ValueFor(c, k)))
  /\ UNCHANGED <<inflight, fill>>

-----------------------------------------------------------------------------
(* The fill f with its next phase and its outcome. *)
Moved(f, phase, outcome) ==
  [fill EXCEPT ![f] = [phase |-> phase, outcome |-> outcome, key |-> fill[f].key, val |-> fill[f].val]]

(* The fill task ends; only the loop's shutdown cancels one. *)
FinishFill(f) ==
  /\ fill[f].phase = "running"
  /\ \E outcome \in Outcomes :
        /\ outcome = "cancelled" => stopping
        /\ fill' = Moved(f, "finished", outcome)
  /\ UNCHANGED <<entries, inflight, stopping, waiting, asked, admitted, answer, gen>>

(* Mutant: the callback does not ask whether its fill still has the slot. *)
PublishFill_AnyTask(f) ==
  LET key == fill[f].key IN
  /\ fill[f].phase = "finished"
  /\ fill'     = Moved(f, "published", fill[f].outcome)
  /\ inflight' = [inflight EXCEPT ![key] = NoFill]
  /\ entries'  = Recorded(key, fill[f].outcome, fill[f].val)
  /\ UNCHANGED <<stopping, waiting, asked, admitted, answer, gen>>

(* Mutant: only a result frees the slot, so that a failure poisons the key. *)
PublishFill_PoisonOnError(f) ==
  LET key == fill[f].key IN
  /\ fill[f].phase = "finished"
  /\ fill' = Moved(f, "published", fill[f].outcome)
  /\ IF inflight[key] = f /\ fill[f].outcome = "ok"
       THEN /\ inflight' = [inflight EXCEPT ![key] = NoFill]
            /\ entries'  = Recorded(key, fill[f].outcome, fill[f].val)
       ELSE UNCHANGED <<inflight, entries>>
  /\ UNCHANGED <<stopping, waiting, asked, admitted, answer, gen>>

(* _publish_fill, the done-callback. *)
PublishFill(f) ==
  LET key == fill[f].key IN
  /\ fill[f].phase = "finished"
  /\ fill' = Moved(f, "published", fill[f].outcome)
  /\ IF inflight[key] = f
       THEN /\ inflight' = [inflight EXCEPT ![key] = NoFill]
            /\ entries'  = Recorded(key, fill[f].outcome, fill[f].val)
       ELSE UNCHANGED <<inflight, entries>>
  /\ UNCHANGED <<stopping, waiting, asked, admitted, answer, gen>>

(* The shield of a waiter is resolved and the call returns or raises. *)
Resume(c) ==
  /\ waiting[c] # NoFill
  /\ fill[waiting[c]].phase = "published"
  /\ Leaves(c, Settled(fill[waiting[c]].outcome, fill[waiting[c]].val))

(* Mutant: the fill is awaited without a shield. *)
CancelWaiter_Unshielded(c) ==
  LET f == waiting[c] IN
  /\ f # NoFill
  /\ waiting'  = [waiting EXCEPT ![c] = NoFill]
  /\ asked'    = [asked EXCEPT ![c] = NoKey]
  /\ admitted' = [admitted EXCEPT ![c] = 0]
  /\ answer'   = [answer EXCEPT ![c] = [kind |-> "abandoned", val |-> NoValue]]
  /\ fill'     = IF fill[f].phase = "running"
                   THEN Moved(f, "finished", "cancelled")
                   ELSE fill
  /\ UNCHANGED <<entries, inflight, stopping, gen>>

(* The waiter's own task is cancelled (its client went away, its deadline  *)
(* passed): the shield keeps the cancellation from the fill.               *)
CancelWaiter(c) == Leaves(c, [kind |-> "abandoned", val |-> NoValue])

-----------------------------------------------------------------------------
Dropped(table, gone) == [key \in Keys |-> IF key \in gone THEN NoFill ELSE table[key]]

(* Every key of gone starts a new generation (history only). *)
NewGeneration(gone) ==
  /\ \A key \in gone : gen[key] < MaxGen
  /\ gen' = [key \in Keys |-> IF key \in gone THEN gen[key] + 1 ELSE gen[key]]

(* clear of the view with scope s. *)
Clear(s) ==
  LET gone == {key \in Keys : InScope(key, s)} IN
  /\ NewGeneration(gone)
  /\ entries'  = Dropped(entries, gone)
  /\ inflight' = Dropped(inflight, gone)
  /\ UNCHANGED <<fill, stopping, waiting, asked, admitted, answer>>

(* Mutant: the entry is dropped, the fill in flight stays joinable. *)
Discard_KeepsFill(s, k) ==
  /\ NewGeneration({FullKey(s, k)})
  /\ entries' = [entries EXCEPT ![FullKey(s, k)] = NoEntry]
  /\ UNCHANGED <<inflight, fill, stopping, waiting, asked, admitted, answer>>

Discard(s, k) ==
  /\ NewGeneration({FullKey(s, k)})
  /\ entries'  = [entries EXCEPT ![FullKey(s, k)] = NoEntry]
  /\ inflight' = [inflight EXCEPT ![FullKey(s, k)] = NoFill]
  /\ UNCHANGED <<fill, stopping, waiting, asked, admitted, answer>>

Set(s, k) ==
  LET key == FullKey(s, k) IN
  /\ NewGeneration({key})
  /\ entries'  = [entries EXCEPT ![key] =
                    [left |-> Ttl, val |-> [scope |-> s, local |-> k, gen |-> gen'[key]]]]
  /\ inflight' = [inflight EXCEPT ![key] = NoFill]
  /\ UNCHANGED <<fill, stopping, waiting, asked, admitted, answer>>

Tick ==
  /\ \E key \in Keys : Live(key)
  /\ entries' = [key \in Keys |->
                    IF Live(key) THEN [left |-> entries[key].left - 1, val |-> entries[key].val]
                                  ELSE entries[key]]
  /\ UNCHANGED <<inflight, fill, stopping, waiting, asked, admitted, answer, gen>>

Stop ==
  /\ ~stopping
  /\ stopping' = TRUE
  /\ UNCHANGED <<entries, inflight, fill, waiting, asked, admitted, answer, gen>>

Next ==
  \/ \E c \in Callers, k \in LocalKeys :
        \/ Hit(c, k)
        \/ Join(c, k)
        \/ StartDoneFill(c, k)
        \/ \E f \in Fills : StartFill(c, k, f)
  \/ \E f \in Fills : FinishFill(f) \/ PublishFill(f)
  \/ \E c \in Callers : Resume(c) \/ CancelWaiter(c)
  \/ \E s \in Scopes, k \in LocalKeys : Discard(s, k) \/ Set(s, k)
  \/ \E s \in Scopes : Clear(s)
  \/ Tick
  \/ Stop

Spec == Init /\ [][Next]_vars
=============================================================================
