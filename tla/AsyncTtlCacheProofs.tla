------------------------ MODULE AsyncTtlCacheProofs ------------------------
(***************************************************************************)
(* Proofs about AsyncTtlCache, for any number of callers, keys, scopes and *)
(* fills.                                                                  *)
(***************************************************************************)
EXTENDS AsyncTtlCacheProperties, TLAPS

(***************************************************************************)
(* The inductive invariant.  An open fill (running, or finished with its   *)
(* callback still to come) either holds the slot of its key in the key's   *)
(* current generation or belongs to an earlier one for good.               *)
(***************************************************************************)
Open(f) == fill[f].phase \in {"running", "finished"}

(* The slot of a key holds an open fill of that key's current generation. *)
SlotInv ==
  \A key \in Keys : inflight[key] # NoFill =>
    /\ Open(inflight[key])
    /\ fill[inflight[key]].key = key
    /\ fill[inflight[key]].val.gen = gen[key]

(* An open fill of the current generation holds the slot of its key. *)
OpenInv ==
  \A f \in Fills : Open(f) =>
    /\ fill[f].val.gen <= gen[fill[f].key]
    /\ fill[f].val.gen = gen[fill[f].key] => inflight[fill[f].key] = f

(* Fills and entries make and keep values for the key they belong to. *)
NameInv ==
  /\ \A f \in Fills : fill[f].phase # "free" =>
       FullKey(fill[f].val.scope, fill[f].val.local) = fill[f].key
  /\ \A key \in Keys : entries[key] # NoEntry =>
       FullKey(entries[key].val.scope, entries[key].val.local) = key

(* A waiter's fill makes the value its call was admitted against. *)
WaitInv ==
  \A c \in Callers : waiting[c] # NoFill =>
    /\ asked[c] \in LocalKeys
    /\ fill[waiting[c]].phase # "free"
    /\ fill[waiting[c]].val = [scope |-> ScopeOf[c], local |-> asked[c], gen |-> admitted[c]]

IInv ==
  /\ TypeOK
  /\ SlotInv
  /\ OpenInv
  /\ NameInv
  /\ WaitInv
  /\ GenerationFence
  /\ OneFillPerGeneration
  /\ OwnNamespace

(* A view's scope and the caller's key can be told apart in a full key     *)
(* (:31-35, :50): a key begins with a string, a scope part is never one.   *)
LEMMA FullKeyInjective ==
  ASSUME NEW s \in Scopes, NEW t \in Scopes, NEW k \in LocalKeys, NEW l \in LocalKeys,
         FullKey(s, k) = FullKey(t, l)
  PROVE  s = t /\ k = l
<1>1. /\ s \in Seq(ScopeParts) /\ t \in Seq(ScopeParts)
      /\ k \in Seq(KeyParts) /\ k # <<>> /\ l \in Seq(KeyParts) /\ l # <<>>
      /\ k[1] \notin ScopeParts /\ l[1] \notin ScopeParts
  BY CacheAssumption
<1>2. s \o k = t \o l
  BY DEF FullKey
<1>3. Len(s) = Len(t)
  <2>1. CASE Len(s) < Len(t)
    <3>1. (s \o k)[Len(s) + 1] = k[1]
      BY <1>1
    <3>2. (t \o l)[Len(s) + 1] = t[Len(s) + 1] /\ t[Len(s) + 1] \in ScopeParts
      BY <1>1, <2>1
    <3>3. QED BY <3>1, <3>2, <1>1, <1>2
  <2>2. CASE Len(t) < Len(s)
    <3>1. (t \o l)[Len(t) + 1] = l[1]
      BY <1>1
    <3>2. (s \o k)[Len(t) + 1] = s[Len(t) + 1] /\ s[Len(t) + 1] \in ScopeParts
      BY <1>1, <2>2
    <3>3. QED BY <3>1, <3>2, <1>1, <1>2
  <2>3. QED BY <1>1, <2>1, <2>2
<1>4. Len(k) = Len(l)
  BY <1>1, <1>2, <1>3
<1>5. \A i \in 1..Len(s) : s[i] = t[i]
  <2>1. \A i \in 1..Len(s) : (s \o k)[i] = s[i] /\ (t \o l)[i] = t[i]
    BY <1>1, <1>3
  <2>2. QED BY <2>1, <1>2
<1>6. \A i \in 1..Len(k) : k[i] = l[i]
  <2>1. \A i \in 1..Len(k) : (s \o k)[Len(s) + i] = k[i] /\ (t \o l)[Len(s) + i] = l[i]
    BY <1>1, <1>3, <1>4
  <2>2. QED BY <2>1, <1>2
<1>7. QED BY <1>1, <1>3, <1>4, <1>5, <1>6

-----------------------------------------------------------------------------
(* The names used by an action are names of the store. *)
LEMMA NamesAreTyped ==
  ASSUME TypeOK, NEW c \in Callers, NEW k \in LocalKeys
  PROVE  /\ ScopeOf[c] \in Scopes
         /\ KeyOf(c, k) \in Keys
         /\ KeyOf(c, k) = FullKey(ScopeOf[c], k)
         /\ ValueFor(c, k) \in Values
         /\ ValueFor(c, k) = [scope |-> ScopeOf[c], local |-> k, gen |-> gen[KeyOf(c, k)]]
<1>1. ScopeOf[c] \in Scopes
  BY CacheAssumption
<1>2. KeyOf(c, k) \in Keys
  BY <1>1 DEF Keys, KeyOf
<1>3. QED BY <1>1, <1>2 DEF KeyOf, ValueFor, Values, TypeOK

(* Recording a fill's outcome keeps the entries typed. *)
LEMMA RecordedIsTyped ==
  ASSUME TypeOK, NEW key \in Keys, NEW outcome \in Outcomes, NEW val \in Values
  PROVE  Recorded(key, outcome, val) \in [Keys -> Entries \cup {NoEntry}]
BY CacheAssumption DEF TypeOK, Recorded, Entries

(* What a fill gives is an answer. *)
LEMMA SettledIsTyped ==
  ASSUME NEW outcome \in Outcomes, NEW val \in Values
  PROVE  Settled(outcome, val) \in Answers
BY DEF Settled, Answers

-----------------------------------------------------------------------------
(* One step keeps every variable typed. *)
LEMMA TypeStep ==
  ASSUME TypeOK, [Next]_vars
  PROVE  TypeOK'
<1>1. ASSUME NEW c \in Callers, NEW k \in LocalKeys, Hit(c, k) PROVE TypeOK'
  <2>1. Settled("ok", entries[KeyOf(c, k)].val) \in Answers
    BY <1>1, NamesAreTyped, SettledIsTyped DEF Hit, Live, TypeOK, Entries, Outcomes
  <2>2. QED BY <1>1, <2>1 DEF Hit, Called, Returns, TypeOK
<1>2. ASSUME NEW c \in Callers, NEW k \in LocalKeys, Join(c, k) PROVE TypeOK'
  <2> DEFINE f == inflight[KeyOf(c, k)]
  <2>1. KeyOf(c, k) \in Keys /\ f \in Fills
    BY <1>2, NamesAreTyped DEF Join, TypeOK
  <2>2. CASE fill[f].phase = "running"
    <3>1. Awaits(c, k, f) /\ gen[KeyOf(c, k)] \in Nat /\ NoAnswer \in Answers
      BY <1>2, <2>1, <2>2 DEF Join, TypeOK, NoAnswer, Answers
    <3>2. QED BY <1>2, <2>1, <3>1 DEF Join, Called, Awaits, TypeOK
  <2>3. CASE fill[f].phase # "running"
    <3>1. Returns(c, Settled(fill[f].outcome, fill[f].val))
      BY <1>2, <2>3 DEF Join
    <3>2. Settled(fill[f].outcome, fill[f].val) \in Answers
      BY <2>1 DEF TypeOK, FillRec, Settled, Answers
    <3>3. QED BY <1>2, <3>1, <3>2 DEF Join, Called, Returns, TypeOK
  <2>4. QED BY <2>2, <2>3
<1>3. ASSUME NEW c \in Callers, NEW k \in LocalKeys, StartDoneFill(c, k) PROVE TypeOK'
  <2>1. PICK outcome \in Outcomes :
          /\ entries' = Recorded(KeyOf(c, k), outcome, ValueFor(c, k))
          /\ Returns(c, Settled(outcome, ValueFor(c, k)))
    BY <1>3 DEF StartDoneFill
  <2>2. entries' \in [Keys -> Entries \cup {NoEntry}]
    BY <2>1, NamesAreTyped, RecordedIsTyped
  <2>3. Settled(outcome, ValueFor(c, k)) \in Answers
    BY NamesAreTyped, SettledIsTyped
  <2>4. QED BY <1>3, <2>1, <2>2, <2>3 DEF StartDoneFill, Called, Returns, TypeOK
<1>4. ASSUME NEW c \in Callers, NEW k \in LocalKeys, NEW f \in Fills, StartFill(c, k, f)
      PROVE  TypeOK'
  BY <1>4, NamesAreTyped
  DEF StartFill, Called, Awaits, TypeOK, FillRec, Phases, Outcomes, Answers, NoAnswer
<1>5. ASSUME NEW f \in Fills, FinishFill(f) PROVE TypeOK'
  BY <1>5 DEF FinishFill, Moved, TypeOK, FillRec, Phases
<1>6. ASSUME NEW f \in Fills, PublishFill(f) PROVE TypeOK'
  <2>1. Recorded(fill[f].key, fill[f].outcome, fill[f].val) \in [Keys -> Entries \cup {NoEntry}]
    BY <1>6, RecordedIsTyped DEF PublishFill, TypeOK, FillRec
  <2>2. QED BY <1>6, <2>1 DEF PublishFill, Moved, TypeOK, FillRec, Phases
<1>7. ASSUME NEW c \in Callers, NEW ans \in Answers, Leaves(c, ans) PROVE TypeOK'
  BY <1>7 DEF Leaves, TypeOK
<1>8. ASSUME NEW c \in Callers, Resume(c) PROVE TypeOK'
  <2>1. Settled(fill[waiting[c]].outcome, fill[waiting[c]].val) \in Answers
    BY <1>8 DEF Resume, TypeOK, FillRec, Settled, Answers
  <2>2. QED BY <1>7, <1>8, <2>1 DEF Resume
<1>9. ASSUME NEW c \in Callers, CancelWaiter(c) PROVE TypeOK'
  BY <1>7, <1>9 DEF CancelWaiter, Answers
<1>10. ASSUME NEW s \in Scopes, NEW k \in LocalKeys, Discard(s, k) PROVE TypeOK'
  <2>1. gen' \in [Keys -> Nat]
    BY <1>10 DEF Discard, NewGeneration, TypeOK
  <2>2. QED BY <1>10, <2>1 DEF Discard, TypeOK, NoEntry
<1>11. ASSUME NEW s \in Scopes, NEW k \in LocalKeys, Set(s, k) PROVE TypeOK'
  <2>1. FullKey(s, k) \in Keys
    BY DEF Keys
  <2>2. gen' \in [Keys -> Nat]
    BY <1>11 DEF Set, NewGeneration, TypeOK
  <2>3. QED BY <1>11, <2>1, <2>2, CacheAssumption DEF Set, TypeOK, Entries, Values
<1>12. ASSUME NEW s \in Scopes, Clear(s) PROVE TypeOK'
  BY <1>12 DEF Clear, NewGeneration, Dropped, TypeOK, NoEntry
<1>13. CASE Tick
  BY <1>13 DEF Tick, Live, TypeOK, Entries
<1>14. CASE Stop
  BY <1>14 DEF Stop, TypeOK
<1>15. CASE UNCHANGED vars
  BY <1>15 DEF vars, TypeOK
<1>16. QED
  BY <1>1, <1>2, <1>3, <1>4, <1>5, <1>6, <1>8, <1>9, <1>10, <1>11, <1>12, <1>13, <1>14, <1>15
  DEF Next

LEMMA TypeInit == Init => TypeOK
<1>1. NewFill \in FillRec /\ NewFill.phase = "free" /\ NoAnswer \in Answers
  BY DEF NewFill, FillRec, Phases, Outcomes, NoAnswer, Answers
<1> SUFFICES ASSUME Init PROVE TypeOK
  OBVIOUS
<1>2. fill \in [Fills -> FillRec] /\ \A f \in Fills : fill[f].phase = "free"
  BY <1>1 DEF Init
<1>3. /\ entries \in [Keys -> Entries \cup {NoEntry}]
      /\ inflight \in [Keys -> Fills \cup {NoFill}]
      /\ stopping \in BOOLEAN
  BY DEF Init
<1>4. /\ waiting \in [Callers -> Fills \cup {NoFill}]
      /\ asked \in [Callers -> LocalKeys \cup {NoKey}]
      /\ admitted \in [Callers -> Nat]
      /\ answer \in [Callers -> Answers]
      /\ gen \in [Keys -> Nat]
  BY <1>1 DEF Init
<1>5. QED BY <1>2, <1>3, <1>4 DEF TypeOK

(* Every variable keeps the type of the attribute it stands for. *)
THEOREM TypeCorrect == Spec => []TypeOK
<1>1. Init => TypeOK
  BY TypeInit
<1>2. TypeOK /\ [Next]_vars => TypeOK'
  BY TypeStep
<1>3. QED BY <1>1, <1>2, PTL DEF Spec

-----------------------------------------------------------------------------
(* A step that leaves the store and the fills alone. *)
LEMMA StoreFrame ==
  ASSUME IInv, UNCHANGED <<entries, inflight, fill, gen>>
  PROVE  /\ SlotInv' /\ OpenInv' /\ NameInv'
         /\ GenerationFence' /\ OneFillPerGeneration'
<1>1. SlotInv' /\ OpenInv'
  BY DEF IInv, SlotInv, OpenInv, Open
<1>2. NameInv'
  BY DEF IInv, NameInv
<1>3. GenerationFence' /\ OneFillPerGeneration'
  BY DEF IInv, GenerationFence, OneFillPerGeneration
<1>4. QED BY <1>1, <1>2, <1>3

(* A step that leaves the callers alone and keeps what each fill makes. *)
LEMMA CallFrame ==
  ASSUME IInv, UNCHANGED <<waiting, asked, admitted, answer>>,
         \A f \in Fills : fill[f].phase # "free" =>
           fill'[f].phase # "free" /\ fill'[f].val = fill[f].val
  PROVE  WaitInv' /\ OwnNamespace'
<1>1. \A c \in Callers : waiting[c] # NoFill => waiting[c] \in Fills
  BY DEF IInv, TypeOK
<1>2. WaitInv'
  BY <1>1 DEF IInv, WaitInv
<1>3. OwnNamespace'
  BY DEF IInv, OwnNamespace
<1>4. QED BY <1>2, <1>3

(* A live or stored value, and one made by a joinable fill, bear the name  *)
(* of the caller that meets them.                                          *)
LEMMA ValuesAreOwn ==
  ASSUME IInv, NEW c \in Callers, NEW k \in LocalKeys, NEW v \in Values,
         FullKey(v.scope, v.local) = KeyOf(c, k)
  PROVE  v.scope = ScopeOf[c] /\ v.local = k
<1>1. v.scope \in Scopes /\ v.local \in LocalKeys
  BY DEF Values
<1>2. ScopeOf[c] \in Scopes /\ FullKey(v.scope, v.local) = FullKey(ScopeOf[c], k)
  BY NamesAreTyped DEF IInv
<1>3. QED BY <1>1, <1>2, FullKeyInjective

(* The fill that a call finds in flight makes the value of its generation. *)
LEMMA InflightIsOwn ==
  ASSUME IInv, NEW c \in Callers, NEW k \in LocalKeys, inflight[KeyOf(c, k)] # NoFill
  PROVE  /\ inflight[KeyOf(c, k)] \in Fills
         /\ Open(inflight[KeyOf(c, k)])
         /\ fill[inflight[KeyOf(c, k)]].val = ValueFor(c, k)
<1> DEFINE f == inflight[KeyOf(c, k)]
<1>1. KeyOf(c, k) \in Keys /\ f \in Fills
  BY NamesAreTyped DEF IInv, TypeOK
<1>2. Open(f) /\ fill[f].key = KeyOf(c, k) /\ fill[f].val.gen = gen[KeyOf(c, k)]
  BY <1>1 DEF IInv, SlotInv
<1>3. fill[f].val \in Values /\ FullKey(fill[f].val.scope, fill[f].val.local) = KeyOf(c, k)
  BY <1>1, <1>2 DEF IInv, NameInv, TypeOK, Open
<1>4. fill[f].val.scope = ScopeOf[c] /\ fill[f].val.local = k
  BY <1>3, ValuesAreOwn
<1>5. fill[f].val = ValueFor(c, k)
  BY <1>2, <1>3, <1>4 DEF Values, ValueFor
<1>6. QED BY <1>1, <1>2, <1>5

(* A call that joins no fill and returns at once keeps the waiters' facts. *)
LEMMA ReturnFrame ==
  ASSUME IInv, NEW c \in Callers, NEW ans, Returns(c, ans), UNCHANGED fill,
         ans.kind = "value" => ans.val.scope = ScopeOf[c]
  PROVE  WaitInv' /\ OwnNamespace'
<1>1. WaitInv'
  BY DEF IInv, WaitInv, Returns
<1>2. OwnNamespace'
  BY DEF IInv, OwnNamespace, Returns, TypeOK
<1>3. QED BY <1>1, <1>2

(* A call that leaves its wait does so too. *)
LEMMA LeaveFrame ==
  ASSUME IInv, NEW c \in Callers, NEW ans, Leaves(c, ans),
         ans.kind = "value" => ans.val.scope = ScopeOf[c]
  PROVE  WaitInv' /\ OwnNamespace'
<1>1. WaitInv'
  BY CacheAssumption DEF IInv, WaitInv, Leaves, TypeOK
<1>2. OwnNamespace'
  BY DEF IInv, OwnNamespace, Leaves, TypeOK
<1>3. QED BY <1>1, <1>2

(* A step that ends the generation of the keys in gone and empties their   *)
(* slots: a fill in flight for one of them stays behind its generation.    *)
LEMMA DetachFrame ==
  ASSUME IInv, NEW gone \in SUBSET Keys, NewGeneration(gone), UNCHANGED fill,
         \A key \in Keys : inflight'[key] = IF key \in gone THEN NoFill ELSE inflight[key]
  PROVE  SlotInv' /\ OpenInv' /\ OneFillPerGeneration'
<1>1. \A key \in Keys : gen[key] \in Nat /\ gen'[key] = IF key \in gone THEN gen[key] + 1 ELSE gen[key]
  BY DEF NewGeneration, IInv, TypeOK
<1>2. SlotInv'
  BY <1>1 DEF IInv, SlotInv, Open
<1>3. OpenInv'
  <2>1. \A f \in Fills : Open(f) => fill[f].key \in Keys /\ fill[f].val.gen \in Nat
    BY DEF IInv, TypeOK, Open, Values
  <2>2. QED BY <1>1, <2>1 DEF IInv, OpenInv, Open
<1>4. OneFillPerGeneration'
  BY DEF IInv, OneFillPerGeneration
<1>5. QED BY <1>2, <1>3, <1>4

-----------------------------------------------------------------------------
(* Every step preserves the inductive invariant. *)
LEMMA InvStep ==
  ASSUME IInv, [Next]_vars
  PROVE  IInv'
<1>1. TypeOK'
  BY TypeStep DEF IInv
<1>2. ASSUME NEW c \in Callers, NEW k \in LocalKeys, Hit(c, k) PROVE IInv'
  <2> DEFINE v == entries[KeyOf(c, k)].val
  <2>1. KeyOf(c, k) \in Keys /\ entries[KeyOf(c, k)] # NoEntry
    BY <1>2, NamesAreTyped DEF Hit, Live, IInv
  <2>2. v \in Values /\ FullKey(v.scope, v.local) = KeyOf(c, k)
    BY <2>1 DEF IInv, TypeOK, Entries, NameInv
  <2>3. Settled("ok", v).val.scope = ScopeOf[c]
    BY <2>2, ValuesAreOwn DEF Settled
  <2>4. WaitInv' /\ OwnNamespace'
    BY <1>2, <2>3, ReturnFrame DEF Hit
  <2>5. QED BY <1>1, <1>2, <2>4, StoreFrame DEF IInv, Hit, Called
<1>3. ASSUME NEW c \in Callers, NEW k \in LocalKeys, Join(c, k) PROVE IInv'
  <2> DEFINE f == inflight[KeyOf(c, k)]
  <2>1. f \in Fills /\ Open(f) /\ fill[f].val = ValueFor(c, k)
    BY <1>3, InflightIsOwn DEF Join
  <2>2. CASE fill[f].phase = "running"
    <3>1. Awaits(c, k, f) /\ UNCHANGED fill
      BY <1>3, <2>2 DEF Join
    <3>2. fill[f].val = [scope |-> ScopeOf[c], local |-> k, gen |-> gen[KeyOf(c, k)]]
      BY <2>1 DEF ValueFor
    <3>3. WaitInv'
      BY <2>1, <3>1, <3>2 DEF IInv, WaitInv, Awaits, TypeOK, Open
    <3>4. OwnNamespace'
      BY <3>1 DEF IInv, OwnNamespace, Awaits, NoAnswer, TypeOK
    <3>5. QED BY <1>1, <1>3, <3>3, <3>4, StoreFrame DEF IInv, Join, Called
  <2>3. CASE fill[f].phase # "running"
    <3>1. Returns(c, Settled(fill[f].outcome, fill[f].val)) /\ UNCHANGED fill
      BY <1>3, <2>3 DEF Join
    <3>2. Settled(fill[f].outcome, fill[f].val).kind = "value"
            => Settled(fill[f].outcome, fill[f].val).val.scope = ScopeOf[c]
      BY <2>1 DEF Settled, ValueFor
    <3>3. WaitInv' /\ OwnNamespace'
      BY <3>1, <3>2, ReturnFrame
    <3>4. QED BY <1>1, <1>3, <3>3, StoreFrame DEF IInv, Join, Called
  <2>4. QED BY <2>2, <2>3
<1>4. ASSUME NEW c \in Callers, NEW k \in LocalKeys, StartDoneFill(c, k) PROVE IInv'
  <2> DEFINE key == KeyOf(c, k)
  <2>1. PICK outcome \in Outcomes :
          /\ entries' = Recorded(key, outcome, ValueFor(c, k))
          /\ Returns(c, Settled(outcome, ValueFor(c, k)))
    BY <1>4 DEF StartDoneFill
  <2>2. UNCHANGED <<inflight, fill, gen>>
    BY <1>4 DEF StartDoneFill, Called
  <2>3. WaitInv' /\ OwnNamespace'
    <3>1. Settled(outcome, ValueFor(c, k)).kind = "value"
            => Settled(outcome, ValueFor(c, k)).val.scope = ScopeOf[c]
      BY DEF Settled, ValueFor
    <3>2. QED BY <2>1, <2>2, <3>1, ReturnFrame
  <2>4. SlotInv' /\ OpenInv' /\ OneFillPerGeneration'
    BY <2>2 DEF IInv, SlotInv, OpenInv, Open, OneFillPerGeneration
  <2>5. NameInv' /\ GenerationFence'
    <3>1. \A j \in Keys : entries'[j] # NoEntry =>
             \/ entries'[j] = entries[j]
             \/ j = key /\ entries'[j].val = ValueFor(c, k)
      BY <2>1 DEF Recorded, IInv, TypeOK
    <3>2. /\ ValueFor(c, k).gen = gen[key]
          /\ FullKey(ValueFor(c, k).scope, ValueFor(c, k).local) = key
      BY DEF ValueFor, KeyOf
    <3>3. QED BY <2>2, <3>1, <3>2 DEF IInv, NameInv, GenerationFence
  <2>6. QED BY <1>1, <2>3, <2>4, <2>5 DEF IInv
<1>5. ASSUME NEW c \in Callers, NEW k \in LocalKeys, NEW f \in Fills, StartFill(c, k, f)
      PROVE  IInv'
  <2> DEFINE key == KeyOf(c, k)
             new == [phase |-> "running", outcome |-> "ok", key |-> key, val |-> ValueFor(c, k)]
  <2>1. /\ key \in Keys /\ inflight[key] = NoFill /\ ~Open(f)
        /\ \A d \in Callers : waiting[d] # f
        /\ \A j \in Keys : inflight[j] # f
    BY <1>5, NamesAreTyped DEF StartFill, Unreferenced, Open, IInv
  <2>2. /\ fill' = [fill EXCEPT ![f] = new]
        /\ inflight' = [inflight EXCEPT ![key] = f]
        /\ Awaits(c, k, f)
        /\ UNCHANGED <<entries, gen>>
    BY <1>5 DEF StartFill, Called
  <2>3. /\ fill'[f] = new /\ inflight'[key] = f
        /\ \A g \in Fills \ {f} : fill'[g] = fill[g]
        /\ \A j \in Keys \ {key} : inflight'[j] = inflight[j]
    BY <2>1, <2>2 DEF IInv, TypeOK
  <2>4. /\ new.val.gen = gen[key] /\ FullKey(new.val.scope, new.val.local) = key
        /\ gen[key] \in Nat
    BY <2>1 DEF ValueFor, KeyOf, IInv, TypeOK
  <2>5. SlotInv'
    BY <2>1, <2>2, <2>3, <2>4 DEF IInv, TypeOK, SlotInv, Open
  <2>6. \A g \in Fills : Open(g) /\ fill[g].key = key => fill[g].val.gen # gen[key]
    BY <2>1, CacheAssumption DEF IInv, OpenInv
  <2>7. OpenInv'
    <3>1. ASSUME NEW g \in Fills, Open(g)'
          PROVE  /\ fill'[g].val.gen <= gen'[fill'[g].key]
                 /\ fill'[g].val.gen = gen'[fill'[g].key] => inflight'[fill'[g].key] = g
      <4>1. CASE g = f
        BY <2>2, <2>3, <2>4, <4>1
      <4>2. CASE g # f
        <5>1. Open(g) /\ fill'[g] = fill[g]
          BY <2>3, <3>1, <4>2 DEF Open
        <5>2. fill[g].key \in Keys
          BY <5>1 DEF IInv, TypeOK, Open
        <5>3. QED BY <2>2, <2>3, <2>6, <5>1, <5>2 DEF IInv, OpenInv
      <4>3. QED BY <4>1, <4>2
    <3>2. QED BY <3>1 DEF OpenInv
  <2>8. OneFillPerGeneration'
    <3>1. ASSUME NEW g \in Fills, NEW h \in Fills, Open(g)', Open(h)',
                 fill'[g].key = fill'[h].key, fill'[g].val.gen = fill'[h].val.gen, g # h
          PROVE  FALSE
      <4>1. CASE g = f
        BY <2>3, <2>4, <2>6, <3>1, <4>1 DEF Open
      <4>2. CASE h = f
        BY <2>3, <2>4, <2>6, <3>1, <4>2 DEF Open
      <4>3. CASE g # f /\ h # f
        BY <2>3, <3>1, <4>3 DEF Open, IInv, OneFillPerGeneration
      <4>4. QED BY <4>1, <4>2, <4>3
    <3>2. QED BY <3>1 DEF OneFillPerGeneration, Open
  <2>9. NameInv' /\ GenerationFence'
    BY <2>2, <2>3, <2>4 DEF IInv, NameInv, GenerationFence
  <2>10. WaitInv'
    <3>1. new.val = [scope |-> ScopeOf[c], local |-> k, gen |-> gen[key]] /\ new.phase # "free"
      BY DEF ValueFor
    <3>2. /\ waiting'[c] = f /\ asked'[c] = k /\ admitted'[c] = gen[key]
          /\ \A d \in Callers \ {c} : /\ waiting'[d] = waiting[d] /\ asked'[d] = asked[d]
                                      /\ admitted'[d] = admitted[d]
      BY <2>2 DEF Awaits, IInv, TypeOK
    <3>3. \A d \in Callers : waiting[d] # NoFill => waiting[d] \in Fills \ {f}
      BY <2>1 DEF IInv, TypeOK
    <3>4. QED BY <2>3, <3>1, <3>2, <3>3 DEF IInv, WaitInv
  <2>11. OwnNamespace'
    BY <2>2 DEF IInv, OwnNamespace, Awaits, NoAnswer, TypeOK
  <2>12. QED BY <1>1, <2>5, <2>7, <2>8, <2>9, <2>10, <2>11 DEF IInv
<1>6. ASSUME NEW f \in Fills, FinishFill(f) PROVE IInv'
  <2>1. PICK outcome \in Outcomes : fill' = Moved(f, "finished", outcome)
    BY <1>6 DEF FinishFill
  <2>2. /\ fill[f].phase = "running" /\ fill'[f].phase = "finished"
        /\ \A g \in Fills : fill'[g].key = fill[g].key /\ fill'[g].val = fill[g].val
        /\ \A g \in Fills \ {f} : fill'[g].phase = fill[g].phase
    BY <1>6, <2>1 DEF FinishFill, Moved, IInv, TypeOK
  <2>3. UNCHANGED <<entries, inflight, gen, waiting, asked, admitted, answer>>
    BY <1>6 DEF FinishFill
  <2>4. \A g \in Fills : (Open(g)' <=> Open(g)) /\ (fill'[g].phase = "free" <=> fill[g].phase = "free")
    BY <2>2 DEF Open
  <2>5. WaitInv' /\ OwnNamespace'
    BY <2>2, <2>3, <2>4, CallFrame
  <2>6. SlotInv' /\ OpenInv'
    BY <2>2, <2>3, <2>4 DEF IInv, TypeOK, SlotInv, OpenInv
  <2>7. NameInv' /\ GenerationFence'
    BY <2>2, <2>3, <2>4 DEF IInv, NameInv, GenerationFence
  <2>8. OneFillPerGeneration'
    BY <2>2, <2>4 DEF IInv, OneFillPerGeneration, Open
  <2>9. QED BY <1>1, <2>5, <2>6, <2>7, <2>8 DEF IInv
<1>7. ASSUME NEW f \in Fills, PublishFill(f) PROVE IInv'
  <2> DEFINE key == fill[f].key
  <2>1. /\ fill[f].phase = "finished" /\ fill'[f].phase = "published"
        /\ \A g \in Fills : fill'[g].key = fill[g].key /\ fill'[g].val = fill[g].val
        /\ \A g \in Fills \ {f} : fill'[g].phase = fill[g].phase
        /\ UNCHANGED <<gen, waiting, asked, admitted, answer>>
    BY <1>7 DEF PublishFill, Moved, IInv, TypeOK
  <2>2. /\ key \in Keys /\ fill[f].val \in Values
        /\ FullKey(fill[f].val.scope, fill[f].val.local) = key
    BY <2>1 DEF IInv, TypeOK, NameInv
  <2>3. \A g \in Fills : /\ Open(g)' <=> Open(g) /\ g # f
                         /\ fill'[g].phase = "free" <=> fill[g].phase = "free"
    BY <2>1 DEF Open
  <2>4. WaitInv' /\ OwnNamespace'
    BY <2>1, <2>3, CallFrame
  <2>5. OneFillPerGeneration'
    BY <2>1, <2>3 DEF IInv, OneFillPerGeneration, Open
  <2>6. CASE inflight[key] = f
    <3>1. /\ inflight' = [inflight EXCEPT ![key] = NoFill]
          /\ entries' = Recorded(key, fill[f].outcome, fill[f].val)
      BY <1>7, <2>6 DEF PublishFill
    <3>2. \A j \in Keys : inflight[j] = f => j = key
      BY <2>1, CacheAssumption DEF IInv, SlotInv
    <3>3. \A j \in Keys : inflight'[j] = IF j = key THEN NoFill ELSE inflight[j]
      BY <2>2, <3>1 DEF IInv, TypeOK
    <3>4. SlotInv'
      <4>1. \A j \in Keys : inflight[j] # NoFill => inflight[j] \in Fills
        BY DEF IInv, TypeOK
      <4>2. QED BY <2>1, <2>3, <3>2, <3>3, <4>1 DEF IInv, SlotInv
    <3>5. OpenInv'
      <4>1. ASSUME NEW g \in Fills, Open(g)'
            PROVE  /\ fill'[g].val.gen <= gen'[fill'[g].key]
                   /\ fill'[g].val.gen = gen'[fill'[g].key] => inflight'[fill'[g].key] = g
        <5>1. Open(g) /\ g # f /\ fill[g].key \in Keys
          BY <2>3, <4>1 DEF Open, IInv, TypeOK
        <5>2. fill[g].val.gen = gen[fill[g].key] => inflight[fill[g].key] = g /\ fill[g].key # key
          BY <2>6, <5>1 DEF IInv, OpenInv
        <5>3. QED BY <2>1, <3>3, <5>1, <5>2 DEF IInv, OpenInv
      <4>2. QED BY <4>1 DEF OpenInv
    <3>6. \A j \in Keys : entries'[j] # NoEntry =>
             \/ entries'[j] = entries[j]
             \/ j = key /\ entries'[j].val = fill[f].val
      BY <3>1 DEF Recorded, IInv, TypeOK
    <3>7. fill[f].val.gen = gen[key]
      BY <2>2, <2>6, CacheAssumption DEF IInv, SlotInv
    <3>8. NameInv' /\ GenerationFence'
      BY <2>1, <2>2, <2>3, <3>6, <3>7 DEF IInv, NameInv, GenerationFence
    <3>9. QED BY <1>1, <2>4, <2>5, <3>4, <3>5, <3>8 DEF IInv
  <2>7. CASE inflight[key] # f
    <3>1. UNCHANGED <<inflight, entries>>
      BY <1>7, <2>7 DEF PublishFill
    <3>2. \A j \in Keys : inflight[j] # f
      BY <2>7, CacheAssumption DEF IInv, SlotInv
    <3>3. SlotInv'
      <4>1. \A j \in Keys : inflight[j] # NoFill => inflight[j] \in Fills
        BY DEF IInv, TypeOK
      <4>2. QED BY <2>1, <2>3, <3>1, <3>2, <4>1 DEF IInv, SlotInv
    <3>4. OpenInv'
      BY <2>1, <2>3, <3>1 DEF IInv, OpenInv
    <3>5. NameInv' /\ GenerationFence'
      BY <2>1, <2>3, <3>1 DEF IInv, NameInv, GenerationFence
    <3>6. QED BY <1>1, <2>4, <2>5, <3>3, <3>4, <3>5 DEF IInv
  <2>8. QED BY <2>6, <2>7
<1>8. ASSUME NEW c \in Callers, Resume(c) PROVE IInv'
  <2> DEFINE f == waiting[c]
             ans == Settled(fill[f].outcome, fill[f].val)
  <2>1. fill[f].val.scope = ScopeOf[c]
    <3>1. fill[f].val = [scope |-> ScopeOf[c], local |-> asked[c], gen |-> admitted[c]]
      BY <1>8 DEF Resume, IInv, WaitInv
    <3>2. QED BY <3>1
  <2>2. ans.kind = "value" => ans.val.scope = ScopeOf[c]
    BY <2>1 DEF Settled
  <2>3. Leaves(c, ans)
    BY <1>8 DEF Resume
  <2>4. WaitInv' /\ OwnNamespace'
    BY <2>2, <2>3, LeaveFrame
  <2>5. QED BY <1>1, <2>3, <2>4, StoreFrame DEF IInv, Leaves
<1>9. ASSUME NEW c \in Callers, CancelWaiter(c) PROVE IInv'
  <2> DEFINE ans == [kind |-> "abandoned", val |-> NoValue]
  <2>1. Leaves(c, ans) /\ (ans.kind = "value" => ans.val.scope = ScopeOf[c])
    BY <1>9 DEF CancelWaiter
  <2>2. WaitInv' /\ OwnNamespace'
    BY <2>1, LeaveFrame
  <2>3. QED BY <1>1, <2>1, <2>2, StoreFrame DEF IInv, Leaves
<1>10. ASSUME NEW s \in Scopes, NEW k \in LocalKeys, Discard(s, k) PROVE IInv'
  <2> DEFINE key == FullKey(s, k)
  <2>1. key \in Keys /\ {key} \in SUBSET Keys
    BY DEF Keys
  <2>2. /\ NewGeneration({key})
        /\ UNCHANGED <<fill, waiting, asked, admitted, answer>>
        /\ \A j \in Keys : inflight'[j] = IF j \in {key} THEN NoFill ELSE inflight[j]
        /\ \A j \in Keys : entries'[j] = IF j = key THEN NoEntry ELSE entries[j]
        /\ \A j \in Keys : j # key => gen'[j] = gen[j]
    BY <1>10, <2>1 DEF Discard, NewGeneration, IInv, TypeOK
  <2>3. SlotInv' /\ OpenInv' /\ OneFillPerGeneration'
    BY <2>1, <2>2, DetachFrame
  <2>4. NameInv' /\ GenerationFence'
    BY <2>2 DEF IInv, NameInv, GenerationFence
  <2>5. WaitInv' /\ OwnNamespace'
    BY <2>2, CallFrame
  <2>6. QED BY <1>1, <2>3, <2>4, <2>5 DEF IInv
<1>11. ASSUME NEW s \in Scopes, NEW k \in LocalKeys, Set(s, k) PROVE IInv'
  <2> DEFINE key == FullKey(s, k)
             val == [scope |-> s, local |-> k, gen |-> gen'[key]]
  <2>1. key \in Keys /\ {key} \in SUBSET Keys
    BY DEF Keys
  <2>2. /\ NewGeneration({key})
        /\ UNCHANGED <<fill, waiting, asked, admitted, answer>>
        /\ \A j \in Keys : inflight'[j] = IF j \in {key} THEN NoFill ELSE inflight[j]
        /\ \A j \in Keys : entries'[j] = IF j = key THEN [left |-> Ttl, val |-> val] ELSE entries[j]
        /\ \A j \in Keys : j # key => gen'[j] = gen[j]
    BY <1>11, <2>1 DEF Set, NewGeneration, IInv, TypeOK
  <2>3. SlotInv' /\ OpenInv' /\ OneFillPerGeneration'
    BY <2>1, <2>2, DetachFrame
  <2>4. FullKey(val.scope, val.local) = key /\ val.gen = gen'[key]
    OBVIOUS
  <2>5. NameInv' /\ GenerationFence'
    BY <2>2, <2>4 DEF IInv, NameInv, GenerationFence
  <2>6. WaitInv' /\ OwnNamespace'
    BY <2>2, CallFrame
  <2>7. QED BY <1>1, <2>3, <2>5, <2>6 DEF IInv
<1>12. ASSUME NEW s \in Scopes, Clear(s) PROVE IInv'
  <2> DEFINE gone == {key \in Keys : InScope(key, s)}
  <2>1. /\ gone \in SUBSET Keys
        /\ NewGeneration(gone)
        /\ UNCHANGED <<fill, waiting, asked, admitted, answer>>
        /\ \A j \in Keys : inflight'[j] = IF j \in gone THEN NoFill ELSE inflight[j]
        /\ \A j \in Keys : entries'[j] = IF j \in gone THEN NoEntry ELSE entries[j]
        /\ \A j \in Keys : j \notin gone => gen'[j] = gen[j]
    <3>1. NewGeneration(gone) /\ UNCHANGED <<fill, waiting, asked, admitted, answer>>
      BY <1>12 DEF Clear
    <3>2. /\ inflight' = [j \in Keys |-> IF j \in gone THEN NoFill ELSE inflight[j]]
          /\ entries' = [j \in Keys |-> IF j \in gone THEN NoEntry ELSE entries[j]]
      BY <1>12 DEF Clear, Dropped, NoEntry
    <3>3. \A j \in Keys : j \notin gone => gen'[j] = gen[j]
      BY <3>1 DEF NewGeneration
    <3>4. QED BY <3>1, <3>2, <3>3
  <2>2. SlotInv' /\ OpenInv' /\ OneFillPerGeneration'
    BY <2>1, DetachFrame
  <2>3. NameInv' /\ GenerationFence'
    BY <2>1 DEF IInv, NameInv, GenerationFence
  <2>4. WaitInv' /\ OwnNamespace'
    BY <2>1, CallFrame
  <2>5. QED BY <1>1, <2>2, <2>3, <2>4 DEF IInv
<1>13. CASE Tick
  <2>1. /\ UNCHANGED <<inflight, fill, gen, waiting, asked, admitted, answer>>
        /\ \A j \in Keys : entries'[j] # NoEntry =>
             entries[j] # NoEntry /\ entries'[j].val = entries[j].val
    BY <1>13 DEF Tick, Live
  <2>2. NameInv' /\ GenerationFence'
    BY <2>1 DEF IInv, NameInv, GenerationFence
  <2>3. SlotInv' /\ OpenInv' /\ OneFillPerGeneration'
    BY <2>1 DEF IInv, SlotInv, OpenInv, Open, OneFillPerGeneration
  <2>4. WaitInv' /\ OwnNamespace'
    BY <2>1, CallFrame
  <2>5. QED BY <1>1, <2>2, <2>3, <2>4 DEF IInv
<1>14. CASE Stop
  BY <1>1, <1>14, StoreFrame, CallFrame DEF IInv, Stop
<1>15. CASE UNCHANGED vars
  BY <1>1, <1>15, StoreFrame, CallFrame DEF IInv, vars
<1>16. QED
  BY <1>2, <1>3, <1>4, <1>5, <1>6, <1>7, <1>8, <1>9, <1>10, <1>11, <1>12, <1>13, <1>14, <1>15
  DEF Next

LEMMA InvInit == Init => IInv
<1> SUFFICES ASSUME Init PROVE IInv
  OBVIOUS
<1>1. TypeOK
  BY TypeInit
<1>2. SlotInv /\ OpenInv /\ OneFillPerGeneration
  BY DEF Init, SlotInv, OpenInv, Open, OneFillPerGeneration, NewFill
<1>3. NameInv /\ GenerationFence
  BY DEF Init, NameInv, GenerationFence, NewFill
<1>4. WaitInv /\ OwnNamespace
  BY DEF Init, WaitInv, OwnNamespace, NoAnswer
<1>5. QED BY <1>1, <1>2, <1>3, <1>4 DEF IInv

(* The inductive invariant holds of every reachable state. *)
THEOREM Invariance == Spec => []IInv
BY InvInit, InvStep, PTL DEF Spec

(* No entry was filled before its key was last cleared, discarded or set   *)
(* (_publish_fill, clear, discard and set, :72-97).                        *)
THEOREM FenceHolds == Spec => []GenerationFence
<1>1. IInv => GenerationFence
  BY DEF IInv
<1>2. QED BY <1>1, Invariance, PTL

(* Concurrent misses of one key and generation share one fill (:57-68).    *)
THEOREM CoalescingHolds == Spec => []OneFillPerGeneration
<1>1. IInv => OneFillPerGeneration
  BY DEF IInv
<1>2. QED BY <1>1, Invariance, PTL

(* A view is never given what was made for another scope (:31-35, :50).    *)
THEOREM NamespacesAreApart == Spec => []OwnNamespace
<1>1. IInv => OwnNamespace
  BY DEF IInv
<1>2. QED BY <1>1, Invariance, PTL

(* A fill is cancelled by the loop's shutdown only, and by no waiter: the  *)
(* shield keeps a caller's cancellation from the fill (:70).               *)
THEOREM ShieldHolds == Spec => []OnlyShutdownCancelsFills
<1>1. Init => OnlyShutdownCancelsFills
  BY DEF Init, NewFill, OnlyShutdownCancelsFills
<1>2. TypeOK /\ OnlyShutdownCancelsFills /\ [Next]_vars => OnlyShutdownCancelsFills'
  <2> SUFFICES ASSUME TypeOK, OnlyShutdownCancelsFills, [Next]_vars, NEW f \in Fills,
                      fill'[f].phase # "free", fill'[f].outcome = "cancelled"
               PROVE  stopping'
    BY DEF OnlyShutdownCancelsFills
  <2>1. stopping => stopping'
    BY DEF Next, vars, Hit, Join, StartDoneFill, StartFill, Called, FinishFill, PublishFill, Resume,
           CancelWaiter, Leaves, Discard, Set, Clear, Tick, Stop
  <2>2. ASSUME NEW c \in Callers, NEW k \in LocalKeys, NEW g \in Fills, StartFill(c, k, g)
        PROVE  fill'[f] = fill[f]
    <3>1. fill' = [fill EXCEPT ![g] = [phase |-> "running", outcome |-> "ok",
                                       key |-> KeyOf(c, k), val |-> ValueFor(c, k)]]
      BY <2>2 DEF StartFill
    <3>2. f # g
      BY <3>1 DEF TypeOK
    <3> QED BY <3>1, <3>2 DEF TypeOK
  <2>3. ASSUME NEW g \in Fills, FinishFill(g) PROVE stopping \/ fill'[f] = fill[f]
    <3>1. PICK outcome \in Outcomes :
            (outcome = "cancelled" => stopping) /\ fill' = Moved(g, "finished", outcome)
      BY <2>3 DEF FinishFill
    <3>2. CASE f = g
      <4>1. fill'[f].outcome = outcome
        BY <3>1, <3>2 DEF Moved, TypeOK, FillRec
      <4> QED BY <3>1, <4>1
    <3>3. CASE f # g
      BY <3>1, <3>3 DEF Moved, TypeOK
    <3> QED BY <3>2, <3>3
  <2>4. ASSUME NEW g \in Fills, PublishFill(g)
        PROVE  fill[f].phase # "free" /\ fill'[f].outcome = fill[f].outcome
    <3>1. fill' = Moved(g, "published", fill[g].outcome) /\ fill[g].phase = "finished"
      BY <2>4 DEF PublishFill
    <3>2. CASE f = g
      BY <3>1, <3>2 DEF Moved, TypeOK, FillRec
    <3>3. CASE f # g
      BY <3>1, <3>3 DEF Moved, TypeOK
    <3> QED BY <3>2, <3>3
  <2>5. \/ fill' = fill
        \/ \E c \in Callers, k \in LocalKeys, g \in Fills : StartFill(c, k, g)
        \/ \E g \in Fills : FinishFill(g) \/ PublishFill(g)
    BY DEF Next, vars, Hit, Join, StartDoneFill, Resume, CancelWaiter, Leaves, Discard, Set, Clear,
           Tick, Stop
  <2> QED BY <2>1, <2>2, <2>3, <2>4, <2>5 DEF OnlyShutdownCancelsFills
<1>3. QED BY <1>1, <1>2, TypeCorrect, PTL DEF Spec

-----------------------------------------------------------------------------
(***************************************************************************)
(* AsyncTtlCache implements GenerationalCache, for any constants: every    *)
(* step of the cache is a step of its abstraction or leaves it unchanged.  *)
(***************************************************************************)
aGen      == [n \in AllNames |-> gen[NameOf(n)]]
aStored   == [n \in AllNames |-> IF entries[NameOf(n)] = NoEntry THEN NoFill
                                 ELSE entries[NameOf(n)].val]
aPending  == [c \in Callers |-> IF waiting[c] = NoFill THEN NoFill ELSE asked[c]]

(* The names of the abstraction are those of the store. *)
LEMMA NamesMatch ==
  /\ Abstract!Namespaces = Scopes
  /\ Abstract!Names = AllNames
  /\ \A n \in AllNames : NameOf(n) \in Keys
  /\ \A m, n \in AllNames : NameOf(m) = NameOf(n) => m = n
  /\ \A c \in Callers, k \in LocalKeys :
       <<ScopeOf[c], k>> \in AllNames /\ NameOf(<<ScopeOf[c], k>>) = KeyOf(c, k)
<1>1. Abstract!Namespaces = Scopes /\ Abstract!Names = AllNames
  BY DEF Abstract!Namespaces, Abstract!Names, AllNames
<1>2. \A n \in AllNames : NameOf(n) \in Keys
  BY DEF AllNames, NameOf, Keys
<1>3. \A m, n \in AllNames : NameOf(m) = NameOf(n) => m = n
  <2> SUFFICES ASSUME NEW m \in AllNames, NEW n \in AllNames, NameOf(m) = NameOf(n)
               PROVE  m = n
    OBVIOUS
  <2>1. /\ m[1] \in Scopes /\ m[2] \in LocalKeys /\ m = <<m[1], m[2]>>
        /\ n[1] \in Scopes /\ n[2] \in LocalKeys /\ n = <<n[1], n[2]>>
    BY DEF AllNames
  <2>2. m[1] = n[1] /\ m[2] = n[2]
    BY <2>1, FullKeyInjective DEF NameOf
  <2>3. QED BY <2>1, <2>2
<1>4. \A c \in Callers, k \in LocalKeys :
        <<ScopeOf[c], k>> \in AllNames /\ NameOf(<<ScopeOf[c], k>>) = KeyOf(c, k)
  BY CacheAssumption DEF AllNames, NameOf, KeyOf
<1>5. QED BY <1>1, <1>2, <1>3, <1>4

(* The initial state maps to the abstract one. *)
LEMMA InitMaps == Init => Abstract!Init
<1> SUFFICES ASSUME Init PROVE Abstract!Init
  OBVIOUS
<1>1. aGen = [n \in AllNames |-> 0] /\ aStored = [n \in AllNames |-> NoFill]
  BY NamesMatch DEF Init, aGen, aStored
<1>2. aPending = [c \in Callers |-> NoFill]
  BY DEF Init, aPending
<1>3. answer = [c \in Callers |-> [kind |-> "none", val |-> NoFill]]
  BY DEF Init, NoAnswer, NoValue
<1>4. QED
  BY <1>1, <1>2, <1>3, NamesMatch
  DEF Init, Abstract!Init, Abstract!NoAnswer, aGen, aStored, aPending

-----------------------------------------------------------------------------
(* What a step of the store means for the abstract store. *)
LEMMA StoreMaps ==
  ASSUME IInv, UNCHANGED <<entries, gen>>
  PROVE  aStored' = aStored /\ aGen' = aGen
BY DEF aStored, aGen

(* The names a caller uses. *)
LEMMA CallNames ==
  ASSUME IInv, NEW c \in Callers, NEW k \in LocalKeys
  PROVE  /\ <<ScopeOf[c], k>> \in AllNames
         /\ NameOf(<<ScopeOf[c], k>>) = KeyOf(c, k)
         /\ aGen[<<ScopeOf[c], k>>] = gen[KeyOf(c, k)]
         /\ ValueFor(c, k) = [scope |-> ScopeOf[c], local |-> k, gen |-> aGen[<<ScopeOf[c], k>>]]
BY NamesMatch DEF aGen, ValueFor

(* An entry is never the absence of one. *)
LEMMA EntryIsPresent ==
  ASSUME NEW left \in Nat, NEW val \in Values
  PROVE  [left |-> left, val |-> val] # NoEntry
BY NoEntryIsNoRecord

(* A call that never waits maps to AnswerAtOnce. *)
LEMMA AtOnceMaps ==
  ASSUME IInv, NEW c \in Callers, NEW k \in LocalKeys, NEW ans,
         waiting[c] = NoFill, Returns(c, ans), UNCHANGED gen,
         \/ /\ ans = [kind |-> "value", val |-> ValueFor(c, k)]
            /\ aStored' \in {aStored, [aStored EXCEPT ![<<ScopeOf[c], k>>] = ValueFor(c, k)]}
         \/ ans = [kind |-> "error", val |-> NoFill] /\ aStored' = aStored
  PROVE  Abstract!AnswerAtOnce(c, k)
<1>1. aGen' = aGen /\ aPending' = aPending /\ aPending[c] = NoFill
  BY DEF aGen, aPending, Returns
<1>2. answer' = [answer EXCEPT ![c] = ans] /\ admitted' = admitted
  BY DEF Returns
<1>3. ValueFor(c, k) = [scope |-> ScopeOf[c], local |-> k, gen |-> aGen[<<ScopeOf[c], k>>]]
  BY CallNames
<1>4. QED
  BY <1>1, <1>2, <1>3
  DEF Abstract!AnswerAtOnce, Abstract!Current, Abstract!Name, aGen, aStored, aPending

(* A call that awaits a fill maps to Admit. *)
LEMMA AwaitsMaps ==
  ASSUME IInv, NEW c \in Callers, NEW k \in LocalKeys, NEW f \in Fills,
         waiting[c] = NoFill, Awaits(c, k, f), UNCHANGED <<gen, entries>>
  PROVE  Abstract!Admit(c, k)
<1>1. aGen' = aGen /\ aStored' = aStored
  BY StoreMaps
<1>2. aPending[c] = NoFill /\ aPending' = [aPending EXCEPT ![c] = k]
  BY CacheAssumption DEF aPending, Awaits, IInv, TypeOK
<1>3. /\ admitted' = [admitted EXCEPT ![c] = aGen[<<ScopeOf[c], k>>]]
      /\ answer' = [answer EXCEPT ![c] = [kind |-> "none", val |-> NoFill]]
  BY CallNames DEF Awaits, NoAnswer, NoValue
<1>4. QED
  BY <1>1, <1>2, <1>3
  DEF Abstract!Admit, Abstract!NoAnswer, Abstract!Name, aGen, aStored, aPending

(* A call that leaves its wait maps to Deliver or GiveUp. *)
LEMMA LeavesMaps ==
  ASSUME IInv, NEW c \in Callers, NEW ans, Leaves(c, ans)
  PROVE  Abstract!Ends(c, ans)
<1>1. aGen' = aGen /\ aStored' = aStored
  BY StoreMaps DEF Leaves
<1>2. asked[c] \in LocalKeys /\ waiting[c] # NoFill
  BY DEF Leaves, IInv, WaitInv
<1>3. aPending[c] # NoFill /\ aPending' = [aPending EXCEPT ![c] = NoFill]
  BY <1>2, CacheAssumption DEF aPending, Leaves, IInv, TypeOK
<1>4. QED
  BY <1>1, <1>3 DEF Leaves, Abstract!Ends, aGen, aStored, aPending

-----------------------------------------------------------------------------
(* A clear covers a key exactly when the key's namespace extends the       *)
(* cleared scope (clear, :83-87).                                          *)
LEMMA InScopeIsByNamespace ==
  ASSUME NEW s \in Scopes, NEW t \in Scopes, NEW k \in LocalKeys
  PROVE  InScope(FullKey(t, k), s) <=> IsPrefix(s, t)
<1>1. /\ s \in Seq(ScopeParts) /\ t \in Seq(ScopeParts)
      /\ k \in Seq(KeyParts) /\ k # <<>> /\ k[1] \notin ScopeParts
  BY CacheAssumption
<1> DEFINE tk == t \o k
<1>2. /\ tk \in Seq(ScopeParts \cup KeyParts)
      /\ Len(tk) = Len(t) + Len(k) /\ Len(k) > 0
      /\ \A i \in 1..Len(t) : tk[i] = t[i]
      /\ tk[Len(t) + 1] = k[1]
  BY <1>1
<1>3. ASSUME IsPrefix(s, t) PROVE IsPrefix(s, tk)
  <2>1. Len(s) <= Len(t) /\ SubSeq(s, 1, Len(s)) = SubSeq(t, 1, Len(s))
    BY <1>3 DEF IsPrefix
  <2>2. SubSeq(tk, 1, Len(s)) = SubSeq(t, 1, Len(s))
    BY <1>1, <1>2, <2>1
  <2>3. QED BY <1>1, <1>2, <2>1, <2>2 DEF IsPrefix
<1>4. ASSUME IsPrefix(s, tk) PROVE IsPrefix(s, t)
  <2>1. Len(s) <= Len(tk) /\ SubSeq(s, 1, Len(s)) = SubSeq(tk, 1, Len(s))
    BY <1>4 DEF IsPrefix
  <2>2. \A i \in 1..Len(s) : s[i] = tk[i]
    <3>1. \A i \in 1..Len(s) : SubSeq(s, 1, Len(s))[i] = s[i] /\ SubSeq(tk, 1, Len(s))[i] = tk[i]
      BY <1>1, <1>2, <2>1
    <3>2. QED BY <2>1, <3>1
  <2>3. Len(s) <= Len(t)
    <3>1. CASE Len(s) > Len(t)
      <4>1. Len(t) + 1 \in 1..Len(s)
        BY <1>1, <3>1
      <4>2. s[Len(t) + 1] = k[1] /\ s[Len(t) + 1] \in ScopeParts
        BY <1>1, <1>2, <2>2, <4>1
      <4>3. QED BY <1>1, <4>2
    <3>2. QED BY <1>1, <3>1
  <2>4. SubSeq(tk, 1, Len(s)) = SubSeq(t, 1, Len(s))
    BY <1>1, <1>2, <2>3
  <2>5. QED BY <2>1, <2>3, <2>4 DEF IsPrefix
<1>5. QED BY <1>3, <1>4 DEF InScope, FullKey

(* Every step of the cache is a step of the abstraction or a stutter. *)
LEMMA StepMaps ==
  ASSUME IInv, IInv', [Next]_vars
  PROVE  [Abstract!Next]_(Abstract!vars)
<1> DEFINE Stutters == /\ aGen' = aGen /\ aStored' = aStored /\ aPending' = aPending
                       /\ admitted' = admitted /\ answer' = answer
<1>1. ASSUME Stutters PROVE [Abstract!Next]_(Abstract!vars)
  BY <1>1 DEF Abstract!vars, aGen, aStored, aPending
<1>2. ASSUME NEW c \in Callers, NEW k \in LocalKeys, Hit(c, k) PROVE Abstract!Next
  <2> DEFINE v == entries[KeyOf(c, k)].val
  <2>1. KeyOf(c, k) \in Keys /\ entries[KeyOf(c, k)] # NoEntry
    BY <1>2, NamesAreTyped DEF Hit, Live, IInv
  <2>2. v \in Values /\ FullKey(v.scope, v.local) = KeyOf(c, k) /\ v.gen = gen[KeyOf(c, k)]
    BY <2>1 DEF IInv, TypeOK, Entries, NameInv, GenerationFence
  <2>3. v = ValueFor(c, k)
    BY <2>2, ValuesAreOwn DEF Values, ValueFor
  <2>4. Abstract!AnswerAtOnce(c, k)
    BY <1>2, <2>3, StoreMaps, AtOnceMaps DEF Hit, Called, Settled
  <2>5. QED BY <2>4 DEF Abstract!Next
<1>3. ASSUME NEW c \in Callers, NEW k \in LocalKeys, Join(c, k) PROVE Abstract!Next
  <2> DEFINE f == inflight[KeyOf(c, k)]
  <2>1. f \in Fills /\ fill[f].val = ValueFor(c, k)
    BY <1>3, InflightIsOwn DEF Join
  <2>2. waiting[c] = NoFill /\ UNCHANGED <<gen, entries>> /\ aStored' = aStored
    BY <1>3, StoreMaps DEF Join, Called
  <2>3. CASE fill[f].phase = "running"
    <3>1. Abstract!Admit(c, k)
      BY <1>3, <2>1, <2>2, <2>3, AwaitsMaps DEF Join
    <3>2. QED BY <3>1 DEF Abstract!Next
  <2>4. CASE fill[f].phase # "running"
    <3>1. Returns(c, Settled(fill[f].outcome, ValueFor(c, k)))
      BY <1>3, <2>1, <2>4 DEF Join
    <3>2. Abstract!AnswerAtOnce(c, k)
      BY <2>2, <3>1, AtOnceMaps DEF Settled, NoValue
    <3>3. QED BY <3>2 DEF Abstract!Next
  <2>5. QED BY <2>3, <2>4
<1>4. ASSUME NEW c \in Callers, NEW k \in LocalKeys, StartDoneFill(c, k) PROVE Abstract!Next
  <2>1. PICK outcome \in Outcomes :
          /\ entries' = Recorded(KeyOf(c, k), outcome, ValueFor(c, k))
          /\ Returns(c, Settled(outcome, ValueFor(c, k)))
    BY <1>4 DEF StartDoneFill
  <2>2. waiting[c] = NoFill /\ UNCHANGED gen
    BY <1>4 DEF StartDoneFill, Called
  <2>3. CASE outcome = "ok"
    <3>1. \A key \in Keys : entries'[key] = IF key = KeyOf(c, k)
                                             THEN [left |-> Ttl, val |-> ValueFor(c, k)]
                                             ELSE entries[key]
      BY <2>1, <2>3 DEF Recorded, IInv, TypeOK
    <3>2. entries'[KeyOf(c, k)] # NoEntry
      <4>1. entries'[KeyOf(c, k)] = [left |-> Ttl, val |-> ValueFor(c, k)] /\ KeyOf(c, k) \in Keys
        BY <3>1, NamesAreTyped DEF IInv
      <4>2. QED BY <4>1, NamesAreTyped, EntryIsPresent, CacheAssumption DEF IInv
    <3>3. aStored' = [aStored EXCEPT ![<<ScopeOf[c], k>>] = ValueFor(c, k)]
      <4>1. \A n \in AllNames : /\ NameOf(n) \in Keys
                               /\ NameOf(n) = KeyOf(c, k) <=> n = <<ScopeOf[c], k>>
        BY NamesMatch
      <4>2. \A n \in AllNames : aStored'[n] = IF entries'[NameOf(n)] = NoEntry THEN NoFill
                                             ELSE entries'[NameOf(n)].val
        BY DEF aStored
      <4>3. \A n \in AllNames : aStored'[n] = IF n = <<ScopeOf[c], k>> THEN ValueFor(c, k) ELSE aStored[n]
        <5> SUFFICES ASSUME NEW n \in AllNames
                     PROVE  aStored'[n] = IF n = <<ScopeOf[c], k>> THEN ValueFor(c, k) ELSE aStored[n]
          OBVIOUS
        <5>1. CASE n = <<ScopeOf[c], k>>
          BY <3>1, <3>2, <4>1, <4>2, <5>1
        <5>2. CASE n # <<ScopeOf[c], k>>
          <6>1. entries'[NameOf(n)] = entries[NameOf(n)]
            <7>1. NameOf(n) \in Keys /\ NameOf(n) # KeyOf(c, k)
              BY <5>2, CallNames, NamesMatch
            <7>2. QED BY <3>1, <7>1
          <6>2. aStored[n] = IF entries[NameOf(n)] = NoEntry THEN NoFill ELSE entries[NameOf(n)].val
            BY DEF aStored
          <6>3. QED BY <4>2, <5>2, <6>1, <6>2
        <5>3. QED BY <5>1, <5>2
      <4>4. QED BY <4>3 DEF aStored
    <3>4. QED BY <2>1, <2>2, <2>3, <3>3, AtOnceMaps DEF Settled, Abstract!Next
  <2>4. CASE outcome # "ok"
    <3>1. UNCHANGED entries
      BY <2>1, <2>4 DEF Recorded
    <3>2. QED BY <2>1, <2>2, <2>4, <3>1, StoreMaps, AtOnceMaps DEF Settled, NoValue, Abstract!Next
  <2>5. QED BY <2>3, <2>4
<1>5. ASSUME NEW c \in Callers, NEW k \in LocalKeys, NEW f \in Fills, StartFill(c, k, f)
      PROVE  Abstract!Next
  BY <1>5, AwaitsMaps DEF StartFill, Called, Abstract!Next
<1>6. ASSUME NEW f \in Fills, FinishFill(f) PROVE Stutters
  BY <1>6, StoreMaps DEF FinishFill, aPending
<1>7. ASSUME NEW f \in Fills, PublishFill(f) PROVE [Abstract!Next]_(Abstract!vars)
  <2> DEFINE key == fill[f].key
             n == <<fill[f].val.scope, fill[f].val.local>>
  <2>1. UNCHANGED <<gen, waiting, asked, admitted, answer>> /\ fill[f].phase = "finished"
    BY <1>7 DEF PublishFill
  <2>2. aGen' = aGen /\ aPending' = aPending
    BY <2>1 DEF aGen, aPending
  <2>3. CASE inflight[key] = f /\ fill[f].outcome = "ok"
    <3>1. key \in Keys /\ fill[f].val \in Values /\ n \in AllNames /\ NameOf(n) = key
      BY <2>1 DEF IInv, TypeOK, NameInv, Values, AllNames, NameOf
    <3>2. fill[f].val.gen = gen[key]
      BY <2>3, <3>1, CacheAssumption DEF IInv, SlotInv
    <3>3. entries' = [entries EXCEPT ![key] = [left |-> Ttl, val |-> fill[f].val]]
      BY <1>7, <2>3 DEF PublishFill, Recorded
    <3>4. \A j \in Keys : entries'[j] = IF j = key THEN [left |-> Ttl, val |-> fill[f].val] ELSE entries[j]
      BY <3>3 DEF IInv, TypeOK
    <3>5. entries'[key] # NoEntry
      BY <3>1, <3>4, EntryIsPresent, CacheAssumption
    <3>6. aStored' = [aStored EXCEPT ![n] = fill[f].val]
      <4>1. \A m \in AllNames : NameOf(m) \in Keys /\ (NameOf(m) = key <=> m = n)
        BY <3>1, NamesMatch
      <4>2. \A m \in AllNames : aStored'[m] = IF m = n THEN fill[f].val ELSE aStored[m]
        BY <3>4, <3>5, <4>1 DEF aStored
      <4>3. QED BY <4>2 DEF aStored
    <3>7. fill[f].val = [scope |-> n[1], local |-> n[2], gen |-> aGen[n]]
      BY <3>1, <3>2 DEF Values, aGen
    <3>8. Abstract!Store(n)
      BY <2>1, <2>2, <3>6, <3>7 DEF Abstract!Store, Abstract!Current, aGen, aStored, aPending
    <3>9. QED BY <3>1, <3>8, NamesMatch DEF Abstract!Next
  <2>4. CASE ~(inflight[key] = f /\ fill[f].outcome = "ok")
    <3>1. UNCHANGED entries
      BY <1>7, <2>4 DEF PublishFill, Recorded
    <3>2. QED BY <1>1, <2>1, <2>2, <3>1, StoreMaps
  <2>5. QED BY <2>3, <2>4
<1>8. ASSUME NEW c \in Callers, Resume(c) PROVE Abstract!Next
  <2> DEFINE f == waiting[c]
  <2>1. asked[c] \in LocalKeys /\ f # NoFill /\ aPending[c] = asked[c]
    BY <1>8 DEF Resume, IInv, WaitInv, aPending
  <2>2. fill[f].val = [scope |-> ScopeOf[c], local |-> aPending[c], gen |-> admitted[c]]
    BY <1>8, <2>1 DEF Resume, IInv, WaitInv
  <2>3. PICK ans : ans = Settled(fill[f].outcome, fill[f].val)
    OBVIOUS
  <2>4. Abstract!Ends(c, ans)
    <3>1. Leaves(c, ans)
      BY <1>8, <2>3 DEF Resume
    <3>2. QED BY <3>1, LeavesMaps
  <2>5. CASE ans = [kind |-> "value", val |-> fill[f].val]
    <3>1. ans = [kind |-> "value", val |-> Abstract!AdmittedOf(c, aPending[c])]
      BY <2>2, <2>5 DEF Abstract!AdmittedOf
    <3>2. Abstract!Deliver(c)
      BY <2>4, <3>1 DEF Abstract!Deliver, Abstract!Ends, aPending
    <3>3. QED BY <3>2 DEF Abstract!Next
  <2>6. CASE ans = [kind |-> "error", val |-> NoFill]
    BY <2>4, <2>6 DEF Abstract!GiveUp, Abstract!Next
  <2>7. QED BY <2>3, <2>5, <2>6 DEF Settled, NoValue
<1>9. ASSUME NEW c \in Callers, CancelWaiter(c) PROVE Abstract!Next
  BY <1>9, LeavesMaps DEF CancelWaiter, NoValue, Abstract!GiveUp, Abstract!Next
<1>10. ASSUME NEW gone \in SUBSET AllNames, NEW cut \in SUBSET Keys,
              \A n \in AllNames : n \in gone <=> NameOf(n) \in cut,
              NewGeneration(cut), UNCHANGED <<waiting, asked, admitted, answer>>,
              \A key \in Keys : entries'[key] = IF key \in cut THEN NoEntry ELSE entries[key]
       PROVE  Abstract!Invalidate(gone)
  <2>1. aGen' = [n \in AllNames |-> IF n \in gone THEN aGen[n] + 1 ELSE aGen[n]]
    BY <1>10, NamesMatch DEF aGen, NewGeneration
  <2>2. aStored' = [n \in AllNames |-> IF n \in gone THEN NoFill ELSE aStored[n]]
    BY <1>10, NamesMatch DEF aStored
  <2>3. aPending' = aPending
    BY <1>10 DEF aPending
  <2>4. QED
    BY <1>10, <2>1, <2>2, <2>3, NamesMatch DEF Abstract!Invalidate, aGen, aStored, aPending
<1>11. ASSUME NEW s \in Scopes, NEW k \in LocalKeys, Discard(s, k) PROVE Abstract!Next
  <2> DEFINE n == <<s, k>>
             key == FullKey(s, k)
  <2>1. n \in AllNames /\ key \in Keys /\ \A m \in AllNames : m \in {n} <=> NameOf(m) \in {key}
    BY NamesMatch DEF AllNames, Keys, NameOf
  <2>2. \A j \in Keys : entries'[j] = IF j \in {key} THEN NoEntry ELSE entries[j]
    BY <1>11 DEF Discard, IInv, TypeOK
  <2>3. Abstract!Invalidate({n})
    BY <1>10, <1>11, <2>1, <2>2 DEF Discard
  <2>4. QED BY <2>1, <2>3, NamesMatch DEF Abstract!Next
<1>12. ASSUME NEW s \in Scopes, Clear(s) PROVE Abstract!Next
  <2> DEFINE cut == {key \in Keys : InScope(key, s)}
             covered == {t \in Scopes : IsPrefix(s, t)}
             gone == covered \X LocalKeys
  <2>1. gone \in SUBSET AllNames /\ cut \in SUBSET Keys
    BY DEF AllNames
  <2>2. \A n \in AllNames : n \in gone <=> NameOf(n) \in cut
    <3> SUFFICES ASSUME NEW n \in AllNames PROVE n \in gone <=> NameOf(n) \in cut
      OBVIOUS
    <3>1. n[1] \in Scopes /\ n[2] \in LocalKeys /\ n = <<n[1], n[2]>>
      BY DEF AllNames
    <3>2. NameOf(n) \in Keys /\ (InScope(NameOf(n), s) <=> IsPrefix(s, n[1]))
      BY <3>1, NamesMatch, InScopeIsByNamespace DEF NameOf
    <3>3. QED BY <3>1, <3>2
  <2>3. \A j \in Keys : entries'[j] = IF j \in cut THEN NoEntry ELSE entries[j]
    BY <1>12 DEF Clear, Dropped, NoEntry
  <2>4. Abstract!Invalidate(gone)
    BY <1>10, <1>12, <2>1, <2>2, <2>3 DEF Clear
  <2>5. QED BY <2>4, NamesMatch DEF Abstract!Next
<1>13. ASSUME NEW s \in Scopes, NEW k \in LocalKeys, Set(s, k) PROVE Abstract!Next
  <2> DEFINE n == <<s, k>>
             key == FullKey(s, k)
             val == [scope |-> s, local |-> k, gen |-> gen[key] + 1]
  <2>1. /\ n \in AllNames /\ key \in Keys /\ NameOf(n) = key
        /\ \A m \in AllNames : NameOf(m) \in Keys /\ (m = n <=> NameOf(m) = key)
    BY NamesMatch DEF AllNames, Keys, NameOf
  <2>2. \A j \in Keys : gen'[j] = IF j = key THEN gen[j] + 1 ELSE gen[j]
    BY <1>13 DEF Set, NewGeneration
  <2>3. \A j \in Keys : entries'[j] = IF j = key THEN [left |-> Ttl, val |-> val] ELSE entries[j]
    BY <1>13, <2>1, <2>2 DEF Set, IInv, TypeOK
  <2>4. entries'[key] # NoEntry
    <3>1. gen[key] + 1 \in Nat /\ val \in Values
      BY <2>1 DEF IInv, TypeOK, Values
    <3>2. QED BY <2>1, <2>3, <3>1, EntryIsPresent, CacheAssumption
  <2>5. aGen' = [aGen EXCEPT ![n] = @ + 1]
    <3>1. \A m \in AllNames : aGen'[m] = IF m = n THEN aGen[m] + 1 ELSE aGen[m]
      BY <2>1, <2>2 DEF aGen
    <3>2. QED BY <3>1 DEF aGen
  <2>6. aStored' = [aStored EXCEPT ![n] = [scope |-> n[1], local |-> n[2], gen |-> aGen[n] + 1]]
    <3>1. val = [scope |-> n[1], local |-> n[2], gen |-> aGen[n] + 1]
      BY <2>1 DEF aGen
    <3>2. \A m \in AllNames : aStored'[m] = IF m = n THEN val ELSE aStored[m]
      BY <2>1, <2>3, <2>4 DEF aStored
    <3>3. QED BY <3>1, <3>2 DEF aStored
  <2>7. aPending' = aPending
    BY <1>13 DEF Set, aPending
  <2>8. Abstract!Replace(n)
    BY <1>13, <2>5, <2>6, <2>7 DEF Set, Abstract!Replace, aGen, aStored, aPending
  <2>9. QED BY <2>1, <2>8, NamesMatch DEF Abstract!Next
<1>14. CASE Tick
  <2>1. \A j \in Keys : /\ entries'[j] = NoEntry <=> entries[j] = NoEntry
                        /\ entries[j] # NoEntry => entries'[j].val = entries[j].val
    <3> SUFFICES ASSUME NEW j \in Keys
                 PROVE  /\ entries'[j] = NoEntry <=> entries[j] = NoEntry
                        /\ entries[j] # NoEntry => entries'[j].val = entries[j].val
      OBVIOUS
    <3>1. CASE Live(j)
      <4>1. /\ entries[j] # NoEntry /\ entries[j].left - 1 \in Nat /\ entries[j].val \in Values
            /\ entries'[j] = [left |-> entries[j].left - 1, val |-> entries[j].val]
        BY <1>14, <3>1 DEF Tick, Live, IInv, TypeOK, Entries
      <4>2. QED BY <4>1, EntryIsPresent
    <3>2. CASE ~Live(j)
      BY <1>14, <3>2 DEF Tick
    <3>3. QED BY <3>1, <3>2
  <2>2. aStored' = aStored
    BY <2>1, NamesMatch DEF aStored
  <2>3. QED BY <1>1, <1>14, <2>2 DEF Tick, aGen, aPending
<1>15. ASSUME UNCHANGED <<entries, gen, waiting, asked, admitted, answer>> PROVE Stutters
  BY <1>15, StoreMaps DEF aPending
<1>16. QED
  BY <1>1, <1>2, <1>3, <1>4, <1>5, <1>6, <1>7, <1>8, <1>9, <1>11, <1>12, <1>13, <1>14, <1>15
  DEF Next, Stop, vars

(* A waiter is given a value of the generation it was admitted against,    *)
(* even when that has ended since, and no fill detached by clear, discard  *)
(* or set reaches later callers (get_or_set_with_status, :45-97).          *)
THEOREM Refinement == Spec => ImplementsGenerationalCache
<1>1. Init => Abstract!Init
  BY InitMaps
<1>2. IInv /\ IInv' /\ [Next]_vars => [Abstract!Next]_(Abstract!vars)
  BY StepMaps
<1>3. QED
  BY <1>1, <1>2, Invariance, PTL DEF Spec, Abstract!Spec, ImplementsGenerationalCache

-----------------------------------------------------------------------------
(* No waiter is left behind and no slot is held for good (:57-80): what a  *)
(* caller awaits and what keeps a key's slot has a turn of the loop left.  *)
THEOREM NothingIsStrandedHolds == Spec => []NothingIsStranded
<1>1. IInv => NothingIsStranded
  <2> SUFFICES ASSUME IInv PROVE NothingIsStranded
    OBVIOUS
  <2>1. ASSUME NEW c \in Callers, waiting[c] # NoFill
        PROVE  fill[waiting[c]].phase \in {"running", "finished", "published"}
    BY <2>1 DEF IInv, WaitInv, TypeOK, FillRec, Phases
  <2>2. ASSUME NEW key \in Keys, inflight[key] # NoFill
        PROVE  fill[inflight[key]].phase \in {"running", "finished"}
    BY <2>2 DEF IInv, SlotInv, Open
  <2>3. QED BY <2>1, <2>2 DEF NothingIsStranded
<1>2. QED BY <1>1, Invariance, PTL

(* What a step does to a fill that somebody waits for or that has a slot.  *)
LEMMA ReferencedGoesForward ==
  ASSUME IInv, [Next]_vars, NEW f \in Fills,
         (\E c \in Callers : waiting[c] = f) \/ (\E key \in Keys : inflight[key] = f)
  PROVE  GoesForward(f)
<1>0. fill \in [Fills -> FillRec] /\ \A p \in Phases : Stage(p) \in Nat
  BY DEF IInv, TypeOK, Phases, Stage
<1>1. CASE fill' = fill
  BY <1>0, <1>1 DEF GoesForward, FillRec
<1>2. ASSUME NEW c \in Callers, NEW k \in LocalKeys, NEW g \in Fills, StartFill(c, k, g)
      PROVE  GoesForward(f)
  <2>1. f # g
    BY <1>2 DEF StartFill, Unreferenced
  <2>2. fill'[f] = fill[f]
    BY <1>0, <1>2, <2>1 DEF StartFill
  <2>3. QED BY <1>0, <2>2 DEF GoesForward, FillRec
<1>3. ASSUME NEW g \in Fills, FinishFill(g) \/ PublishFill(g)
      PROVE  GoesForward(f)
  <2>1. PICK p \in {"finished", "published"}, outcome \in Outcomes :
          /\ fill' = Moved(g, p, outcome)
          /\ fill[g].phase = IF p = "finished" THEN "running" ELSE "finished"
    BY <1>0, <1>3 DEF FinishFill, PublishFill, FillRec
  <2>2. CASE f = g
    <3>1. /\ fill'[f].phase = p /\ fill'[f].key = fill[f].key /\ fill'[f].val = fill[f].val
      BY <1>0, <2>1, <2>2 DEF Moved
    <3>2. QED BY <2>1, <2>2, <3>1 DEF GoesForward, Stage
  <2>3. CASE f # g
    <3>1. fill'[f] = fill[f]
      BY <1>0, <2>1, <2>3 DEF Moved
    <3>2. QED BY <1>0, <3>1 DEF GoesForward, FillRec
  <2>4. QED BY <2>2, <2>3
<1>4. QED
  BY <1>1, <1>2, <1>3 DEF Next, vars, Hit, Join, StartDoneFill, Resume, CancelWaiter, Leaves,
     Discard, Set, Clear, Tick, Stop

(* A call that waits keeps to its fill until it returns.                   *)
LEMMA WaiterStays ==
  ASSUME IInv, [Next]_vars, NEW c \in Callers, waiting[c] # NoFill
  PROVE  waiting'[c] \in {waiting[c], NoFill}
<1>0. waiting \in [Callers -> Fills \cup {NoFill}]
  BY DEF IInv, TypeOK
<1>1. CASE waiting' = waiting
  BY <1>1
<1>2. ASSUME NEW d \in Callers, NEW k \in LocalKeys, Join(d, k) \/ \E f \in Fills : StartFill(d, k, f)
      PROVE  waiting'[c] = waiting[c]
  <2>1. waiting[d] = NoFill
    BY <1>2 DEF Join, StartFill, Called
  <2>2. (\E f : waiting' = [waiting EXCEPT ![d] = f]) \/ waiting' = waiting
    BY <1>2 DEF Join, StartFill, Awaits, Returns
  <2>3. QED BY <1>0, <2>1, <2>2
<1>3. ASSUME NEW d \in Callers, Resume(d) \/ CancelWaiter(d)
      PROVE  waiting'[c] \in {waiting[c], NoFill}
  BY <1>0, <1>3 DEF Resume, CancelWaiter, Leaves
<1>4. QED
  BY <1>1, <1>2, <1>3 DEF Next, vars, Hit, StartDoneFill, Returns, FinishFill, PublishFill,
     Discard, Set, Clear, Tick, Stop

(* Nobody changes the fill it waits for, and no task is used again while a *)
(* waiter or a slot refers to it (_inflight and the shield, :57-80): with  *)
(* NothingIsStranded, fair turns bring every waiter to its end.            *)
THEOREM FillsGoForwardHolds == Spec => FillsGoForward
<1>1. IInv /\ [Next]_vars => [TurnUsed]_vars
  <2> SUFFICES ASSUME IInv, [Next]_vars PROVE TurnUsed
    OBVIOUS
  <2>1. /\ \A c \in Callers : waiting[c] # NoFill => waiting[c] \in Fills
        /\ \A key \in Keys : inflight[key] # NoFill => inflight[key] \in Fills
    BY DEF IInv, TypeOK
  <2>2. QED BY <2>1, ReferencedGoesForward, WaiterStays DEF TurnUsed
<1>2. QED
  BY <1>1, Invariance, PTL DEF Spec, FillsGoForward
=============================================================================
