------------------------- MODULE GenerationalCache -------------------------
(***************************************************************************)
(* What AsyncTtlCache promises its callers, with no task, callback or      *)
(* clock in it.  Every (scope, key) name has a generation, which an        *)
(* invalidation (clear, discard) or a direct set moves on.  A caller is    *)
(* admitted against the generation current at its call, and what it is     *)
(* given is a value of that generation, made for that name, whatever       *)
(* happens to the name in the meantime.  What is stored is always of the   *)
(* current generation.                                                     *)
(***************************************************************************)
EXTENDS Naturals

CONSTANTS
  Callers,     \* the requests that use the cache
  LocalKeys,   \* the keys they pass
  ScopeOf,     \* the namespace of the view each caller holds
  Covers,      \* Covers[s]: the namespaces that a clear of s invalidates
  Nothing      \* no stored value, no pending call

Namespaces == DOMAIN Covers
Names  == Namespaces \X LocalKeys
Values == [scope : Namespaces, local : LocalKeys, gen : Nat]

VARIABLES
  gen,       \* gen[n]: the generation of name n
  stored,    \* stored[n]: the value kept for n, or Nothing
  pending,   \* pending[c]: the key caller c waits for, or Nothing
  admitted,  \* admitted[c]: the generation c's pending call was admitted against
  answer     \* answer[c]: what c's last call returned

vars == <<gen, stored, pending, admitted, answer>>

NoAnswer == [kind |-> "none", val |-> Nothing]

Name(c, k)     == <<ScopeOf[c], k>>
Current(n)     == [scope |-> n[1], local |-> n[2], gen |-> gen[n]]
AdmittedOf(c, k) == [scope |-> ScopeOf[c], local |-> k, gen |-> admitted[c]]

Init ==
  /\ gen      = [n \in Names |-> 0]
  /\ stored   = [n \in Names |-> Nothing]
  /\ pending  = [c \in Callers |-> Nothing]
  /\ admitted = [c \in Callers |-> 0]
  /\ answer   = [c \in Callers |-> NoAnswer]

-----------------------------------------------------------------------------
(* A call is admitted and left to wait for a value. *)
Admit(c, k) ==
  /\ pending[c] = Nothing
  /\ pending'  = [pending EXCEPT ![c] = k]
  /\ admitted' = [admitted EXCEPT ![c] = gen[Name(c, k)]]
  /\ answer'   = [answer EXCEPT ![c] = NoAnswer]
  /\ UNCHANGED <<gen, stored>>

Ends(c, ans) ==
  /\ pending[c] # Nothing
  /\ answer'   = [answer EXCEPT ![c] = ans]
  /\ pending'  = [pending EXCEPT ![c] = Nothing]
  /\ admitted' = [admitted EXCEPT ![c] = 0]
  /\ UNCHANGED <<gen, stored>>

(* A waiting call returns the value it was admitted against. *)
Deliver(c) == Ends(c, [kind |-> "value", val |-> AdmittedOf(c, pending[c])])

(* A waiting call fails, or its own request is cancelled. *)
GiveUp(c) == \E kind \in {"error", "abandoned"} : Ends(c, [kind |-> kind, val |-> Nothing])

(* A call that never waits: it returns a current value, which it may also  *)
(* have stored, or it fails.                                               *)
AnswerAtOnce(c, k) ==
  /\ pending[c] = Nothing
  /\ \/ /\ answer' = [answer EXCEPT ![c] = [kind |-> "value", val |-> Current(Name(c, k))]]
        /\ stored' \in {stored, [stored EXCEPT ![Name(c, k)] = Current(Name(c, k))]}
     \/ /\ answer' = [answer EXCEPT ![c] = [kind |-> "error", val |-> Nothing]]
        /\ stored' = stored
  /\ UNCHANGED <<gen, pending, admitted>>

(* A fill of the current generation ends well and is stored. *)
Store(n) ==
  /\ stored' = [stored EXCEPT ![n] = Current(n)]
  /\ UNCHANGED <<gen, pending, admitted, answer>>

(* The generation of every name in N ends, and nothing of it is kept. *)
Invalidate(N) ==
  /\ gen'    = [n \in Names |-> IF n \in N THEN gen[n] + 1 ELSE gen[n]]
  /\ stored' = [n \in Names |-> IF n \in N THEN Nothing ELSE stored[n]]
  /\ UNCHANGED <<pending, admitted, answer>>

(* A value is set directly: the first of a new generation. *)
Replace(n) ==
  /\ gen'    = [gen EXCEPT ![n] = @ + 1]
  /\ stored' = [stored EXCEPT ![n] = [scope |-> n[1], local |-> n[2], gen |-> gen[n] + 1]]
  /\ UNCHANGED <<pending, admitted, answer>>

Next ==
  \/ \E c \in Callers, k \in LocalKeys : Admit(c, k) \/ AnswerAtOnce(c, k)
  \/ \E c \in Callers : Deliver(c) \/ GiveUp(c)
  \/ \E n \in Names : Store(n) \/ Replace(n) \/ Invalidate({n})
  \/ \E s \in Namespaces : Invalidate(Covers[s] \X LocalKeys)

Spec == Init /\ [][Next]_vars
=============================================================================
