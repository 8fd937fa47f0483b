----------------------------- MODULE CarefulCall -----------------------------
(***************************************************************************)
(* What the answer of an upstream call is worth to a caller that must      *)
(* decide whether to submit its mutation again.                            *)
(*                                                                         *)
(* A call that may have one effect has at most one.  A careful call, one   *)
(* that replays nothing ambiguous, answers for its effect besides: after   *)
(* "yes" the effect has happened, after "unsent" it never will, after      *)
(* "settled" whatever has not happened by then never will, and only an     *)
(* answer that admits ignorance may still be followed by the effect.       *)
(***************************************************************************)

VARIABLES
  careful,  \* the call replays nothing that was ambiguous
  single,   \* the call may have one effect at most
  told,     \* "pending", or what the caller was told
  effect    \* how often the call has taken effect: "none", "once" or "more"

vars == <<careful, single, told, effect>>

Answers == {"yes", "unsent", "settled", "unknown"}

Init ==
  /\ careful \in BOOLEAN /\ single \in BOOLEAN
  /\ careful => single
  /\ told   = "pending"
  /\ effect = "none"

(* The producer, now or long after the caller has gone. *)
TakeEffect ==
  /\ careful => told \in {"pending", "unknown"}
  /\ \/ effect = "none" /\ effect' = "once"
     \/ effect = "once" /\ ~single /\ effect' = "more"
  /\ UNCHANGED <<careful, single, told>>

Tell(what) ==
  /\ told = "pending"
  /\ careful /\ what = "yes"    => effect = "once"
  /\ careful /\ what = "unsent" => effect = "none"
  /\ told' = what
  /\ UNCHANGED <<careful, single, effect>>

Next == TakeEffect \/ \E what \in Answers : Tell(what)

Spec == Init /\ [][Next]_vars
=============================================================================
