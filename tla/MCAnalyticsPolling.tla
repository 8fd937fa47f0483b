------------------------- MODULE MCAnalyticsPolling -------------------------
(* Small instances of AnalyticsPolling: the workspace summary is bounded   *)
(* and not capped, the other calculations are capped and not bounded; the  *)
(* interface allows both.                                                  *)
EXTENDS AnalyticsPollingProperties

Summary ==
  {[bounded |-> TRUE, budget |-> b, capped |-> FALSE, cap |-> 0, admitted |-> a] :
     b \in 0..4, a \in BOOLEAN}
Capped ==
  {[bounded |-> FALSE, budget |-> 0, capped |-> TRUE, cap |-> n, admitted |-> a] :
     n \in 1..3, a \in BOOLEAN}

Both ==
  {[bounded |-> TRUE, budget |-> 3, capped |-> TRUE, cap |-> 1, admitted |-> FALSE]}

AllCalls == Summary \cup Capped \cup Both
=============================================================================
