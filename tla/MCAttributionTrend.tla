------------------------- MODULE MCAttributionTrend -------------------------
(* Small instances of AttributionTrend. *)
EXTENDS AttributionTrendProperties, TLC

CONSTANTS r1, r2, r3

OnlyTwo      == r1 :> 2
ThreeOneNone == r1 :> 3 @@ r2 :> 1 @@ r3 :> 0
=============================================================================
