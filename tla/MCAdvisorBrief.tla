--------------------------- MODULE MCAdvisorBrief ---------------------------
EXTENDS AdvisorBriefProperties, TLC

CONSTANTS c1, c2, c3, s1, s2, r1, r2, accept, none

(* Two advisors share a context; a third uses the same cache from another. *)
MCCallers  == {c1, c2, c3}
MCScopes   == (c1 :> s1) @@ (c2 :> s1) @@ (c3 :> s2)
MCRuns     == {r1, r2}
MCSymmetry == Permutations(MCRuns) \cup Permutations({c1, c2})
=============================================================================
