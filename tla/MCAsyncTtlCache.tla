-------------------------- MODULE MCAsyncTtlCache --------------------------
EXTENDS AsyncTtlCacheProperties, TLC

CONSTANTS c1, c2, f1, f2, sg, brief

MCPair       == {c1, c2}
MCScopeParts == {sg}
MCKeyParts   == {brief}
MCLocalKeys  == {<<brief>>}
MCFills      == {f1, f2}

(* The root view, whose clear covers the other, and a scoped view through  *)
(* which both callers go, so that they share every fill.                   *)
MCScopes  == {<<>>, <<sg>>}
MCScopeOf == [c \in MCPair |-> <<sg>>]
=============================================================================
