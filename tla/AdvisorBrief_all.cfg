CONSTANTS
  c1 = c1
  c2 = c2
  c3 = c3
  s1 = s1
  s2 = s2
  r1 = r1
  r2 = r2
  accept = accept
  none = none
  Nothing = none
  Callers <- MCCallers
  Scopes = {s1, s2}
  ScopeOf <- MCScopes
  Runs <- MCRuns
  Actions = {accept}
  MaxLog = 2
SPECIFICATION Spec
SYMMETRY MCSymmetry
INVARIANTS
  TypeOK
  ReviewedBriefIsRebuilt
  ReviewShowsItself
  ReviewReachesShownBrief
  BriefStaysInContext
CHECK_DEADLOCK FALSE
