SPECIFICATION Spec
CONSTANTS
  Calls <- Summary
  Guidance = {0, 1}
  Fallback = 2
INVARIANT
  ExpiryGivesReasonCode
CHECK_DEADLOCK FALSE
