SPECIFICATION Spec
CONSTANT
  Calls <- ReportCall
INVARIANT
  PreservesReplaySafety
CHECK_DEADLOCK FALSE
