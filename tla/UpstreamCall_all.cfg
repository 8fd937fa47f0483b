SPECIFICATION FairSpec
CONSTANT
  Calls <- AllCalls
INVARIANTS
  TypeOK
  TakesEffectOnce
PROPERTIES
  ImplementsCarefulCall
  CallsEnd
\* The call ends.
CHECK_DEADLOCK FALSE
