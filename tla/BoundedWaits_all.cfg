SPECIFICATION MCSpec
CONSTANTS
  Calls <- AllCalls
  Guidance = {0, 1, 3}
  Fallback = 2
  q1 = q1
  Requesters <- MCClients
  Views = {"liquidity", "capabilities"}
  Enrichments = {}
  LastDay = 1
  Calendar <- MCCalendar
  MaxFailing = 1
  Absent = Absent
  Clock = Clock
INVARIANTS
  TypeOK
  BoundedAnswer
  DeadlineKeepsIdentity
PROPERTIES
  ReadsInTime
  MCCallsEnd
  MCReadsEnd
\* A call ends.
CHECK_DEADLOCK FALSE
