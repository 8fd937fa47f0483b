CONSTANTS
  none = none
  Nothing = none
  MaxVersion = 2
  MaxLedger = 2
  MaxMoves = 2
  MaxFaults = 1
  Starts <- MCStarts
  q1 = q1
  Requesters <- MCClients
  Readers <- MCClients
  Views = {"workspace", "book"}
  Enrichments = {"reference", "twr"}
  LastDay = 2
  Calendar <- MCCalendar
  MaxFailing = 1
  Absent = Absent
  Clock = Clock
  LastRow = 4
  DateOf <- MCDateOf
  LastDate = 1
  YearStart <- MCYearStart
  Today = 1
  PageSize = 2
  Rolling = 1
  NoDate = NoDate
SPECIFICATION MCSpec
INVARIANTS
  ReadModelsTypeOK
  NoFalseReassurance
  ExecutionIsConsented
  OneTransitionIsAbsorbed
  SectionsAgree
  LedgerIsListedOnce
CHECK_DEADLOCK FALSE
