SPECIFICATION FairSpec
CONSTANTS
  MaxBlock = 5
  ConsensusPeriod = 2
  SettlePeriod = 4
  YearOf <- MCYearOf
  NodeLag = 0
  QueueSize = 1
  MaxCrash = 1
  MaxFail = 1
INVARIANTS
  CurrentListsNotOld
PROPERTIES
  EventuallyCommitted
CHECK_DEADLOCK FALSE
