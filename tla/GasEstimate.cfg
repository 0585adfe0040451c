SPECIFICATION FairSpec
CONSTANTS
  a1 = a1
  a2 = a2
  Addrs <- MCAddrs
  SettlePeriod = 2
  BufferSize = 2
  MaxBlock = 5
  MaxFail = 1
  MaxThrow = 1
  MaxCrash = 1
INVARIANTS
  TypeOK
  NothingUncounted
  NeverTooLow
  RowsOfDelegators
PROPERTIES
  EventuallyCounted
CHECK_DEADLOCK FALSE
