SPECIFICATION Spec
CONSTANTS
  MaxBlock = 9
  ConsensusPeriod = 2
  SettlePeriod = 4
  YearOf <- MCYearOf
  NodeLag = 2
  QueueSize = 1
  MaxCrash = 1
  MaxFail = 1
INVARIANTS
  PreviousListsExact
  RewardsOfTheirEpoch
  BlockNodeOnce
  RowNotBehind
CHECK_DEADLOCK FALSE
