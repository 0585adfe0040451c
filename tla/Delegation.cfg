SPECIFICATION FairSpec
CONSTANTS
  a1 = a1
  a2 = a2
  Addrs <- MCAddrs
  Threshold = 2
  Amounts = {2, 3}
  Refunds = {1, 3}
  PunishLeaving = FALSE
  MaxStaking = 2
  MaxTx = 4
  MaxThrow = 1
  MaxFail = 1
  MaxCrash = 1
INVARIANTS
  TypeOK
  RowsFollowChain
  TotalsAgree
  ValidAddrs
PROPERTIES
  EndedKept
  HistoryMigrates
