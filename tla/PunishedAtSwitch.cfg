SPECIFICATION Spec
CONSTANTS
  Nodes = {1, 2}
  GenesisNodes = {1}
  ConsensusPeriod = 3
  ElectionBackward = 1
  SettlePeriod = 6
  UnStakeFreeze = 1
  ZeroProduceFreeze = 1
  Threshold = 4
  Penalty = 3
  GenesisStake = 8
  StakeAmounts <- MCStakes
  IncreaseAmount = 2
  Penalised = {"candidate", "leaving"}
  Reportable = {"candidate"}
  MaxSlashed = 1
  FaultsAnywhere = TRUE
  MaxBlock = 13
  MaxTx = 3
  MaxFail = 0
  MaxCrash = 1
INVARIANT
  PunishedAtSwitch
CHECK_DEADLOCK FALSE
