SPECIFICATION Spec
CONSTANTS
  n1 = n1
  n2 = n2
  Nodes <- MCNodes
  Params = {"p"}
  Options = {"yes", "no"}
  ConsensusPeriod = 3
  SettlePeriod = 3
  VoteDuration = 3
  VoteRounds = 1
  EndMargin = 1
  MaxBlock = 7
  LastTx = 3
  MaxTx = 2
  MaxAhead = 2
  MaxFail = 0
  MaxCrash = 0
INVARIANT
  PunishedVotesNeverCount
CHECK_DEADLOCK FALSE
