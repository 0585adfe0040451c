SPECIFICATION FairSpec
CONSTANTS
  MaxBlock = 2
  TxCount <- MCTxCount
  EpochOpts <- MCEpochOpts
  BufferSize = 1
  NotCatchupBatch = 2
  CatchupBatch = 1
  GapForAdjust = 2
  DeleteEvery = 1
  MaxCrash = 0
  MaxFail = 1
PROPERTIES
  RetrySucceeds
