SPECIFICATION FairSpec
CONSTANTS
  MaxBlock = 3
  TxCount <- MCTxCount
  EpochOpts <- MCEpochOpts
  BufferSize = 1
  NotCatchupBatch = 2
  CatchupBatch = 1
  GapForAdjust = 2
  DeleteEvery = 1
  MaxCrash = 1
  MaxFail = 0
INVARIANTS
  TypeOK
  EsPrefixClosed
  EsAtMostOneAhead
  NothingLost
  RedisBehindEs
  UnindexedOptsBackedUp
  OptIdsAgree
  TxQtyExact
PROPERTIES
  LedgerSpec
  EventuallyCommitted
  EventuallyIndexed
