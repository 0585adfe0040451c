# Formal model of the PlatON browser

TLA+ specifications of the PlatON block browser (this repository), TLC
configurations that check them, and TLAPS proofs. Paths below are relative to
`scan-agent/src/main/java/com/platon/browser/` unless they name a module.

## 1. The system

`scan-agent` follows a PlatON chain node and writes what it finds into MySQL,
Elasticsearch (ES) and Redis; `scan-job` updates derived data on a schedule;
`scan-api` answers the web front end from the three stores; `scan-sync` and
`scan-export` are offline tools; `scan-service` and `scan-common` are libraries;
`scan-press`, `scan-test` and `scan-generator` are development tools.

### Inventory

| Component | State it keeps | Operations | What makes it hard | What makes it correct |
|---|---|---|---|---|
| Main loop, block handler (`AgentApplication`, `BlockRetryService`, `handler/BlockEventHandler`) | number collected, block ring | take the next block once the chain has it, publish it | publication to a full ring blocks; loop ends at an exception | consecutive numbers, none skipped, none repeated after a restart |
| Collection (`CollectionEventHandler`, `PPOSService`, `BlockService`, `StatisticService`, `NetworkStatCache`) | network statistics in memory, transaction ids, node opt ids, `tx_bak`, `n_opt_bak`, `network_stat` | analyse a block, number its transactions and opts, back them up, save the row, commit | publishes the block before the commit; retried by `@Retryable` with the memory a failed attempt left; ids reused after a crash | MySQL advances by one block; ids agree with the documents; counts are exact |
| Complement, persistence (`ComplementEventHandler`, `PersistenceEventHandler`, `EsImportService`, `RedisImportService`) | staging sets, batch size, greatest id that may be deleted | stage a block, flush a batch to ES and then Redis, allow the deletion of used backups | five parallel saves with retries and a latch; batches in memory only; batch size changed by a task | ES is a gap-free prefix, never far from MySQL; Redis never ahead of ES; a backup outlives its use |
| Start-up check (`ConsistencyService`, `BootstrapEventHandler`, `ShutdownCallback`) | range to replay, done flag | find the height of ES, replay missing blocks, clean up | ES may hold any part of the last batches | after start-up nothing is missing |
| Epoch switches (`EpochService`, `EpochRetryService`) | validator and verifier lists of two epochs, rewards, issue year, `block_node` | settlement change, consensus change, record the validators, hand a copy to each block | several requests to a moving chain, retries, restart in the middle of an epoch, an object shared with the collection thread | each block gets the lists and rewards of its epochs; each epoch is recorded once |
| Initialisation (`InitializationService`) | all caches | create or load `network_stat`, import genesis nodes, fill caches | first start against restart | the caches equal what was committed |
| Validator life cycle (`analyzer/epoch/*`) | `staking`, `node`, `slash` tables, `ReportMultiSignParamCache` | settle, elect, exit, slash for few blocks or double signs | effects spread over epochs, information in memory only | a node has one active staking; locked stake is released once |
| PPOS transactions (`analyzer/ppos/*`) | staking, delegation, proposal, vote, restricting tables | 16 kinds of transactions | order inside a block, amounts split between hesitating and locked parts | amounts never negative, sums kept |
| Caches and tasks (`cache/*`, `task/*`) | node, address, proposal, TPS caches, network statistics | update, flush, refresh from the chain | shared by the collection thread and tasks without locks; updated before the commit | no update lost or applied twice |
| Gas estimates (`GasEstimateEventHandler`) | queue table, counters | add, then delete the message | at-least-once delivery | each message counts once |
| ERC tokens (`service/erc`, `v0152/*`, `task/ErcTokenUpdateTask`) | token, holder, inventory tables | detect a contract, count transfers, refresh balances | task and collection thread on one table | counts equal transfers |
| Chain client (`scan-service`: `RetryableClient`, `PlatOnClient`, `SpecialApi`) | the current node client | request, fail over to the highest node | read by all threads while it is replaced | ends with a node that answers |
| Repositories (`scan-service`: `AbstractEsRepository`, `AbstractRedisService`) | ES indices, Redis sorted sets | bulk save, trim to a maximum | partial bulk failures; trimming by rank | nothing newer is trimmed before something older |
| Governance (`analyzer/ppos/Proposal*`, `OnNewBlockAnalyzer`, `ParameterService`, `ProposalInfoTask`) | `proposal`, `vote`, `config` tables, `ProposalCache`, `BlockChainConfig` | enter proposals and votes, rotate parameters at active blocks, take back votes of punished nodes, refresh statuses | table and memory changed before the commit; task and collection thread on one row; the chain is asked of now, the blocks are of then | parameters in force are the chain's; sums are the valid votes |
| Jobs (`scan-job`), sync (`scan-sync`) | cursors | copy from backups and the chain | cursor against writer | nothing skipped |
| Query service (`scan-api`), export (`scan-export`) | none of their own | read, format | - | - |

### How they interact

    main thread --ring--> block handler --ring--> collection handler --MySQL transaction
         |                                              | (published before the commit)
         | epoch switches                               +--ring--> complement --ring--> persistence --> ES, then Redis
         +-- shares NetworkStat and chainConfig with the collection thread

Each ring is an LMAX disruptor with one handler thread: publication to a full
ring waits, and an event keeps its slot until its handler returns. Handlers are
retried for ever by Spring's `@Retryable`. Only MySQL, ES and Redis outlive the
process. On start-up `InitializationService` loads `network_stat`,
`ConsistencyService` replays what ES lacks, and then the main loop begins at
the recorded height plus one.

## 2. Modules

| Module | Models | Kind |
|---|---|---|
| `IngestLedger` | what the agent promises to a reader of MySQL and ES | abstract specification |
| `SyncPipeline` | main loop, rings, handlers, MySQL transaction, backups, parallel imports, Redis, start-up replay, crash | detailed specification, implements `IngestLedger` |
| `EpochSwitch` | epoch switches, `block_node`, issue rates, hand-over to the collection thread, restart | specification |
| `Staking` | the tables `staking`, `node` and `slash`, the cache of reports, beside the chain's own record of the nodes | specification |
| `Delegation` | the table `delegation`, the totals in `staking` and `node`, `DelegateMigrateTask` | specification |
| `Governance` | proposals, votes, parameters in the table and in memory, `ProposalInfoTask` | specification |
| `GasEstimate` | `gas_estimate`, its log and its ring, beside the collection thread | specification |
| `MCSyncPipeline`, `MCEpochSwitch`, `MCStaking`, `MCDelegation`, `MCGovernance`, `MCGasEstimate` | constants for TLC | instances |
| `SyncPipelineProofs`, `SyncPipelineSafety` | types; inductive invariants, safety, refinement | proofs |
| `EpochSwitchProofs`, `StakingProofs`, `DelegationProofs`, `GovernanceProofs`, `GasEstimateProofs` | types, inductive invariants, safety | proofs |
| `Induction` | induction over the natural numbers for a set, sums over finite sets | lemmas |

`SyncPipeline` is the frame: it says how a block gets from the chain to the
stores and what a retry or a crash does to the pipeline. The four modules on
business tables look into its step `CollectWrite`: each has the collection
thread with a part of the tables, its own thread or task beside it, failed attempts
and restarts. A failed attempt is rolled back in MySQL, but the event keeps its
list: `CollectionEventHandler.java:110` appends the block's transactions once more
with every attempt, and `PPOSService.java:115` analyses each entry. `Staking`,
`Delegation` and `GasEstimate` have this as `copies`, `Governance` as the key
violation that follows. In each of the four the chain is a part of the state,
because the properties compare the tables with it. Operators whose comment
begins with "Variant" are plausible mistakes; no specification uses them, and
each must break a property (`PROJECT.json`, mutants).

### SyncPipeline and the code

| Action | Code |
|---|---|
| `Start`, `ConsistencyCheck`, `BootstrapPublish`, `BootstrapFinish` | `InitializationService.init`, `ConsistencyService.post`: load the row, find the height of ES, publish each missing block to the bootstrap ring, wait for the flag |
| `BootstrapHandle`, `EsSave`, `RedisImport`, `RedisSave`, `BootstrapDone` | `BootstrapEventHandler.exec`: import, greatest opt id, flag at the last block |
| `Collect`, `MainLoopBreak` | `AgentApplication.run`: the loop, and its `catch` that ends it |
| `BlockHandle` | `BlockEventHandler.onEvent` |
| `CollectPublish`, `CollectWrite`, `CollectCommit` | `CollectionEventHandler`: up to the publication, up to the end of `exec`, the commit of the transaction |
| `CollectFail*` | the exceptions a retry answers, at the four places that leave different memory behind, and a commit that fails |
| `ComplementHandle` | `ComplementEventHandler.onEvent` |
| `PersistStage`, `PersistFlush`, `PersistDone` | `PersistenceEventHandler.exec`: the early return, the start of an import, the end |
| `EsSave`, `RedisImport`, `RedisSave`, `RedisSaveFail` | `EsImportService`, `RedisImportService`: one action per parallel save, a latch between ES and Redis |
| `BatchSizeAdjust` | `BatchSizeAdjustTask` |
| `ChainGrow`, `Crash` | the chain; the end of the process, which clears the memory and rolls back the open transaction |

Names of variables are those of the fields where there is one: `mem` is the
`NetworkStat` in `NetworkStatCache`, `txId` is `CollectionEventHandler.transactionId`,
`stage` the staging sets of `PersistenceEventHandler`, `bakMax` the maxima of
`BakDataDeleteUtil`, `db` the row of `network_stat`, `bak` the tables `tx_bak`
and `n_opt_bak`.

Abstractions. A block is its number, its transactions a count; each transaction
yields one node opt. `tx_bak` is modelled by its ids. A save adds all of its documents, or
throws and is retried. The genesis block is not recorded in `network_stat`
(the code skips it) and is not looked for by the start-up check. `@Retryable`
runs each attempt in a transaction of its own, as the comment at
`CollectionEventHandler.java:190` assumes. Not modelled: checked exceptions
that leave the transaction committed in part, failures of single documents of a
bulk request, the statistics key of Redis, the trimming of its sets, and the
visibility of `ShutdownCallback.isDone`.

### EpochSwitch and the code

| Action | Code |
|---|---|
| `Start`, `InitDone` | `InitializationService.init`: load the row, run both changes for the recorded block, save a new row on a first start |
| `Request` | `AgentApplication.run` and `EpochService.getEpochMessage`: which changes a block opens |
| `SettleBegin`, `SettleLists`, `SettleFail` | `EpochRetryService.settlementChange`, cut where the height of the chain has been read; an exception starts it again with what it assigned |
| `ConsensusBegin`, `ConsensusLists`, `ConsensusFail` | `EpochRetryService.consensusChange`, likewise |
| `Record`, `RecordFail` | the `block_node` part of `getEpochMessage`; its exceptions end the main loop |
| `Publish` | `EpochMessage` copies the attributes, the block enters the rings |
| `Commit` | `StatisticsNetworkAnalyzer` saves the shared `NetworkStat` with the block |
| `ChainGrow`, `Crash` | as above |

A list is named by the epoch it serves in, a reward by the settlement epoch it
is paid in; the list of the genesis block serves in epoch 1. `NodeHeads` are
the heights of the nodes that may answer one request: `RetryableClient` changes
the node after a failure, so that two requests of one change may be answered by
different nodes, up to `NodeLag` blocks behind. A request for a block that the
node lacks fails and is repeated. `issueChange` only logs. `applyConfigChange`
is atomic, but the collection thread may see the fields of `NetworkStat` as
they were when the block was published or as they are now. The two rings and the
handlers between the main and the collection thread are one queue here
(`QueueSize`); the consistency check of start-up, which does not touch this
state, is left to `SyncPipeline`.

### Staking and the code

| Action | Code |
|---|---|
| `Produce` | the chain: the block, its transaction, the nodes it elects and penalises |
| `Election` | `OnElectionAnalyzer.analyze`: nodes with a low block rate are locked, or exit |
| `Consensus` | `OnConsensusAnalyzer.analyze`: the reports in `ReportMultiSignParamCache` become slashes |
| `Settle` | `OnSettleAnalyzer.analyze`: hesitating stake is locked, freezes end |
| `Txs` | `PPOSService` over the event's list, with `StakeCreate-`, `StakeIncrease-`, `StakeExit-` and `ReportAnalyzer` |
| `Commit` | the MySQL transaction of `CollectionEventHandler` |
| `Fail` | an exception: the tables go back, the cache does not, and the retry lists the transactions once more (`copies`) |
| `Crash` | the end of the process: the cache of reports is lost |

`Update` writes both tables as the mappers do: `staking` by node and staking
block, `node` by the node alone. The orders in which a handler goes through
the rows it selected are all tried (`SetToSeqs`). Left out: the longer freeze
of a node that votes on an upgrade (`getUnStakeEndBlock`), a node with two
marked rows (the handler throws a null pointer exception for ever), rewards.

### Delegation and the code

A block is one step, since it is one MySQL transaction; it has at most one
transaction about delegations, or is a settlement or a punishment.

| Action | Code |
|---|---|
| `Delegate` (`Delegated`) | `DelegateCreateAnalyzer`: upsert of the row, totals of staking and node |
| `Undelegate` (`TakenBack`) | `DelegateExitAnalyzer`: the real refund, the row, what comes off the totals |
| `StakeExit` (`Exited`) | `StakeExitAnalyzer` and the part of `StakeExitMapper` that releases delegations |
| `Collected`, `Analysed`, `Handle` | `CollectionEventHandler.exec`, `PPOSService.analyze`, `analyzePPosTx`: the list is gone through, with the transaction in it `copies` times |
| `Settle` | the part of `EpochSettleMapper` about delegations |
| `Punish` | the parts of `SlashReportMapper` and `EpochElectionMapper` that release delegations |
| `Restake` | `StakeCreateAnalyzer`: the node row keeps its totals |
| `Fail` | an exception of an attempt: MySQL goes back, the event's list grows |
| `Crash` | the end of the process: the block is fetched anew, the task starts over |
| `TaskSelect`, `TaskSave`, `TaskDelete`, `TaskThrows` | `DelegateMigrateTask`: the query, the save to ES, the conditional deletion, the caught exception |

The three operators in brackets are functions from tables to tables, one analysis
each; a second one starts from what the first has left, so that a refund of a part
may become one of everything. The code gives wrong amounts there; `exact` says
whether that has happened yet, that is, whether every transaction so far was
analysed once. Failed attempts at settlements and punishments, or at blocks that a
crash interrupts, leave it true. The chain punishes a staking that is a
candidate in the table: the punishment of one whose exit was counted twice, and
which has ended there too early, is not modelled.

### Governance and the code

| Action | Code |
|---|---|
| `ChainGrows` | the chain: a block with at most one governance transaction and, at a consensus switch, a punished node |
| `Begin` | the collection thread takes the next block |
| `Consensus` | `OnConsensusAnalyzer.slash` as far as votes go: `proposalSlashUpdate`, `ProposalParameterService.setSlashParameters` |
| `NewBlock` | `OnNewBlockAnalyzer`, `ParameterService.rotateConfig` and `overrideBlockChainConfig` |
| `Propose`, `Vote`, `NoTx` | `ProposalParameter-`, `ProposalUpgrade-`, `ProposalCancel-` and `ProposalVoteAnalyzer` |
| `Commit`, `Fail`, `Duplicate` | commit; an exception; the key violation of a retry that lists the transaction twice |
| `Select`, `Ask`, `AskThrows`, `Update` | `ProposalInfoTask`: the query, one request, a failed request, the update |
| `Crash` | restart: `InitializationService` fills `ProposalCache` and reads the parameters |

A proposal is named by its block; a text proposal does what a cancel proposal
without a target does. The value of a parameter is the proposal that set it.
`early` is a history variable: proposals whose row left `VOTING` ahead of the
blocks. The status that `setSlashParameters` reads is the committed one. Left
out: abstentions, accumulated verifiers, stale values, the adjustments of data at
fixed heights that the same handler starts.

### GasEstimate and the code

| Action | Code |
|---|---|
| `Begin`, `Txs` (`TxChange`), `Commit` | the collection thread; `DelegateCreate-`, `DelegateExit-` and `DelegateRewardClaimAnalyzer` reset or delete rows |
| `Rollback` | an exception: MySQL goes back, what was published stays, the list has the transaction once more (`copies`) |
| `SettleLog`, `SettlePublish` | `OnSettleAnalyzer`: log row, then publication, which waits for a free slot |
| `HandleRepeated`, `HandleUpdate`, `HandleDelete`, `HandleThrows` | `GasEstimateEventHandler`: the check of the sequence number, the two statements, the swallowed exception |
| `Crash`, `Replay`, `Booted` | restart: `InitializationService` publishes the rows of the log |

The locks of MySQL are part of the guards: `HandleUpdate` waits while the open
transaction holds a row of the table it scans, `HandleDelete` while it holds
the log row. Amounts are those of `Delegation` and are not repeated here: `off`
has the delegators whose row has another amount than the chain, since a retried
block has added or taken off an amount twice, until everything is taken back. A
second refund of a part may take all that is left; a refund of a row that is off
may do either, or nothing when there is no row.

## 3. What is checked

### Runs that pass

| Run | States | Bounds |
|---|---|---|
| `pipeline_crash` | 5.6e4 | 3 blocks (a transaction in 1 and 3, an epoch opt in 2), a crash at any step; with liveness |
| `pipeline_fail` | 2.0e6 | 4 blocks, one exception at any place and one crash |
| `epoch_switch` | 2.2e6 | 9 blocks: four consensus and two settlement epochs end; a crash, a failed request, answers up to a consensus epoch behind |
| `epoch_live` | 9e3 | 5 blocks, nodes up to date |
| `staking` | 2.6e6 | 13 blocks (four consensus, two settlement epochs), two nodes, three transactions, a retry and a crash |
| `delegation` | 3.4e5 | two delegators, two stakings of the node, four transactions, a failed attempt at any block, a crash, a failure of the task; with liveness |
| `governance` | 5.1e5 | 7 blocks, two proposals or votes in the first three, a retry, a crash, chain two blocks ahead |
| `gas_estimate` | 3.8e5 | 5 blocks, two settlements, a ring of two, a rollback at any block, a swallowed exception, a crash; with liveness |

Pipeline:

- `EsPrefixClosed`, `EsAtMostOneAhead`, `NothingLost`, `RedisBehindEs`: order
  between the stores (proved, section 4).
- `UnindexedOptsBackedUp`: a node opt of a block ES lacks is still backed up.
- `OptIdsAgree`: ids reissued after a crash end on the same opts.
- `TxQtyExact` (without exceptions), `TxQtyNeverShort` (with them): the count of
  transactions in `network_stat`.
- `LedgerSpec`: refinement of `IngestLedger`. `PipelineInv`: the inductive
  invariant.
- `EventuallyCommitted`, `EventuallyIndexed`: every block is committed, and is
  searchable once its batch is full.

Epochs: `PreviousListsExact`, `RewardsOfTheirEpoch`, `BlockNodeOnce`,
`RowNotBehind`; `epoch_live`, with nodes up to date, also checks
`CurrentListsNotOld` (proved for nodes any number of blocks behind) and
`EventuallyCommitted` (retries end).

Stakings:

- `RowFollowsChain`: after each block every staking has the chain's status,
  amounts and end block, although the tables are moved by statements that never
  see the chain's.
- `NodeRowsAgree`: one active staking per node, and the row of `node`, updated
  by another key, is its copy.
- `OneAmount`: never a locked and a redeemable amount at once, which the
  comment in `OnConsensusAnalyzer` takes for granted.
- `PunishedAtSwitch`, `ExitedFinal`: a report is executed at the switch; an
  exited staking is never touched again.

Delegations: `RowsFollowChain` (the row owes what the chain owes), `TotalsAgree`
(totals in `staking` and `node` against the rows), `ValidAddrs`, `EndedKept`
(deleted only when stored), `HistoryMigrates`. Once a retry has analysed a
transaction twice (`exact` is false) rows and chain part (`NotCountedTwice` below),
and `RowsFollowChain`, `ValidAddrs` and what `NodeSums` says of the released total
claim nothing any more; the totals of the stakings and the delegated total of the
node still are the sums of the rows, so that the error stays within one delegation
and its sums, and the amounts never get negative.

Governance:

- `ConfigInWindow`: a parameter in the table has a value the chain gave it
  between the last committed block and now; no passed proposal is missed across
  a restart, none that was cancelled counts.
- `MemoryIsTable`, `SumsMatchVotes`: against rollbacks and the task.
- `PunishedVotesOut`: the votes of a punished node do not count on a proposal
  the chain still voted on, unless its row ended early.
- `StatusSettles`: the statuses become the chain's.

Gas estimates: `NothingUncounted`, `NeverTooLow`, `EventuallyCounted`, in all
failures; `RowsOfDelegators` (who has a delegation has an estimate, and no other)
of every delegator whose amount no retry has counted twice.

`TypeOK` is an invariant of `pipeline_crash`, `delegation` and `gas_estimate`;
those of `EpochSwitch`, `Staking` and `Governance` are proved instead.

### Bounds and why they suffice

`MaxBlock` ends the chain. Pipeline: 4 blocks fill two batches of two and
leave a half-filled one at a crash, 3 leave one; a ring of one slot makes every
publisher wait; `DeleteEvery = 1` cleans up at every opportunity;
`GapForAdjust` lies between, so that both batch sizes occur. Epochs: a consensus
epoch of two and a settlement epoch of four blocks are the smallest with first,
inner and last blocks and with switches of both kinds in one block and of one
kind alone; with one block in the queue the collection thread falls behind a
switch. Stakings: rounds of three and epochs of six with the election one
block before a round's end put election, switch, settlement and transactions in
different blocks as well as in one; 13 blocks are two whole settlement epochs
and the opening of the third, in which a staking can be created, penalised,
locked, freed, exit, end and be created again; a stake of 8 survives a
penalty of 3 above the threshold of 4, one of 4 does not, and one of 8 falls
below it with the second. Delegations: refunds of 1 and 3 from amounts of 2 and
3 with threshold 2 leave nothing, less than the threshold, or enough, and cut
through the free and the locked part; settlements are unbounded, and two
analyses of one transaction reach a refund of a part that becomes a full one, and
a full one repeated on an empty row. Governance:
with periods of three blocks a parameter proposal ends at block 6, an upgrade or
a cancellation of block 1 or 2 at block 5, and both become active at 7; two
transactions are a proposal with its vote, with its cancellation, or two
proposals active in one block. Gas
estimates: a ring of two with two settlements and a rollback fills up; a
crash empties it and start-up fills it again. One crash and one exception reach every
recovery path.
The violation runs use the smallest bounds that show them.

### Fairness

`SyncPipeline!Fairness`: weak fairness of each handler thread, of each parallel
save (its retry loop has no end), of the scheduled task and of the restart.
`EpochSwitch!FairSpec`: weak fairness of the main and of the collection thread.
`GasEstimate!FairSpec`: weak fairness of the collection thread; strong fairness
of the handler's two statements, since MySQL grants a lock in the end to a
statement that waits while the collection thread takes and releases it.
`Delegation!FairSpec`, `Governance!FairSpec`: weak fairness of the scheduled
task. None for the chain, crashes and exceptions: the code retries for ever with
a fixed delay, and does nothing about the rest. The pipeline and the delegations
are checked for deadlock. The others are not: their chain ends at `MaxBlock` and
nothing is left to do.

### Where the code and its documentation differ

Each run below must find its property violated.

| Run | What it shows |
|---|---|
| `opts_durable` | After a crash during a flush, with the blocks indexed and the opts not, the start-up check finds nothing missing and returns (`ConsistencyService.java:85`); a later batch raises the deletion mark (`PersistenceEventHandler.java:118`-`128`) and the collection thread deletes the backups of opts that were never indexed (`CollectionEventHandler.java:165`-`172`). |
| `retry_succeeds` | The event is emptied before the commit (`CollectionEventHandler.java:184`): a retry of a failed commit never succeeds. |
| `punished_at_switch` | A crash between a report and the consensus switch leaves the reported node unpunished (`OnConsensusAnalyzer.java:81`; the comment at `ReportAnalyzer.java:83`). |
| `catch_up_votes` | While blocks are caught up, a proposal ends in the table ahead of them, against the comment at `ProposalInfoTask.java:101`: the criteria go to the wrong query (:105), and the votes of a node punished later stay valid. |

More differences are stated as operators but not run; to see one, let it be the
`INVARIANT` of the configuration named, with the constants given. They limit what the passing runs claim.

| Operator | Configuration | What happens |
|---|---|---|
| `SyncPipeline!RecoveredWithTxs` | `PipelineCrash` | The replay stores blocks without their transactions (`BootstrapEventHandler.java:87`); the comment at `ConsistencyService.java:92` says with them. |
| `SyncPipeline!RedisRecovered` | `PipelineCrash` | Redis is not compared at start-up (`ConsistencyService.java:87`; its javadoc at :50 says it is). |
| `SyncPipeline!TxQtyExact` | `PipelineFail` | A retried block adds its transactions again (`CollectionEventHandler.java:110`, `PPOSService.java:151`). |
| `EpochSwitch!CurrentValidatorsExact` | `EpochSwitch` | The chain enters the next epoch between two requests (`EpochRetryService.java:109`, `:130`). |
| `EpochSwitch!OneRatePerYear` | `EpochSwitch` | A crash around the switch to a new issue year appends its rate twice (`EpochRetryService.java:256`). |
| `GasEstimate!CountedOnce` | `GasEstimate` | A crash between update and deletion, or a rollback after the publication, counts a settlement twice: only the last sequence number is remembered, in memory (`GasEstimateEventHandler.java:47`). |
| `Staking!EndFollowsChain` | `Staking` with `Nodes = {1, 2, 3}`, `MaxSlashed = 2` | All nodes that exit at one election get the end block of the last (`OnElectionAnalyzer.java:179`). |
| `Staking!AmountsFollowChain` | `Staking` with `FaultsAnywhere = TRUE` | A retried increase or exit is applied twice: the retry lists the block's transactions again (`PPOSService.java:115`). |
| `Delegation!NotCountedTwice` | `Delegation` | The same of a delegation: the amount is added twice (`DelegateCreateMapper.xml:37`), and a full refund takes its delegator off twice (`DelegateExitMapper.xml:16`). The guard against the retry at `PPOSService.java:151` covers the statistics only. |
| `GasEstimate!RowsOfAllDelegators` | `GasEstimate` | A refund of a part, analysed twice in a retried block, may leave less than the threshold (`DelegateExitAnalyzer.java:129`-`133`): the estimate is deleted (:239-245) though the delegation goes on. |
| `Staking!ReductionFollowsChain` | `Staking` | A node penalised while it leaves gets its reduction from columns that are zero already. |
| `Staking!ExitedFinal` (as `PROPERTY`) | `Staking` with `Reportable = {"candidate", "leaving"}`, `MaxBlock = 16` | A leaving node that is reported may have exited by the switch; the slash makes its row active again. |
| `Delegation!SplitAgrees` | `Delegation` | With too little free stake everything comes off the locked total (`DelegateExitAnalyzer.java:176`): free and locked totals drift apart, their sum does not. |
| `Delegation!ReleasedSums` | `Delegation` with `PunishLeaving = TRUE` | The released total of a staking punished while leaving is set anew (`EpochElectionMapper.xml:102`), against its comment. |

For the same reason `Staking` strikes with an exception only where the code
survives it (`Repeatable`, `Quiet`, unless `FaultsAnywhere`), and `Consensus`
waits for ever on a duplicate report (`NoDuplicate`), as the handler does.

## 4. What is proved

Every safety invariant and every action property of the passing runs, and the
refinement, for all values of the constants that satisfy the assumptions named in
the modules (`BoundsAssumption`, `ContentAssumption`, `ConfigAssumption`;
`EpochBounds`, `PeriodAssumption`, `YearAssumption`; `StakingBounds`,
`PeriodAssumption` of `Staking`; `DelegationAssumption`;
`GovernanceAssumption`; `GasAssumption`): any chain, periods, rings, batches,
amounts, numbers of nodes, parameters and delegators, and any number of
crashes and failures. The assumptions are about types, but for two that are about
periods. An epoch consists of consensus rounds: `BlockChainConfig.java:398`
computes it as a multiple. And in `Staking` an election is not the last
block of its round and a freeze outlasts two rounds, as on every PlatON
network; with a shorter freeze a reported node could be gone from the chain
before it has left the validators.

| Module | Theorem | States | Provided that |
|---|---|---|---|
| `SyncPipelineProofs` | `TypeCorrect` | `TypeOK` | |
| `SyncPipelineSafety` | `PipelineInvariant` | `PipelineInv` | |
| | `PrefixClosed`, `AtMostOneAhead`, `NoBlockLost`, `RedisNeverAhead` | the four orderings between the stores | |
| | `ImplementsLedger` | `LedgerSpec` | |
| | `NoTransactionUncounted` | `TxQtyNeverShort` | |
| | `TransactionsCountedOnce` | `TxQtyExact` | no handler throws (`MaxFail = 0`) |
| | `IdsAreOfOneBlock` | `OptIdsAgree` | none throws, or the process does not die |
| | `ReplayIsPossible` | `UnindexedOptsBackedUp` | |
| `EpochSwitchProofs` | `SwitchTypeCorrect`, `EpochsRecordedOnce` | types; `BlockNodeOnce` | |
| | `PreviousListsOfTheEpoch`, `RewardsAreTheEpochs` | `PreviousListsExact`, `RewardsOfTheirEpoch` | |
| | `RowHasItsYears`, `CurrentListsInTime` | `RowNotBehind`, `CurrentListsNotOld` | |
| `StakingProofs` | `StakingsTyped` | `TypeOK` | |
| | `StakingRowsAgree`, `StakingOneAmount`, `StakingRowsFollow` | `NodeRowsAgree`, `OneAmount`, `RowFollowsChain` | `Survivable` |
| | `ReportsPunishedInTime`, `ExitedStaysExited` | `PunishedAtSwitch`; the action property `ExitedFinal` | `Survivable` |
| `DelegationProofs` | `DelegationsTyped`, `EndedAreKept` | types; the action property `EndedKept` | |
| | `RowsAreTheChain` | `RowsFollowChain` | |
| | `HeldTotalsAgree` | `StakingSums` | |
| | `AllTotalsAgree` | `TotalsAgree` | no leaving staking is punished (`PunishLeaving = FALSE`) |
| | `DelegatorsAreCounted` | `ValidAddrs` | `Threshold > 0` |
| `GovernanceProofs` | `GovernanceTyped`, `MemoryFollowsTable`, `SumsAreVotes` | types; `MemoryIsTable`; `SumsMatchVotes` | |
| | `PunishedVotesAreOut` | `PunishedVotesOut` | |
| | `ParametersFollowChain` | `ConfigInWindow` | a vote lasts an epoch at least |
| `GasEstimateProofs` | `EstimatesTyped`, `NoSettlementLost`, `EstimatesNeverLow` | types; `NothingUncounted`; `NeverTooLow` | |
| | `RowsAreTheDelegators` | `RowsOfDelegators` | |

The conditions in the last column are no conveniences of a proof. Those on
failures, `PunishLeaving` and all of `Survivable` exclude what the code does
wrong: without them the properties are false, as the tables of differences in
section 3 show. So do `exact` and `off`, which are part of the state and of the
properties of `Delegation` and `GasEstimate`: a retry may strike anywhere, and
the theorems say what holds before and what after it has counted a transaction
twice. `Survivable` says that no fault strikes while a report is in
the block or waits in memory (the report is lost) and no exception a block with
an increase or an exit (it is counted twice), that the chain takes reports of
candidates only (a node reported while it leaves is made active again), and
that one node at the most falls short at an election (all that exit share an end
block). The vote of a parameter proposal lasts an epoch or
longer in every configuration of the repository
(`BlockChainConfigTest.java:31` to `:50`: 160 blocks of both); if it were shorter,
two proposals on one parameter could become active in the same block, and the
table would take them in the order of the cache. With no threshold a delegation could
be live and empty.

Arguments.

`SyncPipeline`. None of the four orderings is inductive: a state in which the rings
hold blocks out of order satisfies them and the next import breaks them. The
invariant says where every block is. The first two rings hold consecutive
numbers that start right after MySQL's height (`RingsConsecutive`); each block
in the last two rings, in the stage and in ES has all its predecessors before
it on the way or in ES (`PredecessorsFirst`); finished blocks are on the way or
in ES, and no block is further than the one in progress (`FinishedKept`); the
import in progress belongs to the stage, and once its block save is done ES
holds the batch (`ImportOwned`), which is what lets the stage be emptied and
Redis be filled. During start-up the pipeline is empty (`PipelineCold`) and the
replay goes through the gap in order (`BootInOrder`), so that `ConsistencyCheck`
hands over a prefix that reaches MySQL's height. There is one lemma per action;
lemmas on rings (`RingAppend`, `RingTail`) and on `Ordered` carry the
sequences. The refinement maps `committed` to `db.cur` and `searchable` to
`esBlock`: each step commits one block, indexes some, or stutters.

What is counted. `CountInv`: memory has counted the block in progress once
the check against the previous block has let it pass, and is never behind the
row, so that a commit never saves too little. Without exceptions the counters
are exact between two commits (`ExactInv`), and then the ids of a block's
operations are the ones between the totals before and after it
(`OptsPlaced`), whoever hands them out again. Without crashes no id is handed
out twice, since the sequence in memory only grows (`AgreeInv`).
`BackupInv`: backups that may be deleted belong to blocks that ES has,
because the mark the import sets is behind every operation still on its way; a
committed block has had as many rows as it has operations, and keeps them
until it is indexed.

`EpochSwitch`. `RecordInv`: `block_node` has a batch for each epoch up to the
last block committed, published or in work, and the number cached by the main
thread is that of the table. `PreviousInv` and `RewardInv` say what the lists
and rewards in memory are at each point of a change: a retry enters it again
with what the attempt before has assigned. The previous lists are always
asked for by number, never copied from the current ones; the rewards are copied,
but a change that fails leaves `stake` as it was, so that a second rotation
copies the same. `RowInv`: the shared object has the rate of every year up to the
block in work, and neither rates nor rewards are taken back while messages are
on their way, so that the row saved with a block is not behind it, whichever
moment of the object the collection thread saves. `CurrentInv`: an answer that
is not empty is at most the lag older than the block it was asked for.

`Staking`. The chain's record of a node and the node's rows are moved by
different steps: the chain in one, the tables handler by handler, over rows in an
order the database chooses. `FollowInv` relates them in between: while block B is in
work, with C the chain's records before it, the tables at each place of the
block have, for every node, what C becomes by the steps of B done so far
(`Reached`, `At`); the committed tables still follow C (`Underway`), so that
a rollback is a return to the first place. `Match` says what a row is
for each standing; a candidate that was reported has its own case, in which the
row is marked, the report is in the queue in memory and nothing else has
happened, until the consensus switch finds the node gone from the validators. That it is gone
after one more round at the latest is `InTime`: a reported node is never
elected again, and a locked one has left the validators before the next election
comes (`NoMore`), so that no election penalises it. `Sane` is what the chain owes (a candidate has the
threshold, locked stake is zero only in the epoch of the creation). The handlers are
folds. `FoldSteps` turns a fold into the sequence of tables it goes through
and `FoldNodes` shows that a list with one element per node acts on each
node as if the node were alone, in whatever order; the reports waiting
(`PendingIs`) and the rows selected are such lists. What is left are lemmas
about one row and one record (`LockMatches`, `SlashMatches`,
`SettleMatches`, ...), where the amounts are compared.

`Delegation`. A block analyses its transaction any number of times, so the
argument is about one analysis. `Sound` says of tables, whatever the chain has:
rows are typed; a row that is history is empty; a delegation has a released part only once its
staking has ended, and then has no other; the totals are the sums. One analysis of
a delegation, a refund or an exit takes sound tables to sound ones
(`AddedSound`, `TakenSound`, `ExitedSound`), since it moves one summand and
the total by the same; by induction over the list any number does
(`AnalysedReady`), and so the sums need no assumption on failures. The rows are what
the chain has (`RowsAreOwed`) while each transaction is analysed once: the three ways
of refunding (released, free, free and locked) then come to what the chain pays.
`TaskInv`: what the task is about to delete, it has stored; a row of history is
empty, so that deleting it leaves the amounts alone. The released totals agree while no
leaving staking is punished, and the node's totals are those of its last
staking and of the ended ones. `ValidInv`: as long as
`exact` holds, a row that is not history owes something, hence the delegators
with a live row are those the chain counts.

`Governance`. `ParamsInv`: memory differs from the table only while a block
that rotates is in work, and then the block, retried, still rotates. That needs
two facts about the chain: the cache only grows, and a proposal in
force stays in force (`TallyStays`), as the cancellation of a proposal ends before the
vote on it does. `Sound` relates `proposal` and `vote` to the first blocks of
the chain, in the committed tables and in the transaction's, one block apart after its last
step; a node votes once on a proposal, so that a vote is a new row
and adds one (`VoteSound`), and taking votes back subtracts what it invalidates
(`WithoutVotesSound`). `PunishInv`: a row that has left `VOTING` has ended on
the chain or is in `early`, so that a punishment reaches every vote
that could still matter, and a node punished does not vote again (`VotingInv`).
`WindowInv`: the cache has every collected proposal with an active block; the
chain votes on one parameter proposal at a time (`VotingInv`), hence one becomes
active per block, and the rotation in that block brings the table to the chain's value.

`GasEstimate`. `NeverTooLow` is not inductive: the handler may count a
settlement whose block is not committed yet, and is one ahead then (`Early`)
until the commit. The invariant adds this to what the log still owes. A
transaction sets its delegator's row to zero, deletes it or leaves it as it is, however
often it is analysed, and the truth is zero or none then; so the bound needs no assumption on
failures. `RowsOfDelegators` is inductive with what the open
transaction has written (`GasInv`): only an analysis that puts its delegator in
`off` can part row and truth.

Induction. Sums (`SumFunctionOnSet`) and folds (`FoldLeft`) of the community
modules are recursive functions, of which the provers know only that they are
chosen. The library's induction theorems take a predicate and cannot be
instantiated, so `Induction` derives the form for a set
(`NatSet`) from the well-foundedness of the order on the natural numbers, and
from it that the recursive function exists and is unique (`RecursExists`,
`RecursUnique`), hence what a sum becomes when an element is added, left
out or changed (`SumPut`, `SumWithout`, `SumSame`). `FoldExists` does the same for
the folds of `Staking`, `ListsExist` for the list of analyses of `Delegation`.

Only model-checked: liveness (`EventuallyCommitted`, `EventuallyIndexed`,
`EventuallyCounted`, `HistoryMigrates`, `StatusSettles`), since fairness
and `ENABLED` are out of the prover's reach.

## 5. What is left out, and the plan

`PROJECT.json` lists every component with its status, and the hazards, those no
property covers with the reason. Left out for good: `scan-api` and `scan-export`
(reads and formatting), generated data access code, decoding of transactions,
the one-off adjustments of the versions 0.15.0 to 0.16.0, and the minified
API documentation page in `docs/static` with its copy under `scan-api/out`.

Not modelled, and worth it next:

1. Node, address and TPS caches between a failing block and the tasks that flush them.
2. ERC tokens: `ErcTokenUpdateTask` beside the collection thread on one table.
3. Trimming of the Redis sets, cursors of `scan-job`, the change of the node by `RetryableClient`.
4. Proofs: which part of `Survivable` each theorem of `Staking` needs; abstract
   specifications of the business tables (a ledger of stakings, of delegations,
   of votes) that the four modules implement, proved by their invariants.
