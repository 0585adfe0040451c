---------------------------- MODULE SyncPipeline ----------------------------
(***************************************************************************)
(* The block synchronisation agent (scan-agent): how a block travels from  *)
(* the chain into MySQL, Elasticsearch and Redis, and what a restart does. *)
(*                                                                         *)
(*   main loop -> block ring -> BlockEventHandler -> collection ring       *)
(*     -> CollectionEventHandler (one MySQL transaction per block)         *)
(*     -> complement ring -> ComplementEventHandler -> persistence ring    *)
(*     -> PersistenceEventHandler (batches into ES, then Redis)            *)
(*                                                                         *)
(* Each ring is an LMAX disruptor with one handler thread; publishing to a *)
(* full ring blocks, and an event keeps its slot until its handler returns.*)
(* Start-up compares ES with MySQL (ConsistencyService) and re-imports the *)
(* missing blocks through a ring of its own before the main loop begins.   *)
(*                                                                         *)
(* Data is abstracted: a block is its number, its transactions are a count,*)
(* every transaction yields one node operation, and an operation is the id *)
(* it was given and the block it belongs to.                               *)
(***************************************************************************)
EXTENDS Integers, Sequences, FiniteSets, Functions

CONSTANTS
  MaxBlock,         \* last block the chain produces (bound)
  TxCount,          \* TxCount[b]: transactions of block b
  EpochOpts,        \* EpochOpts[b]: node operations b's epoch events produce
  BufferSize,       \* slots of each ring
  NotCatchupBatch,  \* blocks per import while behind the chain
  CatchupBatch,     \* blocks per import once caught up
  GapForAdjust,     \* distance to the chain head that counts as caught up
  DeleteEvery,      \* commits between two clean-ups of the backup tables
  MaxCrash,         \* bound on process crashes
  MaxFail           \* bound on exceptions thrown inside handlers

Blocks == 0..MaxBlock

ASSUME BoundsAssumption ==
  /\ MaxBlock \in Nat
  /\ MaxCrash \in Nat
  /\ MaxFail \in Nat
ASSUME ContentAssumption ==
  /\ TxCount \in [Blocks -> Nat]
  /\ EpochOpts \in [Blocks -> Nat]
  /\ TxCount[0] = 0 /\ EpochOpts[0] = 0   \* the genesis block carries neither
ASSUME ConfigAssumption ==
  /\ BufferSize \in Nat \ {0}
  /\ NotCatchupBatch \in Nat \ {0}
  /\ CatchupBatch \in Nat \ {0}
  /\ GapForAdjust \in Nat
  /\ DeleteEvery \in Nat \ {0}

Kind == {"tx", "opt"}             \* what is numbered and backed up
EsIndex == {"block", "tx", "opt"} \* ES saves that run in parallel
RedisKey == {"block", "tx"}       \* Redis saves that run in parallel

VARIABLES
  chainHead,     \* highest block the chain has produced
  main,          \* where the main thread is
  collected,     \* highest block number the main loop has requested
  boot,          \* the range start-up re-imports, and its completion flag
  bootRing,      \* numbers of the blocks waiting for BootstrapEventHandler
  blockRing,     \* numbers of the blocks waiting for BlockEventHandler
  collRing,      \* numbers of the blocks waiting for CollectionEventHandler
  compRing,      \* events waiting for ComplementEventHandler
  persRing,      \* events waiting for PersistenceEventHandler
  mem,           \* NetworkStatCache: transaction count, operation sequence
  txId,          \* CollectionEventHandler.transactionId
  txTop,         \* largest id among the transactions of a block's list, 0: none
  preBlock,      \* PPOSService.preBlockNumber
  listed,        \* entries in the transaction list of the block at the head
  nulled,        \* PersistenceEventHandler set that block's list to null
  col,           \* the collection thread: pc, event published, ids deleted
  delCount,      \* commits since the last clean-up, per backup table
  bakMax,        \* BakDataDeleteUtil: ids up to this one are deletable
  stage,         \* the staging sets of PersistenceEventHandler
  imp,           \* the import EsImportService/RedisImportService is running
  batchSize,     \* DisruptorConfig.persistenceBatchSize
  maxBlockNumber,\* PersistenceEventHandler.maxBlockNumber
  db,            \* the network_stat row of MySQL
  bak,           \* the rows of tx_bak and n_opt_bak
  esBlock, esTx, esOpt,   \* documents in the ES indices
  redisBlock, redisTx,    \* entries of the Redis lists
  crashes, fails \* how many crashes and exceptions have happened (bounds)

memory == <<collected, boot, bootRing, blockRing, collRing, compRing, persRing,
            mem, txId, txTop, preBlock, listed, nulled, col, delCount, bakMax, stage,
            imp, batchSize, maxBlockNumber>>
store == <<db, bak, esBlock, esTx, esOpt, redisBlock, redisTx>>
esVars == <<esBlock, esTx, esOpt>>
redisVars == <<redisBlock, redisTx>>
collVars == <<collRing, mem, txId, txTop, preBlock, listed, nulled, col, delCount, db, bak>>
bootVars == <<boot, bootRing>>
persVars == <<bakMax, stage, imp, maxBlockNumber>>
env == <<chainHead, crashes, fails>>

vars == <<chainHead, main, memory, store, crashes, fails>>

-----------------------------------------------------------------------------
(* Values *)

\* A complement or persistence event: its block, and the ids of its operations.
Event == [blk : Blocks, optLo : Nat, optHi : Nat]
NoEvent == [blk |-> 0, optLo |-> 1, optHi |-> 0]

Row == [id : Nat, blk : Blocks]
RowsOf(ids, b) == {[id |-> i, blk |-> b] : i \in ids}
OptRows(ev) == RowsOf(ev.optLo .. ev.optHi, ev.blk)

\* `replace into` and the ES index both overwrite the row that has the id.
Replace(old, new) == {r \in old : \A n \in new : n.id # r.id} \cup new

\* The largest id in a set of rows, 0 when there is none.
MaxIds(rows) == {m \in {0} \cup {r.id : r \in rows} : \A r \in rows : r.id =< m}

EmptyStage == [blks |-> {}, size |-> 0, opts |-> {}]
NoImport == [phase |-> "none", who |-> "pers", todo |-> {},
             blks |-> {}, txs |-> {}, opts |-> {}]

\* The process's memory when it starts: rings empty, counters zero.
MemoryCleared ==
  /\ boot' = [next |-> 0, end |-> 0, done |-> FALSE]
  /\ bootRing' = <<>> /\ blockRing' = <<>> /\ collRing' = <<>>
  /\ compRing' = <<>> /\ persRing' = <<>>
  /\ txId' = 0 /\ txTop' = [b \in Blocks |-> 0] /\ preBlock' = 0 /\ listed' = 0 /\ nulled' = FALSE
  /\ col' = [pc |-> "idle", ev |-> NoEvent, del |-> [k \in Kind |-> 0]]
  /\ delCount' = [k \in Kind |-> 0]
  /\ bakMax' = [k \in Kind |-> 0]
  /\ stage' = EmptyStage /\ imp' = NoImport
  /\ batchSize' = NotCatchupBatch /\ maxBlockNumber' = 0

Init ==
  /\ chainHead = 0
  /\ main = "down" /\ collected = -1
  /\ boot = [next |-> 0, end |-> 0, done |-> FALSE]
  /\ bootRing = <<>> /\ blockRing = <<>> /\ collRing = <<>>
  /\ compRing = <<>> /\ persRing = <<>>
  /\ mem = [txQty |-> 0, optSeq |-> 0]
  /\ txId = 0 /\ txTop = [b \in Blocks |-> 0] /\ preBlock = 0 /\ listed = 0 /\ nulled = FALSE
  /\ col = [pc |-> "idle", ev |-> NoEvent, del |-> [k \in Kind |-> 0]]
  /\ delCount = [k \in Kind |-> 0]
  /\ bakMax = [k \in Kind |-> 0]
  /\ stage = EmptyStage /\ imp = NoImport
  /\ batchSize = NotCatchupBatch /\ maxBlockNumber = 0
  /\ db = [cur |-> -1, txQty |-> 0, optSeq |-> 0]
  /\ bak = [k \in Kind |-> {}]
  /\ esBlock = {} /\ esTx = {} /\ esOpt = {}
  /\ redisBlock = {} /\ redisTx = {}
  /\ crashes = 0 /\ fails = 0

-----------------------------------------------------------------------------
(* The chain, and the life of the process *)

ChainGrow ==
  /\ chainHead < MaxBlock
  /\ chainHead' = chainHead + 1
  /\ UNCHANGED <<main, memory, store, crashes, fails>>

\* Variant: the counters of the previous life are kept.
LoadedStatKept == mem

\* NetworkStatCache.init: the counters continue from the row in MySQL.
LoadedStat == [txQty |-> db.txQty, optSeq |-> db.optSeq]

\* AgentApplication.run up to the consistency check: InitializationService
\* loads the network_stat row, or inserts it with height -1 on a first start.
Start ==
  /\ main = "down"
  /\ main' = "check"
  /\ collected' = db.cur
  /\ mem' = LoadedStat
  /\ UNCHANGED <<env, store, bootVars, blockRing, collRing, compRing, persRing,
                 txId, txTop, preBlock, listed, nulled, col, delCount, persVars,
                 batchSize>>

\* Variant: ES is trusted to be as far as MySQL.
EsMaxBlockTrusted(n) == n = db.cur

\* The walk down from the MySQL height ends at n: the highest block the ES
\* index holds, or 0, which is not looked up.
EsMaxBlockIs(n) ==
  /\ n \in esBlock \/ n = 0
  /\ \A m \in esBlock : m =< db.cur => m =< n

StartBlock(n) == n + 1

\* ConsistencyService.post: nothing to do, or the range to re-import.
ConsistencyCheck ==
  /\ main = "check"
  /\ \/ /\ db.cur < 0
        /\ main' = "loop" /\ UNCHANGED boot
     \/ \E n \in 0..db.cur :
          /\ EsMaxBlockIs(n)
          /\ IF n = db.cur
               THEN main' = "loop" /\ UNCHANGED boot
               ELSE /\ main' = "fill"
                    /\ boot' = [next |-> StartBlock(n), end |-> db.cur, done |-> FALSE]
  /\ UNCHANGED <<env, collected, bootRing, blockRing, compRing, persRing, collVars,
                 persVars, batchSize, esVars, redisVars>>

BootstrapPublish ==
  /\ main = "fill"
  /\ boot.next =< boot.end
  /\ Len(bootRing) < BufferSize
  /\ bootRing' = Append(bootRing, boot.next)
  /\ boot' = [boot EXCEPT !.next = @ + 1]
  /\ UNCHANGED <<env, main, collected, blockRing, compRing, persRing, collVars,
                 persVars, batchSize, esVars, redisVars>>

\* The wait for shutdownCallback.isDone; then the agent is RUNNING.
BootstrapFinish ==
  /\ main = "fill"
  /\ boot.next > boot.end
  /\ boot.done
  /\ main' = "loop"
  /\ UNCHANGED <<env, memory, store>>

\* Variant: the chain height is not awaited.
ChainHasUnchecked(n) == n \in Nat

\* Variant: off by one, the head of the chain is not requested.
ChainHasSuccessor(n) == n < chainHead

\* BlockRetryService.checkBlockNumber returns once the chain has the block.
ChainHas(n) == n =< chainHead

\* One round of the main loop: wait for the chain, request the block, publish.
Collect ==
  /\ main = "loop"
  /\ ChainHas(collected + 1)
  /\ Len(blockRing) < BufferSize
  /\ collected' = collected + 1
  /\ blockRing' = Append(blockRing, collected + 1)
  /\ UNCHANGED <<env, main, bootVars, compRing, persRing, collVars, persVars,
                 batchSize, esVars, redisVars>>

\* An exception in the round (epoch query, publish): the loop breaks for good,
\* while the handler threads and the RUNNING status stay.
MainLoopBreak ==
  /\ main = "loop"
  /\ fails < MaxFail
  /\ main' = "stopped"
  /\ fails' = fails + 1
  /\ UNCHANGED <<chainHead, memory, store, crashes>>

\* The process dies: all it held in memory is lost, an open MySQL transaction
\* is rolled back, the stores keep what was written.
Crash ==
  /\ main # "down"
  /\ crashes < MaxCrash
  /\ crashes' = crashes + 1
  /\ main' = "down"
  /\ MemoryCleared
  /\ UNCHANGED <<chainHead, collected, mem, store, fails>>

-----------------------------------------------------------------------------
(* BlockEventHandler *)

BlockHandle ==
  /\ blockRing # <<>>
  /\ Len(collRing) < BufferSize
  /\ collRing' = Append(collRing, Head(blockRing))
  /\ blockRing' = Tail(blockRing)
  /\ UNCHANGED <<env, main, collected, bootVars, compRing, persRing, mem, txId,
                 txTop, preBlock, listed, nulled, col, delCount, db, bak, persVars,
                 batchSize, esVars, redisVars>>

-----------------------------------------------------------------------------
(* CollectionEventHandler.  One attempt at the block at the head of the     *)
(* ring; an attempt that fails is retried on the same event, whose          *)
(* transaction list keeps what earlier attempts appended to it.             *)

\* The handler may begin an attempt: the raw transactions are appended to the
\* block's list, which must still be there.
Attempting(b) ==
  /\ collRing # <<>>
  /\ b = Head(collRing)
  /\ col.pc = "idle"
  /\ nulled => TxCount[b] = 0

AllTx(b) == listed + TxCount[b]
TxIdBase == IF txId = 0 THEN mem.txQty ELSE txId
OptsOf(b) == EpochOpts[b] + AllTx(b)

\* Variant: the guard also skips the successor of the block counted last.
TxQtyAfterSkips(b) == IF b =< preBlock + 1 THEN mem.txQty ELSE mem.txQty + AllTx(b)

\* NetworkStatCache.updateByBlock, behind PPOSService's guard against a
\* block it has already counted; the genesis block is not analysed.
TxQtyAfter(b) == IF b = 0 \/ preBlock = b THEN mem.txQty ELSE mem.txQty + AllTx(b)
PreBlockAfter(b) == IF b = 0 THEN preBlock ELSE b

\* Every entry of the list, old or new, is given the next id.
Numbered(b) ==
  /\ listed' = AllTx(b)
  /\ txId' = TxIdBase + AllTx(b)
  /\ txTop' = [txTop EXCEPT ![b] = IF AllTx(b) = 0 THEN 0 ELSE TxIdBase + AllTx(b)]

AttemptEvent(b) ==
  [blk |-> b, optLo |-> mem.optSeq + 1, optHi |-> mem.optSeq + OptsOf(b)]

\* The attempt runs up to and including the publication to the complement
\* ring: analysis done, MySQL statements issued, nothing committed.
CollectPublish ==
  \E b \in Blocks :
    /\ Attempting(b)
    /\ Len(compRing) < BufferSize
    /\ Numbered(b)
    /\ mem' = [txQty |-> TxQtyAfter(b), optSeq |-> mem.optSeq + OptsOf(b)]
    /\ preBlock' = PreBlockAfter(b)
    /\ compRing' = Append(compRing, AttemptEvent(b))
    /\ col' = [col EXCEPT !.pc = "published", !.ev = AttemptEvent(b)]
    /\ UNCHANGED <<env, main, collected, bootVars, blockRing, collRing, persRing,
                   nulled, delCount, db, bak, persVars, batchSize, esVars, redisVars>>

\* The rest of the attempt: backup rows are deleted every DeleteEvery-th time
\* and inserted, then the event drops its references.
CollectWrite ==
  /\ col.pc = "published"
  /\ delCount' = [k \in Kind |-> IF delCount[k] + 1 >= DeleteEvery THEN 0
                                 ELSE delCount[k] + 1]
  /\ col' = [col EXCEPT !.pc = "written",
                        !.del = [k \in Kind |-> IF delCount[k] + 1 >= DeleteEvery
                                                THEN bakMax[k] ELSE 0]]
  /\ UNCHANGED <<env, main, collected, bootVars, blockRing, collRing, compRing,
                 persRing, mem, txId, txTop, preBlock, listed, nulled, db, bak,
                 persVars, batchSize, esVars, redisVars>>

\* The backup rows of the block being committed.
NewRows(k) ==
  LET b == col.ev.blk
  IN IF k = "opt" THEN OptRows(col.ev)
     ELSE RowsOf({i \in 1..txTop[b] : i > txTop[b] - listed}, b)

\* Variant: an empty block does not advance the height.
StatRowBusyOnly(b) ==
  IF TxCount[b] = 0 THEN db
  ELSE [cur |-> b, txQty |-> mem.txQty, optSeq |-> mem.optSeq]

\* Variant: the operation sequence is not written back.
StatRowNoOptSeq(b) ==
  IF b = 0 THEN db ELSE [cur |-> b, txQty |-> mem.txQty, optSeq |-> db.optSeq]

\* The network_stat row the statistics step writes; the genesis block does not
\* reach it.
StatRow(b) == IF b = 0 THEN db
              ELSE [cur |-> b, txQty |-> mem.txQty, optSeq |-> mem.optSeq]

CollectCommit ==
  /\ collRing # <<>> /\ col.pc = "written"
  /\ db' = StatRow(col.ev.blk)
  /\ bak' = [k \in Kind |-> Replace({r \in bak[k] : r.id > col.del[k]}, NewRows(k))]
  /\ collRing' = Tail(collRing)
  /\ listed' = 0 /\ nulled' = FALSE
  /\ col' = [pc |-> "idle", ev |-> NoEvent, del |-> [k \in Kind |-> 0]]
  /\ UNCHANGED <<env, main, collected, bootVars, blockRing, compRing, persRing,
                 mem, txId, txTop, preBlock, delCount, persVars, batchSize, esVars, redisVars>>

\* An exception while the raw transactions are parsed: j of them were appended.
CollectFailParse ==
  /\ fails < MaxFail
  /\ \E b \in Blocks :
       /\ Attempting(b)
       /\ \E j \in 0..TxCount[b] : listed' = listed + j
  /\ fails' = fails + 1
  /\ UNCHANGED <<chainHead, crashes, main, collected, bootVars, blockRing, collRing,
                 compRing, persRing, mem, txId, txTop, preBlock, nulled, col, delCount,
                 db, bak, persVars, batchSize, esVars, redisVars>>

\* Variant: without the retry the ring moves on after a failed attempt.
CollectFailAnalyseSkips ==
  /\ fails < MaxFail
  /\ \E b \in Blocks : Attempting(b) /\ Numbered(b)
  /\ collRing' = Tail(collRing)
  /\ fails' = fails + 1
  /\ UNCHANGED <<chainHead, crashes, main, collected, bootVars, blockRing, mem,
                 compRing, persRing, preBlock, nulled, col, delCount,
                 db, bak, persVars, batchSize, esVars, redisVars>>

\* An exception while the block is analysed: transaction ids and some of the
\* operation ids have been handed out, the block has not been counted.
CollectFailAnalyse ==
  /\ fails < MaxFail
  /\ \E b \in Blocks :
       /\ Attempting(b)
       /\ Numbered(b)
       /\ \E o \in 0..OptsOf(b) : mem' = [mem EXCEPT !.optSeq = @ + o]
  /\ fails' = fails + 1
  /\ UNCHANGED <<chainHead, crashes, main, collected, bootVars, blockRing, collRing,
                 compRing, persRing, preBlock, nulled, col, delCount,
                 db, bak, persVars, batchSize, esVars, redisVars>>

\* An exception in the statistics step: the block is already counted in memory.
CollectFailStatistic ==
  /\ fails < MaxFail
  /\ \E b \in Blocks :
       /\ Attempting(b)
       /\ Numbered(b)
       /\ mem' = [txQty |-> TxQtyAfter(b), optSeq |-> mem.optSeq + OptsOf(b)]
       /\ preBlock' = PreBlockAfter(b)
  /\ fails' = fails + 1
  /\ UNCHANGED <<chainHead, crashes, main, collected, bootVars, blockRing, collRing,
                 compRing, persRing, nulled, col, delCount,
                 db, bak, persVars, batchSize, esVars, redisVars>>

\* An exception in a backup statement: the transaction rolls back, the event
\* published downstream stays; a counter whose delete had run is reset.
CollectFailWrite ==
  /\ fails < MaxFail
  /\ col.pc = "published"
  /\ \E ran \in {{}, {"tx"}, Kind} :
       delCount' = [k \in Kind |-> IF k \in ran /\ delCount[k] + 1 >= DeleteEvery
                                   THEN 0 ELSE delCount[k] + 1]
  /\ col' = [pc |-> "idle", ev |-> NoEvent, del |-> [k \in Kind |-> 0]]
  /\ fails' = fails + 1
  /\ UNCHANGED <<chainHead, crashes, main, collected, bootVars, blockRing, collRing,
                 compRing, persRing, mem, txId, txTop, preBlock, listed, nulled,
                 db, bak, persVars, batchSize, esVars, redisVars>>

\* The commit itself fails: the event has dropped its block, so that every
\* retry ends in a null pointer and the thread spins on this event.
CollectFailCommit ==
  /\ fails < MaxFail
  /\ col.pc = "written"
  /\ col' = [pc |-> "released", ev |-> NoEvent, del |-> [k \in Kind |-> 0]]
  /\ fails' = fails + 1
  /\ UNCHANGED <<chainHead, crashes, main, collected, bootVars, blockRing, collRing,
                 compRing, persRing, mem, txId, txTop, preBlock, listed, nulled, delCount,
                 db, bak, persVars, batchSize, esVars, redisVars>>

-----------------------------------------------------------------------------
(* ComplementEventHandler *)

ComplementHandle ==
  /\ compRing # <<>>
  /\ Len(persRing) < BufferSize
  /\ persRing' = Append(persRing, Head(compRing))
  /\ compRing' = Tail(compRing)
  /\ UNCHANGED <<env, main, collected, bootVars, blockRing, collVars, persVars,
                 batchSize, esVars, redisVars>>

-----------------------------------------------------------------------------
(* PersistenceEventHandler *)

\* The event joins the staging sets.  A block staged a second time is the same
\* object with its list nulled since, hence another hash: it may count twice.
StagedWith(ev, s) ==
  /\ s.blks = stage.blks \cup {ev.blk}
  /\ s.opts = stage.opts \cup OptRows(ev)
  /\ IF ev.blk \in stage.blks THEN s.size \in {stage.size, stage.size + 1}
     ELSE s.size = stage.size + 1

Stages == [blks : {stage.blks \cup {Head(persRing).blk}},
           size : {stage.size, stage.size + 1},
           opts : {stage.opts \cup OptRows(Head(persRing))}]

\* Variant: off by one, the batch is full one block later.
BatchFullLate(s) == s.size > batchSize

BatchFull(s) == s.size >= batchSize

\* Setting the list to null reaches the block the collection thread still holds.
ListNulled(ev) == nulled \/ (collRing # <<>> /\ Head(collRing) = ev.blk)

\* Fewer blocks than the batch size: the event is done.
PersistStage ==
  /\ persRing # <<>> /\ imp.phase = "none"
  /\ \E s \in Stages : StagedWith(Head(persRing), s) /\ ~BatchFull(s) /\ stage' = s
  /\ nulled' = ListNulled(Head(persRing))
  /\ maxBlockNumber' = Head(persRing).blk
  /\ persRing' = Tail(persRing)
  /\ UNCHANGED <<env, main, collected, bootVars, blockRing, collRing, compRing, mem,
                 txId, txTop, preBlock, listed, col, delCount, db, bak, bakMax, imp,
                 batchSize, esVars, redisVars>>

\* The batch is full: EsImportService.batchImport starts its parallel saves.
PersistFlush ==
  /\ persRing # <<>> /\ imp.phase = "none"
  /\ \E s \in Stages :
       /\ StagedWith(Head(persRing), s)
       /\ BatchFull(s)
       /\ stage' = s
       /\ imp' = [phase |-> "es", who |-> "pers", todo |-> EsIndex, blks |-> s.blks,
                  txs |-> {b \in s.blks : TxCount[b] > 0}, opts |-> s.opts]
  /\ nulled' = ListNulled(Head(persRing))
  /\ UNCHANGED <<env, main, collected, bootVars, blockRing, collRing, compRing, persRing,
                 mem, txId, txTop, preBlock, listed, col, delCount, db, bak, bakMax,
                 maxBlockNumber, batchSize, esVars, redisVars>>

\* Variant: every id handed out so far counts as used.
UsedOptIdAll(ev) == mem.optSeq

\* The operation id up to which backups are used: the first of the last block.
UsedOptId(ev) == IF ev.optLo > ev.optHi THEN 0 ELSE ev.optLo

\* Both imports done: clear the stage, publish how far the backups are used.
PersistDone ==
  /\ persRing # <<>> /\ imp.who = "pers" /\ imp.phase = "redis" /\ imp.todo = {}
  /\ bakMax' = [k \in Kind |-> IF k = "tx" THEN txTop[Head(persRing).blk]
                               ELSE UsedOptId(Head(persRing))]
  /\ maxBlockNumber' = Head(persRing).blk
  /\ imp' = NoImport
  /\ stage' = EmptyStage
  /\ persRing' = Tail(persRing)
  /\ UNCHANGED <<env, main, collected, bootVars, blockRing, compRing, collVars,
                 batchSize, esVars, redisVars>>

-----------------------------------------------------------------------------
(* EsImportService and RedisImportService, shared with the bootstrap handler *)

\* One ES save completes; it retries by itself until it does.
EsSave(i) ==
  /\ imp.phase = "es" /\ i \in imp.todo
  /\ imp' = [imp EXCEPT !.todo = @ \ {i}]
  /\ esBlock' = IF i = "block" THEN esBlock \cup imp.blks ELSE esBlock
  /\ esTx' = IF i = "tx" THEN esTx \cup imp.txs ELSE esTx
  /\ esOpt' = IF i = "opt" THEN Replace(esOpt, imp.opts) ELSE esOpt
  /\ UNCHANGED <<env, main, collected, bootVars, blockRing, compRing, persRing,
                 collVars, bakMax, stage, maxBlockNumber, batchSize, redisVars>>

\* Variant: nobody waits for the saves.
LatchIgnored == imp.phase = "es"

\* EsImportService waits on a latch that counts its saves.
LatchOpen == imp.todo = {}

\* The latch opens and the Redis saves start.
RedisImport ==
  /\ imp.phase = "es" /\ LatchOpen
  /\ imp' = [imp EXCEPT !.phase = "redis", !.todo = RedisKey]
  /\ UNCHANGED <<env, main, collected, bootVars, blockRing, compRing, persRing,
                 collVars, bakMax, stage, maxBlockNumber, batchSize, esVars, redisVars>>

RedisSave(i) ==
  /\ imp.phase = "redis" /\ i \in imp.todo
  /\ imp' = [imp EXCEPT !.todo = @ \ {i}]
  /\ redisBlock' = IF i = "block" THEN redisBlock \cup imp.blks ELSE redisBlock
  /\ redisTx' = IF i = "tx" THEN redisTx \cup imp.txs ELSE redisTx
  /\ UNCHANGED <<env, main, collected, bootVars, blockRing, compRing, persRing,
                 collVars, bakMax, stage, maxBlockNumber, batchSize, esVars>>

\* A Redis save throws: the exception is logged and the save is not repeated.
RedisSaveFail(i) ==
  /\ fails < MaxFail
  /\ imp.phase = "redis" /\ i \in imp.todo
  /\ imp' = [imp EXCEPT !.todo = @ \ {i}]
  /\ fails' = fails + 1
  /\ UNCHANGED <<chainHead, crashes, main, collected, bootVars, blockRing, compRing,
                 persRing, collVars, bakMax, stage, maxBlockNumber, batchSize, esVars,
                 redisVars>>

-----------------------------------------------------------------------------
(* BootstrapEventHandler *)

\* The re-imported block carries no transactions (they are analysed in the
\* collection handler only); every row of n_opt_bak is imported again.
BootstrapHandle ==
  /\ bootRing # <<>> /\ imp.phase = "none"
  /\ imp' = [phase |-> "es", who |-> "boot", todo |-> EsIndex, blks |-> {Head(bootRing)},
             txs |-> {}, opts |-> bak["opt"]]
  /\ UNCHANGED <<env, main, collected, bootVars, blockRing, compRing, persRing, collVars,
                 bakMax, stage, maxBlockNumber, batchSize, esVars, redisVars>>

\* ShutdownCallback.call
IsLast(b) == b = boot.end

BootstrapDone ==
  /\ bootRing # <<>> /\ imp.who = "boot" /\ imp.phase = "redis" /\ imp.todo = {}
  /\ \E m \in MaxIds(imp.opts) : bakMax' = [k \in Kind |-> IF k = "tx" THEN 0 ELSE m]
  /\ boot' = [boot EXCEPT !.done = @ \/ IsLast(Head(bootRing))]
  /\ bootRing' = Tail(bootRing)
  /\ imp' = NoImport
  /\ UNCHANGED <<env, main, collected, blockRing, compRing, persRing, collVars, stage,
                 maxBlockNumber, batchSize, esVars, redisVars>>

-----------------------------------------------------------------------------
(* BatchSizeAdjustTask, while the application status is RUNNING *)

BatchSizeAdjust ==
  /\ main \in {"loop", "stopped"}
  /\ batchSize' = IF chainHead - maxBlockNumber < GapForAdjust THEN CatchupBatch
                  ELSE NotCatchupBatch
  /\ UNCHANGED <<env, main, collected, bootVars, blockRing, compRing, persRing,
                 collVars, persVars, esVars, redisVars>>

-----------------------------------------------------------------------------

Boot == Start \/ ConsistencyCheck \/ BootstrapPublish \/ BootstrapFinish
        \/ BootstrapHandle \/ BootstrapDone
Collection == CollectPublish \/ CollectWrite \/ CollectCommit
CollectionFails == CollectFailParse \/ CollectFailAnalyse \/ CollectFailStatistic
                   \/ CollectFailWrite \/ CollectFailCommit
Persistence == PersistStage \/ PersistFlush \/ PersistDone
Import == \/ \E i \in EsIndex : EsSave(i)
          \/ RedisImport
          \/ \E i \in RedisKey : RedisSave(i) \/ RedisSaveFail(i)

Next ==
  \/ ChainGrow \/ Boot \/ Collect \/ MainLoopBreak \/ Crash
  \/ BlockHandle \/ Collection \/ CollectionFails \/ ComplementHandle
  \/ Persistence \/ Import \/ BatchSizeAdjust

Spec == Init /\ [][Next]_vars

(***************************************************************************)
(* Fairness: every thread that can take a step eventually takes one, the   *)
(* scheduled task fires again and again, and a process that died is        *)
(* started again.  Exceptions, crashes and the chain owe nothing.          *)
(***************************************************************************)
Fairness ==
  /\ WF_vars(Boot)
  /\ WF_vars(Collect)
  /\ WF_vars(BlockHandle)
  /\ WF_vars(Collection)
  /\ WF_vars(ComplementHandle)
  /\ WF_vars(Persistence)
  /\ \A i \in EsIndex : WF_vars(EsSave(i))
  /\ WF_vars(RedisImport)
  /\ \A i \in RedisKey : WF_vars(RedisSave(i))
  /\ WF_vars(BatchSizeAdjust)

FairSpec == Spec /\ Fairness

-----------------------------------------------------------------------------
(* Properties *)

ThreadsTyped ==
  /\ chainHead \in Blocks
  /\ main \in {"down", "check", "fill", "loop", "stopped"}
  /\ collected \in -1..MaxBlock
  /\ boot \in [next : 0..(MaxBlock + 1), end : Blocks, done : BOOLEAN]
  /\ batchSize \in {CatchupBatch, NotCatchupBatch}
  /\ maxBlockNumber \in Blocks
  /\ crashes \in 0..MaxCrash /\ fails \in 0..MaxFail
RingsTyped ==
  /\ bootRing \in Seq(Blocks) /\ blockRing \in Seq(Blocks) /\ collRing \in Seq(Blocks)
  /\ compRing \in Seq(Event) /\ persRing \in Seq(Event)
CollectorTyped ==
  /\ mem \in [txQty : Nat, optSeq : Nat]
  /\ txId \in Nat /\ txTop \in [Blocks -> Nat]
  /\ preBlock \in Blocks /\ listed \in Nat /\ nulled \in BOOLEAN
  /\ col \in [pc : {"idle", "published", "written", "released"}, ev : Event,
              del : [Kind -> Nat]]
  /\ delCount \in [Kind -> Nat]
PersisterTyped ==
  /\ bakMax \in [Kind -> Nat]
  /\ stage \in [blks : SUBSET Blocks, size : Nat, opts : SUBSET Row]
  /\ imp \in [phase : {"none", "es", "redis"}, who : {"pers", "boot"},
              todo : SUBSET EsIndex, blks : SUBSET Blocks, txs : SUBSET Blocks,
              opts : SUBSET Row]
StoresTyped ==
  /\ db \in [cur : {-1} \cup 1..MaxBlock, txQty : Nat, optSeq : Nat]
  /\ bak \in [Kind -> SUBSET Row]
  /\ esBlock \subseteq Blocks /\ esTx \subseteq Blocks /\ esOpt \subseteq Row
  /\ redisBlock \subseteq Blocks /\ redisTx \subseteq Blocks

\* Every variable holds what its field in the code can hold.
TypeOK == ThreadsTyped /\ RingsTyped /\ CollectorTyped /\ PersisterTyped /\ StoresTyped

BlocksOf(ring) == {ring[i].blk : i \in 1..Len(ring)}
NumbersOf(ring) == {ring[i] : i \in 1..Len(ring)}

\* Blocks that have left the collection handler and are not imported yet.
Downstream == stage.blks \cup BlocksOf(persRing) \cup BlocksOf(compRing)
InFlight == NumbersOf(blockRing) \cup NumbersOf(collRing) \cup Downstream

\* The ES block index has no hole: with a block it holds every earlier one
\* (from 1; start-up never recovers the genesis block), whatever crashes and
\* retries happened between batches, and during a half-finished import.
EsPrefixClosed == \A b \in esBlock : 1..b \subseteq esBlock

\* A block is published downstream before its MySQL transaction commits, so
\* that ES may be ahead of MySQL, but never by more than the block in progress.
EsAtMostOneAhead == \A b \in esBlock : b =< IF db.cur < 0 THEN 1 ELSE db.cur + 1

\* While the main loop runs, each block it requested, or that an earlier run
\* committed, is searchable or still on its way: no batch, ring or restart
\* drops one.
NothingLost ==
  main \in {"loop", "stopped"} => 1..collected \subseteq esBlock \cup InFlight

\* The web API resolves what the Redis list shows through ES: Redis is never
\* filled before ES.
RedisBehindEs == redisBlock \subseteq esBlock

OptsRecorded(b) == {r \in bak["opt"] \cup esOpt : r.blk = b}

\* What the bootstrap handler relies on: the operations of a committed block
\* that is not searchable yet are all in n_opt_bak (or in ES already), so the
\* clean-up never overtakes the import.
UnindexedOptsBackedUp ==
  \A b \in 1..db.cur : b \notin esBlock =>
    Cardinality(OptsRecorded(b)) >= EpochOpts[b] + TxCount[b]

\* "The data in MySQL, ES and Redis is synchronised" (ConsistencyService, when ES
\* has the last block): a committed operation is in ES or kept in n_opt_bak.
OptsDurable ==
  \A b \in 1..db.cur : Cardinality(OptsRecorded(b)) >= EpochOpts[b] + TxCount[b]

\* One id, one operation: a row waiting in n_opt_bak never carries the id of a
\* document of another block, which importing it would overwrite.
OptIdsAgree ==
  \A r \in bak["opt"], d \in esOpt : r.id = d.id => r.blk = d.blk

\* The transactions of the blocks up to b.
TxTotal(b) == SumFunctionOnSet(TxCount, 1..b)

\* network_stat counts every transaction of the committed blocks exactly once
\* (PPOSService guards the count against retries of the block).
TxQtyExact == db.txQty = TxTotal(db.cur)

\* Retries may count a transaction twice, but none is ever left out.
TxQtyNeverShort == db.cur > 0 => db.txQty >= TxTotal(db.cur)

\* Start-up replenishes "block and transaction information" (comment in
\* ConsistencyService.post): once the ES saves of a recovered block are done its
\* transactions are searchable too.
RecoveredWithTxs ==
  imp.who = "boot" /\ imp.phase = "redis" =>
    \A b \in imp.blks : TxCount[b] > 0 => b \in esTx

\* After start-up the Redis list is as complete as ES, as the comment on
\* ConsistencyService.post promises of both.
RedisRecovered ==
  main = "loop" /\ InFlight = {} => esBlock \cap 1..db.cur \subseteq redisBlock

\* Every block the chain produces is eventually committed to MySQL.
EventuallyCommitted == \A b \in Blocks : b > 0 => (chainHead >= b ~> db.cur >= b)

\* A failed attempt is followed by a retry that completes (the comment in
\* CollectionEventHandler's finally block: "wait for the next retry").
RetrySucceeds ==
  \A b \in Blocks : b > 0 =>
    (collRing # <<>> /\ Head(collRing) = b ~> db.cur >= b \/ main = "down")

\* A block is searchable once enough blocks follow to fill its batch.
EventuallyIndexed ==
  \A b \in Blocks : b > 0 => (chainHead >= b + NotCatchupBatch - 1 ~> b \in esBlock)

-----------------------------------------------------------------------------
(* The inductive invariant behind EsPrefixClosed, EsAtMostOneAhead,          *)
(* NothingLost, RedisBehindEs and the refinement below.                      *)

Running == main \in {"loop", "stopped"}

\* The last block the collection handler finished with, in this run.
Finished == collected - Len(blockRing) - Len(collRing)

\* Before the main loop runs the pipeline is empty, and it starts from MySQL.
PipelineCold ==
  ~Running =>
    /\ blockRing = <<>> /\ collRing = <<>> /\ compRing = <<>> /\ persRing = <<>>
    /\ stage = EmptyStage /\ col.pc = "idle"
    /\ main # "down" => collected = db.cur

\* The first two rings hold consecutive blocks that end at the one requested
\* last; MySQL stands right before them.
RingsConsecutive ==
  Running =>
    /\ \A i \in 1..Len(collRing) : collRing[i] = Finished + i
    /\ \A i \in 1..Len(blockRing) : blockRing[i] = Finished + Len(collRing) + i
    /\ db.cur = IF Finished =< 0 THEN -1 ELSE Finished

\* The collection thread works on the head of its ring.
WorksOnHead ==
  /\ col.pc # "idle" => collRing # <<>>
  /\ col.pc \in {"published", "written"} =>
       col.ev.blk = Head(collRing) /\ col.ev.blk \in esBlock \cup Downstream

\* Blocks 1 .. b-1 are in s.
Below(b, s) == 1..(b - 1) \subseteq s
BlocksBefore(ring, i) == {ring[j].blk : j \in 1..(i - 1)}

\* The blocks in ES, staged, and in the last two rings each have all their
\* predecessors in ES or ahead of them on the way there.
Ordered(es, staged, pers, comp) ==
  /\ \A b \in es : Below(b, es)
  /\ \A b \in staged : Below(b, es \cup staged)
  /\ \A i \in 1..Len(pers) :
       Below(pers[i].blk, es \cup staged \cup BlocksBefore(pers, i))
  /\ \A i \in 1..Len(comp) :
       Below(comp[i].blk, es \cup staged \cup BlocksOf(pers) \cup BlocksBefore(comp, i))

PredecessorsFirst == Ordered(esBlock, stage.blks, persRing, compRing)

\* What is finished is in ES or on its way; nothing is further than the block
\* in progress.
FinishedKept ==
  /\ Running => 1..Finished \subseteq esBlock \cup Downstream
  /\ Running => \A b \in Downstream : b =< Finished + 1
  /\ EsAtMostOneAhead

\* The import in progress belongs to the thread that can run it, and a save of
\* the block index that is done has stored the blocks.
ImportOwned ==
  /\ imp.phase # "none" /\ imp.who = "pers" =>
       Running /\ imp.blks = stage.blks /\ persRing # <<>>
       /\ Head(persRing).blk \in stage.blks
  /\ imp.phase # "none" /\ imp.who = "boot" =>
       main = "fill" /\ bootRing # <<>> /\ imp.blks = {Head(bootRing)}
  /\ imp.phase # "none" /\ (imp.phase = "redis" \/ "block" \notin imp.todo) =>
       imp.blks \subseteq esBlock

\* Start-up re-imports the missing blocks in order.
BootInOrder ==
  /\ main # "fill" => bootRing = <<>>
  /\ main = "fill" =>
       /\ boot.end = db.cur
       /\ 1 =< boot.next - Len(bootRing) /\ boot.next =< boot.end + 1
       /\ \A i \in 1..Len(bootRing) : bootRing[i] = boot.next - Len(bootRing) - 1 + i
       /\ Below(boot.next - Len(bootRing), esBlock)
       /\ boot.done => boot.next - Len(bootRing) = boot.end + 1

\* The inductive invariant: the parts above, of which each step needs several.
PipelineInv ==
  /\ TypeOK /\ PipelineCold /\ RingsConsecutive /\ WorksOnHead /\ PredecessorsFirst
  /\ FinishedKept /\ ImportOwned /\ BootInOrder /\ RedisBehindEs

-----------------------------------------------------------------------------
(* The promise of the whole pipeline *)

Ledger == INSTANCE IngestLedger WITH committed <- db.cur, searchable <- esBlock
\* MySQL and the ES block index, seen from outside, behave as the ledger does,
\* whatever rings, batches, crashes and retries lie behind them.
LedgerSpec == Ledger!Spec
=============================================================================
