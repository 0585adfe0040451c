------------------------- MODULE SyncPipelineProofs -------------------------
(***************************************************************************)
(* Machine-checked facts about SyncPipeline, for every chain content, ring *)
(* size, batch size and number of crashes and exceptions.                  *)
(*                                                                         *)
(* Type correctness is proved part by part (one lemma for each group of    *)
(* variables), so that each lemma names the actions that touch the group.  *)
(***************************************************************************)
EXTENDS SyncPipeline, TLAPS

\* What an attempt at block b computes has the right type.
LEMMA AttemptTyped ==
  ASSUME CollectorTyped, NEW b \in Blocks
  PROVE  /\ AllTx(b) \in Nat /\ OptsOf(b) \in Nat /\ TxIdBase \in Nat
         /\ TxQtyAfter(b) \in Nat /\ PreBlockAfter(b) \in Blocks
         /\ AttemptEvent(b) \in Event
         /\ Numbered(b) => listed' \in Nat /\ txId' \in Nat /\ txTop' \in [Blocks -> Nat]
<1>1. AllTx(b) \in Nat /\ TxIdBase \in Nat
  BY ContentAssumption DEF CollectorTyped, AllTx, TxIdBase
<1>2. OptsOf(b) \in Nat
  BY <1>1, ContentAssumption DEF OptsOf
<1>3. TxQtyAfter(b) \in Nat /\ PreBlockAfter(b) \in Blocks
  BY <1>1 DEF CollectorTyped, TxQtyAfter, PreBlockAfter
<1>4. AttemptEvent(b) \in Event
  BY <1>2 DEF CollectorTyped, AttemptEvent, Event
<1>5. Numbered(b) => listed' \in Nat /\ txId' \in Nat /\ txTop' \in [Blocks -> Nat]
  BY <1>1 DEF CollectorTyped, Numbered
<1> QED BY <1>1, <1>2, <1>3, <1>4, <1>5

\* The collection thread between two attempts.
LEMMA IdleTyped ==
  /\ [k \in Kind |-> 0] \in [Kind -> Nat]
  /\ \A p \in {"idle", "released"} :
       [pc |-> p, ev |-> NoEvent, del |-> [k \in Kind |-> 0]]
         \in [pc : {"idle", "published", "written", "released"}, ev : Event,
              del : [Kind -> Nat]]
<1>1. NoEvent \in Event
  BY BoundsAssumption DEF NoEvent, Event, Blocks
<1>2. [k \in Kind |-> 0] \in [Kind -> Nat]
  OBVIOUS
<1> HIDE DEF NoEvent
<1> QED BY <1>1, <1>2

\* The event a handler takes from the head of the persistence ring is an event
\* of a block of the chain.
LEMMA HeadTyped ==
  ASSUME RingsTyped, persRing # <<>>
  PROVE  Head(persRing) \in Event /\ Head(persRing).blk \in Blocks
<1>1. Head(persRing) \in Event
  BY DEF RingsTyped
<1> QED BY <1>1 DEF Event

\* A first start is well typed.
LEMMA InitTyped == Init => TypeOK
<1> SUFFICES ASSUME Init PROVE TypeOK
  OBVIOUS
<1> USE BoundsAssumption DEF Init, Blocks
<1>1. ThreadsTyped
  BY ConfigAssumption DEF ThreadsTyped
<1>2. RingsTyped
  BY DEF RingsTyped
<1>3. CollectorTyped
  <2>1. col \in [pc : {"idle", "published", "written", "released"}, ev : Event,
                del : [Kind -> Nat]]
    BY IdleTyped
  <2>2. preBlock \in Blocks /\ txTop \in [Blocks -> Nat] /\ delCount \in [Kind -> Nat]
    OBVIOUS
  <2> QED BY <2>1, <2>2 DEF CollectorTyped
<1>4. PersisterTyped
  BY DEF PersisterTyped, EmptyStage, NoImport
<1>5. StoresTyped
  BY DEF StoresTyped
<1> QED BY <1>1, <1>2, <1>3, <1>4, <1>5 DEF TypeOK

\* Only a commit and the saves of an import write to the stores.
LEMMA StoresMovers ==
  ASSUME [Next]_vars
  PROVE  \/ CollectCommit \/ (\E i \in EsIndex : EsSave(i))
         \/ (\E i \in RedisKey : RedisSave(i)) \/ UNCHANGED store
<1>1. CASE ChainGrow \/ Boot \/ Collect \/ MainLoopBreak \/ Crash
  BY <1>1 DEF ChainGrow, Boot, Collect, MainLoopBreak, Crash, Start,
       ConsistencyCheck, BootstrapPublish, BootstrapFinish, BootstrapHandle,
       BootstrapDone, memory, store, bootVars, collVars, persVars, esVars, redisVars
<1>2. CASE BlockHandle \/ Collection \/ CollectionFails \/ ComplementHandle
  BY <1>2 DEF BlockHandle, Collection, CollectPublish, CollectWrite,
       CollectionFails, CollectFailParse, CollectFailAnalyse, CollectFailStatistic,
       CollectFailWrite, CollectFailCommit, ComplementHandle, memory, store,
       bootVars, collVars, persVars, esVars, redisVars
<1>3. CASE Persistence \/ Import \/ BatchSizeAdjust
  BY <1>3 DEF Persistence, PersistStage, PersistFlush, PersistDone, Import,
       RedisImport, RedisSaveFail, BatchSizeAdjust, memory, store, bootVars,
       collVars, persVars, esVars, redisVars
<1>4. CASE UNCHANGED vars
  BY <1>4 DEF vars, memory, store
<1> QED BY <1>1, <1>2, <1>3, <1>4 DEF Next

\* Who touches the staging sets, the import and the clean-up marks.
LEMMA PersisterMovers ==
  ASSUME [Next]_vars
  PROVE  \/ Crash \/ BootstrapHandle \/ BootstrapDone \/ PersistStage
         \/ PersistFlush \/ PersistDone \/ (\E i \in EsIndex : EsSave(i))
         \/ RedisImport \/ (\E i \in RedisKey : RedisSave(i))
         \/ (\E i \in RedisKey : RedisSaveFail(i))
         \/ UNCHANGED <<bakMax, stage, imp>>
<1>1. CASE ChainGrow \/ Boot \/ Collect \/ MainLoopBreak \/ Crash
  BY <1>1 DEF ChainGrow, Boot, Collect, MainLoopBreak, Start, ConsistencyCheck,
       BootstrapPublish, BootstrapFinish, memory, store, bootVars, collVars,
       persVars, esVars, redisVars
<1>2. CASE BlockHandle \/ Collection \/ CollectionFails \/ ComplementHandle
  BY <1>2 DEF BlockHandle, Collection, CollectPublish, CollectWrite, CollectCommit,
       CollectionFails, CollectFailParse, CollectFailAnalyse, CollectFailStatistic,
       CollectFailWrite, CollectFailCommit, ComplementHandle, memory, store,
       bootVars, collVars, persVars, esVars, redisVars
<1>3. CASE Persistence \/ Import \/ BatchSizeAdjust
  BY <1>3 DEF Persistence, Import, BatchSizeAdjust, memory, store, bootVars,
       collVars, persVars, esVars, redisVars
<1>4. CASE UNCHANGED vars
  BY <1>4 DEF vars, memory, store
<1> QED BY <1>1, <1>2, <1>3, <1>4 DEF Next

\* Who touches a ring.
LEMMA RingMovers ==
  ASSUME [Next]_vars
  PROVE  \/ Crash \/ BootstrapPublish \/ BootstrapDone \/ Collect \/ BlockHandle
         \/ CollectPublish \/ CollectCommit \/ ComplementHandle \/ PersistStage
         \/ PersistDone
         \/ UNCHANGED <<bootRing, blockRing, collRing, compRing, persRing>>
<1>1. CASE ChainGrow \/ Boot \/ Collect \/ MainLoopBreak \/ Crash
  BY <1>1 DEF ChainGrow, Boot, MainLoopBreak, Start, ConsistencyCheck,
       BootstrapFinish, BootstrapHandle, memory, store, bootVars, collVars,
       persVars, esVars, redisVars
<1>2. CASE BlockHandle \/ Collection \/ CollectionFails \/ ComplementHandle
  BY <1>2 DEF Collection, CollectWrite, CollectionFails, CollectFailParse,
       CollectFailAnalyse, CollectFailStatistic, CollectFailWrite,
       CollectFailCommit, memory, store, bootVars, collVars, persVars, esVars,
       redisVars
<1>3. CASE Persistence \/ Import \/ BatchSizeAdjust
  BY <1>3 DEF Persistence, PersistFlush, Import, EsSave, RedisImport, RedisSave,
       RedisSaveFail, BatchSizeAdjust, memory, store, bootVars, collVars, persVars,
       esVars, redisVars
<1>4. CASE UNCHANGED vars
  BY <1>4 DEF vars, memory, store
<1> QED BY <1>1, <1>2, <1>3, <1>4 DEF Next

\* Who touches the collection handler's state.
LEMMA CollectorMovers ==
  ASSUME [Next]_vars
  PROVE  \/ Start \/ Crash \/ CollectPublish \/ CollectWrite \/ CollectCommit
         \/ CollectFailParse \/ CollectFailAnalyse \/ CollectFailStatistic
         \/ CollectFailWrite \/ CollectFailCommit \/ PersistStage
         \/ PersistFlush
         \/ UNCHANGED <<mem, txId, txTop, preBlock, listed, nulled, col, delCount>>
<1>1. CASE ChainGrow \/ Boot \/ Collect \/ MainLoopBreak \/ Crash
  BY <1>1 DEF ChainGrow, Boot, Collect, MainLoopBreak, ConsistencyCheck,
       BootstrapPublish, BootstrapFinish, BootstrapHandle, BootstrapDone, memory,
       store, bootVars, collVars, persVars, esVars, redisVars
<1>2. CASE BlockHandle \/ Collection \/ CollectionFails \/ ComplementHandle
  BY <1>2 DEF BlockHandle, Collection, CollectionFails, ComplementHandle, memory,
       store, bootVars, collVars, persVars, esVars, redisVars
<1>3. CASE Persistence \/ Import \/ BatchSizeAdjust
  BY <1>3 DEF Persistence, PersistDone, Import, EsSave, RedisImport, RedisSave,
       RedisSaveFail, BatchSizeAdjust, memory, store, bootVars, collVars, persVars,
       esVars, redisVars
<1>4. CASE UNCHANGED vars
  BY <1>4 DEF vars, memory, store
<1> QED BY <1>1, <1>2, <1>3, <1>4 DEF Next

\* Who touches the threads, the bounds and the settings.
LEMMA ThreadMovers ==
  ASSUME [Next]_vars
  PROVE  \/ ChainGrow \/ Start \/ ConsistencyCheck \/ BootstrapPublish \/ BootstrapFinish
         \/ MainLoopBreak \/ BootstrapDone \/ Collect \/ Crash \/ CollectionFails
         \/ PersistStage \/ PersistDone \/ (\E i \in RedisKey : RedisSaveFail(i))
         \/ BatchSizeAdjust
         \/ UNCHANGED <<env, main, collected, boot, batchSize, maxBlockNumber>>
<1>1. CASE ChainGrow \/ Boot \/ Collect \/ MainLoopBreak \/ Crash
  BY <1>1 DEF Boot, BootstrapHandle, bootVars
<1>2. CASE BlockHandle \/ Collection \/ CollectionFails \/ ComplementHandle
  BY <1>2 DEF BlockHandle, Collection, CollectPublish, CollectWrite, CollectCommit,
       ComplementHandle, bootVars, persVars
<1>3. CASE Persistence \/ Import \/ BatchSizeAdjust
  BY <1>3 DEF Persistence, PersistFlush, Import, EsSave, RedisImport, RedisSave, bootVars
<1>4. CASE UNCHANGED vars
  BY <1>4 DEF vars, memory, env
<1> QED BY <1>1, <1>2, <1>3, <1>4 DEF Next

\* Every write to MySQL, ElasticSearch and Redis keeps the stores' types.
LEMMA StoresTypedStep == TypeOK /\ [Next]_vars => StoresTyped'
<1> SUFFICES ASSUME TypeOK, [Next]_vars PROVE StoresTyped'
  OBVIOUS
<1>1. CASE CollectCommit
  <2>1. StatRow(col.ev.blk) \in [cur : {-1} \cup 1..MaxBlock, txQty : Nat, optSeq : Nat]
    BY DEF StatRow, TypeOK, StoresTyped, CollectorTyped, Event, Blocks
  <2>2. \A k \in Kind : NewRows(k) \subseteq Row
    BY DEF NewRows, OptRows, RowsOf, Row, TypeOK, CollectorTyped, Event, Blocks
  <2>3. bak' \in [Kind -> SUBSET Row]
    BY <1>1, <2>2 DEF CollectCommit, Replace, TypeOK, StoresTyped
  <2> QED BY <1>1, <2>1, <2>3 DEF CollectCommit, TypeOK, StoresTyped, esVars, redisVars
<1>2. ASSUME NEW i \in EsIndex, EsSave(i) PROVE StoresTyped'
  BY <1>2 DEF EsSave, TypeOK, PersisterTyped, StoresTyped, Replace, collVars, redisVars
<1>3. ASSUME NEW i \in RedisKey, RedisSave(i) PROVE StoresTyped'
  BY <1>3 DEF RedisSave, TypeOK, PersisterTyped, StoresTyped, collVars, esVars
<1>4. CASE UNCHANGED store
  BY <1>4 DEF store, TypeOK, StoresTyped
<1> QED BY <1>1, <1>2, <1>3, <1>4, StoresMovers

\* Publishing to a ring and finishing an event keep the rings' types.
LEMMA RingsTypedStep == TypeOK /\ [Next]_vars => RingsTyped'
<1> SUFFICES ASSUME TypeOK, [Next]_vars PROVE RingsTyped'
  OBVIOUS
<1> USE DEF RingsTyped, bootVars
<1>1. CASE Crash
  BY <1>1 DEF Crash, MemoryCleared
<1>2. CASE BootstrapPublish
  BY <1>2, BoundsAssumption DEF TypeOK, ThreadsTyped, BootstrapPublish, Blocks, collVars
<1>3. CASE BootstrapDone
  BY <1>3 DEF TypeOK, BootstrapDone, collVars
<1>4. CASE Collect
  BY <1>4, BoundsAssumption DEF TypeOK, ThreadsTyped, Collect, ChainHas, Blocks, collVars
<1>5. CASE BlockHandle
  BY <1>5 DEF TypeOK, BlockHandle
<1>6. CASE CollectPublish
  BY <1>6, AttemptTyped DEF TypeOK, CollectPublish
<1>7. CASE CollectCommit
  BY <1>7 DEF TypeOK, CollectCommit
<1>8. CASE ComplementHandle
  BY <1>8 DEF TypeOK, ComplementHandle, collVars
<1>9. CASE PersistStage \/ PersistDone
  <2>0. persRing # <<>> /\ persRing' = Tail(persRing)
    BY <1>9 DEF PersistStage, PersistDone
  <2>1. persRing' \in Seq(Event)
    BY <2>0 DEF TypeOK
  <2>2. UNCHANGED <<bootRing, blockRing, collRing, compRing>>
    BY <1>9 DEF PersistStage, PersistDone, collVars
  <2> QED BY <2>1, <2>2 DEF TypeOK
<1>10. CASE UNCHANGED <<bootRing, blockRing, collRing, compRing, persRing>>
  BY <1>10 DEF TypeOK
<1> QED BY <1>1, <1>2, <1>3, <1>4, <1>5, <1>6, <1>7, <1>8, <1>9, <1>10, RingMovers

\* The main loop, start-up and the batch size task keep their variables typed;
\* the height the main loop asks for stays within the chain.
LEMMA ThreadsTypedStep == TypeOK /\ [Next]_vars => ThreadsTyped'
<1> SUFFICES ASSUME TypeOK, [Next]_vars PROVE ThreadsTyped'
  OBVIOUS
<1> USE BoundsAssumption DEF ThreadsTyped, Blocks
<1>1. CASE ChainGrow
  BY <1>1 DEF ChainGrow, TypeOK, memory
<1>2. CASE Start
  BY <1>2 DEF Start, TypeOK, StoresTyped, env, bootVars, persVars
<1>3. CASE ConsistencyCheck
  <2>1. UNCHANGED <<env, collected, batchSize, maxBlockNumber>> /\ main' \in {"loop", "fill"}
    BY <1>3 DEF ConsistencyCheck, persVars
  <2>2. boot' \in [next : 0..(MaxBlock + 1), end : Blocks, done : BOOLEAN]
    <3>1. CASE UNCHANGED boot
      BY <3>1 DEF TypeOK
    <3>2. ASSUME NEW n \in 0..db.cur,
                 boot' = [next |-> StartBlock(n), end |-> db.cur, done |-> FALSE]
          PROVE  boot' \in [next : 0..(MaxBlock + 1), end : Blocks, done : BOOLEAN]
      BY <3>2 DEF StartBlock, TypeOK, StoresTyped
    <3> QED BY <1>3, <3>1, <3>2 DEF ConsistencyCheck
  <2> QED BY <2>1, <2>2 DEF TypeOK, env
<1>4. CASE BootstrapPublish
  <2>1. boot.next + 1 \in 0..(MaxBlock + 1) /\ boot' = [boot EXCEPT !.next = boot.next + 1]
    BY <1>4 DEF BootstrapPublish, TypeOK
  <2>2. UNCHANGED <<env, main, collected, batchSize, maxBlockNumber>>
    BY <1>4 DEF BootstrapPublish, persVars
  <2> QED BY <2>1, <2>2 DEF TypeOK, env
<1>5. CASE BootstrapFinish \/ MainLoopBreak
  BY <1>5 DEF BootstrapFinish, MainLoopBreak, TypeOK, env, memory
<1>6. CASE BootstrapDone
  BY <1>6 DEF BootstrapDone, IsLast, TypeOK, env, RingsTyped
<1>7. CASE Collect
  BY <1>7 DEF Collect, ChainHas, TypeOK, env, bootVars, persVars
<1>8. CASE Crash
  BY <1>8, ConfigAssumption DEF Crash, MemoryCleared, TypeOK
<1>9. CASE CollectionFails
  BY <1>9 DEF CollectionFails, CollectFailParse, CollectFailAnalyse, CollectFailStatistic,
       CollectFailWrite, CollectFailCommit, TypeOK, bootVars, persVars
<1>10. CASE PersistStage \/ PersistDone
  <2>1. persRing # <<>>
    BY <1>10 DEF PersistStage, PersistDone
  <2>2. Head(persRing).blk \in Blocks
    BY <2>1, HeadTyped DEF TypeOK
  <2> QED BY <1>10, <2>2 DEF PersistStage, PersistDone, TypeOK, env, bootVars
<1>11. ASSUME NEW i \in RedisKey, RedisSaveFail(i) PROVE ThreadsTyped'
  BY <1>11 DEF RedisSaveFail, TypeOK, bootVars
<1>12. CASE BatchSizeAdjust
  BY <1>12 DEF BatchSizeAdjust, TypeOK, env, bootVars, persVars
<1>13. CASE UNCHANGED <<env, main, collected, boot, batchSize, maxBlockNumber>>
  BY <1>13 DEF TypeOK, env
<1> QED BY <1>1, <1>2, <1>3, <1>4, <1>5, <1>6, <1>7, <1>8, <1>9, <1>10, <1>11, <1>12, <1>13,
          ThreadMovers

\* Staging, flushing and the saves keep the persistence handler's state typed.
LEMMA PersisterTypedStep == TypeOK /\ [Next]_vars => PersisterTyped'
<1> SUFFICES ASSUME TypeOK, [Next]_vars PROVE PersisterTyped'
  OBVIOUS
<1>1. CASE Crash
  BY <1>1 DEF Crash, MemoryCleared, PersisterTyped, EmptyStage, NoImport
<1>2. CASE BootstrapHandle
  BY <1>2 DEF BootstrapHandle, TypeOK, RingsTyped, PersisterTyped, StoresTyped, Kind
<1>3. CASE BootstrapDone
  <2>1. \A m \in MaxIds(imp.opts) : m \in Nat
    BY DEF MaxIds, TypeOK, PersisterTyped, Row
  <2>2. bakMax' \in [Kind -> Nat]
    BY <1>3, <2>1 DEF BootstrapDone
  <2> QED BY <1>3, <2>2 DEF BootstrapDone, TypeOK, PersisterTyped, NoImport
<1>4. CASE PersistStage
  <2>1. Head(persRing) \in Event
    BY <1>4 DEF PersistStage, TypeOK, RingsTyped
  <2>2. Stages \subseteq [blks : SUBSET Blocks, size : Nat, opts : SUBSET Row]
    BY <2>1 DEF Stages, OptRows, RowsOf, Row, Event, TypeOK, PersisterTyped
  <2> QED BY <1>4, <2>2 DEF PersistStage, TypeOK, PersisterTyped
<1>5. CASE PersistFlush
  <2>1. Head(persRing) \in Event
    BY <1>5 DEF PersistFlush, TypeOK, RingsTyped
  <2>2. Stages \subseteq [blks : SUBSET Blocks, size : Nat, opts : SUBSET Row]
    BY <2>1 DEF Stages, OptRows, RowsOf, Row, Event, TypeOK, PersisterTyped
  <2> QED BY <1>5, <2>2 DEF PersistFlush, TypeOK, PersisterTyped
<1>6. CASE PersistDone
  <2>1. Head(persRing) \in Event
    BY <1>6 DEF PersistDone, TypeOK, RingsTyped
  <2>2. UsedOptId(Head(persRing)) \in Nat /\ txTop[Head(persRing).blk] \in Nat
    BY <2>1 DEF UsedOptId, Event, TypeOK, CollectorTyped
  <2> QED BY <1>6, <2>2 DEF PersistDone, TypeOK, PersisterTyped, EmptyStage, NoImport
<1>7. ASSUME NEW i \in EsIndex, EsSave(i) PROVE PersisterTyped'
  BY <1>7 DEF EsSave, TypeOK, PersisterTyped
<1>8. CASE RedisImport
  BY <1>8 DEF RedisImport, TypeOK, PersisterTyped, RedisKey, EsIndex
<1>9. ASSUME NEW i \in RedisKey, RedisSave(i) \/ RedisSaveFail(i) PROVE PersisterTyped'
  BY <1>9 DEF RedisSave, RedisSaveFail, TypeOK, PersisterTyped
<1>10. CASE UNCHANGED <<bakMax, stage, imp>>
  BY <1>10 DEF TypeOK, PersisterTyped
<1> QED BY <1>1, <1>2, <1>3, <1>4, <1>5, <1>6, <1>7, <1>8, <1>9, <1>10, PersisterMovers

\* Attempts, failures, commits and clean-ups keep the collection handler's
\* state typed.
LEMMA CollectorTypedStep == TypeOK /\ [Next]_vars => CollectorTyped'
<1> SUFFICES ASSUME TypeOK, [Next]_vars PROVE CollectorTyped'
  OBVIOUS
<1>1. CASE Start
  BY <1>1 DEF Start, LoadedStat, TypeOK, StoresTyped, CollectorTyped
<1>2. CASE Crash
  <2>1. col' \in [pc : {"idle", "published", "written", "released"}, ev : Event,
                 del : [Kind -> Nat]]
    BY <1>2, IdleTyped DEF Crash, MemoryCleared
  <2>2. preBlock' \in Blocks /\ txTop' \in [Blocks -> Nat] /\ delCount' \in [Kind -> Nat]
    BY <1>2, BoundsAssumption DEF Crash, MemoryCleared, Blocks
  <2>3. mem' = mem /\ txId' = 0 /\ listed' = 0 /\ nulled' = FALSE
    BY <1>2 DEF Crash, MemoryCleared
  <2> QED BY <2>1, <2>2, <2>3 DEF TypeOK, CollectorTyped
<1>3. CASE CollectPublish
  <2>1. PICK b \in Blocks : CollectPublish!(b)
    BY <1>3 DEF CollectPublish
  <2>2. col' \in [pc : {"idle", "published", "written", "released"}, ev : Event,
                 del : [Kind -> Nat]]
    BY <2>1, AttemptTyped DEF TypeOK, CollectorTyped
  <2>3. listed' \in Nat /\ txId' \in Nat /\ txTop' \in [Blocks -> Nat]
    BY <2>1, AttemptTyped DEF TypeOK
  <2>4. mem.optSeq + OptsOf(b) \in Nat /\ TxQtyAfter(b) \in Nat /\ PreBlockAfter(b) \in Blocks
    BY AttemptTyped DEF TypeOK, CollectorTyped
  <2> QED BY <2>1, <2>2, <2>3, <2>4 DEF TypeOK, CollectorTyped
<1>4. CASE CollectWrite
  <2>1. delCount' \in [Kind -> Nat]
    BY <1>4 DEF CollectWrite, TypeOK, CollectorTyped
  <2>2. col'.del \in [Kind -> Nat] /\ col' = [col EXCEPT !.pc = "written", !.del = col'.del]
    BY <1>4 DEF CollectWrite, TypeOK, CollectorTyped, PersisterTyped
  <2> QED BY <1>4, <2>1, <2>2 DEF CollectWrite, TypeOK, CollectorTyped
<1>5. CASE CollectCommit
  BY <1>5, IdleTyped DEF CollectCommit, TypeOK, CollectorTyped
<1>6. CASE CollectFailParse
  BY <1>6, ContentAssumption DEF CollectFailParse, TypeOK, CollectorTyped
<1>7. CASE CollectFailAnalyse
  BY <1>7, AttemptTyped DEF CollectFailAnalyse, TypeOK, CollectorTyped
<1>8. CASE CollectFailStatistic
  BY <1>8, AttemptTyped DEF CollectFailStatistic, TypeOK, CollectorTyped
<1>9. CASE CollectFailWrite \/ CollectFailCommit
  <2>1. delCount' \in [Kind -> Nat]
    BY <1>9 DEF CollectFailWrite, CollectFailCommit, TypeOK, CollectorTyped
  <2> QED BY <1>9, <2>1, IdleTyped DEF CollectFailWrite, CollectFailCommit, TypeOK, CollectorTyped
<1>10. CASE PersistStage \/ PersistFlush
  BY <1>10 DEF PersistStage, PersistFlush, ListNulled, TypeOK, CollectorTyped
<1>11. CASE UNCHANGED <<mem, txId, txTop, preBlock, listed, nulled, col, delCount>>
  BY <1>11 DEF TypeOK, CollectorTyped
<1> QED BY <1>1, <1>2, <1>3, <1>4, <1>5, <1>6, <1>7, <1>8, <1>9, <1>10, <1>11, CollectorMovers

\* Every variable keeps its type, whatever is crashed, retried or reordered.
THEOREM TypeCorrect == Spec => []TypeOK
<1>1. TypeOK /\ [Next]_vars => TypeOK'
  BY ThreadsTypedStep, RingsTypedStep, CollectorTypedStep, PersisterTypedStep,
     StoresTypedStep DEF TypeOK
<1> QED BY InitTyped, <1>1, PTL DEF Spec
=============================================================================
