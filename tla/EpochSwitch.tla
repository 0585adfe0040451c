----------------------------- MODULE EpochSwitch -----------------------------
(***************************************************************************)
(* The epoch switches of the agent (EpochService, EpochRetryService).      *)
(*                                                                         *)
(* Before the main thread publishes the first block of a settlement or of a*)
(* consensus epoch it asks the chain for the validators and the rewards of *)
(* the epoch; it asks the interface for past epochs when the chain is past *)
(* the epoch, the real-time one otherwise.  Each block is published with a *)
(* copy of the answers.  The main thread also records the validators of    *)
(* every consensus epoch in block_node, and updates chainConfig and the    *)
(* network_stat object that the collection thread saves with each block,   *)
(* while earlier blocks are still in the rings.                            *)
(*                                                                         *)
(* A list of nodes is named by the epoch it serves in, a reward by the     *)
(* settlement epoch it is paid in; 0 is the empty list or no reward.       *)
(***************************************************************************)
EXTENDS Integers, Sequences

CONSTANTS
  MaxBlock,         \* last block the chain produces (bound)
  ConsensusPeriod,  \* blocks of a consensus epoch
  SettlePeriod,     \* blocks of a settlement epoch
  YearOf,           \* YearOf[s]: issue year of settlement epoch s
  NodeLag,          \* blocks by which the answering chain node may be behind
  QueueSize,        \* blocks between the main and the collection thread
  MaxCrash,         \* bound on process crashes
  MaxFail           \* bound on exceptions

Blocks == 0..MaxBlock
Heights == -1..MaxBlock

ASSUME EpochBounds ==
  /\ MaxBlock \in Nat \ {0} /\ NodeLag \in Nat /\ MaxCrash \in Nat /\ MaxFail \in Nat
  /\ QueueSize \in Nat \ {0}
ASSUME PeriodAssumption ==
  /\ ConsensusPeriod \in Nat \ {0, 1}
  /\ SettlePeriod \in Nat \ {0, 1}
ASSUME YearAssumption ==
  YearOf \in [1..(MaxBlock \div SettlePeriod + 1) -> Nat \ {0}]

VARIABLES
  chainHead,   \* highest block the chain has produced
  pc,          \* where the main thread is
  blk,         \* the block it works on
  booting,     \* it is in InitializationService
  seen,        \* the epoch of the chain's head, as read by the change in progress
  ers,         \* the attributes of EpochRetryService
  year,        \* chainConfig.issueEpochRound, 0 when not set
  stat,        \* the NetworkStat object of NetworkStatCache
  maxNum,      \* EpochService.max
  msgs,        \* blocks on their way to the collection thread
  db,          \* the network_stat row
  blockNode,   \* the block_node table: one entry per batch inserted
  crashes, fails

memory == <<pc, blk, booting, seen, ers, year, stat, maxNum, msgs>>
vars == <<chainHead, memory, db, blockNode, crashes, fails>>

-----------------------------------------------------------------------------
(* Epochs *)

\* EpochUtil.getEpoch rounds up; a negative number has epoch 0.
Epoch(b, period) == IF b =< 0 THEN 0 ELSE (b + period - 1) \div period

\* EpochUtil.getPreEpochLastBlockNumber
PreEpochLast(b, period) ==
  IF Epoch(b, period) = 0 THEN 0 ELSE (Epoch(b, period) - 1) * period

\* b is the first block of an epoch.
Opens(b, period) == b >= 1 /\ (b - 1) % period = 0

\* The chain's answers: the nodes that serve at block x (those of the genesis
\* block serve in the first epoch too), and the settlement epoch whose rewards
\* are fixed at block x, the last one before it.
ListAt(x, period) == IF x = 0 THEN 1 ELSE Epoch(x, period)
InfoAt(x) == x \div SettlePeriod + 1

\* The height of the chain node that answers a request.
NodeHeads == {h \in 1..chainHead : h >= chainHead - NodeLag}

-----------------------------------------------------------------------------
(* Start-up *)

NoReward == [info |-> 0, among |-> 0]
FreshErs == [preVal |-> 0, curVal |-> 0, preVer |-> 0, curVer |-> 0,
             reward |-> 0, stake |-> NoReward, preStake |-> NoReward]
BlankStat == [reward |-> 0, rates |-> <<>>]

Init ==
  /\ chainHead = 1
  /\ pc = "down" /\ blk = -1 /\ booting = FALSE /\ seen = 0
  /\ ers = FreshErs /\ year = 0 /\ stat = BlankStat /\ maxNum = -1 /\ msgs = <<>>
  /\ db = [made |-> FALSE, cur |-> -1, reward |-> 0, rates |-> <<>>]
  /\ blockNode = <<>>
  /\ crashes = 0 /\ fails = 0

ChainGrow ==
  /\ chainHead < MaxBlock
  /\ chainHead' = chainHead + 1
  /\ UNCHANGED <<memory, db, blockNode, crashes, fails>>

RowStat == [reward |-> db.reward, rates |-> db.rates]

\* InitializationService.init: the row is loaded, then both changes run for the
\* block recorded last.  On a first start they run before the row is made.
Start ==
  /\ pc = "down"
  /\ pc' = "settle" /\ booting' = TRUE
  /\ blk' = db.cur
  /\ stat' = IF db.made THEN RowStat ELSE BlankStat
  /\ UNCHANGED <<chainHead, seen, ers, year, maxNum, msgs, db, blockNode, crashes, fails>>

\* The end of start-up; a first start saves the new row, and its object takes
\* the place of the one the changes were applied to.
InitDone ==
  /\ pc = "ready"
  /\ pc' = "next" /\ booting' = FALSE
  /\ IF db.made THEN UNCHANGED <<db, stat>>
     ELSE /\ db' = [made |-> TRUE, cur |-> -1, reward |-> 0, rates |-> <<YearOf[1]>>]
          /\ stat' = [reward |-> 0, rates |-> <<YearOf[1]>>]
  /\ UNCHANGED <<chainHead, blk, seen, ers, year, maxNum, msgs, blockNode, crashes, fails>>

\* The process dies; block_node and network_stat stay.
Crash ==
  /\ pc # "down" /\ crashes < MaxCrash
  /\ crashes' = crashes + 1
  /\ pc' = "down" /\ blk' = -1 /\ booting' = FALSE /\ seen' = 0
  /\ ers' = FreshErs /\ year' = 0 /\ stat' = BlankStat /\ maxNum' = -1 /\ msgs' = <<>>
  /\ UNCHANGED <<chainHead, db, blockNode, fails>>

-----------------------------------------------------------------------------
(* EpochService.getEpochMessage: settlement first, then consensus *)

AfterSettle == IF booting \/ Opens(blk, ConsensusPeriod) THEN "consensus" ELSE "publish"
AfterConsensus == IF booting THEN "ready" ELSE "record"

\* The main loop takes the next block once the chain has it.
Request ==
  /\ pc = "next"
  /\ blk < chainHead
  /\ blk' = blk + 1
  /\ pc' = IF Opens(blk + 1, SettlePeriod) THEN "settle"
           ELSE IF Opens(blk + 1, ConsensusPeriod) THEN "consensus"
           ELSE "publish"
  /\ UNCHANGED <<chainHead, booting, seen, ers, year, stat, maxNum, msgs, db, blockNode,
                 crashes, fails>>

\* Variant: off by one, the last block before the epoch.
TargetBlockLast(b, period) == PreEpochLast(b, period)

\* The first block of the epoch of b, or the genesis block for the first epoch.
TargetBlock(b, period) ==
  IF PreEpochLast(b, period) = 0 THEN 0 ELSE PreEpochLast(b, period) + 1

\* Variant: the real-time list is never asked for.
CurrentListPastOnly(b, period, h) ==
  IF seen > Epoch(b, period) THEN ListAt(TargetBlock(b, period), period) ELSE 0

\* The current list as a node of height h gives it: from the interface for past
\* epochs, from the real-time one, or left empty when the node is behind.
CurrentList(b, period, h) ==
  CASE seen > Epoch(b, period) -> ListAt(TargetBlock(b, period), period)
    [] seen = Epoch(b, period) -> ListAt(h, period)
    [] OTHER -> 0

\* Variant: the current list becomes the previous one.
PreviousListKept(cur, b, period) == cur

\* The previous list is always asked for.
PreviousList(cur, b, period) == ListAt(PreEpochLast(b, period), period)

\* EpochRetryService.settlementChange up to the previous list.
SettleBegin ==
  /\ pc = "settle"
  /\ \E h \in NodeHeads :
       /\ h >= PreEpochLast(blk, SettlePeriod)
       /\ seen' = Epoch(h, SettlePeriod)
  /\ ers' = [ers EXCEPT !.preVer = PreviousList(ers.curVer, blk, SettlePeriod)]
  /\ pc' = "settleLists"
  /\ UNCHANGED <<chainHead, blk, booting, year, stat, maxNum, msgs, db, blockNode,
                 crashes, fails>>

\* Variant: the rate of a new year is not added.
RatesNever(y) == stat.rates

\* applyConfigChange adds a rate when the year differs from the known one.
RatesWith(y) == IF year # 0 /\ year # y THEN Append(stat.rates, y) ELSE stat.rates

\* Variant: the reward of the current epoch is divided before it is rotated.
RotatedLate(ers1, info, list) ==
  [ers1 EXCEPT !.preStake = [info |-> info, among |-> list],
               !.stake = [info |-> info, among |-> list]]

\* The reward per node of the epoch that ends is kept, that of the new epoch is
\* divided among the list.
Rotated(ers1, info, list) ==
  [ers1 EXCEPT !.preStake = ers1.stake, !.stake = [info |-> info, among |-> list]]

\* The rest of settlementChange; an empty list ends it in a division by zero
\* after the rotation, and it is retried.
SettleLists ==
  /\ pc = "settleLists"
  /\ \E h \in NodeHeads :
       LET list == CurrentList(blk, SettlePeriod, h)
           info == InfoAt(PreEpochLast(blk, SettlePeriod))
           asked == [ers EXCEPT !.curVer = list, !.reward = info]
       IN /\ seen > Epoch(blk, SettlePeriod) => h >= TargetBlock(blk, SettlePeriod)
          /\ IF list = 0
               THEN /\ ers' = [asked EXCEPT !.preStake = ers.stake]
                    /\ pc' = "settle"
                    /\ UNCHANGED <<year, stat>>
               ELSE /\ ers' = Rotated(asked, info, list)
                    /\ year' = YearOf[info]
                    /\ stat' = [reward |-> info, rates |-> RatesWith(YearOf[info])]
                    /\ pc' = AfterSettle
  /\ UNCHANGED <<chainHead, blk, booting, seen, maxNum, msgs, db, blockNode, crashes, fails>>

\* A request throws: the change starts again, with what it assigned so far.
SettleFail ==
  /\ pc \in {"settle", "settleLists"} /\ fails < MaxFail
  /\ \/ UNCHANGED ers
     \/ /\ pc = "settleLists"
        /\ \E h \in NodeHeads :
             ers' = [ers EXCEPT !.curVer = CurrentList(blk, SettlePeriod, h)]
  /\ pc' = "settle"
  /\ fails' = fails + 1
  /\ UNCHANGED <<chainHead, blk, booting, seen, year, stat, maxNum, msgs, db, blockNode,
                 crashes>>

\* EpochRetryService.consensusChange up to the previous list.
ConsensusBegin ==
  /\ pc = "consensus"
  /\ \E h \in NodeHeads :
       /\ h >= PreEpochLast(blk, ConsensusPeriod)
       /\ seen' = Epoch(h, ConsensusPeriod)
  /\ ers' = [ers EXCEPT !.preVal = PreviousList(ers.curVal, blk, ConsensusPeriod)]
  /\ pc' = "consensusLists"
  /\ UNCHANGED <<chainHead, blk, booting, year, stat, maxNum, msgs, db, blockNode,
                 crashes, fails>>

\* The rest of consensusChange; an empty list makes the expected block count a
\* division by zero, and the change is retried.
ConsensusLists ==
  /\ pc = "consensusLists"
  /\ \E h \in NodeHeads :
       LET list == CurrentList(blk, ConsensusPeriod, h)
       IN /\ seen > Epoch(blk, ConsensusPeriod) => h >= TargetBlock(blk, ConsensusPeriod)
          /\ ers' = [ers EXCEPT !.curVal = list]
          /\ pc' = IF list = 0 THEN "consensus" ELSE AfterConsensus
  /\ UNCHANGED <<chainHead, blk, booting, seen, year, stat, maxNum, msgs, db, blockNode,
                 crashes, fails>>

ConsensusFail ==
  /\ pc \in {"consensus", "consensusLists"} /\ fails < MaxFail
  /\ pc' = "consensus"
  /\ fails' = fails + 1
  /\ UNCHANGED <<chainHead, blk, booting, seen, ers, year, stat, maxNum, msgs, db,
                 blockNode, crashes>>

-----------------------------------------------------------------------------
(* block_node *)

\* CustomBlockNodeMapper.selectMaxNum
SelectMaxNum ==
  CHOOSE n \in 0..MaxBlock :
    /\ n = 0 \/ \E i \in DOMAIN blockNode : blockNode[i].num = n
    /\ \A i \in DOMAIN blockNode : blockNode[i].num =< n

KnownMax == IF maxNum = -1 THEN SelectMaxNum ELSE maxNum

\* Variant: every switch is recorded.
MissingAlways == TRUE

\* The guard against inserting the nodes of an epoch again.
Missing == (blk - 1) \div ConsensusPeriod >= KnownMax

\* EpochService.getEpochMessage records the validators of the new epoch.
Record ==
  /\ pc = "record"
  /\ IF Missing
       THEN /\ maxNum' = KnownMax + 1
            /\ blockNode' = Append(blockNode, [num |-> KnownMax + 1, list |-> ers.curVal])
       ELSE /\ maxNum' = KnownMax
            /\ UNCHANGED blockNode
  /\ pc' = "publish"
  /\ UNCHANGED <<chainHead, blk, booting, seen, ers, year, stat, msgs, db, crashes, fails>>

\* A statement throws; nobody catches it before the main loop, which breaks.
RecordFail ==
  /\ pc = "record" /\ fails < MaxFail
  /\ maxNum' \in {maxNum, KnownMax, IF Missing THEN KnownMax + 1 ELSE KnownMax}
  /\ pc' = "stopped"
  /\ fails' = fails + 1
  /\ UNCHANGED <<chainHead, blk, booting, seen, ers, year, stat, msgs, db, blockNode, crashes>>

-----------------------------------------------------------------------------
(* Publication, and the collection thread *)

\* The block leaves with a copy of the attributes; what the collection thread
\* is sure to see of the NetworkStat object is its state at this moment.
Publish ==
  /\ pc = "publish"
  /\ Len(msgs) < QueueSize
  /\ msgs' = Append(msgs, [blk |-> blk, ers |-> ers, stat |-> stat])
  /\ pc' = "next"
  /\ UNCHANGED <<chainHead, blk, booting, seen, ers, year, stat, maxNum, db, blockNode,
                 crashes, fails>>

\* The collection thread commits the next block, with the NetworkStat object as
\* it sees it: the fields the main thread has written since then may be visible
\* or not.  The genesis block is not recorded.
Commit ==
  /\ msgs # <<>>
  /\ msgs' = Tail(msgs)
  /\ LET m == Head(msgs)
     IN IF m.blk = 0 THEN UNCHANGED db
        ELSE \E r \in {m.stat.reward, stat.reward}, s \in {m.stat.rates, stat.rates} :
               db' = [db EXCEPT !.cur = m.blk, !.reward = r, !.rates = s]
  /\ UNCHANGED <<chainHead, pc, blk, booting, seen, ers, year, stat, maxNum, blockNode,
                 crashes, fails>>

-----------------------------------------------------------------------------

Settle == SettleBegin \/ SettleLists
Consensus == ConsensusBegin \/ ConsensusLists
Main == Start \/ InitDone \/ Request \/ Settle \/ Consensus \/ Record \/ Publish

Next ==
  \/ ChainGrow \/ Crash \/ Main \/ Commit
  \/ SettleFail \/ ConsensusFail \/ RecordFail

Spec == Init /\ [][Next]_vars

\* The main thread and the collection thread take the steps they can take; the
\* chain, crashes and exceptions owe nothing.
FairSpec == Spec /\ WF_vars(Main) /\ WF_vars(Commit)

-----------------------------------------------------------------------------
(* Properties *)

Lists == 0..(MaxBlock + 1)
Rewards == [info : Lists, among : Lists]
ErsType == [preVal : Lists, curVal : Lists, preVer : Lists, curVer : Lists,
            reward : Lists, stake : Rewards, preStake : Rewards]
StatType == [reward : Lists, rates : Seq(Nat)]

\* Every variable holds what its field in the code can hold.
TypeOK ==
  /\ chainHead \in Blocks \ {0}
  /\ pc \in {"down", "settle", "settleLists", "consensus", "consensusLists", "ready",
             "next", "record", "publish", "stopped"}
  /\ blk \in Heights /\ booting \in BOOLEAN /\ seen \in Lists
  /\ ers \in ErsType /\ year \in Nat /\ stat \in StatType
  /\ maxNum \in -1..Epoch(MaxBlock, ConsensusPeriod)
  /\ msgs \in Seq([blk : Blocks, ers : ErsType, stat : StatType])
  /\ db \in [made : BOOLEAN, cur : Heights, reward : Lists, rates : Seq(Nat)]
  /\ blockNode \in Seq([num : 1..Epoch(MaxBlock, ConsensusPeriod), list : Lists \ {0}])
  /\ crashes \in 0..MaxCrash /\ fails \in 0..MaxFail

Messages == {msgs[i] : i \in DOMAIN msgs}

\* The epoch b belongs to; the genesis block counts to the first.
Serving(b, period) == IF b =< 0 THEN 1 ELSE Epoch(b, period)
Before(b, period) == IF Serving(b, period) = 1 THEN 1 ELSE Serving(b, period) - 1

\* Every block is published with the nodes of the epochs before its own, also
\* after a restart in the middle of an epoch and after failed requests.
PreviousListsExact ==
  \A m \in Messages :
    /\ m.ers.preVal = Before(m.blk, ConsensusPeriod)
    /\ m.ers.preVer = Before(m.blk, SettlePeriod)

\* The first block of the epoch of b, and the list that a node as far behind as it
\* may be gives when that block is asked for.
FirstBlock(b, period) == IF b =< 0 THEN b ELSE PreEpochLast(b, period) + 1
Oldest(b, period) == Serving(FirstBlock(b, period) - NodeLag, period)

\* The current lists of a block, and those recorded in block_node, are never
\* those of an epoch before their own, but for what the node that answers may be
\* behind: with no such lag they serve in the block's epoch or in a later one.
CurrentListsNotOld ==
  /\ \A m \in Messages :
       /\ m.ers.curVal >= Oldest(m.blk, ConsensusPeriod)
       /\ m.ers.curVer >= Oldest(m.blk, SettlePeriod)
  /\ \A i \in DOMAIN blockNode :
       blockNode[i].list >= Serving(((i - 1) * ConsensusPeriod + 1) - NodeLag, ConsensusPeriod)

\* When a settlement epoch opens, the reward settled is the one of the epoch
\* that ended (Settle.stakingReward = preStakeReward), neither lost by a restart
\* nor rotated twice by a retry; every block has the rewards of its own epoch.
RewardsOfTheirEpoch ==
  \A m \in Messages :
    /\ m.ers.reward = Serving(m.blk, SettlePeriod)
    /\ m.ers.stake.info = Serving(m.blk, SettlePeriod)
    /\ Opens(m.blk, SettlePeriod) /\ m.blk > 1 =>
         m.ers.preStake.info = Serving(m.blk, SettlePeriod) - 1

\* block_node numbers the consensus epochs 1, 2, 3, ...: none is inserted twice
\* when the switch block is processed again after a crash (there are never more
\* batches than epochs), and none is missing for a block that is committed.
BlockNodeOnce ==
  /\ \A i \in DOMAIN blockNode : blockNode[i].num = i
  /\ Len(blockNode) =< Epoch(chainHead, ConsensusPeriod)
  /\ db.cur >= 1 => Len(blockNode) >= Epoch(db.cur, ConsensusPeriod)

YearsUpTo(b) == {YearOf[s] : s \in 1..Epoch(b, SettlePeriod)}
ListedYears == {db.rates[i] : i \in DOMAIN db.rates}

\* The row of a committed block has the rate of every issue year so far, and a
\* reward not older than the block's settlement epoch.
RowNotBehind ==
  db.cur >= 1 =>
    /\ YearsUpTo(db.cur) \subseteq ListedYears
    /\ db.reward >= Epoch(db.cur, SettlePeriod)

\* "Validators of the current consensus epoch" (EpochRetryService.curValidators):
\* a block is published with those of its own epoch.
CurrentValidatorsExact ==
  \A m \in Messages : m.ers.curVal = Serving(m.blk, ConsensusPeriod)

\* The issued amount takes one factor (1 + rate) per issue year (comment in
\* CalculateUtils.calculationIssueValue): no year has two rates.
OneRatePerYear == \A i, j \in DOMAIN db.rates : db.rates[i] = db.rates[j] => i = j

\* Every block of the chain is eventually committed, whatever switches it opens
\* and however often a change is retried, unless the main loop has broken.
EventuallyCommitted ==
  \A b \in Blocks : b > 0 => (chainHead >= b ~> db.cur >= b \/ pc = "stopped")
=============================================================================
