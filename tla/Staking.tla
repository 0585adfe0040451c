------------------------------- MODULE Staking -------------------------------
(***************************************************************************)
(* The life of the validators' stakings in MySQL.                          *)
(*                                                                         *)
(* The collection thread folds every block into the tables staking (one row*)
(* per node and staking block) and node (one row per node, a copy of its   *)
(* latest staking): the election handler (low block rate), the consensus   *)
(* handler (double signing), the settlement handler, then the block's      *)
(* staking transactions, all in one MySQL transaction.  A report of double *)
(* signing waits in a cache in memory for the next consensus switch.  An   *)
(* exception rolls the tables back, not the cache, and the block is        *)
(* retried with its transactions analysed again (and so listed twice).     *)
(*                                                                         *)
(* chain is the platon chain itself: what the stakings really are.         *)
(***************************************************************************)
EXTENDS Integers, FiniteSets, Sequences, SequencesExt

CONSTANTS
  Nodes,             \* node ids
  GenesisNodes,      \* the nodes staked in the genesis block
  ConsensusPeriod, ElectionBackward, SettlePeriod,  \* ChainConfig, in blocks
  UnStakeFreeze, ZeroProduceFreeze,  \* settlement epochs of a freeze
  Threshold,         \* least stake of a candidate
  Penalty,           \* what a low block rate costs
  GenesisStake, StakeAmounts, IncreaseAmount,
  Penalised,         \* standings in which the chain penalises a low rate
  Reportable,        \* standings in which it accepts a report
  MaxSlashed,        \* nodes penalised at one election (bound)
  FaultsAnywhere,    \* may a fault strike where the code does not survive it?
  MaxBlock, MaxTx, MaxFail, MaxCrash  \* bounds

CANDIDATE == 1
EXITING == 2
EXITED == 3
LOCKED == 4
NORMAL == 1
REPORTED == 3    \* "MULTI_SIGN"
PUNISHED == 5    \* "MULTI_SIGN_SLASHED"

Standings == {"out", "candidate", "locked", "leaving"}

ASSUME StakingBounds ==
  /\ GenesisNodes \subseteq Nodes /\ IsFiniteSet(Nodes)
  /\ ConsensusPeriod \in Nat \ {0} /\ SettlePeriod \in Nat \ {0}
  /\ ElectionBackward \in 0..(ConsensusPeriod - 1)
  /\ UnStakeFreeze \in Nat /\ ZeroProduceFreeze \in Nat
  /\ Threshold \in Nat /\ Penalty \in Nat /\ GenesisStake \in Nat
  /\ StakeAmounts \subseteq Nat /\ IncreaseAmount \in Nat
  /\ Penalised \subseteq Standings \ {"out"} /\ Reportable \subseteq Standings \ {"out"}
  /\ FaultsAnywhere \in BOOLEAN
  /\ {MaxBlock, MaxTx, MaxFail, MaxCrash, MaxSlashed} \subseteq Nat

\* An epoch consists of consensus periods (BlockChainConfig), an election is never
\* at the end of a period, a freeze outlasts two periods, and the stake of the
\* genesis nodes is enough for a candidate.
ASSUME PeriodAssumption ==
  /\ SettlePeriod % ConsensusPeriod = 0 /\ ElectionBackward + 1 < ConsensusPeriod
  /\ 2 * ConsensusPeriod =< UnStakeFreeze * SettlePeriod
  /\ Threshold > 0 /\ Threshold =< GenesisStake

VARIABLES
  chain,       \* the chain's record of each node
  validators, elected, \* the validators of this consensus period and of the next
  block,       \* the block in work: number, nodes penalised, transaction
  txs,         \* transactions produced (bound)
  pc,          \* where the collection thread is in the block
  copies,      \* times the block's transactions are listed in the event
  db,          \* the tables as the MySQL transaction sees them
  saved,       \* the tables as committed
  reports,     \* ReportMultiSignParamCache: per node its pending reports
  fails, crashes

external == <<chain, validators, elected, block, txs>>
faults == <<fails, crashes>>
vars == <<external, pc, copies, db, saved, reports, faults>>

-----------------------------------------------------------------------------
(* Periods *)

Epoch(b) == (b + SettlePeriod - 1) \div SettlePeriod
OpensSettle(b) == (b - 1) % SettlePeriod = 0
OpensConsensus(b) == (b - 1) % ConsensusPeriod = 0
ConsensusRound(b) == (b + ConsensusPeriod - 1) \div ConsensusPeriod

\* BlockService: no election in the first consensus round.
Elects(b) == (b + ElectionBackward) % ConsensusPeriod = 0 /\ ConsensusRound(b) > 1

\* StakeEpochService.getUnStakeEndBlock without a proposal under vote.
UnStakeEnd(e) == (e + UnStakeFreeze) * SettlePeriod

Least0(a) == IF a > 0 THEN a ELSE 0

-----------------------------------------------------------------------------
(* The chain *)

Out == [st |-> "out", sbn |-> 0, hes |-> 0, locked |-> 0, until |-> 0, reported |-> 0]
NoTx == [type |-> "none"]

\* The first block of a settlement epoch: freezes that are over end, and stake
\* that is not leaving is locked.
Thaw(c, e) ==
  CASE c.st = "leaving" /\ c.until < e -> [c EXCEPT !.st = "out", !.locked = 0]
    [] c.st = "locked" /\ c.until < e ->
         [c EXCEPT !.st = "candidate", !.locked = @ + c.hes, !.hes = 0]
    [] OTHER -> [c EXCEPT !.locked = @ + c.hes, !.hes = 0]

\* A low block rate costs Penalty, out of the unlocked stake first; too little
\* left makes the node leave.
Penalise(c, e) ==
  LET left == c.hes + c.locked - Penalty IN
  IF c.st = "leaving" THEN [c EXCEPT !.locked = Least0(@ - Penalty)]
  ELSE IF left < Threshold
       THEN [c EXCEPT !.st = "leaving", !.locked = Least0(left), !.hes = 0,
                      !.until = e + UnStakeFreeze]
       ELSE [c EXCEPT !.st = "locked", !.hes = Least0(@ - Penalty),
                      !.locked = @ - Least0(Penalty - c.hes),
                      !.until = e + ZeroProduceFreeze]

\* What the transaction of block b makes of its node.
Apply(c, tx, b) ==
  CASE tx.type = "create" -> [Out EXCEPT !.st = "candidate", !.sbn = b, !.hes = tx.amount]
    [] tx.type = "increase" -> [c EXCEPT !.hes = @ + IncreaseAmount]
    [] tx.type = "exit" ->
         IF Epoch(c.sbn) < Epoch(b)
         THEN [c EXCEPT !.st = "leaving", !.hes = 0, !.until = Epoch(b) + UnStakeFreeze]
         ELSE [c EXCEPT !.st = "out", !.hes = 0, !.locked = 0]
    [] tx.type = "report" ->
         [c EXCEPT !.st = "leaving", !.reported = b,
                   !.until = IF c.st = "leaving" THEN @ ELSE Epoch(b) + UnStakeFreeze]

\* The transactions the chain accepts.
Accepted(c) ==
  {tx \in {[type |-> "create", node |-> n, amount |-> a] : n \in Nodes, a \in StakeAmounts} :
     c[tx.node].st = "out" /\ tx.amount >= Threshold}
  \cup {tx \in {[type |-> t, node |-> n] : t \in {"increase", "exit"}, n \in Nodes} :
     c[tx.node].st = "candidate"}
  \cup {tx \in {[type |-> "report", node |-> n, sbn |-> c[n].sbn] : n \in Nodes} :
     c[tx.node].st \in Reportable /\ c[tx.node].reported = 0}

\* A node may be elected for the next consensus period; one that was reported
\* or fell short may not.
Electable(c, low) ==
  {n \in Nodes : c[n].st \in {"candidate", "leaving"} /\ c[n].reported = 0 /\ n \notin low}

\* The chain's next block reaches the collection thread.
Produce ==
  /\ pc = "idle" /\ block.num < MaxBlock
  /\ LET b == block.num + 1
         c1 == IF OpensSettle(b) THEN [n \in Nodes |-> Thaw(chain[n], Epoch(b))] ELSE chain
         vals == IF OpensConsensus(b) THEN elected ELSE validators
         candidates == IF Elects(b)
                       THEN {n \in vals : c1[n].st \in Penalised /\ c1[n].reported = 0}
                       ELSE {}
     IN \E low \in {s \in SUBSET candidates : Cardinality(s) =< MaxSlashed} :
          LET c2 == [n \in Nodes |-> IF n \in low THEN Penalise(c1[n], Epoch(b)) ELSE c1[n]]
          IN \E tx \in {NoTx} \cup (IF txs < MaxTx THEN Accepted(c2) ELSE {}) :
               LET c3 == IF tx = NoTx THEN c2
                         ELSE [c2 EXCEPT ![tx.node] = Apply(@, tx, b)]
               IN /\ chain' = c3
                  /\ validators' = vals
                  /\ IF (b + ElectionBackward) % ConsensusPeriod = 0
                     THEN elected' \in {s \in SUBSET Electable(c3, low) : s # {}}
                     ELSE UNCHANGED elected
                  /\ block' = [num |-> b, low |-> low, tx |-> tx]
                  /\ txs' = IF tx = NoTx THEN txs ELSE txs + 1
  /\ pc' = "election"
  /\ copies' = 1
  /\ UNCHANGED <<db, saved, reports, faults>>

-----------------------------------------------------------------------------
(* The tables *)

Row == [status : {CANDIDATE, EXITING, EXITED, LOCKED},
        hes : Nat, locked : Nat, reduction : Nat,
        exc : {NORMAL, REPORTED, PUNISHED}, low : Nat, thaw : Nat, end : Nat]
NewRow(hes, locked, end) ==
  [status |-> CANDIDATE, hes |-> hes, locked |-> locked, reduction |-> 0,
   exc |-> NORMAL, low |-> 0, thaw |-> 0, end |-> end]

\* A staking is named by its node and its block; a node row names its staking.
Key(n, s) == <<n, s>>

\* Both tables take the same assignments; node is found by the node id alone.
Update(d, k, F(_)) ==
  [d EXCEPT !.staking[k] = F(@), !.node[k[1]].row = F(@)]

\* InitializationService.initInnerStake
Init ==
  /\ chain = [n \in Nodes |-> IF n \in GenesisNodes
                              THEN [Out EXCEPT !.st = "candidate", !.locked = GenesisStake]
                              ELSE Out]
  /\ validators = GenesisNodes /\ elected = GenesisNodes
  /\ block = [num |-> 0, low |-> {}, tx |-> NoTx] /\ txs = 0
  /\ pc = "idle" /\ copies = 0
  /\ LET first == NewRow(0, GenesisStake, UnStakeEnd(1)) IN
     db = [staking |-> [k \in {Key(n, 0) : n \in GenesisNodes} |-> first],
           node |-> [n \in GenesisNodes |-> [sbn |-> 0, row |-> first]],
           slash |-> {}]
  /\ saved = db
  /\ reports = [n \in Nodes |-> <<>>]
  /\ fails = 0 /\ crashes = 0

-----------------------------------------------------------------------------
(* OnElectionAnalyzer *)

\* The stakings it finds for the nodes the chain has penalised; one that was
\* penalised before is passed over.
LowRows(d) ==
  {k \in DOMAIN d.staking :
     /\ k[1] \in block.low
     /\ d.staking[k].status \in {CANDIDATE, EXITING}
     /\ d.staking[k].low = 0}

Exits(d) ==
  {k \in LowRows(d) :
     LET r == d.staking[k] IN r.status = EXITING \/ r.hes + r.locked - Penalty < Threshold}

Lock(d, k) ==
  LET s == d.staking[k] IN
  Update(d, k, LAMBDA r :
    [r EXCEPT !.status = LOCKED, !.low = @ + 1,
              !.hes = Least0(s.hes - Penalty),
              !.locked = s.locked - Least0(Penalty - s.hes),
              !.thaw = Epoch(block.num) + ZeroProduceFreeze])

\* The reduction is computed from the row's own columns; the end block is the
\* election's, one for all nodes that exit.
ExitLow(d, k, end) ==
  Update(d, k, LAMBDA r :
    [r EXCEPT !.status = EXITING, !.low = @ + 1,
              !.reduction = Least0(r.locked + r.hes - Penalty),
              !.hes = 0, !.locked = 0, !.end = end])

\* The election's unStakeEndBlock is the one the last exiting node set.
ElectionEnd(d, exiting) ==
  LET s == d.staking[Last(exiting)]
  IN IF s.status = EXITING THEN s.end ELSE UnStakeEnd(Epoch(block.num))

\* Locked nodes first, then the exiting ones.
SlashLow(d, locks, exiting) ==
  FoldLeft(LAMBDA x, k : ExitLow(x, k, ElectionEnd(d, exiting)),
           FoldLeft(Lock, d, locks), exiting)

Election ==
  /\ pc = "election"
  /\ pc' = "consensus"
  /\ IF Elects(block.num)
     THEN \E locks \in SetToSeqs(LowRows(db) \ Exits(db)), exiting \in SetToSeqs(Exits(db)) :
            db' = SlashLow(db, locks, exiting)
     ELSE UNCHANGED db
  /\ UNCHANGED <<external, copies, saved, reports, faults>>

-----------------------------------------------------------------------------
(* OnConsensusAnalyzer *)

\* Half of the locked stake, or of the reduction when nothing is locked.
SlashOf(r) == (IF r.locked = 0 THEN r.reduction ELSE r.locked) \div 2

\* What is left to redeem; in whole numbers, since the rate is below one.
RemainOf(r) ==
  IF r.status = EXITING THEN r.reduction - SlashOf(r)
  ELSE IF r.locked > 0 THEN r.locked - SlashOf(r) ELSE 0

\* slash(report): the staking the report names; everything becomes redeemable.
Slash(d, rep) ==
  LET k == Key(rep.node, rep.sbn)
      remain == RemainOf(d.staking[k])
      d1 == Update(d, k, LAMBDA r :
              [r EXCEPT !.status = IF remain >= 0 THEN EXITING ELSE EXITED,
                        !.reduction = Least0(remain),
                        !.hes = 0, !.locked = 0, !.exc = PUNISHED])
  IN [d1 EXCEPT !.slash = @ \cup {rep.hash}]

\* Variant: asks for the exiting ones, the status a reported node has on the chain.
ToPunishExiting(d) ==
  {n \in Nodes :
     /\ reports[n] # <<>> /\ n \notin validators
     /\ \E k \in DOMAIN d.staking :
          k[1] = n /\ d.staking[k].exc = REPORTED /\ d.staking[k].status = EXITING}

\* The reported nodes that do not validate in the period and whose staking is
\* marked: getException asks for the mark only, not for the status.
ToPunish(d) ==
  {n \in Nodes :
     /\ reports[n] # <<>> /\ n \notin validators
     /\ \E k \in DOMAIN d.staking : k[1] = n /\ d.staking[k].exc = REPORTED}

PendingOf(nodes) == FoldLeft(LAMBDA s, n : s \o reports[n], <<>>, SetToSeq(nodes))

\* The table slash has the transaction's hash as its key: a report listed twice
\* makes the handler throw, on every retry.
NoDuplicate(d, seq) ==
  /\ \A i \in DOMAIN seq : seq[i].hash \notin d.slash
  /\ \A i, j \in DOMAIN seq : seq[i].hash = seq[j].hash => i = j

Consensus ==
  /\ pc = "consensus"
  /\ pc' = "settle"
  /\ IF OpensConsensus(block.num)
     THEN LET nodes == ToPunish(db) IN
          /\ NoDuplicate(db, PendingOf(nodes))
          /\ db' = FoldLeft(Slash, db, PendingOf(nodes))
          /\ reports' = [n \in Nodes |-> IF n \in nodes THEN <<>> ELSE reports[n]]
     ELSE UNCHANGED <<db, reports>>
  /\ UNCHANGED <<external, copies, saved, faults>>

-----------------------------------------------------------------------------
(* OnSettleAnalyzer *)

\* Variant: one epoch early.
ReturnsEarly(r) == r.status = LOCKED /\ r.thaw =< Epoch(block.num)

\* A locked node's freeze is over.
Returns(r) == r.status = LOCKED /\ r.thaw < Epoch(block.num)

\* An exiting staking has reached its end block.
Ends(r) == r.status = EXITING /\ block.num >= r.end

Settled(r) ==
  [r EXCEPT !.locked = @ + r.hes, !.hes = 0,
            !.reduction = IF Ends(r) THEN 0 ELSE @,
            !.low = IF Ends(r) \/ Returns(r) THEN 0 ELSE @,
            !.exc = IF Returns(r) THEN NORMAL ELSE @,
            !.status = IF Ends(r) THEN EXITED ELSE IF Returns(r) THEN CANDIDATE ELSE @]

\* Variant: the staking rows are found by the node id alone.
SettleRowByNode(d, k) ==
  [d EXCEPT !.staking = [x \in DOMAIN @ |-> IF x[1] = k[1] THEN Settled(@[k]) ELSE @[x]],
            !.node[k[1]].row = Settled(d.staking[k])]

\* The row read from staking is written to both tables, its freezes are not.
SettleRow(d, k) ==
  LET s == d.staking[k]
  IN Update(d, k, LAMBDA r : [Settled(s) EXCEPT !.thaw = r.thaw, !.end = r.end])

Unsettled(d) == {k \in DOMAIN d.staking : d.staking[k].status # EXITED}

Settle ==
  /\ pc = "settle"
  /\ pc' = "txs"
  /\ IF OpensSettle(block.num) /\ block.num > 1
     THEN \E order \in SetToSeqs(Unsettled(db)) : db' = FoldLeft(SettleRow, db, order)
     ELSE UNCHANGED db
  /\ UNCHANGED <<external, copies, saved, reports, faults>>

-----------------------------------------------------------------------------
(* The transactions *)

\* Variant: the upsert leaves the node's status alone.
CreateKeepStatus(d, tx) ==
  LET row == NewRow(tx.amount, 0, UnStakeEnd(Epoch(block.num)))
      k == Key(tx.node, block.num)
      new == IF tx.node \notin DOMAIN d.node THEN row
             ELSE [row EXCEPT !.status = d.node[tx.node].row.status]
  IN [d EXCEPT !.staking = [x \in DOMAIN @ \cup {k} |-> IF x = k THEN row ELSE @[x]],
               !.node = [n \in DOMAIN @ \cup {tx.node} |->
                           IF n = tx.node THEN [sbn |-> block.num, row |-> new] ELSE @[n]]]

\* StakeCreateAnalyzer: a new staking row; the node row, if there is one, keeps
\* what the upsert does not name (locked, reduction and the freeze).
Create(d, tx) ==
  LET row == NewRow(tx.amount, 0, UnStakeEnd(Epoch(block.num)))
      k == Key(tx.node, block.num)
      old == d.node[tx.node].row
      new == IF tx.node \notin DOMAIN d.node THEN row
             ELSE [row EXCEPT !.locked = old.locked, !.reduction = old.reduction,
                              !.thaw = old.thaw]
  IN [d EXCEPT !.staking = [x \in DOMAIN @ \cup {k} |-> IF x = k THEN row ELSE @[x]],
               !.node = [n \in DOMAIN @ \cup {tx.node} |->
                           IF n = tx.node THEN [sbn |-> block.num, row |-> new] ELSE @[n]]]

\* StakeIncreaseAnalyzer
Increase(d, tx) ==
  LET k == Key(tx.node, chain[tx.node].sbn)
  IN Update(d, k, LAMBDA r : [r EXCEPT !.hes = @ + IncreaseAmount])

\* Variant: the locked stake is copied to the reduction, not moved.
ExitKeepLocked(d, tx) ==
  LET k == Key(tx.node, chain[tx.node].sbn)
  IN IF Epoch(k[2]) < Epoch(block.num)
     THEN Update(d, k, LAMBDA r :
            [r EXCEPT !.status = IF r.locked > 0 THEN EXITING ELSE EXITED,
                      !.reduction = r.locked, !.hes = 0,
                      !.end = UnStakeEnd(Epoch(block.num))])
     ELSE Update(d, k, LAMBDA r :
            [r EXCEPT !.status = EXITED, !.locked = 0, !.hes = 0, !.reduction = 0])

\* StakeExitAnalyzer: lockedExit, or unlockExit in the epoch of the creation.
Exit(d, tx) ==
  LET k == Key(tx.node, chain[tx.node].sbn)
  IN IF Epoch(k[2]) < Epoch(block.num)
     THEN Update(d, k, LAMBDA r :
            [r EXCEPT !.status = IF r.locked > 0 THEN EXITING ELSE EXITED,
                      !.reduction = r.locked, !.locked = 0, !.hes = 0,
                      !.end = UnStakeEnd(Epoch(block.num))])
     ELSE Update(d, k, LAMBDA r :
            [r EXCEPT !.status = EXITED, !.locked = 0, !.hes = 0, !.reduction = 0])

\* ReportAnalyzer on the tables: the mark, and for a candidate the end block.
Mark(d, tx) ==
  LET k == Key(tx.node, tx.sbn)
      first == d.node[tx.node].row.status = CANDIDATE
      mark(r) == [r EXCEPT !.exc = REPORTED,
                           !.end = IF first THEN UnStakeEnd(Epoch(block.num)) ELSE @]
  IN Update(d, k, mark)

Handle(d, tx) ==
  CASE tx.type = "create" -> Create(d, tx)
    [] tx.type = "increase" -> Increase(d, tx)
    [] tx.type = "exit" -> Exit(d, tx)
    [] tx.type = "report" -> Mark(d, tx)

ReportOf(tx) == [node |-> tx.node, sbn |-> tx.sbn, hash |-> block.num]

\* PPOSService.analyze: every transaction the event lists.
Txs ==
  /\ pc = "txs"
  /\ pc' = "commit"
  /\ LET tx == block.tx
         listed == [i \in 1..copies |-> tx]
     IN /\ db' = IF tx = NoTx THEN db ELSE FoldLeft(Handle, db, listed)
        /\ reports' = IF tx.type = "report"
                      THEN [reports EXCEPT ![tx.node] = @ \o [i \in 1..copies |-> ReportOf(tx)]]
                      ELSE reports
  /\ UNCHANGED <<external, copies, saved, faults>>

-----------------------------------------------------------------------------
(* The MySQL transaction *)

Commit ==
  /\ pc = "commit"
  /\ pc' = "idle"
  /\ saved' = db
  /\ copies' = 0
  /\ UNCHANGED <<external, db, reports, faults>>

\* No report is pending, in the tables or in the block.
Quiet ==
  /\ block.tx.type # "report"
  /\ \A k \in DOMAIN saved.staking : saved.staking[k].exc # REPORTED

\* A retried increase or exit is counted twice.
Repeatable == block.tx.type \in {"none", "create"}

\* An exception anywhere in the block: the tables go back, the cache does not,
\* and the retry adds the block's transactions to those listed already.
Fail ==
  /\ pc # "idle" /\ fails < MaxFail
  /\ FaultsAnywhere \/ (Quiet /\ Repeatable)
  /\ pc' = "election"
  /\ db' = saved
  /\ copies' = copies + 1
  /\ fails' = fails + 1
  /\ UNCHANGED <<external, saved, reports, crashes>>

\* The process dies and starts again from the block after the last committed.
Crash ==
  /\ crashes < MaxCrash
  /\ FaultsAnywhere \/ Quiet
  /\ crashes' = crashes + 1
  /\ db' = saved
  /\ reports' = [n \in Nodes |-> <<>>]
  /\ pc' = IF pc = "idle" THEN "idle" ELSE "election"
  /\ copies' = IF pc = "idle" THEN 0 ELSE 1
  /\ UNCHANGED <<external, saved, fails>>

Next == Produce \/ Election \/ Consensus \/ Settle \/ Txs \/ Commit \/ Fail \/ Crash

Spec == Init /\ [][Next]_vars

-----------------------------------------------------------------------------
(* Properties of the committed tables *)

Rows == DOMAIN saved.staking

\* The types of the state.
TypeOK ==
  /\ \A n \in Nodes : chain[n].st \in Standings
  /\ validators \subseteq Nodes /\ elected \subseteq Nodes
  /\ pc \in {"idle", "election", "consensus", "settle", "txs", "commit"}
  /\ copies \in 0..(MaxFail + 1)
  /\ \A d \in {db, saved} :
       /\ \A k \in DOMAIN d.staking : d.staking[k] \in Row
       /\ \A n \in DOMAIN d.node : d.node[n].row \in Row

\* A node has at most one staking that is not exited: the handlers that find
\* stakings by node and status find one.
OneActiveStaking ==
  \A j, k \in Rows :
    j[1] = k[1] /\ saved.staking[j].status # EXITED /\ saved.staking[k].status # EXITED
      => j = k

\* The node row is a copy of the node's last staking (OnSettleAnalyzer and the
\* slash mappers update it by the node id alone).
NodeMirrorsStaking ==
  \A n \in DOMAIN saved.node :
    LET row == saved.node[n].row
        s == saved.node[n].sbn
        last == saved.staking[Key(n, s)]
    IN /\ \A k \in Rows : k[1] = n => k[2] =< s
       /\ row = [last EXCEPT !.thaw = row.thaw]

\* Rows found by the node alone and rows found by node and block tell the same:
\* a node has one active staking, its last, and the node row copies it.
NodeRowsAgree == OneActiveStaking /\ NodeMirrorsStaking

\* "Of the locked and the redeemable amount only one has a value"
\* (OnConsensusAnalyzer, the base of a double-sign slash), in both tables.
OneAmount ==
  /\ \A k \in Rows : saved.staking[k].locked = 0 \/ saved.staking[k].reduction = 0
  /\ \A n \in DOMAIN saved.node :
       saved.node[n].row.locked = 0 \/ saved.node[n].row.reduction = 0

\* The staking the chain has for n, where the tables know it.
Known(n) == Key(n, chain[n].sbn) \in Rows
RowOf(n) == saved.staking[Key(n, chain[n].sbn)]

Shown(st) == CASE st = "candidate" -> CANDIDATE [] st = "locked" -> LOCKED
               [] st = "leaving" -> EXITING [] st = "out" -> EXITED

\* Once a block is committed, every staking has the chain's status; a reported
\* candidate may wait for the consensus switch.
StatusFollowsChain ==
  pc = "idle" =>
    \A n \in Nodes : Known(n) =>
      \/ RowOf(n).status = Shown(chain[n].st)
      \/ RowOf(n).status = CANDIDATE /\ RowOf(n).exc = REPORTED /\ chain[n].st = "leaving"

\* And the chain's stake, split into free and locked, while it is staked.
AmountsFollowChain ==
  pc = "idle" =>
    \A n \in Nodes : Known(n) /\ chain[n].st \in {"candidate", "locked"} =>
      RowOf(n).hes = chain[n].hes /\ RowOf(n).locked = chain[n].locked

\* A staking that leaves has the block at which the chain releases it.
EndFollowsChain ==
  pc = "idle" =>
    \A n \in Nodes : Known(n) /\ chain[n].st = "leaving" =>
      RowOf(n).end = chain[n].until * SettlePeriod

\* Elections, consensus switches, settlements and transactions leave each row
\* with the chain's status, amounts and end block once the block is committed.
RowFollowsChain == StatusFollowsChain /\ AmountsFollowChain /\ EndFollowsChain

\* A staking that leaves shows what the chain will pay back.
ReductionFollowsChain ==
  pc = "idle" =>
    \A n \in Nodes : Known(n) /\ chain[n].st = "leaving" /\ chain[n].reported = 0 =>
      RowOf(n).reduction = chain[n].locked

\* After a report the node is marked, and punished when the consensus period
\* changes (ReportAnalyzer), as soon as it no longer validates.
PunishedAtSwitch ==
  pc = "idle" =>
    \A n \in Nodes :
      /\ chain[n].reported > 0 /\ n \notin validators
      /\ ConsensusRound(chain[n].reported) < ConsensusRound(block.num)
      => RowOf(n).exc = PUNISHED

\* An exited staking stays as it is.
ExitedFinal ==
  [][\A k \in Rows : saved.staking[k].status = EXITED
       => saved'.staking[k] = saved.staking[k]]_vars
=============================================================================
