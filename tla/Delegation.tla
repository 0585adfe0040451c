----------------------------- MODULE Delegation ------------------------------
(***************************************************************************)
(* The delegations to one node: the table delegation (a row per delegator  *)
(* and staking), the totals kept in staking and node, and the task that    *)
(* moves ended delegations from MySQL to Elasticsearch.                    *)
(*                                                                         *)
(* A delegation is free (hes) until the next settlement, then locked; when *)
(* the staking ends, by the staker or by a punishment, it is released and  *)
(* its delegator takes it back.  A node may be staked again later; a       *)
(* staking is named by its number.  What a block does to the tables is one *)
(* step: it is one MySQL transaction.  An attempt that fails is rolled     *)
(* back, and the next attempt finds the block's transactions once more in  *)
(* the event's list and analyses each of them again (copies).              *)
(*                                                                         *)
(* owed is the chain: what each delegator has in each staking.             *)
(***************************************************************************)
EXTENDS Integers, FiniteSets, Functions

CONSTANTS
  Addrs,            \* delegators
  Threshold,        \* DelegateThreshold: less than this left is paid back in full
  Amounts,          \* amounts delegated
  Refunds,          \* amounts asked back
  PunishLeaving,    \* may a staking that is leaving be punished?
  MaxStaking,       \* stakings of the node (bound)
  MaxTx, MaxThrow,  \* delegation transactions, failures of the task (bounds)
  MaxFail, MaxCrash \* failed attempts at a block, ends of the process (bounds)

ASSUME DelegationAssumption ==
  /\ IsFiniteSet(Addrs) /\ Threshold \in Nat
  /\ Amounts \subseteq {n \in Nat : n >= Threshold} /\ Refunds \subseteq Nat \ {0}
  /\ PunishLeaving \in BOOLEAN
  /\ MaxStaking \in Nat \ {0} /\ {MaxTx, MaxThrow, MaxFail, MaxCrash} \subseteq Nat

Keys == Addrs \X (1..MaxStaking)

VARIABLES
  owed,         \* the chain's delegations
  last,         \* the node's last staking
  delegation,   \* the table: a partial function from Keys
  staking,      \* per staking: status and totals
  node,         \* the node row: totals and numbers of delegators
  es,           \* keys of the delegations stored in Elasticsearch
  task, picked, \* DelegateMigrateTask: where it is, the rows it read
  copies,       \* times the event in work lists the block's transactions
  exact,        \* has no transaction been analysed more than once?
  txs, throws, fails, crashes

tables == <<delegation, staking, node>>
migration == <<es, task, picked>>
faults == <<throws, fails, crashes>>
vars == <<owed, last, tables, migration, copies, exact, txs, faults>>

CANDIDATE == 1
EXITING == 2
EXITED == 3

NewStaking == [status |-> CANDIDATE, hes |-> 0, locked |-> 0, released |-> 0]

Init ==
  /\ owed = [k \in Keys |-> 0] /\ last = 1
  /\ delegation = [k \in {} |-> 0]
  /\ staking = [g \in {1} |-> NewStaking]
  /\ node = [value |-> 0, released |-> 0, valid |-> 0, invalid |-> 0]
  /\ es = {} /\ task = "idle" /\ picked = {}
  /\ copies = 1 /\ exact = TRUE /\ txs = 0 /\ throws = 0 /\ fails = 0 /\ crashes = 0

-----------------------------------------------------------------------------
(* Delegating *)

Live(d, k) == k \in DOMAIN d /\ ~d[k].history
Total(r) == r.hes + r.locked + r.released

\* DelegateCreateMapper: the delegators of the node but this one.
OthersDelegating(d, a) ==
  Cardinality({k \in DOMAIN d : Live(d, k) /\ d[k].released = 0 /\ k[1] # a})

\* insert into delegation, or add to the row and make it live again.
Upsert(d, k, amount) ==
  LET old == d[k]
      row == IF k \in DOMAIN d
             THEN [old EXCEPT !.hes = @ + amount, !.history = FALSE]
             ELSE [hes |-> amount, locked |-> 0, released |-> 0, history |-> FALSE]
  IN [x \in DOMAIN d \cup {k} |-> IF x = k THEN row ELSE d[x]]

\* DelegateCreateAnalyzer: the tables after a delegation.
Delegated(t, k, amount) ==
  [delegation |-> Upsert(t.delegation, k, amount),
   staking |-> [t.staking EXCEPT ![k[2]].hes = @ + amount],
   node |-> [t.node EXCEPT !.value = @ + amount,
                           !.valid = OthersDelegating(t.delegation, k[1]) + 1]]

-----------------------------------------------------------------------------
(* Taking back: DelegateExitAnalyzer *)

\* Less than the threshold left: everything is paid back.
RefundsAll(r, amount) == Total(r) - amount < Threshold
RealRefund(r, amount) == IF RefundsAll(r, amount) THEN Total(r) ELSE amount

NotNegative(n) == IF n < 0 THEN 0 ELSE n

\* Variant: everything comes off the free part.
BalanceFree(r, leaving, real) ==
  IF leaving THEN [r EXCEPT !.hes = 0, !.locked = 0, !.released = NotNegative(@ - real)]
  ELSE [r EXCEPT !.hes = @ - real]

\* The row's new amounts (balance): released first for a staking that has
\* ended, else the free part if it is enough, else the locked part makes up.
Balance(r, leaving, real) ==
  CASE leaving -> [r EXCEPT !.hes = 0, !.locked = 0, !.released = NotNegative(@ - real)]
    [] ~leaving /\ r.hes >= real -> [r EXCEPT !.hes = @ - real]
    [] OTHER -> [r EXCEPT !.hes = 0, !.locked = NotNegative(@ + r.hes - real)]

\* Variant: the locked part is decreased by what the free part lacks, the free
\* part is not decreased.
DecreaseLacking(r, leaving, real) ==
  CASE leaving -> [hes |-> 0, locked |-> 0, released |-> real]
    [] ~leaving /\ r.hes >= real -> [hes |-> real, locked |-> 0, released |-> 0]
    [] OTHER -> [hes |-> 0, locked |-> real - r.hes, released |-> r.released]

\* What is taken off the staking (decrease): with too little free it all comes
\* off the locked total.
Decrease(r, leaving, real) ==
  CASE leaving -> [hes |-> 0, locked |-> 0, released |-> real]
    [] ~leaving /\ r.hes >= real -> [hes |-> real, locked |-> 0, released |-> 0]
    [] OTHER -> [hes |-> 0, locked |-> real, released |-> r.released]

\* Variant: the node's numbers are not told apart.
CountsAfterValid(n, all, leaving) == [valid |-> n.valid - (IF all THEN 1 ELSE 0),
                                      invalid |-> n.invalid]

\* The node's numbers of delegators after a refund.
CountsAfter(n, all, leaving) ==
  [valid |-> n.valid - (IF all /\ ~leaving THEN 1 ELSE 0),
   invalid |-> n.invalid - (IF all /\ leaving THEN 1 ELSE 0)]

\* The tables after a refund; nothing is done without a row.
TakenBack(t, k, amount) ==
  IF k \notin DOMAIN t.delegation THEN t
  ELSE LET r == t.delegation[k]
           g == k[2]
           leaving == t.staking[g].status \in {EXITING, EXITED}
           all == RefundsAll(r, amount)
           real == RealRefund(r, amount)
           dec == Decrease(r, leaving, real)
       IN [delegation |-> [t.delegation EXCEPT ![k] =
                             [Balance(r, leaving, real) EXCEPT !.history = all]],
           staking |-> [t.staking EXCEPT ![g].hes = @ - dec.hes,
                                         ![g].locked = @ - dec.locked,
                                         ![g].released = @ - dec.released],
           node |-> [t.node EXCEPT !.value = IF leaving THEN @ ELSE @ - real,
                                   !.released = @ - dec.released,
                                   !.valid = CountsAfter(t.node, all, leaving).valid,
                                   !.invalid = CountsAfter(t.node, all, leaving).invalid]]

-----------------------------------------------------------------------------
(* The life of the staking *)

\* Delegators of the node with a live row, in any staking.
Delegating(d) == Cardinality({k[1] : k \in {x \in DOMAIN d : ~d[x].history}})

\* The node row when a staking ends, computed after the delegations.
NodeAfterEnd(n, d) ==
  [value |-> 0, released |-> n.released + n.value, valid |-> 0, invalid |-> Delegating(d)]

EndedTotals(s, st) ==
  [s EXCEPT !.status = st, !.hes = 0, !.locked = 0, !.released = s.hes + s.locked]

\* StakeExitMapper: a delegation is released.
Release(r) == [r EXCEPT !.released = r.hes + r.locked, !.hes = 0, !.locked = 0]

\* StakeExitAnalyzer, lockedExit or unlockExit: the tables after the exit of the
\* staking g.  A second exit finds nothing locked and ends the staking at once.
Exited(t, g, st) ==
  LET d == [k \in DOMAIN t.delegation |->
              IF k[2] = g /\ ~t.delegation[k].history THEN Release(t.delegation[k])
              ELSE t.delegation[k]]
  IN [delegation |-> d,
      staking |-> [t.staking EXCEPT ![g] =
                     EndedTotals(@, IF @.status = CANDIDATE THEN st ELSE EXITED)],
      node |-> NodeAfterEnd(t.node, d)]

-----------------------------------------------------------------------------
(* Blocks *)

\* PPOSService.analyzePPosTx
Handle(t, tx) ==
  CASE tx.type = "delegate" -> Delegated(t, tx.key, tx.amount)
    [] tx.type = "undelegate" -> TakenBack(t, tx.key, tx.amount)
    [] tx.type = "stakeExit" -> Exited(t, tx.staking, tx.status)

\* PPOSService.analyze: the block's transaction, n times in the list.
Analysed(t, tx, n) ==
  LET after[i \in 0..n] == IF i = 0 THEN t ELSE Handle(after[i - 1], tx)
  IN after[n]

\* A block with this transaction is collected, and commits.
Collected(tx) ==
  /\ LET t == Analysed([delegation |-> delegation, staking |-> staking, node |-> node],
                       tx, copies)
     IN delegation' = t.delegation /\ staking' = t.staking /\ node' = t.node
  /\ exact' = (exact /\ copies = 1)
  /\ copies' = 1

\* The chain accepts a delegation to a candidate.
Delegate(a, amount) ==
  /\ staking[last].status = CANDIDATE /\ txs < MaxTx
  /\ txs' = txs + 1
  /\ owed' = [owed EXCEPT ![<<a, last>>] = @ + amount]
  /\ Collected([type |-> "delegate", key |-> <<a, last>>, amount |-> amount])
  /\ UNCHANGED <<last, migration, faults>>

Undelegate(k, amount) ==
  /\ amount =< owed[k] /\ txs < MaxTx
  /\ txs' = txs + 1
  /\ owed' = [owed EXCEPT ![k] = IF @ - amount < Threshold THEN 0 ELSE @ - amount]
  /\ Collected([type |-> "undelegate", key |-> k, amount |-> amount])
  /\ UNCHANGED <<last, migration, faults>>

\* Frozen, or ended at once in the epoch of the staking's creation.
StakeExit ==
  /\ staking[last].status = CANDIDATE
  /\ \E st \in {EXITING, EXITED} :
       Collected([type |-> "stakeExit", staking |-> last, status |-> st])
  /\ UNCHANGED <<owed, last, migration, txs, faults>>

\* EpochSettleMapper: free becomes locked, and a freeze that is over ends.
Settle ==
  /\ delegation' = [k \in DOMAIN delegation |->
       LET r == delegation[k] IN
       IF ~r.history /\ r.hes > 0 THEN [r EXCEPT !.locked = @ + r.hes, !.hes = 0] ELSE r]
  /\ \E over \in SUBSET {g \in DOMAIN staking : staking[g].status = EXITING} :
       staking' = [g \in DOMAIN staking |->
         LET s == staking[g]
             t == IF s.hes > 0 THEN [s EXCEPT !.locked = @ + s.hes, !.hes = 0] ELSE s
         IN [t EXCEPT !.status = IF g \in over THEN EXITED ELSE @]]
  /\ copies' = 1
  /\ UNCHANGED <<owed, last, node, migration, exact, txs, faults>>

\* SlashReportMapper and EpochElectionMapper, slashNode: what a delegation has
\* released already is kept; the staking's released total is set anew.  Not a
\* transaction of the block: a retry does it once, as the attempt did.
Punish ==
  /\ staking[last].status = CANDIDATE \/ (PunishLeaving /\ staking[last].status = EXITING)
  /\ delegation' = [k \in DOMAIN delegation |->
       LET r == delegation[k] IN
       IF k[2] = last /\ ~r.history
       THEN [Release(r) EXCEPT !.released = @ + r.released] ELSE r]
  /\ node' = NodeAfterEnd(node, delegation')
  /\ staking' = [staking EXCEPT ![last] = EndedTotals(@, EXITING)]
  /\ copies' = 1
  /\ UNCHANGED <<owed, last, migration, exact, txs, faults>>

\* The node is staked again; its row keeps the delegation totals.  The staking
\* is replaced as a whole, so that a second analysis changes nothing.
Restake ==
  /\ staking[last].status = EXITED /\ last < MaxStaking
  /\ last' = last + 1
  /\ staking' = [g \in DOMAIN staking \cup {last'} |->
                   IF g = last' THEN NewStaking ELSE staking[g]]
  /\ copies' = 1
  /\ UNCHANGED <<owed, delegation, node, migration, exact, txs, faults>>

\* An attempt at a block fails: MySQL takes it back, the event's list does not.
Fail ==
  /\ fails < MaxFail
  /\ fails' = fails + 1
  /\ copies' = copies + 1
  /\ UNCHANGED <<owed, last, tables, migration, exact, txs, throws, crashes>>

-----------------------------------------------------------------------------
(* DelegateMigrateTask, on a thread of its own *)

History == {k \in DOMAIN delegation : delegation[k].history}

TaskSelect ==
  /\ task = "idle" /\ History # {}
  /\ picked' = History
  /\ task' = "save"
  /\ UNCHANGED <<owed, last, tables, es, copies, exact, txs, faults>>

\* Variant: nothing is written to Elasticsearch.
TaskSaveNothing ==
  /\ task = "save"
  /\ task' = "delete"
  /\ UNCHANGED <<owed, last, tables, es, picked, copies, exact, txs, faults>>

TaskSave ==
  /\ task = "save"
  /\ es' = es \cup picked
  /\ task' = "delete"
  /\ UNCHANGED <<owed, last, tables, picked, copies, exact, txs, faults>>

\* Variant: the rows read are deleted, whatever they are now.
ToDeletePicked == picked

\* Variant: the condition is reversed.
ToDeleteLive == picked \ History

\* batchDeleteIsHistory: those of the rows read that are history still.
ToDelete == picked \cap History

TaskDelete ==
  /\ task = "delete"
  /\ delegation' = [k \in DOMAIN delegation \ ToDelete |-> delegation[k]]
  /\ task' = "idle" /\ picked' = {}
  /\ UNCHANGED <<owed, last, staking, node, es, copies, exact, txs, faults>>

\* A failed request or statement: the exception is caught, and the next run of
\* the task starts over.
TaskThrows ==
  /\ task # "idle" /\ throws < MaxThrow
  /\ throws' = throws + 1
  /\ task' = "idle" /\ picked' = {}
  /\ UNCHANGED <<owed, last, tables, es, copies, exact, txs, fails, crashes>>

\* The process ends: the block is fetched again, the task starts over.
Crash ==
  /\ crashes < MaxCrash
  /\ crashes' = crashes + 1
  /\ copies' = 1
  /\ task' = "idle" /\ picked' = {}
  /\ UNCHANGED <<owed, last, tables, es, exact, txs, throws, fails>>

DelegateSome == \E a \in Addrs, n \in Amounts : Delegate(a, n)
UndelegateSome == \E k \in Keys, n \in Refunds : Undelegate(k, n)

Next ==
  \/ DelegateSome \/ UndelegateSome \/ Settle \/ StakeExit \/ Punish \/ Restake
  \/ Fail \/ Crash \/ TaskSelect \/ TaskSave \/ TaskDelete \/ TaskThrows

Spec == Init /\ [][Next]_vars

\* The task is scheduled every thirty seconds.
FairSpec == Spec /\ WF_vars(TaskSelect) /\ WF_vars(TaskSave) /\ WF_vars(TaskDelete)

-----------------------------------------------------------------------------
(* Properties *)

Row == [hes : Nat, locked : Nat, released : Nat, history : BOOLEAN]

\* The types of the state; a delegation's amounts are never negative.
TypeOK ==
  /\ owed \in [Keys -> Nat] /\ last \in 1..MaxStaking
  /\ DOMAIN delegation \subseteq Keys
  /\ \A k \in DOMAIN delegation : delegation[k] \in Row
  /\ DOMAIN staking = 1..last
  /\ copies \in 1..(MaxFail + 1) /\ exact \in BOOLEAN
  /\ es \subseteq Keys /\ picked \subseteq Keys /\ task \in {"idle", "save", "delete"}

RowTotal(k) == IF k \in DOMAIN delegation THEN Total(delegation[k]) ELSE 0

RowsAreOwed == \A k \in Keys : RowTotal(k) = owed[k]

\* Every delegation has the amount the chain owes, unless a retry has analysed a
\* transaction again: refunds are computed as the chain does, and the task never
\* deletes a row that is live again.
RowsFollowChain == exact => RowsAreOwed

\* The sum over the delegations of a staking.
SumOver(g, F(_)) ==
  SumFunctionOnSet([k \in DOMAIN delegation |-> F(delegation[k])],
                   {k \in DOMAIN delegation : k[2] = g})

\* A staking's free and locked totals together are those of its delegations
\* (DelegateExitAnalyzer takes them off another way than off the rows).
StakingSums ==
  \A g \in DOMAIN staking :
    staking[g].hes + staking[g].locked = SumOver(g, LAMBDA r : r.hes + r.locked)

\* "To keep delegate_released from becoming 0 when the node has left before,
\* delegate_released itself is added" (EpochElectionMapper.xml): a staking's
\* released total is that of its delegations.
ReleasedSums ==
  \A g \in DOMAIN staking : staking[g].released = SumOver(g, LAMBDA r : r.released)

\* "Not enough free: off stat_delegate_hes and stat_delegate_locked, both of
\* the delegation and of the staking" (DelegateExitAnalyzer).
SplitAgrees ==
  \A g \in DOMAIN staking :
    /\ staking[g].hes = SumOver(g, LAMBDA r : r.hes)
    /\ staking[g].locked = SumOver(g, LAMBDA r : r.locked)

\* The node's totals are those of its stakings: the last one's delegations, and
\* what is released in any, where no exit was analysed twice.
NodeSums ==
  /\ node.value = staking[last].hes + staking[last].locked
  /\ exact => node.released =
       SumFunctionOnSet([g \in DOMAIN staking |-> staking[g].released], DOMAIN staking)

\* "If the block number is that of the block before, it is a block handled again,
\* because of the retry: do not count twice" (PPOSService): no delegation has
\* more than the chain owes.
NotCountedTwice == \A k \in Keys : RowTotal(k) =< owed[k]

\* The totals kept in staking and node, each moved by statements of its own, are
\* those of the delegation rows: what a retry counts again it counts again in all
\* of them (StakeExitMapper sets the released amount of rows and staking both).
TotalsAgree == StakingSums /\ ReleasedSums /\ NodeSums

\* The node's number of valid delegators is the number of those who have a
\* delegation in its staking, unless a retry has analysed a transaction again.
ValidAddrs ==
  exact => node.valid = IF staking[last].status = CANDIDATE
                        THEN Cardinality({a \in Addrs : owed[<<a, last>>] > 0})
                        ELSE 0

\* A delegation that has ended is in the table or in Elasticsearch: a row is
\* deleted after it was stored.
EndedKept ==
  [][\A k \in DOMAIN delegation \ DOMAIN delegation' : k \in es]_vars

\* An ended delegation leaves the table, unless it is made live again.
HistoryMigrates == \A k \in Keys : (k \in History) ~> (k \notin History)
=============================================================================
