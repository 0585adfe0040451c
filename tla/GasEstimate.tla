----------------------------- MODULE GasEstimate -----------------------------
(***************************************************************************)
(* The gas estimates: for every delegator of a staking the number of       *)
(* settlement epochs since the delegation was last changed.                *)
(*                                                                         *)
(* The settlement handler of the collection thread writes a row into       *)
(* gas_estimate_log and publishes an event to a ring of its own, both      *)
(* before its MySQL transaction commits.  The ring's handler adds one to   *)
(* the epoch of the rows of gas_estimate, then deletes the log row.  The   *)
(* transactions of delegators reset or delete rows of gas_estimate.  At    *)
(* start-up the log rows that are left are published again.                *)
(*                                                                         *)
(* A retried block lists its transaction once more (copies) and analyses it*)
(* each time.  What that does to the amounts of a delegation is in         *)
(* Delegation; here a delegation whose row has another amount than the     *)
(* chain is a member of off, and a refund of it may take more or less than *)
(* what is left.                                                           *)
(*                                                                         *)
(* The estimates of one staking, which validates in every epoch; a         *)
(* settlement is named by its block, as seq is.                            *)
(***************************************************************************)
EXTENDS Integers, Sequences, FiniteSets

CONSTANTS
  Addrs,         \* delegators
  SettlePeriod,  \* blocks of a settlement epoch
  BufferSize,    \* GasEstimateBufferSize of the ring
  MaxBlock, MaxFail, MaxThrow, MaxCrash  \* bounds

ASSUME GasAssumption ==
  /\ IsFiniteSet(Addrs) /\ SettlePeriod \in Nat \ {0} /\ BufferSize \in Nat \ {0}
  /\ {MaxBlock, MaxFail, MaxThrow, MaxCrash} \subseteq Nat

VARIABLES
  num, tx,     \* the block in work, and its delegation transaction
  copies,      \* times the event lists the transaction
  pc,          \* where the main and the collection thread are
  replay,      \* settlements still to be published at start-up
  done,        \* last committed block
  mine,        \* rows changed in the open MySQL transaction (and locked by it)
  myLog,       \* has the open transaction written the block's log row?
  rows, logs,  \* gas_estimate and gas_estimate_log as committed
  off,         \* delegators whose delegation row is not what the chain has
  queue,       \* the ring: its head is the event in work
  hpc, prevSeq, \* the ring's handler
  truth,       \* epochs each delegator really has, as of block done
  applied,     \* times each settlement was counted
  swallowed,   \* settlements whose handling ended with an exception
  fails, crashes

collection == <<num, tx, copies, pc, replay, done, mine, myLog>>
ring == <<hpc, prevSeq>>
faults == <<fails, crashes>>
vars == <<collection, rows, logs, off, queue, ring, truth, applied, swallowed, faults>>

None == -1
NoTx == [type |-> "none"]

\* BlockService; OnSettleAnalyzer returns at block 1.
Settles(b) == (b - 1) % SettlePeriod = 0 /\ b > 1
Settlements == {b \in 1..MaxBlock : Settles(b)}

Init ==
  /\ num = 0 /\ tx = NoTx /\ copies = 1 /\ pc = "idle" /\ replay = {} /\ done = 0
  /\ mine = <<>> /\ myLog = FALSE
  /\ rows = [a \in Addrs |-> None] /\ logs = {} /\ off = {}
  /\ queue = <<>> /\ hpc = "idle" /\ prevSeq = 0
  /\ truth = [a \in Addrs |-> None]
  /\ applied = [s \in Settlements |-> 0] /\ swallowed = {}
  /\ fails = 0 /\ crashes = 0

-----------------------------------------------------------------------------
(* The collection thread *)

First(b) == IF Settles(b) THEN "log" ELSE "txs"

\* A delegator delegates, claims the reward, takes back a part or everything.
TxsOf(t) ==
  {NoTx} \cup {[type |-> "delegate", addr |-> a] : a \in Addrs}
  \cup {x \in [type : {"claim", "part", "exit"}, addr : Addrs] : t[x.addr] # None}

Begin ==
  /\ pc = "idle" /\ done < MaxBlock
  /\ num' = done + 1
  /\ tx' \in TxsOf(truth) /\ copies' = 1
  /\ pc' = First(num')
  /\ UNCHANGED <<replay, done, mine, myLog, rows, logs, off, queue, ring, truth, applied,
                 swallowed, faults>>

\* Variant: the log row is not written.
SettleLogNone ==
  /\ pc = "log"
  /\ pc' = "publish"
  /\ UNCHANGED <<num, tx, copies, replay, done, mine, myLog, rows, logs, off, queue, ring,
                 truth, applied, swallowed, faults>>

\* OnSettleAnalyzer: replace into gas_estimate_log.
SettleLog ==
  /\ pc = "log"
  /\ pc' = "publish"
  /\ myLog' = TRUE
  /\ UNCHANGED <<num, tx, copies, replay, done, mine, rows, logs, off, queue, ring, truth,
                 applied, swallowed, faults>>

\* Variant: an event that finds the ring full is dropped.
SettlePublishTry ==
  /\ pc = "publish"
  /\ queue' = IF Len(queue) < BufferSize THEN Append(queue, num) ELSE queue
  /\ pc' = "txs"
  /\ UNCHANGED <<num, tx, copies, replay, done, mine, myLog, rows, logs, off, ring, truth,
                 applied, swallowed, faults>>

\* Variant: no wait for a free slot.
SettlePublishNow ==
  /\ pc = "publish"
  /\ queue' = Append(queue, num)
  /\ pc' = "txs"
  /\ UNCHANGED <<num, tx, copies, replay, done, mine, myLog, rows, logs, off, ring, truth,
                 applied, swallowed, faults>>

\* ... and publish, which waits for a free slot.
SettlePublish ==
  /\ pc = "publish" /\ Len(queue) < BufferSize
  /\ queue' = Append(queue, num)
  /\ pc' = "txs"
  /\ UNCHANGED <<num, tx, copies, replay, done, mine, myLog, rows, logs, off, ring, truth,
                 applied, swallowed, faults>>

\* What an analysis of the transaction does to the delegator's row.
Reset == [a \in {tx.addr} |-> 0]
Deleted == [a \in {tx.addr} |-> None]

\* Variant: the reset names the staking, not the delegator.
TxChangeAll ==
  IF tx = NoTx THEN {<<>>}
  ELSE {[a \in Addrs |-> IF tx.type \in {"delegate", "claim", "part"} THEN 0 ELSE None]}

\* Variant: what is left of the delegation is not asked for.
TxChangeKept == IF tx = NoTx THEN {<<>>} ELSE {Reset}

\* DelegateCreateAnalyzer, DelegateRewardClaimAnalyzer, DelegateExitAnalyzer: the
\* last analysis decides.  A second part may take all that is left; a row that
\* is off leaves open what a refund does, and without it nothing is done.
TxChange ==
  CASE tx = NoTx -> {<<>>}
    [] tx.type \in {"delegate", "claim"} -> {Reset}
    [] tx.type \in {"part", "exit"} /\ tx.addr \in off -> {Reset, Deleted, <<>>}
    [] tx.type = "part" /\ tx.addr \notin off -> IF copies > 1 THEN {Reset, Deleted} ELSE {Reset}
    [] tx.type = "exit" /\ tx.addr \notin off -> {Deleted}

Txs ==
  /\ pc = "txs"
  /\ pc' = "commit"
  /\ mine' \in TxChange
  /\ UNCHANGED <<num, tx, copies, replay, done, myLog, rows, logs, off, queue, ring, truth,
                 applied, swallowed, faults>>

\* What the block makes of a delegator's epochs: the settlement, then the
\* transaction.
TrueAfter(a) ==
  IF tx # NoTx /\ tx.addr = a THEN IF tx.type = "exit" THEN None ELSE 0
  ELSE IF Settles(num) /\ truth[a] # None THEN truth[a] + 1
  ELSE truth[a]

\* The transactions that move an amount each time they are analysed; a refund of
\* everything and a claim do the same again.
Amounts == {"delegate", "part"}

\* A delegation counted twice is off until everything is taken back.
OffAfter ==
  CASE tx.type \in Amounts /\ copies > 1 -> off \cup {tx.addr}
    [] tx.type = "exit" /\ mine = Deleted -> off \ {tx.addr}
    [] OTHER -> off

Commit ==
  /\ pc = "commit"
  /\ pc' = "idle" /\ done' = num
  /\ rows' = [a \in Addrs |-> IF a \in DOMAIN mine THEN mine[a] ELSE rows[a]]
  /\ logs' = IF myLog THEN logs \cup {num} ELSE logs
  /\ off' = OffAfter
  /\ mine' = <<>> /\ myLog' = FALSE
  /\ truth' = [a \in Addrs |-> TrueAfter(a)]
  /\ UNCHANGED <<num, tx, copies, replay, queue, ring, applied, swallowed, faults>>

\* An exception: the transaction rolls back, what was published stays, and the
\* block is retried, its transactions appended to the list once more.
Rollback ==
  /\ pc \in {"log", "publish", "txs", "commit"} /\ fails < MaxFail
  /\ fails' = fails + 1
  /\ copies' = copies + 1
  /\ pc' = First(num)
  /\ mine' = <<>> /\ myLog' = FALSE
  /\ UNCHANGED <<num, tx, replay, done, rows, logs, off, queue, ring, truth, applied,
                 swallowed, crashes>>

-----------------------------------------------------------------------------
(* GasEstimateEventHandler *)

\* The message was handled just before: the event ends.
HandleRepeated ==
  /\ hpc = "idle" /\ queue # <<>> /\ Head(queue) = prevSeq
  /\ queue' = Tail(queue)
  /\ UNCHANGED <<collection, rows, logs, off, ring, truth, applied, swallowed, faults>>

\* updateGasEstimate, a statement of its own that scans the table: it waits
\* while the collection thread's transaction holds a row.
HandleUpdate ==
  /\ hpc = "idle" /\ queue # <<>> /\ Head(queue) # prevSeq
  /\ mine = <<>>
  /\ rows' = [a \in Addrs |-> IF rows[a] = None THEN None ELSE rows[a] + 1]
  /\ applied' = [applied EXCEPT ![Head(queue)] = @ + 1]
  /\ hpc' = "delete"
  /\ UNCHANGED <<collection, logs, off, queue, prevSeq, truth, swallowed, faults>>

\* deleteByPrimaryKey waits while the open transaction holds the log row.
HandleDelete ==
  /\ hpc = "delete" /\ ~(myLog /\ num = Head(queue))
  /\ logs' = logs \ {Head(queue)}
  /\ prevSeq' = Head(queue)
  /\ hpc' = "idle"
  /\ queue' = Tail(queue)
  /\ UNCHANGED <<collection, rows, off, truth, applied, swallowed, faults>>

\* Either statement may throw (a lost connection, a lock wait timeout): exec
\* logs the exception and returns, so that nothing retries the event.
HandleThrows ==
  /\ queue # <<>> /\ Head(queue) # prevSeq /\ Cardinality(swallowed) < MaxThrow
  /\ swallowed' = swallowed \cup {Head(queue)}
  /\ hpc' = "idle"
  /\ queue' = Tail(queue)
  /\ UNCHANGED <<collection, rows, logs, off, prevSeq, truth, applied, faults>>

-----------------------------------------------------------------------------
(* Restart *)

\* The process dies: the open transaction, the ring and the handler are gone.
Crash ==
  /\ crashes < MaxCrash
  /\ crashes' = crashes + 1
  /\ pc' = "boot" /\ replay' = logs
  /\ num' = done /\ tx' = NoTx /\ copies' = 1 /\ mine' = <<>> /\ myLog' = FALSE
  /\ queue' = <<>> /\ hpc' = "idle" /\ prevSeq' = 0
  /\ swallowed' = {}
  /\ UNCHANGED <<done, rows, logs, off, truth, applied, fails>>

\* InitializationService publishes the log rows that are left, ordered by seq.
Replay ==
  /\ pc = "boot" /\ Len(queue) < BufferSize
  /\ \E s \in replay :
       /\ \A t \in replay : s =< t
       /\ queue' = Append(queue, s)
       /\ replay' = replay \ {s}
  /\ UNCHANGED <<num, tx, copies, pc, done, mine, myLog, rows, logs, off, ring, truth, applied,
                 swallowed, faults>>

Booted ==
  /\ pc = "boot" /\ replay = {}
  /\ pc' = "idle"
  /\ UNCHANGED <<num, tx, copies, replay, done, mine, myLog, rows, logs, off, queue, ring,
                 truth, applied, swallowed, faults>>

Collect == Begin \/ SettleLog \/ SettlePublish \/ Txs \/ Commit \/ Replay \/ Booted
Handle == HandleRepeated \/ HandleUpdate \/ HandleDelete

Next == Collect \/ Rollback \/ Handle \/ HandleThrows \/ Crash

Spec == Init /\ [][Next]_vars

\* The threads run, and a statement that waits for a lock gets it in the end.
FairSpec ==
  Spec /\ WF_vars(Collect) /\ WF_vars(HandleRepeated) /\ SF_vars(HandleUpdate)
       /\ SF_vars(HandleDelete)

-----------------------------------------------------------------------------
(* Properties *)

\* The types of the state; the ring holds no more than its size.
TypeOK ==
  /\ num \in 0..MaxBlock /\ done \in {num - 1, num} \cap Nat
  /\ pc \in {"idle", "log", "publish", "txs", "commit", "boot"}
  /\ replay \subseteq Settlements /\ queue \in Seq(Settlements) /\ Len(queue) =< BufferSize
  /\ DOMAIN mine \subseteq Addrs /\ myLog \in BOOLEAN
  /\ copies \in 1..(MaxFail + 1) /\ off \subseteq Addrs
  /\ rows \in [Addrs -> Nat \cup {None}] /\ truth \in [Addrs -> Nat \cup {None}]
  /\ logs \subseteq Settlements /\ swallowed \subseteq Settlements
  /\ hpc \in {"idle", "delete"} /\ prevSeq \in Settlements \cup {0}
  /\ applied \in [Settlements -> Nat]

\* A committed settlement was counted, or its log row is there to count it
\* after the next start.
NothingUncounted ==
  \A s \in Settlements : s =< done => applied[s] > 0 \/ s \in logs

\* An estimate is never too low: with the settlements still to be counted, a
\* row has at least the epochs of its delegator, whatever resets it meanwhile
\* and whatever a retry does twice.
NeverTooLow ==
  \A a \in Addrs :
    rows[a] # None => rows[a] + Cardinality({s \in logs : applied[s] = 0}) >= truth[a]

\* "Everything is taken back: the record is deleted; a part: epoch = 0"
\* (DelegateExitAnalyzer): who has a delegation has an estimate, and no other,
\* unless a retry has left the delegation with another amount than the chain's.
RowsOfDelegators == \A a \in Addrs \ off : rows[a] = None <=> truth[a] = None

\* The same of every delegator: a part that is taken back twice in a retried block
\* may be all that is left.
RowsOfAllDelegators == \A a \in Addrs : rows[a] = None <=> truth[a] = None

\* A settlement is counted in the end, unless the handler threw on it.
EventuallyCounted ==
  \A s \in Settlements : (done >= s) ~> (applied[s] > 0 \/ s \in swallowed)

\* "If the sequence number equals the previous one, the message has been
\* handled already" (GasEstimateEventHandler): a settlement is counted once.
CountedOnce == \A s \in Settlements : applied[s] =< 1
=============================================================================
