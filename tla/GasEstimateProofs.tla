--------------------------- MODULE GasEstimateProofs ---------------------------
(***************************************************************************)
(* What holds of the gas estimates of GasEstimate.tla for any delegators,  *)
(* settlement period, ring size and bounds: a committed settlement was     *)
(* counted or its log row is there to count it, and with those still to be *)
(* counted no estimate is too low.                                         *)
(*                                                                         *)
(* The handler may count a settlement before the block that published it   *)
(* commits; EstimateInv keeps the one such settlement apart (Early).       *)
(***************************************************************************)
EXTENDS GasEstimate, FiniteSetTheorems, TLAPS

Transactions == [type : {"delegate", "claim", "part", "exit"}, addr : Addrs]

\* The collection thread between two blocks, and in one.
ThreadInv ==
  /\ done =< MaxBlock
  /\ pc \in {"idle", "boot"} => num = done /\ ~myLog
  /\ pc \in {"log", "publish", "txs", "commit"} => num = done + 1 /\ num =< MaxBlock
  /\ pc \in {"log", "publish"} => Settles(num)
  /\ myLog => Settles(num)
  /\ pc \in {"publish", "txs", "commit"} /\ Settles(num) => myLog
  /\ tx = NoTx \/ tx \in Transactions
  /\ IF pc = "commit" THEN mine \in TxChange ELSE mine = <<>>
  /\ fails =< MaxFail /\ fails \in Nat /\ copies =< fails + 1

\* Only the block in work may be published, counted or both ahead of its commit.
QueueInv ==
  /\ \A s \in logs \cup replay : s =< done
  /\ \A i \in DOMAIN queue : queue[i] =< done + 1
  /\ \A s \in Settlements : applied[s] > 0 => s =< done + 1
  /\ hpc = "delete" => queue # <<>> /\ applied[Head(queue)] > 0

Uncounted == {s \in logs : applied[s] = 0}
Early == IF done + 1 \in Settlements /\ applied[done + 1] > 0 THEN 1 ELSE 0

EstimateInv ==
  \A a \in Addrs :
    rows[a] # None => rows[a] + Cardinality(Uncounted) >= truth[a] + Early

GasInv == TypeOK /\ ThreadInv /\ QueueInv /\ NothingUncounted /\ EstimateInv

-----------------------------------------------------------------------------

LEMMA SettlementsNat == \A s \in Settlements : s \in Nat /\ s >= 1 /\ s =< MaxBlock
BY GasAssumption DEF Settlements

LEMMA SettlesIs == \A b \in 1..MaxBlock : Settles(b) <=> b \in Settlements
BY DEF Settlements

LEMMA NoneIs == None = -1 /\ None \in Int /\ None \notin Nat
BY DEF None

\* What a transaction makes of a row, however often it is analysed.
LEMMA ChangeIs ==
  ASSUME ThreadInv, NEW m \in TxChange
  PROVE  /\ DOMAIN m \subseteq Addrs
         /\ \A a \in DOMAIN m : m[a] \in {0, None} /\ tx # NoTx /\ tx.addr = a
<1>1. CASE m = <<>>
  <2>1. DOMAIN m = {}
    BY <1>1
  <2> QED
    BY <2>1
<1>2. CASE m # <<>>
  <2>1. tx # NoTx
    <3>1. tx = NoTx => TxChange = {<<>>}
      <4>1. tx = NoTx => tx.type = "none"
        BY DEF NoTx
      <4> QED
        BY <4>1 DEF TxChange
    <3> QED
      BY <1>2, <3>1
  <2>2. tx \in Transactions
    BY <2>1 DEF ThreadInv
  <2>3. tx.addr \in Addrs /\ tx.type \in {"delegate", "claim", "part", "exit"}
    BY <2>2 DEF Transactions
  <2>4. m \in {Reset, Deleted, <<>>}
    <3>1. CASE tx.type \in {"delegate", "claim"}
      BY <2>1, <3>1 DEF TxChange
    <3>2. CASE tx.type \in {"part", "exit"} /\ tx.addr \in off
      BY <2>1, <3>2 DEF TxChange
    <3>3. CASE tx.type = "part" /\ tx.addr \notin off
      BY <2>1, <3>3 DEF TxChange
    <3>4. CASE tx.type = "exit" /\ tx.addr \notin off
      BY <2>1, <3>4 DEF TxChange
    <3> QED
      BY <2>3, <3>1, <3>2, <3>3, <3>4
  <2>5. CASE m = Reset
    BY <2>1, <2>3, <2>5 DEF Reset
  <2>6. CASE m = Deleted
    BY <2>1, <2>3, <2>6 DEF Deleted
  <2> QED
    BY <1>2, <2>4, <2>5, <2>6
<1> QED
  BY <1>1, <1>2

LEMMA UncountedFinite ==
  ASSUME GasInv
  PROVE  IsFiniteSet(Uncounted) /\ Cardinality(Uncounted) \in Nat
<1>1. done \in Nat
  BY DEF GasInv, TypeOK
<1>2. \A s \in logs : s \in Settlements /\ s =< done
  BY DEF GasInv, TypeOK, QueueInv
<1>3. \A s \in Uncounted : s \in 1..done
  BY <1>1, <1>2, SettlementsNat DEF Uncounted
<1>4. IsFiniteSet(1..done)
  BY <1>1, FS_Interval
<1> QED
  BY <1>3, <1>4, FS_Subset, FS_CardinalityType

\* The ring's operations.
LEMMA Appended ==
  ASSUME NEW T, NEW q \in Seq(T), NEW e \in T
  PROVE  /\ Append(q, e) \in Seq(T) /\ Len(Append(q, e)) = Len(q) + 1 /\ Append(q, e) # <<>>
         /\ q # <<>> => Head(Append(q, e)) = Head(q)
         /\ \A i \in DOMAIN Append(q, e) :
              Append(q, e)[i] = e \/ (i \in DOMAIN q /\ Append(q, e)[i] = q[i])
<1>1. Append(q, e) \in Seq(T) /\ Len(Append(q, e)) = Len(q) + 1
  OBVIOUS
<1>4. Append(q, e) # <<>>
  <2>1. Len(q) + 1 # 0 /\ Len(<<>>) = 0
    OBVIOUS
  <2> QED
    BY <1>1, <2>1
<1>2. q # <<>> => Head(Append(q, e)) = Head(q)
  OBVIOUS
<1>3. ASSUME NEW i \in DOMAIN Append(q, e)
      PROVE  Append(q, e)[i] = e \/ (i \in DOMAIN q /\ Append(q, e)[i] = q[i])
  <2>1. i \in 1..(Len(q) + 1)
    BY <1>1
  <2>2. CASE i = Len(q) + 1
    BY <2>2
  <2>3. CASE i \in 1..Len(q)
    BY <2>3
  <2> QED
    BY <2>1, <2>2, <2>3
<1> QED
  BY <1>1, <1>2, <1>3, <1>4

LEMMA Taken ==
  ASSUME NEW T, NEW q \in Seq(T), q # <<>>
  PROVE  /\ Tail(q) \in Seq(T) /\ Len(Tail(q)) = Len(q) - 1 /\ Head(q) \in T
         /\ Len(q) >= 1 /\ 1 \in DOMAIN q /\ Head(q) = q[1]
         /\ \A i \in DOMAIN Tail(q) : i + 1 \in DOMAIN q /\ Tail(q)[i] = q[i + 1]
OBVIOUS

LEMMA GasInit == Init => GasInv
<1> SUFFICES ASSUME Init PROVE GasInv
  OBVIOUS
<1> USE GasAssumption DEF Init
<1>1. TypeOK
  <2>1. rows \in [Addrs -> Nat \cup {None}] /\ truth \in [Addrs -> Nat \cup {None}]
    OBVIOUS
  <2>2. applied \in [Settlements -> Nat]
    OBVIOUS
  <2>3. queue \in Seq(Settlements) /\ Len(queue) =< BufferSize /\ DOMAIN mine \subseteq Addrs
    OBVIOUS
  <2>4. num \in 0..MaxBlock /\ done \in {num - 1, num} \cap Nat
    OBVIOUS
  <2>5. copies \in 1..(MaxFail + 1) /\ off \subseteq Addrs
    OBVIOUS
  <2> QED
    BY <2>1, <2>2, <2>3, <2>4, <2>5 DEF TypeOK
<1>2. ThreadInv
  BY DEF ThreadInv, Settles
<1>3. QueueInv
  BY DEF QueueInv
<1>4. NothingUncounted
  BY SettlementsNat DEF NothingUncounted
<1>5. EstimateInv
  <2>1. Uncounted = {}
    BY DEF Uncounted
  <2> QED
    BY <2>1 DEF EstimateInv
<1> QED
  BY <1>1, <1>2, <1>3, <1>4, <1>5 DEF GasInv

-----------------------------------------------------------------------------
(* Types *)

LEMMA GasFacts ==
  ASSUME GasInv
  PROVE  /\ done \in Nat /\ num \in Nat /\ num =< MaxBlock /\ done =< MaxBlock
         /\ queue \in Seq(Settlements) /\ Len(queue) =< BufferSize
         /\ logs \subseteq Settlements /\ applied \in [Settlements -> Nat]
         /\ BufferSize \in Nat /\ MaxBlock \in Nat /\ 1 \in 1..(MaxFail + 1)
BY GasAssumption DEF GasInv, TypeOK, ThreadInv

LEMMA PublishedTyped ==
  ASSUME GasInv, NEW s \in Settlements, Len(queue) < BufferSize, queue' = Append(queue, s)
  PROVE  queue' \in Seq(Settlements) /\ Len(queue') =< BufferSize
<1>1. Len(queue) \in Nat
  BY GasFacts
<1> QED
  BY <1>1, GasFacts, Appended

LEMMA EndedTyped ==
  ASSUME GasInv, queue # <<>>, queue' = Tail(queue)
  PROVE  queue' \in Seq(Settlements) /\ Len(queue') =< BufferSize /\ Head(queue) \in Settlements
<1>1. Len(queue) \in Nat
  BY GasFacts
<1> QED
  BY <1>1, GasFacts, Taken

LEMMA TypesKept == GasInv /\ [Next]_vars => TypeOK'
<1> SUFFICES ASSUME GasInv, [Next]_vars PROVE TypeOK'
  OBVIOUS
<1> USE DEF collection, ring, faults
<1>1. CASE Begin
  <2>1. num' = done + 1 /\ num' \in 0..MaxBlock /\ done' = done
    BY <1>1, GasFacts DEF Begin
  <2>2. pc' \in {"idle", "log", "publish", "txs", "commit", "boot"}
    BY <1>1 DEF Begin, First
  <2> QED
    BY <1>1, <2>1, <2>2, GasFacts DEF Begin, GasInv, TypeOK
<1>2. CASE SettleLog
  BY <1>2 DEF SettleLog, GasInv, TypeOK
<1>3. CASE SettlePublish
  <2>1. num \in Settlements
    BY <1>3, SettlesIs, GasFacts DEF SettlePublish, GasInv, ThreadInv
  <2>2. queue' \in Seq(Settlements) /\ Len(queue') =< BufferSize
    BY <1>3, <2>1, PublishedTyped DEF SettlePublish
  <2> QED
    BY <1>3, <2>2 DEF SettlePublish, GasInv, TypeOK
<1>4. CASE Txs
  <2>1. DOMAIN mine' \subseteq Addrs
    BY <1>4, ChangeIs DEF Txs, GasInv
  <2> QED
    BY <1>4, <2>1 DEF Txs, GasInv, TypeOK
<1>5. CASE Commit
  <2>1. num = done + 1 /\ num \in Nat /\ mine \in TxChange
    BY <1>5, GasFacts DEF Commit, GasInv, ThreadInv
  <2>2. done' \in {num' - 1, num'} \cap Nat /\ num' \in 0..MaxBlock
    BY <1>5, <2>1, GasFacts DEF Commit
  <2>3. rows' \in [Addrs -> Nat \cup {None}]
    <3>1. \A a \in DOMAIN mine : mine[a] \in Nat \cup {None}
      BY <2>1, ChangeIs, NoneIs DEF GasInv
    <3>2. \A a \in Addrs : rows[a] \in Nat \cup {None}
      BY DEF GasInv, TypeOK
    <3> QED
      BY <1>5, <3>1, <3>2 DEF Commit
  <2>4. truth' \in [Addrs -> Nat \cup {None}]
    <3>1. \A a \in Addrs : truth[a] \in Nat \cup {None}
      BY DEF GasInv, TypeOK
    <3>2. \A a \in Addrs : TrueAfter(a) \in Nat \cup {None}
      BY <3>1 DEF TrueAfter
    <3> QED
      BY <1>5, <3>2 DEF Commit
  <2>5. logs' \subseteq Settlements
    BY <1>5, GasFacts, SettlesIs DEF Commit, GasInv, ThreadInv
  <2>6. DOMAIN mine' \subseteq Addrs
    BY <1>5 DEF Commit
  <2>7. off' \subseteq Addrs
    <3>1. tx # NoTx => tx.addr \in Addrs
      BY DEF GasInv, ThreadInv, Transactions
    <3>2. tx = NoTx => tx.type = "none"
      BY DEF NoTx
    <3>3. off \subseteq Addrs
      BY DEF GasInv, TypeOK
    <3>4. OffAfter \subseteq Addrs
      BY <3>1, <3>2, <3>3 DEF OffAfter, Amounts
    <3> QED
      BY <1>5, <3>4 DEF Commit
  <2> QED
    BY <1>5, <2>2, <2>3, <2>4, <2>5, <2>6, <2>7 DEF Commit, GasInv, TypeOK
<1>6. CASE Rollback
  <2>1. pc' \in {"idle", "log", "publish", "txs", "commit", "boot"} /\ DOMAIN mine' \subseteq Addrs
    BY <1>6 DEF Rollback, First
  <2>2. fails \in Nat /\ fails < MaxFail /\ copies =< fails + 1 /\ copies \in 1..(MaxFail + 1)
    BY <1>6 DEF Rollback, GasInv, ThreadInv, TypeOK
  <2>3. copies' \in 1..(MaxFail + 1)
    BY <1>6, <2>2, GasAssumption DEF Rollback
  <2> QED
    BY <1>6, <2>1, <2>3 DEF Rollback, GasInv, TypeOK
<1>7. CASE HandleRepeated
  <2>1. queue' \in Seq(Settlements) /\ Len(queue') =< BufferSize
    BY <1>7, EndedTyped DEF HandleRepeated
  <2> QED
    BY <1>7, <2>1 DEF HandleRepeated, GasInv, TypeOK
<1>8. CASE HandleUpdate
  <2>1. \A a \in Addrs : rows[a] \in Nat \cup {None}
    BY DEF GasInv, TypeOK
  <2>2. rows' \in [Addrs -> Nat \cup {None}]
    BY <1>8, <2>1 DEF HandleUpdate
  <2>3. applied' \in [Settlements -> Nat]
    BY <1>8, GasFacts DEF HandleUpdate
  <2> QED
    BY <1>8, <2>2, <2>3 DEF HandleUpdate, GasInv, TypeOK
<1>9. CASE HandleDelete
  <2>1. queue' \in Seq(Settlements) /\ Len(queue') =< BufferSize /\ Head(queue) \in Settlements
    BY <1>9, EndedTyped DEF HandleDelete, GasInv, QueueInv
  <2> QED
    BY <1>9, <2>1 DEF HandleDelete, GasInv, TypeOK
<1>10. CASE HandleThrows
  <2>1. queue' \in Seq(Settlements) /\ Len(queue') =< BufferSize /\ Head(queue) \in Settlements
    BY <1>10, EndedTyped DEF HandleThrows
  <2> QED
    BY <1>10, <2>1 DEF HandleThrows, GasInv, TypeOK
<1>11. CASE Crash
  <2>1. num' = done /\ done' = done /\ done \in 0..MaxBlock
    BY <1>11, GasFacts DEF Crash
  <2>2. queue' \in Seq(Settlements) /\ Len(queue') =< BufferSize /\ DOMAIN mine' \subseteq Addrs
    BY <1>11, GasFacts DEF Crash
  <2> QED
    BY <1>11, <2>1, <2>2, GasFacts DEF Crash, GasInv, TypeOK
<1>12. CASE Replay
  <2>1. PICK s \in replay : queue' = Append(queue, s) /\ replay' = replay \ {s}
    BY <1>12 DEF Replay
  <2>2. s \in Settlements
    BY DEF GasInv, TypeOK
  <2>3. queue' \in Seq(Settlements) /\ Len(queue') =< BufferSize
    BY <1>12, <2>1, <2>2, PublishedTyped DEF Replay
  <2> QED
    BY <1>12, <2>1, <2>3 DEF Replay, GasInv, TypeOK
<1>13. CASE Booted
  BY <1>13 DEF Booted, GasInv, TypeOK
<1>14. CASE UNCHANGED vars
  BY <1>14 DEF vars, GasInv, TypeOK
<1> QED
  BY <1>1, <1>2, <1>3, <1>4, <1>5, <1>6, <1>7, <1>8, <1>9, <1>10, <1>11, <1>12, <1>13, <1>14
  DEF Next, Collect, Handle

-----------------------------------------------------------------------------
(* The threads *)

LEMMA ThreadKept == GasInv /\ [Next]_vars => ThreadInv'
<1> SUFFICES ASSUME GasInv, [Next]_vars PROVE ThreadInv'
  OBVIOUS
<1> USE DEF collection, ring, faults
<1>1. ThreadInv
  BY DEF GasInv
<1>2. CASE Begin
  <2>1. tx' \in TxsOf(truth) /\ num' = done + 1 /\ done < MaxBlock /\ pc = "idle"
        /\ pc' = First(num') /\ UNCHANGED <<done, mine, myLog>>
    BY <1>2 DEF Begin
  <2>2. tx' = NoTx \/ tx' \in Transactions
    BY <2>1 DEF TxsOf, Transactions
  <2>3. mine' = <<>> /\ ~myLog'
    BY <1>1, <2>1 DEF ThreadInv
  <2>4. pc' = (IF Settles(num') THEN "log" ELSE "txs") /\ done' =< MaxBlock
        /\ num' = done' + 1 /\ num' =< MaxBlock
    BY <2>1, GasFacts DEF First
  <2>5. fails' =< MaxFail /\ fails' \in Nat /\ copies' =< fails' + 1
    BY <1>1, <1>2 DEF ThreadInv, Begin
  <2>6. pc' # "commit"
    BY <2>4
  <2> QED
    BY <2>2, <2>3, <2>4, <2>5, <2>6 DEF ThreadInv, Settles
<1>3. CASE SettleLog
  BY <1>1, <1>3 DEF SettleLog, ThreadInv, Settles, TxChange
<1>4. CASE SettlePublish
  BY <1>1, <1>4 DEF SettlePublish, ThreadInv, Settles, TxChange
<1>5. CASE Txs
  <2>1. mine' \in TxChange'
    BY <1>5 DEF Txs, TxChange, Reset, Deleted
  <2>2. UNCHANGED <<num, tx, copies, done, myLog, fails>> /\ pc = "txs" /\ pc' = "commit"
    BY <1>5 DEF Txs
  <2> QED
    BY <1>1, <2>1, <2>2 DEF ThreadInv, Settles
<1>6. CASE Commit
  BY <1>1, <1>6, GasFacts DEF Commit, ThreadInv, Settles
<1>7. CASE Rollback
  <2>1. fails' =< MaxFail /\ fails' \in Nat /\ copies' =< fails' + 1
    BY <1>1, <1>7, GasAssumption DEF Rollback, ThreadInv, GasInv, TypeOK
  <2>2. mine' = <<>> /\ ~myLog' /\ pc' # "commit"
    BY <1>7 DEF Rollback, First
  <2> QED
    BY <1>1, <1>7, <2>1, <2>2 DEF Rollback, ThreadInv, Settles, First
<1>8. CASE Handle \/ HandleThrows \/ UNCHANGED vars
  <2>1. UNCHANGED <<num, tx, copies, pc, done, mine, myLog, off, fails>>
    BY <1>8 DEF Handle, HandleRepeated, HandleUpdate, HandleDelete, HandleThrows, vars
  <2>2. TxChange' = TxChange
    BY <2>1 DEF TxChange, Reset, Deleted
  <2> QED
    BY <1>1, <2>1, <2>2 DEF ThreadInv, Settles
<1>9. CASE Crash
  BY <1>1, <1>9, GasFacts DEF Crash, ThreadInv, Settles
<1>10. CASE Replay
  BY <1>1, <1>10 DEF Replay, ThreadInv, Settles, TxChange
<1>11. CASE Booted
  BY <1>1, <1>11 DEF Booted, ThreadInv, Settles, TxChange
<1> QED
  BY <1>2, <1>3, <1>4, <1>5, <1>6, <1>7, <1>8, <1>9, <1>10, <1>11 DEF Next, Collect

-----------------------------------------------------------------------------
(* The ring and the log *)

\* Publishing the settlement s, while the handler may be at work on the head.
LEMMA PublishKeepsQueue ==
  ASSUME GasInv, NEW s \in Settlements, s =< done + 1, queue' = Append(queue, s),
         UNCHANGED <<done, logs, applied, hpc>>, replay' \subseteq replay
  PROVE  QueueInv'
<1>1. QueueInv /\ queue \in Seq(Settlements)
  BY GasFacts DEF GasInv
<1>2. \A i \in DOMAIN queue' : queue'[i] =< done'+ 1
  BY <1>1, Appended DEF QueueInv
<1>3. hpc' = "delete" => queue' # <<>> /\ applied'[Head(queue')] > 0
  BY <1>1, Appended DEF QueueInv
<1> QED
  BY <1>1, <1>2, <1>3 DEF QueueInv

\* An event ends, and the handler is idle.
LEMMA EventEnds ==
  ASSUME GasInv, queue # <<>>, queue' = Tail(queue), hpc' = "idle",
         UNCHANGED <<done, replay, applied>>, logs' \subseteq logs
  PROVE  QueueInv'
<1>1. QueueInv /\ queue \in Seq(Settlements)
  BY GasFacts DEF GasInv
<1>2. \A i \in DOMAIN queue' : queue'[i] =< done' + 1
  BY <1>1, Taken DEF QueueInv
<1> QED
  BY <1>1, <1>2 DEF QueueInv

LEMMA QueueKept == GasInv /\ [Next]_vars => QueueInv'
<1> SUFFICES ASSUME GasInv, [Next]_vars PROVE QueueInv'
  OBVIOUS
<1> USE DEF collection, ring, faults
<1>1. QueueInv
  BY DEF GasInv
<1>2. CASE Begin \/ SettleLog \/ Txs \/ Rollback \/ Booted \/ UNCHANGED vars
  <2>1. UNCHANGED <<replay, done, logs, queue, hpc, applied>>
    BY <1>2 DEF Begin, SettleLog, Txs, Rollback, Booted, vars
  <2> QED
    BY <1>1, <2>1 DEF QueueInv
<1>3. CASE SettlePublish
  <2>1. num \in Settlements /\ num = done + 1
    BY <1>3, SettlesIs, GasFacts DEF SettlePublish, GasInv, ThreadInv
  <2> QED
    BY <1>3, <2>1, GasFacts, PublishKeepsQueue DEF SettlePublish
<1>4. CASE Replay
  <2>1. PICK s \in replay : queue' = Append(queue, s) /\ replay' = replay \ {s}
    BY <1>4 DEF Replay
  <2>2. s \in Settlements /\ s =< done
    BY <1>1 DEF QueueInv, GasInv, TypeOK
  <2>3. s =< done + 1
    BY <2>2, GasFacts, SettlementsNat
  <2>4. UNCHANGED <<done, logs, applied, hpc>> /\ replay' \subseteq replay
    BY <1>4, <2>1 DEF Replay
  <2> QED
    BY <2>1, <2>2, <2>3, <2>4, PublishKeepsQueue
<1>5. CASE Commit
  <2>1. done' = num /\ num = done + 1 /\ logs' \subseteq logs \cup {num}
        /\ UNCHANGED <<replay, queue, hpc, applied>>
    BY <1>5 DEF Commit, GasInv, ThreadInv
  <2>2. done' \in Nat /\ done \in Nat /\ done' = done + 1
    BY <2>1, GasFacts
  <2>3. \A s \in logs \cup replay : s \in Nat
    BY SettlementsNat DEF GasInv, TypeOK
  <2>4. \A s \in logs' \cup replay' : s =< done'
    BY <1>1, <2>1, <2>2, <2>3 DEF QueueInv
  <2>5. \A i \in DOMAIN queue : queue[i] \in Nat
    BY GasFacts, SettlementsNat
  <2>6. \A i \in DOMAIN queue' : queue'[i] =< done' + 1
    BY <1>1, <2>1, <2>2, <2>5 DEF QueueInv
  <2>7. \A s \in Settlements : applied'[s] > 0 => s =< done' + 1
    BY <1>1, <2>1, <2>2, SettlementsNat DEF QueueInv
  <2> QED
    BY <1>1, <2>1, <2>4, <2>6, <2>7 DEF QueueInv
<1>6. CASE HandleRepeated
  <2>1. hpc' = "idle" /\ queue # <<>> /\ queue' = Tail(queue) /\ logs' \subseteq logs
        /\ UNCHANGED <<done, replay, applied>>
    BY <1>6 DEF HandleRepeated
  <2> QED
    BY <2>1, EventEnds
<1>7. CASE HandleUpdate
  <2>1. queue # <<>> /\ applied' = [applied EXCEPT ![Head(queue)] = @ + 1]
        /\ UNCHANGED <<done, replay, logs, queue>>
    BY <1>7 DEF HandleUpdate
  <2>2. Head(queue) \in Settlements /\ Head(queue) =< done + 1
    BY <1>1, <2>1, GasFacts, Taken DEF QueueInv
  <2>3. applied'[Head(queue)] > 0 /\ \A s \in Settlements : s # Head(queue) => applied'[s] = applied[s]
    BY <2>1, <2>2, GasFacts
  <2> QED
    BY <1>1, <2>1, <2>2, <2>3 DEF QueueInv
<1>8. CASE HandleDelete
  <2>1. queue # <<>>
    BY <1>1, <1>8 DEF HandleDelete, QueueInv
  <2>2. hpc' = "idle" /\ queue' = Tail(queue) /\ logs' \subseteq logs
        /\ UNCHANGED <<done, replay, applied>>
    BY <1>8 DEF HandleDelete
  <2> QED
    BY <2>1, <2>2, EventEnds
<1>9. CASE HandleThrows
  <2>1. hpc' = "idle" /\ queue # <<>> /\ queue' = Tail(queue) /\ logs' \subseteq logs
        /\ UNCHANGED <<done, replay, applied>>
    BY <1>9 DEF HandleThrows
  <2> QED
    BY <2>1, EventEnds
<1>10. CASE Crash
  <2>1. queue' = <<>> /\ hpc' = "idle" /\ replay' = logs /\ UNCHANGED <<done, logs, applied>>
    BY <1>10 DEF Crash
  <2> QED
    BY <1>1, <2>1 DEF QueueInv
<1> QED
  BY <1>2, <1>3, <1>4, <1>5, <1>6, <1>7, <1>8, <1>9, <1>10 DEF Next, Collect, Handle

\* A log row is written with the commit and deleted after the count.
LEMMA UncountedKept == GasInv /\ [Next]_vars => NothingUncounted'
<1> SUFFICES ASSUME GasInv, [Next]_vars PROVE NothingUncounted'
  OBVIOUS
<1> USE DEF collection, ring, faults
<1>1. NothingUncounted
  BY DEF GasInv
<1>2. CASE Commit
  <2>1. done' = num /\ num = done + 1 /\ (Settles(num) => myLog) /\ UNCHANGED applied
        /\ logs' = IF myLog THEN logs \cup {num} ELSE logs
    BY <1>2 DEF Commit, GasInv, ThreadInv
  <2> SUFFICES ASSUME NEW s \in Settlements, s =< done'
               PROVE  applied[s] > 0 \/ s \in logs'
    BY <2>1 DEF NothingUncounted
  <2>2. CASE s = num
    BY <2>1, <2>2 DEF Settlements
  <2>3. CASE s # num
    <3>1. s =< done
      BY <2>1, <2>3, GasFacts, SettlementsNat
    <3> QED
      BY <1>1, <2>1, <3>1 DEF NothingUncounted
  <2> QED
    BY <2>2, <2>3
<1>3. CASE HandleUpdate
  <2>1. queue # <<>> /\ applied' = [applied EXCEPT ![Head(queue)] = @ + 1] /\ UNCHANGED <<done, logs>>
    BY <1>3 DEF HandleUpdate
  <2>2. \A s \in Settlements : applied'[s] >= applied[s] /\ applied[s] \in Nat
    BY <2>1, GasFacts
  <2>3. \A s \in Settlements : applied'[s] \in Nat
    BY <2>1, GasFacts
  <2> QED
    BY <1>1, <2>1, <2>2, <2>3 DEF NothingUncounted
<1>4. CASE HandleDelete
  <2>1. applied[Head(queue)] > 0 /\ logs' = logs \ {Head(queue)} /\ UNCHANGED <<done, applied>>
    BY <1>4 DEF HandleDelete, GasInv, QueueInv
  <2> QED
    BY <1>1, <2>1 DEF NothingUncounted
<1>5. CASE Begin \/ SettleLog \/ SettlePublish \/ Txs \/ Rollback \/ Replay \/ Booted
           \/ HandleRepeated \/ HandleThrows \/ Crash \/ UNCHANGED vars
  <2>1. UNCHANGED <<done, logs, applied>>
    BY <1>5 DEF Begin, SettleLog, SettlePublish, Txs, Rollback, Replay, Booted,
                HandleRepeated, HandleThrows, Crash, vars
  <2> QED
    BY <1>1, <2>1 DEF NothingUncounted
<1> QED
  BY <1>2, <1>3, <1>4, <1>5 DEF Next, Collect, Handle

-----------------------------------------------------------------------------
(* The estimates *)

LEMMA EarlyIs == Early \in {0, 1}
BY DEF Early

\* A commit counts the block's settlement as uncounted, unless the handler was
\* ahead of it.
LEMMA CommitCounts ==
  ASSUME GasInv, Commit
  PROVE  /\ Early' = 0
         /\ Settles(num) => Cardinality(Uncounted') + Early = Cardinality(Uncounted) + 1
         /\ ~Settles(num) => Cardinality(Uncounted') = Cardinality(Uncounted) /\ Early = 0
<1>1. done' = num /\ num = done + 1 /\ num \in 1..MaxBlock /\ done' = done + 1 /\ applied' = applied
  BY GasFacts DEF Commit, GasInv, ThreadInv
<1>2. Early' = 0
  <2>1. ASSUME done' + 1 \in Settlements, applied[done' + 1] > 0
        PROVE  FALSE
    BY <1>1, <2>1, GasFacts DEF GasInv, QueueInv
  <2> QED
    BY <1>1, <2>1 DEF Early
<1>3. num \notin logs
  BY <1>1, GasFacts DEF GasInv, QueueInv
<1>4. CASE Settles(num)
  <2>1. num \in Settlements /\ logs' = logs \cup {num} /\ applied[num] \in Nat
    BY <1>1, <1>4, SettlesIs, GasFacts DEF Commit, GasInv, ThreadInv
  <2>2. CASE applied[num] = 0
    <3>1. Uncounted' = Uncounted \cup {num} /\ num \notin Uncounted
      BY <1>1, <1>3, <2>1, <2>2 DEF Uncounted
    <3>2. Early = 0
      BY <1>1, <2>2 DEF Early
    <3>3. Cardinality(Uncounted') = Cardinality(Uncounted) + 1
      BY <3>1, UncountedFinite, FS_AddElement
    <3> QED
      BY <1>2, <1>4, <3>2, <3>3, UncountedFinite
  <2>3. CASE applied[num] > 0
    <3>1. Uncounted' = Uncounted
      BY <1>1, <2>1, <2>3 DEF Uncounted
    <3>2. Early = 1
      BY <1>1, <2>1, <2>3 DEF Early
    <3> QED
      BY <1>2, <1>4, <3>1, <3>2
  <2> QED
    BY <2>1, <2>2, <2>3
<1>5. CASE ~Settles(num)
  <2>1. logs' = logs
    BY <1>5 DEF Commit, GasInv, ThreadInv
  <2>2. Uncounted' = Uncounted
    BY <1>1, <2>1 DEF Uncounted
  <2>3. Early = 0
    BY <1>1, <1>5, SettlesIs DEF Early
  <2> QED
    BY <1>2, <1>5, <2>2, <2>3
<1> QED
  BY <1>4, <1>5

\* A count takes one settlement off the uncounted ones, or is ahead of the
\* commit, or repeats what was counted before.
LEMMA UpdateCounts ==
  ASSUME GasInv, HandleUpdate
  PROVE  /\ Cardinality(Uncounted') \in Nat
         /\ Cardinality(Uncounted') + 1 + Early >= Cardinality(Uncounted) + Early'
<1> DEFINE h == Head(queue)
<1>1. queue # <<>> /\ applied' = [applied EXCEPT ![h] = @ + 1] /\ done' = done /\ logs' = logs
  BY DEF HandleUpdate, collection
<1>2. h \in Settlements /\ h =< done + 1 /\ h \in Nat /\ done \in Nat
  BY <1>1, GasFacts, Taken, SettlementsNat DEF GasInv, QueueInv
<1> HIDE DEF h
<1>3. applied'[h] = applied[h] + 1 /\ applied[h] \in Nat
      /\ \A s \in Settlements : s # h => applied'[s] = applied[s]
  BY <1>1, <1>2, GasFacts
<1>4. IsFiniteSet(Uncounted) /\ Cardinality(Uncounted) \in Nat
  BY UncountedFinite
<1>5. Uncounted' = Uncounted \ {h}
  <2>1. logs \subseteq Settlements
    BY GasFacts
  <2>2. applied'[h] # 0
    BY <1>3
  <2> QED
    BY <1>1, <1>3, <2>1, <2>2 DEF Uncounted
<1>6. CASE h \in Uncounted
  <2>1. Cardinality(Uncounted') = Cardinality(Uncounted) - 1 /\ Cardinality(Uncounted') \in Nat
    <3>1. IsFiniteSet(Uncounted')
      BY <1>4, <1>5, FS_RemoveElement
    <3> QED
      BY <1>4, <1>5, <1>6, <3>1, FS_RemoveElement, FS_CardinalityType
  <2>2. h # done + 1
    BY <1>2, <1>6 DEF Uncounted, GasInv, QueueInv
  <2>3. Early' = Early
    BY <1>1, <1>3, <2>2 DEF Early
  <2> QED
    BY <1>4, <2>1, <2>3, EarlyIs
<1>7. CASE h \notin Uncounted
  <2>1. Uncounted' = Uncounted
    BY <1>5, <1>7
  <2>2. Early' =< 1 /\ Early' \in Nat /\ Early \in Nat
    BY DEF Early
  <2> QED
    BY <1>4, <2>1, <2>2
<1> QED
  BY <1>6, <1>7

LEMMA EstimateKept == GasInv /\ [Next]_vars => EstimateInv'
<1> SUFFICES ASSUME GasInv, [Next]_vars PROVE EstimateInv'
  OBVIOUS
<1> USE DEF collection, ring, faults
<1>1. EstimateInv /\ \A a \in Addrs : rows[a] \in Nat \cup {None} /\ truth[a] \in Nat \cup {None}
  BY DEF GasInv, TypeOK
<1>2. Cardinality(Uncounted) \in Nat /\ Early \in Nat
  BY UncountedFinite, EarlyIs
<1>3. CASE Commit
  <2>1. mine \in TxChange /\ num = done + 1
        /\ rows' = [a \in Addrs |-> IF a \in DOMAIN mine THEN mine[a] ELSE rows[a]]
        /\ truth' = [a \in Addrs |-> TrueAfter(a)]
    BY <1>3 DEF Commit, GasInv, ThreadInv
  <2>2. /\ Early' = 0
        /\ Settles(num) => Cardinality(Uncounted') + Early = Cardinality(Uncounted) + 1
        /\ ~Settles(num) => Cardinality(Uncounted') = Cardinality(Uncounted) /\ Early = 0
    BY <1>3, CommitCounts
  <2>3. Cardinality(Uncounted') \in Nat
    <3>1. IsFiniteSet(Uncounted')
      <4>1. Uncounted' \subseteq Uncounted \cup {num}
        BY <1>3 DEF Uncounted, Commit
      <4> QED
        BY <4>1, UncountedFinite, FS_AddElement, FS_Subset
    <3> QED
      BY <3>1, FS_CardinalityType
  <2> SUFFICES ASSUME NEW a \in Addrs
               PROVE  rows'[a] # None =>
                        rows'[a] + Cardinality(Uncounted') >= truth'[a] + Early'
    BY DEF EstimateInv
  <2>4. CASE tx # NoTx /\ tx.addr = a
    <3>1. truth'[a] \in {0, None}
      BY <2>1, <2>4 DEF TrueAfter
    <3>2. CASE a \in DOMAIN mine
      <4>1. rows'[a] \in {0, None}
        BY <2>1, <3>2, ChangeIs DEF GasInv
      <4> QED
        BY <2>2, <2>3, <3>1, <4>1, NoneIs
    <3>3. CASE a \notin DOMAIN mine
      <4>1. rows'[a] = rows[a]
        BY <2>1, <3>3
      <4>2. rows[a] # None => rows[a] \in Nat
        BY <1>1
      <4> QED
        BY <2>2, <2>3, <3>1, <4>1, <4>2, NoneIs
    <3> QED
      BY <3>2, <3>3
  <2>5. CASE ~(tx # NoTx /\ tx.addr = a)
    <3>1. rows'[a] = rows[a]
      BY <2>1, <2>5, ChangeIs DEF GasInv
    <3>2. truth'[a] = IF Settles(num) /\ truth[a] # None THEN truth[a] + 1 ELSE truth[a]
      BY <2>1, <2>5 DEF TrueAfter
    <3> SUFFICES ASSUME rows[a] # None
                 PROVE  rows'[a] + Cardinality(Uncounted') >= truth'[a] + Early'
      BY <3>1
    <3>3. rows[a] \in Nat /\ truth[a] \in Int
          /\ rows[a] + Cardinality(Uncounted) >= truth[a] + Early
      BY <1>1, NoneIs DEF EstimateInv
    <3>4. truth'[a] \in Int /\ truth'[a] =< truth[a] + (IF Settles(num) THEN 1 ELSE 0)
      BY <3>2, <3>3
    <3>5. CASE Settles(num)
      BY <1>2, <2>2, <2>3, <3>1, <3>3, <3>4, <3>5
    <3>6. CASE ~Settles(num)
      BY <1>2, <2>2, <2>3, <3>1, <3>3, <3>4, <3>6
    <3> QED
      BY <3>5, <3>6
  <2> QED
    BY <2>4, <2>5
<1>4. CASE HandleUpdate
  <2>1. rows' = [a \in Addrs |-> IF rows[a] = None THEN None ELSE rows[a] + 1] /\ truth' = truth
    BY <1>4 DEF HandleUpdate
  <2>2. /\ Cardinality(Uncounted') \in Nat
        /\ Cardinality(Uncounted') + 1 + Early >= Cardinality(Uncounted) + Early'
    BY <1>4, UpdateCounts
  <2>3. Early' \in Nat
    BY DEF Early
  <2> SUFFICES ASSUME NEW a \in Addrs
               PROVE  rows'[a] # None =>
                        rows'[a] + Cardinality(Uncounted') >= truth'[a] + Early'
    BY DEF EstimateInv
  <2>4. CASE rows[a] = None
    BY <2>1, <2>4
  <2>5. CASE rows[a] # None
    <3>1. rows[a] \in Nat /\ truth[a] \in Int
          /\ rows[a] + Cardinality(Uncounted) >= truth[a] + Early
      BY <1>1, <2>5, NoneIs DEF EstimateInv
    <3>2. rows'[a] = rows[a] + 1 /\ rows'[a] # None /\ truth'[a] = truth[a]
      BY <2>1, <2>5, <3>1, NoneIs
    <3> QED
      BY <1>2, <2>2, <2>3, <3>1, <3>2
  <2> QED
    BY <2>4, <2>5
<1>5. CASE HandleDelete
  <2>1. logs' = logs \ {Head(queue)} /\ applied[Head(queue)] > 0
        /\ UNCHANGED <<rows, truth, applied, done>>
    BY <1>5 DEF HandleDelete, GasInv, QueueInv
  <2>2. Uncounted' = Uncounted /\ Early' = Early
    BY <2>1 DEF Uncounted, Early
  <2> QED
    BY <1>1, <2>1, <2>2 DEF EstimateInv
<1>6. CASE Begin \/ SettleLog \/ SettlePublish \/ Txs \/ Rollback \/ Replay \/ Booted
           \/ HandleRepeated \/ HandleThrows \/ Crash \/ UNCHANGED vars
  <2>1. UNCHANGED <<rows, logs, applied, truth, done>>
    BY <1>6 DEF Begin, SettleLog, SettlePublish, Txs, Rollback, Replay, Booted,
                HandleRepeated, HandleThrows, Crash, vars
  <2>2. Uncounted' = Uncounted /\ Early' = Early
    BY <2>1 DEF Uncounted, Early
  <2> QED
    BY <1>1, <2>1, <2>2 DEF EstimateInv
<1> QED
  BY <1>3, <1>4, <1>5, <1>6 DEF Next, Collect, Handle

-----------------------------------------------------------------------------

LEMMA GasInvariant == Spec => []GasInv
<1>1. GasInv /\ [Next]_vars => GasInv'
  BY TypesKept, ThreadKept, QueueKept, UncountedKept, EstimateKept DEF GasInv
<1> QED
  BY <1>1, GasInit, PTL DEF Spec

\* The state is typed, and the ring never holds more than its size.
THEOREM EstimatesTyped == Spec => []TypeOK
<1>1. GasInv => TypeOK
  BY DEF GasInv
<1> QED
  BY <1>1, GasInvariant, PTL

\* Whatever rolls back, throws or dies: a committed settlement was counted, or
\* gas_estimate_log still holds it for the next start.
THEOREM NoSettlementLost == Spec => []NothingUncounted
<1>1. GasInv => NothingUncounted
  BY DEF GasInv
<1> QED
  BY <1>1, GasInvariant, PTL

\* With the settlements still to be counted, no estimate is below the epochs
\* its delegator really has.
THEOREM EstimatesNeverLow == Spec => []NeverTooLow
<1>1. ASSUME GasInv PROVE NeverTooLow
  <2>1. Cardinality(Uncounted) \in Nat
    BY <1>1, UncountedFinite
  <2>2. EstimateInv /\ \A a \in Addrs : rows[a] \in Nat \cup {None} /\ truth[a] \in Nat \cup {None}
    BY <1>1 DEF GasInv, TypeOK
  <2>3. ASSUME NEW a \in Addrs, rows[a] # None
        PROVE  rows[a] + Cardinality(Uncounted) >= truth[a]
    BY <2>1, <2>2, <2>3, NoneIs, EarlyIs DEF EstimateInv
  <2> QED
    BY <2>3 DEF NeverTooLow, Uncounted
<1> QED
  BY <1>1, GasInvariant, PTL

-----------------------------------------------------------------------------
(* The rows and the delegators *)

RowsInv == GasInv /\ RowsOfDelegators

\* A block after which the delegation has the chain's amount makes of the row what
\* the chain makes of the delegation.
LEMMA ChangeRight ==
  ASSUME ThreadInv, tx # NoTx, mine \in TxChange, tx.addr \notin OffAfter
  PROVE  mine = [a \in {tx.addr} |-> IF tx.type = "exit" THEN None ELSE 0]
<1>1. tx.type \in {"delegate", "claim", "part", "exit"}
  BY DEF ThreadInv, Transactions
<1>2. CASE tx.type \in {"delegate", "claim"}
  BY <1>2 DEF TxChange, Reset
<1>3. CASE tx.type = "part"
  <2>1. ~(copies > 1)
    BY <1>3 DEF OffAfter, Amounts
  <2>2. tx.addr \notin off
    BY <1>3, <2>1 DEF OffAfter
  <2> QED
    BY <1>3, <2>1, <2>2 DEF TxChange, Reset
<1>4. CASE tx.type = "exit"
  <2>1. CASE mine = Deleted
    BY <1>4, <2>1 DEF Deleted
  <2>2. CASE mine # Deleted
    <3>1. tx.addr \notin off
      BY <1>4, <2>2 DEF OffAfter, Amounts
    <3> QED
      BY <1>4, <2>2, <3>1 DEF TxChange
  <2> QED
    BY <2>1, <2>2
<1> QED
  BY <1>1, <1>2, <1>3, <1>4

\* A block leaves the other delegations as right or wrong as they were.
LEMMA OthersOff ==
  ASSUME NEW a \in Addrs \ OffAfter, ~(tx # NoTx /\ tx.addr = a)
  PROVE  a \notin off
<1>1. tx = NoTx => tx.type = "none"
  BY DEF NoTx
<1> QED
  BY <1>1 DEF OffAfter, Amounts

LEMMA RowsKept ==
  ASSUME RowsInv, [Next]_vars
  PROVE  RowsOfDelegators'
<1> USE DEF collection, ring, faults
<1>1. \A a \in Addrs :
        /\ a \notin off => (rows[a] = None <=> truth[a] = None)
        /\ rows[a] \in Nat \cup {None} /\ truth[a] \in Nat \cup {None}
  BY DEF RowsInv, RowsOfDelegators, GasInv, TypeOK
<1>2. CASE Commit
  <2>1. mine \in TxChange
        /\ rows' = [a \in Addrs |-> IF a \in DOMAIN mine THEN mine[a] ELSE rows[a]]
        /\ truth' = [a \in Addrs |-> TrueAfter(a)] /\ off' = OffAfter
    BY <1>2 DEF Commit, RowsInv, GasInv, ThreadInv
  <2> SUFFICES ASSUME NEW a \in Addrs \ OffAfter PROVE rows'[a] = None <=> truth'[a] = None
    BY <2>1 DEF RowsOfDelegators
  <2>2. CASE tx # NoTx /\ tx.addr = a
    <3>1. mine = [b \in {tx.addr} |-> IF tx.type = "exit" THEN None ELSE 0]
      BY <2>1, <2>2, ChangeRight DEF RowsInv, GasInv
    <3>2. rows'[a] = IF tx.type = "exit" THEN None ELSE 0
      BY <2>1, <2>2, <3>1
    <3>3. truth'[a] = IF tx.type = "exit" THEN None ELSE 0
      BY <2>1, <2>2 DEF TrueAfter
    <3> QED
      BY <3>2, <3>3
  <2>3. CASE ~(tx # NoTx /\ tx.addr = a)
    <3>1. rows'[a] = rows[a]
      BY <2>1, <2>3, ChangeIs DEF RowsInv, GasInv
    <3>2. truth'[a] = IF Settles(num) /\ truth[a] # None THEN truth[a] + 1 ELSE truth[a]
      BY <2>1, <2>3 DEF TrueAfter
    <3>3. truth'[a] = None <=> truth[a] = None
      BY <1>1, <3>2, NoneIs
    <3>4. a \notin off
      BY <2>3, OthersOff
    <3> QED
      BY <1>1, <3>1, <3>3, <3>4
  <2> QED
    BY <2>2, <2>3
<1>3. CASE HandleUpdate
  <2>1. rows' = [a \in Addrs |-> IF rows[a] = None THEN None ELSE rows[a] + 1]
        /\ UNCHANGED <<truth, off>>
    BY <1>3 DEF HandleUpdate
  <2>2. \A a \in Addrs : rows'[a] = None <=> rows[a] = None
    BY <1>1, <2>1, NoneIs
  <2> QED
    BY <1>1, <2>1, <2>2 DEF RowsOfDelegators
<1>4. CASE Begin \/ SettleLog \/ SettlePublish \/ Txs \/ Rollback \/ Replay \/ Booted
           \/ HandleRepeated \/ HandleDelete \/ HandleThrows \/ Crash \/ UNCHANGED vars
  <2>1. UNCHANGED <<rows, truth, off>>
    BY <1>4 DEF Begin, SettleLog, SettlePublish, Txs, Rollback, Replay, Booted,
                HandleRepeated, HandleDelete, HandleThrows, Crash, vars
  <2> QED
    BY <1>1, <2>1 DEF RowsOfDelegators
<1> QED
  BY <1>2, <1>3, <1>4 DEF Next, Collect, Handle

\* Who has a delegation has an estimate, and no other, as long as retries have left
\* the amount of the delegation as the chain has it.
THEOREM RowsAreTheDelegators == Spec => []RowsOfDelegators
<1>1. Init => RowsInv
  BY GasInit DEF RowsInv, RowsOfDelegators, Init
<1>2. RowsInv /\ [Next]_vars => RowsInv'
  <2>1. GasInv /\ [Next]_vars => GasInv'
    BY TypesKept, ThreadKept, QueueKept, UncountedKept, EstimateKept DEF GasInv
  <2> QED
    BY <2>1, RowsKept DEF RowsInv
<1>3. RowsInv => RowsOfDelegators
  BY DEF RowsInv
<1> QED
  BY <1>1, <1>2, <1>3, PTL DEF Spec
=============================================================================
