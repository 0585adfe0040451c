---------------------------- MODULE StakingProofs ----------------------------
(***************************************************************************)
(* Proofs about the stakings.                                              *)
(*                                                                         *)
(* Types (StakingsTyped) hold whatever fails.  The other theorems rest on  *)
(* FollowInv: at every place of a block the tables have, of every node,    *)
(* what the chain's record of the node is after the steps of the block done*)
(* so far (At, Reached), and while the block is in work the committed      *)
(* tables still have the record before it (Underway).  Match says what a   *)
(* row is for each standing on the chain; a report that waits is in the row*)
(* and in the queue in memory, and in the block until that is committed    *)
(* (QueueOf, Waiting).                                                     *)
(*                                                                         *)
(* The handlers are folds over lists of rows.  FoldSteps gives for a fold  *)
(* the sequence of tables it goes through.  A list with one element per    *)
(* node acts node by node (Single): each node ends as if only its own      *)
(* element had been handled, whatever the order.  What a handler does to   *)
(* one row is then compared with what the chain does to one record         *)
(* (LockMatches, SettleMatches and the like), and the handlers with the    *)
(* block.                                                                  *)
(*                                                                         *)
(* Survivable is what the code needs for that; the README says what happens*)
(* without it.                                                             *)
(***************************************************************************)
EXTENDS Staking, Induction, SequenceTheorems

-----------------------------------------------------------------------------
(* Folds: what a handler does with a list, one element after the other. *)

Do(kind, d, x, e) ==
  CASE kind = "lock" -> Lock(d, x)
    [] kind = "exit" -> ExitLow(d, x, e)
    [] kind = "slash" -> Slash(d, x)
    [] kind = "settle" -> SettleRow(d, x)
    [] kind = "handle" -> Handle(d, x)
    [] kind = "pending" -> d \o reports[x]

\* g folds every subset of the indices, as FoldLeft does.
FoldsAll(g, kind, d, seq, e) ==
  g = [s \in SUBSET (DOMAIN seq) |->
         IF s = {} THEN d ELSE Do(kind, g[s \ {Max(s)}], seq[Max(s)], e)]

FoldOf(kind, d, seq, e) == (CHOOSE g : FoldsAll(g, kind, d, seq, e))[DOMAIN seq]

LEMMA LockFold == ASSUME NEW d, NEW seq PROVE FoldLeft(Lock, d, seq) = FoldOf("lock", d, seq, 0)
BY Zenon DEF FoldLeft, MapThenFoldSet, FoldOf, FoldsAll, Do

LEMMA ExitFold ==
  ASSUME NEW d, NEW seq, NEW e
  PROVE  FoldLeft(LAMBDA x, k : ExitLow(x, k, e), d, seq) = FoldOf("exit", d, seq, e)
BY Zenon DEF FoldLeft, MapThenFoldSet, FoldOf, FoldsAll, Do

LEMMA SlashFold == ASSUME NEW d, NEW seq PROVE FoldLeft(Slash, d, seq) = FoldOf("slash", d, seq, 0)
BY Zenon DEF FoldLeft, MapThenFoldSet, FoldOf, FoldsAll, Do

LEMMA SettleFold ==
  ASSUME NEW d, NEW seq PROVE FoldLeft(SettleRow, d, seq) = FoldOf("settle", d, seq, 0)
BY Zenon DEF FoldLeft, MapThenFoldSet, FoldOf, FoldsAll, Do

LEMMA HandleFold == ASSUME NEW d, NEW seq PROVE FoldLeft(Handle, d, seq) = FoldOf("handle", d, seq, 0)
BY Zenon DEF FoldLeft, MapThenFoldSet, FoldOf, FoldsAll, Do

LEMMA PendingFold ==
  ASSUME NEW d, NEW seq
  PROVE  FoldLeft(LAMBDA s, n : s \o reports[n], d, seq) = FoldOf("pending", d, seq, 0)
BY Zenon DEF FoldLeft, MapThenFoldSet, FoldOf, FoldsAll, Do

\* The last index of a set of indices.
LEMMA MaxIs ==
  ASSUME NEW n \in Nat, NEW s \in SUBSET (1..(n + 1)), n + 1 \in s
  PROVE  Max(s) = n + 1
<1> DEFINE P(x) == x \in s /\ \A y \in s : x >= y
<1>1. P(n + 1)
  OBVIOUS
<1>2. \A x : P(x) => x = n + 1
  <2> SUFFICES ASSUME NEW x, P(x) PROVE x = n + 1
    OBVIOUS
  <2>1. x \in 1..(n + 1) /\ x >= n + 1
    OBVIOUS
  <2> QED
    BY <2>1
<1>3. Max(s) = CHOOSE x : P(x)
  BY Zenon DEF Max
<1> HIDE DEF P
<1> QED
  BY <1>1, <1>2, <1>3

LEMMA FoldExists ==
  ASSUME NEW kind, NEW d, NEW e, NEW seq, NEW m \in Nat, DOMAIN seq = 1..m
  PROVE  \E g : FoldsAll(g, kind, d, seq, e)
<1> DEFINE val(g, s) == IF s = {} THEN d ELSE Do(kind, g[s \ {Max(s)}], seq[Max(s)], e)
           N == {n \in Nat : \E g : \A s \in SUBSET (1..n) : g[s] = val(g, s)}
<1>1. 0 \in N
  <2> DEFINE g == [s \in SUBSET (1..0) |-> d]
  <2>1. \A s \in SUBSET (1..0) : s = {}
    OBVIOUS
  <2>2. \A s \in SUBSET (1..0) : g[s] = val(g, s)
    BY <2>1
  <2> HIDE DEF g
  <2> QED
    BY <2>2
<1>2. ASSUME NEW n \in Nat, n \in N PROVE n + 1 \in N
  <2>1. PICK g : \A s \in SUBSET (1..n) : g[s] = val(g, s)
    BY <1>2
  <2> DEFINE h == [s \in SUBSET (1..(n + 1)) |->
                     IF n + 1 \in s THEN Do(kind, g[s \ {n + 1}], seq[n + 1], e) ELSE g[s]]
  <2>2. \A s \in SUBSET (1..(n + 1)) : s \ {n + 1} \in SUBSET (1..n)
    OBVIOUS
  <2>3. \A s \in SUBSET (1..n) : s \in SUBSET (1..(n + 1)) /\ n + 1 \notin s
    OBVIOUS
  <2>4. \A s \in SUBSET (1..n) : h[s] = g[s]
    BY <2>3
  <2>5. ASSUME NEW s \in SUBSET (1..(n + 1)), n + 1 \in s PROVE h[s] = val(h, s)
    <3>1. Max(s) = n + 1 /\ s # {}
      BY <2>5, MaxIs
    <3>2. h[s] = Do(kind, g[s \ {n + 1}], seq[n + 1], e)
      BY <2>5
    <3>3. h[s \ {n + 1}] = g[s \ {n + 1}]
      BY <2>2, <2>4
    <3> HIDE DEF h
    <3> QED
      BY <3>1, <3>2, <3>3
  <2>6. ASSUME NEW s \in SUBSET (1..(n + 1)), n + 1 \notin s PROVE h[s] = val(h, s)
    <3>1. s \in SUBSET (1..n)
      BY <2>6
    <3>2. h[s] = g[s] /\ g[s] = val(g, s)
      BY <2>1, <2>4, <3>1
    <3>3. s # {} => s \ {Max(s)} \in SUBSET (1..n)
      BY <3>1
    <3>4. s # {} => h[s \ {Max(s)}] = g[s \ {Max(s)}]
      BY <2>4, <3>3
    <3> HIDE DEF h
    <3> QED
      BY <3>2, <3>4
  <2> HIDE DEF h
  <2>7. \A s \in SUBSET (1..(n + 1)) : h[s] = val(h, s)
    BY <2>5, <2>6
  <2> HIDE DEF val
  <2>8. \E f : \A s \in SUBSET (1..(n + 1)) : f[s] = val(f, s)
    BY <2>7, Zenon
  <2>9. n + 1 \in Nat
    OBVIOUS
  <2> QED
    BY <2>8, <2>9
<1> HIDE DEF N
<1>3. m \in N
  BY <1>1, <1>2, NatSet, Zenon
<1>4. PICK g : \A s \in SUBSET (1..m) : g[s] = val(g, s)
  BY <1>3 DEF N
<1> DEFINE h == [s \in SUBSET (1..m) |-> g[s]]
<1>5. \A s \in SUBSET (1..m) : h[s] = val(h, s)
  <2> SUFFICES ASSUME NEW s \in SUBSET (1..m) PROVE h[s] = val(h, s)
    OBVIOUS
  <2>1. h[s] = val(g, s)
    BY <1>4
  <2>2. s \ {Max(s)} \in SUBSET (1..m)
    OBVIOUS
  <2>3. h[s \ {Max(s)}] = g[s \ {Max(s)}]
    BY <2>2
  <2> HIDE DEF h
  <2> QED
    BY <2>1, <2>3
<1>6. h = [s \in SUBSET (1..m) |-> val(h, s)]
  <2>1. h = [s \in SUBSET (1..m) |-> h[s]]
    OBVIOUS
  <2> HIDE DEF h
  <2> QED
    BY <1>5, <2>1
<1> HIDE DEF h
<1>7. FoldsAll(h, kind, d, seq, e)
  BY <1>6, Zenon DEF FoldsAll
<1> QED
  BY <1>7

\* A fold is a run of steps, one for each element.
Steps(after, kind, d, seq, e) ==
  /\ after[0] = d
  /\ \A i \in 1..Len(seq) : after[i] = Do(kind, after[i - 1], seq[i], e)

LEMMA FoldSteps ==
  ASSUME NEW kind, NEW d, NEW e, NEW S, NEW seq \in Seq(S)
  PROVE  \E after : Steps(after, kind, d, seq, e) /\ FoldOf(kind, d, seq, e) = after[Len(seq)]
<1>1. Len(seq) \in Nat /\ DOMAIN seq = 1..Len(seq)
  OBVIOUS
<1> DEFINE m == Len(seq)
           g == CHOOSE f : FoldsAll(f, kind, d, seq, e)
<1>2. FoldsAll(g, kind, d, seq, e)
  BY <1>1, FoldExists, Zenon
<1> HIDE DEF g
<1> DEFINE rec(s) == IF s = {} THEN d ELSE Do(kind, g[s \ {Max(s)}], seq[Max(s)], e)
<1>3. g = [s \in SUBSET (DOMAIN seq) |-> rec(s)]
  BY <1>2, Zenon DEF FoldsAll
<1> HIDE DEF rec
<1>4. \A s \in SUBSET (1..m) : g[s] = rec(s)
  BY <1>1, <1>3
<1> DEFINE after == [i \in 0..m |-> g[1..i]]
<1>5. after[0] = d
  <2>1. 1..0 = {} /\ 1..0 \in SUBSET (1..m) /\ 0 \in 0..m
    BY <1>1
  <2> QED
    BY <1>4, <2>1 DEF rec
<1>6. ASSUME NEW i \in 1..m PROVE after[i] = Do(kind, after[i - 1], seq[i], e)
  <2>0. m \in Nat /\ i \in Nat /\ 1 =< i /\ i =< m
    BY <1>1
  <2> HIDE DEF m
  <2>1. 1..i \in SUBSET (1..m) /\ 1..i # {} /\ i \in 1..i /\ i - 1 \in Nat
    BY <2>0
  <2>2. Max(1..i) = i
    <3>1. PICK j \in Nat : i = j + 1
      BY <2>1
    <3>2. 1..i \in SUBSET (1..(j + 1)) /\ j + 1 \in 1..i
      BY <2>0, <3>1
    <3>3. Max(1..i) = j + 1
      BY <3>2, MaxIs, Zenon
    <3> QED
      BY <3>1, <3>3
  <2>3. (1..i) \ {i} = 1..(i - 1) /\ i \in 0..m /\ i - 1 \in 0..m
    BY <2>0
  <2>4. rec(1..i) = Do(kind, g[1..(i - 1)], seq[i], e)
    BY <2>1, <2>2, <2>3 DEF rec
  <2> QED
    BY <1>4, <2>1, <2>3, <2>4 DEF m
<1>7. after[m] = g[DOMAIN seq]
  BY <1>1
<1>8. FoldOf(kind, d, seq, e) = after[m]
  BY <1>7, Zenon DEF FoldOf, g
<1> HIDE DEF after
<1>9. Steps(after, kind, d, seq, e)
  BY <1>5, <1>6 DEF Steps
<1> QED
  BY <1>8, <1>9

-----------------------------------------------------------------------------
(* Tables and single steps *)

Rec == [st : Standings, sbn : Nat, hes : Nat, locked : Nat, until : Nat, reported : Nat]

TableOK(d) ==
  /\ DOMAIN d = {"staking", "node", "slash"}
  /\ DOMAIN d.staking \subseteq Nodes \X Nat /\ IsFiniteSet(DOMAIN d.staking)
  /\ \A k \in DOMAIN d.staking : d.staking[k] \in Row
  /\ DOMAIN d.node \subseteq Nodes
  /\ \A n \in DOMAIN d.node : DOMAIN d.node[n] = {"sbn", "row"} /\ d.node[n].row \in Row

\* x is d after an update of the row of k to r and of its node's row to q.
Changed(d, x, k, r, q) ==
  /\ DOMAIN x = {"staking", "node", "slash"}
  /\ DOMAIN x.staking = DOMAIN d.staking
  /\ \A j \in DOMAIN d.staking : x.staking[j] = IF j = k THEN r ELSE d.staking[j]
  /\ DOMAIN x.node = DOMAIN d.node
  /\ \A n \in DOMAIN d.node :
       /\ DOMAIN x.node[n] = {"sbn", "row"} /\ x.node[n].sbn = d.node[n].sbn
       /\ x.node[n].row = IF n = k[1] THEN q ELSE d.node[n].row

\* What the handlers make of a row r, s being the staking row they have read.
LockTo(s, r) ==
  [r EXCEPT !.status = LOCKED, !.low = @ + 1, !.hes = Least0(s.hes - Penalty),
            !.locked = s.locked - Least0(Penalty - s.hes),
            !.thaw = Epoch(block.num) + ZeroProduceFreeze]
ExitLowTo(r, end) ==
  [r EXCEPT !.status = EXITING, !.low = @ + 1, !.reduction = Least0(r.locked + r.hes - Penalty),
            !.hes = 0, !.locked = 0, !.end = end]
SlashTo(s, r) ==
  [r EXCEPT !.status = IF RemainOf(s) >= 0 THEN EXITING ELSE EXITED,
            !.reduction = Least0(RemainOf(s)), !.hes = 0, !.locked = 0, !.exc = PUNISHED]
SettleTo(s, r) == [Settled(s) EXCEPT !.thaw = r.thaw, !.end = r.end]
IncreaseTo(r) == [r EXCEPT !.hes = @ + IncreaseAmount]
ExitTo(k, r) ==
  IF Epoch(k[2]) < Epoch(block.num)
  THEN [r EXCEPT !.status = IF r.locked > 0 THEN EXITING ELSE EXITED,
                 !.reduction = r.locked, !.locked = 0, !.hes = 0,
                 !.end = UnStakeEnd(Epoch(block.num))]
  ELSE [r EXCEPT !.status = EXITED, !.locked = 0, !.hes = 0, !.reduction = 0]
MarkTo(first, r) ==
  [r EXCEPT !.exc = REPORTED, !.end = IF first THEN UnStakeEnd(Epoch(block.num)) ELSE @]

RowAt(d, k) == d.staking[k]
NodeRowAt(d, k) == d.node[k[1]].row

LEMMA LockChanges ==
  ASSUME NEW d, NEW k, TableOK(d)
  PROVE  Changed(d, Lock(d, k), k, LockTo(RowAt(d, k), RowAt(d, k)), LockTo(RowAt(d, k), NodeRowAt(d, k)))
BY DEF TableOK, Changed, Lock, Update, LockTo, RowAt, NodeRowAt

LEMMA ExitLowChanges ==
  ASSUME NEW d, NEW k, NEW e, TableOK(d)
  PROVE  Changed(d, ExitLow(d, k, e), k, ExitLowTo(RowAt(d, k), e), ExitLowTo(NodeRowAt(d, k), e))
BY DEF TableOK, Changed, ExitLow, Update, ExitLowTo, RowAt, NodeRowAt

LEMMA SettleChanges ==
  ASSUME NEW d, NEW k, TableOK(d)
  PROVE  Changed(d, SettleRow(d, k), k, SettleTo(RowAt(d, k), RowAt(d, k)),
                 SettleTo(RowAt(d, k), NodeRowAt(d, k)))
BY DEF TableOK, Changed, SettleRow, Update, SettleTo, RowAt, NodeRowAt

RepKey(rep) == Key(rep.node, rep.sbn)

LEMMA SlashChanges ==
  ASSUME NEW d, NEW rep, TableOK(d)
  PROVE  Changed(d, Slash(d, rep), RepKey(rep), SlashTo(RowAt(d, RepKey(rep)), RowAt(d, RepKey(rep))),
                 SlashTo(RowAt(d, RepKey(rep)), NodeRowAt(d, RepKey(rep))))
BY DEF TableOK, Changed, Slash, Update, SlashTo, RowAt, NodeRowAt, RepKey

TxKey(tx) == Key(tx.node, chain[tx.node].sbn)

LEMMA IncreaseChanges ==
  ASSUME NEW d, NEW tx, TableOK(d)
  PROVE  Changed(d, Increase(d, tx), TxKey(tx), IncreaseTo(RowAt(d, TxKey(tx))), IncreaseTo(NodeRowAt(d, TxKey(tx))))
BY DEF TableOK, Changed, Increase, Update, IncreaseTo, RowAt, NodeRowAt, TxKey

LEMMA ExitChanges ==
  ASSUME NEW d, NEW tx, TableOK(d)
  PROVE  Changed(d, Exit(d, tx), TxKey(tx), ExitTo(TxKey(tx), RowAt(d, TxKey(tx))),
                 ExitTo(TxKey(tx), NodeRowAt(d, TxKey(tx))))
BY DEF TableOK, Changed, Exit, Update, ExitTo, RowAt, NodeRowAt, TxKey

LEMMA MarkChanges ==
  ASSUME NEW d, NEW tx, TableOK(d), NEW first, first = (NodeRowAt(d, RepKey(tx)).status = CANDIDATE)
  PROVE  Changed(d, Mark(d, tx), RepKey(tx), MarkTo(first, RowAt(d, RepKey(tx))),
                 MarkTo(first, NodeRowAt(d, RepKey(tx))))
BY DEF TableOK, Changed, Mark, Update, MarkTo, RowAt, NodeRowAt, RepKey, Key

-----------------------------------------------------------------------------
(* Types of rows *)

LEMMA Bounds ==
  /\ ConsensusPeriod \in Nat \ {0} /\ SettlePeriod \in Nat \ {0} /\ ElectionBackward \in Nat
  /\ UnStakeFreeze \in Nat /\ ZeroProduceFreeze \in Nat /\ Threshold \in Nat /\ Penalty \in Nat
  /\ GenesisStake \in Nat /\ IncreaseAmount \in Nat
  /\ MaxBlock \in Nat /\ MaxTx \in Nat /\ MaxFail \in Nat /\ MaxCrash \in Nat /\ MaxSlashed \in Nat
BY StakingBounds

LEMMA EpochNat == \A b \in Nat : Epoch(b) \in Nat /\ UnStakeEnd(Epoch(b)) \in Nat
<1> SUFFICES ASSUME NEW b \in Nat PROVE Epoch(b) \in Nat /\ UnStakeEnd(Epoch(b)) \in Nat
  OBVIOUS
<1>1. Epoch(b) \in Nat
  BY Bounds DEF Epoch
<1>2. \A e \in Nat : UnStakeEnd(e) \in Nat
  BY Bounds DEF UnStakeEnd
<1> QED
  BY <1>1, <1>2

LEMMA Least0Nat == \A a \in Int : Least0(a) \in Nat /\ (a >= 0 => Least0(a) = a) /\ (a =< 0 => Least0(a) = 0)
BY DEF Least0

LEMMA RowFields ==
  ASSUME NEW r \in Row
  PROVE  /\ r.status \in {CANDIDATE, EXITING, EXITED, LOCKED}
         /\ r.hes \in Nat /\ r.locked \in Nat /\ r.reduction \in Nat
         /\ r.exc \in {NORMAL, REPORTED, PUNISHED}
         /\ r.low \in Nat /\ r.thaw \in Nat /\ r.end \in Nat
BY DEF Row

LEMMA RemainInt ==
  ASSUME NEW s \in Row
  PROVE  RemainOf(s) \in Int
<1>1. s.locked \in Nat /\ s.reduction \in Nat
  BY RowFields
<1>2. \A a \in Nat : a \div 2 \in Nat
  OBVIOUS
<1>3. SlashOf(s) \in Nat
  BY <1>1, <1>2 DEF SlashOf
<1> QED
  BY <1>1, <1>3 DEF RemainOf

LEMMA RowsTyped ==
  ASSUME NEW s \in Row, NEW r \in Row, NEW e \in Nat, NEW k, NEW first, block.num \in Nat
  PROVE  /\ s.hes + s.locked - Penalty >= Threshold => LockTo(s, r) \in Row
         /\ ExitLowTo(r, e) \in Row
         /\ SlashTo(s, r) \in Row
         /\ SettleTo(s, r) \in Row
         /\ IncreaseTo(r) \in Row
         /\ ExitTo(k, r) \in Row
         /\ MarkTo(first, r) \in Row
<1>1. Epoch(block.num) \in Nat /\ UnStakeEnd(Epoch(block.num)) \in Nat
  BY EpochNat
<1>2. ASSUME s.hes + s.locked - Penalty >= Threshold PROVE LockTo(s, r) \in Row
  <2>1. s.hes \in Nat /\ s.locked \in Nat /\ r.low + 1 \in Nat
    BY RowFields
  <2>2. Least0(s.hes - Penalty) \in Nat /\ Least0(Penalty - s.hes) \in Nat
    BY <2>1, Least0Nat, Bounds
  <2>3. s.locked - Least0(Penalty - s.hes) \in Nat
    BY <1>2, <2>1, Bounds DEF Least0
  <2>4. Epoch(block.num) + ZeroProduceFreeze \in Nat
    BY <1>1, Bounds
  <2> QED
    BY <2>1, <2>2, <2>3, <2>4 DEF LockTo, Row
<1>3. ExitLowTo(r, e) \in Row
  <2>1. Least0(r.locked + r.hes - Penalty) \in Nat /\ r.low + 1 \in Nat
    BY RowFields, Least0Nat, Bounds
  <2> QED
    BY <2>1 DEF ExitLowTo, Row
<1>4. SlashTo(s, r) \in Row
  <2>1. Least0(RemainOf(s)) \in Nat
    BY RemainInt, Least0Nat
  <2> QED
    BY <2>1 DEF SlashTo, Row
<1>5. SettleTo(s, r) \in Row
  <2>1. s.locked + s.hes \in Nat
    BY RowFields
  <2> QED
    BY <2>1 DEF SettleTo, Settled, Row
<1>6. IncreaseTo(r) \in Row
  <2>1. r.hes + IncreaseAmount \in Nat
    BY RowFields, Bounds
  <2> QED
    BY <2>1 DEF IncreaseTo, Row
<1>7. ExitTo(k, r) \in Row
  BY <1>1 DEF ExitTo, Row
<1>8. MarkTo(first, r) \in Row
  BY <1>1 DEF MarkTo, Row
<1> QED
  BY <1>2, <1>3, <1>4, <1>5, <1>6, <1>7, <1>8

LEMMA ChangedOK ==
  ASSUME NEW d, NEW x, NEW k, NEW r, NEW q, TableOK(d), Changed(d, x, k, r, q),
         k \in DOMAIN d.staking => r \in Row,
         k[1] \in DOMAIN d.node => q \in Row
  PROVE  TableOK(x)
BY DEF TableOK, Changed

-----------------------------------------------------------------------------
(* The handlers' updates, one after the other *)

Updates == {"lock", "exit", "slash", "settle"}

\* The staking an element stands for, and what becomes of its rows.
KeyOf(kind, x) == IF kind = "slash" THEN RepKey(x) ELSE x
To(kind, s, r, e) ==
  CASE kind = "lock" -> LockTo(s, r)
    [] kind = "exit" -> ExitLowTo(r, e)
    [] kind = "slash" -> SlashTo(s, r)
    [] kind = "settle" -> SettleTo(s, r)

LEMMA DoChanges ==
  ASSUME NEW kind \in Updates, NEW d, NEW x, NEW e, TableOK(d), NEW k, k = KeyOf(kind, x)
  PROVE  Changed(d, Do(kind, d, x, e), k, To(kind, RowAt(d, k), RowAt(d, k), e),
                 To(kind, RowAt(d, k), NodeRowAt(d, k), e))
<1>1. CASE kind = "lock"
  BY <1>1, LockChanges DEF Do, KeyOf, To
<1>2. CASE kind = "exit"
  BY <1>2, ExitLowChanges DEF Do, KeyOf, To
<1>3. CASE kind = "slash"
  BY <1>3, SlashChanges DEF Do, KeyOf, To
<1>4. CASE kind = "settle"
  BY <1>4, SettleChanges DEF Do, KeyOf, To
<1> QED
  BY <1>1, <1>2, <1>3, <1>4 DEF Updates

\* A row that the penalty leaves with a candidate's stake.
Stays(s) == s.hes + s.locked - Penalty >= Threshold

LEMMA ToTyped ==
  ASSUME NEW kind \in Updates, NEW s \in Row, NEW r \in Row, NEW e \in Nat, block.num \in Nat,
         kind = "lock" => Stays(s)
  PROVE  To(kind, s, r, e) \in Row
BY RowsTyped DEF To, Updates, Stays

\* One update of a table in order.
LEMMA DoOK ==
  ASSUME NEW kind \in Updates, NEW d, NEW x, NEW e \in Nat, TableOK(d), block.num \in Nat,
         NEW k, k = KeyOf(kind, x), k \in DOMAIN d.staking, kind = "lock" => Stays(d.staking[k])
  PROVE  TableOK(Do(kind, d, x, e))
<1>1. RowAt(d, k) \in Row /\ (k[1] \in DOMAIN d.node => NodeRowAt(d, k) \in Row)
  BY DEF TableOK, RowAt, NodeRowAt
<1>2. /\ To(kind, RowAt(d, k), RowAt(d, k), e) \in Row
      /\ k[1] \in DOMAIN d.node => To(kind, RowAt(d, k), NodeRowAt(d, k), e) \in Row
  BY <1>1, ToTyped DEF RowAt
<1> DEFINE r == To(kind, RowAt(d, k), RowAt(d, k), e)
           q == To(kind, RowAt(d, k), NodeRowAt(d, k), e)
<1>3. Changed(d, Do(kind, d, x, e), k, r, q)
  BY DoChanges
<1> HIDE DEF r, q
<1> QED
  BY <1>2, <1>3, ChangedOK DEF r, q

\* The elements of a list name rows of d, and those to be locked can be.
Runs(kind, d, seq) ==
  /\ \A i \in 1..Len(seq) : KeyOf(kind, seq[i]) \in DOMAIN d.staking
  /\ kind = "lock" =>
       /\ \A i \in 1..Len(seq) : Stays(d.staking[KeyOf(kind, seq[i])])
       /\ \A i, j \in 1..Len(seq) : i # j => KeyOf(kind, seq[i]) # KeyOf(kind, seq[j])

LEMMA FoldTyped ==
  ASSUME NEW kind \in Updates, NEW d, NEW e \in Nat, NEW S, NEW seq \in Seq(S), TableOK(d),
         block.num \in Nat, Runs(kind, d, seq)
  PROVE  TableOK(FoldOf(kind, d, seq, e)) /\ DOMAIN FoldOf(kind, d, seq, e).staking = DOMAIN d.staking
<1>1. PICK after : Steps(after, kind, d, seq, e) /\ FoldOf(kind, d, seq, e) = after[Len(seq)]
  BY FoldSteps
<1>0. Len(seq) \in Nat
  OBVIOUS
<1> DEFINE Fine(i) == /\ TableOK(after[i])
                      /\ DOMAIN after[i].staking = DOMAIN d.staking
                      /\ kind = "lock" =>
                           \A j \in (i + 1)..Len(seq) :
                             after[i].staking[KeyOf(kind, seq[j])] = d.staking[KeyOf(kind, seq[j])]
           N == {i \in Nat : i =< Len(seq) => Fine(i)}
<1>2. 0 \in N
  BY <1>1 DEF Steps
<1>3. ASSUME NEW i \in Nat, i \in N PROVE i + 1 \in N
  <2> SUFFICES ASSUME i + 1 =< Len(seq) PROVE Fine(i + 1)
    OBVIOUS
  <2>1. Fine(i)
    BY <1>0, <1>3
  <2>2. i + 1 \in 1..Len(seq) /\ (i + 1) - 1 = i
    BY <1>0
  <2>3. after[i + 1] = Do(kind, after[i], seq[i + 1], e)
    BY <1>1, <2>2 DEF Steps
  <2> DEFINE k == KeyOf(kind, seq[i + 1])
             a == after[i]
  <2>4. k \in DOMAIN a.staking
    BY <2>1, <2>2 DEF Runs
  <2>5. kind = "lock" => Stays(a.staking[k])
    <3> SUFFICES ASSUME kind = "lock" PROVE Stays(a.staking[k])
      OBVIOUS
    <3>1. i + 1 \in (i + 1)..Len(seq)
      BY <2>2
    <3>2. a.staking[k] = d.staking[k]
      BY <2>1, <3>1
    <3> QED
      BY <2>2, <3>2 DEF Runs
  <2> DEFINE r == To(kind, RowAt(a, k), RowAt(a, k), e)
             q == To(kind, RowAt(a, k), NodeRowAt(a, k), e)
  <2>6. Changed(a, after[i + 1], k, r, q)
    BY <2>1, <2>3, DoChanges
  <2>7. TableOK(after[i + 1])
    BY <2>1, <2>3, <2>4, <2>5, DoOK
  <2> HIDE DEF r, q, k
  <2>8. DOMAIN after[i + 1].staking = DOMAIN d.staking
    BY <2>1, <2>6 DEF Changed
  <2>9. ASSUME kind = "lock", NEW j \in ((i + 1) + 1)..Len(seq)
        PROVE  after[i + 1].staking[KeyOf(kind, seq[j])] = d.staking[KeyOf(kind, seq[j])]
    <3>1. j \in 1..Len(seq) /\ j \in (i + 1)..Len(seq) /\ j # i + 1
      BY <1>0
    <3>2. KeyOf(kind, seq[j]) # k /\ KeyOf(kind, seq[j]) \in DOMAIN d.staking
      BY <2>2, <2>9, <3>1 DEF Runs, k
    <3>3. after[i].staking[KeyOf(kind, seq[j])] = d.staking[KeyOf(kind, seq[j])]
      BY <2>1, <2>9, <3>1
    <3> QED
      BY <2>1, <2>6, <3>2, <3>3 DEF Changed
  <2> QED
    BY <2>7, <2>8, <2>9
<1> HIDE DEF N
<1>4. Len(seq) \in N
  BY <1>0, <1>2, <1>3, NatSet, Zenon
<1> QED
  BY <1>0, <1>1, <1>4 DEF N

LEMMA Nothing ==
  ASSUME NEW kind, NEW d, NEW e, NEW S, NEW seq \in Seq(S)
  PROVE  Len(seq) = 0 => FoldOf(kind, d, seq, e) = d
<1>1. PICK after : Steps(after, kind, d, seq, e) /\ FoldOf(kind, d, seq, e) = after[Len(seq)]
  BY FoldSteps
<1> QED
  BY <1>1 DEF Steps

-----------------------------------------------------------------------------
(* Orders *)

\* An order of S names each element once.
LEMMA OrderIs ==
  ASSUME NEW S, IsFiniteSet(S), NEW f \in SetToSeqs(S)
  PROVE  /\ f \in Seq(S) /\ Len(f) = Cardinality(S)
         /\ \A i, j \in 1..Len(f) : i # j => f[i] # f[j]
         /\ \A x \in S : \E i \in 1..Len(f) : f[i] = x
<1> DEFINE n == Cardinality(S)
           T == {f[i] : i \in 1..n}
<1>1. n \in Nat
  BY FS_CardinalityType
<1>2. f \in [1..n -> S] /\ \A i, j \in 1..n : i # j => f[i] # f[j]
  BY DEF SetToSeqs
<1> HIDE DEF n
<1>3. f \in Seq(S) /\ Len(f) = n
  BY <1>1, <1>2
<1>4. T \subseteq S
  BY <1>2
<1>5. f \in Bijection(1..n, T)
  BY <1>2 DEF Bijection, Injection, Surjection, IsInjective
<1>6. IsFiniteSet(T) /\ Cardinality(T) = n
  <2>1. IsFiniteSet(1..n) /\ Cardinality(1..n) = n
    BY <1>1, FS_Interval
  <2>2. ExistsBijection(1..n, T)
    BY <1>5 DEF ExistsBijection
  <2> HIDE DEF T
  <2> QED
    BY <2>1, <2>2, FS_Bijection
<1> HIDE DEF T
<1>7. T = S
  BY <1>4, <1>6, FS_Subset DEF n
<1>8. \A x \in S : \E i \in 1..n : f[i] = x
  BY <1>7 DEF T
<1> QED
  BY <1>2, <1>3, <1>8 DEF n

LEMMA SeqOfIs ==
  ASSUME NEW S, IsFiniteSet(S)
  PROVE  SetToSeq(S) \in SetToSeqs(S)
<1> DEFINE n == Cardinality(S)
<1>1. n \in Nat /\ ExistsBijection(1..n, S)
  BY FS_CardinalityType, FS_Bijection
<1>2. PICK g : g \in Bijection(1..n, S)
  BY <1>1 DEF ExistsBijection
<1>3. g \in [1..n -> S] /\ IsInjective(g)
  BY <1>2 DEF Bijection, Injection, IsInjective
<1>4. SetToSeq(S) \in [1..n -> S] /\ IsInjective(SetToSeq(S))
  <2> DEFINE f == CHOOSE f \in [1..n -> S] : IsInjective(f)
  <2>1. f \in [1..n -> S] /\ IsInjective(f)
    BY <1>3
  <2>2. SetToSeq(S) = f
    BY Zenon DEF SetToSeq
  <2> HIDE DEF f
  <2> QED
    BY <2>1, <2>2
<1> HIDE DEF n
<1>5. \A i, j \in 1..n : i # j => SetToSeq(S)[i] # SetToSeq(S)[j]
  BY <1>4 DEF IsInjective
<1> QED
  BY <1>4, <1>5, Zenon DEF SetToSeqs, n

-----------------------------------------------------------------------------
(* Whole handlers keep the tables in order *)

LEMMA LowRowsIn ==
  ASSUME NEW d, TableOK(d)
  PROVE  /\ LowRows(d) \subseteq DOMAIN d.staking /\ Exits(d) \subseteq LowRows(d)
         /\ IsFiniteSet(Exits(d)) /\ IsFiniteSet(LowRows(d) \ Exits(d))
         /\ \A k \in LowRows(d) \ Exits(d) : Stays(d.staking[k])
<1>1. LowRows(d) \subseteq DOMAIN d.staking /\ Exits(d) \subseteq LowRows(d)
  BY DEF LowRows, Exits
<1>2. IsFiniteSet(LowRows(d))
  BY <1>1, FS_Subset DEF TableOK
<1>3. IsFiniteSet(Exits(d)) /\ IsFiniteSet(LowRows(d) \ Exits(d))
  BY <1>1, <1>2, FS_Subset
<1>4. ASSUME NEW k \in LowRows(d) \ Exits(d) PROVE Stays(d.staking[k])
  <2>1. ~(d.staking[k].hes + d.staking[k].locked - Penalty < Threshold)
    BY <1>4 DEF Exits
  <2>2. d.staking[k] \in Row
    BY <1>1 DEF TableOK
  <2>3. d.staking[k].hes \in Nat /\ d.staking[k].locked \in Nat
    BY <2>2, RowFields
  <2> QED
    BY <2>1, <2>3, Bounds DEF Stays
<1> QED
  BY <1>1, <1>3, <1>4

LEMMA ElectionEndNat ==
  ASSUME NEW d, TableOK(d), block.num \in Nat, NEW f \in SetToSeqs(Exits(d)), Len(f) # 0
  PROVE  ElectionEnd(d, f) \in Nat
<1>1. f \in Seq(Exits(d))
  BY OrderIs, LowRowsIn
<1>2. Len(f) \in 1..Len(f)
  BY <1>1
<1>3. Last(f) \in Exits(d)
  BY <1>1, <1>2 DEF Last
<1>4. d.staking[Last(f)] \in Row
  BY <1>3, LowRowsIn DEF TableOK
<1> QED
  BY <1>4, RowFields, EpochNat DEF ElectionEnd

LEMMA SlashLowTyped ==
  ASSUME NEW d, TableOK(d), block.num \in Nat, NEW f \in SetToSeqs(LowRows(d) \ Exits(d)),
         NEW g \in SetToSeqs(Exits(d))
  PROVE  TableOK(SlashLow(d, f, g)) /\ DOMAIN SlashLow(d, f, g).staking = DOMAIN d.staking
<1>1. /\ f \in Seq(LowRows(d) \ Exits(d)) /\ \A i, j \in 1..Len(f) : i # j => f[i] # f[j]
      /\ g \in Seq(Exits(d))
  BY OrderIs, LowRowsIn
<1>2. Runs("lock", d, f)
  <2>1. \A i \in 1..Len(f) : f[i] \in LowRows(d) \ Exits(d)
    BY <1>1
  <2> QED
    BY <1>1, <2>1, LowRowsIn DEF Runs, KeyOf
<1> DEFINE d1 == FoldOf("lock", d, f, 0)
           e == ElectionEnd(d, g)
<1>3. TableOK(d1) /\ DOMAIN d1.staking = DOMAIN d.staking
  <2>1. "lock" \in Updates
    BY DEF Updates
  <2> QED
    BY <1>1, <1>2, <2>1, FoldTyped
<1>4. SlashLow(d, f, g) = FoldOf("exit", d1, g, e)
  BY LockFold, ExitFold, Zenon DEF SlashLow
<1> HIDE DEF d1, e
<1>5. CASE Len(g) = 0
  <2>1. FoldOf("exit", d1, g, e) = d1
    BY <1>1, <1>5, Nothing
  <2> QED
    BY <1>3, <1>4, <2>1
<1>6. CASE Len(g) # 0
  <2>1. e \in Nat
    BY <1>6, ElectionEndNat DEF e
  <2>2. Runs("exit", d1, g)
    <3>1. \A i \in 1..Len(g) : g[i] \in Exits(d)
      BY <1>1
    <3> QED
      BY <1>3, <3>1, LowRowsIn DEF Runs, KeyOf
  <2>3. "exit" \in Updates
    BY DEF Updates
  <2>4. /\ TableOK(FoldOf("exit", d1, g, e))
        /\ DOMAIN FoldOf("exit", d1, g, e).staking = DOMAIN d1.staking
    BY <1>1, <1>3, <2>1, <2>2, <2>3, FoldTyped
  <2> QED
    BY <1>3, <1>4, <2>4
<1> QED
  BY <1>5, <1>6

LEMMA SettleTyped ==
  ASSUME NEW d, TableOK(d), block.num \in Nat, NEW f \in SetToSeqs(Unsettled(d))
  PROVE  /\ TableOK(FoldLeft(SettleRow, d, f))
         /\ DOMAIN FoldLeft(SettleRow, d, f).staking = DOMAIN d.staking
<1>1. Unsettled(d) \subseteq DOMAIN d.staking
  BY DEF Unsettled
<1>2. IsFiniteSet(Unsettled(d))
  BY <1>1, FS_Subset DEF TableOK
<1>3. f \in Seq(Unsettled(d))
  BY <1>2, OrderIs
<1>4. Runs("settle", d, f)
  <2>1. \A i \in 1..Len(f) : f[i] \in Unsettled(d)
    BY <1>3
  <2> QED
    BY <1>1, <2>1 DEF Runs, KeyOf
<1>5. "settle" \in Updates /\ 0 \in Nat
  BY DEF Updates
<1>6. TableOK(FoldOf("settle", d, f, 0)) /\ DOMAIN FoldOf("settle", d, f, 0).staking = DOMAIN d.staking
  BY <1>3, <1>4, <1>5, FoldTyped
<1> QED
  BY <1>6, SettleFold

\* The reports whose staking has a row.
Reports == [node : Nodes, sbn : Nat, hash : Nat]
ReportsOn(K) == {rep \in Reports : RepKey(rep) \in K}

LEMMA PendingTyped ==
  ASSUME NEW K, reports \in [Nodes -> Seq(ReportsOn(K))], NEW nodes \in SUBSET Nodes
  PROVE  PendingOf(nodes) \in Seq(ReportsOn(K))
<1> DEFINE seq == SetToSeq(nodes)
<1>1. IsFiniteSet(nodes)
  BY StakingBounds, FS_Subset
<1>2. seq \in Seq(nodes)
  BY <1>1, SeqOfIs, OrderIs
<1>3. PendingOf(nodes) = FoldOf("pending", <<>>, seq, 0)
  BY PendingFold, Zenon DEF PendingOf
<1> HIDE DEF seq
<1>4. PICK after : Steps(after, "pending", <<>>, seq, 0) /\ PendingOf(nodes) = after[Len(seq)]
  BY <1>2, <1>3, FoldSteps
<1> DEFINE N == {i \in Nat : i =< Len(seq) => after[i] \in Seq(ReportsOn(K))}
<1>5. 0 \in N
  <2>1. after[0] = <<>>
    BY <1>4 DEF Steps
  <2>2. <<>> \in Seq(ReportsOn(K))
    OBVIOUS
  <2> QED
    BY <2>1, <2>2
<1>6. ASSUME NEW i \in Nat, i \in N PROVE i + 1 \in N
  <2> SUFFICES ASSUME i + 1 =< Len(seq) PROVE after[i + 1] \in Seq(ReportsOn(K))
    OBVIOUS
  <2>1. Len(seq) \in Nat
    BY <1>2
  <2>2. after[i] \in Seq(ReportsOn(K)) /\ i + 1 \in 1..Len(seq) /\ (i + 1) - 1 = i
    BY <1>6, <2>1
  <2>3. after[i + 1] = after[i] \o reports[seq[i + 1]]
    BY <1>4, <2>2 DEF Steps, Do
  <2>4. reports[seq[i + 1]] \in Seq(ReportsOn(K))
    BY <1>2, <2>2
  <2> QED
    BY <2>2, <2>3, <2>4
<1> HIDE DEF N
<1>7. Len(seq) \in Nat
  BY <1>2
<1>8. Len(seq) \in N
  BY <1>5, <1>6, <1>7, NatSet, Zenon
<1> QED
  BY <1>4, <1>7, <1>8 DEF N

LEMMA PunishTyped ==
  ASSUME NEW d, TableOK(d), block.num \in Nat, NEW seq \in Seq(ReportsOn(DOMAIN d.staking))
  PROVE  /\ TableOK(FoldLeft(Slash, d, seq))
         /\ DOMAIN FoldLeft(Slash, d, seq).staking = DOMAIN d.staking
<1>1. Runs("slash", d, seq)
  <2>1. \A i \in 1..Len(seq) : seq[i] \in ReportsOn(DOMAIN d.staking)
    OBVIOUS
  <2> QED
    BY <2>1 DEF Runs, KeyOf, ReportsOn
<1>2. "slash" \in Updates /\ 0 \in Nat
  BY DEF Updates
<1>3. TableOK(FoldOf("slash", d, seq, 0)) /\ DOMAIN FoldOf("slash", d, seq, 0).staking = DOMAIN d.staking
  BY <1>1, <1>2, FoldTyped
<1> QED
  BY <1>3, SlashFold

\* A transaction of the chain.
Txns ==
  {NoTx} \cup [type : {"create"}, node : Nodes, amount : Nat]
  \cup [type : {"increase", "exit"}, node : Nodes]
  \cup [type : {"report"}, node : Nodes, sbn : Nat]

LEMMA TxCases ==
  ASSUME NEW tx \in Txns
  PROVE  \/ tx = NoTx /\ tx.type = "none"
         \/ tx.type = "create" /\ tx.node \in Nodes /\ tx.amount \in Nat
         \/ tx.type = "increase" /\ tx.node \in Nodes
         \/ tx.type = "exit" /\ tx.node \in Nodes
         \/ tx.type = "report" /\ tx.node \in Nodes /\ tx.sbn \in Nat
BY DEF Txns, NoTx

CreatedRow(tx) == NewRow(tx.amount, 0, UnStakeEnd(Epoch(block.num)))
CreatedNodeRow(d, tx) ==
  IF tx.node \notin DOMAIN d.node THEN CreatedRow(tx)
  ELSE LET old == d.node[tx.node].row IN
       [CreatedRow(tx) EXCEPT !.locked = old.locked, !.reduction = old.reduction, !.thaw = old.thaw]

\* x is d with the staking that tx creates.
Created(d, x, tx) ==
  /\ DOMAIN x = {"staking", "node", "slash"}
  /\ DOMAIN x.staking = DOMAIN d.staking \cup {Key(tx.node, block.num)}
  /\ \A k \in DOMAIN x.staking :
       x.staking[k] = IF k = Key(tx.node, block.num) THEN CreatedRow(tx) ELSE d.staking[k]
  /\ DOMAIN x.node = DOMAIN d.node \cup {tx.node}
  /\ \A n \in DOMAIN x.node :
       IF n = tx.node
       THEN /\ DOMAIN x.node[n] = {"sbn", "row"}
            /\ x.node[n].sbn = block.num /\ x.node[n].row = CreatedNodeRow(d, tx)
       ELSE x.node[n] = d.node[n]

LEMMA CreateCreates ==
  ASSUME NEW d, TableOK(d), NEW tx
  PROVE  Created(d, Create(d, tx), tx)
<1> DEFINE row == CreatedRow(tx)
           new == CreatedNodeRow(d, tx)
           k == Key(tx.node, block.num)
<1>1. Create(d, tx) = [d EXCEPT !.staking = [x \in DOMAIN @ \cup {k} |-> IF x = k THEN row ELSE @[x]],
                                !.node = [n \in DOMAIN @ \cup {tx.node} |->
                                  IF n = tx.node THEN [sbn |-> block.num, row |-> new] ELSE @[n]]]
  BY Zenon DEF Create, CreatedRow, CreatedNodeRow
<1> HIDE DEF row, new, k
<1>2. DOMAIN d = {"staking", "node", "slash"}
  BY DEF TableOK
<1> QED
  BY <1>1, <1>2 DEF Created, row, new, k

LEMMA CreatedTyped ==
  ASSUME NEW d, TableOK(d), NEW tx, tx.node \in Nodes, tx.amount \in Nat, block.num \in Nat
  PROVE  CreatedRow(tx) \in Row /\ CreatedNodeRow(d, tx) \in Row
<1>1. CreatedRow(tx) \in Row
  BY EpochNat DEF CreatedRow, NewRow, Row
<1>2. tx.node \in DOMAIN d.node => d.node[tx.node].row \in Row
  BY DEF TableOK
<1> DEFINE new(r, old) == [r EXCEPT !.locked = old.locked, !.reduction = old.reduction, !.thaw = old.thaw]
<1>3. \A r, old \in Row : new(r, old) \in Row
  BY DEF Row
<1> HIDE DEF new
<1>4. tx.node \in DOMAIN d.node => CreatedNodeRow(d, tx) = new(CreatedRow(tx), d.node[tx.node].row)
  BY Zenon DEF CreatedNodeRow, new
<1> QED
  BY <1>1, <1>2, <1>3, <1>4 DEF CreatedNodeRow

LEMMA HandleTyped ==
  ASSUME NEW d, TableOK(d), block.num \in Nat, NEW tx \in Txns, tx # NoTx
  PROVE  /\ TableOK(Handle(d, tx))
         /\ DOMAIN Handle(d, tx).staking =
              DOMAIN d.staking \cup (IF tx.type = "create" THEN {Key(tx.node, block.num)} ELSE {})
<1>1. CASE tx.type = "create" /\ tx.node \in Nodes /\ tx.amount \in Nat
  <2>1. Handle(d, tx) = Create(d, tx)
    BY <1>1 DEF Handle
  <2>2. Created(d, Create(d, tx), tx) /\ CreatedRow(tx) \in Row /\ CreatedNodeRow(d, tx) \in Row
    BY <1>1, CreateCreates, CreatedTyped
  <2>3. IsFiniteSet(DOMAIN d.staking \cup {Key(tx.node, block.num)})
    BY FS_AddElement DEF TableOK
  <2>4. Key(tx.node, block.num) \in Nodes \X Nat
    BY <1>1 DEF Key
  <2>5. TableOK(Create(d, tx))
    BY <1>1, <2>2, <2>3, <2>4 DEF TableOK, Created
  <2> QED
    BY <1>1, <2>1, <2>2, <2>5 DEF Created
<1>2. ASSUME NEW x, NEW k, NEW r, NEW q, Changed(d, x, k, r, q),
             k \in DOMAIN d.staking => r \in Row, k[1] \in DOMAIN d.node => q \in Row
      PROVE  TableOK(x) /\ DOMAIN x.staking = DOMAIN d.staking
  <2>1. TableOK(x)
    BY <1>2, ChangedOK
  <2> QED
    BY <1>2, <2>1 DEF Changed
<1>3. \A k : /\ k \in DOMAIN d.staking => RowAt(d, k) \in Row
             /\ k[1] \in DOMAIN d.node => NodeRowAt(d, k) \in Row
  BY DEF TableOK, RowAt, NodeRowAt
<1>4. \A r \in Row : \A k, f : IncreaseTo(r) \in Row /\ ExitTo(k, r) \in Row /\ MarkTo(f, r) \in Row
  BY RowsTyped
<1>5. CASE tx.type = "increase"
  <2>1. Handle(d, tx) = Increase(d, tx)
    BY <1>5 DEF Handle
  <2> DEFINE k == TxKey(tx)
             r == IncreaseTo(RowAt(d, k))
             q == IncreaseTo(NodeRowAt(d, k))
  <2>2. Changed(d, Increase(d, tx), k, r, q)
    BY IncreaseChanges
  <2>3. (k \in DOMAIN d.staking => r \in Row) /\ (k[1] \in DOMAIN d.node => q \in Row)
    BY <1>3, <1>4
  <2> HIDE DEF k, r, q
  <2> QED
    BY <1>2, <1>5, <2>1, <2>2, <2>3
<1>6. CASE tx.type = "exit"
  <2>1. Handle(d, tx) = Exit(d, tx)
    BY <1>6 DEF Handle
  <2> DEFINE k == TxKey(tx)
             r == ExitTo(k, RowAt(d, k))
             q == ExitTo(k, NodeRowAt(d, k))
  <2>2. Changed(d, Exit(d, tx), k, r, q)
    BY ExitChanges
  <2>3. (k \in DOMAIN d.staking => r \in Row) /\ (k[1] \in DOMAIN d.node => q \in Row)
    BY <1>3, <1>4
  <2> HIDE DEF k, r, q
  <2> QED
    BY <1>2, <1>6, <2>1, <2>2, <2>3
<1>7. CASE tx.type = "report"
  <2>1. Handle(d, tx) = Mark(d, tx)
    BY <1>7 DEF Handle
  <2> DEFINE k == RepKey(tx)
             f == NodeRowAt(d, RepKey(tx)).status = CANDIDATE
             r == MarkTo(f, RowAt(d, k))
             q == MarkTo(f, NodeRowAt(d, k))
  <2>2. Changed(d, Mark(d, tx), k, r, q)
    BY MarkChanges
  <2>3. (k \in DOMAIN d.staking => r \in Row) /\ (k[1] \in DOMAIN d.node => q \in Row)
    BY <1>3, <1>4
  <2> HIDE DEF k, f, r, q
  <2> QED
    BY <1>2, <1>7, <2>1, <2>2, <2>3
<1> QED
  BY <1>1, <1>5, <1>6, <1>7, TxCases

LEMMA TxsTyped ==
  ASSUME NEW d, TableOK(d), block.num \in Nat, NEW tx \in Txns, tx # NoTx, NEW m \in Nat \ {0},
         NEW seq, seq = [i \in 1..m |-> tx]
  PROVE  /\ TableOK(FoldLeft(Handle, d, seq))
         /\ DOMAIN FoldLeft(Handle, d, seq).staking =
              DOMAIN d.staking \cup (IF tx.type = "create" THEN {Key(tx.node, block.num)} ELSE {})
<1>1. seq \in Seq({tx}) /\ Len(seq) = m /\ \A i \in 1..m : seq[i] = tx
  OBVIOUS
<1>a. \A s \in Seq({tx}) : \E after : Steps(after, "handle", d, s, 0) /\ FoldOf("handle", d, s, 0) = after[Len(s)]
  <2> TAKE s \in Seq({tx})
  <2> QED
    BY FoldSteps
<1>2. PICK after : Steps(after, "handle", d, seq, 0) /\ FoldOf("handle", d, seq, 0) = after[Len(seq)]
  BY <1>1, <1>a, Zenon
<1> DEFINE more == IF tx.type = "create" THEN {Key(tx.node, block.num)} ELSE {}
           N == {i \in Nat : i + 1 =< m =>
                   TableOK(after[i + 1]) /\ DOMAIN after[i + 1].staking = DOMAIN d.staking \cup more}
<1>3. \A a : TableOK(a) => TableOK(Handle(a, tx)) /\ DOMAIN Handle(a, tx).staking = DOMAIN a.staking \cup more
  BY HandleTyped
<1> HIDE DEF more
<1>4. after[0] = d /\ \A i \in 1..m : after[i] = Handle(after[i - 1], tx)
  BY <1>1, <1>2 DEF Steps, Do
<1>5. 0 \in N
  <2>1. 1 \in 1..m /\ 1 - 1 = 0 /\ 0 + 1 = 1
    OBVIOUS
  <2>2. after[1] = Handle(d, tx)
    BY <1>4, <2>1
  <2> QED
    BY <1>3, <2>1, <2>2
<1>6. ASSUME NEW i \in Nat, i \in N PROVE i + 1 \in N
  <2> SUFFICES ASSUME (i + 1) + 1 =< m
               PROVE  /\ TableOK(after[(i + 1) + 1])
                      /\ DOMAIN after[(i + 1) + 1].staking = DOMAIN d.staking \cup more
    OBVIOUS
  <2>1. (i + 1) + 1 \in 1..m /\ ((i + 1) + 1) - 1 = i + 1 /\ i + 1 =< m
    OBVIOUS
  <2>2. after[(i + 1) + 1] = Handle(after[i + 1], tx)
    BY <1>4, <2>1
  <2>3. TableOK(after[i + 1]) /\ DOMAIN after[i + 1].staking = DOMAIN d.staking \cup more
    BY <1>6, <2>1
  <2> QED
    BY <1>3, <2>2, <2>3
<1> HIDE DEF N
<1>7. m - 1 \in N
  <2>1. \A i \in Nat : i \in N
    BY <1>5, <1>6, NatSet, Zenon
  <2> QED
    BY <2>1
<1>8. TableOK(after[m]) /\ DOMAIN after[m].staking = DOMAIN d.staking \cup more
  <2>1. (m - 1) + 1 = m
    OBVIOUS
  <2> QED
    BY <1>7, <2>1 DEF N
<1>9. FoldLeft(Handle, d, seq) = after[m]
  BY <1>1, <1>2, HandleFold
<1> QED
  BY <1>8, <1>9 DEF more

-----------------------------------------------------------------------------
(* The chain *)

LEMMA RecFields ==
  ASSUME NEW c \in Rec
  PROVE  /\ c.st \in Standings /\ c.sbn \in Nat /\ c.hes \in Nat /\ c.locked \in Nat
         /\ c.until \in Nat /\ c.reported \in Nat
BY DEF Rec

LEMMA ThawTyped ==
  ASSUME NEW c \in Rec, NEW e
  PROVE  /\ Thaw(c, e) \in Rec /\ Thaw(c, e).sbn = c.sbn /\ Thaw(c, e).reported = c.reported
         /\ Thaw(c, e).st # "out" => c.st # "out"
<1>1. c.locked + c.hes \in Nat
  BY RecFields
<1> QED
  BY <1>1 DEF Thaw, Rec, Standings

LEMMA PenaliseTyped ==
  ASSUME NEW c \in Rec, NEW e \in Nat
  PROVE  /\ Penalise(c, e) \in Rec /\ Penalise(c, e).sbn = c.sbn
         /\ Penalise(c, e).reported = c.reported
<1>1. c.hes \in Nat /\ c.locked \in Nat
  BY RecFields
<1>2. /\ Least0(c.locked - Penalty) \in Nat /\ Least0(c.hes - Penalty) \in Nat
      /\ Least0(c.hes + c.locked - Penalty) \in Nat
      /\ ~(c.hes + c.locked - Penalty < Threshold) => c.locked - Least0(Penalty - c.hes) \in Nat
  BY <1>1, Bounds DEF Least0
<1>3. e + UnStakeFreeze \in Nat /\ e + ZeroProduceFreeze \in Nat
  BY Bounds
<1> QED
  BY <1>2, <1>3 DEF Penalise, Rec, Standings

LEMMA ApplyTyped ==
  ASSUME NEW c \in [Nodes -> Rec], NEW tx \in Accepted(c), NEW b \in Nat
  PROVE  /\ tx \in Txns /\ tx # NoTx /\ Apply(c[tx.node], tx, b) \in Rec
         /\ tx.type = "create" => Apply(c[tx.node], tx, b).sbn = b
         /\ tx.type # "create" => Apply(c[tx.node], tx, b).sbn = c[tx.node].sbn /\ c[tx.node].st # "out"
         /\ tx.type = "report" => tx.sbn = c[tx.node].sbn
<1>1. tx.node \in Nodes => c[tx.node] \in Rec
  OBVIOUS
<1>2. \A s \in Nat : Epoch(s) \in Nat
  BY EpochNat
<1>3. Epoch(b) + UnStakeFreeze \in Nat
  BY <1>2, Bounds
<1>4. CASE /\ tx.type = "create" /\ tx.node \in Nodes /\ tx.amount \in Nat
           /\ tx = [type |-> "create", node |-> tx.node, amount |-> tx.amount]
  <2>1. tx \in Txns /\ tx # NoTx
    BY <1>4 DEF Txns, NoTx
  <2>2. Apply(c[tx.node], tx, b) = [Out EXCEPT !.st = "candidate", !.sbn = b, !.hes = tx.amount]
    BY <1>4 DEF Apply
  <2>3. [Out EXCEPT !.st = "candidate", !.sbn = b, !.hes = tx.amount] \in Rec
    BY <1>4 DEF Out, Rec, Standings
  <2>4. [Out EXCEPT !.st = "candidate", !.sbn = b, !.hes = tx.amount].sbn = b
    BY DEF Out
  <2> QED
    BY <1>4, <2>1, <2>2, <2>3, <2>4
<1>5. CASE /\ tx.type \in {"increase", "exit"} /\ tx.node \in Nodes /\ c[tx.node].st = "candidate"
           /\ tx = [type |-> tx.type, node |-> tx.node]
  <2>1. tx \in Txns /\ tx # NoTx
    BY <1>5 DEF Txns, NoTx
  <2>2. c[tx.node].hes + IncreaseAmount \in Nat
    BY <1>1, <1>5, RecFields, Bounds
  <2>3. Apply(c[tx.node], tx, b) \in Rec /\ Apply(c[tx.node], tx, b).sbn = c[tx.node].sbn
    BY <1>1, <1>3, <1>5, <2>2 DEF Apply, Rec, Standings
  <2> QED
    BY <1>5, <2>1, <2>3
<1>6. CASE /\ tx.type = "report" /\ tx.node \in Nodes /\ c[tx.node].st \in Reportable
           /\ tx = [type |-> "report", node |-> tx.node, sbn |-> c[tx.node].sbn]
  <2>1. tx \in Txns /\ tx # NoTx /\ tx.sbn = c[tx.node].sbn
    BY <1>1, <1>6, RecFields DEF Txns, NoTx
  <2>2. Apply(c[tx.node], tx, b) \in Rec /\ Apply(c[tx.node], tx, b).sbn = c[tx.node].sbn
    BY <1>1, <1>3, <1>6 DEF Apply, Rec, Standings
  <2>3. c[tx.node].st # "out"
    BY <1>6, StakingBounds
  <2> QED
    BY <1>6, <2>1, <2>2, <2>3
<1> QED
  BY <1>4, <1>5, <1>6, StakingBounds DEF Accepted

-----------------------------------------------------------------------------
(* Types: what the type invariant needs, whatever fails *)

Block == [num : Nat, low : SUBSET Nodes, tx : Txns]
Places == {"idle", "election", "consensus", "settle", "txs", "commit"}

\* The block in work creates the staking of n.
Creating(n) == pc # "idle" /\ block.tx.type = "create" /\ block.tx.node = n

Typed ==
  /\ chain \in [Nodes -> Rec] /\ validators \subseteq Nodes /\ elected \subseteq Nodes
  /\ block \in Block /\ pc \in Places
  /\ fails \in 0..MaxFail /\ copies \in 0..(fails + 1) /\ (pc # "idle" => copies # 0)

\* The tables, and that every staking in use has its row.
Stored ==
  /\ TableOK(db) /\ TableOK(saved) /\ DOMAIN saved.staking \subseteq DOMAIN db.staking
  /\ reports \in [Nodes -> Seq(ReportsOn(DOMAIN saved.staking))]
  /\ \A n \in Nodes : chain[n].st # "out" => Key(n, chain[n].sbn) \in DOMAIN saved.staking \/ Creating(n)
  /\ pc # "idle" /\ block.tx.type = "report" => RepKey(block.tx) \in DOMAIN saved.staking
  /\ pc # "idle" /\ block.tx.type = "create" => chain[block.tx.node].sbn = block.num
  /\ pc = "commit" /\ block.tx.type = "create" => Key(block.tx.node, block.num) \in DOMAIN db.staking

TypeInv == Typed /\ Stored

LEMMA TypeInvIs == TypeInv => TypeOK
<1> SUFFICES ASSUME TypeInv PROVE TypeOK
  OBVIOUS
<1>1. \A n \in Nodes : chain[n].st \in Standings
  BY RecFields DEF TypeInv, Typed
<1>2. copies \in 0..(MaxFail + 1)
  BY Bounds DEF TypeInv, Typed
<1>3. \A d : TableOK(d) => /\ \A k \in DOMAIN d.staking : d.staking[k] \in Row
                         /\ \A n \in DOMAIN d.node : d.node[n].row \in Row
  BY DEF TableOK
<1>4. /\ validators \subseteq Nodes /\ elected \subseteq Nodes
      /\ pc \in {"idle", "election", "consensus", "settle", "txs", "commit"}
      /\ TableOK(db) /\ TableOK(saved)
  BY DEF TypeInv, Typed, Stored, Places
<1> QED
  BY <1>1, <1>2, <1>3, <1>4 DEF TypeOK

LEMMA TypesAtInit == Init => TypeInv
<1> SUFFICES ASSUME Init PROVE TypeInv
  OBVIOUS
<1>1. GenesisNodes \subseteq Nodes /\ IsFiniteSet(GenesisNodes)
  BY StakingBounds, FS_Subset
<1> DEFINE K == {Key(n, 0) : n \in GenesisNodes}
<1>2. K \subseteq Nodes \X Nat /\ IsFiniteSet(K)
  <2>1. K \subseteq Nodes \X Nat
    BY <1>1 DEF Key
  <2>2. IsFiniteSet(K)
    <3> DEFINE f == [n \in GenesisNodes |-> Key(n, 0)]
    <3>1. f \in Surjection(GenesisNodes, K)
      BY DEF Surjection
    <3> HIDE DEF f, K
    <3> QED
      BY <1>1, <3>1, FS_Surjection DEF ExistsSurjection
  <2> QED
    BY <2>1, <2>2
<1>3. NewRow(0, GenesisStake, UnStakeEnd(1)) \in Row
  <2>1. UnStakeEnd(1) \in Nat
    BY Bounds DEF UnStakeEnd
  <2> QED
    BY <2>1, Bounds DEF NewRow, Row
<1> DEFINE first == NewRow(0, GenesisStake, UnStakeEnd(1))
<1>4. db = [staking |-> [k \in K |-> first], node |-> [n \in GenesisNodes |-> [sbn |-> 0, row |-> first]],
            slash |-> {}]
  BY DEF Init
<1>5. \A n \in Nodes : chain[n] \in Rec /\ (chain[n].st # "out" => n \in GenesisNodes /\ chain[n].sbn = 0)
  BY Bounds DEF Init, Out, Rec, Standings
<1>6. \A n \in GenesisNodes : Key(n, 0) \in K
  OBVIOUS
<1> HIDE DEF K, first
<1>7. TableOK(db) /\ DOMAIN db.staking = K
  BY <1>1, <1>2, <1>3, <1>4 DEF TableOK, first
<1>8. saved = db /\ pc = "idle"
  BY DEF Init
<1>9. block \in Block
  <2>1. block = [num |-> 0, low |-> {}, tx |-> NoTx]
    BY DEF Init
  <2>2. NoTx \in Txns
    BY DEF Txns
  <2> HIDE DEF NoTx
  <2> QED
    BY <2>1, <2>2 DEF Block
<1>10. chain \in [Nodes -> Rec]
  <2>1. chain = [n \in Nodes |-> IF n \in GenesisNodes
                     THEN [Out EXCEPT !.st = "candidate", !.locked = GenesisStake] ELSE Out]
    BY DEF Init
  <2> QED
    BY <1>5, <2>1
<1>11. Typed
  BY <1>1, <1>8, <1>9, <1>10, Bounds DEF Init, Typed, Places
<1>12. reports \in [Nodes -> Seq(ReportsOn(DOMAIN saved.staking))]
  BY DEF Init
<1>13. Stored
  BY <1>5, <1>6, <1>7, <1>8, <1>12 DEF Stored
<1> QED
  BY <1>11, <1>13 DEF TypeInv

\* What the chain's next block is made of.
NextBlock(b, c1, low, c2, tx, c3) ==
  /\ b = block.num + 1
  /\ c1 = IF OpensSettle(b) THEN [n \in Nodes |-> Thaw(chain[n], Epoch(b))] ELSE chain
  /\ validators' = IF OpensConsensus(b) THEN elected ELSE validators
  /\ low \in SUBSET (IF Elects(b)
                     THEN {n \in validators' : c1[n].st \in Penalised /\ c1[n].reported = 0} ELSE {})
  /\ Cardinality(low) =< MaxSlashed
  /\ c2 = [n \in Nodes |-> IF n \in low THEN Penalise(c1[n], Epoch(b)) ELSE c1[n]]
  /\ tx = NoTx \/ tx \in Accepted(c2)
  /\ c3 = IF tx = NoTx THEN c2 ELSE [c2 EXCEPT ![tx.node] = Apply(@, tx, b)]
  /\ chain' = c3
  /\ IF (b + ElectionBackward) % ConsensusPeriod = 0
     THEN elected' \in SUBSET Electable(c3, low) ELSE elected' = elected
  /\ block' = [num |-> b, low |-> low, tx |-> tx]

LEMMA ProduceIs ==
  ASSUME Produce
  PROVE  /\ \E b, c1, low, c2, tx, c3 : NextBlock(b, c1, low, c2, tx, c3)
         /\ pc = "idle" /\ pc' = "election" /\ copies' = 1
         /\ UNCHANGED <<db, saved, reports, fails, crashes>>
<1>1. pc = "idle" /\ pc' = "election" /\ copies' = 1 /\ UNCHANGED <<db, saved, reports, fails, crashes>>
  BY DEF Produce, faults
<1> DEFINE b == block.num + 1
           c1 == IF OpensSettle(b) THEN [n \in Nodes |-> Thaw(chain[n], Epoch(b))] ELSE chain
           vals == IF OpensConsensus(b) THEN elected ELSE validators
           candidates == IF Elects(b)
                         THEN {n \in vals : c1[n].st \in Penalised /\ c1[n].reported = 0} ELSE {}
           c2(low) == [n \in Nodes |-> IF n \in low THEN Penalise(c1[n], Epoch(b)) ELSE c1[n]]
           c3(low, tx) == IF tx = NoTx THEN c2(low) ELSE [c2(low) EXCEPT ![tx.node] = Apply(@, tx, b)]
<1>2. PICK low \in SUBSET candidates : /\ Cardinality(low) =< MaxSlashed
        /\ \E tx \in {NoTx} \cup (IF txs < MaxTx THEN Accepted(c2(low)) ELSE {}) :
             /\ chain' = c3(low, tx) /\ validators' = vals
             /\ IF (b + ElectionBackward) % ConsensusPeriod = 0
                THEN elected' \in {s \in SUBSET Electable(c3(low, tx), low) : s # {}}
                ELSE UNCHANGED elected
             /\ block' = [num |-> b, low |-> low, tx |-> tx]
  BY Zenon DEF Produce
<1>3. PICK tx \in {NoTx} \cup (IF txs < MaxTx THEN Accepted(c2(low)) ELSE {}) :
             /\ chain' = c3(low, tx) /\ validators' = vals
             /\ IF (b + ElectionBackward) % ConsensusPeriod = 0
                THEN elected' \in {s \in SUBSET Electable(c3(low, tx), low) : s # {}}
                ELSE UNCHANGED elected
             /\ block' = [num |-> b, low |-> low, tx |-> tx]
  BY <1>2, Zenon
<1>4. tx = NoTx \/ tx \in Accepted(c2(low))
  BY <1>3
<1>5. IF (b + ElectionBackward) % ConsensusPeriod = 0
      THEN elected' \in SUBSET Electable(c3(low, tx), low) ELSE elected' = elected
  BY <1>3
<1>6. NextBlock(b, c1, low, c2(low), tx, c3(low, tx))
  BY <1>2, <1>3, <1>4, <1>5, Zenon DEF NextBlock
<1> HIDE DEF b, c1, c2, c3
<1> QED
  BY <1>1, <1>6

LEMMA TypesAtProduce == TypeInv /\ Produce => TypeInv'
<1> SUFFICES ASSUME TypeInv, Produce PROVE TypeInv'
  OBVIOUS
<1>1. PICK b, c1, low, c2, tx, c3 : NextBlock(b, c1, low, c2, tx, c3)
  BY ProduceIs
<1>2. pc = "idle" /\ pc' = "election" /\ copies' = 1 /\ UNCHANGED <<db, saved, reports, fails, crashes>>
  BY ProduceIs
<1>3. b \in Nat /\ Epoch(b) \in Nat
  BY <1>1, EpochNat DEF NextBlock, TypeInv, Typed, Block
<1>4. c1 \in [Nodes -> Rec] /\ \A n \in Nodes : c1[n].sbn = chain[n].sbn /\ (c1[n].st # "out" => chain[n].st # "out")
  <2>1. chain \in [Nodes -> Rec]
    BY DEF TypeInv, Typed
  <2> QED
    BY <1>1, <2>1, ThawTyped DEF NextBlock
<1>5. /\ validators' \subseteq Nodes /\ low \subseteq Nodes
      /\ \A n \in low : c1[n].st # "out"
  BY <1>1, StakingBounds DEF NextBlock, TypeInv, Typed
<1>6. c2 \in [Nodes -> Rec] /\ \A n \in Nodes : c2[n].sbn = chain[n].sbn /\ (c2[n].st # "out" => chain[n].st # "out")
  <2>1. c2 = [n \in Nodes |-> IF n \in low THEN Penalise(c1[n], Epoch(b)) ELSE c1[n]]
    BY <1>1 DEF NextBlock
  <2> QED
    BY <1>3, <1>4, <1>5, <2>1, PenaliseTyped
<1>7. tx \in Txns
  BY <1>1, <1>3, <1>6, ApplyTyped DEF NextBlock, Txns
<1>8. /\ c3 \in [Nodes -> Rec]
      /\ \A n \in Nodes : c3[n].st # "out" => (chain[n].st # "out" /\ c3[n].sbn = chain[n].sbn)
                                              \/ (tx.type = "create" /\ tx.node = n)
      /\ tx.type = "create" => c3[tx.node].sbn = b
      /\ tx.type = "report" => chain[tx.node].st # "out" /\ tx.sbn = chain[tx.node].sbn /\ tx.node \in Nodes
  <2>1. CASE tx = NoTx
    <3>1. c3 = c2 /\ tx.type = "none"
      BY <1>1, <2>1 DEF NextBlock, NoTx
    <3> QED
      BY <1>6, <3>1
  <2>2. CASE tx # NoTx
    <3>1. tx \in Accepted(c2) /\ c3 = [c2 EXCEPT ![tx.node] = Apply(c2[tx.node], tx, b)]
      BY <1>1, <2>2 DEF NextBlock
    <3> DEFINE a == Apply(c2[tx.node], tx, b)
    <3>2. /\ a \in Rec /\ (tx.type = "create" => a.sbn = b)
          /\ tx.type # "create" => a.sbn = c2[tx.node].sbn /\ c2[tx.node].st # "out"
          /\ tx.type = "report" => tx.sbn = c2[tx.node].sbn
      BY <1>3, <1>6, <3>1, ApplyTyped
    <3>3. tx.node \in Nodes
      BY <1>7, <2>2, TxCases
    <3> HIDE DEF a
    <3>4. c3 \in [Nodes -> Rec] /\ \A n \in Nodes : c3[n] = IF n = tx.node THEN a ELSE c2[n]
      BY <1>6, <3>1, <3>2 DEF a
    <3> QED
      BY <1>6, <3>2, <3>3, <3>4
  <2> QED
    BY <2>1, <2>2
<1>9. chain' = c3 /\ block' = [num |-> b, low |-> low, tx |-> tx]
  BY <1>1 DEF NextBlock
<1>10. elected' \subseteq Nodes
  BY <1>1 DEF NextBlock, Electable, TypeInv, Typed
<1>11. Typed'
  <2>1. block' \in Block
    BY <1>3, <1>5, <1>7, <1>9 DEF Block
  <2>2. fails' \in 0..MaxFail /\ 1 \in 0..(fails + 1)
    BY <1>2, Bounds DEF TypeInv, Typed
  <2> QED
    BY <1>2, <1>5, <1>8, <1>9, <1>10, <2>1, <2>2 DEF Typed, Places
<1>12. \A n \in Nodes : chain[n].st # "out" => Key(n, chain[n].sbn) \in DOMAIN saved.staking
  BY <1>2 DEF TypeInv, Stored, Creating
<1>13. block'.tx = tx /\ block'.num = b
  BY <1>9
<1>14. Stored'
  <2>1. TableOK(db)' /\ TableOK(saved)' /\ (DOMAIN saved.staking \subseteq DOMAIN db.staking)'
    BY <1>2 DEF TypeInv, Stored, TableOK
  <2>2. (reports \in [Nodes -> Seq(ReportsOn(DOMAIN saved.staking))])'
    BY <1>2 DEF TypeInv, Stored
  <2>3. ASSUME NEW n \in Nodes, chain'[n].st # "out"
        PROVE  Key(n, chain'[n].sbn) \in DOMAIN saved'.staking \/ Creating(n)'
    BY <1>2, <1>8, <1>9, <1>12, <1>13, <2>3 DEF Creating
  <2>4. block'.tx.type = "report" => RepKey(block'.tx) \in DOMAIN saved'.staking
    BY <1>2, <1>8, <1>12, <1>13 DEF RepKey
  <2>5. block'.tx.type = "create" => chain'[block'.tx.node].sbn = block'.num
    BY <1>8, <1>9, <1>13
  <2>6. pc' # "commit"
    BY <1>2
  <2> QED
    BY <2>1, <2>2, <2>3, <2>4, <2>5, <2>6 DEF Stored
<1> QED
  BY <1>11, <1>14 DEF TypeInv

\* A step within the block.
LEMMA TypesStay ==
  ASSUME TypeInv, pc # "idle", pc' \in Places \ {"idle"}, UNCHANGED <<external, copies, saved, faults>>,
         TableOK(db)', DOMAIN db.staking \subseteq DOMAIN db'.staking,
         reports' \in [Nodes -> Seq(ReportsOn(DOMAIN saved.staking))],
         pc' = "commit" /\ block.tx.type = "create" => Key(block.tx.node, block.num) \in DOMAIN db'.staking
  PROVE  TypeInv'
<1>1. UNCHANGED <<chain, validators, elected, block, copies, saved, fails>>
  BY DEF external, faults
<1>2. Typed'
  BY <1>1 DEF TypeInv, Typed
<1>3. TableOK(saved)' /\ (DOMAIN saved.staking \subseteq DOMAIN db.staking)'
  BY <1>1 DEF TypeInv, Stored, TableOK
<1>4. (reports \in [Nodes -> Seq(ReportsOn(DOMAIN saved.staking))])'
  BY <1>1
<1>5. Stored'
  BY <1>1, <1>3, <1>4 DEF TypeInv, Stored, Creating, RepKey
<1> QED
  BY <1>2, <1>5 DEF TypeInv

LEMMA TypesAtElection == TypeInv /\ Election => TypeInv'
<1> SUFFICES ASSUME TypeInv, Election PROVE TypeInv'
  OBVIOUS
<1>1. /\ pc = "election" /\ pc' = "consensus" /\ UNCHANGED <<external, copies, saved, faults>>
      /\ reports' = reports
  BY DEF Election
<1>2. TableOK(db) /\ block.num \in Nat
  BY DEF TypeInv, Typed, Stored, Block
<1>3. TableOK(db)' /\ DOMAIN db'.staking = DOMAIN db.staking
  <2>1. CASE Elects(block.num)
    <3>1. PICK f \in SetToSeqs(LowRows(db) \ Exits(db)), g \in SetToSeqs(Exits(db)) : db' = SlashLow(db, f, g)
      BY <2>1 DEF Election
    <3>2. TableOK(SlashLow(db, f, g)) /\ DOMAIN SlashLow(db, f, g).staking = DOMAIN db.staking
      BY <1>2, SlashLowTyped
    <3> QED
      BY <3>1, <3>2 DEF TableOK
  <2>2. CASE ~Elects(block.num)
    BY <1>2, <2>2 DEF Election, TableOK
  <2> QED
    BY <2>1, <2>2
<1> QED
  BY <1>1, <1>3, TypesStay DEF Places, TypeInv, Stored

LEMMA TypesAtConsensus == TypeInv /\ Consensus => TypeInv'
<1> SUFFICES ASSUME TypeInv, Consensus PROVE TypeInv'
  OBVIOUS
<1>1. pc = "consensus" /\ pc' = "settle" /\ UNCHANGED <<external, copies, saved, faults>>
  BY DEF Consensus
<1>2. /\ TableOK(db) /\ block.num \in Nat /\ reports \in [Nodes -> Seq(ReportsOn(DOMAIN saved.staking))]
      /\ DOMAIN saved.staking \subseteq DOMAIN db.staking
  BY DEF TypeInv, Typed, Stored, Block
<1>3. /\ TableOK(db)' /\ DOMAIN db'.staking = DOMAIN db.staking
      /\ reports' \in [Nodes -> Seq(ReportsOn(DOMAIN saved.staking))]
  <2>1. CASE OpensConsensus(block.num)
    <3> DEFINE nodes == ToPunish(db)
               seq == PendingOf(nodes)
    <3>1. db' = FoldLeft(Slash, db, seq) /\ reports' = [n \in Nodes |-> IF n \in nodes THEN <<>> ELSE reports[n]]
      BY <2>1 DEF Consensus
    <3>2. nodes \in SUBSET Nodes
      BY DEF ToPunish
    <3> HIDE DEF nodes
    <3>3. seq \in Seq(ReportsOn(DOMAIN saved.staking))
      BY <1>2, <3>2, PendingTyped
    <3> HIDE DEF seq
    <3>4. seq \in Seq(ReportsOn(DOMAIN db.staking))
      <4>1. ReportsOn(DOMAIN saved.staking) \subseteq ReportsOn(DOMAIN db.staking)
        BY <1>2 DEF ReportsOn
      <4> QED
        BY <3>3, <4>1
    <3>5. TableOK(FoldLeft(Slash, db, seq)) /\ DOMAIN FoldLeft(Slash, db, seq).staking = DOMAIN db.staking
      BY <1>2, <3>4, PunishTyped
    <3>a. <<>> \in Seq(ReportsOn(DOMAIN saved.staking))
      OBVIOUS
    <3>b. \A n \in Nodes : (IF n \in nodes THEN <<>> ELSE reports[n]) \in Seq(ReportsOn(DOMAIN saved.staking))
      BY <1>2, <3>a
    <3>6. reports' \in [Nodes -> Seq(ReportsOn(DOMAIN saved.staking))]
      BY <3>1, <3>b
    <3> QED
      BY <3>1, <3>5, <3>6 DEF TableOK
  <2>2. CASE ~OpensConsensus(block.num)
    BY <1>2, <2>2 DEF Consensus, TableOK
  <2> QED
    BY <2>1, <2>2
<1> QED
  BY <1>1, <1>3, TypesStay DEF Places

LEMMA TypesAtSettle == TypeInv /\ Settle => TypeInv'
<1> SUFFICES ASSUME TypeInv, Settle PROVE TypeInv'
  OBVIOUS
<1>1. /\ pc = "settle" /\ pc' = "txs" /\ UNCHANGED <<external, copies, saved, faults>>
      /\ reports' = reports
  BY DEF Settle
<1>2. TableOK(db) /\ block.num \in Nat
  BY DEF TypeInv, Typed, Stored, Block
<1>3. TableOK(db)' /\ DOMAIN db'.staking = DOMAIN db.staking
  <2>1. CASE OpensSettle(block.num) /\ block.num > 1
    <3>1. PICK f \in SetToSeqs(Unsettled(db)) : db' = FoldLeft(SettleRow, db, f)
      BY <2>1 DEF Settle
    <3>2. TableOK(FoldLeft(SettleRow, db, f)) /\ DOMAIN FoldLeft(SettleRow, db, f).staking = DOMAIN db.staking
      BY <1>2, SettleTyped
    <3> QED
      BY <3>1, <3>2 DEF TableOK
  <2>2. CASE ~(OpensSettle(block.num) /\ block.num > 1)
    BY <1>2, <2>2 DEF Settle, TableOK
  <2> QED
    BY <2>1, <2>2
<1> QED
  BY <1>1, <1>3, TypesStay DEF Places, TypeInv, Stored

LEMMA TypesAtTxs == TypeInv /\ Txs => TypeInv'
<1> SUFFICES ASSUME TypeInv, Txs PROVE TypeInv'
  OBVIOUS
<1> DEFINE tx == block.tx
           seq == [i \in 1..copies |-> tx]
<1>1. pc = "txs" /\ pc' = "commit" /\ UNCHANGED <<external, copies, saved, faults>>
  BY DEF Txs
<1>2. /\ TableOK(db) /\ block.num \in Nat /\ tx \in Txns /\ copies \in Nat \ {0}
      /\ reports \in [Nodes -> Seq(ReportsOn(DOMAIN saved.staking))]
      /\ tx.type = "report" => RepKey(tx) \in DOMAIN saved.staking
  <2>1. fails \in Nat /\ copies \in 0..(fails + 1) /\ copies # 0
    BY <1>1, Bounds DEF TypeInv, Typed
  <2>2. copies \in Nat \ {0}
    BY <2>1
  <2> QED
    BY <1>1, <2>2 DEF TypeInv, Typed, Stored, Block
<1>3. /\ db' = (IF tx = NoTx THEN db ELSE FoldLeft(Handle, db, seq))
      /\ reports' = IF tx.type = "report"
                    THEN [reports EXCEPT ![tx.node] = @ \o [i \in 1..copies |-> ReportOf(tx)]] ELSE reports
  BY Zenon DEF Txs
<1> HIDE DEF seq, tx
<1>4. CASE tx = NoTx
  <2>1. db' = db /\ reports' = reports /\ tx.type = "none"
    BY <1>3, <1>4 DEF NoTx
  <2>2. TableOK(db)'
    BY <1>2, <2>1 DEF TableOK
  <2> QED
    BY <1>1, <1>2, <2>1, <2>2, TypesStay DEF Places, tx
<1>5. CASE tx # NoTx
  <2>1. /\ TableOK(FoldLeft(Handle, db, seq))
        /\ DOMAIN FoldLeft(Handle, db, seq).staking =
             DOMAIN db.staking \cup (IF tx.type = "create" THEN {Key(tx.node, block.num)} ELSE {})
    BY <1>2, <1>5, TxsTyped DEF seq
  <2>2. db' = FoldLeft(Handle, db, seq)
    BY <1>3, <1>5
  <2>3. reports' \in [Nodes -> Seq(ReportsOn(DOMAIN saved.staking))]
    <3>1. CASE tx.type = "report"
      <4>1. tx.node \in Nodes /\ tx.sbn \in Nat
        BY <1>2, <3>1, TxCases
      <4>2. ReportOf(tx) \in ReportsOn(DOMAIN saved.staking)
        BY <1>2, <3>1, <4>1 DEF ReportOf, ReportsOn, Reports, RepKey
      <4> DEFINE more == [i \in 1..copies |-> ReportOf(tx)]
      <4>3. more \in Seq(ReportsOn(DOMAIN saved.staking))
        BY <1>2, <4>2
      <4>4. reports' = [reports EXCEPT ![tx.node] = reports[tx.node] \o more]
        BY <1>3, <3>1
      <4> HIDE DEF more
      <4> QED
        BY <1>2, <4>1, <4>3, <4>4
    <3>2. CASE tx.type # "report"
      BY <1>2, <1>3, <3>2
    <3> QED
      BY <3>1, <3>2
  <2>4. TableOK(db)'
    BY <2>1, <2>2 DEF TableOK
  <2>5. DOMAIN db.staking \subseteq DOMAIN db'.staking /\ (tx.type = "create" => Key(tx.node, block.num) \in DOMAIN db'.staking)
    BY <2>1, <2>2
  <2> QED
    BY <1>1, <2>3, <2>4, <2>5, TypesStay DEF Places, tx
<1> QED
  BY <1>4, <1>5

LEMMA TypesAtCommit == TypeInv /\ Commit => TypeInv'
<1> SUFFICES ASSUME TypeInv, Commit PROVE TypeInv'
  OBVIOUS
<1>1. /\ pc = "commit" /\ pc' = "idle" /\ saved' = db /\ copies' = 0
      /\ UNCHANGED <<chain, validators, elected, block, txs, db, reports, fails, crashes>>
  BY DEF Commit, external, faults
<1>2. Typed'
  BY <1>1, Bounds DEF TypeInv, Typed, Places
<1>3. TableOK(db)' /\ TableOK(saved)' /\ (DOMAIN saved.staking \subseteq DOMAIN db.staking)'
  BY <1>1 DEF TypeInv, Stored, TableOK
<1>4. (reports \in [Nodes -> Seq(ReportsOn(DOMAIN saved.staking))])'
  <2>1. DOMAIN saved.staking \subseteq DOMAIN db.staking /\ reports \in [Nodes -> Seq(ReportsOn(DOMAIN saved.staking))]
    BY DEF TypeInv, Stored
  <2>2. ReportsOn(DOMAIN saved.staking) \subseteq ReportsOn(DOMAIN db.staking)
    BY <2>1 DEF ReportsOn
  <2>3. \A n \in Nodes : reports[n] \in Seq(ReportsOn(DOMAIN db.staking))
    BY <2>1, <2>2
  <2>4. reports \in [Nodes -> Seq(ReportsOn(DOMAIN db.staking))]
    BY <2>1, <2>3
  <2> QED
    BY <1>1, <2>4
<1>5. ASSUME NEW n \in Nodes, chain[n].st # "out" PROVE Key(n, chain[n].sbn) \in DOMAIN db.staking
  <2>1. CASE Key(n, chain[n].sbn) \in DOMAIN saved.staking
    BY <2>1 DEF TypeInv, Stored
  <2>2. CASE Creating(n)
    BY <1>1, <2>2 DEF TypeInv, Stored, Creating
  <2> QED
    BY <1>5, <2>1, <2>2 DEF TypeInv, Stored
<1>6. Stored'
  BY <1>1, <1>3, <1>4, <1>5 DEF Stored
<1> QED
  BY <1>2, <1>6 DEF TypeInv

\* The tables go back to the committed ones.
LEMMA TypesAtReturn ==
  ASSUME TypeInv, UNCHANGED <<external, saved>>, db' = saved,
         pc' = (IF pc = "idle" THEN "idle" ELSE "election"),
         fails' \in 0..MaxFail, copies' \in 0..(fails' + 1), pc' # "idle" => copies' # 0,
         reports' \in [Nodes -> Seq(ReportsOn(DOMAIN saved.staking))]
  PROVE  TypeInv'
<1>1. UNCHANGED <<chain, validators, elected, block, saved>>
  BY DEF external
<1>2. Typed'
  BY <1>1 DEF TypeInv, Typed, Places
<1>3. TableOK(db)' /\ TableOK(saved)' /\ (DOMAIN saved.staking \subseteq DOMAIN db.staking)'
  BY <1>1 DEF TypeInv, Stored, TableOK
<1>4. (reports \in [Nodes -> Seq(ReportsOn(DOMAIN saved.staking))])'
  BY <1>1
<1>5. Stored'
  BY <1>1, <1>3, <1>4 DEF TypeInv, Stored, Creating, RepKey
<1> QED
  BY <1>2, <1>5 DEF TypeInv

LEMMA TypesAtFail == TypeInv /\ Fail => TypeInv'
<1> SUFFICES ASSUME TypeInv, Fail PROVE TypeInv'
  OBVIOUS
<1>1. /\ pc # "idle" /\ pc' = "election" /\ fails < MaxFail /\ db' = saved /\ copies' = copies + 1
      /\ fails' = fails + 1 /\ UNCHANGED <<external, saved, reports>>
  BY DEF Fail
<1>2. fails' \in 0..MaxFail /\ copies' \in 0..(fails' + 1) /\ copies' # 0
  BY <1>1, Bounds DEF TypeInv, Typed
<1>3. reports' \in [Nodes -> Seq(ReportsOn(DOMAIN saved.staking))]
  BY <1>1 DEF TypeInv, Stored
<1> QED
  BY <1>1, <1>2, <1>3, TypesAtReturn

LEMMA TypesAtCrash == TypeInv /\ Crash => TypeInv'
<1> SUFFICES ASSUME TypeInv, Crash PROVE TypeInv'
  OBVIOUS
<1>1. /\ pc' = (IF pc = "idle" THEN "idle" ELSE "election") /\ db' = saved
      /\ copies' = (IF pc = "idle" THEN 0 ELSE 1)
      /\ fails' = fails /\ reports' = [n \in Nodes |-> <<>>] /\ UNCHANGED <<external, saved>>
  BY DEF Crash
<1>2. fails' \in 0..MaxFail /\ copies' \in 0..(fails' + 1) /\ (pc' # "idle" => copies' # 0)
  BY <1>1, Bounds DEF TypeInv, Typed
<1>3. reports' \in [Nodes -> Seq(ReportsOn(DOMAIN saved.staking))]
  BY <1>1
<1> QED
  BY <1>1, <1>2, <1>3, TypesAtReturn

LEMMA TypesAtStutter == TypeInv /\ UNCHANGED vars => TypeInv'
<1> SUFFICES ASSUME TypeInv, UNCHANGED vars PROVE TypeInv'
  OBVIOUS
<1>1. UNCHANGED <<chain, validators, elected, block, pc, copies, db, saved, reports, fails>>
  BY DEF vars, external, faults
<1> QED
  BY <1>1 DEF TypeInv, Typed, Stored, Creating, TableOK, RepKey

LEMMA TypesAlways == TypeInv /\ [Next]_vars => TypeInv'
BY TypesAtProduce, TypesAtElection, TypesAtConsensus, TypesAtSettle, TypesAtTxs, TypesAtCommit,
   TypesAtFail, TypesAtCrash, TypesAtStutter DEF Next

\* Every reachable state of the stakings is well typed, whatever is retried,
\* rolled back or lost in a crash: no handler writes a row the table's columns
\* cannot hold, and every report waiting in memory names a staking that is there.
THEOREM StakingsTyped == Spec => []TypeOK
BY TypesAtInit, TypesAlways, TypeInvIs, PTL DEF Spec

-----------------------------------------------------------------------------
(* What the tables have of one node *)

\* d and x have the same of node n.
SameOf(d, x, n) ==
  /\ \A k : k[1] = n => (k \in DOMAIN d.staking <=> k \in DOMAIN x.staking)
  /\ \A k \in DOMAIN d.staking : k[1] = n => x.staking[k] = d.staking[k]
  /\ n \in DOMAIN d.node <=> n \in DOMAIN x.node
  /\ n \in DOMAIN d.node => x.node[n].sbn = d.node[n].sbn /\ x.node[n].row = d.node[n].row

LEMMA SameTrans ==
  ASSUME NEW a, NEW b, NEW c, NEW n, SameOf(a, b, n), SameOf(b, c, n)
  PROVE  SameOf(a, c, n)
BY DEF SameOf

LEMMA SameSelf == ASSUME NEW a, NEW n PROVE SameOf(a, a, n)
BY DEF SameOf

LEMMA ChangedOther ==
  ASSUME NEW d, NEW x, NEW k, NEW r, NEW q, Changed(d, x, k, r, q), NEW n, n # k[1]
  PROVE  SameOf(d, x, n)
BY DEF SameOf, Changed

LEMMA ChangedSame ==
  ASSUME NEW d, NEW x, NEW k, NEW r, NEW q, NEW e, NEW y, NEW p,
         Changed(d, x, k, r, q), Changed(e, y, k, r, p), SameOf(d, e, k[1]),
         k[1] \in DOMAIN d.node => p = q
  PROVE  SameOf(x, y, k[1])
BY DEF SameOf, Changed

\* An update of a node's rows reads and writes nothing else.
LEMMA DoSame ==
  ASSUME NEW kind \in Updates, NEW d, NEW y, NEW x, NEW e, TableOK(d), TableOK(y),
         NEW k, k = KeyOf(kind, x), k \in DOMAIN d.staking, SameOf(d, y, k[1])
  PROVE  SameOf(Do(kind, d, x, e), Do(kind, y, x, e), k[1])
<1> DEFINE r(a) == To(kind, RowAt(a, k), RowAt(a, k), e)
           q(a) == To(kind, RowAt(a, k), NodeRowAt(a, k), e)
<1>1. Changed(d, Do(kind, d, x, e), k, r(d), q(d)) /\ Changed(y, Do(kind, y, x, e), k, r(y), q(y))
  BY DoChanges
<1>2. RowAt(y, k) = RowAt(d, k)
  BY DEF SameOf, RowAt
<1>3. k[1] \in DOMAIN d.node => NodeRowAt(y, k) = NodeRowAt(d, k)
  BY DEF SameOf, NodeRowAt
<1>4. r(y) = r(d) /\ (k[1] \in DOMAIN d.node => q(y) = q(d))
  BY <1>2, <1>3
<1> HIDE DEF r, q
<1>5. Changed(y, Do(kind, y, x, e), k, r(d), q(y))
  BY <1>1, <1>4
<1> QED
  BY <1>1, <1>4, <1>5, ChangedSame

\* A list with one element per node does to each node what its element does.
Node(kind, x) == KeyOf(kind, x)[1]
Apart(kind, seq) == \A i, j \in 1..Len(seq) : i # j => Node(kind, seq[i]) # Node(kind, seq[j])

LEMMA FoldNodes ==
  ASSUME NEW kind \in Updates, NEW d, NEW e \in Nat, NEW S, NEW seq \in Seq(S), TableOK(d),
         block.num \in Nat, Runs(kind, d, seq), Apart(kind, seq), NEW x, x = FoldOf(kind, d, seq, e)
  PROVE  /\ \A n : (\A i \in 1..Len(seq) : Node(kind, seq[i]) # n) => SameOf(d, x, n)
         /\ \A i \in 1..Len(seq) : SameOf(Do(kind, d, seq[i], e), x, Node(kind, seq[i]))
<1>a. \A s \in Seq(S) : \E after : Steps(after, kind, d, s, e) /\ FoldOf(kind, d, s, e) = after[Len(s)]
  <2> TAKE s \in Seq(S)
  <2> QED
    BY FoldSteps
<1>1. PICK after : Steps(after, kind, d, seq, e) /\ FoldOf(kind, d, seq, e) = after[Len(seq)]
  BY <1>a
<1>0. Len(seq) \in Nat
  OBVIOUS
<1> DEFINE Others(i) == \A n : (\A j \in 1..i : Node(kind, seq[j]) # n) => SameOf(d, after[i], n)
           Ones(i) == \A j \in 1..i : SameOf(Do(kind, d, seq[j], e), after[i], Node(kind, seq[j]))
           Fine(i) == TableOK(after[i]) /\ DOMAIN after[i].staking = DOMAIN d.staking /\ Others(i) /\ Ones(i)
           N == {i \in Nat : i =< Len(seq) => Fine(i)}
<1>2. 0 \in N
  <2>1. after[0] = d
    BY <1>1 DEF Steps
  <2> QED
    BY <2>1, SameSelf
<1>3. ASSUME NEW i \in Nat, i \in N PROVE i + 1 \in N
  <2> SUFFICES ASSUME i + 1 =< Len(seq) PROVE Fine(i + 1)
    OBVIOUS
  <2>1. Fine(i)
    BY <1>0, <1>3
  <2>2. i + 1 \in 1..Len(seq) /\ (i + 1) - 1 = i
    BY <1>0
  <2> DEFINE k == KeyOf(kind, seq[i + 1])
             a == after[i]
             x1 == Do(kind, a, seq[i + 1], e)
  <2>3. after[i + 1] = x1
    BY <1>1, <2>2 DEF Steps
  <2>4. k \in DOMAIN a.staking /\ k \in DOMAIN d.staking
    BY <2>1, <2>2 DEF Runs
  <2>5. \A j \in 1..i : Node(kind, seq[j]) # k[1] /\ j \in 1..Len(seq)
    <3> SUFFICES ASSUME NEW j \in 1..i PROVE Node(kind, seq[j]) # k[1] /\ j \in 1..Len(seq)
      OBVIOUS
    <3>1. j \in 1..Len(seq) /\ j # i + 1
      BY <1>0, <2>2
    <3> QED
      BY <2>2, <3>1 DEF Apart, Node
  <2> DEFINE r == To(kind, RowAt(a, k), RowAt(a, k), e)
             q == To(kind, RowAt(a, k), NodeRowAt(a, k), e)
  <2>6. Changed(a, x1, k, r, q)
    BY <2>1, DoChanges
  <2>7. SameOf(d, a, k[1])
    BY <2>1, <2>5
  <2>8. a.staking[k] = d.staking[k]
    BY <2>4, <2>7 DEF SameOf
  <2>9. TableOK(x1)
    <3>1. kind = "lock" => Stays(a.staking[k])
      BY <2>2, <2>8 DEF Runs
    <3> QED
      BY <2>1, <2>4, <3>1, DoOK
  <2> HIDE DEF r, q
  <2>10. DOMAIN x1.staking = DOMAIN d.staking
    BY <2>1, <2>6 DEF Changed
  <2>11. \A n : n # k[1] => SameOf(a, x1, n)
    BY <2>6, ChangedOther
  <2>12. SameOf(Do(kind, d, seq[i + 1], e), x1, k[1])
    BY <2>1, <2>4, <2>7, DoSame
  <2> HIDE DEF x1, k
  <2>13. ASSUME NEW n, \A j \in 1..(i + 1) : Node(kind, seq[j]) # n PROVE SameOf(d, x1, n)
    <3>1. \A j \in 1..i : j \in 1..(i + 1)
      OBVIOUS
    <3>2. SameOf(d, a, n)
      BY <2>1, <2>13, <3>1
    <3>3. i + 1 \in 1..(i + 1)
      OBVIOUS
    <3>4. n # k[1]
      BY <2>13, <3>3 DEF Node, k
    <3> QED
      BY <2>11, <3>2, <3>4, SameTrans
  <2>14. ASSUME NEW j \in 1..(i + 1) PROVE SameOf(Do(kind, d, seq[j], e), x1, Node(kind, seq[j]))
    <3>1. CASE j = i + 1
      BY <2>12, <3>1 DEF Node, k
    <3>2. CASE j # i + 1
      <4>1. j \in 1..i
        BY <3>2
      <4> HIDE DEF a
      <4>2. SameOf(Do(kind, d, seq[j], e), a, Node(kind, seq[j])) /\ SameOf(a, x1, Node(kind, seq[j]))
        BY <2>1, <2>5, <2>11, <4>1 DEF a
      <4> QED
        BY <4>2, SameTrans
    <3> QED
      BY <3>1, <3>2
  <2> QED
    BY <2>3, <2>9, <2>10, <2>13, <2>14
<1> HIDE DEF N
<1>4. Len(seq) \in N
  BY <1>0, <1>2, <1>3, NatSet, Zenon
<1>5. Fine(Len(seq)) /\ after[Len(seq)] = x
  BY <1>0, <1>1, <1>4 DEF N
<1> QED
  BY <1>5

-----------------------------------------------------------------------------
(* Periods *)

\* The period of length p that block b is in.
Num(b, p) == (b + p - 1) \div p

LEMMA NumBounds ==
  ASSUME NEW b \in Nat, NEW p \in Nat \ {0}
  PROVE  Num(b, p) \in Nat /\ Num(b, p) * p >= b /\ Num(b, p) * p < b + p
<1> DEFINE x == b + p - 1
           q == x \div p
           r == x % p
<1>1. x \in Nat
  OBVIOUS
<1> HIDE DEF x
<1>2. q \in Nat /\ r \in 0..(p - 1) /\ x = q * p + r
  BY <1>1, Z3
<1>3. Num(b, p) = q
  BY DEF Num, x
<1> HIDE DEF q, r
<1>4. q * p \in Nat
  BY <1>2
<1> QED
  BY <1>2, <1>3, <1>4 DEF x

\* A product with a greater number is greater by the factor at least.
LEMMA Further ==
  ASSUME NEW j \in Nat, NEW k \in Nat, j < k, NEW p \in Nat
  PROVE  j * p \in Nat /\ k * p \in Nat /\ j * p + p =< k * p
<1>1. PICK i \in Nat : k = j + 1 + i
  <2>1. k - j - 1 \in Nat /\ k = j + 1 + (k - j - 1)
    OBVIOUS
  <2> QED
    BY <2>1
<1>2. k * p = j * p + p + i * p /\ j * p \in Nat /\ i * p \in Nat
  BY <1>1, Z3
<1> QED
  BY <1>2

LEMMA NumUnique ==
  ASSUME NEW b \in Nat, NEW p \in Nat \ {0}, NEW k \in Nat, k * p >= b, k * p < b + p
  PROVE  Num(b, p) = k
<1> DEFINE q == Num(b, p)
<1>1. q \in Nat /\ q * p >= b /\ q * p < b + p
  BY NumBounds
<1> HIDE DEF q
<1>2. CASE q < k
  <2>1. q * p \in Nat /\ k * p \in Nat /\ q * p + p =< k * p
    BY <1>1, <1>2, Further
  <2> QED
    BY <1>1, <2>1
<1>3. CASE k < q
  <2>1. q * p \in Nat /\ k * p \in Nat /\ k * p + p =< q * p
    BY <1>1, <1>3, Further
  <2> QED
    BY <1>1, <2>1
<1> QED
  BY <1>1, <1>2, <1>3 DEF q

LEMMA Quotient ==
  ASSUME NEW x \in Nat, NEW p \in Nat \ {0}
  PROVE  \E q \in Nat, r \in 0..(p - 1) :
           x = q * p + r /\ r = x % p /\ (r = 0 => x = q * p) /\ q = x \div p
<1> DEFINE q == x \div p
           r == x % p
<1>1. q \in Nat /\ r \in 0..(p - 1) /\ x = p * q + r
  BY Z3
<1>2. x = q * p + r /\ (r = 0 => x = q * p)
  BY <1>1
<1> QED
  BY <1>1, <1>2

\* The next block opens a period, or it is in the same.
LEMMA NumNext ==
  ASSUME NEW b \in Nat \ {0}, NEW p \in Nat \ {0}
  PROVE  /\ (b - 1) % p = 0 => Num(b, p) = Num(b - 1, p) + 1 /\ b = Num(b - 1, p) * p + 1
         /\ (b - 1) % p # 0 => Num(b, p) = Num(b - 1, p)
<1> DEFINE a == b - 1
           k == Num(a, p)
<1>1. a \in Nat /\ b = a + 1
  OBVIOUS
<1> HIDE DEF a
<1>2. k \in Nat /\ k * p >= a /\ k * p < a + p /\ k * p \in Nat
  BY <1>1, NumBounds
<1>3. ASSUME a % p = 0 PROVE k * p = a
  <2>1. PICK m \in Nat : a = m * p
    BY <1>1, <1>3, Quotient
  <2>2. Num(a, p) = m
    BY <1>1, <2>1, NumUnique
  <2> QED
    BY <2>1, <2>2
<1>4. ASSUME a % p # 0 PROVE k * p # a
  <2>1. PICK q \in Nat, r \in 0..(p - 1) : a = q * p + r /\ r = a % p
    BY <1>1, Quotient
  <2>2. q * p \in Nat /\ a = q * p + r /\ 0 < r /\ r < p
    BY <1>4, <2>1
  <2>3. CASE q < k
    <3>1. q * p + p =< k * p
      BY <1>2, <2>3, Further
    <3> QED
      BY <2>2, <3>1
  <2>4. CASE k < q
    <3>1. k * p + p =< q * p
      BY <1>2, <2>4, Further
    <3> QED
      BY <1>2, <2>2, <3>1
  <2>5. CASE k = q
    BY <2>2, <2>5
  <2> QED
    BY <1>2, <2>3, <2>4, <2>5
<1> HIDE DEF k
<1>5. CASE k * p = a
  <2>1. (k + 1) * p = k * p + p
    BY <1>2
  <2>2. (k + 1) * p >= b /\ (k + 1) * p < b + p /\ k + 1 \in Nat
    BY <1>1, <1>2, <1>5, <2>1
  <2>3. Num(b, p) = k + 1
    BY <2>2, NumUnique
  <2> QED
    BY <1>1, <1>4, <1>5, <2>3 DEF a, k
<1>6. CASE k * p # a
  <2>1. k * p >= b /\ k * p < b + p
    BY <1>1, <1>2, <1>6
  <2>2. Num(b, p) = k
    BY <1>2, <2>1, NumUnique
  <2> QED
    BY <1>1, <1>3, <1>6, <2>2 DEF a, k
<1> QED
  BY <1>5, <1>6

LEMMA PeriodFacts ==
  /\ ConsensusPeriod \in Nat \ {0} /\ ConsensusPeriod >= 2 /\ ElectionBackward + 1 < ConsensusPeriod
  /\ SettlePeriod \in Nat \ {0} /\ SettlePeriod >= 2
  /\ \E m \in Nat : SettlePeriod = m * ConsensusPeriod
  /\ ElectionBackward \in Nat /\ UnStakeFreeze \in Nat
<1>1. /\ ConsensusPeriod \in Nat \ {0} /\ ConsensusPeriod >= 2 /\ ElectionBackward + 1 < ConsensusPeriod
      /\ SettlePeriod \in Nat \ {0} /\ ElectionBackward \in Nat
  BY Bounds, PeriodAssumption
<1>2. PICK m \in Nat, r \in 0..(ConsensusPeriod - 1) :
        r = SettlePeriod % ConsensusPeriod /\ (r = 0 => SettlePeriod = m * ConsensusPeriod)
  BY <1>1, Quotient
<1>3. SettlePeriod = m * ConsensusPeriod
  BY <1>2, PeriodAssumption
<1>4. m # 0
  BY <1>1, <1>3
<1>5. SettlePeriod >= ConsensusPeriod
  <2>1. 0 * ConsensusPeriod + ConsensusPeriod =< m * ConsensusPeriod
    BY <1>1, <1>4, Further
  <2> QED
    BY <1>1, <1>3, <2>1
<1> QED
  BY <1>1, <1>3, <1>5, Bounds

LEMMA EpochIs ==
  ASSUME NEW b \in Nat
  PROVE  Epoch(b) = Num(b, SettlePeriod) /\ ConsensusRound(b) = Num(b, ConsensusPeriod)
         /\ Epoch(b) \in Nat /\ ConsensusRound(b) \in Nat
<1>1. Epoch(b) = Num(b, SettlePeriod) /\ ConsensusRound(b) = Num(b, ConsensusPeriod)
  BY DEF Epoch, ConsensusRound, Num
<1> QED
  BY <1>1, NumBounds, PeriodFacts

LEMMA NextEpoch ==
  ASSUME NEW b \in Nat \ {0}
  PROVE  /\ OpensSettle(b) => Epoch(b) = Epoch(b - 1) + 1 /\ b = (Epoch(b) - 1) * SettlePeriod + 1
         /\ ~OpensSettle(b) => Epoch(b) = Epoch(b - 1)
<1>1. b \in Nat /\ b - 1 \in Nat /\ SettlePeriod \in Nat \ {0}
  BY PeriodFacts
<1>2. Epoch(b) = Num(b, SettlePeriod) /\ Epoch(b - 1) = Num(b - 1, SettlePeriod) /\ Epoch(b - 1) \in Nat
  BY <1>1, EpochIs
<1>3. OpensSettle(b) <=> (b - 1) % SettlePeriod = 0
  BY DEF OpensSettle
<1>4. /\ OpensSettle(b) => Epoch(b) = Epoch(b - 1) + 1 /\ b = Epoch(b - 1) * SettlePeriod + 1
      /\ ~OpensSettle(b) => Epoch(b) = Epoch(b - 1)
  BY <1>1, <1>2, <1>3, NumNext
<1>5. OpensSettle(b) => Epoch(b) - 1 = Epoch(b - 1)
  BY <1>2, <1>4
<1> QED
  BY <1>4, <1>5

LEMMA NextRound ==
  ASSUME NEW b \in Nat \ {0}
  PROVE  /\ OpensConsensus(b) => /\ ConsensusRound(b) = ConsensusRound(b - 1) + 1
                                 /\ b = ConsensusRound(b - 1) * ConsensusPeriod + 1
         /\ ~OpensConsensus(b) => ConsensusRound(b) = ConsensusRound(b - 1)
<1>1. b \in Nat /\ b - 1 \in Nat /\ ConsensusPeriod \in Nat \ {0}
  BY PeriodFacts
<1>2. ConsensusRound(b) = Num(b, ConsensusPeriod) /\ ConsensusRound(b - 1) = Num(b - 1, ConsensusPeriod)
  BY <1>1, EpochIs
<1>3. OpensConsensus(b) <=> (b - 1) % ConsensusPeriod = 0
  BY DEF OpensConsensus
<1> QED
  BY <1>1, <1>2, <1>3, NumNext

\* At the start of an epoch a freeze is over for the chain when its end block is
\* reached for the tables.
LEMMA EndReached ==
  ASSUME NEW b \in Nat \ {0}, OpensSettle(b), NEW u \in Nat
  PROVE  (b >= u * SettlePeriod) <=> (u < Epoch(b))
<1>1. PICK e \in Nat : Epoch(b) = e + 1 /\ b = e * SettlePeriod + 1
  <2>1. b \in Nat /\ b - 1 \in Nat
    OBVIOUS
  <2>2. Epoch(b - 1) \in Nat
    BY <2>1, EpochIs
  <2>3. Epoch(b) = Epoch(b - 1) + 1 /\ b = (Epoch(b) - 1) * SettlePeriod + 1
    BY NextEpoch
  <2>4. Epoch(b) - 1 = Epoch(b - 1)
    BY <2>2, <2>3
  <2> QED
    BY <2>2, <2>3, <2>4
<1>2. SettlePeriod \in Nat /\ SettlePeriod >= 2 /\ e * SettlePeriod \in Nat /\ u * SettlePeriod \in Nat
  BY PeriodFacts
<1>3. CASE u < e
  <2>1. u * SettlePeriod + SettlePeriod =< e * SettlePeriod
    BY <1>2, <1>3, Further
  <2> QED
    BY <1>1, <1>2, <1>3, <2>1
<1>4. CASE u = e
  BY <1>1, <1>2, <1>4
<1>5. CASE e < u
  <2>1. e * SettlePeriod + SettlePeriod =< u * SettlePeriod
    BY <1>2, <1>5, Further
  <2>2. b < u * SettlePeriod
    BY <1>1, <1>2, <2>1
  <2>3. ~(u < Epoch(b))
    BY <1>1, <1>5
  <2> QED
    BY <1>2, <2>2, <2>3
<1> QED
  BY <1>3, <1>4, <1>5

\* No election at the start of an epoch: the chain penalises after it has thawed,
\* the agent before it has settled.
LEMMA ElectsApart ==
  ASSUME NEW b \in Nat \ {0}, Elects(b)
  PROVE  ~OpensSettle(b)
<1> SUFFICES ASSUME OpensSettle(b) PROVE FALSE
  OBVIOUS
<1>1. PICK m \in Nat : SettlePeriod = m * ConsensusPeriod
  BY PeriodFacts
<1> DEFINE p == ConsensusPeriod
<1>2. p \in Nat \ {0} /\ ElectionBackward \in Nat /\ ElectionBackward + 1 < p
  BY PeriodFacts
<1>3. PICK q \in Nat : b + ElectionBackward = q * p
  <2>1. b + ElectionBackward \in Nat /\ (b + ElectionBackward) % p = 0
    BY <1>2 DEF Elects
  <2> QED
    BY <1>2, <2>1, Quotient
<1>4. PICK j \in Nat : b - 1 = j * p
  <2>1. b - 1 \in Nat /\ (b - 1) % SettlePeriod = 0 /\ SettlePeriod \in Nat \ {0}
    BY PeriodFacts DEF OpensSettle
  <2>2. PICK i \in Nat : b - 1 = i * SettlePeriod
    BY <2>1, Quotient
  <2>3. i * SettlePeriod = (i * m) * p /\ i * m \in Nat
    <3> HIDE DEF p
    <3>1. i * (m * p) = (i * m) * p
      BY <1>2, Z3
    <3> QED
      BY <1>1, <3>1 DEF p
  <2> QED
    BY <2>2, <2>3
<1> HIDE DEF p
<1>5. q * p \in Nat /\ j * p \in Nat /\ q * p = j * p + ElectionBackward + 1
  BY <1>2, <1>3, <1>4
<1>6. CASE q = j
  BY <1>2, <1>5, <1>6
<1>7. CASE q < j
  <2>1. q * p + p =< j * p
    BY <1>2, <1>7, Further
  <2> QED
    BY <1>2, <1>5, <2>1
<1>8. CASE j < q
  <2>1. j * p + p =< q * p
    BY <1>2, <1>8, Further
  <2> QED
    BY <1>2, <1>5, <2>1
<1> QED
  BY <1>6, <1>7, <1>8

\* A freeze outlasts the consensus period it began in and the next one.
LEMMA FreezeLasts ==
  ASSUME NEW a \in Nat, NEW b \in Nat, ConsensusRound(b) =< ConsensusRound(a) + 1
  PROVE  Epoch(b) =< Epoch(a) + UnStakeFreeze
<1> DEFINE p == ConsensusPeriod
           s == SettlePeriod
           j == ConsensusRound(b)
           k == ConsensusRound(a)
           e == Epoch(a)
           f == Epoch(b)
<1>1. p \in Nat \ {0} /\ s \in Nat \ {0} /\ UnStakeFreeze \in Nat
  BY PeriodFacts
<1>2. j \in Nat /\ k \in Nat /\ e \in Nat /\ f \in Nat
  BY EpochIs
<1>3. j * p >= b /\ k * p < a + p /\ e * s >= a /\ f * s < b + s
  BY <1>1, NumBounds, EpochIs
<1>4. 2 * p =< UnStakeFreeze * s
  BY PeriodAssumption
<1>5. j =< k + 1
  OBVIOUS
<1> HIDE DEF p, s, j, k, e, f
<1>6. j * p =< k * p + p /\ j * p \in Nat /\ k * p \in Nat
  <2>1. (k + 2) * p = k * p + 2 * p
    BY <1>1, <1>2, Z3
  <2>2. j * p \in Nat /\ k * p \in Nat /\ j * p + p =< (k + 2) * p
    BY <1>1, <1>2, <1>5, Further
  <2> QED
    BY <1>1, <2>1, <2>2
<1>7. (e + UnStakeFreeze) * s = e * s + UnStakeFreeze * s /\ e * s \in Nat /\ UnStakeFreeze * s \in Nat
  BY <1>1, <1>2, Z3
<1>8. f * s < (e + UnStakeFreeze) * s + s
  <2>1. b < a + 2 * p /\ b \in Nat /\ a \in Nat
    BY <1>1, <1>3, <1>6
  <2>2. b < e * s + UnStakeFreeze * s
    BY <1>1, <1>3, <1>4, <1>7, <2>1
  <2>3. f * s \in Nat
    BY <1>1, <1>2
  <2> QED
    BY <1>1, <1>3, <1>7, <2>1, <2>2, <2>3
<1>9. CASE e + UnStakeFreeze < f
  <2>1. (e + UnStakeFreeze) * s \in Nat /\ f * s \in Nat /\ (e + UnStakeFreeze) * s + s =< f * s
    BY <1>1, <1>2, <1>9, Further
  <2> QED
    BY <1>1, <1>8, <2>1
<1> QED
  BY <1>1, <1>2, <1>9 DEF e, f

\* A node that was reported before the election of a period is not elected: one
\* that validates in it was reported in the period before, or later.
LEMMA ReportedBefore ==
  ASSUME NEW b \in Nat \ {0}, OpensConsensus(b), NEW a \in 1..(b - 1),
         \A x \in a..(b - 1) : (x + ElectionBackward) % ConsensusPeriod # 0
  PROVE  ConsensusRound(b) =< ConsensusRound(a) + 1
<1> DEFINE p == ConsensusPeriod
           j == ConsensusRound(b - 1)
           k == ConsensusRound(a)
<1>1. p \in Nat \ {0} /\ ElectionBackward \in Nat /\ ElectionBackward + 1 < p
  BY PeriodFacts
<1>2. b - 1 \in Nat /\ a \in Nat /\ j \in Nat /\ k \in Nat
  BY EpochIs
<1>3. ConsensusRound(b) = j + 1 /\ b = j * p + 1
  BY NextRound
<1>4. k * p >= a
  BY <1>1, <1>2, NumBounds, EpochIs
<1>5. \A x \in a..(b - 1) : (x + ElectionBackward) % p # 0
  OBVIOUS
<1> HIDE DEF p, j, k
<1> DEFINE x == b - 1 - ElectionBackward
<1>6. ~(a =< x)
  <2> SUFFICES ASSUME a =< x PROVE FALSE
    OBVIOUS
  <2>1. x \in a..(b - 1) /\ x + ElectionBackward = b - 1
    BY <1>1, <1>2
  <2>2. (b - 1) % p = 0
    BY DEF OpensConsensus, p
  <2> QED
    BY <1>5, <2>1, <2>2
<1>7. j * p \in Nat /\ k * p \in Nat
  BY <1>1, <1>2
<1>8. ~(k < j)
  <2> SUFFICES ASSUME k < j PROVE FALSE
    OBVIOUS
  <2>1. k * p + p =< j * p
    BY <1>1, <1>2, Further
  <2> QED
    BY <1>1, <1>2, <1>3, <1>4, <1>6, <1>7, <2>1
<1> QED
  BY <1>2, <1>3, <1>8 DEF j, k

-----------------------------------------------------------------------------
(* What the row of a staking is for each standing on the chain *)

\* A row that nothing is left of.
Dead(r) == r.status = EXITED /\ r.hes = 0 /\ r.locked = 0 /\ r.reduction = 0

MatchCandidate(r, c) ==
  /\ c.st = "candidate" /\ r.status = CANDIDATE /\ r.exc = NORMAL /\ r.low = 0
  /\ r.hes = c.hes /\ r.locked = c.locked /\ r.reduction = 0
MatchLocked(r, c) ==
  /\ c.st = "locked" /\ r.status = LOCKED /\ r.exc = NORMAL /\ r.thaw = c.until
  /\ r.hes = c.hes /\ r.locked = c.locked /\ r.reduction = 0
MatchLeaving(r, c) ==
  /\ c.st = "leaving" /\ r.status = EXITING /\ r.exc = (IF c.reported > 0 THEN PUNISHED ELSE NORMAL)
  /\ r.hes = 0 /\ r.locked = 0 /\ r.end = c.until * SettlePeriod
MatchReported(r, c) ==
  /\ c.st = "leaving" /\ c.reported > 0 /\ r.status = CANDIDATE /\ r.exc = REPORTED
  /\ r.reduction = 0 /\ r.end = c.until * SettlePeriod
MatchOut(r, c) == c.st = "out" /\ Dead(r) /\ r.exc = (IF c.reported > 0 THEN PUNISHED ELSE NORMAL)
Match(r, c) ==
  \/ MatchCandidate(r, c) \/ MatchLocked(r, c) \/ MatchLeaving(r, c) \/ MatchReported(r, c)
  \/ MatchOut(r, c)

\* The node row q has the columns of the staking row r, but for the freeze.
Copies(q, r) ==
  /\ q.status = r.status /\ q.hes = r.hes /\ q.locked = r.locked /\ q.reduction = r.reduction
  /\ q.exc = r.exc /\ q.low = r.low /\ q.end = r.end

\* r becomes r2, and its copy q becomes q2, when c becomes c2; a report that waits
\* still waits.
Becomes(r, q, c, r2, q2, c2) ==
  /\ Match(r2, c2) /\ Copies(q2, r2)
  /\ r2.exc = REPORTED <=> r.exc = REPORTED
  /\ c2.sbn = c.sbn /\ c2.reported = c.reported

LEMMA LockMatches ==
  ASSUME NEW s \in Row, NEW q \in Row, NEW c \in Rec, MatchCandidate(s, c), Copies(q, s), Stays(s)
  PROVE  Becomes(s, q, c, LockTo(s, s), LockTo(s, q), Penalise(c, Epoch(block.num)))
<1> DEFINE e == Epoch(block.num)
<1>1. /\ s.hes \in Nat /\ s.locked \in Nat /\ s.hes = c.hes /\ s.locked = c.locked /\ s.low = q.low
      /\ s.status = CANDIDATE /\ s.exc = NORMAL /\ c.st = "candidate" /\ s.reduction = 0
  BY RowFields DEF MatchCandidate, Copies
<1>2. ~(c.hes + c.locked - Penalty < Threshold)
  BY <1>1, Bounds DEF Stays
<1>3. Penalise(c, e) = [c EXCEPT !.st = "locked", !.hes = Least0(@ - Penalty),
                                 !.locked = @ - Least0(Penalty - c.hes),
                                 !.until = e + ZeroProduceFreeze]
  BY <1>1, <1>2 DEF Penalise
<1>4. MatchLocked(LockTo(s, s), Penalise(c, e))
  BY <1>1, <1>3 DEF MatchLocked, LockTo, Row, Rec
<1>5. Copies(LockTo(s, q), LockTo(s, s))
  BY <1>1 DEF Copies, LockTo, Row
<1>6. LockTo(s, s).exc = NORMAL
  BY <1>1 DEF LockTo, Row
<1>7. Penalise(c, e).sbn = c.sbn /\ Penalise(c, e).reported = c.reported
  BY <1>3 DEF Rec
<1> QED
  BY <1>1, <1>4, <1>5, <1>6, <1>7 DEF Becomes, Match, REPORTED, NORMAL

LEMMA ExitMatches ==
  ASSUME NEW s \in Row, NEW q \in Row, NEW c \in Rec, Copies(q, s), NEW end, block.num \in Nat,
         \/ MatchCandidate(s, c) /\ ~Stays(s) /\ end = UnStakeEnd(Epoch(block.num)) /\ c.reported = 0
         \/ MatchLeaving(s, c) /\ c.reported = 0 /\ end = s.end
  PROVE  Becomes(s, q, c, ExitLowTo(s, end), ExitLowTo(q, end), Penalise(c, Epoch(block.num)))
<1> DEFINE e == Epoch(block.num)
           x == Penalise(c, e)
           y == ExitLowTo(s, end)
<1>0. e \in Nat /\ c.hes \in Nat /\ c.locked \in Nat
  BY EpochNat, RecFields
<1>1. y.status = EXITING /\ y.hes = 0 /\ y.locked = 0 /\ y.end = end /\ y.exc = s.exc
  BY DEF ExitLowTo, Row
<1>2. Copies(ExitLowTo(q, end), y)
  BY DEF Copies, ExitLowTo, Row
<1>3. x.sbn = c.sbn /\ x.reported = c.reported
  BY <1>0, PenaliseTyped
<1>4. s.exc = NORMAL
  BY DEF MatchCandidate, MatchLeaving
<1>5. x.st = "leaving" /\ end = x.until * SettlePeriod
  <2>1. CASE MatchCandidate(s, c) /\ ~Stays(s) /\ end = UnStakeEnd(e)
    <3>1. c.hes + c.locked - Penalty < Threshold
      BY <1>0, <2>1, Bounds DEF MatchCandidate, Stays
    <3>2. x = [c EXCEPT !.st = "leaving", !.locked = Least0(c.hes + c.locked - Penalty), !.hes = 0,
                        !.until = e + UnStakeFreeze]
      BY <2>1, <3>1 DEF Penalise, MatchCandidate
    <3> HIDE DEF x, e
    <3> QED
      BY <2>1, <3>2 DEF Rec, UnStakeEnd
  <2>2. CASE MatchLeaving(s, c) /\ end = s.end
    <3>1. x = [c EXCEPT !.locked = Least0(@ - Penalty)]
      BY <2>2 DEF Penalise, MatchLeaving
    <3> HIDE DEF x, e
    <3> QED
      BY <2>2, <3>1 DEF Rec, MatchLeaving
  <2> QED
    BY <2>1, <2>2
<1>6. c.reported = 0
  OBVIOUS
<1> HIDE DEF x, y, e
<1>7. MatchLeaving(y, x)
  BY <1>1, <1>3, <1>4, <1>5, <1>6 DEF MatchLeaving
<1> QED
  BY <1>1, <1>2, <1>3, <1>4, <1>7 DEF Becomes, Match, REPORTED, NORMAL, x, y, e

\* A node that leaves and was penalised before is passed over.
LEMMA LeavingPenalised ==
  ASSUME NEW s \in Row, NEW q \in Row, NEW c \in Rec, MatchLeaving(s, c), Copies(q, s), NEW e \in Nat
  PROVE  Becomes(s, q, c, s, q, Penalise(c, e))
<1> DEFINE x == Penalise(c, e)
<1>1. x = [c EXCEPT !.locked = Least0(@ - Penalty)]
  BY DEF Penalise, MatchLeaving
<1>2. x.st = c.st /\ x.until = c.until /\ x.sbn = c.sbn /\ x.reported = c.reported
  BY <1>1 DEF Rec
<1> HIDE DEF x
<1>3. MatchLeaving(s, x)
  BY <1>2 DEF MatchLeaving
<1> QED
  BY <1>2, <1>3 DEF Becomes, Match, x

LEMMA SlashMatches ==
  ASSUME NEW s \in Row, NEW q \in Row, NEW c \in Rec, MatchReported(s, c), Copies(q, s)
  PROVE  /\ Match(SlashTo(s, s), c) /\ Copies(SlashTo(s, q), SlashTo(s, s))
         /\ SlashTo(s, s).exc = PUNISHED
<1>1. s.locked \in Nat /\ s.status = CANDIDATE
  BY RowFields DEF MatchReported
<1>2. RemainOf(s) >= 0
  <2>1. s.locked > 0 => SlashOf(s) = s.locked \div 2
    BY <1>1 DEF SlashOf
  <2>2. s.locked - (s.locked \div 2) >= 0
    BY <1>1
  <2>3. RemainOf(s) = IF s.locked > 0 THEN s.locked - SlashOf(s) ELSE 0
    BY <1>1 DEF RemainOf, CANDIDATE, EXITING
  <2> QED
    BY <1>1, <2>1, <2>2, <2>3
<1> DEFINE m == Least0(RemainOf(s))
           x(r) == [r EXCEPT !.status = EXITING, !.reduction = m, !.hes = 0, !.locked = 0,
                             !.exc = PUNISHED]
<1>3. SlashTo(s, s) = x(s) /\ SlashTo(s, q) = x(q)
  BY <1>2 DEF SlashTo
<1> HIDE DEF m
<1>4. MatchLeaving(x(s), c)
  BY DEF MatchLeaving, MatchReported, Row
<1>5. Copies(x(q), x(s)) /\ x(s).exc = PUNISHED
  BY DEF Copies, Row
<1> QED
  BY <1>3, <1>4, <1>5 DEF Match

\* The settlement does to a row what thawing does to the chain's record, if a
\* report that waits is not overtaken by the end of the freeze.
LEMMA SettleMatches ==
  ASSUME NEW s \in Row, NEW q \in Row, NEW c \in Rec, Match(s, c), Copies(q, s), s.status # EXITED,
         block.num \in Nat \ {0}, OpensSettle(block.num),
         MatchReported(s, c) => ~(c.until < Epoch(block.num))
  PROVE  Becomes(s, q, c, SettleTo(s, s), SettleTo(s, q), Thaw(c, Epoch(block.num)))
<1> DEFINE b == block.num
           e == Epoch(b)
           y == SettleTo(s, s)
           x == Thaw(c, e)
           more == s.locked + s.hes
           moved == [c EXCEPT !.locked = @ + c.hes, !.hes = 0]
<1>0. /\ e \in Nat /\ c.until \in Nat /\ c.hes \in Nat /\ c.locked \in Nat /\ s.hes \in Nat /\ s.locked \in Nat
      /\ more \in Nat
  BY EpochNat, RecFields, RowFields
<1>1. /\ y.status = (IF Ends(s) THEN EXITED ELSE IF Returns(s) THEN CANDIDATE ELSE s.status)
      /\ y.hes = 0 /\ y.locked = more /\ y.reduction = (IF Ends(s) THEN 0 ELSE s.reduction)
      /\ y.low = (IF Ends(s) \/ Returns(s) THEN 0 ELSE s.low)
      /\ y.exc = (IF Returns(s) THEN NORMAL ELSE s.exc) /\ y.thaw = s.thaw /\ y.end = s.end
  BY DEF SettleTo, Settled, Row
<1>2. Copies(SettleTo(s, q), y)
  BY DEF Copies, SettleTo, Settled, Row
<1>3. x.sbn = c.sbn /\ x.reported = c.reported
  BY ThawTyped
<1>4. moved.st = c.st /\ moved.locked = c.locked + c.hes /\ moved.hes = 0 /\ moved.until = c.until
  BY DEF Rec
<1>5. CASE MatchCandidate(s, c)
  <2>1. ~Ends(s) /\ ~Returns(s) /\ x = moved
    BY <1>5 DEF MatchCandidate, Ends, Returns, CANDIDATE, EXITING, LOCKED, Thaw
  <2> HIDE DEF x, y, moved, more
  <2>2. MatchCandidate(y, x)
    BY <1>0, <1>1, <1>4, <1>5, <2>1 DEF MatchCandidate, more
  <2> QED
    BY <1>1, <1>2, <1>3, <2>1, <2>2 DEF Becomes, Match, x, y
<1>6. CASE MatchLocked(s, c)
  <2>1. ~Ends(s) /\ (Returns(s) <=> c.until < e) /\ s.exc # REPORTED /\ NORMAL # REPORTED
    BY <1>6 DEF MatchLocked, Ends, Returns, EXITING, LOCKED, NORMAL, REPORTED
  <2>2. CASE c.until < e
    <3>1. x = [c EXCEPT !.st = "candidate", !.locked = @ + c.hes, !.hes = 0]
      BY <1>6, <2>2 DEF Thaw, MatchLocked
    <3>2. x.st = "candidate" /\ x.locked = c.locked + c.hes /\ x.hes = 0
      BY <3>1 DEF Rec
    <3> HIDE DEF x, y, moved, more
    <3>3. MatchCandidate(y, x)
      BY <1>0, <1>1, <1>6, <2>1, <2>2, <3>2 DEF MatchCandidate, MatchLocked, more
    <3> QED
      BY <1>1, <1>2, <1>3, <2>1, <2>2, <3>3 DEF Becomes, Match, x, y
  <2>3. CASE ~(c.until < e)
    <3>1. x = moved
      BY <1>6, <2>3 DEF Thaw, MatchLocked
    <3> HIDE DEF x, y, moved, more
    <3>2. MatchLocked(y, x)
      BY <1>0, <1>1, <1>4, <1>6, <2>1, <2>3, <3>1 DEF MatchLocked, more
    <3> QED
      BY <1>1, <1>2, <1>3, <2>1, <2>3, <3>2 DEF Becomes, Match, x, y
  <2> QED
    BY <2>2, <2>3
<1>7. CASE MatchLeaving(s, c)
  <2>1. (Ends(s) <=> c.until < e) /\ ~Returns(s) /\ s.exc # REPORTED
    <3>1. (b >= c.until * SettlePeriod) <=> (c.until < e)
      BY <1>0, EndReached
    <3>2. (Ends(s) <=> b >= c.until * SettlePeriod) /\ ~Returns(s)
      BY <1>7 DEF MatchLeaving, Ends, Returns, EXITING, LOCKED
    <3>3. s.exc # REPORTED
      BY <1>7 DEF MatchLeaving, NORMAL, REPORTED, PUNISHED
    <3> QED
      BY <3>1, <3>2, <3>3
  <2>2. CASE c.until < e
    <3>1. x = [c EXCEPT !.st = "out", !.locked = 0]
      BY <1>7, <2>2 DEF Thaw, MatchLeaving
    <3>2. x.st = "out"
      BY <3>1 DEF Rec
    <3> HIDE DEF x, y, moved, more
    <3>3. MatchOut(y, x)
      BY <1>0, <1>1, <1>3, <1>7, <2>1, <2>2, <3>2 DEF MatchOut, Dead, MatchLeaving, more
    <3> QED
      BY <1>1, <1>2, <1>3, <2>1, <2>2, <3>3 DEF Becomes, Match, x, y
  <2>3. CASE ~(c.until < e)
    <3>1. x = moved
      BY <1>7, <2>3 DEF Thaw, MatchLeaving
    <3> HIDE DEF x, y, moved, more
    <3>2. MatchLeaving(y, x)
      BY <1>0, <1>1, <1>3, <1>4, <1>7, <2>1, <2>3, <3>1 DEF MatchLeaving, more
    <3> QED
      BY <1>1, <1>2, <1>3, <2>1, <2>3, <3>2 DEF Becomes, Match, x, y
  <2> QED
    BY <2>2, <2>3
<1>8. CASE MatchReported(s, c)
  <2>1. ~Ends(s) /\ ~Returns(s) /\ x = moved
    BY <1>8 DEF MatchReported, Ends, Returns, CANDIDATE, EXITING, LOCKED, Thaw
  <2> HIDE DEF x, y, moved, more
  <2>2. MatchReported(y, x)
    BY <1>1, <1>3, <1>4, <1>8, <2>1 DEF MatchReported
  <2> QED
    BY <1>1, <1>2, <1>3, <2>1, <2>2 DEF Becomes, Match, x, y
<1>9. ~MatchOut(s, c)
  BY DEF MatchOut, Dead
<1> QED
  BY <1>5, <1>6, <1>7, <1>8, <1>9 DEF Match

\* A staking that is out stays out.
LEMMA OutThaws ==
  ASSUME NEW s, NEW c \in Rec, MatchOut(s, c), NEW e
  PROVE  MatchOut(s, Thaw(c, e)) /\ Thaw(c, e).sbn = c.sbn /\ Thaw(c, e).reported = c.reported
<1>1. Thaw(c, e) = [c EXCEPT !.locked = @ + c.hes, !.hes = 0]
  BY DEF Thaw, MatchOut
<1>2. Thaw(c, e).st = c.st /\ Thaw(c, e).sbn = c.sbn /\ Thaw(c, e).reported = c.reported
  BY <1>1 DEF Rec
<1> QED
  BY <1>2 DEF MatchOut

LEMMA SameRec ==
  ASSUME NEW x \in Rec, NEW y \in Rec, x.st = y.st, x.sbn = y.sbn, x.hes = y.hes, x.locked = y.locked,
         x.until = y.until, x.reported = y.reported
  PROVE  x = y
BY DEF Rec

LEMMA OutStays == \A e : Thaw(Out, e) = Out
<1> SUFFICES ASSUME NEW e PROVE Thaw(Out, e) = Out
  OBVIOUS
<1>1. Out.st = "out" /\ Out.locked + Out.hes = 0
  BY DEF Out
<1>2. Thaw(Out, e) = [Out EXCEPT !.locked = @ + Out.hes, !.hes = 0]
  BY <1>1 DEF Thaw
<1>3. [Out EXCEPT !.locked = 0, !.hes = 0] = Out
  <2> DEFINE x == [Out EXCEPT !.locked = 0, !.hes = 0]
  <2>1. Out \in Rec /\ x \in Rec
    BY DEF Out, Rec, Standings
  <2>2. x.st = Out.st /\ x.sbn = Out.sbn /\ x.hes = Out.hes /\ x.locked = Out.locked
        /\ x.until = Out.until /\ x.reported = Out.reported
    BY DEF Out
  <2> HIDE DEF x
  <2> QED
    BY <2>1, <2>2, SameRec DEF x
<1> QED
  BY <1>1, <1>2, <1>3 DEF Out

\* The transactions that find a candidate.
LEMMA IncreaseMatches ==
  ASSUME NEW s \in Row, NEW q \in Row, NEW c \in Rec, MatchCandidate(s, c), Copies(q, s),
         NEW tx, tx.type = "increase", NEW b
  PROVE  Becomes(s, q, c, IncreaseTo(s), IncreaseTo(q), Apply(c, tx, b))
<1>1. Apply(c, tx, b) = [c EXCEPT !.hes = @ + IncreaseAmount]
  BY DEF Apply
<1>2. MatchCandidate(IncreaseTo(s), Apply(c, tx, b))
  BY <1>1 DEF MatchCandidate, IncreaseTo, Row, Rec
<1>3. Copies(IncreaseTo(q), IncreaseTo(s)) /\ IncreaseTo(s).exc = s.exc
  BY DEF Copies, IncreaseTo, Row
<1>4. Apply(c, tx, b).sbn = c.sbn /\ Apply(c, tx, b).reported = c.reported
  BY <1>1 DEF Rec
<1> QED
  BY <1>2, <1>3, <1>4 DEF Becomes, Match

LEMMA LeaveMatches ==
  ASSUME NEW s \in Row, NEW q \in Row, NEW c \in Rec, MatchCandidate(s, c), Copies(q, s),
         NEW tx, tx.type = "exit", NEW k, k[2] = c.sbn, c.reported = 0,
         c.locked > 0 \/ Epoch(c.sbn) = Epoch(block.num), block.num \in Nat
  PROVE  Becomes(s, q, c, ExitTo(k, s), ExitTo(k, q), Apply(c, tx, block.num))
<1> DEFINE e == Epoch(block.num)
           x == Apply(c, tx, block.num)
           y == ExitTo(k, s)
<1>0. e \in Nat /\ Epoch(c.sbn) \in Nat /\ s.locked = c.locked /\ s.locked \in Nat /\ s.exc = NORMAL
  BY EpochNat, RecFields, RowFields DEF MatchCandidate
<1>1. CASE Epoch(c.sbn) < e
  <2>1. x = [c EXCEPT !.st = "leaving", !.hes = 0, !.until = e + UnStakeFreeze]
    BY <1>1 DEF Apply
  <2>2. x.st = "leaving" /\ x.until = e + UnStakeFreeze /\ x.sbn = c.sbn /\ x.reported = c.reported
    BY <2>1 DEF Rec
  <2>3. s.locked > 0 /\ q.locked = s.locked
    BY <1>0, <1>1 DEF Copies
  <2> DEFINE left(r) == [r EXCEPT !.status = EXITING, !.reduction = r.locked, !.locked = 0,
                                  !.hes = 0, !.end = UnStakeEnd(e)]
  <2>4. y = left(s) /\ ExitTo(k, q) = left(q)
    BY <1>1, <2>3 DEF ExitTo
  <2>5. y.status = EXITING /\ y.hes = 0 /\ y.locked = 0 /\ y.end = UnStakeEnd(e) /\ y.exc = s.exc
    BY <2>4 DEF Row
  <2>6. Copies(ExitTo(k, q), y)
    BY <2>3, <2>4 DEF Copies, Row
  <2> HIDE DEF x, y, e
  <2>7. MatchLeaving(y, x)
    BY <1>0, <2>2, <2>5 DEF MatchLeaving, UnStakeEnd
  <2> QED
    BY <2>2, <2>5, <2>6, <2>7 DEF Becomes, Match, x, y, e
<1>2. CASE ~(Epoch(c.sbn) < e)
  <2>1. x = [c EXCEPT !.st = "out", !.hes = 0, !.locked = 0]
    BY <1>2 DEF Apply
  <2>2. x.st = "out" /\ x.sbn = c.sbn /\ x.reported = c.reported
    BY <2>1 DEF Rec
  <2> DEFINE left(r) == [r EXCEPT !.status = EXITED, !.locked = 0, !.hes = 0, !.reduction = 0]
  <2>4. y = left(s) /\ ExitTo(k, q) = left(q)
    BY <1>2 DEF ExitTo
  <2>5. y.status = EXITED /\ y.hes = 0 /\ y.locked = 0 /\ y.reduction = 0 /\ y.exc = s.exc
    BY <2>4 DEF Row
  <2>6. Copies(ExitTo(k, q), y)
    BY <2>4 DEF Copies, Row
  <2> HIDE DEF x, y, e
  <2>7. MatchOut(y, x)
    BY <1>0, <2>2, <2>5 DEF MatchOut, Dead
  <2> QED
    BY <2>2, <2>5, <2>6, <2>7 DEF Becomes, Match, x, y, e
<1> QED
  BY <1>1, <1>2

LEMMA MarkMatches ==
  ASSUME NEW s \in Row, NEW q \in Row, NEW c \in Rec, MatchCandidate(s, c), Copies(q, s),
         NEW tx, tx.type = "report", NEW b \in Nat \ {0}, b = block.num,
         NEW first, first = TRUE
  PROVE  /\ MatchReported(MarkTo(first, s), Apply(c, tx, b)) /\ Copies(MarkTo(first, q), MarkTo(first, s))
<1> DEFINE x == Apply(c, tx, b)
           y(r) == [r EXCEPT !.exc = REPORTED, !.end = UnStakeEnd(Epoch(b))]
<1>1. x = [c EXCEPT !.st = "leaving", !.reported = b, !.until = Epoch(b) + UnStakeFreeze]
  BY DEF Apply, MatchCandidate
<1>2. x.st = "leaving" /\ x.reported = b /\ x.until = Epoch(b) + UnStakeFreeze /\ x.sbn = c.sbn
  BY <1>1 DEF Rec
<1>3. MarkTo(first, s) = y(s) /\ MarkTo(first, q) = y(q)
  BY DEF MarkTo
<1>4. Copies(y(q), y(s)) /\ y(s).status = s.status /\ y(s).exc = REPORTED /\ y(s).reduction = s.reduction
      /\ y(s).end = UnStakeEnd(Epoch(b))
  BY DEF Copies, Row
<1> HIDE DEF x, y
<1>5. MatchReported(y(s), x)
  BY <1>2, <1>4 DEF MatchReported, MatchCandidate, UnStakeEnd
<1> QED
  BY <1>2, <1>3, <1>4, <1>5 DEF x


-----------------------------------------------------------------------------
(* The tables of a node follow the chain's record of it *)

Never(d, n) == n \notin DOMAIN d.node /\ \A k \in DOMAIN d.staking : k[1] # n

\* The last staking of n in d is c; nothing is left of the ones before it.
Has(d, n, c) ==
  /\ Key(n, c.sbn) \in DOMAIN d.staking /\ n \in DOMAIN d.node /\ d.node[n].sbn = c.sbn
  /\ Match(d.staking[Key(n, c.sbn)], c) /\ Copies(d.node[n].row, d.staking[Key(n, c.sbn)])
  /\ \A k \in DOMAIN d.staking : k[1] = n /\ k # Key(n, c.sbn) =>
       k[2] < c.sbn /\ Dead(d.staking[k]) /\ d.staking[k].exc # REPORTED
Follows(d, n, c) == (c = Out /\ Never(d, n)) \/ Has(d, n, c)

\* A report of n waits for its execution.
Waiting(d, n, c) == Key(n, c.sbn) \in DOMAIN d.staking /\ d.staking[Key(n, c.sbn)].exc = REPORTED

\* The exited stakings of n in d are unchanged in x.
Keeps(d, x, n) ==
  \A k \in DOMAIN d.staking :
    k[1] = n /\ d.staking[k].status = EXITED =>
      k \in DOMAIN x.staking /\ x.staking[k] = d.staking[k]

\* The tables go from d to x as the chain's record of n from c to c2.
Moves(d, x, n, c, c2) ==
  /\ Follows(x, n, c2) /\ Keeps(d, x, n)
  /\ Waiting(x, n, c2) <=> Waiting(d, n, c)
  /\ c2.sbn = c.sbn /\ c2.reported = c.reported

LEMMA KeyIs == \A n, s : Key(n, s)[1] = n /\ Key(n, s)[2] = s
BY DEF Key

LEMMA KeepsTrans ==
  ASSUME NEW a, NEW b, NEW c, NEW n, Keeps(a, b, n), Keeps(b, c, n)
  PROVE  Keeps(a, c, n)
BY DEF Keeps

LEMMA KeepsSame == ASSUME NEW d, NEW x, NEW n, SameOf(d, x, n) PROVE Keeps(d, x, n)
BY DEF Keeps, SameOf

LEMMA HasSame ==
  ASSUME NEW d, NEW x, NEW n, NEW c, SameOf(d, x, n), Has(d, n, c)
  PROVE  Has(x, n, c)
<1> DEFINE k == Key(n, c.sbn)
<1>1. k \in DOMAIN x.staking /\ x.staking[k] = d.staking[k] /\ k[1] = n
  BY KeyIs DEF SameOf, Has
<1>2. \A j \in DOMAIN x.staking : j[1] = n => j \in DOMAIN d.staking /\ x.staking[j] = d.staking[j]
  BY DEF SameOf
<1>3. n \in DOMAIN x.node /\ x.node[n].sbn = d.node[n].sbn /\ x.node[n].row = d.node[n].row
  BY DEF SameOf, Has
<1> HIDE DEF k
<1> QED
  BY <1>1, <1>2, <1>3, Zenon DEF Has, k

LEMMA FollowsSame ==
  ASSUME NEW d, NEW x, NEW n, NEW c, SameOf(d, x, n), Follows(d, n, c)
  PROVE  Follows(x, n, c)
<1>1. Never(d, n) => Never(x, n)
  BY DEF Never, SameOf
<1> QED
  BY <1>1, HasSame DEF Follows

LEMMA WaitingSame ==
  ASSUME NEW d, NEW x, NEW n, NEW c, NEW c2, SameOf(d, x, n), c2.sbn = c.sbn
  PROVE  Waiting(x, n, c2) <=> Waiting(d, n, c)
<1> DEFINE k == Key(n, c.sbn)
<1>1. k[1] = n /\ k = Key(n, c2.sbn)
  BY KeyIs
<1>2. k \in DOMAIN d.staking <=> k \in DOMAIN x.staking
  BY <1>1 DEF SameOf
<1>3. k \in DOMAIN d.staking => x.staking[k] = d.staking[k]
  BY <1>1 DEF SameOf
<1> HIDE DEF k
<1> QED
  BY <1>1, <1>2, <1>3, Zenon DEF Waiting, k

\* The tables keep what they have of n, and it fits the chain's new record too.
LEMMA MovesSame ==
  ASSUME NEW d, NEW x, NEW n, NEW c, NEW c2, SameOf(d, x, n), Follows(d, n, c),
         c2.sbn = c.sbn, c2.reported = c.reported, c = Out => c2 = Out,
         Has(d, n, c) => Match(d.staking[Key(n, c.sbn)], c2)
  PROVE  Moves(d, x, n, c, c2)
<1>1. Keeps(d, x, n) /\ (Waiting(x, n, c2) <=> Waiting(d, n, c))
  BY KeepsSame, WaitingSame
<1>2. Follows(d, n, c2)
  <2>1. CASE Has(d, n, c)
    <3>1. Has(d, n, c2)
      BY <2>1, Zenon DEF Has
    <3> QED
      BY <3>1 DEF Follows
  <2>2. CASE c = Out /\ Never(d, n)
    BY <2>2 DEF Follows
  <2> QED
    BY <2>1, <2>2 DEF Follows
<1>3. Follows(x, n, c2)
  BY <1>2, FollowsSame
<1> QED
  BY <1>1, <1>3 DEF Moves

LEMMA HasChanged ==
  ASSUME NEW d, NEW x, NEW n, NEW c, NEW c2, NEW k, k = Key(n, c.sbn), NEW r, NEW q,
         Has(d, n, c), Changed(d, x, k, r, q), Match(r, c2), Copies(q, r), c2.sbn = c.sbn
  PROVE  Has(x, n, c2) /\ x.staking[k] = r
<1>1. k[1] = n /\ k = Key(n, c2.sbn)
  BY KeyIs
<1>2. k \in DOMAIN x.staking /\ x.staking[k] = r
  BY DEF Has, Changed
<1>3. n \in DOMAIN x.node /\ x.node[n].sbn = c2.sbn /\ x.node[n].row = q
  BY <1>1 DEF Has, Changed
<1>4. \A j \in DOMAIN x.staking : j # k => j \in DOMAIN d.staking /\ x.staking[j] = d.staking[j]
  BY DEF Changed
<1>5. \A j \in DOMAIN x.staking : j[1] = n /\ j # k =>
        j[2] < c2.sbn /\ Dead(x.staking[j]) /\ x.staking[j].exc # REPORTED
  BY <1>4, Zenon DEF Has
<1> QED
  BY <1>1, <1>2, <1>3, <1>5, Zenon DEF Has

LEMMA KeepsChanged ==
  ASSUME NEW d, NEW x, NEW k, NEW r, NEW q, Changed(d, x, k, r, q), d.staking[k].status # EXITED, NEW n
  PROVE  Keeps(d, x, n)
BY DEF Keeps, Changed

\* The row of n's staking becomes what fits the chain's new record.
LEMMA MovesChanged ==
  ASSUME NEW d, NEW y, NEW x, NEW n, NEW c, NEW c2, NEW k, k = Key(n, c.sbn), NEW r, NEW q,
         Has(d, n, c), Changed(d, y, k, r, q), SameOf(y, x, n), d.staking[k].status # EXITED,
         Becomes(d.staking[k], d.node[n].row, c, r, q, c2)
  PROVE  Moves(d, x, n, c, c2)
<1>1. /\ Match(r, c2) /\ Copies(q, r) /\ (r.exc = REPORTED <=> d.staking[k].exc = REPORTED)
      /\ c2.sbn = c.sbn /\ c2.reported = c.reported
  BY DEF Becomes
<1>2. Has(y, n, c2) /\ y.staking[k] = r
  BY <1>1, HasChanged
<1>3. Keeps(d, x, n)
  BY KeepsChanged, KeepsSame, KeepsTrans
<1>4. Waiting(y, n, c2) <=> Waiting(d, n, c)
  <2>1. k = Key(n, c2.sbn) /\ k \in DOMAIN y.staking /\ k \in DOMAIN d.staking
    BY <1>1, <1>2 DEF Has
  <2> QED
    BY <1>1, <1>2, <2>1, Zenon DEF Waiting
<1>5. Waiting(x, n, c2) <=> Waiting(y, n, c2)
  BY WaitingSame
<1>6. Follows(x, n, c2)
  BY <1>2, HasSame DEF Follows
<1> QED
  BY <1>1, <1>3, <1>4, <1>5, <1>6 DEF Moves

\* What is left of a staking that has not ended is the last one.
LEMMA HasOne ==
  ASSUME NEW d, NEW n, NEW c, Has(d, n, c), NEW k \in DOMAIN d.staking, k[1] = n,
         d.staking[k].status # EXITED \/ d.staking[k].exc = REPORTED
  PROVE  k = Key(n, c.sbn)
BY DEF Has, Dead


-----------------------------------------------------------------------------
(* The election *)

LEMMA Single ==
  ASSUME NEW kind, NEW d, NEW e, NEW S, NEW seq \in Seq(S), Len(seq) = 1
  PROVE  FoldOf(kind, d, seq, e) = Do(kind, d, seq[1], e)
<1>a. \A s \in Seq(S) : \E after : Steps(after, kind, d, s, e) /\ FoldOf(kind, d, s, e) = after[Len(s)]
  <2> TAKE s \in Seq(S)
  <2> QED
    BY FoldSteps
<1>1. PICK after : Steps(after, kind, d, seq, e) /\ FoldOf(kind, d, seq, e) = after[Len(seq)]
  BY <1>a
<1>2. 1 \in 1..1 /\ 1 - 1 = 0
  OBVIOUS
<1> QED
  BY <1>1, <1>2 DEF Steps

\* What is done for no element and for one.
LEMMA NoneDone ==
  ASSUME NEW S, S = {}, NEW f \in SetToSeqs(S), NEW kind, NEW d, NEW e
  PROVE  FoldOf(kind, d, f, e) = d
<1>1. f \in Seq(S) /\ Len(f) = 0
  BY OrderIs, FS_EmptySet
<1>2. \A s \in Seq(S) : Len(s) = 0 => FoldOf(kind, d, s, e) = d
  <2> TAKE s \in Seq(S)
  <2>1. Len(s) = 0 => FoldOf(kind, d, s, e) = d
    BY ONLY Nothing, s \in Seq(S)
  <2> QED
    BY <2>1
<1> QED
  BY <1>1, <1>2

LEMMA OneDone ==
  ASSUME NEW S, NEW k, S = {k}, NEW f \in SetToSeqs(S), NEW kind, NEW d, NEW e
  PROVE  FoldOf(kind, d, f, e) = Do(kind, d, k, e) /\ f[Len(f)] = k
<1>1. IsFiniteSet(S) /\ Cardinality(S) = 1
  BY FS_Singleton
<1>2. f \in Seq(S) /\ Len(f) = 1
  BY <1>1, OrderIs
<1>3. f[1] = k
  BY <1>2
<1>4. \A s \in Seq(S) : Len(s) = 1 => FoldOf(kind, d, s, e) = Do(kind, d, s[1], e)
  <2> TAKE s \in Seq(S)
  <2> QED
    BY Single
<1>5. FoldOf(kind, d, f, e) = Do(kind, d, f[1], e)
  BY <1>2, <1>4
<1> QED
  BY <1>2, <1>3, <1>5

LEMMA SlashLowIs ==
  ASSUME NEW d, NEW f, NEW g, NEW d1, d1 = FoldOf("lock", d, f, 0), NEW e, e = ElectionEnd(d, g)
  PROVE  SlashLow(d, f, g) = FoldOf("exit", d1, g, e)
BY LockFold, ExitFold, Zenon DEF SlashLow

\* At most one row is found, that of the penalised node's staking.
LEMMA SlashLowMoves ==
  ASSUME NEW d, TableOK(d), block.num \in Nat, NEW m, block.low = {m}, NEW c \in Rec, Follows(d, m, c),
         c.st \in {"candidate", "leaving"}, c.reported = 0,
         NEW f \in SetToSeqs(LowRows(d) \ Exits(d)), NEW g \in SetToSeqs(Exits(d)),
         NEW x, x = SlashLow(d, f, g)
  PROVE  /\ Moves(d, x, m, c, Penalise(c, Epoch(block.num)))
         /\ \A n : n # m => SameOf(d, x, n)
<1> DEFINE k == Key(m, c.sbn)
           s == d.staking[k]
           q == d.node[m].row
           e == Epoch(block.num)
           c2 == Penalise(c, e)
<1>1. Has(d, m, c) /\ c # Out
  BY DEF Follows, Out
<1>2. k \in DOMAIN d.staking /\ k[1] = m /\ m \in DOMAIN d.node /\ Copies(q, s) /\ Match(s, c)
  BY <1>1, KeyIs DEF Has
<1>3. s \in Row /\ q \in Row /\ s = RowAt(d, k) /\ q = NodeRowAt(d, k) /\ e \in Nat
  BY <1>2, EpochNat DEF TableOK, RowAt, NodeRowAt
<1>4. MatchCandidate(s, c) \/ MatchLeaving(s, c)
  BY <1>2 DEF Match, MatchLocked, MatchReported, MatchOut
<1>5. s.status \in {CANDIDATE, EXITING} /\ s.status # EXITED /\ (MatchCandidate(s, c) => s.low = 0)
  BY <1>4 DEF MatchCandidate, MatchLeaving, CANDIDATE, EXITING, EXITED
<1>6. LowRows(d) \subseteq {k} /\ Exits(d) \subseteq LowRows(d)
  <2> SUFFICES ASSUME NEW j \in LowRows(d) PROVE j = k
    BY LowRowsIn
  <2>1. j \in DOMAIN d.staking /\ j[1] = m /\ d.staking[j].status # EXITED
    BY DEF LowRows, CANDIDATE, EXITING, EXITED
  <2> QED
    BY <1>1, <2>1, HasOne
<1>7. k \in LowRows(d) <=> s.low = 0
  BY <1>2, <1>5 DEF LowRows
<1>8. k \in LowRows(d) => (k \in Exits(d) <=> s.status = EXITING \/ ~Stays(s))
  <2>1. s.hes \in Nat /\ s.locked \in Nat
    BY <1>3, RowFields
  <2>2. ~Stays(s) <=> s.hes + s.locked - Penalty < Threshold
    BY <2>1, Bounds DEF Stays
  <2> QED
    BY <2>2 DEF Exits
<1> DEFINE d1 == FoldOf("lock", d, f, 0)
           end == ElectionEnd(d, g)
           L == LowRows(d) \ Exits(d)
           E == Exits(d)
<1>9. SlashLow(d, f, g) = FoldOf("exit", d1, g, end)
  BY SlashLowIs
<1>13. f \in SetToSeqs(L) /\ g \in SetToSeqs(E)
  OBVIOUS
<1>14. L = {} => d1 = d
  <2> HIDE DEF L
  <2> QED
    BY <1>13, NoneDone
<1>15. L = {k} => d1 = Lock(d, k)
  <2>1. L = {k} => d1 = Do("lock", d, k, 0)
    <3> HIDE DEF L, k
    <3> QED
      BY <1>13, OneDone
  <2> QED
    BY <2>1 DEF Do
<1>16. E = {} => x = d1
  <2> HIDE DEF E, d1, end
  <2> QED
    BY <1>9, <1>13, NoneDone
<1>17. E = {k} => x = ExitLow(d1, k, end) /\ g[Len(g)] = k
  <2>1. E = {k} => x = Do("exit", d1, k, end) /\ g[Len(g)] = k
    <3> HIDE DEF E, d1, end, k
    <3> QED
      BY <1>9, <1>13, OneDone
  <2> QED
    BY <2>1 DEF Do
<1>18. E = {k} => end = IF s.status = EXITING THEN s.end ELSE UnStakeEnd(e)
  BY <1>17 DEF ElectionEnd, Last
<1> HIDE DEF k, s, q, e, c2, d1, end
<1>10. CASE k \notin LowRows(d)
  <2>1. LowRows(d) \ Exits(d) = {} /\ Exits(d) = {}
    BY <1>6, <1>10
  <2>4. x = d
    BY <2>1, <1>14, <1>16
  <2>5. MatchLeaving(s, c)
    BY <1>4, <1>5, <1>7, <1>10
  <2>6. Becomes(s, q, c, s, q, c2)
    BY <1>2, <1>3, <2>5, LeavingPenalised DEF c2
  <2>7. Match(s, c2) /\ c2.sbn = c.sbn /\ c2.reported = c.reported
    BY <2>6 DEF Becomes
  <2>8. Moves(d, x, m, c, c2)
    BY <1>1, <2>4, <2>7, SameSelf, MovesSame DEF s, k
  <2> QED
    BY <2>4, <2>8, SameSelf DEF c2, e
<1>11. CASE k \in LowRows(d) /\ k \notin Exits(d)
  <2>1. LowRows(d) \ Exits(d) = {k} /\ Exits(d) = {}
    BY <1>6, <1>11
  <2>5. x = Lock(d, k)
    BY <2>1, <1>15, <1>16
  <2>6. Changed(d, x, k, LockTo(s, s), LockTo(s, q))
    BY <1>3, <2>5, LockChanges
  <2>7. Stays(s) /\ MatchCandidate(s, c)
    BY <1>4, <1>8, <1>11 DEF MatchLeaving
  <2>8. Becomes(s, q, c, LockTo(s, s), LockTo(s, q), c2)
    BY <1>2, <1>3, <2>7, LockMatches DEF c2, e
  <2>9. Moves(d, x, m, c, c2)
    BY <1>1, <1>5, <2>6, <2>8, SameSelf, MovesChanged DEF s, q, k
  <2> QED
    BY <1>2, <2>6, <2>9, ChangedOther DEF c2, e
<1>12. CASE k \in Exits(d)
  <2>1. LowRows(d) \ Exits(d) = {} /\ Exits(d) = {k}
    BY <1>6, <1>12
  <2>5. x = ExitLow(d, k, end)
    BY <2>1, <1>14, <1>17
  <2>6. end = IF s.status = EXITING THEN s.end ELSE UnStakeEnd(e)
    BY <2>1, <1>18
  <2>7. Changed(d, x, k, ExitLowTo(s, end), ExitLowTo(q, end))
    BY <1>3, <2>5, ExitLowChanges
  <2>8. \/ MatchCandidate(s, c) /\ ~Stays(s) /\ end = UnStakeEnd(e) /\ c.reported = 0
        \/ MatchLeaving(s, c) /\ c.reported = 0 /\ end = s.end
    BY <1>4, <1>6, <1>8, <1>12, <2>6 DEF MatchCandidate, MatchLeaving, CANDIDATE, EXITING
  <2>9. Becomes(s, q, c, ExitLowTo(s, end), ExitLowTo(q, end), c2)
    BY <1>2, <1>3, <2>8, ExitMatches DEF c2, e
  <2>10. Moves(d, x, m, c, c2)
    BY <1>1, <1>5, <2>7, <2>9, SameSelf, MovesChanged DEF s, q, k
  <2> QED
    BY <1>2, <2>7, <2>10, ChangedOther DEF c2, e
<1> QED
  BY <1>6, <1>10, <1>11, <1>12

-----------------------------------------------------------------------------
(* The handlers, node by node *)

\* A node's tables have something, once a row of it is there.
LEMMA HasSome ==
  ASSUME NEW d, NEW n, NEW c, Follows(d, n, c), NEW k \in DOMAIN d.staking, k[1] = n
  PROVE  Has(d, n, c)
BY DEF Follows, Never

LEMMA SettleMoves ==
  ASSUME NEW d, TableOK(d), block.num \in Nat \ {0}, OpensSettle(block.num), NEW C \in [Nodes -> Rec],
         \A n \in Nodes : /\ Follows(d, n, C[n])
                          /\ Waiting(d, n, C[n]) => ~(C[n].until < Epoch(block.num)),
         NEW f \in SetToSeqs(Unsettled(d)), NEW x, x = FoldLeft(SettleRow, d, f)
  PROVE  \A n \in Nodes : Moves(d, x, n, C[n], Thaw(C[n], Epoch(block.num)))
<1> DEFINE e == Epoch(block.num)
<1>1. Unsettled(d) \subseteq DOMAIN d.staking
  BY DEF Unsettled
<1>2. IsFiniteSet(Unsettled(d))
  BY <1>1, FS_Subset DEF TableOK
<1>3. /\ f \in Seq(Unsettled(d)) /\ \A i, j \in 1..Len(f) : i # j => f[i] # f[j]
      /\ \A k \in Unsettled(d) : \E i \in 1..Len(f) : f[i] = k
  BY <1>2, OrderIs
<1>4. \A i \in 1..Len(f) : f[i] \in Unsettled(d)
  BY <1>3
<1>5. \A i \in 1..Len(f) :
        /\ f[i] \in DOMAIN d.staking /\ d.staking[f[i]].status # EXITED /\ f[i][1] \in Nodes
        /\ Has(d, f[i][1], C[f[i][1]]) /\ f[i] = Key(f[i][1], C[f[i][1]].sbn)
  <2> TAKE i \in 1..Len(f)
  <2> DEFINE k == f[i]
  <2>1. k \in DOMAIN d.staking /\ d.staking[k].status # EXITED /\ k[1] \in Nodes
    BY <1>4 DEF Unsettled, TableOK
  <2> HIDE DEF k
  <2>2. Follows(d, k[1], C[k[1]])
    BY <2>1
  <2>3. Has(d, k[1], C[k[1]])
    BY <2>1, <2>2, HasSome
  <2>4. k = Key(k[1], C[k[1]].sbn)
    BY <2>1, <2>3, HasOne
  <2> QED
    BY <2>1, <2>3, <2>4 DEF k
<1>6. Runs("settle", d, f)
  BY <1>5 DEF Runs, KeyOf
<1>7. \A i \in 1..Len(f) : Node("settle", f[i]) = f[i][1]
  BY DEF Node, KeyOf
<1>8. Apart("settle", f)
  <2> SUFFICES ASSUME NEW i \in 1..Len(f), NEW j \in 1..Len(f), i # j, f[i][1] = f[j][1]
               PROVE  FALSE
    BY <1>7 DEF Apart
  <2>1. f[i] = f[j]
    BY <1>5
  <2> QED
    BY <1>3, <2>1
<1>9. "settle" \in Updates /\ 0 \in Nat
  BY DEF Updates
<1>10. x = FoldOf("settle", d, f, 0)
  BY SettleFold
<1>11. /\ \A n : (\A i \in 1..Len(f) : Node("settle", f[i]) # n) => SameOf(d, x, n)
       /\ \A i \in 1..Len(f) : SameOf(Do("settle", d, f[i], 0), x, Node("settle", f[i]))
  BY <1>3, <1>6, <1>8, <1>9, <1>10, FoldNodes
<1> TAKE n \in Nodes
<1> DEFINE c == C[n]
           k == Key(n, c.sbn)
<1>12. c \in Rec /\ Follows(d, n, c) /\ (Waiting(d, n, c) => ~(c.until < e))
  OBVIOUS
<1>13. CASE \E i \in 1..Len(f) : f[i][1] = n
  <2>1. PICK i \in 1..Len(f) : f[i][1] = n
    BY <1>13
  <2>2. f[i] = k /\ Has(d, n, c) /\ d.staking[k].status # EXITED /\ k \in DOMAIN d.staking /\ k[1] = n
    BY <1>5, <2>1
  <2>3. SameOf(SettleRow(d, k), x, n)
    BY <1>7, <1>11, <2>1, <2>2 DEF Do
  <2> DEFINE s == d.staking[k]
             q == d.node[n].row
  <2>4. s = RowAt(d, k) /\ q = NodeRowAt(d, k) /\ s \in Row /\ q \in Row /\ Match(s, c) /\ Copies(q, s)
    BY <2>2 DEF RowAt, NodeRowAt, TableOK, Has
  <2>5. Changed(d, SettleRow(d, k), k, SettleTo(s, s), SettleTo(s, q))
    BY <2>4, SettleChanges
  <2>6. MatchReported(s, c) => ~(c.until < e)
    BY <1>12, <2>2 DEF Waiting, MatchReported
  <2> HIDE DEF s, q, c, k
  <2>7. Becomes(s, q, c, SettleTo(s, s), SettleTo(s, q), Thaw(c, e))
    <3>1. s.status # EXITED
      BY <2>2 DEF s
    <3> QED
      BY <1>12, <2>4, <2>6, <3>1, SettleMatches
  <2>8. Moves(d, x, n, c, Thaw(c, e))
    BY <2>2, <2>3, <2>5, <2>7, MovesChanged DEF k, s, q
  <2> QED
    BY <2>8 DEF c
<1>14. CASE \A i \in 1..Len(f) : f[i][1] # n
  <2>1. SameOf(d, x, n)
    BY <1>7, <1>11, <1>14
  <2>2. Thaw(c, e).sbn = c.sbn /\ Thaw(c, e).reported = c.reported
    BY <1>12, ThawTyped
  <2>3. c = Out => Thaw(c, e) = Out
    BY OutStays
  <2>4. Has(d, n, c) => Match(d.staking[k], Thaw(c, e))
    <3> SUFFICES ASSUME Has(d, n, c) PROVE Match(d.staking[k], Thaw(c, e))
      OBVIOUS
    <3>1. k \in DOMAIN d.staking /\ k[1] = n /\ Match(d.staking[k], c)
      BY KeyIs DEF Has
    <3>2. k \notin Unsettled(d)
      BY <1>3, <1>14, <3>1
    <3>3. d.staking[k].status = EXITED
      BY <3>1, <3>2 DEF Unsettled
    <3>4. MatchOut(d.staking[k], c)
      BY <3>1, <3>3 DEF Match, MatchCandidate, MatchLocked, MatchLeaving, MatchReported, CANDIDATE,
        LOCKED, EXITING, EXITED
    <3> QED
      BY <1>12, <3>4, OutThaws DEF Match
  <2> HIDE DEF c
  <2>5. Moves(d, x, n, c, Thaw(c, e))
    BY <1>12, <2>1, <2>2, <2>3, <2>4, MovesSame DEF k
  <2> QED
    BY <2>5 DEF c
<1> QED
  BY <1>13, <1>14

LEMMA Longer ==
  ASSUME NEW S, NEW a \in Seq(S), NEW r \in Seq(S), Len(r) = 1, NEW i \in Nat, Len(a) = i
  PROVE  /\ a \o r \in Seq(S) /\ Len(a \o r) = i + 1
         /\ (\A j \in 1..i : (a \o r)[j] = a[j]) /\ (a \o r)[i + 1] = r[1]
<1>1. a \o r \in Seq(S) /\ Len(a \o r) = Len(a) + Len(r)
  BY ConcatProperties, Zenon
<1>2. \A j \in 1..(Len(a) + Len(r)) : (a \o r)[j] = IF j =< Len(a) THEN a[j] ELSE r[j - Len(a)]
  BY ConcatProperties, Zenon
<1>3. Len(a) + Len(r) = i + 1
  OBVIOUS
<1> DEFINE z == a \o r
<1> HIDE DEF z
<1>4. \A j \in 1..(i + 1) : z[j] = IF j =< i THEN a[j] ELSE r[j - i]
  BY <1>2, <1>3 DEF z
<1>5. \A j \in 1..i : z[j] = a[j]
  BY <1>4
<1>6. z[i + 1] = r[1]
  <2>1. i + 1 \in 1..(i + 1) /\ ~(i + 1 =< i) /\ i + 1 - i = 1
    OBVIOUS
  <2> QED
    BY <1>4, <2>1
<1> QED
  BY <1>1, <1>3, <1>5, <1>6 DEF z

\* One report of each node.
LEMMA PendingIs ==
  ASSUME NEW nodes \in SUBSET Nodes, NEW S, \A n \in nodes : reports[n] \in Seq(S) /\ Len(reports[n]) = 1
  PROVE  /\ Len(PendingOf(nodes)) = Len(SetToSeq(nodes))
         /\ \A i \in 1..Len(SetToSeq(nodes)) : PendingOf(nodes)[i] = reports[SetToSeq(nodes)[i]][1]
<1> DEFINE seq == SetToSeq(nodes)
<1>1. IsFiniteSet(nodes)
  BY StakingBounds, FS_Subset
<1>2. seq \in Seq(nodes)
  BY <1>1, SeqOfIs, OrderIs
<1>3. PendingOf(nodes) = FoldOf("pending", <<>>, seq, 0)
  BY PendingFold, Zenon DEF PendingOf
<1> HIDE DEF seq
<1>4. PICK after : Steps(after, "pending", <<>>, seq, 0) /\ PendingOf(nodes) = after[Len(seq)]
  BY <1>2, <1>3, FoldSteps
<1> DEFINE Good(i) == /\ after[i] \in Seq(S) /\ Len(after[i]) = i
                      /\ \A j \in 1..i : after[i][j] = reports[seq[j]][1]
           N == {i \in Nat : i =< Len(seq) => Good(i)}
<1>5. 0 \in N
  <2>1. after[0] = <<>>
    BY <1>4 DEF Steps
  <2>2. <<>> \in Seq(S) /\ Len(<<>>) = 0
    OBVIOUS
  <2>3. after[0] \in Seq(S) /\ Len(after[0]) = 0
    BY <2>1, <2>2
  <2>4. \A j \in 1..0 : after[0][j] = reports[seq[j]][1]
    OBVIOUS
  <2>5. Good(0)
    BY <2>3, <2>4
  <2> QED
    BY <2>5
<1>6. ASSUME NEW i \in Nat, i \in N PROVE i + 1 \in N
  <2> SUFFICES ASSUME i + 1 =< Len(seq) PROVE Good(i + 1)
    OBVIOUS
  <2>1. Len(seq) \in Nat
    BY <1>2
  <2>2. Good(i) /\ i + 1 \in 1..Len(seq) /\ (i + 1) - 1 = i
    BY <1>6, <2>1
  <2>3. after[i + 1] = after[i] \o reports[seq[i + 1]]
    BY <1>4, <2>2 DEF Steps, Do
  <2>4. reports[seq[i + 1]] \in Seq(S) /\ Len(reports[seq[i + 1]]) = 1
    BY <1>2, <2>2
  <2> DEFINE a == after[i]
             r == reports[seq[i + 1]]
             z == after[i + 1]
  <2>5. a \in Seq(S) /\ Len(a) = i /\ r \in Seq(S) /\ Len(r) = 1 /\ z = a \o r
    BY <2>2, <2>3, <2>4
  <2>6. \A j \in 1..i : a[j] = reports[seq[j]][1]
    BY <2>2
  <2> HIDE DEF a, r, z
  <2>7. z \in Seq(S) /\ Len(z) = i + 1 /\ (\A j \in 1..i : z[j] = a[j]) /\ z[i + 1] = r[1]
    BY <2>5, Longer
  <2>8. \A j \in 1..(i + 1) : z[j] = reports[seq[j]][1]
    <3> TAKE j \in 1..(i + 1)
    <3>1. CASE j = i + 1
      BY <2>7, <3>1 DEF r
    <3>2. CASE j \in 1..i
      BY <2>6, <2>7, <3>2
    <3> QED
      BY <3>1, <3>2
  <2> QED
    BY <2>7, <2>8 DEF z
<1> HIDE DEF N
<1>7. Len(seq) \in Nat
  BY <1>2
<1>8. Len(seq) \in N
  BY <1>5, <1>6, <1>7, NatSet, Zenon
<1>9. Good(Len(seq))
  BY <1>7, <1>8 DEF N
<1> QED
  BY <1>4, <1>9 DEF seq

\* The queue of a node: the report of its staking that waits.
QueueOf(d, n, c) ==
  IF Waiting(d, n, c) THEN <<[node |-> n, sbn |-> c.sbn, hash |-> c.reported]>> ELSE <<>>

\* A staking that waits for its punishment.
LEMMA WaitingIs ==
  ASSUME NEW d, NEW n, NEW c, Follows(d, n, c), Waiting(d, n, c)
  PROVE  Has(d, n, c) /\ MatchReported(d.staking[Key(n, c.sbn)], c)
<1>1. Key(n, c.sbn)[1] = n /\ Key(n, c.sbn) \in DOMAIN d.staking
  BY KeyIs DEF Waiting
<1>2. Has(d, n, c)
  BY <1>1, HasSome
<1> QED
  BY <1>2 DEF Has, Waiting, Match, MatchCandidate, MatchLocked, MatchLeaving, MatchOut, NORMAL, REPORTED,
    PUNISHED

LEMMA PunishMoves ==
  ASSUME NEW d, TableOK(d), block.num \in Nat, NEW C \in [Nodes -> Rec],
         reports \in [Nodes -> Seq(ReportsOn(DOMAIN d.staking))],
         \A n \in Nodes : Follows(d, n, C[n]) /\ reports[n] = QueueOf(d, n, C[n]),
         NEW x, x = FoldLeft(Slash, d, PendingOf(ToPunish(d)))
  PROVE  \A n \in Nodes :
           IF Waiting(d, n, C[n]) /\ n \notin validators
           THEN n \in ToPunish(d) /\ Follows(x, n, C[n]) /\ Keeps(d, x, n) /\ ~Waiting(x, n, C[n])
           ELSE n \notin ToPunish(d) /\ SameOf(d, x, n)
<1> DEFINE P == ToPunish(d)
           seq == PendingOf(P)
           order == SetToSeq(P)
<1>1. \A n \in Nodes : n \in P <=> Waiting(d, n, C[n]) /\ n \notin validators
  <2> TAKE n \in Nodes
  <2> DEFINE c == C[n]
             k == Key(n, c.sbn)
  <2>1. Follows(d, n, c) /\ reports[n] = QueueOf(d, n, c)
    OBVIOUS
  <2>2. k[1] = n
    BY KeyIs
  <2>3. Waiting(d, n, c) <=> k \in DOMAIN d.staking /\ d.staking[k].exc = REPORTED
    BY DEF Waiting
  <2> HIDE DEF c
  <2>4. Waiting(d, n, c) => reports[n] # <<>>
    BY <2>1 DEF QueueOf
  <2>5. ~Waiting(d, n, c) => reports[n] = <<>>
    BY <2>1 DEF QueueOf
  <2> QED
    BY <2>2, <2>3, <2>4, <2>5 DEF ToPunish, c
<1>2. P \in SUBSET Nodes /\ IsFiniteSet(P)
  BY StakingBounds, FS_Subset DEF ToPunish
<1>3. \A n \in P : /\ reports[n] = <<[node |-> n, sbn |-> C[n].sbn, hash |-> C[n].reported]>>
                   /\ Has(d, n, C[n]) /\ MatchReported(d.staking[Key(n, C[n].sbn)], C[n])
  <2> TAKE n \in P
  <2>1. n \in Nodes /\ Waiting(d, n, C[n]) /\ Follows(d, n, C[n]) /\ reports[n] = QueueOf(d, n, C[n])
    BY <1>1, <1>2
  <2> QED
    BY <2>1, WaitingIs DEF QueueOf
<1>4. order \in Seq(P) /\ (\A i, j \in 1..Len(order) : i # j => order[i] # order[j])
      /\ \A n \in P : \E i \in 1..Len(order) : order[i] = n
  BY <1>2, SeqOfIs, OrderIs
<1> DEFINE R == ReportsOn(DOMAIN d.staking)
<1> HIDE DEF P
<1>5. \A n \in P : reports[n] \in Seq(R) /\ Len(reports[n]) = 1
  <2> TAKE n \in P
  <2>1. reports[n] \in Seq(R)
    BY <1>2
  <2>2. reports[n] = <<[node |-> n, sbn |-> C[n].sbn, hash |-> C[n].reported]>>
    BY <1>3
  <2>3. Len(reports[n]) = 1
    BY <2>2
  <2> QED
    BY <2>1, <2>3
<1> HIDE DEF R
<1>6. Len(seq) = Len(order) /\ \A i \in 1..Len(order) : seq[i] = reports[order[i]][1]
  BY <1>2, <1>5, PendingIs
<1>7. seq \in Seq(R)
  BY <1>2, PendingTyped DEF R
<1> HIDE DEF seq, order
<1>8. \A i \in 1..Len(seq) :
        /\ order[i] \in P /\ seq[i] = [node |-> order[i], sbn |-> C[order[i]].sbn, hash |-> C[order[i]].reported]
        /\ RepKey(seq[i]) = Key(order[i], C[order[i]].sbn)
  <2> TAKE i \in 1..Len(seq)
  <2>1. order[i] \in P
    BY <1>4, <1>6
  <2>2. seq[i] = [node |-> order[i], sbn |-> C[order[i]].sbn, hash |-> C[order[i]].reported]
    BY <1>3, <1>6, <2>1
  <2> QED
    BY <2>1, <2>2 DEF RepKey
<1>9. \A i \in 1..Len(seq) : KeyOf("slash", seq[i]) = RepKey(seq[i]) /\ Node("slash", seq[i]) = order[i]
  <2> TAKE i \in 1..Len(seq)
  <2>1. KeyOf("slash", seq[i]) = RepKey(seq[i])
    BY DEF KeyOf
  <2>2. RepKey(seq[i]) = Key(order[i], C[order[i]].sbn)
    BY <1>8
  <2>3. RepKey(seq[i])[1] = order[i]
    BY <2>2, KeyIs
  <2> QED
    BY <2>1, <2>3 DEF Node
<1>10. Runs("slash", d, seq)
  <2>1. \A i \in 1..Len(seq) : KeyOf("slash", seq[i]) \in DOMAIN d.staking
    <3> TAKE i \in 1..Len(seq)
    <3>1. order[i] \in P /\ KeyOf("slash", seq[i]) = Key(order[i], C[order[i]].sbn)
      BY <1>8, <1>9
    <3>2. Has(d, order[i], C[order[i]])
      BY <1>3, <3>1
    <3> QED
      BY <3>1, <3>2 DEF Has
  <2> QED
    BY <2>1 DEF Runs
<1>11. Apart("slash", seq)
  BY <1>4, <1>6, <1>9 DEF Apart
<1>12. "slash" \in Updates /\ 0 \in Nat
  BY DEF Updates
<1>13. x = FoldOf("slash", d, seq, 0)
  BY SlashFold DEF seq, P
<1>14. /\ \A n : (\A i \in 1..Len(seq) : Node("slash", seq[i]) # n) => SameOf(d, x, n)
       /\ \A i \in 1..Len(seq) : SameOf(Do("slash", d, seq[i], 0), x, Node("slash", seq[i]))
  BY <1>7, <1>10, <1>11, <1>12, <1>13, FoldNodes
<1> TAKE n \in Nodes
<1> DEFINE c == C[n]
           k == Key(n, c.sbn)
<1>15. CASE n \in P
  <2>1. PICK i \in 1..Len(seq) : order[i] = n
    BY <1>4, <1>6, <1>15
  <2>2. RepKey(seq[i]) = k /\ Node("slash", seq[i]) = n /\ Has(d, n, c) /\ MatchReported(d.staking[k], c)
    BY <1>3, <1>8, <1>9, <1>15, <2>1
  <2>3. SameOf(Slash(d, seq[i]), x, n)
    BY <1>14, <2>2 DEF Do
  <2> DEFINE s == d.staking[k]
             q == d.node[n].row
             y == Slash(d, seq[i])
  <2>4. s = RowAt(d, k) /\ s \in Row /\ Match(s, c) /\ Copies(q, s) /\ k[1] = n
    BY <2>2, KeyIs DEF RowAt, TableOK, Has
  <2>5. q = NodeRowAt(d, k) /\ q \in Row
    BY <2>2, <2>4 DEF NodeRowAt, TableOK, Has
  <2>6. Changed(d, y, k, SlashTo(s, s), SlashTo(s, q))
    <3>1. Changed(d, y, RepKey(seq[i]), SlashTo(RowAt(d, RepKey(seq[i])), RowAt(d, RepKey(seq[i]))),
                  SlashTo(RowAt(d, RepKey(seq[i])), NodeRowAt(d, RepKey(seq[i]))))
      BY SlashChanges
    <3> HIDE DEF s, q, y, k
    <3> QED
      BY <2>2, <2>4, <2>5, <3>1
  <2>7. s.status # EXITED
    BY <2>2 DEF MatchReported, CANDIDATE, EXITED
  <2>8. c \in Rec
    OBVIOUS
  <2> HIDE DEF s, q, y, c, k
  <2>9. Match(SlashTo(s, s), c) /\ Copies(SlashTo(s, q), SlashTo(s, s)) /\ SlashTo(s, s).exc = PUNISHED
    BY <2>2, <2>4, <2>5, <2>8, SlashMatches DEF s
  <2>10. Has(y, n, c) /\ y.staking[k] = SlashTo(s, s)
    BY <2>2, <2>6, <2>9, HasChanged DEF k
  <2>11. Keeps(d, y, n)
    BY <2>6, <2>7, KeepsChanged DEF s
  <2>12. Keeps(d, x, n)
    BY <2>3, <2>11, KeepsSame, KeepsTrans DEF y
  <2>13. Follows(x, n, c)
    BY <2>3, <2>10, HasSame DEF Follows, y
  <2>14. ~Waiting(y, n, c)
    BY <2>9, <2>10 DEF Waiting, k, PUNISHED, REPORTED
  <2>15. ~Waiting(x, n, c)
    BY <2>3, <2>14, WaitingSame DEF y
  <2> QED
    BY <1>1, <1>15, <2>12, <2>13, <2>15 DEF c, P
<1>16. CASE n \notin P
  <2>1. \A i \in 1..Len(seq) : Node("slash", seq[i]) # n
    BY <1>8, <1>9, <1>16
  <2>2. SameOf(d, x, n)
    BY <1>14, <2>1
  <2> QED
    BY <1>1, <1>16, <2>2 DEF P
<1> QED
  BY <1>15, <1>16

-----------------------------------------------------------------------------
(* The transactions, node by node *)

\* A transaction that is listed once is handled once.
LEMMA HandledOnce ==
  ASSUME NEW d, NEW tx, NEW seq, seq = [i \in 1..1 |-> tx]
  PROVE  FoldLeft(Handle, d, seq) = Handle(d, tx)
<1>1. seq \in Seq({tx}) /\ Len(seq) = 1 /\ seq[1] = tx
  OBVIOUS
<1>2. \A s \in Seq({tx}) : Len(s) = 1 => FoldOf("handle", d, s, 0) = Do("handle", d, s[1], 0)
  <2> TAKE s \in Seq({tx})
  <2> QED
    BY Single
<1>3. FoldOf("handle", d, seq, 0) = Do("handle", d, tx, 0)
  BY <1>1, <1>2
<1>4. Do("handle", d, tx, 0) = Handle(d, tx)
  BY DEF Do
<1> QED
  BY <1>3, <1>4, HandleFold

\* The row of a candidate.
LEMMA CandidateRow ==
  ASSUME NEW d, TableOK(d), NEW n \in Nodes, NEW c, Follows(d, n, c), c.st = "candidate",
         NEW k, k = Key(n, c.sbn), NEW s, s = d.staking[k], NEW q, q = d.node[n].row
  PROVE  /\ Has(d, n, c) /\ k[1] = n /\ k[2] = c.sbn /\ k \in DOMAIN d.staking
         /\ s \in Row /\ q \in Row /\ s = RowAt(d, k) /\ q = NodeRowAt(d, k)
         /\ MatchCandidate(s, c) /\ Copies(q, s) /\ s.status # EXITED /\ ~Waiting(d, n, c)
<1>1. Has(d, n, c) /\ k[1] = n /\ k[2] = c.sbn
  BY KeyIs DEF Follows, Out
<1>2. k \in DOMAIN d.staking /\ n \in DOMAIN d.node /\ Match(s, c) /\ Copies(q, s)
  BY <1>1 DEF Has
<1>3. s \in Row /\ q \in Row /\ s = RowAt(d, k) /\ q = NodeRowAt(d, k)
  BY <1>1, <1>2 DEF TableOK, RowAt, NodeRowAt
<1>4. MatchCandidate(s, c)
  BY <1>2 DEF Match, MatchLocked, MatchLeaving, MatchReported, MatchOut
<1>5. s.status # EXITED /\ ~Waiting(d, n, c)
  BY <1>4 DEF MatchCandidate, CANDIDATE, EXITED, Waiting, NORMAL, REPORTED
<1> QED
  BY <1>1, <1>2, <1>3, <1>4, <1>5

LEMMA ChangeMoves ==
  ASSUME NEW d, TableOK(d), block.num \in Nat, NEW tx, NEW n \in Nodes, tx.node = n,
         tx.type \in {"increase", "exit"}, NEW c \in Rec, Follows(d, n, c), c.st = "candidate",
         c.reported = 0, c.locked > 0 \/ Epoch(c.sbn) = Epoch(block.num), chain[n].sbn = c.sbn,
         NEW x, x = Handle(d, tx)
  PROVE  Moves(d, x, n, c, Apply(c, tx, block.num)) /\ \A m : m # n => SameOf(d, x, m)
<1> DEFINE k == Key(n, c.sbn)
           s == d.staking[k]
           q == d.node[n].row
           c2 == Apply(c, tx, block.num)
<1>1. /\ Has(d, n, c) /\ k[1] = n /\ k[2] = c.sbn /\ s \in Row /\ q \in Row
      /\ s = RowAt(d, k) /\ q = NodeRowAt(d, k) /\ MatchCandidate(s, c) /\ Copies(q, s)
      /\ s.status # EXITED
  BY CandidateRow
<1>2. k = TxKey(tx)
  BY DEF TxKey
<1> HIDE DEF k, s, q, c2
<1>3. CASE tx.type = "increase"
  <2>1. x = Increase(d, tx)
    BY <1>3 DEF Handle
  <2>2. Changed(d, x, k, IncreaseTo(s), IncreaseTo(q))
    BY <1>1, <1>2, <2>1, IncreaseChanges
  <2>3. Becomes(s, q, c, IncreaseTo(s), IncreaseTo(q), c2)
    BY <1>1, <1>3, IncreaseMatches DEF c2
  <2>4. Moves(d, x, n, c, c2)
    BY <1>1, <2>2, <2>3, SameSelf, MovesChanged DEF k, s, q
  <2> QED
    BY <1>1, <2>2, <2>4, ChangedOther DEF c2
<1>4. CASE tx.type = "exit"
  <2>1. x = Exit(d, tx)
    BY <1>4 DEF Handle
  <2>2. Changed(d, x, k, ExitTo(k, s), ExitTo(k, q))
    BY <1>1, <1>2, <2>1, ExitChanges
  <2>3. Becomes(s, q, c, ExitTo(k, s), ExitTo(k, q), c2)
    BY <1>1, <1>4, LeaveMatches DEF c2
  <2>4. Moves(d, x, n, c, c2)
    BY <1>1, <2>2, <2>3, SameSelf, MovesChanged DEF k, s, q
  <2> QED
    BY <1>1, <2>2, <2>4, ChangedOther DEF c2
<1> QED
  BY <1>3, <1>4 DEF c2

LEMMA ReportMoves ==
  ASSUME NEW d, TableOK(d), NEW b \in Nat \ {0}, b = block.num, NEW tx, NEW n \in Nodes, tx.node = n,
         tx.type = "report", NEW c \in Rec, Follows(d, n, c), c.st = "candidate", tx.sbn = c.sbn,
         NEW x, x = Handle(d, tx), NEW c2, c2 = Apply(c, tx, b)
  PROVE  /\ Follows(x, n, c2) /\ Keeps(d, x, n) /\ ~Waiting(d, n, c) /\ Waiting(x, n, c2)
         /\ c2.sbn = c.sbn /\ c2.reported = b
         /\ \A m : m # n => SameOf(d, x, m)
<1> DEFINE k == Key(n, c.sbn)
           s == d.staking[k]
           q == d.node[n].row
           first == (NodeRowAt(d, RepKey(tx)).status = CANDIDATE)
<1>1. /\ Has(d, n, c) /\ k[1] = n /\ k \in DOMAIN d.staking /\ s \in Row /\ q \in Row
      /\ s = RowAt(d, k) /\ q = NodeRowAt(d, k) /\ MatchCandidate(s, c) /\ Copies(q, s)
      /\ s.status # EXITED /\ ~Waiting(d, n, c)
  BY CandidateRow
<1>2. k = RepKey(tx) /\ x = Mark(d, tx)
  BY DEF RepKey, Handle
<1>3. q.status = CANDIDATE
  BY <1>1 DEF MatchCandidate, Copies
<1>0. first = TRUE
  BY <1>1, <1>2, <1>3
<1> HIDE DEF k, s, q, first
<1>4. Changed(d, x, k, MarkTo(first, s), MarkTo(first, q))
  BY <1>1, <1>2, MarkChanges DEF first
<1>5. MatchReported(MarkTo(first, s), c2) /\ Copies(MarkTo(first, q), MarkTo(first, s))
      /\ c2.sbn = c.sbn /\ c2.reported = b
  <2>0. s \in Row /\ q \in Row /\ MatchCandidate(s, c) /\ Copies(q, s)
    BY <1>1
  <2>1. MatchReported(MarkTo(first, s), Apply(c, tx, b))
    BY <1>0, <2>0, MarkMatches
  <2>2. Copies(MarkTo(first, q), MarkTo(first, s))
    BY <1>0, <2>0, MarkMatches
  <2>3. Apply(c, tx, b) = [c EXCEPT !.st = "leaving", !.reported = b, !.until = Epoch(b) + UnStakeFreeze]
    BY DEF Apply
  <2>4. Apply(c, tx, b).sbn = c.sbn /\ Apply(c, tx, b).reported = b
    BY <2>3 DEF Rec
  <2> QED
    BY <2>1, <2>2, <2>4
<1>6. Has(x, n, c2) /\ x.staking[k] = MarkTo(first, s)
  <2>1. Match(MarkTo(first, s), c2)
    BY <1>5 DEF Match
  <2> DEFINE r == MarkTo(first, s)
             p == MarkTo(first, q)
  <2>2. /\ Match(r, c2) /\ Copies(p, r) /\ Changed(d, x, k, r, p) /\ Has(d, n, c)
        /\ k = Key(n, c.sbn) /\ c2.sbn = c.sbn
    BY <1>1, <1>4, <1>5, <2>1 DEF k
  <2> HIDE DEF r, p
  <2>3. Has(x, n, c2) /\ x.staking[k] = r
    BY ONLY <2>2, HasChanged
  <2> QED
    BY <2>3 DEF r
<1>7. Keeps(d, x, n)
  BY <1>1, <1>4, KeepsChanged DEF s
<1>8. Waiting(x, n, c2)
  <2>1. k = Key(n, c2.sbn) /\ k \in DOMAIN x.staking
    BY <1>5, <1>6 DEF k, Has
  <2>2. x.staking[k].exc = REPORTED
    BY <1>5, <1>6 DEF MatchReported
  <2> QED
    BY <2>1, <2>2 DEF Waiting
<1> QED
  BY <1>1, <1>4, <1>5, <1>6, <1>7, <1>8, ChangedOther DEF Follows

\* A creation, and the same creation again.
LEMMA CreateOnce ==
  ASSUME NEW d, TableOK(d), NEW b \in Nat, b = block.num, NEW tx, tx.type = "create", tx.node \in Nodes,
         tx.amount \in Nat, NEW n, n = tx.node, NEW new, NEW c, new = Apply(c, tx, b),
         \/ Follows(d, n, c) /\ c.st = "out" /\ c.sbn < b
         \/ Has(d, n, new),
         NEW x, x = Create(d, tx)
  PROVE  /\ TableOK(x) /\ Has(x, n, new) /\ Keeps(d, x, n) /\ ~Waiting(x, n, new)
         /\ \A m : m # n => SameOf(d, x, m)
<1> DEFINE k == Key(n, b)
           r == CreatedRow(tx)
           q == CreatedNodeRow(d, tx)
<1>1. Created(d, x, tx) /\ r \in Row
  BY CreateCreates, CreatedTyped
<1>2. new.st = "candidate" /\ new.sbn = b /\ new.hes = tx.amount /\ new.locked = 0 /\ new.reported = 0
  BY DEF Apply, Out
<1>3. MatchCandidate(r, new)
  BY <1>2 DEF MatchCandidate, CreatedRow, NewRow
<1>4. k[1] = n /\ k[2] = b
  BY KeyIs
<1>5. \A j \in DOMAIN d.staking : j[1] = n /\ j # k =>
        j[2] < b /\ Dead(d.staking[j]) /\ d.staking[j].exc # REPORTED
  <2>1. CASE Has(d, n, new)
    BY <1>2, <2>1 DEF Has
  <2>2. CASE Follows(d, n, c) /\ c.st = "out" /\ c.sbn < b
    <3> SUFFICES ASSUME NEW j \in DOMAIN d.staking, j[1] = n
                 PROVE  j[2] < b /\ Dead(d.staking[j]) /\ d.staking[j].exc # REPORTED
      OBVIOUS
    <3>1. Has(d, n, c)
      BY <2>2, HasSome
    <3>2. CASE j = Key(n, c.sbn)
      <4>1. Match(d.staking[j], c) /\ j[2] = c.sbn
        BY <3>1, <3>2, KeyIs DEF Has
      <4>2. MatchOut(d.staking[j], c)
        BY <2>2, <4>1 DEF Match, MatchCandidate, MatchLocked, MatchLeaving, MatchReported
      <4> QED
        BY <2>2, <4>1, <4>2 DEF MatchOut, NORMAL, PUNISHED, REPORTED
    <3>3. CASE j # Key(n, c.sbn)
      <4>1. j[2] < c.sbn /\ Dead(d.staking[j]) /\ d.staking[j].exc # REPORTED
        BY <3>1, <3>3 DEF Has
      <4>2. j[2] \in Nat /\ c.sbn \in Nat
        BY <3>1 DEF TableOK, Has, Key
      <4> QED
        BY <2>2, <4>1, <4>2
    <3> QED
      BY <3>2, <3>3
  <2> QED
    BY <2>1, <2>2
<1>6. n \in DOMAIN d.node => d.node[n].row.locked = 0 /\ d.node[n].row.reduction = 0
  <2> SUFFICES ASSUME n \in DOMAIN d.node PROVE d.node[n].row.locked = 0 /\ d.node[n].row.reduction = 0
    OBVIOUS
  <2>1. CASE Has(d, n, new)
    BY <1>2, <2>1 DEF Has, Copies, Match, MatchCandidate, MatchLocked, MatchLeaving, MatchReported, MatchOut
  <2>2. CASE Follows(d, n, c) /\ c.st = "out"
    <3>1. Has(d, n, c)
      BY <2>2 DEF Follows, Never
    <3> QED
      BY <2>2, <3>1 DEF Has, Copies, Match, MatchCandidate, MatchLocked, MatchLeaving, MatchReported, MatchOut,
        Dead
  <2> QED
    BY <2>1, <2>2
<1>7. Copies(q, r)
  <2>1. CASE n \notin DOMAIN d.node
    BY <2>1 DEF Copies, CreatedNodeRow
  <2>2. CASE n \in DOMAIN d.node
    <3> DEFINE old == d.node[n].row
    <3>1. q = [r EXCEPT !.locked = old.locked, !.reduction = old.reduction, !.thaw = old.thaw]
      BY <2>2 DEF CreatedNodeRow
    <3>2. old.locked = 0 /\ old.reduction = 0 /\ r.locked = 0 /\ r.reduction = 0
      BY <1>6, <2>2 DEF CreatedRow, NewRow
    <3> HIDE DEF old, r, q
    <3> QED
      BY <1>1, <3>1, <3>2 DEF Copies, Row
  <2> QED
    BY <2>1, <2>2
<1>8. /\ DOMAIN x.staking = DOMAIN d.staking \cup {k} /\ n \in DOMAIN x.node
      /\ \A j \in DOMAIN x.staking : x.staking[j] = IF j = k THEN r ELSE d.staking[j]
      /\ x.node[n].sbn = b /\ x.node[n].row = q
      /\ DOMAIN x.node = DOMAIN d.node \cup {n}
      /\ \A m \in DOMAIN x.node : m # n => x.node[m] = d.node[m]
  BY <1>1 DEF Created
<1> HIDE DEF k, r, q
<1>9. Has(x, n, new)
  <2>1. k = Key(n, new.sbn)
    BY <1>2 DEF k
  <2>2. \A j \in DOMAIN x.staking : j[1] = n /\ j # k =>
          j[2] < b /\ Dead(x.staking[j]) /\ x.staking[j].exc # REPORTED
    BY <1>5, <1>8
  <2>3. k \in DOMAIN x.staking /\ x.staking[k] = r
    BY <1>8
  <2>4. Match(r, new)
    BY <1>3 DEF Match
  <2> QED
    BY <1>2, <1>7, <1>8, <2>1, <2>2, <2>3, <2>4, Zenon DEF Has
<1>10. Keeps(d, x, n)
  <2>1. ~(k \in DOMAIN d.staking /\ d.staking[k].status = EXITED)
    <3>1. CASE Has(d, n, new)
      BY <1>2, <3>1 DEF Has, Match, MatchCandidate, MatchLocked, MatchLeaving, MatchReported, MatchOut,
        k, CANDIDATE, EXITED
    <3>2. CASE Follows(d, n, c) /\ c.sbn < b
      <4> SUFFICES ASSUME k \in DOMAIN d.staking PROVE FALSE
        OBVIOUS
      <4>1. Has(d, n, c)
        BY <1>4, <3>2, HasSome
      <4>2. c.sbn \in Nat
        BY <4>1 DEF TableOK, Has, Key
      <4>3. k # Key(n, c.sbn)
        BY <1>4, <3>2, <4>2, KeyIs
      <4>4. k[2] < c.sbn
        BY <1>4, <4>1, <4>3 DEF Has
      <4> QED
        BY <1>4, <3>2, <4>2, <4>4
    <3> QED
      BY <3>1, <3>2
  <2> QED
    BY <1>8, <2>1 DEF Keeps
<1>11. ~Waiting(x, n, new)
  <2>1. k = Key(n, new.sbn) /\ x.staking[k] = r
    BY <1>2, <1>8 DEF k
  <2> QED
    BY <1>3, <2>1 DEF Waiting, MatchCandidate, NORMAL, REPORTED
<1>12. \A m : m # n => SameOf(d, x, m)
  <2> SUFFICES ASSUME NEW m, m # n PROVE SameOf(d, x, m)
    OBVIOUS
  <2>1. \A j : j[1] = m => j # k
    BY <1>4
  <2> QED
    BY <1>8, <2>1 DEF SameOf
<1>13. TableOK(x)
  <2>2. q \in Row
    BY CreatedTyped DEF q
  <2>3. k \in Nodes \X Nat
    BY DEF k, Key
  <2>4. IsFiniteSet(DOMAIN x.staking)
    BY <1>8, FS_AddElement DEF TableOK
  <2>5. \A m \in DOMAIN x.node : DOMAIN x.node[m] = {"sbn", "row"} /\ x.node[m].row \in Row
    <3> TAKE m \in DOMAIN x.node
    <3>1. CASE m = n
      BY <1>1, <1>8, <2>2, <3>1 DEF Created
    <3>2. CASE m # n
      BY <1>8, <3>2 DEF TableOK
    <3> QED
      BY <3>1, <3>2
  <2> QED
    BY <1>1, <1>8, <2>2, <2>3, <2>4, <2>5 DEF TableOK, Created
<1> QED
  BY <1>9, <1>10, <1>11, <1>12, <1>13

\* Handled as often as it is listed.
LEMMA CreateMoves ==
  ASSUME NEW d, TableOK(d), NEW b \in Nat, b = block.num, NEW tx, tx.type = "create", tx.node \in Nodes,
         tx.amount \in Nat, NEW n, n = tx.node, NEW new, NEW c, new = Apply(c, tx, b),
         Follows(d, n, c), c.st = "out", c.sbn < b,
         NEW m \in Nat \ {0}, NEW seq, seq = [i \in 1..m |-> tx], NEW x, x = FoldLeft(Handle, d, seq)
  PROVE  /\ Follows(x, n, new) /\ Keeps(d, x, n) /\ ~Waiting(x, n, new)
         /\ \A j : j # n => SameOf(d, x, j)
<1>1. seq \in Seq({tx}) /\ Len(seq) = m /\ \A i \in 1..m : seq[i] = tx
  OBVIOUS
<1>2. x = FoldOf("handle", d, seq, 0)
  BY HandleFold
<1>3. \A s \in Seq({tx}) : \E after : Steps(after, "handle", d, s, 0) /\ FoldOf("handle", d, s, 0) = after[Len(s)]
  <2> TAKE s \in Seq({tx})
  <2> QED
    BY FoldSteps
<1>4. PICK after : Steps(after, "handle", d, seq, 0) /\ FoldOf("handle", d, seq, 0) = after[Len(seq)]
  BY <1>1, <1>3
<1>5. /\ after[0] = d /\ x = after[m]
      /\ \A i \in 1..m : after[i] = Create(after[i - 1], tx)
  BY <1>1, <1>2, <1>4 DEF Steps, Do, Handle
<1> DEFINE Good(y) == /\ TableOK(y) /\ Has(y, n, new) /\ Keeps(d, y, n) /\ ~Waiting(y, n, new)
                      /\ \A j : j # n => SameOf(d, y, j)
           N == {i \in Nat : i # 0 /\ i =< m => Good(after[i])}
<1>6. 0 \in N
  OBVIOUS
<1>7. ASSUME NEW i \in Nat, i \in N PROVE i + 1 \in N
  <2> SUFFICES ASSUME i + 1 =< m PROVE Good(after[i + 1])
    OBVIOUS
  <2> DEFINE y == after[i]
             z == after[i + 1]
  <2>1. z = Create(y, tx)
    <3>1. i + 1 \in 1..m /\ (i + 1) - 1 = i
      OBVIOUS
    <3> QED
      BY <1>5, <3>1
  <2>2. \/ y = d
        \/ Good(y)
    BY <1>5, <1>7
  <2>3. TableOK(y) /\ Keeps(d, y, n) /\ (\A j : j # n => SameOf(d, y, j))
    BY <2>2, SameSelf DEF Keeps
  <2>4. (Follows(y, n, c) /\ c.st = "out" /\ c.sbn < b) \/ Has(y, n, new)
    BY <2>2
  <2> HIDE DEF y, z
  <2>5. /\ TableOK(z) /\ Has(z, n, new) /\ Keeps(y, z, n) /\ ~Waiting(z, n, new)
        /\ \A j : j # n => SameOf(y, z, j)
    BY <2>1, <2>3, <2>4, CreateOnce
  <2>6. Keeps(d, z, n)
    BY <2>3, <2>5, KeepsTrans
  <2>7. \A j : j # n => SameOf(d, z, j)
    BY <2>3, <2>5, SameTrans
  <2> QED
    BY <2>5, <2>6, <2>7 DEF z
<1> HIDE DEF N
<1>8. m \in N
  BY <1>6, <1>7, NatSet, Zenon
<1>9. Good(x)
  BY <1>5, <1>8 DEF N
<1> QED
  BY <1>9 DEF Follows

\* An election penalises one node at the most.
LEMMA ElectionMoves ==
  ASSUME NEW d, TableOK(d), block.num \in Nat, NEW C \in [Nodes -> Rec], block.low \subseteq Nodes,
         \A m, n \in block.low : m = n,
         \A n \in Nodes : Follows(d, n, C[n]),
         \A n \in block.low : C[n].st \in {"candidate", "leaving"} /\ C[n].reported = 0,
         NEW f \in SetToSeqs(LowRows(d) \ Exits(d)), NEW g \in SetToSeqs(Exits(d)),
         NEW x, x = SlashLow(d, f, g)
  PROVE  \A n \in Nodes : IF n \in block.low THEN Moves(d, x, n, C[n], Penalise(C[n], Epoch(block.num)))
                                             ELSE SameOf(d, x, n)
<1>1. CASE block.low = {}
  <2>1. LowRows(d) = {} /\ Exits(d) = {}
    BY <1>1 DEF LowRows, Exits
  <2> DEFINE L == LowRows(d) \ Exits(d)
             E == Exits(d)
             d1 == FoldOf("lock", d, f, 0)
             end == ElectionEnd(d, g)
  <2>2. L = {} /\ E = {} /\ f \in SetToSeqs(L) /\ g \in SetToSeqs(E)
    BY <2>1
  <2>3. x = FoldOf("exit", d1, g, end)
    BY SlashLowIs
  <2>4. d1 = d
    <3> HIDE DEF L
    <3> QED
      BY <2>2, NoneDone
  <2> HIDE DEF d1, end, E
  <2>5. x = d1
    BY <2>2, <2>3, NoneDone
  <2> QED
    BY <1>1, <2>4, <2>5, SameSelf
<1>2. CASE block.low # {}
  <2>1. PICK m : block.low = {m} /\ m \in Nodes
    BY <1>2
  <2> DEFINE c == C[m]
  <2>2. c \in Rec /\ Follows(d, m, c) /\ c.st \in {"candidate", "leaving"} /\ c.reported = 0
    BY <2>1
  <2> HIDE DEF c
  <2>3. Moves(d, x, m, c, Penalise(c, Epoch(block.num))) /\ \A n : n # m => SameOf(d, x, n)
    BY <2>1, <2>2, SlashLowMoves
  <2> QED
    BY <2>1, <2>3 DEF c
<1> QED
  BY <1>1, <1>2

-----------------------------------------------------------------------------
(* The chain's record of a node, block by block *)

\* What the code survives: no fault while a report is in the block or waits, no
\* exception in a block with an increase or an exit, reports of candidates only, and
\* one node at the most that falls short at an election.
Survivable ==
  /\ FaultsAnywhere = FALSE /\ Reportable \subseteq {"candidate"} /\ MaxSlashed =< 1

\* What holds of the record c after block b.
Sane(c, b) ==
  /\ c.sbn =< b /\ c.reported =< b
  /\ c.st \in {"candidate", "locked"} =>
       /\ c.reported = 0 /\ c.hes + c.locked >= Threshold
       /\ c.locked > 0 \/ Epoch(c.sbn) = Epoch(b)
  /\ c.st = "leaving" /\ c.reported > 0 => c.until = Epoch(c.reported) + UnStakeFreeze

\* There is no election in what is left of the consensus period of b.
NoMore(b) ==
  \A x \in (b + 1)..(ConsensusRound(b) * ConsensusPeriod) : (x + ElectionBackward) % ConsensusPeriod # 0

\* A reported node, with validators V and E elected for the next period, validates
\* for one more period at the most; a locked one until the end of this period, whose
\* election is over, and so no election finds it among the validators.
InTime(n, c, V, E, b) ==
  /\ c.reported > 0 =>
       /\ n \in V => ConsensusRound(b) =< ConsensusRound(c.reported) + 1
       /\ n \in E => \A x \in c.reported..b : (x + ElectionBackward) % ConsensusPeriod # 0
  /\ c.st = "locked" => n \notin E /\ (n \in V => NoMore(b))

\* The record c of n after the steps of block B, in the order of the handlers.
PenalisedBy(B, n, c) == IF n \in B.low THEN Penalise(c, Epoch(B.num)) ELSE c
ThawedBy(B, n, c) ==
  IF OpensSettle(B.num) THEN Thaw(PenalisedBy(B, n, c), Epoch(B.num)) ELSE PenalisedBy(B, n, c)
AppliedBy(B, n, c) ==
  IF B.tx # NoTx /\ B.tx.node = n THEN Apply(ThawedBy(B, n, c), B.tx, B.num) ELSE ThawedBy(B, n, c)

\* Block B does to n, of which the chain has c, what the chain allows.
Allowed(B, V, n, c) ==
  /\ Sane(c, B.num - 1) /\ Sane(ThawedBy(B, n, c), B.num)
  /\ n \in B.low => Elects(B.num) /\ c.st \in {"candidate", "leaving"} /\ c.reported = 0
  /\ B.num = 1 => Thaw(c, Epoch(1)) = c
  /\ c.reported > 0 /\ n \in V => ConsensusRound(B.num) =< ConsensusRound(c.reported) + 1
  /\ B.tx # NoTx /\ B.tx.node = n =>
       IF B.tx.type = "create" THEN ThawedBy(B, n, c).st = "out" /\ B.tx.amount >= Threshold
       ELSE ThawedBy(B, n, c).st = "candidate" /\ (B.tx.type = "report" => B.tx.sbn = c.sbn)

LEMMA SaneStays ==
  ASSUME NEW b \in Nat \ {0}, NEW c \in Rec, Sane(c, b - 1), ~OpensSettle(b)
  PROVE  Sane(c, b)
<1>1. Epoch(b) = Epoch(b - 1) /\ c.sbn \in Nat /\ c.reported \in Nat
  BY NextEpoch, RecFields
<1> QED
  BY <1>1 DEF Sane

LEMMA SaneThaws ==
  ASSUME NEW b \in Nat \ {0}, NEW c \in Rec, Sane(c, b - 1)
  PROVE  Sane(Thaw(c, Epoch(b)), b)
<1> DEFINE e == Epoch(b)
           x == Thaw(c, e)
<1>1. c.sbn \in Nat /\ c.reported \in Nat /\ c.hes \in Nat /\ c.locked \in Nat /\ Threshold \in Nat
      /\ Threshold > 0
  BY RecFields, Bounds, PeriodAssumption
<1>2. x.sbn = c.sbn /\ x.reported = c.reported
  BY ThawTyped
<1>3. CASE c.st = "leaving" /\ c.until < e
  <2>1. x = [c EXCEPT !.st = "out", !.locked = 0]
    BY <1>3 DEF Thaw
  <2>2. x.st = "out"
    BY <2>1 DEF Rec
  <2> HIDE DEF x, e
  <2> QED
    BY <1>1, <1>2, <2>2 DEF Sane, x, e
<1>4. CASE ~(c.st = "leaving" /\ c.until < e)
  <2> DEFINE st == IF c.st = "locked" /\ c.until < e THEN "candidate" ELSE c.st
  <2>1. x = [c EXCEPT !.st = st, !.locked = @ + c.hes, !.hes = 0]
    <3>1. CASE c.st = "locked" /\ c.until < e
      BY <1>4, <3>1 DEF Thaw
    <3>2. CASE ~(c.st = "locked" /\ c.until < e)
      <4>1. x = [c EXCEPT !.locked = @ + c.hes, !.hes = 0]
        BY <1>4, <3>2 DEF Thaw
      <4>2. [c EXCEPT !.st = st, !.locked = @ + c.hes, !.hes = 0] = [c EXCEPT !.locked = @ + c.hes, !.hes = 0]
        BY <3>2 DEF Rec
      <4> QED
        BY <4>1, <4>2
    <3> QED
      BY <3>1, <3>2
  <2>2. x.st = st /\ x.locked = c.locked + c.hes /\ x.hes = 0 /\ x.until = c.until
    BY <2>1 DEF Rec
  <2>3. st \in {"candidate", "locked"} <=> c.st \in {"candidate", "locked"}
    OBVIOUS
  <2>4. st = "leaving" <=> c.st = "leaving"
    OBVIOUS
  <2> HIDE DEF x, e, st
  <2>5. x.st \in {"candidate", "locked"} => x.reported = 0 /\ x.hes + x.locked >= Threshold /\ x.locked > 0
    <3> SUFFICES ASSUME x.st \in {"candidate", "locked"}
                 PROVE  x.reported = 0 /\ x.hes + x.locked >= Threshold /\ x.locked > 0
      OBVIOUS
    <3>1. c.reported = 0 /\ c.hes + c.locked >= Threshold
      BY <2>2, <2>3 DEF Sane
    <3> QED
      BY <1>1, <1>2, <2>2, <3>1
  <2>6. x.st = "leaving" /\ x.reported > 0 => x.until = Epoch(x.reported) + UnStakeFreeze
    BY <1>2, <2>2, <2>4 DEF Sane
  <2>7. x.sbn =< b /\ x.reported =< b
    BY <1>1, <1>2 DEF Sane
  <2> QED
    BY <2>5, <2>6, <2>7 DEF Sane, x, e
<1> QED
  BY <1>3, <1>4

LEMMA SanePenalised ==
  ASSUME NEW b \in Nat, NEW c \in Rec, Sane(c, b), c.st \in {"candidate", "leaving"}, c.reported = 0,
         NEW e \in Nat
  PROVE  Sane(Penalise(c, e), b)
<1> DEFINE x == Penalise(c, e)
           left == c.hes + c.locked - Penalty
<1>1. c.sbn \in Nat /\ c.hes \in Nat /\ c.locked \in Nat /\ Threshold \in Nat /\ Penalty \in Nat
      /\ Threshold > 0
  BY RecFields, Bounds, PeriodAssumption
<1>2. x.sbn = c.sbn /\ x.reported = 0
  BY PenaliseTyped
<1>3. CASE c.st = "leaving"
  <2>1. x = [c EXCEPT !.locked = Least0(@ - Penalty)]
    BY <1>3 DEF Penalise
  <2>2. x.st = "leaving"
    BY <1>3, <2>1 DEF Rec
  <2> HIDE DEF x
  <2> QED
    BY <1>1, <1>2, <2>2 DEF Sane, x
<1>4. CASE c.st = "candidate" /\ left < Threshold
  <2>1. x = [c EXCEPT !.st = "leaving", !.locked = Least0(left), !.hes = 0, !.until = e + UnStakeFreeze]
    BY <1>4 DEF Penalise
  <2>2. x.st = "leaving"
    BY <2>1 DEF Rec
  <2> HIDE DEF x
  <2> QED
    BY <1>1, <1>2, <2>2 DEF Sane, x
<1>5. CASE c.st = "candidate" /\ ~(left < Threshold)
  <2>1. x = [c EXCEPT !.st = "locked", !.hes = Least0(@ - Penalty),
                      !.locked = @ - Least0(Penalty - c.hes), !.until = e + ZeroProduceFreeze]
    BY <1>5 DEF Penalise
  <2>2. x.st = "locked" /\ x.hes = Least0(c.hes - Penalty) /\ x.locked = c.locked - Least0(Penalty - c.hes)
    BY <2>1 DEF Rec
  <2>3. left >= Threshold /\ left \in Int
    BY <1>1, <1>5
  <2>4. c.locked > 0 \/ Epoch(c.sbn) = Epoch(b)
    BY <1>5 DEF Sane
  <2> HIDE DEF x
  <2>5. CASE c.hes >= Penalty
    <3>1. c.hes - Penalty \in Int /\ Penalty - c.hes \in Int /\ c.hes - Penalty >= 0 /\ Penalty - c.hes =< 0
      BY <1>1, <2>5
    <3>2. Least0(c.hes - Penalty) = c.hes - Penalty /\ Least0(Penalty - c.hes) = 0
      BY <3>1, Least0Nat
    <3>3. x.hes + x.locked >= Threshold /\ (x.locked > 0 \/ Epoch(c.sbn) = Epoch(b))
      BY <1>1, <2>2, <2>3, <2>4, <3>2
    <3> QED
      BY <1>1, <1>2, <2>2, <3>3 DEF Sane, x
  <2>6. CASE ~(c.hes >= Penalty)
    <3>1. c.hes - Penalty \in Int /\ Penalty - c.hes \in Int /\ c.hes - Penalty =< 0 /\ Penalty - c.hes >= 0
      BY <1>1, <2>6
    <3>2. Least0(c.hes - Penalty) = 0 /\ Least0(Penalty - c.hes) = Penalty - c.hes
      BY <3>1, Least0Nat
    <3>3. x.hes = 0 /\ x.locked = left
      BY <1>1, <2>2, <3>2
    <3> HIDE DEF left
    <3>4. x.hes + x.locked >= Threshold /\ x.locked > 0
      BY <1>1, <2>3, <3>3
    <3> QED
      BY <1>1, <1>2, <2>2, <3>4 DEF Sane, x
  <2> QED
    BY <2>5, <2>6
<1> QED
  BY <1>3, <1>4, <1>5

\* A transaction that is accepted when the reportable nodes are candidates.
LEMMA SaneApplied ==
  ASSUME NEW b \in Nat \ {0}, NEW c \in Rec, Sane(c, b), NEW tx \in Txns, tx # NoTx,
         IF tx.type = "create" THEN c.st = "out" /\ tx.amount >= Threshold ELSE c.st = "candidate",
         NEW x, x = Apply(c, tx, b)
  PROVE  /\ Sane(x, b)
         /\ x.reported = (IF tx.type = "create" THEN 0 ELSE IF tx.type = "report" THEN b ELSE c.reported)
<1> DEFINE e == Epoch(b)
<1>0. /\ c.sbn \in Nat /\ c.hes \in Nat /\ c.locked \in Nat /\ c.reported \in Nat /\ Threshold \in Nat
      /\ IncreaseAmount \in Nat /\ e \in Nat
  BY RecFields, Bounds, EpochNat
<1>1. CASE tx.type = "create"
  <2>1. x.st = "candidate" /\ x.sbn = b /\ x.hes = tx.amount /\ x.locked = 0 /\ x.reported = 0
    BY <1>1 DEF Apply, Out
  <2>2. tx.amount \in Nat /\ tx.amount >= Threshold
    BY <1>1, TxCases
  <2>3. x.hes + x.locked >= Threshold
    BY <1>0, <2>1, <2>2
  <2> QED
    BY <1>1, <2>1, <2>3 DEF Sane
<1>2. CASE tx.type # "create"
  <2>0. /\ c.st = "candidate" /\ c.reported = 0 /\ c.hes + c.locked >= Threshold /\ c.sbn =< b
        /\ c.locked > 0 \/ Epoch(c.sbn) = Epoch(b)
    BY <1>2 DEF Sane
  <2>1. CASE tx.type = "increase"
    <3>1. x = [c EXCEPT !.hes = @ + IncreaseAmount]
      BY <2>1 DEF Apply
    <3>2. x.st = c.st /\ x.sbn = c.sbn /\ x.hes = c.hes + IncreaseAmount /\ x.locked = c.locked
          /\ x.reported = c.reported
      BY <3>1 DEF Rec
    <3>3. x.hes + x.locked >= Threshold
      BY <1>0, <2>0, <3>2
    <3> QED
      BY <2>0, <2>1, <3>2, <3>3 DEF Sane
  <2>2. CASE tx.type = "exit"
    <3>1. \/ x = [c EXCEPT !.st = "leaving", !.hes = 0, !.until = e + UnStakeFreeze]
          \/ x = [c EXCEPT !.st = "out", !.hes = 0, !.locked = 0]
      BY <2>2 DEF Apply
    <3>2. x.st \in {"leaving", "out"} /\ x.sbn = c.sbn /\ x.reported = c.reported
      BY <3>1 DEF Rec
    <3> QED
      BY <2>0, <2>2, <3>2 DEF Sane
  <2>3. CASE tx.type = "report"
    <3>1. x = [c EXCEPT !.st = "leaving", !.reported = b, !.until = e + UnStakeFreeze]
      BY <2>0, <2>3 DEF Apply
    <3>2. x.st = "leaving" /\ x.sbn = c.sbn /\ x.reported = b /\ x.until = e + UnStakeFreeze
      BY <3>1 DEF Rec
    <3> QED
      BY <2>0, <2>3, <3>2 DEF Sane
  <2> QED
    BY <1>2, <2>1, <2>2, <2>3, TxCases
<1> QED
  BY <1>1, <1>2

-----------------------------------------------------------------------------
(* The invariant: the tables follow the chain at every place of the block *)

\* The record that the tables follow at place p of block B, c being the one before
\* the block.
At(p, B, n, c) ==
  IF p = "election" THEN c
  ELSE IF p \in {"consensus", "settle"} THEN PenalisedBy(B, n, c)
  ELSE IF p = "txs" THEN ThawedBy(B, n, c) ELSE AppliedBy(B, n, c)

\* A report waits since the last consensus switch, or its node validates.
Due(n, c) == n \in validators \/ ConsensusRound(c.reported) = ConsensusRound(block.num)
Timely(p, n, c) == (p \in {"election", "consensus"} /\ OpensConsensus(block.num)) \/ Due(n, c)

\* A report is in the block or the committed tables show it.
ReportSeen == block.tx.type = "report" \/ \E k \in DOMAIN saved.staking : saved.staking[k].exc = REPORTED

\* The tables d and the queues q at place p of the block in work.
Reached(p, d, q, C) ==
  \A n \in Nodes :
    /\ Follows(d, n, At(p, block, n, C[n])) /\ Keeps(saved, d, n)
    /\ q[n] = QueueOf(d, n, At(p, block, n, C[n]))
    /\ Waiting(d, n, At(p, block, n, C[n])) => Timely(p, n, At(p, block, n, C[n])) /\ ReportSeen

Underway(C) ==
  /\ C \in [Nodes -> Rec] /\ block.num # 0
  /\ \A m, n \in block.low : m = n
  /\ block.tx.type \notin {"none", "create"} => copies = 1
  /\ \A n \in Nodes : /\ Allowed(block, validators, n, C[n]) /\ chain[n] = AppliedBy(block, n, C[n])
                      /\ Follows(saved, n, C[n])

\* Between two blocks.
Rests ==
  db = saved /\ \A n \in Nodes : /\ Follows(saved, n, chain[n]) /\ reports[n] = QueueOf(saved, n, chain[n])
                                 /\ Waiting(saved, n, chain[n]) => Due(n, chain[n])

FollowInv ==
  /\ \A n \in Nodes : Sane(chain[n], block.num) /\ InTime(n, chain[n], validators, elected, block.num)
  /\ block.num = 0 => \A n \in Nodes : Thaw(chain[n], Epoch(1)) = chain[n]
  /\ IF pc = "idle" THEN Rests ELSE \E C : Underway(C) /\ Reached(pc, db, reports, C)

LEMMA SameMoves ==
  ASSUME NEW d, NEW x, NEW n, NEW c, SameOf(d, x, n), Follows(d, n, c)
  PROVE  Moves(d, x, n, c, c)
<1>1. Has(d, n, c) => Match(d.staking[Key(n, c.sbn)], c)
  BY DEF Has
<1> QED
  BY <1>1, MovesSame

LEMMA RecOfBlock ==
  ASSUME NEW B \in Block, NEW n \in Nodes, NEW c \in Rec
  PROVE  /\ PenalisedBy(B, n, c) \in Rec /\ PenalisedBy(B, n, c).sbn = c.sbn
         /\ PenalisedBy(B, n, c).reported = c.reported
         /\ ThawedBy(B, n, c) \in Rec /\ ThawedBy(B, n, c).sbn = c.sbn
         /\ ThawedBy(B, n, c).reported = c.reported
<1>1. Epoch(B.num) \in Nat
  BY EpochNat DEF Block
<1>2. /\ PenalisedBy(B, n, c) \in Rec /\ PenalisedBy(B, n, c).sbn = c.sbn
      /\ PenalisedBy(B, n, c).reported = c.reported
  BY <1>1, PenaliseTyped DEF PenalisedBy
<1> QED
  BY <1>2, ThawTyped DEF ThawedBy

\* One handler has done to each node what it had to.
LEMMA ReachedMoves ==
  ASSUME NEW p, NEW r, NEW d, NEW x, NEW q, NEW C, Reached(p, d, q, C),
         \A n \in Nodes : /\ Moves(d, x, n, At(p, block, n, C[n]), At(r, block, n, C[n]))
                          /\ Timely(p, n, At(p, block, n, C[n])) => Timely(r, n, At(r, block, n, C[n]))
  PROVE  Reached(r, x, q, C)
<1> SUFFICES ASSUME NEW n \in Nodes
             PROVE  /\ Follows(x, n, At(r, block, n, C[n])) /\ Keeps(saved, x, n)
                    /\ q[n] = QueueOf(x, n, At(r, block, n, C[n]))
                    /\ Waiting(x, n, At(r, block, n, C[n])) => Timely(r, n, At(r, block, n, C[n])) /\ ReportSeen
  BY DEF Reached
<1> DEFINE c == At(p, block, n, C[n])
           c2 == At(r, block, n, C[n])
<1>1. /\ Follows(d, n, c) /\ Keeps(saved, d, n) /\ q[n] = QueueOf(d, n, c)
      /\ Waiting(d, n, c) => Timely(p, n, c) /\ ReportSeen
  BY DEF Reached
<1>2. Moves(d, x, n, c, c2) /\ (Timely(p, n, c) => Timely(r, n, c2))
  OBVIOUS
<1> HIDE DEF c, c2
<1>3. Follows(x, n, c2) /\ Keeps(d, x, n) /\ (Waiting(x, n, c2) <=> Waiting(d, n, c))
      /\ c2.sbn = c.sbn /\ c2.reported = c.reported
  BY <1>2 DEF Moves
<1>4. Keeps(saved, x, n)
  BY <1>1, <1>3, KeepsTrans
<1>5. QueueOf(x, n, c2) = QueueOf(d, n, c)
  BY <1>3 DEF QueueOf
<1> QED
  BY <1>1, <1>2, <1>3, <1>4, <1>5 DEF c, c2

\* A step within the block.
LEMMA StaysUnderway ==
  ASSUME FollowInv, pc # "idle", pc' \in Places \ {"idle"}, UNCHANGED <<external, copies, saved>>,
         NEW C, Underway(C), Reached(pc', db', reports', C)
  PROVE  FollowInv'
<1>1. UNCHANGED <<chain, validators, elected, block, copies, saved>>
  BY DEF external
<1>2. Underway(C)'
  BY <1>1 DEF Underway
<1>3. Reached(pc, db, reports, C)'
  BY <1>1 DEF Reached, Timely, Due, ReportSeen
<1>4. (IF pc = "idle" THEN Rests ELSE \E D : Underway(D) /\ Reached(pc, db, reports, D))'
  BY <1>2, <1>3
<1>5. (\A n \in Nodes : Sane(chain[n], block.num) /\ InTime(n, chain[n], validators, elected, block.num))'
  BY <1>1 DEF FollowInv
<1>6. (block.num = 0 => \A n \in Nodes : Thaw(chain[n], Epoch(1)) = chain[n])'
  BY <1>1 DEF FollowInv
<1> QED
  BY <1>4, <1>5, <1>6 DEF FollowInv

LEMMA FollowsElection == TypeInv /\ FollowInv /\ Election => FollowInv'
<1> SUFFICES ASSUME TypeInv, FollowInv, Election PROVE FollowInv'
  OBVIOUS
<1>1. /\ pc = "election" /\ pc' = "consensus" /\ UNCHANGED <<external, copies, saved>> /\ reports' = reports
      /\ IF Elects(block.num)
         THEN \E locks \in SetToSeqs(LowRows(db) \ Exits(db)), exiting \in SetToSeqs(Exits(db)) :
                db' = SlashLow(db, locks, exiting)
         ELSE UNCHANGED db
  BY DEF Election
<1>2. PICK C : Underway(C) /\ Reached("election", db, reports, C)
  BY <1>1 DEF FollowInv
<1>3. TableOK(db) /\ block \in Block /\ block.num \in Nat /\ block.low \subseteq Nodes
  BY DEF TypeInv, Typed, Stored, Block
<1>4. \A n \in Nodes : /\ C[n] \in Rec /\ Follows(db, n, C[n])
                       /\ n \in block.low =>
                            Elects(block.num) /\ C[n].st \in {"candidate", "leaving"} /\ C[n].reported = 0
  BY <1>2 DEF Underway, Allowed, Reached, At
<1>5. \A n \in Nodes : Moves(db, db', n, C[n], PenalisedBy(block, n, C[n]))
  <2>1. CASE Elects(block.num)
    <3>1. PICK locks \in SetToSeqs(LowRows(db) \ Exits(db)) :
            \E exiting \in SetToSeqs(Exits(db)) : db' = SlashLow(db, locks, exiting)
      BY <1>1, <2>1
    <3>2. PICK exiting \in SetToSeqs(Exits(db)) : db' = SlashLow(db, locks, exiting)
      BY <3>1
    <3>3. /\ C \in [Nodes -> Rec] /\ \A m, n \in block.low : m = n
      BY <1>2 DEF Underway
    <3>4. \A n \in block.low : C[n].st \in {"candidate", "leaving"} /\ C[n].reported = 0
      BY <1>3, <1>4
    <3>5. \A n \in Nodes : IF n \in block.low THEN Moves(db, db', n, C[n], Penalise(C[n], Epoch(block.num)))
                                              ELSE SameOf(db, db', n)
      BY <1>3, <1>4, <3>2, <3>3, <3>4, ElectionMoves
    <3> TAKE n \in Nodes
    <3>6. CASE n \in block.low
      BY <3>5, <3>6 DEF PenalisedBy
    <3>7. CASE n \notin block.low
      <4>1. SameOf(db, db', n) /\ PenalisedBy(block, n, C[n]) = C[n]
        BY <3>5, <3>7 DEF PenalisedBy
      <4> QED
        BY <1>4, <4>1, SameMoves
    <3> QED
      BY <3>6, <3>7
  <2>2. CASE ~Elects(block.num)
    <3> TAKE n \in Nodes
    <3>1. n \notin block.low /\ db' = db
      BY <1>1, <1>4, <2>2
    <3>2. PenalisedBy(block, n, C[n]) = C[n] /\ SameOf(db, db', n)
      BY <3>1, SameSelf DEF PenalisedBy
    <3> QED
      BY <1>4, <3>2, SameMoves
  <2> QED
    BY <2>1, <2>2
<1>6. \A n \in Nodes : /\ Moves(db, db', n, At("election", block, n, C[n]), At("consensus", block, n, C[n]))
                       /\ Timely("election", n, At("election", block, n, C[n])) =>
                            Timely("consensus", n, At("consensus", block, n, C[n]))
  <2> TAKE n \in Nodes
  <2>1. At("election", block, n, C[n]) = C[n] /\ At("consensus", block, n, C[n]) = PenalisedBy(block, n, C[n])
    BY DEF At
  <2>2. PenalisedBy(block, n, C[n]).reported = C[n].reported
    BY <1>3, <1>4, RecOfBlock
  <2> QED
    BY <1>5, <2>1, <2>2 DEF Timely, Due
<1>7. Reached("consensus", db', reports, C)
  BY <1>2, <1>6, ReachedMoves
<1> QED
  BY <1>1, <1>2, <1>7, StaysUnderway DEF Places

LEMMA FollowsConsensus == TypeInv /\ FollowInv /\ Consensus => FollowInv'
<1> SUFFICES ASSUME TypeInv, FollowInv, Consensus PROVE FollowInv'
  OBVIOUS
<1>1. /\ pc = "consensus" /\ pc' = "settle" /\ UNCHANGED <<external, copies, saved>>
      /\ IF OpensConsensus(block.num)
         THEN /\ db' = FoldLeft(Slash, db, PendingOf(ToPunish(db)))
              /\ reports' = [n \in Nodes |-> IF n \in ToPunish(db) THEN <<>> ELSE reports[n]]
         ELSE UNCHANGED <<db, reports>>
  BY DEF Consensus
<1>2. PICK C : Underway(C) /\ Reached("consensus", db, reports, C)
  BY <1>1 DEF FollowInv
<1>3. /\ TableOK(db) /\ block \in Block /\ block.num \in Nat
      /\ reports \in [Nodes -> Seq(ReportsOn(DOMAIN saved.staking))]
      /\ DOMAIN saved.staking \subseteq DOMAIN db.staking
  BY DEF TypeInv, Typed, Stored, Block
<1> DEFINE D == [n \in Nodes |-> PenalisedBy(block, n, C[n])]
<1>4. D \in [Nodes -> Rec]
  <2>1. \A n \in Nodes : C[n] \in Rec
    BY <1>2 DEF Underway
  <2> QED
    BY <1>3, <2>1, RecOfBlock
<1>5. \A n \in Nodes : /\ Follows(db, n, D[n]) /\ reports[n] = QueueOf(db, n, D[n]) /\ Keeps(saved, db, n)
                       /\ Waiting(db, n, D[n]) => Timely("consensus", n, D[n]) /\ ReportSeen
  BY <1>2 DEF Reached, At
<1>6. \A n \in Nodes : At("settle", block, n, C[n]) = D[n]
  BY DEF At
<1> HIDE DEF D
<1>7. CASE OpensConsensus(block.num)
  <2>1. /\ db' = FoldLeft(Slash, db, PendingOf(ToPunish(db)))
        /\ reports' = [n \in Nodes |-> IF n \in ToPunish(db) THEN <<>> ELSE reports[n]]
    BY <1>1, <1>7
  <2>2. reports \in [Nodes -> Seq(ReportsOn(DOMAIN db.staking))]
    <3>1. ReportsOn(DOMAIN saved.staking) \subseteq ReportsOn(DOMAIN db.staking)
      BY <1>3 DEF ReportsOn
    <3>2. Seq(ReportsOn(DOMAIN saved.staking)) \subseteq Seq(ReportsOn(DOMAIN db.staking))
      BY <3>1
    <3> QED
      BY <1>3, <3>2
  <2>3. \A n \in Nodes :
          IF Waiting(db, n, D[n]) /\ n \notin validators
          THEN n \in ToPunish(db) /\ Follows(db', n, D[n]) /\ Keeps(db, db', n) /\ ~Waiting(db', n, D[n])
          ELSE n \notin ToPunish(db) /\ SameOf(db, db', n)
    BY <1>3, <1>4, <1>5, <2>1, <2>2, PunishMoves
  <2>4. Reached("settle", db', reports', C)
    <3> SUFFICES ASSUME NEW n \in Nodes
                 PROVE  /\ Follows(db', n, D[n]) /\ Keeps(saved, db', n) /\ reports'[n] = QueueOf(db', n, D[n])
                        /\ Waiting(db', n, D[n]) => Timely("settle", n, D[n]) /\ ReportSeen
      BY <1>6 DEF Reached
    <3>1. CASE Waiting(db, n, D[n]) /\ n \notin validators
      <4>1. n \in ToPunish(db) /\ Follows(db', n, D[n]) /\ Keeps(db, db', n) /\ ~Waiting(db', n, D[n])
        BY <2>3, <3>1
      <4>2. Keeps(saved, db', n)
        BY <1>5, <4>1, KeepsTrans
      <4>3. reports'[n] = <<>>
        BY <2>1, <4>1
      <4> QED
        BY <4>1, <4>2, <4>3 DEF QueueOf
    <3>2. CASE ~(Waiting(db, n, D[n]) /\ n \notin validators)
      <4>1. n \notin ToPunish(db) /\ SameOf(db, db', n)
        BY <2>3, <3>2
      <4>2. Follows(db', n, D[n]) /\ Keeps(db, db', n) /\ (Waiting(db', n, D[n]) <=> Waiting(db, n, D[n]))
        BY <1>5, <4>1, FollowsSame, KeepsSame, WaitingSame
      <4>3. Keeps(saved, db', n)
        BY <1>5, <4>2, KeepsTrans
      <4>4. reports'[n] = QueueOf(db', n, D[n])
        BY <1>5, <2>1, <4>1, <4>2 DEF QueueOf
      <4>5. Waiting(db', n, D[n]) => Timely("settle", n, D[n]) /\ ReportSeen
        BY <1>5, <3>2, <4>2 DEF Timely, Due
      <4> QED
        BY <4>2, <4>3, <4>4, <4>5
    <3> QED
      BY <3>1, <3>2
  <2> QED
    BY <1>1, <1>2, <2>4, StaysUnderway DEF Places
<1>8. CASE ~OpensConsensus(block.num)
  <2>1. db' = db /\ reports' = reports
    BY <1>1, <1>8
  <2>2. Reached("settle", db, reports, C)
    BY <1>5, <1>6, <1>8 DEF Reached, Timely
  <2>3. Reached("settle", db', reports', C)
    BY <2>1, <2>2
  <2> QED
    BY <1>1, <1>2, <2>3, StaysUnderway DEF Places
<1> QED
  BY <1>7, <1>8

LEMMA FollowsSettle == TypeInv /\ FollowInv /\ Settle => FollowInv'
<1> SUFFICES ASSUME TypeInv, FollowInv, Settle PROVE FollowInv'
  OBVIOUS
<1>1. /\ pc = "settle" /\ pc' = "txs" /\ UNCHANGED <<external, copies, saved>> /\ reports' = reports
      /\ IF OpensSettle(block.num) /\ block.num > 1
         THEN \E order \in SetToSeqs(Unsettled(db)) : db' = FoldLeft(SettleRow, db, order)
         ELSE UNCHANGED db
  BY DEF Settle
<1>2. PICK C : Underway(C) /\ Reached("settle", db, reports, C)
  BY <1>1 DEF FollowInv
<1> DEFINE b == block.num
           D == [n \in Nodes |-> PenalisedBy(block, n, C[n])]
<1>3. TableOK(db) /\ block \in Block /\ b \in Nat \ {0}
  BY <1>2 DEF TypeInv, Typed, Stored, Block, Underway
<1>4. \A n \in Nodes : C[n] \in Rec /\ Allowed(block, validators, n, C[n])
  BY <1>2 DEF Underway
<1>5. D \in [Nodes -> Rec] /\ \A n \in Nodes : D[n].reported = C[n].reported
  BY <1>3, <1>4, RecOfBlock
<1>6. \A n \in Nodes : /\ Follows(db, n, D[n])
                       /\ Waiting(db, n, D[n]) => Due(n, D[n])
  BY <1>2 DEF Reached, At, Timely
<1>7. \A n \in Nodes : At("settle", block, n, C[n]) = D[n] /\ At("txs", block, n, C[n]) = ThawedBy(block, n, C[n])
  BY DEF At
<1>8. \A n \in Nodes : ThawedBy(block, n, C[n]) = IF OpensSettle(b) THEN Thaw(D[n], Epoch(b)) ELSE D[n]
  BY DEF ThawedBy
<1>9. \A n \in Nodes : D[n] = PenalisedBy(block, n, C[n])
  OBVIOUS
<1> HIDE DEF D
<1>10. \A n \in Nodes : Moves(db, db', n, D[n], ThawedBy(block, n, C[n]))
  <2>1. CASE OpensSettle(b) /\ b > 1
    <3>1. PICK order \in SetToSeqs(Unsettled(db)) : db' = FoldLeft(SettleRow, db, order)
      BY <1>1, <2>1
    <3>2. \A n \in Nodes : Waiting(db, n, D[n]) => ~(D[n].until < Epoch(b))
      <4> SUFFICES ASSUME NEW n \in Nodes, Waiting(db, n, D[n]) PROVE ~(D[n].until < Epoch(b))
        OBVIOUS
      <4> DEFINE c == D[n]
                 a == c.reported
      <4>1. c.st = "leaving" /\ a > 0
        BY <1>6, WaitingIs DEF MatchReported
      <4>2. n \notin block.low
        BY <1>4, <1>5, <4>1 DEF Allowed
      <4>3. c = C[n]
        BY <1>9, <4>2 DEF PenalisedBy
      <4>4. c.until = Epoch(a) + UnStakeFreeze /\ a \in Nat /\ c.until \in Nat
        BY <1>4, <4>1, <4>3, RecFields DEF Allowed, Sane
      <4>5. ConsensusRound(b) =< ConsensusRound(a) + 1
        <5>1. ConsensusRound(a) \in Nat /\ ConsensusRound(b) \in Nat
          BY <1>3, <4>4, EpochIs
        <5>2. CASE n \in validators
          BY <1>4, <4>1, <4>3, <5>2 DEF Allowed
        <5>3. CASE ConsensusRound(a) = ConsensusRound(b)
          BY <5>1, <5>3
        <5> QED
          BY <1>6, <5>2, <5>3 DEF Due
      <4> HIDE DEF a, b
      <4>6. Epoch(b) =< Epoch(a) + UnStakeFreeze /\ Epoch(b) \in Nat
        BY <1>3, <4>4, <4>5, FreezeLasts, EpochIs
      <4> HIDE DEF c
      <4>7. ~(c.until < Epoch(b))
        BY <4>4, <4>6
      <4> QED
        BY <4>7 DEF c
    <3>3. \A n \in Nodes : Moves(db, db', n, D[n], Thaw(D[n], Epoch(b)))
      BY <1>3, <1>5, <1>6, <2>1, <3>1, <3>2, SettleMoves
    <3> QED
      BY <1>8, <2>1, <3>3
  <2>2. CASE ~(OpensSettle(b) /\ b > 1)
    <3>1. db' = db
      BY <1>1, <2>2
    <3> TAKE n \in Nodes
    <3>2. ThawedBy(block, n, C[n]) = D[n]
      <4>1. CASE ~OpensSettle(b)
        BY <1>8, <4>1
      <4>2. CASE OpensSettle(b)
        <5>1. b = 1
          BY <1>3, <2>2, <4>2
        <5>2. n \notin block.low
          BY <1>3, <1>4, <4>2, ElectsApart DEF Allowed
        <5>3. D[n] = C[n]
          BY <1>9, <5>2 DEF PenalisedBy
        <5>4. Thaw(C[n], Epoch(1)) = C[n]
          BY <1>4, <5>1 DEF Allowed
        <5> QED
          BY <1>8, <4>2, <5>1, <5>3, <5>4
      <4> QED
        BY <4>1, <4>2
    <3> QED
      BY <1>6, <3>1, <3>2, SameSelf, SameMoves
  <2> QED
    BY <2>1, <2>2
<1>11. \A n \in Nodes : /\ Moves(db, db', n, At("settle", block, n, C[n]), At("txs", block, n, C[n]))
                        /\ Timely("settle", n, At("settle", block, n, C[n])) =>
                             Timely("txs", n, At("txs", block, n, C[n]))
  <2> TAKE n \in Nodes
  <2>1. ThawedBy(block, n, C[n]).reported = D[n].reported
    BY <1>3, <1>4, <1>5, RecOfBlock
  <2> QED
    BY <1>7, <1>10, <2>1 DEF Timely, Due
<1>12. Reached("txs", db', reports, C)
  BY <1>2, <1>11, ReachedMoves
<1> QED
  BY <1>1, <1>2, <1>12, StaysUnderway DEF Places

LEMMA FollowsTxs == TypeInv /\ FollowInv /\ Txs => FollowInv'
<1> SUFFICES ASSUME TypeInv, FollowInv, Txs PROVE FollowInv'
  OBVIOUS
<1> DEFINE b == block.num
           tx == block.tx
           listed == [i \in 1..copies |-> tx]
<1>1. /\ pc = "txs" /\ pc' = "commit" /\ UNCHANGED <<external, copies, saved>>
      /\ db' = IF tx = NoTx THEN db ELSE FoldLeft(Handle, db, listed)
      /\ reports' = IF tx.type = "report"
                    THEN [reports EXCEPT ![tx.node] = @ \o [i \in 1..copies |-> ReportOf(tx)]]
                    ELSE reports
  BY DEF Txs
<1>2. PICK C : Underway(C) /\ Reached("txs", db, reports, C)
  BY <1>1 DEF FollowInv
<1> DEFINE c(n) == ThawedBy(block, n, C[n])
           new(n) == AppliedBy(block, n, C[n])
<1>3. /\ TableOK(db) /\ block \in Block /\ b \in Nat \ {0} /\ tx \in Txns /\ copies \in Nat \ {0}
      /\ reports \in [Nodes -> Seq(ReportsOn(DOMAIN saved.staking))] /\ chain \in [Nodes -> Rec]
  BY <1>1, <1>2 DEF TypeInv, Typed, Stored, Block, Underway
<1>4. \A n \in Nodes : /\ C[n] \in Rec /\ Allowed(block, validators, n, C[n]) /\ chain[n] = new(n)
                       /\ c(n) \in Rec /\ c(n).sbn = C[n].sbn /\ Sane(c(n), b)
  BY <1>2, <1>3, RecOfBlock DEF Underway, Allowed
<1>5. \A n \in Nodes : /\ Follows(db, n, c(n)) /\ Keeps(saved, db, n) /\ reports[n] = QueueOf(db, n, c(n))
                       /\ Waiting(db, n, c(n)) => Due(n, c(n)) /\ ReportSeen
  BY <1>2 DEF Reached, At, Timely
<1>6. \A n \in Nodes : tx # NoTx /\ tx.node = n =>
        /\ new(n) = Apply(c(n), tx, b)
        /\ IF tx.type = "create" THEN c(n).st = "out" /\ tx.amount >= Threshold
           ELSE c(n).st = "candidate" /\ (tx.type = "report" => tx.sbn = c(n).sbn)
  BY <1>4 DEF Allowed, AppliedBy
<1>7. \A n \in Nodes : ~(tx # NoTx /\ tx.node = n) => new(n) = c(n)
  BY DEF AppliedBy
<1>8. \A n \in Nodes : At("commit", block, n, C[n]) = new(n)
  BY DEF At
<1> DEFINE Done(n) == /\ Follows(db', n, new(n)) /\ Keeps(saved, db', n)
                      /\ reports'[n] = QueueOf(db', n, new(n))
                      /\ Waiting(db', n, new(n)) => Due(n, new(n)) /\ ReportSeen
<1> HIDE DEF c, new, listed, tx, b
<1>9. ASSUME NEW n \in Nodes, ~(tx # NoTx /\ tx.node = n), SameOf(db, db', n), reports'[n] = reports[n]
      PROVE  Done(n)
  <2>1. Follows(db', n, c(n)) /\ Keeps(db, db', n) /\ (Waiting(db', n, c(n)) <=> Waiting(db, n, c(n)))
    BY <1>5, <1>9, FollowsSame, KeepsSame, WaitingSame
  <2>2. Keeps(saved, db', n)
    BY <1>5, <2>1, KeepsTrans
  <2>3. QueueOf(db', n, c(n)) = QueueOf(db, n, c(n))
    BY <2>1 DEF QueueOf
  <2> QED
    BY <1>5, <1>7, <1>9, <2>1, <2>2, <2>3
<1>10. ASSUME NEW n \in Nodes, Moves(db, db', n, c(n), new(n)), reports'[n] = reports[n]
       PROVE  Done(n)
  <2>1. /\ Follows(db', n, new(n)) /\ Keeps(db, db', n) /\ (Waiting(db', n, new(n)) <=> Waiting(db, n, c(n)))
        /\ new(n).sbn = c(n).sbn /\ new(n).reported = c(n).reported
    BY <1>10 DEF Moves
  <2>2. Keeps(saved, db', n)
    BY <1>5, <2>1, KeepsTrans
  <2>3. QueueOf(db', n, new(n)) = QueueOf(db, n, c(n))
    BY <2>1 DEF QueueOf
  <2>4. Due(n, c(n)) => Due(n, new(n))
    BY <2>1 DEF Due
  <2> QED
    BY <1>5, <1>10, <2>1, <2>2, <2>3, <2>4
<1>11. CASE tx = NoTx
  <2>1. tx.type = "none" /\ db' = db /\ reports' = reports
    BY <1>1, <1>11 DEF NoTx
  <2> QED
    <3> SUFFICES ASSUME NEW n \in Nodes PROVE Done(n)
      BY <1>1, <1>2, <1>8, StaysUnderway DEF Places, Reached, Timely
    <3> QED
      BY <1>9, <1>11, <2>1, SameSelf
<1>12. CASE tx # NoTx /\ tx.type \in {"increase", "exit"}
  <2> DEFINE m == tx.node
  <2>1. m \in Nodes /\ tx.type # "report" /\ tx.type # "create" /\ tx.type # "none"
    BY <1>3, <1>12, TxCases
  <2>2. copies = 1
    BY <1>2, <2>1 DEF Underway, tx
  <2>3. db' = Handle(db, tx) /\ reports' = reports
    <3>1. db' = FoldLeft(Handle, db, listed) /\ listed = [i \in 1..1 |-> tx]
      BY <1>1, <1>12, <2>2 DEF listed
    <3> QED
      BY <1>1, <2>1, <3>1, HandledOnce
  <2> HIDE DEF m
  <2>4. /\ c(m) \in Rec /\ Follows(db, m, c(m)) /\ c(m).st = "candidate" /\ Sane(c(m), b)
        /\ new(m) = Apply(c(m), tx, b) /\ chain[m] = new(m)
    BY <1>4, <1>5, <1>6, <1>12, <2>1 DEF m
  <2>5. new(m).sbn = c(m).sbn
    <3> DEFINE r == c(m)
    <3>1. \/ Apply(r, tx, b) = [r EXCEPT !.hes = @ + IncreaseAmount]
          \/ Apply(r, tx, b) = [r EXCEPT !.st = "leaving", !.hes = 0, !.until = Epoch(b) + UnStakeFreeze]
          \/ Apply(r, tx, b) = [r EXCEPT !.st = "out", !.hes = 0, !.locked = 0]
      BY <1>12 DEF Apply
    <3>2. r \in Rec
      BY <2>4
    <3> HIDE DEF r
    <3>3. Apply(r, tx, b).sbn = r.sbn
      BY <3>1, <3>2 DEF Rec
    <3> QED
      BY <2>4, <3>3 DEF r
  <2>6. c(m).reported = 0 /\ (c(m).locked > 0 \/ Epoch(c(m).sbn) = Epoch(b))
    BY <2>4 DEF Sane
  <2>7. Moves(db, db', m, c(m), new(m)) /\ \A n : n # m => SameOf(db, db', n)
    <3> DEFINE r == c(m)
    <3>1. /\ r \in Rec /\ Follows(db, m, r) /\ r.st = "candidate" /\ r.reported = 0
          /\ r.locked > 0 \/ Epoch(r.sbn) = Epoch(block.num)
          /\ chain[m].sbn = r.sbn /\ tx.node = m /\ m \in Nodes /\ tx.type \in {"increase", "exit"}
          /\ block.num \in Nat /\ TableOK(db) /\ db' = Handle(db, tx)
      BY <1>3, <1>12, <2>1, <2>3, <2>4, <2>5, <2>6 DEF b, m
    <3>2. new(m) = Apply(r, tx, block.num)
      BY <2>4 DEF b
    <3> HIDE DEF r
    <3>3. Moves(db, db', m, r, Apply(r, tx, block.num)) /\ \A n : n # m => SameOf(db, db', n)
      BY <3>1, ChangeMoves
    <3> QED
      BY <3>2, <3>3 DEF r
  <2> QED
    <3> SUFFICES ASSUME NEW n \in Nodes PROVE Done(n)
      BY <1>1, <1>2, <1>8, StaysUnderway DEF Places, Reached, Timely
    <3>1. CASE n = m
      BY <1>10, <2>3, <2>7, <3>1
    <3>2. CASE n # m
      BY <1>9, <2>3, <2>7, <3>2 DEF m
    <3> QED
      BY <3>1, <3>2
<1>13. CASE tx # NoTx /\ tx.type = "report"
  <2> DEFINE m == tx.node
             rep == ReportOf(tx)
  <2>1. m \in Nodes /\ tx.type # "create" /\ tx.type # "none"
    BY <1>3, <1>13, TxCases
  <2>2. copies = 1
    BY <1>2, <2>1 DEF Underway, tx
  <2>3. db' = Handle(db, tx) /\ reports' = [reports EXCEPT ![m] = @ \o [i \in 1..1 |-> rep]]
    <3>1. db' = FoldLeft(Handle, db, listed) /\ listed = [i \in 1..1 |-> tx]
      BY <1>1, <1>13, <2>2 DEF listed
    <3> QED
      BY <1>1, <1>13, <2>2, <3>1, HandledOnce
  <2> HIDE DEF m
  <2>4. /\ c(m) \in Rec /\ Follows(db, m, c(m)) /\ c(m).st = "candidate" /\ tx.sbn = c(m).sbn
        /\ new(m) = Apply(c(m), tx, b) /\ reports[m] = QueueOf(db, m, c(m))
    BY <1>4, <1>5, <1>6, <1>13, <2>1 DEF m
  <2>5. /\ Follows(db', m, new(m)) /\ Keeps(db, db', m) /\ ~Waiting(db, m, c(m)) /\ Waiting(db', m, new(m))
        /\ new(m).sbn = c(m).sbn /\ new(m).reported = b /\ \A n : n # m => SameOf(db, db', n)
    <3> DEFINE r == c(m)
    <3>1. /\ r \in Rec /\ Follows(db, m, r) /\ r.st = "candidate" /\ tx.sbn = r.sbn
          /\ tx.node = m /\ m \in Nodes /\ tx.type = "report" /\ b \in Nat \ {0} /\ b = block.num
          /\ TableOK(db) /\ db' = Handle(db, tx) /\ new(m) = Apply(r, tx, b)
      BY <1>3, <1>13, <2>1, <2>3, <2>4 DEF b, m
    <3> HIDE DEF r
    <3>2. /\ Follows(db', m, new(m)) /\ Keeps(db, db', m) /\ ~Waiting(db, m, r) /\ Waiting(db', m, new(m))
          /\ new(m).sbn = r.sbn /\ new(m).reported = b /\ \A n : n # m => SameOf(db, db', n)
      BY <3>1, ReportMoves
    <3> QED
      BY <3>2 DEF r
  <2>6. reports'[m] = QueueOf(db', m, new(m))
    <3>1. reports[m] = <<>>
      BY <2>4, <2>5 DEF QueueOf
    <3>2. reports'[m] = <<>> \o [i \in 1..1 |-> rep]
      BY <1>3, <2>1, <2>3, <3>1
    <3>3. <<>> \o [i \in 1..1 |-> rep] = <<rep>>
      OBVIOUS
    <3>4. rep = [node |-> m, sbn |-> new(m).sbn, hash |-> new(m).reported]
      BY <2>4, <2>5 DEF ReportOf, m, b
    <3> QED
      BY <2>5, <3>2, <3>3, <3>4 DEF QueueOf
  <2>7. Keeps(saved, db', m)
    BY <1>5, <2>1, <2>5, KeepsTrans
  <2>8. Due(m, new(m)) /\ ReportSeen
    BY <1>13, <2>5 DEF Due, ReportSeen, tx, b
  <2> QED
    <3> SUFFICES ASSUME NEW n \in Nodes PROVE Done(n)
      BY <1>1, <1>2, <1>8, StaysUnderway DEF Places, Reached, Timely
    <3>1. CASE n = m
      BY <2>5, <2>6, <2>7, <2>8, <3>1
    <3>2. CASE n # m
      <4>1. reports'[n] = reports[n]
        BY <1>3, <2>3, <3>2
      <4> QED
        BY <1>9, <2>5, <3>2, <4>1 DEF m
    <3> QED
      BY <3>1, <3>2
<1>14. CASE tx # NoTx /\ tx.type = "create"
  <2> DEFINE m == tx.node
  <2>1. m \in Nodes /\ tx.amount \in Nat
    BY <1>3, <1>14, TxCases
  <2>2. db' = FoldLeft(Handle, db, listed) /\ reports' = reports
    BY <1>1, <1>14
  <2> HIDE DEF m
  <2>3. /\ c(m) \in Rec /\ Follows(db, m, c(m)) /\ c(m).st = "out" /\ new(m) = Apply(c(m), tx, b)
        /\ reports[m] = QueueOf(db, m, c(m))
    BY <1>4, <1>5, <1>6, <1>14, <2>1 DEF m
  <2>4. c(m).sbn < b
    <3>1. C[m] \in Rec /\ Sane(C[m], b - 1) /\ c(m).sbn = C[m].sbn
      BY <1>4, <2>1 DEF Allowed, b
    <3> QED
      BY <1>3, <3>1, RecFields DEF Sane
  <2>5. reports[m] = <<>>
    <3>1. ~Waiting(db, m, c(m))
      BY <2>3, WaitingIs DEF MatchReported
    <3> QED
      BY <2>3, <3>1 DEF QueueOf
  <2>6. /\ Follows(db', m, new(m)) /\ Keeps(db, db', m) /\ ~Waiting(db', m, new(m))
        /\ \A n : n # m => SameOf(db, db', n)
    <3> DEFINE r == c(m)
               x == new(m)
    <3>1. /\ TableOK(db) /\ b \in Nat /\ b = block.num /\ tx.type = "create" /\ tx.node \in Nodes
          /\ tx.amount \in Nat /\ m = tx.node /\ x = Apply(r, tx, b) /\ Follows(db, m, r) /\ r.st = "out"
          /\ r.sbn < b /\ copies \in Nat \ {0} /\ listed = [i \in 1..copies |-> tx]
          /\ db' = FoldLeft(Handle, db, listed)
      BY <1>3, <1>14, <2>1, <2>2, <2>3, <2>4 DEF b, m, listed
    <3> HIDE DEF r, x
    <3>2. /\ Follows(db', m, x) /\ Keeps(db, db', m) /\ ~Waiting(db', m, x)
          /\ \A n : n # m => SameOf(db, db', n)
      BY <3>1, CreateMoves
    <3> QED
      BY <3>2 DEF x
  <2>7. Keeps(saved, db', m)
    BY <1>5, <2>1, <2>6, KeepsTrans
  <2> QED
    <3> SUFFICES ASSUME NEW n \in Nodes PROVE Done(n)
      BY <1>1, <1>2, <1>8, StaysUnderway DEF Places, Reached, Timely
    <3>1. CASE n = m
      BY <2>2, <2>5, <2>6, <2>7, <3>1 DEF QueueOf
    <3>2. CASE n # m
      BY <1>9, <2>2, <2>6, <3>2 DEF m
    <3> QED
      BY <3>1, <3>2
<1> QED
  BY <1>3, <1>11, <1>12, <1>13, <1>14, TxCases

LEMMA FollowsCommit == TypeInv /\ FollowInv /\ Commit => FollowInv'
<1> SUFFICES ASSUME TypeInv, FollowInv, Commit PROVE FollowInv'
  OBVIOUS
<1>1. /\ pc = "commit" /\ pc' = "idle" /\ saved' = db /\ db' = db /\ reports' = reports
      /\ UNCHANGED <<chain, validators, elected, block>>
  BY DEF Commit, external
<1>2. PICK C : Underway(C) /\ Reached("commit", db, reports, C)
  BY <1>1 DEF FollowInv
<1>3. \A n \in Nodes : At("commit", block, n, C[n]) = chain[n]
  BY <1>2 DEF At, Underway
<1>4. \A n \in Nodes : /\ Follows(db, n, chain[n]) /\ reports[n] = QueueOf(db, n, chain[n])
                       /\ Waiting(db, n, chain[n]) => Due(n, chain[n])
  BY <1>2, <1>3 DEF Reached, Timely
<1>5. Rests'
  BY <1>1, <1>4 DEF Rests, Due
<1>6. (\A n \in Nodes : Sane(chain[n], block.num) /\ InTime(n, chain[n], validators, elected, block.num))'
  BY <1>1 DEF FollowInv
<1>7. (block.num = 0 => \A n \in Nodes : Thaw(chain[n], Epoch(1)) = chain[n])'
  BY <1>1 DEF FollowInv
<1> QED
  BY <1>1, <1>5, <1>6, <1>7 DEF FollowInv

\* Without a report in the block or in the committed tables no queue has one.
LEMMA NothingQueued ==
  ASSUME FollowInv, Quiet, pc # "idle", NEW C, Underway(C), Reached(pc, db, reports, C)
  PROVE  \A n \in Nodes : reports[n] = <<>> /\ ~Waiting(saved, n, C[n])
<1> TAKE n \in Nodes
<1>1. ~ReportSeen
  BY DEF Quiet, ReportSeen
<1>2. ~Waiting(saved, n, C[n])
  BY DEF Quiet, Waiting
<1>3. reports[n] = <<>>
  BY <1>1 DEF Reached, QueueOf
<1> QED
  BY <1>2, <1>3

\* The block is begun again from the committed tables.
LEMMA FollowsReturn ==
  ASSUME FollowInv, Quiet, pc # "idle", UNCHANGED <<external, saved>>, db' = saved, pc' = "election",
         block.tx.type \notin {"none", "create"} => copies' = 1,
         \A n \in Nodes : reports'[n] = reports[n] \/ reports'[n] = <<>>
  PROVE  FollowInv'
<1>1. PICK C : Underway(C) /\ Reached(pc, db, reports, C)
  BY DEF FollowInv
<1>2. \A n \in Nodes : reports'[n] = <<>> /\ ~Waiting(saved, n, C[n])
  BY <1>1, NothingQueued
<1>3. \A n \in Nodes : Follows(saved, n, C[n]) /\ Keeps(saved, saved, n)
  BY <1>1 DEF Underway, Keeps
<1>4. Reached("election", saved, reports', C)
  BY <1>2, <1>3 DEF Reached, At, QueueOf
<1>5. UNCHANGED <<chain, validators, elected, block, saved>>
  BY DEF external
<1>6. Underway(C)'
  BY <1>1, <1>5 DEF Underway
<1>7. Reached("election", db, reports, C)'
  BY <1>4, <1>5 DEF Reached, Timely, Due, ReportSeen
<1>8. (IF pc = "idle" THEN Rests ELSE \E D : Underway(D) /\ Reached(pc, db, reports, D))'
  BY <1>6, <1>7
<1>9. (\A n \in Nodes : Sane(chain[n], block.num) /\ InTime(n, chain[n], validators, elected, block.num))'
  BY <1>5 DEF FollowInv
<1>10. (block.num = 0 => \A n \in Nodes : Thaw(chain[n], Epoch(1)) = chain[n])'
  BY <1>5 DEF FollowInv
<1> QED
  BY <1>8, <1>9, <1>10 DEF FollowInv

LEMMA FollowsFail == Survivable /\ FollowInv /\ Fail => FollowInv'
<1> SUFFICES ASSUME Survivable, FollowInv, Fail PROVE FollowInv'
  OBVIOUS
<1>1. /\ pc # "idle" /\ Quiet /\ Repeatable /\ pc' = "election" /\ db' = saved /\ reports' = reports
      /\ UNCHANGED <<external, saved>>
  BY DEF Fail, Survivable
<1>2. block.tx.type \in {"none", "create"}
  BY <1>1 DEF Repeatable
<1> QED
  BY <1>1, <1>2, FollowsReturn

LEMMA FollowsCrash == Survivable /\ FollowInv /\ Crash => FollowInv'
<1> SUFFICES ASSUME Survivable, FollowInv, Crash PROVE FollowInv'
  OBVIOUS
<1>1. /\ Quiet /\ db' = saved /\ reports' = [n \in Nodes |-> <<>>] /\ UNCHANGED <<external, saved>>
      /\ pc' = (IF pc = "idle" THEN "idle" ELSE "election")
      /\ copies' = (IF pc = "idle" THEN 0 ELSE 1)
  BY DEF Crash, Survivable
<1>2. CASE pc # "idle"
  BY <1>1, <1>2, FollowsReturn
<1>3. CASE pc = "idle"
  <2>1. Rests
    BY <1>3 DEF FollowInv
  <2>2. \A n \in Nodes : ~Waiting(saved, n, chain[n])
    BY <1>1 DEF Quiet, Waiting
  <2>3. UNCHANGED <<chain, validators, elected, block, saved>>
    BY <1>1 DEF external
  <2>4. \A n \in Nodes : Follows(saved, n, chain[n]) /\ reports'[n] = QueueOf(saved, n, chain[n])
    BY <1>1, <2>1, <2>2 DEF Rests, QueueOf
  <2>5. Rests'
    BY <1>1, <2>2, <2>3, <2>4 DEF Rests
  <2>6. (\A n \in Nodes : Sane(chain[n], block.num) /\ InTime(n, chain[n], validators, elected, block.num))'
    BY <2>3 DEF FollowInv
  <2>7. (block.num = 0 => \A n \in Nodes : Thaw(chain[n], Epoch(1)) = chain[n])'
    BY <2>3 DEF FollowInv
  <2>8. pc' = "idle"
    BY <1>1, <1>3
  <2> QED
    BY <2>5, <2>6, <2>7, <2>8 DEF FollowInv
<1> QED
  BY <1>2, <1>3

LEMMA FollowsStutter == FollowInv /\ UNCHANGED vars => FollowInv'
<1> SUFFICES ASSUME FollowInv, UNCHANGED vars PROVE FollowInv'
  OBVIOUS
<1>1. UNCHANGED <<chain, validators, elected, block, pc, copies, db, saved, reports>>
  BY DEF vars, external
<1> QED
  BY <1>1 DEF FollowInv, Rests, Underway, Reached, Timely, Due, ReportSeen

LEMMA FollowsAtInit == Init => FollowInv
<1> SUFFICES ASSUME Init PROVE FollowInv
  OBVIOUS
<1> DEFINE first == NewRow(0, GenesisStake, UnStakeEnd(1))
           G == [Out EXCEPT !.st = "candidate", !.locked = GenesisStake]
<1>1. /\ chain = [n \in Nodes |-> IF n \in GenesisNodes THEN G ELSE Out]
      /\ validators = GenesisNodes /\ elected = GenesisNodes /\ block.num = 0 /\ pc = "idle"
      /\ db = [staking |-> [k \in {Key(n, 0) : n \in GenesisNodes} |-> first],
               node |-> [n \in GenesisNodes |-> [sbn |-> 0, row |-> first]],
               slash |-> {}]
      /\ saved = db /\ reports = [n \in Nodes |-> <<>>]
  BY DEF Init
<1>2. /\ G.st = "candidate" /\ G.sbn = 0 /\ G.hes = 0 /\ G.locked = GenesisStake /\ G.until = 0
      /\ G.reported = 0 /\ G \in Rec
  BY Bounds DEF Out, Rec, Standings
<1>3. Out.st = "out" /\ Out.sbn = 0 /\ Out.reported = 0
  BY DEF Out
<1>4. /\ first.status = CANDIDATE /\ first.hes = 0 /\ first.locked = GenesisStake /\ first.reduction = 0
      /\ first.exc = NORMAL /\ first.low = 0
  BY DEF NewRow
<1>5. GenesisStake \in Nat /\ GenesisStake > 0 /\ GenesisStake >= Threshold /\ Threshold \in Nat
  BY Bounds, PeriodAssumption
<1> HIDE DEF first, G
<1>6. Thaw(G, Epoch(1)) = G
  <2>1. Thaw(G, Epoch(1)) = [G EXCEPT !.locked = @ + G.hes, !.hes = 0]
    BY <1>2 DEF Thaw
  <2> DEFINE x == [G EXCEPT !.locked = @ + G.hes, !.hes = 0]
  <2>2. /\ x.st = G.st /\ x.sbn = G.sbn /\ x.hes = 0 /\ x.locked = G.locked + G.hes
        /\ x.until = G.until /\ x.reported = G.reported
    BY <1>2 DEF Rec
  <2>4. G.locked + G.hes = G.locked /\ G.locked \in Nat
    BY <1>2, <1>5
  <2>5. x \in Rec
    BY <1>2, <2>4 DEF Rec
  <2> HIDE DEF x
  <2>3. x = G
    BY <1>2, <2>2, <2>4, <2>5, SameRec
  <2> QED
    BY <2>1, <2>3 DEF x
<1>7. \A n \in Nodes : Thaw(chain[n], Epoch(1)) = chain[n]
  BY <1>1, <1>6, OutStays
<1>8. Sane(G, 0) /\ Sane(Out, 0)
  BY <1>2, <1>3, <1>5 DEF Sane
<1>9. \A n \in Nodes : Sane(chain[n], block.num) /\ InTime(n, chain[n], validators, elected, block.num)
  <2> TAKE n \in Nodes
  <2>1. chain[n].reported = 0 /\ chain[n].st # "locked" /\ Sane(chain[n], block.num)
    BY <1>1, <1>2, <1>3, <1>8
  <2> QED
    BY <2>1 DEF InTime
<1>10. ASSUME NEW n \in Nodes
       PROVE  Follows(saved, n, chain[n]) /\ ~Waiting(saved, n, chain[n])
  <2>1. CASE n \in GenesisNodes
    <3> DEFINE k == Key(n, 0)
    <3>1. chain[n] = G /\ saved = db
      BY <1>1, <2>1
    <3>2. k \in DOMAIN saved.staking /\ saved.staking[k] = first /\ n \in DOMAIN saved.node
          /\ saved.node[n].sbn = 0 /\ saved.node[n].row = first
      BY <1>1, <2>1
    <3>3. \A j \in DOMAIN saved.staking : j[1] = n => j = k
      <4> SUFFICES ASSUME NEW j \in DOMAIN saved.staking, j[1] = n PROVE j = k
        OBVIOUS
      <4>1. PICK m \in GenesisNodes : j = Key(m, 0)
        BY <1>1
      <4> QED
        BY <4>1, KeyIs
    <3> HIDE DEF k
    <3>4. k = Key(n, G.sbn)
      BY <1>2 DEF k
    <3>5. MatchCandidate(first, G) /\ Copies(first, first)
      BY <1>2, <1>4 DEF MatchCandidate, Copies
    <3>6. Has(saved, n, G)
      BY <1>2, <3>2, <3>3, <3>4, <3>5 DEF Has, Match
    <3>7. ~Waiting(saved, n, G)
      BY <1>4, <3>2, <3>4 DEF Waiting, NORMAL, REPORTED
    <3> QED
      BY <3>1, <3>6, <3>7 DEF Follows
  <2>2. CASE n \notin GenesisNodes
    <3>1. chain[n] = Out /\ n \notin DOMAIN saved.node
      BY <1>1, <2>2
    <3>2. \A j \in DOMAIN saved.staking : j[1] # n
      <4> TAKE j \in DOMAIN saved.staking
      <4>1. PICK m \in GenesisNodes : j = Key(m, 0)
        BY <1>1
      <4> QED
        BY <2>2, <4>1, KeyIs
    <3>3. Key(n, Out.sbn) \notin DOMAIN saved.staking
      BY <3>2, KeyIs
    <3> QED
      BY <3>1, <3>2, <3>3 DEF Follows, Never, Waiting
  <2> QED
    BY <2>1, <2>2
<1>11. Rests
  BY <1>1, <1>10 DEF Rests, QueueOf
<1> QED
  BY <1>1, <1>7, <1>9, <1>11 DEF FollowInv

\* A transaction the chain accepts.
LEMMA AcceptedIs ==
  ASSUME Survivable, NEW c \in [Nodes -> Rec], NEW tx \in Accepted(c), NEW b \in Nat
  PROVE  /\ tx \in Txns /\ tx # NoTx /\ tx.node \in Nodes
         /\ IF tx.type = "create" THEN c[tx.node].st = "out" /\ tx.amount >= Threshold
            ELSE c[tx.node].st = "candidate" /\ (tx.type = "report" => tx.sbn = c[tx.node].sbn)
<1>1. tx \in Txns /\ tx # NoTx /\ (tx.type = "report" => tx.sbn = c[tx.node].sbn)
  BY ApplyTyped
<1>2. tx.node \in Nodes
  BY <1>1, TxCases
<1>3. CASE tx \in {x \in {[type |-> "create", node |-> n, amount |-> a] : n \in Nodes, a \in StakeAmounts} :
                     c[x.node].st = "out" /\ x.amount >= Threshold}
  <2>1. tx.type = "create"
    BY <1>3
  <2> QED
    BY <1>1, <1>2, <1>3, <2>1
<1>4. CASE tx \in {x \in {[type |-> t, node |-> n] : t \in {"increase", "exit"}, n \in Nodes} :
                     c[x.node].st = "candidate"}
  <2>1. tx.type \in {"increase", "exit"}
    BY <1>4
  <2> QED
    BY <1>1, <1>2, <1>4, <2>1
<1>5. CASE tx \in {x \in {[type |-> "report", node |-> n, sbn |-> c[n].sbn] : n \in Nodes} :
                     c[x.node].st \in Reportable /\ c[x.node].reported = 0}
  <2>1. tx.type = "report" /\ c[tx.node].st \in Reportable
    BY <1>5
  <2> QED
    BY <1>1, <1>2, <2>1 DEF Survivable
<1>6. tx \in Accepted(c)
  OBVIOUS
<1> QED
  BY <1>3, <1>4, <1>5, <1>6 DEF Accepted

\* The rest of a consensus period.
LEMMA LastElection ==
  ASSUME NEW b \in Nat, (b + ElectionBackward) % ConsensusPeriod = 0
  PROVE  NoMore(b)
<1> DEFINE p == ConsensusPeriod
           j == ConsensusRound(b)
<1>1. p \in Nat \ {0} /\ ElectionBackward \in Nat /\ j \in Nat /\ j * p < b + p /\ j * p \in Nat
  BY PeriodFacts, EpochIs, NumBounds
<1> HIDE DEF j, p
<1>2. ASSUME NEW x \in (b + 1)..(j * p) PROVE (x + ElectionBackward) % p # 0
  <2>1. PICK q \in Nat : b + ElectionBackward = q * p
    <3>1. b + ElectionBackward \in Nat /\ (b + ElectionBackward) % p = 0
      BY <1>1 DEF p
    <3> QED
      BY <1>1, <3>1, Quotient
  <2> SUFFICES ASSUME (x + ElectionBackward) % p = 0 PROVE FALSE
    OBVIOUS
  <2>2. x \in Nat /\ x > b /\ x < b + p
    BY <1>1
  <2>3. PICK k \in Nat : x + ElectionBackward = k * p
    <3>1. x + ElectionBackward \in Nat
      BY <1>1, <2>2
    <3> QED
      BY <1>1, <3>1, Quotient
  <2>4. q * p \in Nat /\ k * p \in Nat
    BY <1>1
  <2>5. q * p < k * p /\ k * p < q * p + p
    BY <1>1, <2>1, <2>2, <2>3
  <2>6. CASE q < k
    <3>1. q * p + p =< k * p
      BY <1>1, <2>6, Further
    <3> QED
      BY <1>1, <2>4, <2>5, <3>1
  <2>7. CASE k < q
    <3>1. k * p + p =< q * p
      BY <1>1, <2>7, Further
    <3> QED
      BY <1>1, <2>4, <2>5, <3>1
  <2>8. CASE k = q
    BY <2>4, <2>5, <2>8
  <2> QED
    BY <2>6, <2>7, <2>8
<1> QED
  BY <1>2 DEF NoMore, j, p

LEMMA NoMoreNext ==
  ASSUME NEW b \in Nat \ {0}, ~OpensConsensus(b), NoMore(b - 1)
  PROVE  NoMore(b) /\ (b + ElectionBackward) % ConsensusPeriod # 0
<1> DEFINE m == ConsensusRound(b) * ConsensusPeriod
<1>1. ConsensusRound(b) = ConsensusRound(b - 1)
  BY NextRound
<1>2. m \in Nat /\ m >= b
  <2> DEFINE p == ConsensusPeriod
             j == ConsensusRound(b)
  <2>1. p \in Nat \ {0} /\ j \in Nat /\ b =< j * p
    BY PeriodFacts, EpochIs, NumBounds
  <2>2. m = j * p
    OBVIOUS
  <2> HIDE DEF j, p, m
  <2>3. j * p \in Nat
    BY <2>1
  <2> QED
    BY <2>1, <2>2, <2>3
<1>3. \A x \in b..m : (x + ElectionBackward) % ConsensusPeriod # 0
  <2>1. (b - 1) + 1 = b
    OBVIOUS
  <2> QED
    BY <1>1, <2>1 DEF NoMore
<1> HIDE DEF m
<1>4. b \in b..m /\ \A x \in (b + 1)..m : x \in b..m
  BY <1>2
<1> QED
  BY <1>3, <1>4 DEF NoMore, m

LEMMA ThawLocked ==
  ASSUME NEW c \in Rec, NEW e \in Nat, Thaw(c, e).st = "locked"
  PROVE  c.st = "locked"
<1>1. CASE c.st = "leaving" /\ c.until < e
  BY <1>1 DEF Thaw, Rec
<1>2. CASE c.st = "locked" /\ c.until < e
  BY <1>2
<1>3. CASE ~(c.st = "leaving" /\ c.until < e) /\ ~(c.st = "locked" /\ c.until < e)
  BY <1>3 DEF Thaw, Rec
<1> QED
  BY <1>1, <1>2, <1>3

\* A transaction leaves no node locked that a candidate or an absent one sends.
LEMMA ApplyUnlocked ==
  ASSUME NEW c \in Rec, NEW b \in Nat, NEW tx \in Txns, tx # NoTx, tx.type # "create" => c.st = "candidate"
  PROVE  Apply(c, tx, b).st # "locked"
<1>1. CASE tx.type = "create"
  BY <1>1 DEF Apply, Out
<1>2. CASE tx.type = "increase"
  <2>1. Apply(c, tx, b) = [c EXCEPT !.hes = @ + IncreaseAmount]
    BY <1>2 DEF Apply
  <2> QED
    BY <1>2, <2>1 DEF Rec
<1>3. CASE tx.type = "exit"
  <2>1. \/ Apply(c, tx, b) = [c EXCEPT !.st = "leaving", !.hes = 0, !.until = Epoch(b) + UnStakeFreeze]
        \/ Apply(c, tx, b) = [c EXCEPT !.st = "out", !.hes = 0, !.locked = 0]
    BY <1>3 DEF Apply
  <2>2. Apply(c, tx, b).st \in {"leaving", "out"}
    BY <2>1 DEF Rec
  <2> QED
    BY <2>2
<1>4. CASE tx.type = "report"
  <2> DEFINE u == IF c.st = "leaving" THEN c.until ELSE Epoch(b) + UnStakeFreeze
  <2>1. Apply(c, tx, b) = [c EXCEPT !.st = "leaving", !.reported = b, !.until = u]
    BY <1>4 DEF Apply
  <2> HIDE DEF u
  <2>2. Apply(c, tx, b).st = "leaving"
    BY <2>1 DEF Rec
  <2> QED
    BY <2>2
<1> QED
  BY <1>1, <1>2, <1>3, <1>4, TxCases

\* The validators of the next block.
LEMMA InTimeNext ==
  ASSUME NEW b \in Nat \ {0}, NEW n, NEW a \in 1..(b - 1), NEW V, NEW E, NEW W,
         n \in V => ConsensusRound(b - 1) =< ConsensusRound(a) + 1,
         n \in E => \A x \in a..(b - 1) : (x + ElectionBackward) % ConsensusPeriod # 0,
         W = IF OpensConsensus(b) THEN E ELSE V, n \in W
  PROVE  ConsensusRound(b) =< ConsensusRound(a) + 1
<1>1. CASE OpensConsensus(b)
  BY <1>1, ReportedBefore
<1>2. CASE ~OpensConsensus(b)
  BY <1>2, NextRound
<1> QED
  BY <1>1, <1>2

LEMMA OneAtMost ==
  ASSUME NEW S, IsFiniteSet(S), Cardinality(S) =< 1
  PROVE  \A m, n \in S : m = n
<1> SUFFICES ASSUME NEW m \in S, NEW n \in S, m # n PROVE FALSE
  OBVIOUS
<1> DEFINE T == S \ {m}
<1>1. IsFiniteSet(T) /\ Cardinality(T) = Cardinality(S) - 1 /\ Cardinality(S) \in Nat
  BY FS_RemoveElement, FS_CardinalityType
<1>2. IsFiniteSet(T \ {n}) /\ Cardinality(T \ {n}) = Cardinality(T) - 1 /\ Cardinality(T \ {n}) \in Nat
  BY <1>1, FS_RemoveElement, FS_CardinalityType
<1> QED
  BY <1>1, <1>2

LEMMA FollowsProduce == Survivable /\ TypeInv /\ FollowInv /\ Produce => FollowInv'
<1> SUFFICES ASSUME Survivable, TypeInv, FollowInv, Produce PROVE FollowInv'
  OBVIOUS
<1>1. PICK b, c1, low, c2, tx, c3 : NextBlock(b, c1, low, c2, tx, c3)
  BY ProduceIs
<1>2. pc = "idle" /\ pc' = "election" /\ copies' = 1 /\ UNCHANGED <<db, saved, reports>>
  BY ProduceIs
<1> DEFINE B == [num |-> b, low |-> low, tx |-> tx]
           V == validators'
<1>3. Rests /\ db = saved
  BY <1>2 DEF FollowInv, Rests
<1>4. /\ chain \in [Nodes -> Rec] /\ b \in Nat \ {0} /\ b - 1 = block.num /\ b = block.num + 1
      /\ Epoch(b) \in Nat
  BY <1>1, EpochNat DEF NextBlock, TypeInv, Typed, Block
<1>5. chain' = c3 /\ block' = B /\ B.num = b /\ B.low = low /\ B.tx = tx
  BY <1>1 DEF NextBlock
<1>6. B \in Block /\ validators' \subseteq Nodes
  <2>1. TypeInv'
    BY TypesAtProduce
  <2>2. block' \in Block /\ validators' \subseteq Nodes
    BY <2>1 DEF TypeInv, Typed
  <2> QED
    BY <1>5, <2>2
<1> HIDE DEF B, V
<1>7. \A n \in Nodes : /\ chain[n] \in Rec /\ Sane(chain[n], b - 1)
                       /\ InTime(n, chain[n], validators, elected, b - 1)
  BY <1>4 DEF FollowInv
<1>8. \A n \in Nodes : c1[n] = IF OpensSettle(b) THEN Thaw(chain[n], Epoch(b)) ELSE chain[n]
  BY <1>1 DEF NextBlock
<1>9. low \subseteq Nodes /\ \A n \in low : Elects(b) /\ ~OpensSettle(b) /\ c1[n] = chain[n]
                                  /\ chain[n].st \in {"candidate", "leaving"} /\ chain[n].reported = 0
  <2> SUFFICES ASSUME NEW n \in low
               PROVE  /\ n \in Nodes /\ Elects(b) /\ ~OpensSettle(b) /\ c1[n] = chain[n]
                      /\ chain[n].st \in {"candidate", "leaving"} /\ chain[n].reported = 0
    OBVIOUS
  <2>1. Elects(b) /\ n \in validators' /\ c1[n].st \in Penalised /\ c1[n].reported = 0
    <3>1. low \in SUBSET (IF Elects(b)
                          THEN {m \in validators' : c1[m].st \in Penalised /\ c1[m].reported = 0} ELSE {})
      BY <1>1 DEF NextBlock
    <3> QED
      BY <3>1
  <2>2. ~OpensSettle(b) /\ n \in Nodes /\ (b + ElectionBackward) % ConsensusPeriod = 0
    BY <1>4, <1>6, <2>1, ElectsApart DEF Elects
  <2>3. c1[n] = chain[n] /\ chain[n].st \in Standings \ {"out"}
    BY <1>8, <2>1, <2>2, StakingBounds
  <2>4. chain[n].st # "locked"
    <3> SUFFICES ASSUME chain[n].st = "locked" PROVE FALSE
      OBVIOUS
    <3>1. n \notin elected /\ (n \in validators => NoMore(b - 1))
      BY <1>7, <2>2 DEF InTime
    <3>2. ~OpensConsensus(b) /\ n \in validators
      BY <1>1, <2>1, <3>1 DEF NextBlock
    <3> QED
      BY <1>4, <2>2, <3>1, <3>2, NoMoreNext
  <2> QED
    BY <2>1, <2>2, <2>3, <2>4 DEF Standings
<1>10. \A m, n \in low : m = n
  <2>1. IsFiniteSet(low)
    BY <1>9, StakingBounds, FS_Subset
  <2>2. Cardinality(low) =< MaxSlashed /\ MaxSlashed =< 1 /\ MaxSlashed \in Nat
    BY <1>1, Bounds DEF NextBlock, Survivable
  <2>3. Cardinality(low) =< 1
    BY <2>1, <2>2, FS_CardinalityType
  <2> QED
    BY <2>1, <2>3, OneAtMost
<1>11. c2 \in [Nodes -> Rec] /\ \A n \in Nodes : c2[n] = ThawedBy(B, n, chain[n]) /\ Sane(c2[n], b)
                                                /\ c2[n].sbn = chain[n].sbn /\ c2[n].reported = chain[n].reported
  <2>1. c2 = [n \in Nodes |-> IF n \in low THEN Penalise(c1[n], Epoch(b)) ELSE c1[n]]
    BY <1>1 DEF NextBlock
  <2>2. ASSUME NEW n \in Nodes
        PROVE  /\ c2[n] \in Rec /\ c2[n] = ThawedBy(B, n, chain[n]) /\ Sane(c2[n], b)
               /\ c2[n].sbn = chain[n].sbn /\ c2[n].reported = chain[n].reported
    <3>1. c2[n] = ThawedBy(B, n, chain[n])
      <4>1. CASE n \in low
        BY <1>5, <1>8, <1>9, <2>1, <4>1 DEF ThawedBy, PenalisedBy
      <4>2. CASE n \notin low
        BY <1>5, <1>8, <2>1, <4>2 DEF ThawedBy, PenalisedBy
      <4> QED
        BY <4>1, <4>2
    <3>2. Sane(c2[n], b)
      <4>1. CASE n \in low
        <5>1. Sane(chain[n], b)
          BY <1>4, <1>7, <1>9, <4>1, SaneStays
        <5>2. c2[n] = Penalise(chain[n], Epoch(b))
          BY <1>9, <2>1, <4>1
        <5> QED
          BY <1>4, <1>7, <1>9, <4>1, <5>1, <5>2, SanePenalised
      <4>2. CASE n \notin low /\ OpensSettle(b)
        <5>1. c2[n] = Thaw(chain[n], Epoch(b))
          BY <1>8, <2>1, <4>2
        <5> QED
          BY <1>4, <1>7, <5>1, SaneThaws
      <4>3. CASE n \notin low /\ ~OpensSettle(b)
        <5>1. c2[n] = chain[n]
          BY <1>8, <2>1, <4>3
        <5> QED
          BY <1>4, <1>7, <4>3, <5>1, SaneStays
      <4> QED
        BY <4>1, <4>2, <4>3
    <3>3. c2[n] \in Rec /\ c2[n].sbn = chain[n].sbn /\ c2[n].reported = chain[n].reported
      BY <1>6, <1>7, <3>1, RecOfBlock
    <3> QED
      BY <3>1, <3>2, <3>3
  <2> QED
    BY <2>1, <2>2
<1>12. tx # NoTx =>
         /\ tx \in Txns /\ tx.node \in Nodes
         /\ IF tx.type = "create" THEN c2[tx.node].st = "out" /\ tx.amount >= Threshold
            ELSE c2[tx.node].st = "candidate" /\ (tx.type = "report" => tx.sbn = c2[tx.node].sbn)
  <2>1. tx # NoTx => tx \in Accepted(c2)
    BY <1>1 DEF NextBlock
  <2> QED
    BY <1>4, <1>11, <2>1, AcceptedIs
<1>13. \A n \in Nodes : c3[n] = AppliedBy(B, n, chain[n])
  <2> TAKE n \in Nodes
  <2>1. c3 = IF tx = NoTx THEN c2 ELSE [c2 EXCEPT ![tx.node] = Apply(@, tx, b)]
    BY <1>1 DEF NextBlock
  <2>2. CASE tx # NoTx /\ tx.node = n
    <3>1. c3[n] = Apply(c2[n], tx, b)
      BY <1>11, <2>1, <2>2
    <3> QED
      BY <1>5, <1>11, <2>2, <3>1 DEF AppliedBy
  <2>3. CASE ~(tx # NoTx /\ tx.node = n)
    <3>1. c3[n] = c2[n]
      BY <1>11, <2>1, <2>3
    <3> QED
      BY <1>5, <1>11, <2>3, <3>1 DEF AppliedBy
  <2> QED
    BY <2>2, <2>3
\* The record after the block; a report of this block is the only new one.
<1>14. \A n \in Nodes : Sane(c3[n], b) /\ c3[n].reported \in {0, chain[n].reported, b}
  <2> TAKE n \in Nodes
  <2>1. CASE tx # NoTx /\ tx.node = n
    <3>1. c3[n] = Apply(c2[n], tx, b)
      BY <1>5, <1>11, <1>13, <2>1 DEF AppliedBy
    <3> DEFINE r == c2[n]
               x == c3[n]
    <3>2. /\ r \in Rec /\ Sane(r, b) /\ r.reported = chain[n].reported /\ tx \in Txns /\ tx # NoTx
          /\ IF tx.type = "create" THEN r.st = "out" /\ tx.amount >= Threshold ELSE r.st = "candidate"
          /\ x = Apply(r, tx, b)
      BY <1>11, <1>12, <2>1, <3>1
    <3> HIDE DEF r, x
    <3>3. /\ Sane(x, b)
          /\ x.reported = (IF tx.type = "create" THEN 0 ELSE IF tx.type = "report" THEN b ELSE r.reported)
      BY <1>4, <3>2, SaneApplied
    <3> QED
      BY <3>2, <3>3 DEF x
  <2>2. CASE ~(tx # NoTx /\ tx.node = n)
    <3>1. c3[n] = c2[n]
      BY <1>5, <1>11, <1>13, <2>2 DEF AppliedBy
    <3> QED
      BY <1>11, <3>1
  <2> QED
    BY <2>1, <2>2
<1>15. \A n \in Nodes : chain[n].reported > 0 /\ n \in V => ConsensusRound(b) =< ConsensusRound(chain[n].reported) + 1
  <2> SUFFICES ASSUME NEW n \in Nodes, chain[n].reported > 0, n \in V
               PROVE  ConsensusRound(b) =< ConsensusRound(chain[n].reported) + 1
    OBVIOUS
  <2> DEFINE a == chain[n].reported
  <2>1. a \in 1..(b - 1)
    <3>1. a \in Nat /\ a =< b - 1
      BY <1>7, RecFields DEF Sane
    <3> QED
      BY <1>4, <3>1
  <2>2. /\ n \in validators => ConsensusRound(b - 1) =< ConsensusRound(a) + 1
        /\ n \in elected => \A x \in a..(b - 1) : (x + ElectionBackward) % ConsensusPeriod # 0
    BY <1>7 DEF InTime
  <2>3. V = IF OpensConsensus(b) THEN elected ELSE validators
    BY <1>1 DEF NextBlock, V
  <2> HIDE DEF a
  <2>4. ConsensusRound(b) =< ConsensusRound(a) + 1
    BY <1>4, <2>1, <2>2, <2>3, InTimeNext
  <2> QED
    BY <2>4 DEF a
<1>16. \A n \in Nodes : c3[n].reported > 0 =>
         /\ n \in V => ConsensusRound(b) =< ConsensusRound(c3[n].reported) + 1
         /\ n \in elected' => \A x \in c3[n].reported..b : (x + ElectionBackward) % ConsensusPeriod # 0
  <2> SUFFICES ASSUME NEW n \in Nodes, c3[n].reported > 0
               PROVE  /\ n \in V => ConsensusRound(b) =< ConsensusRound(c3[n].reported) + 1
                      /\ n \in elected' => \A x \in c3[n].reported..b : (x + ElectionBackward) % ConsensusPeriod # 0
    OBVIOUS
  <2>1. c3[n].reported \in {chain[n].reported, b}
    BY <1>14
  <2>2. n \in V => ConsensusRound(b) =< ConsensusRound(c3[n].reported) + 1
    <3>1. ConsensusRound(b) \in Nat
      BY <1>4, EpochIs
    <3>2. CASE c3[n].reported = b
      BY <3>1, <3>2
    <3>3. CASE c3[n].reported = chain[n].reported
      BY <1>15, <3>3
    <3> QED
      BY <2>1, <3>2, <3>3
  <2>3. ASSUME n \in elected' PROVE \A x \in c3[n].reported..b : (x + ElectionBackward) % ConsensusPeriod # 0
    <3>1. (b + ElectionBackward) % ConsensusPeriod # 0 /\ elected' = elected
      <4>1. (b + ElectionBackward) % ConsensusPeriod = 0 => elected' \in SUBSET Electable(c3, low)
        BY <1>1 DEF NextBlock
      <4>2. (b + ElectionBackward) % ConsensusPeriod # 0 => elected' = elected
        BY <1>1 DEF NextBlock
      <4> QED
        BY <2>3, <4>1, <4>2 DEF Electable
    <3>2. CASE c3[n].reported = b
      BY <1>4, <3>1, <3>2
    <3>3. CASE c3[n].reported = chain[n].reported
      <4> DEFINE a == chain[n].reported
      <4>1. a \in Nat /\ \A x \in a..(b - 1) : (x + ElectionBackward) % ConsensusPeriod # 0
        BY <1>7, <2>3, <3>1, <3>3, RecFields DEF InTime
      <4> HIDE DEF a
      <4>2. \A x \in a..b : (x + ElectionBackward) % ConsensusPeriod # 0
        <5> TAKE x \in a..b
        <5>1. x = b \/ x \in a..(b - 1)
          BY <1>4, <4>1
        <5> QED
          BY <3>1, <4>1, <5>1
      <4> QED
        BY <3>3, <4>2 DEF a
    <3> QED
      BY <2>1, <3>2, <3>3
  <2> QED
    BY <2>2, <2>3
<1>a. \A n \in Nodes : c3[n].st = "locked" => n \notin elected' /\ (n \in V => NoMore(b))
  <2> SUFFICES ASSUME NEW n \in Nodes, c3[n].st = "locked"
               PROVE  n \notin elected' /\ (n \in V => NoMore(b))
    OBVIOUS
  <2>1. c3[n] = c2[n]
    <3> SUFFICES ASSUME tx # NoTx, tx.node = n PROVE FALSE
      BY <1>5, <1>11, <1>13 DEF AppliedBy
    <3>1. c3[n] = Apply(c2[n], tx, b)
      BY <1>5, <1>11, <1>13 DEF AppliedBy
    <3>2. c2[n] \in Rec /\ tx \in Txns /\ (tx.type # "create" => c2[n].st = "candidate")
      BY <1>11, <1>12
    <3> QED
      BY <1>4, <3>1, <3>2, ApplyUnlocked
  <2>2. /\ (b + ElectionBackward) % ConsensusPeriod = 0 => elected' \in SUBSET Electable(c3, low)
        /\ (b + ElectionBackward) % ConsensusPeriod # 0 => elected' = elected
        /\ V = IF OpensConsensus(b) THEN elected ELSE validators
    BY <1>1 DEF NextBlock, V
  <2>3. CASE n \in low
    <3>1. (b + ElectionBackward) % ConsensusPeriod = 0
      BY <1>9, <2>3 DEF Elects
    <3> QED
      BY <1>4, <2>2, <2>3, <3>1, LastElection DEF Electable
  <2>4. CASE n \notin low
    <3>1. chain[n].st = "locked"
      <4>1. c2[n] = IF OpensSettle(b) THEN Thaw(chain[n], Epoch(b)) ELSE chain[n]
        BY <1>5, <1>11, <2>4 DEF ThawedBy, PenalisedBy
      <4> QED
        BY <1>4, <1>7, <2>1, <4>1, ThawLocked
    <3>2. n \notin elected /\ (n \in validators => NoMore(b - 1))
      BY <1>7, <3>1 DEF InTime
    <3>3. n \notin elected'
      BY <2>2, <3>2 DEF Electable
    <3>4. n \in V => NoMore(b)
      BY <1>4, <2>2, <3>2, NoMoreNext
    <3> QED
      BY <3>3, <3>4
  <2> QED
    BY <2>3, <2>4
<1>17. \A n \in Nodes : Allowed(B, V, n, chain[n])
  <2> TAKE n \in Nodes
  <2>1. Sane(chain[n], B.num - 1) /\ Sane(ThawedBy(B, n, chain[n]), B.num)
    BY <1>5, <1>7, <1>11
  <2>2. n \in B.low => Elects(B.num) /\ chain[n].st \in {"candidate", "leaving"} /\ chain[n].reported = 0
    BY <1>5, <1>9
  <2>3. B.num = 1 => Thaw(chain[n], Epoch(1)) = chain[n]
    BY <1>4, <1>5 DEF FollowInv
  <2>4. chain[n].reported > 0 /\ n \in V => ConsensusRound(B.num) =< ConsensusRound(chain[n].reported) + 1
    BY <1>5, <1>15
  <2>5. B.tx # NoTx /\ B.tx.node = n =>
          IF B.tx.type = "create" THEN ThawedBy(B, n, chain[n]).st = "out" /\ B.tx.amount >= Threshold
          ELSE ThawedBy(B, n, chain[n]).st = "candidate" /\ (B.tx.type = "report" => B.tx.sbn = chain[n].sbn)
    BY <1>5, <1>11, <1>12
  <2> QED
    BY <2>1, <2>2, <2>3, <2>4, <2>5 DEF Allowed
<1>18. PICK C : C = chain
  OBVIOUS
<1>19. Underway(C)'
  <2>1. C \in [Nodes -> Rec] /\ B.num # 0 /\ \A m, n \in B.low : m = n
    BY <1>4, <1>5, <1>10, <1>18
  <2>2. \A n \in Nodes : Allowed(B, V, n, C[n]) /\ chain'[n] = AppliedBy(B, n, C[n])
    BY <1>5, <1>13, <1>17, <1>18
  <2>3. \A n \in Nodes : Follows(saved', n, C[n])
    BY <1>2, <1>3, <1>18 DEF Rests
  <2> QED
    BY <1>2, <1>5, <2>1, <2>2, <2>3 DEF Underway, V
<1>20. Reached("election", db, reports, C)'
  <2> SUFFICES ASSUME NEW n \in Nodes
               PROVE  /\ Follows(db', n, C[n]) /\ Keeps(saved', db', n)
                      /\ reports'[n] = QueueOf(db', n, C[n])
                      /\ Waiting(db', n, C[n]) => Timely("election", n, C[n])' /\ ReportSeen'
    BY DEF Reached, At
  <2>1. /\ Follows(db', n, C[n]) /\ Keeps(saved', db', n) /\ reports'[n] = QueueOf(db', n, C[n])
        /\ Waiting(db', n, C[n]) => Due(n, C[n])
    <3>1. db' = saved /\ saved' = saved /\ reports' = reports
      BY <1>2, <1>3
    <3>2. /\ Follows(saved, n, C[n]) /\ reports[n] = QueueOf(saved, n, C[n])
          /\ Waiting(saved, n, C[n]) => Due(n, C[n])
      BY <1>3, <1>18 DEF Rests
    <3> QED
      BY <3>1, <3>2, SameSelf, KeepsSame
  <2>2. Waiting(db', n, C[n]) => ReportSeen'
    BY <1>2, <1>3 DEF Waiting, ReportSeen
  <2>3. ASSUME Due(n, C[n]) PROVE Timely("election", n, C[n])'
    <3>1. CASE OpensConsensus(b)
      BY <1>5, <3>1 DEF Timely
    <3>2. CASE ~OpensConsensus(b)
      <4>1. V = validators /\ ConsensusRound(b) = ConsensusRound(block.num)
        BY <1>1, <1>4, <3>2, NextRound DEF NextBlock, V
      <4>2. n \in V \/ ConsensusRound(C[n].reported) = ConsensusRound(B.num)
        BY <1>5, <2>3, <4>1 DEF Due
      <4> QED
        BY <1>5, <4>2 DEF Timely, Due, V
    <3> QED
      BY <3>1, <3>2
  <2> QED
    BY <2>1, <2>2, <2>3
<1>21. \A n \in Nodes : Sane(chain'[n], block'.num) /\ InTime(n, chain'[n], validators', elected', block'.num)
  BY <1>5, <1>14, <1>16, <1>a DEF V, InTime
<1>22. block'.num # 0
  BY <1>4, <1>5
<1>23. Reached(pc, db, reports, C)'
  BY <1>2, <1>20 DEF Reached
<1>24. (IF pc = "idle" THEN Rests ELSE \E D : Underway(D) /\ Reached(pc, db, reports, D))'
  BY <1>2, <1>19, <1>23
<1> QED
  BY <1>21, <1>22, <1>24 DEF FollowInv

-----------------------------------------------------------------------------
(* What follows of the committed tables *)

\* The committed tables follow the chain's records, those before the block in work.
LEMMA SavedFollows ==
  ASSUME TypeInv, FollowInv
  PROVE  \E C \in [Nodes -> Rec] : \A n \in Nodes : Follows(saved, n, C[n])
<1>1. CASE pc = "idle"
  <2>1. chain \in [Nodes -> Rec] /\ \A n \in Nodes : Follows(saved, n, chain[n])
    BY <1>1 DEF TypeInv, Typed, FollowInv, Rests
  <2> QED
    BY <2>1
<1>2. CASE pc # "idle"
  <2>1. PICK C : Underway(C)
    BY <1>2 DEF FollowInv
  <2>2. C \in [Nodes -> Rec] /\ \A n \in Nodes : Follows(saved, n, C[n])
    BY <2>1 DEF Underway
  <2> QED
    BY <2>2
<1> QED
  BY <1>1, <1>2

LEMMA CopyIs ==
  ASSUME NEW q \in Row, NEW r \in Row, Copies(q, r)
  PROVE  q = [r EXCEPT !.thaw = q.thaw]
BY DEF Row, Copies

LEMMA RowsAgree == TypeInv /\ FollowInv => NodeRowsAgree
<1> SUFFICES ASSUME TypeInv, FollowInv PROVE NodeRowsAgree
  OBVIOUS
<1>1. PICK C \in [Nodes -> Rec] : \A n \in Nodes : Follows(saved, n, C[n])
  BY SavedFollows
<1>2. TableOK(saved)
  BY DEF TypeInv, Stored
<1>3. /\ Rows \subseteq Nodes \X Nat /\ DOMAIN saved.node \subseteq Nodes
      /\ \A k \in Rows : saved.staking[k] \in Row
      /\ \A n \in DOMAIN saved.node : saved.node[n].row \in Row
  BY <1>2 DEF TableOK, Rows
<1>4. \A k \in Rows : k[1] \in Nodes /\ k[2] \in Nat
  BY <1>3
<1>5. ASSUME NEW j \in Rows, NEW k \in Rows, j[1] = k[1], saved.staking[j].status # EXITED,
             saved.staking[k].status # EXITED
      PROVE  j = k
  <2> DEFINE n == j[1]
             last == Key(n, C[n].sbn)
  <2>1. Has(saved, n, C[n])
    BY <1>1, <1>4, HasSome DEF Rows
  <2>2. \A x \in Rows : x[1] = n /\ saved.staking[x].status # EXITED => x = last
    BY <2>1 DEF Has, Dead, Rows
  <2> HIDE DEF last
  <2> QED
    BY <1>5, <2>2
<1>6. ASSUME NEW n \in DOMAIN saved.node
      PROVE  LET row == saved.node[n].row
                 s == saved.node[n].sbn
                 last == saved.staking[Key(n, s)]
             IN /\ \A k \in Rows : k[1] = n => k[2] =< s
                /\ row = [last EXCEPT !.thaw = row.thaw]
  <2> DEFINE s == saved.node[n].sbn
             row == saved.node[n].row
  <2>1. n \in Nodes /\ C[n] \in Rec /\ Has(saved, n, C[n])
    BY <1>1, <1>3 DEF Follows, Never
  <2>2. s = C[n].sbn /\ s \in Nat
    BY <2>1, RecFields DEF Has
  <2>3. \A k \in Rows : k[1] = n => k[2] =< s
    <3> TAKE k \in Rows
    <3>1. k = Key(n, s) => k[2] = s
      BY KeyIs
    <3>2. k[1] = n /\ k # Key(n, s) => k[2] < s
      BY <2>1, <2>2 DEF Has, Rows
    <3> QED
      BY <1>4, <2>2, <3>1, <3>2
  <2>4. row \in Row /\ saved.staking[Key(n, s)] \in Row /\ Copies(row, saved.staking[Key(n, s)])
    BY <1>3, <2>1, <2>2 DEF Has, Rows
  <2>5. row = [saved.staking[Key(n, s)] EXCEPT !.thaw = row.thaw]
    BY <2>4, CopyIs
  <2> QED
    BY <2>3, <2>5
<1> QED
  BY <1>5, <1>6 DEF NodeRowsAgree, OneActiveStaking, NodeMirrorsStaking

LEMMA AmountIs ==
  ASSUME NEW r, NEW c, Match(r, c), ~MatchReported(r, c)
  PROVE  r.locked = 0 \/ r.reduction = 0
BY DEF Match, MatchCandidate, MatchLocked, MatchLeaving, MatchOut, Dead

LEMMA AmountsAreOne == TypeInv /\ FollowInv => OneAmount
<1> SUFFICES ASSUME TypeInv, FollowInv PROVE OneAmount
  OBVIOUS
<1>1. PICK C \in [Nodes -> Rec] : \A n \in Nodes : Follows(saved, n, C[n])
  BY SavedFollows
<1>2. TableOK(saved)
  BY DEF TypeInv, Stored
<1>3. DOMAIN saved.node \subseteq Nodes /\ \A k \in Rows : k[1] \in Nodes
  BY <1>2 DEF TableOK, Rows
<1>4. \A n \in Nodes : Has(saved, n, C[n]) =>
        saved.staking[Key(n, C[n].sbn)].locked = 0 \/ saved.staking[Key(n, C[n].sbn)].reduction = 0
  BY AmountIs DEF Has, MatchReported
<1>5. ASSUME NEW k \in Rows PROVE saved.staking[k].locked = 0 \/ saved.staking[k].reduction = 0
  <2> DEFINE n == k[1]
  <2>1. n \in Nodes /\ Has(saved, n, C[n])
    BY <1>1, <1>3, HasSome DEF Rows
  <2>2. k = Key(n, C[n].sbn) \/ Dead(saved.staking[k])
    BY <2>1 DEF Has, Rows
  <2> QED
    BY <1>4, <2>1, <2>2 DEF Dead
<1>6. ASSUME NEW n \in DOMAIN saved.node
      PROVE  saved.node[n].row.locked = 0 \/ saved.node[n].row.reduction = 0
  <2>1. n \in Nodes /\ Has(saved, n, C[n])
    BY <1>1, <1>3 DEF Follows, Never
  <2> QED
    BY <1>4, <2>1 DEF Has, Copies
<1> QED
  BY <1>5, <1>6 DEF OneAmount

LEMMA RowsFollow == TypeInv /\ FollowInv => RowFollowsChain
<1> SUFFICES ASSUME FollowInv, pc = "idle", NEW n \in Nodes, Known(n)
             PROVE  /\ \/ RowOf(n).status = Shown(chain[n].st)
                       \/ RowOf(n).status = CANDIDATE /\ RowOf(n).exc = REPORTED /\ chain[n].st = "leaving"
                    /\ chain[n].st \in {"candidate", "locked"} =>
                         RowOf(n).hes = chain[n].hes /\ RowOf(n).locked = chain[n].locked
                    /\ chain[n].st = "leaving" => RowOf(n).end = chain[n].until * SettlePeriod
  BY DEF RowFollowsChain, StatusFollowsChain, AmountsFollowChain, EndFollowsChain
<1> DEFINE r == RowOf(n)
           c == chain[n]
<1>1. Has(saved, n, c)
  <2>1. Follows(saved, n, c)
    BY DEF FollowInv, Rests
  <2>2. Key(n, c.sbn) \in DOMAIN saved.staking /\ Key(n, c.sbn)[1] = n
    BY KeyIs DEF Known, Rows
  <2> QED
    BY <2>1, <2>2, HasSome
<1>2. Match(r, c)
  BY <1>1 DEF Has, RowOf
<1> HIDE DEF r, c
<1>3. CASE MatchCandidate(r, c)
  BY <1>3 DEF MatchCandidate, Shown, r, c
<1>4. CASE MatchLocked(r, c)
  BY <1>4 DEF MatchLocked, Shown, r, c
<1>5. CASE MatchLeaving(r, c)
  BY <1>5 DEF MatchLeaving, Shown, r, c
<1>6. CASE MatchReported(r, c)
  BY <1>6 DEF MatchReported, Shown, r, c
<1>7. CASE MatchOut(r, c)
  BY <1>7 DEF MatchOut, Dead, Shown, r, c
<1> QED
  BY <1>2, <1>3, <1>4, <1>5, <1>6, <1>7 DEF Match

LEMMA PunishedInTime == TypeInv /\ FollowInv => PunishedAtSwitch
<1> SUFFICES ASSUME TypeInv, FollowInv, pc = "idle", NEW n \in Nodes, chain[n].reported > 0, n \notin validators,
                    ConsensusRound(chain[n].reported) < ConsensusRound(block.num)
             PROVE  RowOf(n).exc = PUNISHED
  BY DEF PunishedAtSwitch
<1> DEFINE r == RowOf(n)
           c == chain[n]
<1>1. /\ Follows(saved, n, c) /\ Sane(c, block.num) /\ c.st \in {"leaving", "out"}
      /\ Waiting(saved, n, c) => Due(n, c)
  <2>1. chain[n] \in Rec
    BY DEF TypeInv, Typed
  <2>2. Sane(chain[n], block.num) /\ Follows(saved, n, chain[n])
        /\ (Waiting(saved, n, chain[n]) => Due(n, chain[n]))
    BY DEF FollowInv, Rests
  <2>3. c.st \in {"leaving", "out"}
    BY <2>1, <2>2, RecFields DEF Sane, Standings
  <2> QED
    BY <2>2, <2>3
<1>2. Has(saved, n, c)
  BY <1>1 DEF Follows, Out
<1>3. ~Waiting(saved, n, c)
  <2>1. ConsensusRound(c.reported) \in Nat
    BY RecFields, EpochIs DEF TypeInv, Typed
  <2>2. ~Due(n, c)
    <3>1. ConsensusRound(c.reported) < ConsensusRound(block.num) /\ block.num \in Nat
      BY DEF TypeInv, Typed, Block
    <3>2. ConsensusRound(block.num) \in Nat
      BY <3>1, EpochIs
    <3>3. ConsensusRound(c.reported) # ConsensusRound(block.num)
      BY <2>1, <3>1, <3>2
    <3> QED
      BY <3>3 DEF Due
  <2> QED
    BY <1>1, <2>2
<1>4. Match(r, c) /\ r.exc # REPORTED /\ c.reported > 0
  BY <1>2, <1>3 DEF Has, Waiting, RowOf
<1> HIDE DEF r, c
<1>5. r.exc = PUNISHED
  BY <1>1, <1>4 DEF Match, MatchCandidate, MatchLocked, MatchLeaving, MatchReported, MatchOut
<1> QED
  BY <1>5 DEF r

LEMMA ExitedStay ==
  ASSUME TypeInv, FollowInv, [Next]_vars
  PROVE  \A k \in Rows : saved.staking[k].status = EXITED => saved'.staking[k] = saved.staking[k]
<1>1. CASE Commit
  <2>1. pc = "commit" /\ saved' = db
    BY <1>1 DEF Commit
  <2>2. PICK C : Reached(pc, db, reports, C)
    BY <2>1 DEF FollowInv
  <2>3. \A k \in Rows : k[1] \in Nodes
    BY DEF TypeInv, Stored, TableOK, Rows
  <2>4. \A n \in Nodes : Keeps(saved, db, n)
    BY <2>2 DEF Reached
  <2> QED
    BY <2>1, <2>3, <2>4 DEF Keeps, Rows
<1>2. CASE Produce \/ Election \/ Consensus \/ Settle \/ Txs \/ Fail \/ Crash
  BY <1>2 DEF Produce, Election, Consensus, Settle, Txs, Fail, Crash
<1>3. CASE UNCHANGED vars
  BY <1>3 DEF vars
<1> QED
  BY <1>1, <1>2, <1>3 DEF Next

-----------------------------------------------------------------------------
(* The theorems *)

LEMMA FollowsNext == Survivable /\ TypeInv /\ FollowInv /\ [Next]_vars => FollowInv'
<1> SUFFICES ASSUME Survivable, TypeInv, FollowInv, [Next]_vars PROVE FollowInv'
  OBVIOUS
<1>1. CASE Produce
  BY <1>1, FollowsProduce
<1>2. CASE Election
  BY <1>2, FollowsElection
<1>3. CASE Consensus
  BY <1>3, FollowsConsensus
<1>4. CASE Settle
  BY <1>4, FollowsSettle
<1>5. CASE Txs
  BY <1>5, FollowsTxs
<1>6. CASE Commit
  BY <1>6, FollowsCommit
<1>7. CASE Fail
  BY <1>7, FollowsFail
<1>8. CASE Crash
  BY <1>8, FollowsCrash
<1>9. CASE UNCHANGED vars
  BY <1>9, FollowsStutter
<1> QED
  BY <1>1, <1>2, <1>3, <1>4, <1>5, <1>6, <1>7, <1>8, <1>9 DEF Next

LEMMA FollowsAlways ==
  ASSUME Survivable
  PROVE  Spec => [](TypeInv /\ FollowInv)
<1>1. TypeInv /\ FollowInv /\ [Next]_vars => TypeInv' /\ FollowInv'
  BY TypesAlways, FollowsNext
<1>2. Init => TypeInv /\ FollowInv
  BY TypesAtInit, FollowsAtInit
<1> QED
  BY <1>1, <1>2, PTL DEF Spec

\* A node has one active staking at the most, its last, and its node row is a copy
\* of it: handlers that find rows by the node alone and handlers that find them by
\* node and block work on the same staking.
THEOREM StakingRowsAgree ==
  ASSUME Survivable
  PROVE  Spec => []NodeRowsAgree
BY FollowsAlways, RowsAgree, PTL

\* Of the locked and the redeemable amount only one ever has a value, so that a
\* double-sign slash (OnConsensusAnalyzer) takes its half from the right one.
THEOREM StakingOneAmount ==
  ASSUME Survivable
  PROVE  Spec => []OneAmount
BY FollowsAlways, AmountsAreOne, PTL

\* After every committed block each staking has the chain's status, its free and its
\* locked stake and its end block, whatever handlers ran on it and in what order.
THEOREM StakingRowsFollow ==
  ASSUME Survivable
  PROVE  Spec => []RowFollowsChain
BY FollowsAlways, RowsFollow, PTL

\* A reported node is punished in the tables as soon as a consensus period has begun
\* in which it does not validate: its report is neither lost nor left waiting.
THEOREM ReportsPunishedInTime ==
  ASSUME Survivable
  PROVE  Spec => []PunishedAtSwitch
BY FollowsAlways, PunishedInTime, PTL

\* No commit changes a staking that is exited: no handler revives it, takes stake
\* from it or gives it stake.
THEOREM ExitedStaysExited ==
  ASSUME Survivable
  PROVE  Spec => ExitedFinal
<1>1. TypeInv /\ FollowInv /\ [Next]_vars =>
        [\A k \in Rows : saved.staking[k].status = EXITED => saved'.staking[k] = saved.staking[k]]_vars
  BY ExitedStay
<1> QED
  BY <1>1, FollowsAlways, PTL DEF Spec, ExitedFinal
=============================================================================
