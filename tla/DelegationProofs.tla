-------------------------- MODULE DelegationProofs --------------------------
(***************************************************************************)
(* What holds of the delegations of Delegation.tla for any delegators,     *)
(* amounts and stakings: the rows are well typed, an ended one is not      *)
(* deleted before Elasticsearch has it, the totals are those of the rows,  *)
(* and until a retry analyses a transaction again the rows follow the      *)
(* chain.                                                                  *)
(*                                                                         *)
(* The parts of a delegation are where they can be: released only once its *)
(* staking has ended, free or locked only before.  One analysis of a       *)
(* transaction keeps that and the sums, hence any number of them does.     *)
(***************************************************************************)
EXTENDS Delegation, FiniteSetTheorems, Induction, TLAPS

StakingRow == [status : {CANDIDATE, EXITING, EXITED}, hes : Int, locked : Int, released : Int]

\* Tables as functions to records.
Shaped(d, s, m) == d \in [DOMAIN d -> Row] /\ s \in [1..m -> StakingRow]

\* Where the parts of a delegation are.
PartsIn(d, s, m) ==
  \A k \in DOMAIN d :
    /\ k[2] \in 1..m
    /\ s[k[2]].status = CANDIDATE => d[k].released = 0
    /\ s[k[2]].status # CANDIDATE => d[k].hes = 0 /\ d[k].locked = 0
    /\ d[k].history => Total(d[k]) = 0

Shape == Shaped(delegation, staking, last)
PartsInv == PartsIn(delegation, staking, last)

\* The task deletes what it has stored.
TaskInv == task = "delete" => picked \subseteq es

\* The block's transactions are in the list once more for each failed attempt.
CopiesInv == fails \in 0..MaxFail /\ copies \in 1..(fails + 1)

DelegInv ==
  /\ TypeOK /\ Shape /\ PartsInv /\ TaskInv /\ CopiesInv
  /\ exact => RowsAreOwed

-----------------------------------------------------------------------------

\* The row that is delegated to again.
LEMMA RevivedRow ==
  ASSUME NEW r \in Row, NEW s, s = [r EXCEPT !.history = FALSE]
  PROVE  s \in Row /\ s.hes = r.hes /\ s.locked = r.locked /\ s.released = r.released
         /\ ~s.history
BY DEF Row

LEMMA AddedRow ==
  ASSUME NEW r \in Row, NEW n \in Nat, NEW s, s = [r EXCEPT !.hes = @ + n, !.history = FALSE]
  PROVE  s \in Row /\ s.hes = r.hes + n /\ s.locked = r.locked /\ s.released = r.released
         /\ ~s.history
<1> DEFINE added == [r EXCEPT !.hes = @ + n]
<1>1. added \in Row /\ added.hes = r.hes + n /\ added.locked = r.locked
      /\ added.released = r.released
  BY DEF Row
<1>2. s = [added EXCEPT !.history = FALSE]
  OBVIOUS
<1> HIDE DEF added
<1> QED
  BY <1>1, <1>2, RevivedRow

LEMMA DelegInit == Init => DelegInv
<1> SUFFICES ASSUME Init PROVE DelegInv
  OBVIOUS
<1> USE DelegationAssumption
<1>1. DOMAIN delegation = {}
  BY DEF Init
<1>2. DOMAIN staking = 1..last
  BY DEF Init
<1>3. TypeOK
  BY <1>1, <1>2 DEF Init, TypeOK
<1>4. Shape
  BY <1>1, <1>2 DEF Init, Shape, Shaped, StakingRow, NewStaking, CANDIDATE
<1>5. PartsInv /\ RowsAreOwed /\ TaskInv /\ CopiesInv
  BY <1>1 DEF Init, PartsInv, PartsIn, RowsAreOwed, RowTotal, TaskInv, CopiesInv
<1> QED
  BY <1>3, <1>4, <1>5 DEF DelegInv

-----------------------------------------------------------------------------
(* Taking back *)

\* The row whose mark is set.
LEMMA MarkedRow ==
  ASSUME NEW r \in Row, NEW h \in BOOLEAN, NEW s, s = [r EXCEPT !.history = h]
  PROVE  s \in Row /\ s.hes = r.hes /\ s.locked = r.locked /\ s.released = r.released
         /\ (s.history <=> h)
BY DEF Row

\* What is left of a row after a refund, where the parts are what they can be.
LEMMA RefundedParts ==
  ASSUME NEW r \in Row, NEW n \in Nat, NEW leaving \in BOOLEAN,
         leaving => r.hes = 0 /\ r.locked = 0, ~leaving => r.released = 0,
         NEW b, b = Balance(r, leaving, RealRefund(r, n))
  PROVE  /\ b \in Row
         /\ leaving => b.hes = 0 /\ b.locked = 0
         /\ ~leaving => b.released = 0
         /\ Total(b) = IF RefundsAll(r, n) THEN 0 ELSE Total(r) - n
<1> USE DelegationAssumption
<1> DEFINE real == RealRefund(r, n)
<1>1. r.hes \in Nat /\ r.locked \in Nat /\ r.released \in Nat
  BY DEF Row
<1>2. real \in Nat /\ real =< Total(r) /\ real = IF RefundsAll(r, n) THEN Total(r) ELSE n
  BY <1>1 DEF RealRefund, RefundsAll, Total
<1>3. b = Balance(r, leaving, real)
  OBVIOUS
<1> HIDE DEF real
<1>4. CASE leaving
  <2>1. b = [r EXCEPT !.hes = 0, !.locked = 0, !.released = NotNegative(@ - real)]
    BY <1>3, <1>4 DEF Balance
  <2>2. NotNegative(r.released - real) = r.released - real /\ r.released - real \in Nat
    BY <1>1, <1>2, <1>4 DEF NotNegative, Total
  <2>3. b \in Row /\ b.hes = 0 /\ b.locked = 0 /\ b.released = r.released - real
    BY <2>1, <2>2 DEF Row
  <2>4. r.hes = 0 /\ r.locked = 0
    BY <1>4
  <2>5. Total(r) = r.released
    BY <1>1, <2>4 DEF Total
  <2>6. Total(b) = r.released - real
    BY <2>2, <2>3 DEF Total
  <2>7. Total(b) = IF RefundsAll(r, n) THEN 0 ELSE Total(r) - n
    BY <1>1, <1>2, <2>5, <2>6
  <2> QED
    BY <1>4, <2>3, <2>7
<1>5. CASE ~leaving /\ r.hes >= real
  <2>1. b = [r EXCEPT !.hes = @ - real]
    BY <1>3, <1>5 DEF Balance
  <2>2. b \in Row /\ b.hes = r.hes - real /\ b.locked = r.locked /\ b.released = r.released
    BY <1>1, <1>2, <1>5, <2>1 DEF Row
  <2> QED
    BY <1>1, <1>2, <1>5, <2>2 DEF Total
<1>6. CASE ~leaving /\ ~(r.hes >= real)
  <2>1. b = [r EXCEPT !.hes = 0, !.locked = NotNegative(@ + r.hes - real)]
    BY <1>3, <1>6 DEF Balance
  <2>2. NotNegative(r.locked + r.hes - real) = r.locked + r.hes - real
        /\ r.locked + r.hes - real \in Nat
    BY <1>1, <1>2, <1>6 DEF NotNegative, Total
  <2>3. b \in Row /\ b.hes = 0 /\ b.locked = r.locked + r.hes - real /\ b.released = r.released
    BY <1>1, <2>1, <2>2 DEF Row
  <2> QED
    BY <1>1, <1>2, <1>6, <2>3 DEF Total
<1> QED
  BY <1>4, <1>5, <1>6

LEMMA RefundedRow ==
  ASSUME NEW r \in Row, NEW n \in Nat, NEW leaving \in BOOLEAN,
         leaving => r.hes = 0 /\ r.locked = 0, ~leaving => r.released = 0,
         NEW d, d = [Balance(r, leaving, RealRefund(r, n)) EXCEPT !.history = RefundsAll(r, n)]
  PROVE  /\ d \in Row
         /\ leaving => d.hes = 0 /\ d.locked = 0
         /\ ~leaving => d.released = 0
         /\ d.history => Total(d) = 0
         /\ Total(d) = IF Total(r) - n < Threshold THEN 0 ELSE Total(r) - n
<1>1. PICK b : b = Balance(r, leaving, RealRefund(r, n))
  OBVIOUS
<1>2. /\ b \in Row
      /\ leaving => b.hes = 0 /\ b.locked = 0
      /\ ~leaving => b.released = 0
      /\ Total(b) = IF RefundsAll(r, n) THEN 0 ELSE Total(r) - n
  BY <1>1, RefundedParts
<1>3. PICK h \in BOOLEAN : h <=> RefundsAll(r, n)
  OBVIOUS
<1>4. RefundsAll(r, n) \in BOOLEAN
  BY DEF RefundsAll
<1>5. d = [b EXCEPT !.history = RefundsAll(r, n)]
  BY <1>1, Zenon
<1>6. d \in Row /\ d.hes = b.hes /\ d.locked = b.locked /\ d.released = b.released
      /\ (d.history <=> RefundsAll(r, n))
  BY <1>2, <1>4, <1>5, MarkedRow, Zenon
<1>7. Total(d) = Total(b)
  BY <1>6 DEF Total
<1> QED
  BY <1>2, <1>6, <1>7 DEF RefundsAll

-----------------------------------------------------------------------------
(* The life of the staking *)

\* What a settlement, the end of a staking and a punishment make of a row.
LEMMA LockedRow ==
  ASSUME NEW r \in Row, NEW s, s = [r EXCEPT !.locked = @ + r.hes, !.hes = 0]
  PROVE  s \in Row /\ s.hes = 0 /\ s.locked = r.locked + r.hes /\ s.released = r.released
         /\ (s.history <=> r.history)
<1> DEFINE t == [r EXCEPT !.locked = @ + r.hes]
<1>1. t \in Row /\ t.locked = r.locked + r.hes /\ t.released = r.released
      /\ (t.history <=> r.history)
  BY DEF Row
<1>2. s = [t EXCEPT !.hes = 0]
  OBVIOUS
<1> HIDE DEF t
<1> QED
  BY <1>1, <1>2 DEF Row

LEMMA ReleasedRow ==
  ASSUME NEW r \in Row, NEW s, s = Release(r)
  PROVE  s \in Row /\ s.hes = 0 /\ s.locked = 0 /\ s.released = r.hes + r.locked
         /\ (s.history <=> r.history)
<1> DEFINE t == [r EXCEPT !.released = r.hes + r.locked]
           u == [t EXCEPT !.hes = 0]
<1>1. t \in Row /\ t.released = r.hes + r.locked /\ (t.history <=> r.history)
  BY DEF Row
<1>2. s = [u EXCEPT !.locked = 0]
  BY DEF Release
<1> HIDE DEF t
<1>3. u \in Row /\ u.hes = 0 /\ u.released = r.hes + r.locked /\ (u.history <=> r.history)
  BY <1>1 DEF Row
<1> HIDE DEF u
<1> QED
  BY <1>2, <1>3 DEF Row

\* A row with nothing in it has nothing in its parts.
LEMMA NothingLeft ==
  ASSUME NEW r \in Row, Total(r) = 0
  PROVE  r.hes = 0 /\ r.locked = 0 /\ r.released = 0
BY DEF Row, Total

\* A step that changes no total and keeps the parts where they can be.
LEMMA RowsRewritten ==
  ASSUME DelegInv, UNCHANGED <<owed, last, es, task, picked, exact, fails>>, copies' = 1,
         staking' \in [1..last -> StakingRow],
         DOMAIN delegation' = DOMAIN delegation,
         delegation' = [k \in DOMAIN delegation |-> delegation'[k]],
         \A k \in DOMAIN delegation :
           /\ delegation'[k] \in Row /\ Total(delegation'[k]) = Total(delegation[k])
           /\ delegation'[k].history <=> delegation[k].history
           /\ staking'[k[2]].status = CANDIDATE => delegation'[k].released = 0
           /\ staking'[k[2]].status # CANDIDATE =>
                delegation'[k].hes = 0 /\ delegation'[k].locked = 0
  PROVE  DelegInv'
<1>1. delegation' \in [DOMAIN delegation' -> Row]
  OBVIOUS
<1>2. Shape' /\ TypeOK' /\ CopiesInv'
  BY <1>1, DelegationAssumption DEF DelegInv, Shape, Shaped, TypeOK, CopiesInv
<1>3. PartsInv'
  BY DEF DelegInv, PartsInv, PartsIn, Total
<1>4. RowsAreOwed => RowsAreOwed'
  <2> SUFFICES ASSUME RowsAreOwed, NEW k \in Keys PROVE RowTotal(k)' = owed'[k]
    BY DEF RowsAreOwed
  <2> QED
    BY DEF DelegInv, RowsAreOwed, RowTotal, Total
<1>5. TaskInv'
  BY DEF DelegInv, TaskInv
<1> QED
  BY <1>2, <1>3, <1>4, <1>5 DEF DelegInv

LEMMA RowsAre ==
  ASSUME DelegInv, NEW k \in DOMAIN delegation
  PROVE  /\ delegation[k] \in Row /\ k[2] \in 1..last /\ staking[k[2]] \in StakingRow
         /\ staking[k[2]].status = CANDIDATE => delegation[k].released = 0
         /\ staking[k[2]].status # CANDIDATE => delegation[k].hes = 0 /\ delegation[k].locked = 0
         /\ delegation[k].history => Total(delegation[k]) = 0
BY DEF DelegInv, Shape, Shaped, PartsInv, PartsIn

\* A settlement moves amounts from the free to the locked part.
LEMMA SettleKeeps == ASSUME DelegInv, Settle PROVE DelegInv'
<1>1. PICK over \in SUBSET {g \in DOMAIN staking : staking[g].status = EXITING} :
        staking' = [g \in DOMAIN staking |->
          LET s == staking[g]
              t == IF s.hes > 0 THEN [s EXCEPT !.locked = @ + s.hes, !.hes = 0] ELSE s
          IN [t EXCEPT !.status = IF g \in over THEN EXITED ELSE @]]
  BY Zenon DEF Settle
<1>2. UNCHANGED <<owed, last, es, task, picked, exact, fails>> /\ copies' = 1
  BY DEF Settle, migration, faults
<1>3. DOMAIN staking = 1..last
  BY DEF DelegInv, Shape, Shaped
<1>4. \A g \in 1..last : staking'[g] \in StakingRow
                         /\ (staking'[g].status = CANDIDATE <=> staking[g].status = CANDIDATE)
  <2> TAKE g \in 1..last
  <2>1. PICK s \in StakingRow : s = staking[g]
    BY DEF DelegInv, Shape, Shaped
  <2>2. PICK t : t = IF s.hes > 0 THEN [s EXCEPT !.locked = @ + s.hes, !.hes = 0] ELSE s
    OBVIOUS
  <2>3. PICK u : u = [t EXCEPT !.status = IF g \in over THEN EXITED ELSE @]
    OBVIOUS
  <2>4. staking'[g] = u
    BY <1>1, <1>3, <2>1, <2>2, <2>3, Zenon
  <2>5. t \in StakingRow /\ t.status = s.status
    <3>1. CASE s.hes > 0
      <4>1. PICK v : v = [s EXCEPT !.locked = @ + s.hes]
        OBVIOUS
      <4>2. v \in StakingRow /\ v.status = s.status
        BY <4>1, SMTT(30) DEF StakingRow
      <4>3. t = [v EXCEPT !.hes = 0]
        BY <2>2, <3>1, <4>1, Zenon
      <4> QED
        BY <4>2, <4>3, SMTT(30) DEF StakingRow
    <3>2. CASE ~(s.hes > 0)
      BY <2>2, <3>2, Zenon
    <3> QED
      BY <3>1, <3>2
  <2>6. CASE g \in over
    <3>1. u = [t EXCEPT !.status = EXITED]
      BY <2>3, <2>6, Zenon
    <3>2. u \in StakingRow /\ u.status = EXITED
      BY <2>5, <3>1, SMTT(30) DEF StakingRow
    <3>3. s.status = EXITING
      BY <2>1, <2>6
    <3> QED
      BY <2>1, <2>4, <3>2, <3>3 DEF CANDIDATE, EXITING, EXITED
  <2>7. CASE g \notin over
    <3>1. u = [t EXCEPT !.status = t.status]
      BY <2>3, <2>7, Zenon
    <3>2. u \in StakingRow /\ u.status = t.status
      BY <2>5, <3>1, SMTT(30) DEF StakingRow
    <3> QED
      BY <2>1, <2>4, <2>5, <3>2
  <2> QED
    BY <2>6, <2>7
<1>5. staking' \in [1..last -> StakingRow]
  <2>1. staking' = [g \in 1..last |-> staking'[g]]
    BY <1>1, <1>3, Zenon
  <2> QED
    BY <1>4, <2>1
<1>6. delegation' = [k \in DOMAIN delegation |->
        IF ~delegation[k].history /\ delegation[k].hes > 0
        THEN [delegation[k] EXCEPT !.locked = @ + delegation[k].hes, !.hes = 0]
        ELSE delegation[k]]
  BY Zenon DEF Settle
<1>7. DOMAIN delegation' = DOMAIN delegation
      /\ delegation' = [k \in DOMAIN delegation |-> delegation'[k]]
  BY <1>6, Zenon
<1>8. ASSUME NEW k \in DOMAIN delegation
      PROVE  /\ delegation'[k] \in Row /\ Total(delegation'[k]) = Total(delegation[k])
             /\ delegation'[k].history <=> delegation[k].history
             /\ staking'[k[2]].status = CANDIDATE => delegation'[k].released = 0
             /\ staking'[k[2]].status # CANDIDATE =>
                  delegation'[k].hes = 0 /\ delegation'[k].locked = 0
  <2>1. PICK r \in Row : r = delegation[k]
    BY RowsAre
  <2>2. CASE ~r.history /\ r.hes > 0
    <3>1. PICK s : s = [r EXCEPT !.locked = @ + r.hes, !.hes = 0]
      OBVIOUS
    <3>2. delegation'[k] = s
      BY <1>6, <2>1, <2>2, <3>1, Zenon
    <3>3. s \in Row /\ s.hes = 0 /\ s.locked = r.locked + r.hes /\ s.released = r.released
          /\ (s.history <=> r.history)
      BY <3>1, LockedRow
    <3>4. Total(s) = Total(r)
      BY <3>3 DEF Total, Row
    <3>5. staking[k[2]].status = CANDIDATE
      BY <2>1, <2>2, RowsAre
    <3> QED
      BY <1>4, <2>1, <3>2, <3>3, <3>4, <3>5, RowsAre
  <2>3. CASE ~(~r.history /\ r.hes > 0)
    <3>1. delegation'[k] = delegation[k]
      BY <1>6, <2>1, <2>3, Zenon
    <3> QED
      BY <1>4, <3>1, RowsAre
  <2> QED
    BY <2>2, <2>3
<1> QED
  BY <1>2, <1>5, <1>7, <1>8, RowsRewritten

\* The totals of a staking that ends.
LEMMA EndedStaking ==
  ASSUME NEW s \in StakingRow, NEW st \in {EXITING, EXITED}, NEW t, t = EndedTotals(s, st)
  PROVE  t \in StakingRow /\ t.status # CANDIDATE
<1>1. PICK v : v = [s EXCEPT !.status = st]
  OBVIOUS
<1>2. v \in StakingRow /\ v.status = st
  BY <1>1, SMTT(30) DEF StakingRow
<1>3. PICK w : w = [v EXCEPT !.hes = 0]
  OBVIOUS
<1>4. w \in StakingRow /\ w.status = st
  BY <1>2, <1>3, SMTT(30) DEF StakingRow
<1>5. PICK x : x = [w EXCEPT !.locked = 0]
  OBVIOUS
<1>6. x \in StakingRow /\ x.status = st
  BY <1>4, <1>5, SMTT(30) DEF StakingRow
<1>7. t = [x EXCEPT !.released = s.hes + s.locked]
  BY <1>1, <1>3, <1>5, Zenon DEF EndedTotals
<1>8. t \in StakingRow /\ t.status = st
  BY <1>6, <1>7, SMTT(30) DEF StakingRow
<1> QED
  BY <1>8 DEF CANDIDATE, EXITING, EXITED

\* The last staking has ended; the others are as they were.
LEMMA LastEnds ==
  ASSUME DelegInv, NEW st \in {EXITING, EXITED},
         staking' = [staking EXCEPT ![last] = EndedTotals(@, st)]
  PROVE  /\ staking' \in [1..last -> StakingRow] /\ staking'[last].status # CANDIDATE
         /\ \A g \in 1..last : g # last => staking'[g] = staking[g]
<1>1. staking \in [1..last -> StakingRow] /\ last \in 1..last
  BY DelegationAssumption DEF DelegInv, Shape, Shaped, TypeOK
<1>2. PICK s \in StakingRow : s = staking[last]
  BY <1>1
<1>3. PICK t : t = EndedTotals(s, st)
  OBVIOUS
<1>4. t \in StakingRow /\ t.status # CANDIDATE
  BY <1>3, EndedStaking
<1>5. staking' = [staking EXCEPT ![last] = t]
  BY <1>2, <1>3, Zenon
<1> QED
  BY <1>1, <1>4, <1>5

\* A punishment adds to what is released already.
LEMMA PunishKeeps == ASSUME DelegInv, Punish PROVE DelegInv'
<1>1. staking' = [staking EXCEPT ![last] = EndedTotals(@, EXITING)]
  BY Zenon DEF Punish
<1>2. UNCHANGED <<owed, last, es, task, picked, exact, fails>> /\ copies' = 1
  BY DEF Punish, migration, faults
<1>3. /\ staking' \in [1..last -> StakingRow] /\ staking'[last].status # CANDIDATE
      /\ \A g \in 1..last : g # last => staking'[g] = staking[g]
  BY <1>1, LastEnds, Zenon
<1>4. delegation' = [k \in DOMAIN delegation |->
        IF k[2] = last /\ ~delegation[k].history
        THEN [Release(delegation[k]) EXCEPT !.released = @ + delegation[k].released]
        ELSE delegation[k]]
  BY Zenon DEF Punish
<1>5. DOMAIN delegation' = DOMAIN delegation
      /\ delegation' = [k \in DOMAIN delegation |-> delegation'[k]]
  BY <1>4, Zenon
<1>6. ASSUME NEW k \in DOMAIN delegation
      PROVE  /\ delegation'[k] \in Row /\ Total(delegation'[k]) = Total(delegation[k])
             /\ delegation'[k].history <=> delegation[k].history
             /\ staking'[k[2]].status = CANDIDATE => delegation'[k].released = 0
             /\ staking'[k[2]].status # CANDIDATE =>
                  delegation'[k].hes = 0 /\ delegation'[k].locked = 0
  <2>1. PICK r \in Row : r = delegation[k]
    BY RowsAre
  <2>2. CASE k[2] = last /\ ~r.history
    <3>1. PICK t : t = Release(r)
      OBVIOUS
    <3>2. PICK s : s = [t EXCEPT !.released = @ + r.released]
      OBVIOUS
    <3>3. delegation'[k] = s
      BY <1>4, <2>1, <2>2, <3>1, <3>2, Zenon
    <3>4. t \in Row /\ t.hes = 0 /\ t.locked = 0 /\ t.released = r.hes + r.locked
          /\ (t.history <=> r.history)
      BY <3>1, ReleasedRow
    <3>5. r.hes \in Nat /\ r.locked \in Nat /\ r.released \in Nat
      BY DEF Row
    <3>6. s \in Row /\ s.hes = 0 /\ s.locked = 0 /\ s.released = t.released + r.released
          /\ (s.history <=> t.history)
      BY <3>2, <3>4, <3>5, SMTT(30) DEF Row
    <3>7. Total(s) = Total(r)
      BY <3>4, <3>5, <3>6 DEF Total
    <3> QED
      BY <1>3, <2>1, <2>2, <3>3, <3>4, <3>6, <3>7
  <2>3. CASE ~(k[2] = last /\ ~r.history)
    <3>1. delegation'[k] = delegation[k]
      BY <1>4, <2>1, <2>3, Zenon
    <3>2. CASE k[2] = last
      <4>1. Total(r) = 0
        BY <2>1, <2>3, <3>2, RowsAre
      <4>2. r.hes = 0 /\ r.locked = 0 /\ r.released = 0
        BY <4>1, NothingLeft
      <4> QED
        BY <2>1, <3>1, <4>2
    <3>3. CASE k[2] # last
      BY <1>3, <3>1, <3>3, RowsAre
    <3> QED
      BY <3>2, <3>3
  <2> QED
    BY <2>2, <2>3
<1> QED
  BY <1>2, <1>3, <1>5, <1>6, RowsRewritten

\* A new staking has no delegations yet.
LEMMA RestakeKeeps == ASSUME DelegInv, Restake PROVE DelegInv'
<1> USE DelegationAssumption
<1>1. /\ last \in 1..MaxStaking /\ last < MaxStaking /\ last' = last + 1
      /\ UNCHANGED <<owed, delegation, es, task, picked, exact, fails>> /\ copies' = 1
      /\ staking \in [1..last -> StakingRow]
  BY DEF Restake, DelegInv, TypeOK, Shape, Shaped, migration, faults
<1>2. last' \in 1..MaxStaking /\ 1..last' = 1..last \cup {last'} /\ last' \notin 1..last
  BY <1>1
<1>3. staking' = [g \in 1..last' |-> IF g = last' THEN NewStaking ELSE staking[g]]
  BY <1>1, <1>2 DEF Restake
<1>4. NewStaking \in StakingRow
  BY DEF NewStaking, StakingRow
<1>5. staking' \in [1..last' -> StakingRow] /\ \A g \in 1..last : staking'[g] = staking[g]
  BY <1>1, <1>2, <1>3, <1>4
<1>6. Shape' /\ TypeOK' /\ CopiesInv'
  BY <1>1, <1>2, <1>5 DEF DelegInv, Shape, Shaped, TypeOK, CopiesInv
<1>7. PartsInv'
  <2> SUFFICES ASSUME NEW k \in DOMAIN delegation
               PROVE  /\ k[2] \in 1..last'
                      /\ staking'[k[2]].status = CANDIDATE => delegation[k].released = 0
                      /\ staking'[k[2]].status # CANDIDATE =>
                           delegation[k].hes = 0 /\ delegation[k].locked = 0
                      /\ delegation[k].history => Total(delegation[k]) = 0
    BY <1>1 DEF PartsInv, PartsIn, Total
  <2> QED
    BY <1>2, <1>5, RowsAre
<1>8. (RowsAreOwed => RowsAreOwed') /\ TaskInv'
  BY <1>1 DEF DelegInv, RowsAreOwed, RowTotal, Total, TaskInv
<1> QED
  BY <1>1, <1>6, <1>7, <1>8 DEF DelegInv

LEMMA CopiesBound ==
  ASSUME NEW m \in Nat, NEW f \in 0..m, NEW c \in 1..(f + 1)
  PROVE  c \in 1..(m + 1)
OBVIOUS

\* Nothing of the tables changes.
LEMMA TablesKept ==
  ASSUME DelegInv, UNCHANGED <<owed, last, delegation, staking, exact>>,
         TaskInv', CopiesInv', es' \subseteq Keys, picked' \subseteq Keys,
         task' \in {"idle", "save", "delete"}
  PROVE  DelegInv'
<1>1. copies' \in 1..(MaxFail + 1)
  <2>1. MaxFail \in Nat
    BY DelegationAssumption
  <2>2. fails' \in 0..MaxFail /\ copies' \in 1..(fails' + 1)
    BY Zenon DEF CopiesInv
  <2> QED
    BY <2>1, <2>2, CopiesBound, Zenon
<1>2. TypeOK' /\ Shape' /\ PartsInv' /\ (RowsAreOwed => RowsAreOwed')
  BY <1>1 DEF DelegInv, Shape, Shaped, TypeOK, PartsInv, PartsIn, RowsAreOwed, RowTotal, Total
<1> QED
  BY <1>2 DEF DelegInv

\* An attempt fails, or the process ends.
LEMMA FaultKeeps == ASSUME DelegInv, Fail \/ Crash PROVE DelegInv'
<1>1. CASE Fail
  <2>1. /\ UNCHANGED <<owed, last, delegation, staking, exact, es, task, picked>>
        /\ fails < MaxFail /\ fails' = fails + 1 /\ copies' = copies + 1
    BY <1>1 DEF Fail, tables, migration
  <2>2. CopiesInv'
    BY <2>1, DelegationAssumption DEF DelegInv, CopiesInv
  <2> QED
    BY <2>1, <2>2, TablesKept DEF DelegInv, TypeOK, TaskInv
<1>2. CASE Crash
  <2>1. /\ UNCHANGED <<owed, last, delegation, staking, exact, es, fails>>
        /\ copies' = 1 /\ task' = "idle" /\ picked' = {}
    BY <1>2 DEF Crash, tables
  <2>2. CopiesInv'
    BY <2>1 DEF DelegInv, CopiesInv
  <2> QED
    BY <2>1, <2>2, TablesKept DEF DelegInv, TypeOK, TaskInv
<1> QED
  BY <1>1, <1>2

\* The task deletes ended rows, which have nothing in them.
LEMMA TaskKeeps ==
  ASSUME DelegInv, TaskSelect \/ TaskSave \/ TaskDelete \/ TaskThrows
  PROVE  DelegInv'
<1>1. UNCHANGED <<owed, last, staking, copies, exact, fails>>
  BY DEF TaskSelect, TaskSave, TaskDelete, TaskThrows, tables, faults
<1>2. CopiesInv'
  BY <1>1 DEF DelegInv, CopiesInv
<1>3. CASE TaskSelect
  <2>1. delegation' = delegation /\ es' = es /\ task' = "save" /\ picked' \subseteq Keys
    BY <1>3 DEF TaskSelect, tables, History, DelegInv, TypeOK
  <2> QED
    BY <1>1, <1>2, <2>1, TablesKept DEF DelegInv, TypeOK, TaskInv
<1>4. CASE TaskSave
  <2>1. delegation' = delegation /\ picked' = picked /\ task' = "delete" /\ es' = es \cup picked
    BY <1>4 DEF TaskSave, tables
  <2> QED
    BY <1>1, <1>2, <2>1, TablesKept DEF DelegInv, TypeOK, TaskInv
<1>5. CASE TaskDelete
  <2>1. /\ es' = es /\ task' = "idle" /\ picked' = {}
        /\ delegation' = [k \in DOMAIN delegation \ ToDelete |-> delegation[k]]
    BY <1>5 DEF TaskDelete
  <2>2. \A k \in DOMAIN delegation : k \in ToDelete => Total(delegation[k]) = 0
    BY RowsAre DEF ToDelete, History
  <2>3. Shape' /\ TypeOK'
    BY <1>1, <2>1 DEF DelegInv, Shape, Shaped, TypeOK
  <2>4. PartsInv'
    BY <1>1, <2>1 DEF DelegInv, PartsInv, PartsIn, Total
  <2>5. RowsAreOwed => RowsAreOwed'
    <3> SUFFICES ASSUME RowsAreOwed, NEW k \in Keys PROVE RowTotal(k)' = owed'[k]
      BY DEF RowsAreOwed
    <3> QED
      BY <1>1, <2>1, <2>2 DEF DelegInv, RowsAreOwed, RowTotal, Total
  <2>6. TaskInv'
    BY <2>1 DEF TaskInv
  <2> QED
    BY <1>1, <1>2, <2>3, <2>4, <2>5, <2>6 DEF DelegInv
<1>6. CASE TaskThrows
  <2>1. delegation' = delegation /\ es' = es /\ task' = "idle" /\ picked' = {}
    BY <1>6 DEF TaskThrows, tables
  <2> QED
    BY <1>1, <1>2, <2>1, TablesKept DEF DelegInv, TypeOK, TaskInv
<1> QED
  BY <1>3, <1>4, <1>5, <1>6

-----------------------------------------------------------------------------
(* Sums over the rows of a table *)

Held(r) == r.hes + r.locked

HeldIn(d) == [k \in DOMAIN d |-> Held(d[k])]
FreedIn(d) == [k \in DOMAIN d |-> d[k].released]
RowsOf(d, g) == {k \in DOMAIN d : k[2] = g}

HeldSum(d, g) == SumFunctionOnSet(HeldIn(d), RowsOf(d, g))
FreedSum(d, g) == SumFunctionOnSet(FreedIn(d), RowsOf(d, g))

\* What has been released in any staking.
FreedOf(s) == [g \in DOMAIN s |-> s[g].released]
EndedSum(s) == SumFunctionOnSet(FreedOf(s), DOMAIN s)

LEMMA RowInts ==
  ASSUME NEW r \in Row
  PROVE  Held(r) \in Nat /\ r.released \in Nat /\ Total(r) = Held(r) + r.released
BY DEF Row, Held, Total

LEMMA RowsFinite ==
  ASSUME NEW D, IsFiniteSet(D), NEW d \in [D -> Row], NEW g
  PROVE  /\ IsFiniteSet(RowsOf(d, g))
         /\ \A k \in RowsOf(d, g) :
              /\ k \in D /\ k[2] = g
              /\ HeldIn(d)[k] = Held(d[k]) /\ Held(d[k]) \in Int
              /\ FreedIn(d)[k] = d[k].released /\ d[k].released \in Int
<1>1. RowsOf(d, g) \subseteq D
  BY DEF RowsOf
<1>2. IsFiniteSet(RowsOf(d, g))
  BY <1>1, FS_Subset
<1>3. \A k \in D : Held(d[k]) \in Nat /\ d[k].released \in Nat
  BY RowInts
<1> QED
  BY <1>1, <1>2, <1>3 DEF RowsOf, HeldIn, FreedIn

\* The sums of a staking change with its own rows only.
LEMMA SumsKept ==
  ASSUME NEW D, IsFiniteSet(D), NEW d \in [D -> Row], NEW e \in [D -> Row], NEW g,
         \A k \in D : k[2] = g => Held(e[k]) = Held(d[k]) /\ e[k].released = d[k].released
  PROVE  HeldSum(e, g) = HeldSum(d, g) /\ FreedSum(e, g) = FreedSum(d, g)
<1>1. RowsOf(e, g) = RowsOf(d, g)
  BY DEF RowsOf
<1>2. IsFiniteSet(RowsOf(d, g))
  BY RowsFinite
<1>3. \A k \in RowsOf(d, g) : /\ HeldIn(d)[k] \in Int /\ HeldIn(e)[k] = HeldIn(d)[k]
                              /\ FreedIn(d)[k] \in Int /\ FreedIn(e)[k] = FreedIn(d)[k]
  BY <1>1, RowsFinite
<1>4. SumFunctionOnSet(HeldIn(e), RowsOf(d, g)) = SumFunctionOnSet(HeldIn(d), RowsOf(d, g))
  BY <1>2, <1>3, SumSame
<1>5. SumFunctionOnSet(FreedIn(e), RowsOf(d, g)) = SumFunctionOnSet(FreedIn(d), RowsOf(d, g))
  BY <1>2, <1>3, SumSame
<1> QED
  BY <1>1, <1>4, <1>5 DEF HeldSum, FreedSum

\* One row is added or rewritten.
RowPut(D, d, y, e) ==
  /\ IsFiniteSet(D) /\ d \in [D -> Row] /\ e \in [D \cup {y} -> Row]
  /\ \A k \in D \ {y} : e[k] = d[k]

LEMMA SumsPut ==
  ASSUME NEW D, NEW d, NEW y, NEW e, RowPut(D, d, y, e)
  PROVE  /\ \A g : g # y[2] => HeldSum(e, g) = HeldSum(d, g) /\ FreedSum(e, g) = FreedSum(d, g)
         /\ HeldSum(e, y[2]) =
              HeldSum(d, y[2]) - (IF y \in D THEN Held(d[y]) ELSE 0) + Held(e[y])
         /\ FreedSum(e, y[2]) =
              FreedSum(d, y[2]) - (IF y \in D THEN d[y].released ELSE 0) + e[y].released
<1> USE DEF RowPut
<1> DEFINE E == D \cup {y}
<1>0. IsFiniteSet(E) /\ e \in [E -> Row]
  BY FS_AddElement
<1> HIDE DEF E
<1>1. ASSUME NEW g, g # y[2]
      PROVE  HeldSum(e, g) = HeldSum(d, g) /\ FreedSum(e, g) = FreedSum(d, g)
  <2>1. RowsOf(e, g) = RowsOf(d, g)
    BY <1>1 DEF RowsOf
  <2>2. IsFiniteSet(RowsOf(d, g))
    BY RowsFinite
  <2>3. \A k \in RowsOf(d, g) : e[k] = d[k]
    BY <1>1 DEF RowsOf
  <2>4. \A k \in RowsOf(d, g) : /\ HeldIn(d)[k] \in Int /\ FreedIn(d)[k] \in Int
                                /\ HeldIn(d)[k] = Held(d[k]) /\ FreedIn(d)[k] = d[k].released
    BY RowsFinite
  <2>5. \A k \in RowsOf(d, g) : HeldIn(e)[k] = Held(e[k]) /\ FreedIn(e)[k] = e[k].released
    BY <1>0, <2>1, RowsFinite
  <2>6. \A k \in RowsOf(d, g) : /\ HeldIn(d)[k] \in Int /\ HeldIn(e)[k] = HeldIn(d)[k]
                                /\ FreedIn(d)[k] \in Int /\ FreedIn(e)[k] = FreedIn(d)[k]
    BY <2>3, <2>4, <2>5
  <2>7. SumFunctionOnSet(HeldIn(e), RowsOf(d, g)) = SumFunctionOnSet(HeldIn(d), RowsOf(d, g))
    BY <2>2, <2>6, SumSame
  <2>8. SumFunctionOnSet(FreedIn(e), RowsOf(d, g)) = SumFunctionOnSet(FreedIn(d), RowsOf(d, g))
    BY <2>2, <2>6, SumSame
  <2> QED
    BY <2>1, <2>7, <2>8 DEF HeldSum, FreedSum
<1> DEFINE g == y[2]  S == RowsOf(d, g)  T == RowsOf(e, g)
<1>2. T = S \cup {y} /\ (y \in S <=> y \in D) /\ y \in T
  BY DEF RowsOf
<1>3. IsFiniteSet(S) /\ \A k \in S : /\ HeldIn(d)[k] \in Int /\ HeldIn(d)[k] = Held(d[k])
                                     /\ FreedIn(d)[k] \in Int /\ FreedIn(d)[k] = d[k].released
  BY RowsFinite
<1>4. \A k \in T : /\ HeldIn(e)[k] \in Int /\ HeldIn(e)[k] = Held(e[k])
                   /\ FreedIn(e)[k] \in Int /\ FreedIn(e)[k] = e[k].released
  BY <1>0, RowsFinite
<1>5. \A k \in S \ {y} : e[k] = d[k]
  BY DEF RowsOf
<1> HIDE DEF S, T
<1>6. \A k \in S \ {y} : HeldIn(e)[k] = HeldIn(d)[k] /\ FreedIn(e)[k] = FreedIn(d)[k]
  BY <1>2, <1>3, <1>4, <1>5
<1>7. SumFunctionOnSet(HeldIn(e), T) = SumFunctionOnSet(HeldIn(d), S)
                                       - (IF y \in S THEN HeldIn(d)[y] ELSE 0) + HeldIn(e)[y]
  <2>1. IsFiniteSet(S) /\ (\A k \in S : HeldIn(d)[k] \in Int) /\ HeldIn(e)[y] \in Int
        /\ T = S \cup {y} /\ \A k \in S \ {y} : HeldIn(e)[k] = HeldIn(d)[k]
    BY <1>2, <1>3, <1>4, <1>6
  <2> QED
    BY <2>1, SumPut
<1>8. SumFunctionOnSet(FreedIn(e), T) = SumFunctionOnSet(FreedIn(d), S)
                                       - (IF y \in S THEN FreedIn(d)[y] ELSE 0) + FreedIn(e)[y]
  <2>1. IsFiniteSet(S) /\ (\A k \in S : FreedIn(d)[k] \in Int) /\ FreedIn(e)[y] \in Int
        /\ T = S \cup {y} /\ \A k \in S \ {y} : FreedIn(e)[k] = FreedIn(d)[k]
    BY <1>2, <1>3, <1>4, <1>6
  <2> QED
    BY <2>1, SumPut
<1>9. /\ (IF y \in S THEN HeldIn(d)[y] ELSE 0) = (IF y \in D THEN Held(d[y]) ELSE 0)
      /\ (IF y \in S THEN FreedIn(d)[y] ELSE 0) = (IF y \in D THEN d[y].released ELSE 0)
      /\ HeldIn(e)[y] = Held(e[y]) /\ FreedIn(e)[y] = e[y].released
  BY <1>2, <1>3, <1>4
<1>10. HeldSum(e, g) = HeldSum(d, g) - (IF y \in D THEN Held(d[y]) ELSE 0) + Held(e[y])
  BY <1>7, <1>9, Zenon DEF HeldSum, S, T
<1>11. FreedSum(e, g) = FreedSum(d, g) - (IF y \in D THEN d[y].released ELSE 0) + e[y].released
  BY <1>8, <1>9, Zenon DEF FreedSum, S, T
<1> QED
  BY <1>1, <1>10, <1>11

\* Nothing in a staking's rows.
LEMMA SumsZero ==
  ASSUME NEW D, IsFiniteSet(D), NEW d \in [D -> Row], NEW g
  PROVE  /\ (\A k \in D : k[2] = g => Held(d[k]) = 0) => HeldSum(d, g) = 0
         /\ (\A k \in D : k[2] = g => d[k].released = 0) => FreedSum(d, g) = 0
<1>1. IsFiniteSet(RowsOf(d, g))
  BY RowsFinite
<1>2. ASSUME \A k \in D : k[2] = g => Held(d[k]) = 0 PROVE HeldSum(d, g) = 0
  <2>1. \A k \in RowsOf(d, g) : HeldIn(d)[k] = 0
    BY <1>2, RowsFinite
  <2> QED
    BY <1>1, <2>1, SumZero DEF HeldSum
<1>3. ASSUME \A k \in D : k[2] = g => d[k].released = 0 PROVE FreedSum(d, g) = 0
  <2>1. \A k \in RowsOf(d, g) : FreedIn(d)[k] = 0
    BY <1>3, RowsFinite
  <2> QED
    BY <1>1, <2>1, SumZero DEF FreedSum
<1> QED
  BY <1>2, <1>3

\* A staking's rows are released.
LEMMA SumsReleased ==
  ASSUME NEW D, IsFiniteSet(D), NEW d \in [D -> Row], NEW e \in [D -> Row], NEW g,
         \A k \in D : k[2] = g => e[k].released = Held(d[k])
  PROVE  FreedSum(e, g) = HeldSum(d, g)
<1>1. RowsOf(e, g) = RowsOf(d, g)
  BY DEF RowsOf
<1>2. IsFiniteSet(RowsOf(d, g))
  BY RowsFinite
<1>3. \A k \in RowsOf(d, g) : HeldIn(d)[k] \in Int /\ FreedIn(e)[k] = HeldIn(d)[k]
  BY <1>1, RowsFinite
<1>4. SumFunctionOnSet(FreedIn(e), RowsOf(d, g)) = SumFunctionOnSet(HeldIn(d), RowsOf(d, g))
  BY <1>2, <1>3, SumSame
<1> QED
  BY <1>1, <1>4 DEF HeldSum, FreedSum

\* Empty rows are deleted.
LEMMA SumsRest ==
  ASSUME NEW D, IsFiniteSet(D), NEW d \in [D -> Row], NEW E \in SUBSET D,
         NEW e, e = [k \in E |-> d[k]], \A k \in D \ E : Total(d[k]) = 0, NEW g
  PROVE  HeldSum(e, g) = HeldSum(d, g) /\ FreedSum(e, g) = FreedSum(d, g)
<1>1. IsFiniteSet(E) /\ e \in [E -> Row]
  BY FS_Subset
<1> DEFINE S == RowsOf(d, g)  T == RowsOf(e, g)
<1>2. T \in SUBSET S /\ \A k \in S \ T : k \in D \ E
  BY DEF RowsOf
<1>3. IsFiniteSet(S) /\ \A k \in S : /\ HeldIn(d)[k] \in Int /\ HeldIn(d)[k] = Held(d[k])
                                     /\ FreedIn(d)[k] \in Int /\ FreedIn(d)[k] = d[k].released
  BY RowsFinite
<1>4. IsFiniteSet(T) /\ \A k \in T : /\ HeldIn(e)[k] = Held(e[k]) /\ FreedIn(e)[k] = e[k].released
                                     /\ e[k] = d[k]
  <2>1. IsFiniteSet(T) /\ \A k \in T : HeldIn(e)[k] = Held(e[k]) /\ FreedIn(e)[k] = e[k].released
    BY <1>1, RowsFinite
  <2>2. \A k \in T : e[k] = d[k]
    BY DEF RowsOf
  <2> QED
    BY <2>1, <2>2
<1> HIDE DEF S, T
<1>5. \A k \in S \ T : HeldIn(d)[k] = 0 /\ FreedIn(d)[k] = 0
  <2> TAKE k \in S \ T
  <2>1. k \in D /\ Total(d[k]) = 0
    BY <1>2
  <2>2. Held(d[k]) = 0 /\ d[k].released = 0
    BY <2>1, NothingLeft DEF Held
  <2> QED
    BY <1>3, <2>2
<1>6. \A k \in T : /\ HeldIn(d)[k] \in Int /\ HeldIn(e)[k] = HeldIn(d)[k]
                   /\ FreedIn(d)[k] \in Int /\ FreedIn(e)[k] = FreedIn(d)[k]
  <2> TAKE k \in T
  <2>1. k \in S
    BY <1>2
  <2> QED
    BY <1>3, <1>4, <2>1
<1>7. /\ SumFunctionOnSet(HeldIn(d), S) = SumFunctionOnSet(HeldIn(d), T)
      /\ SumFunctionOnSet(HeldIn(e), T) = SumFunctionOnSet(HeldIn(d), T)
  <2>1. SumFunctionOnSet(HeldIn(d), S) = SumFunctionOnSet(HeldIn(d), T)
    BY <1>2, <1>3, <1>5, SumRest
  <2>2. SumFunctionOnSet(HeldIn(e), T) = SumFunctionOnSet(HeldIn(d), T)
    BY <1>4, <1>6, SumSame
  <2> QED
    BY <2>1, <2>2
<1>8. /\ SumFunctionOnSet(FreedIn(d), S) = SumFunctionOnSet(FreedIn(d), T)
      /\ SumFunctionOnSet(FreedIn(e), T) = SumFunctionOnSet(FreedIn(d), T)
  <2>1. SumFunctionOnSet(FreedIn(d), S) = SumFunctionOnSet(FreedIn(d), T)
    BY <1>2, <1>3, <1>5, SumRest
  <2>2. SumFunctionOnSet(FreedIn(e), T) = SumFunctionOnSet(FreedIn(d), T)
    BY <1>4, <1>6, SumSame
  <2> QED
    BY <2>1, <2>2
<1> QED
  BY <1>7, <1>8 DEF HeldSum, FreedSum, S, T

-----------------------------------------------------------------------------
(* The totals of the stakings and of the node *)

NodeRow == [value : Int, released : Int, valid : Int, invalid : Int]

\* Only the last staking may not have ended.
EndedBefore(s, m) == \A g \in 1..m : g # m => s[g].status = EXITED

\* The totals are those of the rows; what the node has released is that of its
\* stakings where no exit was analysed twice (once).
HeldRight(d, s, m) == \A g \in 1..m : Held(s[g]) = HeldSum(d, g)
FreedRight(d, s, m) == \A g \in 1..m : s[g].released = FreedSum(d, g)
NodeRight(s, nd, m, once) == nd.value = Held(s[m]) /\ (once => nd.released = EndedSum(s))

OldEnded == EndedBefore(staking, last)
HeldAgree == HeldRight(delegation, staking, last)
FreedAgree == FreedRight(delegation, staking, last)
NodeAgrees == NodeRight(staking, node, last, exact)

\* A punishment of a staking that is leaving sets its released total anew: the
\* released totals are right where there is none.
TotalsInv ==
  /\ DelegInv /\ node \in NodeRow /\ OldEnded /\ HeldAgree
  /\ ~PunishLeaving => FreedAgree /\ NodeAgrees

\* The same of any tables.
SoundRows(d, s, m) ==
  /\ DOMAIN d \subseteq Keys /\ m \in 1..MaxStaking
  /\ Shaped(d, s, m) /\ PartsIn(d, s, m)

Sound(d, s, nd, m, once) ==
  /\ SoundRows(d, s, m) /\ nd \in NodeRow /\ EndedBefore(s, m) /\ HeldRight(d, s, m)
  /\ ~PunishLeaving => FreedRight(d, s, m) /\ NodeRight(s, nd, m, once)

LEMMA KeysFinite == ASSUME NEW S \in SUBSET Keys PROVE IsFiniteSet(S)
<1>1. IsFiniteSet(Addrs) /\ IsFiniteSet(1..MaxStaking)
  <2>1. MaxStaking \in Int /\ 1 \in Int
    BY DelegationAssumption
  <2> QED
    BY <2>1, DelegationAssumption, FS_Interval
<1>2. IsFiniteSet(Keys)
  BY <1>1, FS_Product DEF Keys
<1> QED
  BY <1>2, FS_Subset

LEMMA SoundAre ==
  ASSUME NEW d, NEW s, NEW m, SoundRows(d, s, m)
  PROVE  /\ IsFiniteSet(DOMAIN d) /\ d \in [DOMAIN d -> Row] /\ DOMAIN d \subseteq Keys
         /\ s \in [1..m -> StakingRow] /\ m \in Nat /\ m \in 1..m
BY KeysFinite, DelegationAssumption DEF SoundRows, Shaped

LEMMA TotalsSound ==
  ASSUME TotalsInv
  PROVE  Sound(delegation, staking, node, last, exact)
BY Zenon DEF TotalsInv, DelegInv, TypeOK, Shape, Shaped, PartsInv, PartsIn, OldEnded, EndedBefore, HeldAgree, HeldRight, FreedAgree, FreedRight,
             NodeAgrees, Sound, SoundRows

LEMMA TablesAre ==
  ASSUME TotalsInv
  PROVE  /\ IsFiniteSet(DOMAIN delegation) /\ delegation \in [DOMAIN delegation -> Row]
         /\ DOMAIN delegation \subseteq Keys
         /\ staking \in [1..last -> StakingRow] /\ last \in Nat /\ last \in 1..last
         /\ node \in NodeRow
BY TotalsSound, SoundAre DEF Sound

\* A candidate's delegations have released nothing; a staking that has ended
\* holds nothing.
LEMMA SoundSums ==
  ASSUME NEW d, NEW s, NEW m, SoundRows(d, s, m), NEW g \in 1..m
  PROVE  /\ s[g].status = CANDIDATE => FreedSum(d, g) = 0
         /\ s[g].status # CANDIDATE => HeldSum(d, g) = 0
         /\ HeldSum(d, g) \in Int /\ FreedSum(d, g) \in Int
<1>1. IsFiniteSet(DOMAIN d) /\ d \in [DOMAIN d -> Row]
  BY SoundAre
<1>2. \A k \in DOMAIN d :
        /\ s[k[2]].status = CANDIDATE => d[k].released = 0
        /\ s[k[2]].status # CANDIDATE => Held(d[k]) = 0
  BY DEF SoundRows, PartsIn, Held
<1>3. s[g].status = CANDIDATE => \A k \in DOMAIN d : k[2] = g => d[k].released = 0
  BY <1>2
<1>4. s[g].status # CANDIDATE => \A k \in DOMAIN d : k[2] = g => Held(d[k]) = 0
  BY <1>2
<1>5. HeldSum(d, g) \in Int /\ FreedSum(d, g) \in Int
  <2>1. /\ IsFiniteSet(RowsOf(d, g))
        /\ \A k \in RowsOf(d, g) : HeldIn(d)[k] \in Int /\ FreedIn(d)[k] \in Int
    BY <1>1, RowsFinite
  <2> QED
    BY <2>1, SumInt DEF HeldSum, FreedSum
<1> QED
  BY <1>1, <1>3, <1>4, <1>5, SumsZero

LEMMA TotalsAre ==
  ASSUME TotalsInv, NEW g \in 1..last
  PROVE  /\ staking[g].status = CANDIDATE => FreedSum(delegation, g) = 0
         /\ staking[g].status # CANDIDATE => HeldSum(delegation, g) = 0
         /\ HeldSum(delegation, g) \in Int /\ FreedSum(delegation, g) \in Int
BY TotalsSound, SoundSums, Zenon DEF Sound

LEMMA CountsInt ==
  ASSUME NEW d, DOMAIN d \subseteq Keys, NEW a \in Addrs
  PROVE  OthersDelegating(d, a) \in Nat /\ Delegating(d) \in Nat
<1>1. {k \in DOMAIN d : Live(d, k) /\ d[k].released = 0 /\ k[1] # a} \in SUBSET Keys
  OBVIOUS
<1>2. OthersDelegating(d, a) \in Nat
  BY <1>1, KeysFinite, FS_CardinalityType DEF OthersDelegating
<1>3. {k[1] : k \in {x \in DOMAIN d : ~d[x].history}} \subseteq Addrs
  BY DEF Keys
<1>4. IsFiniteSet({k[1] : k \in {x \in DOMAIN d : ~d[x].history}})
  BY <1>3, FS_Subset, DelegationAssumption
<1> QED
  BY <1>2, <1>4, FS_CardinalityType DEF Delegating

\* The node's row after the end of a staking.
LEMMA NodeEnds ==
  ASSUME NEW n \in NodeRow, NEW d, DOMAIN d \subseteq Keys, NEW x, x = NodeAfterEnd(n, d)
  PROVE  /\ x \in NodeRow /\ x.value = 0 /\ x.released = n.released + n.value
         /\ x.valid = 0
<1>1. {k[1] : k \in {y \in DOMAIN d : ~d[y].history}} \subseteq Addrs
  BY DEF Keys
<1>2. IsFiniteSet({k[1] : k \in {y \in DOMAIN d : ~d[y].history}})
  BY <1>1, FS_Subset, DelegationAssumption
<1>3. Delegating(d) \in Nat
  BY <1>2, FS_CardinalityType DEF Delegating
<1> QED
  BY <1>3 DEF NodeAfterEnd, NodeRow

\* One staking is added or its released total changes.
StakingPut(n, s, y, t) ==
  /\ n \in Nat /\ s \in [1..n -> StakingRow] /\ t \in [1..n \cup {y} -> StakingRow]
  /\ \A x \in 1..n : x # y => t[x].released = s[x].released

LEMMA EndedPut ==
  ASSUME NEW n, NEW s, NEW y, NEW t, StakingPut(n, s, y, t)
  PROVE  EndedSum(t) = EndedSum(s) - (IF y \in 1..n THEN s[y].released ELSE 0) + t[y].released
<1> USE DEF StakingPut
<1>1. IsFiniteSet(1..n)
  BY FS_Interval
<1> DEFINE S == 1..n  T == S \cup {y}
<1>2. DOMAIN s = S /\ DOMAIN t = T
  OBVIOUS
<1>3. \A x \in S : s[x].released \in Int
  BY DEF StakingRow
<1>4. \A x \in T : t[x].released \in Int
  BY DEF StakingRow
<1> HIDE DEF S, T
<1>5. \A x \in S : FreedOf(s)[x] = s[x].released
  BY <1>2 DEF FreedOf
<1>6. \A x \in T : FreedOf(t)[x] = t[x].released
  BY <1>2 DEF FreedOf
<1>7. y \in T /\ T = S \cup {y}
  BY DEF T
<1>8. FreedOf(t)[y] \in Int /\ \A x \in S : FreedOf(s)[x] \in Int
  BY <1>3, <1>4, <1>5, <1>6, <1>7
<1>9. \A x \in S \ {y} : FreedOf(t)[x] = FreedOf(s)[x]
  BY <1>5, <1>6, <1>7 DEF S
<1>10. IsFiniteSet(S)
  BY <1>1 DEF S
<1>11. SumFunctionOnSet(FreedOf(t), T) =
         SumFunctionOnSet(FreedOf(s), S) - (IF y \in S THEN FreedOf(s)[y] ELSE 0) + FreedOf(t)[y]
  <2>1. PICK f, g : f = FreedOf(s) /\ g = FreedOf(t)
    OBVIOUS
  <2>2. /\ IsFiniteSet(S) /\ T = S \cup {y} /\ g[y] \in Int
        /\ \A x \in S : f[x] \in Int
        /\ \A x \in S \ {y} : g[x] = f[x]
    BY <1>7, <1>8, <1>9, <1>10, <2>1
  <2>3. SumFunctionOnSet(g, T) = SumFunctionOnSet(f, S) - (IF y \in S THEN f[y] ELSE 0) + g[y]
    BY <2>2, SumPut
  <2> QED
    BY <2>1, <2>3, Zenon
<1>12. /\ (IF y \in S THEN FreedOf(s)[y] ELSE 0) = (IF y \in S THEN s[y].released ELSE 0)
       /\ FreedOf(t)[y] = t[y].released
  BY <1>5, <1>6, <1>7
<1> QED
  BY <1>2, <1>11, <1>12, Zenon DEF EndedSum, S

LEMMA EndedInt ==
  ASSUME NEW n \in Nat, NEW s \in [1..n -> StakingRow]
  PROVE  EndedSum(s) \in Int
<1>1. IsFiniteSet(1..n) /\ DOMAIN s = 1..n
  BY FS_Interval
<1>2. \A x \in 1..n : FreedOf(s)[x] \in Int
  BY DEF FreedOf, StakingRow
<1> QED
  BY <1>1, <1>2, SumInt DEF EndedSum

LEMMA TotalsInit == Init => TotalsInv
<1> SUFFICES ASSUME Init PROVE TotalsInv
  OBVIOUS
<1>1. DelegInv
  BY DelegInit
<1>2. /\ delegation = [k \in {} |-> 0] /\ DOMAIN delegation = {} /\ last = 1
      /\ staking = [g \in {1} |-> NewStaking] /\ 1..last = {1}
      /\ node = [value |-> 0, released |-> 0, valid |-> 0, invalid |-> 0]
  BY DEF Init
<1>3. node \in NodeRow /\ OldEnded
  BY <1>2 DEF NodeRow, OldEnded, EndedBefore
<1>4. \A g : HeldSum(delegation, g) = 0 /\ FreedSum(delegation, g) = 0
  <2>1. \A g : RowsOf(delegation, g) = {}
    BY <1>2 DEF RowsOf
  <2> QED
    BY <2>1, SumEmpty DEF HeldSum, FreedSum
<1>5. /\ staking[1].hes = 0 /\ staking[1].locked = 0 /\ staking[1].released = 0
      /\ node.value = 0 /\ node.released = 0
  BY <1>2 DEF NewStaking
<1>6. EndedSum(staking) = 0
  <2>1. IsFiniteSet({1}) /\ DOMAIN staking = {1} /\ \A g \in {1} : FreedOf(staking)[g] = 0
    BY <1>2, <1>5, FS_Singleton DEF FreedOf
  <2> QED
    BY <2>1, SumZero DEF EndedSum
<1>7. HeldAgree /\ FreedAgree /\ NodeAgrees
  BY <1>2, <1>4, <1>5, <1>6 DEF HeldAgree, HeldRight, FreedAgree, FreedRight, NodeAgrees, NodeRight, Held
<1> QED
  BY <1>1, <1>3, <1>7 DEF TotalsInv

\* A staking's row, changed one part at a time.
WithHes(s, x) == [s EXCEPT !.hes = x]
WithLocked(s, x) == [s EXCEPT !.locked = x]
WithReleased(s, x) == [s EXCEPT !.released = x]
WithStatus(s, x) == [s EXCEPT !.status = x]

LEMMA HesSet ==
  ASSUME NEW s \in StakingRow, NEW x \in Int
  PROVE  /\ WithHes(s, x) \in StakingRow
         /\ WithHes(s, x).hes = x
         /\ WithHes(s, x).locked = s.locked
         /\ WithHes(s, x).released = s.released
         /\ WithHes(s, x).status = s.status
<1>1. PICK t : t = WithHes(s, x)
  OBVIOUS
<1>2. t = [s EXCEPT !.hes = x]
  BY <1>1, Zenon DEF WithHes
<1>3. /\ t \in StakingRow
      /\ t.hes = x
      /\ t.locked = s.locked
      /\ t.released = s.released
      /\ t.status = s.status
  BY <1>2, SMTT(30) DEF StakingRow
<1> QED
  BY <1>1, <1>3, Zenon

LEMMA LockedSet ==
  ASSUME NEW s \in StakingRow, NEW x \in Int
  PROVE  /\ WithLocked(s, x) \in StakingRow
         /\ WithLocked(s, x).hes = s.hes
         /\ WithLocked(s, x).locked = x
         /\ WithLocked(s, x).released = s.released
         /\ WithLocked(s, x).status = s.status
<1>1. PICK t : t = WithLocked(s, x)
  OBVIOUS
<1>2. t = [s EXCEPT !.locked = x]
  BY <1>1, Zenon DEF WithLocked
<1>3. /\ t \in StakingRow
      /\ t.hes = s.hes
      /\ t.locked = x
      /\ t.released = s.released
      /\ t.status = s.status
  BY <1>2, SMTT(30) DEF StakingRow
<1> QED
  BY <1>1, <1>3, Zenon

LEMMA ReleasedSet ==
  ASSUME NEW s \in StakingRow, NEW x \in Int
  PROVE  /\ WithReleased(s, x) \in StakingRow
         /\ WithReleased(s, x).hes = s.hes
         /\ WithReleased(s, x).locked = s.locked
         /\ WithReleased(s, x).released = x
         /\ WithReleased(s, x).status = s.status
<1>1. PICK t : t = WithReleased(s, x)
  OBVIOUS
<1>2. t = [s EXCEPT !.released = x]
  BY <1>1, Zenon DEF WithReleased
<1>3. /\ t \in StakingRow
      /\ t.hes = s.hes
      /\ t.locked = s.locked
      /\ t.released = x
      /\ t.status = s.status
  BY <1>2, SMTT(30) DEF StakingRow
<1> QED
  BY <1>1, <1>3, Zenon

LEMMA StatusSet ==
  ASSUME NEW s \in StakingRow, NEW x \in {CANDIDATE, EXITING, EXITED}
  PROVE  /\ WithStatus(s, x) \in StakingRow
         /\ WithStatus(s, x).hes = s.hes
         /\ WithStatus(s, x).locked = s.locked
         /\ WithStatus(s, x).released = s.released
         /\ WithStatus(s, x).status = x
<1>1. PICK t : t = WithStatus(s, x)
  OBVIOUS
<1>2. t = [s EXCEPT !.status = x]
  BY <1>1, Zenon DEF WithStatus
<1>3. /\ t \in StakingRow
      /\ t.hes = s.hes
      /\ t.locked = s.locked
      /\ t.released = s.released
      /\ t.status = x
  BY <1>2, SMTT(30) DEF StakingRow
<1> QED
  BY <1>1, <1>3, Zenon

\* The node's row, changed by a delegation and by a refund.
Grown(n, v, c) == [n EXCEPT !.value = v, !.valid = c]
Shrunk(n, v, f, c, i) == [n EXCEPT !.value = v, !.released = f, !.valid = c, !.invalid = i]

LEMMA NodeGrown ==
  ASSUME NEW n \in NodeRow, NEW v \in Int, NEW c \in Int
  PROVE  /\ Grown(n, v, c) \in NodeRow /\ Grown(n, v, c).value = v
         /\ Grown(n, v, c).released = n.released /\ Grown(n, v, c).valid = c
<1>0. PICK m : m = Grown(n, v, c)
  OBVIOUS
<1>1. PICK x : x = [n EXCEPT !.value = v]
  OBVIOUS
<1>2. x \in NodeRow /\ x.value = v /\ x.released = n.released
  BY <1>1, SMTT(30) DEF NodeRow
<1>3. m = [x EXCEPT !.valid = c]
  BY <1>0, <1>1, Zenon DEF Grown
<1>4. m \in NodeRow /\ m.value = v /\ m.released = n.released /\ m.valid = c
  BY <1>2, <1>3, SMTT(30) DEF NodeRow
<1> QED
  BY <1>0, <1>4, Zenon

LEMMA NodeShrunk ==
  ASSUME NEW n \in NodeRow, NEW v \in Int, NEW f \in Int, NEW c \in Int, NEW i \in Int,
         NEW m, m = Shrunk(n, v, f, c, i)
  PROVE  m \in NodeRow /\ m.value = v /\ m.released = f /\ m.valid = c
<1>1. PICK x : x = [n EXCEPT !.value = v]
  OBVIOUS
<1>2. x \in NodeRow /\ x.value = v
  BY <1>1, SMTT(30) DEF NodeRow
<1>3. PICK y : y = [x EXCEPT !.released = f]
  OBVIOUS
<1>4. y \in NodeRow /\ y.value = v /\ y.released = f
  BY <1>2, <1>3, SMTT(30) DEF NodeRow
<1>5. PICK z : z = [y EXCEPT !.valid = c]
  OBVIOUS
<1>6. z \in NodeRow /\ z.value = v /\ z.released = f /\ z.valid = c
  BY <1>4, <1>5, SMTT(30) DEF NodeRow
<1>7. m = [z EXCEPT !.invalid = i]
  BY <1>1, <1>3, <1>5, Zenon DEF Shrunk
<1> QED
  BY <1>6, <1>7, SMTT(30) DEF NodeRow

Refunded(r, n, leaving, real) == [Balance(r, leaving, real) EXCEPT !.history = RefundsAll(r, n)]

\* A refund takes off the staking's totals what it takes off the row: as much
\* of what is held as of what the chain owes while the staking has not ended.
LEMMA RefundedTotals ==
  ASSUME NEW r \in Row, NEW n \in Nat, NEW leaving \in BOOLEAN,
         leaving => r.hes = 0 /\ r.locked = 0, ~leaving => r.released = 0,
         NEW real, real = RealRefund(r, n),
         NEW dec, dec = Decrease(r, leaving, real),
         NEW d, d = Refunded(r, n, leaving, real)
  PROVE  /\ real \in Int /\ dec.hes \in Int /\ dec.locked \in Int /\ dec.released \in Int
         /\ Held(d) = Held(r) - (dec.hes + dec.locked)
         /\ d.released = r.released - dec.released
         /\ leaving => dec.hes = 0 /\ dec.locked = 0
         /\ ~leaving => dec.hes + dec.locked = real /\ dec.released = 0
<1>1. r.hes \in Nat /\ r.locked \in Nat /\ r.released \in Nat
  BY DEF Row
<1>2. real \in Nat /\ real =< Total(r)
  BY <1>1, DelegationAssumption DEF RealRefund, RefundsAll, Total
<1>3. PICK b : b = Balance(r, leaving, real)
  OBVIOUS
<1>4. b \in Row
  BY <1>3, RefundedParts
<1>5. PICK h : h = RefundsAll(r, n)
  OBVIOUS
<1>6. d = [b EXCEPT !.history = h]
  BY <1>3, <1>5, Zenon DEF Refunded
<1>7. d.hes = b.hes /\ d.locked = b.locked /\ d.released = b.released
  BY <1>4, <1>6, SMTT(30) DEF Row
<1>8. CASE leaving
  <2>1. dec = [hes |-> 0, locked |-> 0, released |-> real]
    BY <1>8 DEF Decrease
  <2>2. b = [r EXCEPT !.hes = 0, !.locked = 0, !.released = NotNegative(@ - real)]
    BY <1>3, <1>8 DEF Balance
  <2>3. NotNegative(r.released - real) = r.released - real
    BY <1>1, <1>2, <1>8 DEF NotNegative, Total
  <2>4. b.hes = 0 /\ b.locked = 0 /\ b.released = r.released - real
    BY <2>2, <2>3 DEF Row
  <2>5. Held(d) = 0 /\ Held(r) = 0 /\ d.released = r.released - real
    <3>1. d.hes = 0 /\ d.locked = 0 /\ d.released = r.released - real
      BY <1>7, <2>4, Zenon
    <3>2. r.hes = 0 /\ r.locked = 0
      BY <1>8
    <3> QED
      BY <3>1, <3>2 DEF Held
  <2>6. dec.hes = 0 /\ dec.locked = 0 /\ dec.released = real
    BY <2>1
  <2>7. leaving
    BY <1>8
  <2>8. /\ real \in Int /\ dec.hes \in Int /\ dec.locked \in Int /\ dec.released \in Int
        /\ Held(d) = Held(r) - (dec.hes + dec.locked)
        /\ d.released = r.released - dec.released
    BY <1>1, <1>2, <2>5, <2>6
  <2> QED
    BY <2>6, <2>7, <2>8, Zenon
<1>9. CASE ~leaving /\ r.hes >= real
  <2>1. dec = [hes |-> real, locked |-> 0, released |-> 0]
    BY <1>9 DEF Decrease
  <2>2. b = [r EXCEPT !.hes = @ - real]
    BY <1>3, <1>9 DEF Balance
  <2>3. b.hes = r.hes - real /\ b.locked = r.locked /\ b.released = r.released
    BY <2>2 DEF Row
  <2> QED
    BY <1>1, <1>2, <1>7, <1>9, <2>1, <2>3 DEF Held
<1>10. CASE ~leaving /\ ~(r.hes >= real)
  <2>1. dec = [hes |-> 0, locked |-> real, released |-> r.released]
    BY <1>10 DEF Decrease
  <2>2. b = [r EXCEPT !.hes = 0, !.locked = NotNegative(@ + r.hes - real)]
    BY <1>3, <1>10 DEF Balance
  <2>3. NotNegative(r.locked + r.hes - real) = r.locked + r.hes - real
    BY <1>1, <1>2, <1>10 DEF NotNegative, Total
  <2>4. b.hes = 0 /\ b.locked = r.locked + r.hes - real /\ b.released = r.released
    BY <2>2, <2>3 DEF Row
  <2> QED
    BY <1>1, <1>2, <1>7, <1>10, <2>1, <2>4 DEF Held
<1> QED
  BY <1>8, <1>9, <1>10

\* A staking's totals are decreased.
Decreased(m, f, g, a, b, c, t) ==
  /\ f \in [1..m -> StakingRow] /\ g \in 1..m /\ a \in Int /\ b \in Int /\ c \in Int
  /\ t = [f EXCEPT ![g].hes = @ - a, ![g].locked = @ - b, ![g].released = @ - c]

LEMMA StakingDecreased ==
  ASSUME NEW m, NEW f, NEW g, NEW a, NEW b, NEW c, NEW t, Decreased(m, f, g, a, b, c, t)
  PROVE  /\ t \in [1..m -> StakingRow] /\ \A x \in 1..m : x # g => t[x] = f[x]
         /\ t[g].hes = f[g].hes - a /\ t[g].locked = f[g].locked - b
         /\ t[g].released = f[g].released - c /\ t[g].status = f[g].status
<1>a. f \in [1..m -> StakingRow] /\ g \in 1..m /\ a \in Int /\ b \in Int /\ c \in Int
  BY DEF Decreased
<1>1. PICK s \in StakingRow : s = f[g]
  BY <1>a
<1>2. s.hes \in Int /\ s.locked \in Int /\ s.released \in Int
  BY DEF StakingRow
<1>0. PICK h \in Int, l \in Int, u \in Int :
        h = s.hes - a /\ l = s.locked - b /\ u = s.released - c
  BY <1>2, <1>a
<1>3. PICK s1 : s1 = WithHes(s, h)
  OBVIOUS
<1>4. /\ s1 \in StakingRow /\ s1.hes = h /\ s1.locked = s.locked
      /\ s1.released = s.released /\ s1.status = s.status
  BY <1>3, HesSet
<1>5. PICK s2 : s2 = WithLocked(s1, l)
  OBVIOUS
<1>6. /\ s2 \in StakingRow /\ s2.hes = s1.hes /\ s2.locked = l
      /\ s2.released = s1.released /\ s2.status = s1.status
  BY <1>4, <1>5, LockedSet
<1>7. PICK s3 : s3 = WithReleased(s2, u)
  OBVIOUS
<1>8. /\ s3 \in StakingRow /\ s3.hes = s2.hes /\ s3.locked = s2.locked
      /\ s3.released = u /\ s3.status = s2.status
  BY <1>6, <1>7, ReleasedSet
<1>9. PICK f1 : f1 = [f EXCEPT ![g].hes = @ - a]
  OBVIOUS
<1>10. f1 = [f EXCEPT ![g] = s1]
  BY <1>0, <1>1, <1>3, <1>9, Zenon DEF WithHes
<1>11. f1 \in [1..m -> StakingRow] /\ f1[g] = s1 /\ \A x \in 1..m : x # g => f1[x] = f[x]
  BY <1>4, <1>10, <1>a
<1>12. PICK f2 : f2 = [f1 EXCEPT ![g].locked = @ - b]
  OBVIOUS
<1>13. f2 = [f1 EXCEPT ![g] = s2]
  BY <1>0, <1>4, <1>5, <1>11, <1>12, Zenon DEF WithLocked
<1>14. f2 \in [1..m -> StakingRow] /\ f2[g] = s2 /\ \A x \in 1..m : x # g => f2[x] = f[x]
  BY <1>6, <1>11, <1>13, <1>a
<1>15. t = [f2 EXCEPT ![g].released = @ - c]
  BY <1>9, <1>12, Zenon DEF Decreased
<1>16. t = [f2 EXCEPT ![g] = s3]
  <2>1. s2.released = s.released
    BY <1>4, <1>6
  <2> QED
    BY <1>0, <1>7, <1>14, <1>15, <2>1, Zenon DEF WithReleased
<1>17. t \in [1..m -> StakingRow] /\ t[g] = s3 /\ \A x \in 1..m : x # g => t[x] = f[x]
  BY <1>8, <1>14, <1>16, <1>a
<1> QED
  BY <1>0, <1>1, <1>4, <1>6, <1>8, <1>17

\* A settlement moves between the parts that are held.
LEMMA SettleTotals == ASSUME TotalsInv, Settle PROVE TotalsInv'
<1>0. DelegInv /\ DelegInv'
  BY SettleKeeps DEF TotalsInv
<1>1. /\ IsFiniteSet(DOMAIN delegation) /\ delegation \in [DOMAIN delegation -> Row]
      /\ staking \in [1..last -> StakingRow] /\ last \in 1..last /\ node \in NodeRow
  BY TablesAre
<1>2. last' = last /\ node' = node /\ exact' = exact
  BY DEF Settle
<1>3. PICK over \in SUBSET {g \in DOMAIN staking : staking[g].status = EXITING} :
        staking' = [g \in DOMAIN staking |->
          LET s == staking[g]
              t == IF s.hes > 0 THEN [s EXCEPT !.locked = @ + s.hes, !.hes = 0] ELSE s
          IN [t EXCEPT !.status = IF g \in over THEN EXITED ELSE @]]
  BY Zenon DEF Settle
<1>4. DOMAIN staking = 1..last
  BY <1>1
<1>5. staking' \in [1..last -> StakingRow]
  BY <1>0, <1>2 DEF DelegInv, Shape, Shaped
<1>6. ASSUME NEW g \in 1..last
      PROVE  /\ Held(staking'[g]) = Held(staking[g]) /\ staking'[g].released = staking[g].released
             /\ staking[g].status = EXITED => staking'[g].status = EXITED
  <2>1. PICK s \in StakingRow : s = staking[g]
    BY <1>1
  <2>2. s.hes \in Int /\ s.locked \in Int
    BY DEF StakingRow
  <2>3. PICK t : t = IF s.hes > 0 THEN [s EXCEPT !.locked = @ + s.hes, !.hes = 0] ELSE s
    OBVIOUS
  <2>4. t \in StakingRow /\ Held(t) = Held(s) /\ t.released = s.released /\ t.status = s.status
    <3>1. CASE s.hes > 0
      <4>1. PICK x \in Int, z \in Int : x = s.locked + s.hes /\ z = 0
        BY <2>2
      <4>2. PICK v : v = WithLocked(s, x)
        OBVIOUS
      <4>3. v \in StakingRow /\ v.locked = x /\ v.released = s.released /\ v.status = s.status
        BY <4>2, LockedSet
      <4>4. t = WithHes(v, z)
        BY <2>3, <3>1, <4>1, <4>2, Zenon DEF WithHes, WithLocked
      <4>5. t \in StakingRow /\ t.hes = z /\ t.locked = v.locked /\ t.released = v.released
            /\ t.status = v.status
        BY <4>3, <4>4, HesSet
      <4> QED
        BY <2>2, <4>1, <4>3, <4>5 DEF Held
    <3>2. CASE ~(s.hes > 0)
      BY <2>3, <3>2, Zenon
    <3> QED
      BY <3>1, <3>2
  <2>5. PICK st \in {CANDIDATE, EXITING, EXITED} : st = IF g \in over THEN EXITED ELSE t.status
    <3>1. t.status \in {CANDIDATE, EXITING, EXITED}
      BY <2>4 DEF StakingRow
    <3> QED
      BY <3>1
  <2>6. staking'[g] = WithStatus(t, st)
    BY <1>3, <1>4, <2>1, <2>3, <2>5, Zenon DEF WithStatus
  <2>7. PICK u : u = staking'[g]
    OBVIOUS
  <2>8. u.hes = t.hes /\ u.locked = t.locked /\ u.released = t.released /\ u.status = st
    BY <2>4, <2>6, <2>7, StatusSet
  <2>9. Held(u) = Held(t)
    BY <2>8 DEF Held
  <2>10. s.status = EXITED => st = EXITED
    BY <2>4, <2>5
  <2> QED
    BY <2>1, <2>4, <2>7, <2>8, <2>9, <2>10, Zenon
<1>7. delegation' = [k \in DOMAIN delegation |->
        IF ~delegation[k].history /\ delegation[k].hes > 0
        THEN [delegation[k] EXCEPT !.locked = @ + delegation[k].hes, !.hes = 0]
        ELSE delegation[k]]
  BY Zenon DEF Settle
<1>8. delegation' \in [DOMAIN delegation -> Row]
  <2>1. DOMAIN delegation' = DOMAIN delegation
    BY <1>7, Zenon
  <2> QED
    BY <1>0, <2>1 DEF DelegInv, Shape, Shaped
<1>9. ASSUME NEW k \in DOMAIN delegation
      PROVE  /\ Held(delegation'[k]) = Held(delegation[k])
             /\ delegation'[k].released = delegation[k].released
  <2>1. PICK r \in Row : r = delegation[k]
    BY <1>1
  <2>2. CASE ~r.history /\ r.hes > 0
    <3>1. PICK s : s = [r EXCEPT !.locked = @ + r.hes, !.hes = 0]
      OBVIOUS
    <3>2. delegation'[k] = s
      BY <1>7, <2>1, <2>2, <3>1, Zenon
    <3>3. s \in Row /\ s.hes = 0 /\ s.locked = r.locked + r.hes /\ s.released = r.released
          /\ (s.history <=> r.history)
      BY <3>1, LockedRow
    <3>4. Held(s) = Held(r)
      BY <3>3 DEF Held, Row
    <3> QED
      BY <2>1, <3>2, <3>3, <3>4, Zenon
  <2>3. CASE ~(~r.history /\ r.hes > 0)
    BY <1>7, <2>1, <2>3, Zenon
  <2> QED
    BY <2>2, <2>3
<1>10. \A g : /\ HeldSum(delegation', g) = HeldSum(delegation, g)
              /\ FreedSum(delegation', g) = FreedSum(delegation, g)
  BY <1>1, <1>8, <1>9, SumsKept
<1>11. EndedSum(staking') = EndedSum(staking)
  <2>1. DOMAIN staking' = 1..last
    BY <1>5
  <2>2. FreedOf(staking') = FreedOf(staking)
    BY <1>4, <1>6, <2>1 DEF FreedOf
  <2> QED
    BY <1>4, <2>1, <2>2 DEF EndedSum
<1>12. OldEnded'
  BY <1>2, <1>6 DEF TotalsInv, OldEnded, EndedBefore
<1>13. HeldAgree'
  BY <1>2, <1>6, <1>10 DEF TotalsInv, HeldAgree, HeldRight
<1>14. FreedAgree /\ NodeAgrees => FreedAgree' /\ NodeAgrees'
  BY <1>1, <1>2, <1>6, <1>10, <1>11 DEF FreedAgree, FreedRight, NodeAgrees, NodeRight
<1> QED
  BY <1>0, <1>1, <1>2, <1>12, <1>13, <1>14 DEF TotalsInv

\* The last staking's totals when it ends.
LEMMA EndedTotalsAre ==
  ASSUME NEW s \in StakingRow, NEW st \in {EXITING, EXITED}, NEW t, t = EndedTotals(s, st)
  PROVE  t \in StakingRow /\ Held(t) = 0 /\ t.released = Held(s)
<1>0. s.hes \in Int /\ s.locked \in Int
  BY DEF StakingRow
<1>1. PICK x \in Int : x = s.hes + s.locked
  BY <1>0
<1>2. PICK v : v = WithStatus(s, st)
  OBVIOUS
<1>3. v \in StakingRow
  BY <1>2, StatusSet
<1>4. PICK w : w = WithHes(v, 0)
  OBVIOUS
<1>5. w \in StakingRow /\ w.hes = 0
  BY <1>3, <1>4, HesSet
<1>6. PICK y : y = WithLocked(w, 0)
  OBVIOUS
<1>7. y \in StakingRow /\ y.hes = w.hes /\ y.locked = 0
  BY <1>5, <1>6, LockedSet
<1>8. t = WithReleased(y, x)
  BY <1>1, <1>2, <1>4, <1>6, Zenon DEF EndedTotals, WithStatus, WithHes, WithLocked, WithReleased
<1>9. t \in StakingRow /\ t.hes = y.hes /\ t.locked = y.locked /\ t.released = x
  BY <1>7, <1>8, ReleasedSet
<1> QED
  BY <1>1, <1>5, <1>7, <1>9 DEF Held

\* The rows of the last staking are released, and its totals.
Ends(rows, stakes, nd, top, rows2, stakes2, nd2, st) ==
  /\ st \in {EXITING, EXITED} /\ stakes2 = [stakes EXCEPT ![top] = EndedTotals(@, st)]
  /\ nd2 = NodeAfterEnd(nd, rows2) /\ DOMAIN rows2 = DOMAIN rows
  /\ \A k \in DOMAIN rows :
       /\ k[2] = top => Held(rows2[k]) = 0
       /\ k[2] = top /\ ~PunishLeaving => rows2[k].released = Held(rows[k])
       /\ k[2] # top => rows2[k] = rows[k]

\* The end of a staking: its delegations and what it holds are released, and
\* the node's value joins what the node has released.
LEMMA EndSound ==
  ASSUME NEW rows, NEW stakes, NEW nd, NEW top, NEW once,
         NEW rows2, NEW stakes2, NEW nd2, NEW st,
         Sound(rows, stakes, nd, top, once), SoundRows(rows2, stakes2, top),
         Ends(rows, stakes, nd, top, rows2, stakes2, nd2, st),
         once = TRUE => stakes[top].status = CANDIDATE \/ PunishLeaving
  PROVE  Sound(rows2, stakes2, nd2, top, once)
<1> USE DEF Ends
<1>1. /\ IsFiniteSet(DOMAIN rows) /\ rows \in [DOMAIN rows -> Row]
      /\ stakes \in [1..top -> StakingRow] /\ top \in Nat /\ top \in 1..top
      /\ nd \in NodeRow
  BY SoundAre DEF Sound
<1>2. rows2 \in [DOMAIN rows -> Row] /\ DOMAIN rows2 \subseteq Keys
  BY SoundAre
<1>3. PICK s \in StakingRow : s = stakes[top]
  BY <1>1
<1>4. PICK t : t = EndedTotals(s, st)
  OBVIOUS
<1>5. t \in StakingRow /\ Held(t) = 0 /\ t.released = Held(s)
  BY <1>4, EndedTotalsAre
<1>6. stakes2 = [stakes EXCEPT ![top] = t]
  BY <1>3, <1>4, Zenon
<1>7. /\ stakes2 \in [1..top -> StakingRow] /\ stakes2[top] = t
      /\ \A g \in 1..top : g # top => stakes2[g] = stakes[g]
  BY <1>1, <1>5, <1>6
<1>8. /\ nd2 \in NodeRow /\ nd2.value = 0 /\ nd2.released = nd.released + nd.value
  BY <1>1, <1>2, NodeEnds
<1>9. HeldSum(rows2, top) = 0
  BY <1>1, <1>2, SumsZero
<1>10. \A g : g # top => /\ HeldSum(rows2, g) = HeldSum(rows, g)
                          /\ FreedSum(rows2, g) = FreedSum(rows, g)
  <2> TAKE g
  <2> HAVE g # top
  <2>1. \A k \in DOMAIN rows : k[2] = g =>
          /\ Held(rows2[k]) = Held(rows[k])
          /\ rows2[k].released = rows[k].released
    OBVIOUS
  <2> QED
    BY <1>1, <1>2, <2>1, SumsKept
<1>11. EndedBefore(stakes2, top)
  BY <1>7 DEF Sound, EndedBefore
<1>12. HeldRight(rows2, stakes2, top)
  BY <1>5, <1>7, <1>9, <1>10 DEF Sound, HeldRight
<1>13. ASSUME ~PunishLeaving
       PROVE  FreedRight(rows2, stakes2, top) /\ NodeRight(stakes2, nd2, top, once)
  <2>1. /\ FreedRight(rows, stakes, top) /\ NodeRight(stakes, nd, top, once)
        /\ HeldRight(rows, stakes, top) /\ SoundRows(rows, stakes, top)
    BY <1>13 DEF Sound
  <2>2. FreedSum(rows2, top) = HeldSum(rows, top)
    BY <1>1, <1>2, <1>13, SumsReleased
  <2>3. Held(s) = HeldSum(rows, top) /\ HeldSum(rows, top) \in Int
    <3>1. HeldSum(rows, top) \in Int
      BY <1>1, <2>1, SoundSums
    <3> QED
      BY <1>1, <1>3, <2>1, <3>1 DEF HeldRight
  <2>4. FreedRight(rows2, stakes2, top)
    BY <1>5, <1>7, <1>10, <2>1, <2>2, <2>3 DEF FreedRight
  <2>5. nd.value = Held(s)
    BY <1>3, <2>1 DEF NodeRight
  <2>6. nd2.value = Held(stakes2[top])
    BY <1>5, <1>7, <1>8
  <2>7. ASSUME once PROVE nd2.released = EndedSum(stakes2)
    <3>1. stakes[top].released = 0
      <4>1. FreedSum(rows, top) = 0
        BY <1>1, <1>13, <2>1, <2>7, SoundSums
      <4> QED
        BY <1>1, <2>1, <4>1 DEF FreedRight
    <3>2. EndedSum(stakes2) = EndedSum(stakes) + Held(s)
      <4>1. PICK x, y, m : x = stakes /\ y = stakes2 /\ m = top
        OBVIOUS
      <4>2. 1..top \cup {top} = 1..top
        BY <1>1
      <4>3. StakingPut(m, x, m, y)
        BY <1>1, <1>7, <4>1, <4>2 DEF StakingPut
      <4>4. EndedSum(y) = EndedSum(x) - (IF m \in 1..m THEN x[m].released ELSE 0) + y[m].released
        BY <4>3, EndedPut
      <4>5. EndedSum(x) \in Int
        BY <1>1, <4>1, EndedInt
      <4> QED
        BY <1>1, <1>5, <1>7, <2>3, <3>1, <4>1, <4>4, <4>5
    <3>3. nd.released = EndedSum(stakes)
      BY <2>1, <2>7 DEF NodeRight
    <3> QED
      BY <1>8, <2>5, <3>2, <3>3
  <2>8. NodeRight(stakes2, nd2, top, once)
    BY <2>6, <2>7 DEF NodeRight
  <2> QED
    BY <2>4, <2>8
<1> QED
  BY <1>8, <1>11, <1>12, <1>13 DEF Sound

\* Sound tables after a step are totals that agree.
LEMMA SoundTotals ==
  ASSUME DelegInv', NEW rows, NEW stakes, NEW nd, NEW top,
         Sound(rows, stakes, nd, top, exact'),
         rows = delegation', stakes = staking', nd = node', top = last'
  PROVE  TotalsInv'
<1>1. /\ nd \in NodeRow /\ EndedBefore(stakes, top) /\ HeldRight(rows, stakes, top)
      /\ ~PunishLeaving => /\ FreedRight(rows, stakes, top)
                           /\ NodeRight(stakes, nd, top, exact')
  BY Zenon DEF Sound
<1>2. node' \in NodeRow /\ OldEnded' /\ HeldAgree'
  BY <1>1, Zenon DEF OldEnded, EndedBefore, HeldAgree, HeldRight
<1>3. ~PunishLeaving => FreedAgree' /\ NodeAgrees'
  BY <1>1, Zenon DEF FreedAgree, FreedRight, NodeAgrees, NodeRight
<1> QED
  BY <1>2, <1>3 DEF TotalsInv

\* The tables of the next state are sound rows.
LEMMA SoundNext ==
  ASSUME DelegInv', NEW rows, NEW stakes, NEW top,
         rows = delegation', stakes = staking', top = last'
  PROVE  SoundRows(rows, stakes, top)
<1>1. /\ DOMAIN delegation' \subseteq Keys /\ last' \in 1..MaxStaking
      /\ Shaped(delegation', staking', last') /\ PartsIn(delegation', staking', last')
  BY Zenon DEF DelegInv, TypeOK, Shape, Shaped, PartsInv, PartsIn
<1> QED
  BY <1>1, Zenon DEF SoundRows

LEMMA PunishTotals == ASSUME TotalsInv, Punish PROVE TotalsInv'
<1>1. DelegInv /\ DelegInv'
  BY PunishKeeps DEF TotalsInv
<1>2. staking' = [staking EXCEPT ![last] = EndedTotals(@, EXITING)]
  BY Zenon DEF Punish
<1>3. /\ last' = last /\ exact' = exact /\ node' = NodeAfterEnd(node, delegation')
      /\ staking[last].status = CANDIDATE \/ PunishLeaving
  BY Zenon DEF Punish
<1>4. delegation' = [k \in DOMAIN delegation |->
        IF k[2] = last /\ ~delegation[k].history
        THEN [Release(delegation[k]) EXCEPT !.released = @ + delegation[k].released]
        ELSE delegation[k]]
  BY Zenon DEF Punish
<1>5. DOMAIN delegation' = DOMAIN delegation
  BY <1>4, Zenon
<1>6. ASSUME NEW k \in DOMAIN delegation
      PROVE  /\ k[2] = last => Held(delegation'[k]) = 0
             /\ k[2] = last /\ ~PunishLeaving => delegation'[k].released = Held(delegation[k])
             /\ k[2] # last => delegation'[k] = delegation[k]
  <2>1. PICK r \in Row : r = delegation[k]
    BY <1>1, RowsAre
  <2>2. CASE k[2] = last /\ ~r.history
    <3>1. PICK t : t = Release(r)
      OBVIOUS
    <3>2. PICK s : s = [t EXCEPT !.released = @ + r.released]
      OBVIOUS
    <3>3. delegation'[k] = s
      BY <1>4, <2>1, <2>2, <3>1, <3>2, Zenon
    <3>4. t \in Row /\ t.hes = 0 /\ t.locked = 0 /\ t.released = r.hes + r.locked
          /\ (t.history <=> r.history)
      BY <3>1, ReleasedRow
    <3>5. r.hes \in Nat /\ r.locked \in Nat /\ r.released \in Nat
      BY DEF Row
    <3>6. s.hes = 0 /\ s.locked = 0 /\ s.released = t.released + r.released
      BY <3>2, <3>4, <3>5, SMTT(30) DEF Row
    <3>7. ~PunishLeaving => r.released = 0
      BY <1>1, <1>3, <2>1, <2>2, RowsAre
    <3> QED
      BY <2>1, <2>2, <3>3, <3>4, <3>5, <3>6, <3>7 DEF Held
  <2>3. CASE k[2] = last /\ r.history
    <3>1. delegation'[k] = r
      BY <1>4, <2>1, <2>3, Zenon
    <3>2. r.hes = 0 /\ r.locked = 0 /\ r.released = 0
      BY <1>1, <2>1, <2>3, RowsAre, NothingLeft
    <3> QED
      BY <2>1, <2>3, <3>1, <3>2 DEF Held
  <2>4. CASE k[2] # last
    BY <1>4, <2>4, Zenon
  <2> QED
    BY <2>2, <2>3, <2>4
<1>7. PICK rows, stakes, nd, top :
        rows = delegation /\ stakes = staking /\ nd = node /\ top = last
  OBVIOUS
<1>8. PICK rows2, stakes2, nd2 : rows2 = delegation' /\ stakes2 = staking' /\ nd2 = node'
  OBVIOUS
<1>9. PICK once : once = exact
  OBVIOUS
<1>10. Sound(rows, stakes, nd, top, once)
  BY <1>7, <1>9, TotalsSound, Zenon
<1>11. SoundRows(rows2, stakes2, top)
  BY <1>1, <1>3, <1>7, <1>8, SoundNext, Zenon
<1>12. /\ stakes2 = [stakes EXCEPT ![top] = EndedTotals(@, EXITING)]
       /\ nd2 = NodeAfterEnd(nd, rows2) /\ DOMAIN rows2 = DOMAIN rows
       /\ once = TRUE => stakes[top].status = CANDIDATE \/ PunishLeaving
  BY <1>2, <1>3, <1>5, <1>7, <1>8, Zenon
<1>13. \A k \in DOMAIN rows :
         /\ k[2] = top => Held(rows2[k]) = 0
         /\ k[2] = top /\ ~PunishLeaving => rows2[k].released = Held(rows[k])
         /\ k[2] # top => rows2[k] = rows[k]
  BY <1>6, <1>7, <1>8, Zenon
<1>14. PICK st : st = EXITING
  OBVIOUS
<1>15. Sound(rows2, stakes2, nd2, top, once)
  <2>1. Ends(rows, stakes, nd, top, rows2, stakes2, nd2, st)
    BY <1>12, <1>13, <1>14, Zenon DEF Ends
  <2>2. once = TRUE => stakes[top].status = CANDIDATE \/ PunishLeaving
    BY <1>12
  <2> QED
    BY <1>10, <1>11, <2>1, <2>2, EndSound, Zenon
<1> QED
  BY <1>1, <1>3, <1>7, <1>8, <1>9, <1>15, SoundTotals, Zenon

\* A new staking starts with nothing; the one before holds nothing any more.
LEMMA RestakeTotals == ASSUME TotalsInv, Restake PROVE TotalsInv'
<1>1. DelegInv /\ DelegInv'
  BY RestakeKeeps DEF TotalsInv
<1>2. /\ IsFiniteSet(DOMAIN delegation) /\ delegation \in [DOMAIN delegation -> Row]
      /\ staking \in [1..last -> StakingRow] /\ last \in Nat /\ last \in 1..last
      /\ node \in NodeRow
  BY TablesAre
<1>3. /\ last' = last + 1 /\ delegation' = delegation /\ node' = node /\ exact' = exact
      /\ staking[last].status = EXITED
  BY DEF Restake
<1>4. PICK m : m = last'
  OBVIOUS
<1>5. 1..m = 1..last \cup {m} /\ m \notin 1..last /\ m \in 1..m /\ m - 1 = last
  BY <1>2, <1>3, <1>4
<1>6. staking' = [g \in 1..m |-> IF g = m THEN NewStaking ELSE staking[g]]
  BY <1>2, <1>4, <1>5 DEF Restake
<1>7. NewStaking \in StakingRow /\ Held(NewStaking) = 0 /\ NewStaking.released = 0
  BY DEF NewStaking, StakingRow, Held
<1>8. /\ staking' \in [1..m -> StakingRow] /\ staking'[m] = NewStaking
      /\ \A g \in 1..last : staking'[g] = staking[g]
  BY <1>2, <1>5, <1>6, <1>7
<1>9. HeldSum(delegation, m) = 0 /\ FreedSum(delegation, m) = 0
  <2>1. \A k \in DOMAIN delegation : k[2] # m
    BY <1>1, <1>5, RowsAre
  <2> QED
    BY <1>2, <2>1, SumsZero
<1>10. OldEnded'
  <2> SUFFICES ASSUME NEW g \in 1..m, g # m PROVE staking'[g].status = EXITED
    BY <1>4 DEF OldEnded, EndedBefore
  <2>1. g \in 1..last
    BY <1>5
  <2> QED
    BY <1>3, <1>8, <2>1 DEF TotalsInv, OldEnded, EndedBefore
<1>11. HeldAgree'
  <2> SUFFICES ASSUME NEW g \in 1..m PROVE Held(staking'[g]) = HeldSum(delegation, g)
    BY <1>3, <1>4 DEF HeldAgree, HeldRight
  <2>1. CASE g = m
    BY <1>7, <1>8, <1>9, <2>1
  <2>2. CASE g # m
    <3>1. g \in 1..last
      BY <1>5, <2>2
    <3> QED
      BY <1>8, <3>1 DEF TotalsInv, HeldAgree, HeldRight
  <2> QED
    BY <2>1, <2>2
<1>12. ~PunishLeaving => FreedAgree' /\ NodeAgrees'
  <2> SUFFICES ASSUME ~PunishLeaving PROVE FreedAgree' /\ NodeAgrees'
    OBVIOUS
  <2>1. FreedAgree /\ NodeAgrees /\ HeldAgree
    BY DEF TotalsInv
  <2>2. FreedAgree'
    <3> SUFFICES ASSUME NEW g \in 1..m PROVE staking'[g].released = FreedSum(delegation, g)
      BY <1>3, <1>4 DEF FreedAgree, FreedRight
    <3>1. CASE g = m
      BY <1>7, <1>8, <1>9, <3>1
    <3>2. CASE g # m
      <4>1. g \in 1..last
        BY <1>5, <3>2
      <4> QED
        BY <1>8, <2>1, <4>1 DEF FreedAgree, FreedRight
    <3> QED
      BY <3>1, <3>2
  <2>3. Held(staking[last]) = 0
    BY <1>2, <1>3, <2>1, TotalsAre DEF HeldAgree, HeldRight, CANDIDATE, EXITED
  <2>4. EndedSum(staking') = EndedSum(staking)
    <3>1. PICK x, y, n : x = staking /\ y = staking' /\ n = last
      OBVIOUS
    <3>2. StakingPut(n, x, m, y)
      BY <1>2, <1>5, <1>8, <3>1 DEF StakingPut
    <3>3. EndedSum(y) = EndedSum(x) - (IF m \in 1..n THEN x[m].released ELSE 0) + y[m].released
      BY <3>2, EndedPut
    <3>4. EndedSum(x) \in Int
      BY <1>2, <3>1, EndedInt
    <3> QED
      BY <1>5, <1>7, <1>8, <3>1, <3>3, <3>4
  <2>5. NodeAgrees'
    BY <1>3, <1>4, <1>7, <1>8, <2>1, <2>3, <2>4 DEF NodeAgrees, NodeRight
  <2> QED
    BY <2>2, <2>5
<1> QED
  BY <1>1, <1>2, <1>3, <1>10, <1>11, <1>12 DEF TotalsInv

\* The rows that the task deletes have nothing in them.
LEMMA TaskTotals ==
  ASSUME TotalsInv, TaskSelect \/ TaskSave \/ TaskDelete \/ TaskThrows
  PROVE  TotalsInv'
<1>1. DelegInv /\ DelegInv'
  BY TaskKeeps DEF TotalsInv
<1>2. UNCHANGED <<last, staking, node, exact>>
  BY DEF TaskSelect, TaskSave, TaskDelete, TaskThrows, tables
<1>3. \A g : /\ HeldSum(delegation', g) = HeldSum(delegation, g)
             /\ FreedSum(delegation', g) = FreedSum(delegation, g)
  <2>1. CASE TaskDelete
    <3>1. PICK D, E, d : D = DOMAIN delegation /\ E = D \ ToDelete /\ d = delegation
      OBVIOUS
    <3>2. PICK e : e = [k \in E |-> d[k]]
      OBVIOUS
    <3>3. delegation' = e
      BY <2>1, <3>1, <3>2, Zenon DEF TaskDelete
    <3>4. IsFiniteSet(D) /\ d \in [D -> Row] /\ E \in SUBSET D
      BY <3>1, TablesAre
    <3>5. \A k \in D \ E : Total(d[k]) = 0
      BY <1>1, <3>1, RowsAre DEF ToDelete, History
    <3>6. \A g : HeldSum(e, g) = HeldSum(d, g) /\ FreedSum(e, g) = FreedSum(d, g)
      BY <3>2, <3>4, <3>5, SumsRest
    <3> QED
      BY <3>1, <3>3, <3>6, Zenon
  <2>2. CASE TaskSelect \/ TaskSave \/ TaskThrows
    <3>1. delegation' = delegation
      BY <2>2 DEF TaskSelect, TaskSave, TaskThrows, tables
    <3> QED
      BY <3>1
  <2> QED
    BY <2>1, <2>2
<1>4. OldEnded' /\ node' \in NodeRow
  BY <1>2 DEF TotalsInv, OldEnded, EndedBefore
<1>5. HeldAgree'
  BY <1>2, <1>3 DEF TotalsInv, HeldAgree, HeldRight
<1>6. ~PunishLeaving => FreedAgree' /\ NodeAgrees'
  BY <1>2, <1>3 DEF TotalsInv, FreedAgree, FreedRight, NodeAgrees, NodeRight
<1> QED
  BY <1>1, <1>4, <1>5, <1>6 DEF TotalsInv

LEMMA FaultTotals == ASSUME TotalsInv, Fail \/ Crash PROVE TotalsInv'
<1>1. DelegInv'
  BY FaultKeeps DEF TotalsInv
<1>2. UNCHANGED <<last, delegation, staking, node, exact>>
  BY DEF Fail, Crash, tables
<1> QED
  BY <1>1, <1>2 DEF TotalsInv, OldEnded, EndedBefore, HeldAgree, HeldRight, FreedAgree, FreedRight, NodeAgrees, NodeRight

LEMMA StutterTotals == ASSUME TotalsInv, UNCHANGED vars PROVE TotalsInv'
<1>1. UNCHANGED <<owed, last, delegation, staking, node, exact, es, task, picked, copies, fails>>
  BY DEF vars, tables, migration, faults
<1>2. DelegInv'
  BY <1>1, TablesKept DEF TotalsInv, DelegInv, TypeOK, TaskInv, CopiesInv
<1> QED
  BY <1>1, <1>2 DEF TotalsInv, OldEnded, EndedBefore, HeldAgree, HeldRight, FreedAgree, FreedRight, NodeAgrees, NodeRight

-----------------------------------------------------------------------------
(* One analysis of a transaction *)

\* A delegation to the last staking, which is a candidate's.
Adds(rows, stakes, top, key, amount, rows2, stakes2) ==
  /\ key \in Keys /\ key[2] = top /\ amount \in Amounts /\ stakes[top].status = CANDIDATE
  /\ rows2 = Upsert(rows, key, amount) /\ stakes2 = [stakes EXCEPT ![top].hes = @ + amount]

\* What that makes of the tables.
Added(rows, stakes, top, key, amount, rows2, stakes2) ==
  /\ DOMAIN rows2 = DOMAIN rows \cup {key}
  /\ \A k \in DOMAIN rows : k # key => rows2[k] = rows[k]
  /\ Held(rows2[key]) = (IF key \in DOMAIN rows THEN Held(rows[key]) ELSE 0) + amount
  /\ rows2[key].released = (IF key \in DOMAIN rows THEN rows[key].released ELSE 0)
  /\ rows2[key].released = 0 /\ ~rows2[key].history
  /\ \A g \in 1..top : g # top => stakes2[g] = stakes[g]
  /\ Held(stakes2[top]) = Held(stakes[top]) + amount
  /\ stakes2[top].released = stakes[top].released
  /\ stakes2[top].status = CANDIDATE

LEMMA AddedRows ==
  ASSUME NEW rows, NEW stakes, NEW top, NEW key, NEW amount, NEW rows2, NEW stakes2,
         SoundRows(rows, stakes, top), Adds(rows, stakes, top, key, amount, rows2, stakes2)
  PROVE  SoundRows(rows2, stakes2, top) /\ Added(rows, stakes, top, key, amount, rows2, stakes2)
<1> USE DelegationAssumption
<1>1. /\ IsFiniteSet(DOMAIN rows) /\ rows \in [DOMAIN rows -> Row] /\ DOMAIN rows \subseteq Keys
      /\ stakes \in [1..top -> StakingRow] /\ top \in Nat /\ top \in 1..top
  BY SoundAre
<1>2. amount \in Nat /\ amount \in Int /\ key \in Keys /\ key[2] = top /\ top \in 1..MaxStaking
  BY DEF Adds, SoundRows
<1>3. /\ rows2 = Upsert(rows, key, amount) /\ stakes[top].status = CANDIDATE
      /\ stakes2 = [stakes EXCEPT ![top].hes = @ + amount]
  BY Zenon DEF Adds
<1>4. PICK s \in StakingRow : s = stakes[top]
  BY <1>1
<1>5. s.hes \in Int /\ s.locked \in Int
  BY DEF StakingRow
<1>6. PICK x \in Int : x = s.hes + amount
  BY <1>2, <1>5
<1>7. PICK t : t = WithHes(s, x)
  OBVIOUS
<1>8. /\ t \in StakingRow /\ t.hes = x /\ t.locked = s.locked
      /\ t.released = s.released /\ t.status = s.status
  BY <1>7, HesSet
<1>9. stakes2 = [stakes EXCEPT ![top] = t]
  BY <1>3, <1>4, <1>6, <1>7, Zenon DEF WithHes
<1>10. /\ stakes2[top] = t /\ stakes2 \in [1..top -> StakingRow]
       /\ \A g \in 1..top : g # top => stakes2[g] = stakes[g]
  BY <1>1, <1>8, <1>9
<1>11. Held(t) = Held(s) + amount
  BY <1>2, <1>5, <1>6, <1>8 DEF Held
<1>12. /\ Held(stakes2[top]) = Held(stakes[top]) + amount
       /\ stakes2[top].released = stakes[top].released
       /\ stakes2[top].status = CANDIDATE
  BY <1>3, <1>4, <1>8, <1>10, <1>11, Zenon
<1>13. DOMAIN rows2 = DOMAIN rows \cup {key} /\ \A k \in DOMAIN rows : k # key => rows2[k] = rows[k]
  BY <1>3 DEF Upsert
<1>14. /\ rows2[key] \in Row /\ rows2[key].released = 0 /\ ~rows2[key].history
       /\ Held(rows2[key]) = (IF key \in DOMAIN rows THEN Held(rows[key]) ELSE 0) + amount
       /\ rows2[key].released = (IF key \in DOMAIN rows THEN rows[key].released ELSE 0)
  <2>1. CASE key \in DOMAIN rows
    <3>1. PICK r \in Row : r = rows[key]
      BY <1>1, <2>1
    <3>2. PICK d : d = [r EXCEPT !.hes = @ + amount, !.history = FALSE]
      OBVIOUS
    <3>3. rows2[key] = d
      BY <1>3, <2>1, <3>1, <3>2, Zenon DEF Upsert
    <3>4. /\ d \in Row /\ d.hes = r.hes + amount /\ d.locked = r.locked
          /\ d.released = r.released /\ ~d.history
      BY <1>2, <3>2, AddedRow
    <3>5. r.released = 0
      BY <1>2, <1>3, <2>1, <3>1 DEF SoundRows, PartsIn
    <3>6. Held(d) = Held(r) + amount
      BY <1>2, <3>4 DEF Held, Row
    <3> QED
      BY <2>1, <3>1, <3>3, <3>4, <3>5, <3>6, Zenon
  <2>2. CASE key \notin DOMAIN rows
    <3>1. rows2[key] = [hes |-> amount, locked |-> 0, released |-> 0, history |-> FALSE]
      BY <1>3, <2>2 DEF Upsert
    <3> QED
      BY <1>2, <2>2, <3>1 DEF Held, Row
  <2> QED
    BY <2>1, <2>2
<1>15. rows2 \in [DOMAIN rows2 -> Row] /\ DOMAIN rows2 \subseteq Keys
  <2>1. \A k \in DOMAIN rows2 : rows2[k] \in Row
    BY <1>1, <1>13, <1>14
  <2>2. rows2 = [k \in DOMAIN rows2 |-> rows2[k]]
    BY <1>3 DEF Upsert
  <2> QED
    BY <1>1, <1>2, <1>13, <2>1, <2>2
<1>16. PartsIn(rows2, stakes2, top)
  <2>1. \A g \in 1..top : stakes2[g].status = stakes[g].status
    BY <1>3, <1>10, <1>12
  <2> SUFFICES ASSUME NEW k \in DOMAIN rows2
               PROVE  /\ k[2] \in 1..top
                      /\ stakes2[k[2]].status = CANDIDATE => rows2[k].released = 0
                      /\ stakes2[k[2]].status # CANDIDATE => rows2[k].hes = 0 /\ rows2[k].locked = 0
                      /\ rows2[k].history => Total(rows2[k]) = 0
    BY DEF PartsIn
  <2>2. CASE k = key
    BY <1>1, <1>2, <1>12, <1>14, <2>2
  <2>3. CASE k # key
    BY <1>13, <2>1, <2>3 DEF SoundRows, PartsIn
  <2> QED
    BY <2>2, <2>3
<1>17. SoundRows(rows2, stakes2, top)
  BY <1>2, <1>10, <1>15, <1>16 DEF SoundRows, Shaped
<1> QED
  BY <1>10, <1>12, <1>13, <1>14, <1>17 DEF Added

NodeAdds(nd, amount, others, nd2) ==
  nd2 = [nd EXCEPT !.value = @ + amount, !.valid = others + 1]

\* A delegation is added to the row, the staking and the node.
LEMMA AddedSound ==
  ASSUME NEW rows, NEW stakes, NEW nd, NEW top, NEW once, NEW key, NEW amount, NEW others \in Int,
         NEW rows2, NEW stakes2, NEW nd2, Sound(rows, stakes, nd, top, once),
         Adds(rows, stakes, top, key, amount, rows2, stakes2),
         NodeAdds(nd, amount, others, nd2)
  PROVE  Sound(rows2, stakes2, nd2, top, once) /\ nd2.valid = others + 1
<1>1. /\ IsFiniteSet(DOMAIN rows) /\ rows \in [DOMAIN rows -> Row]
      /\ stakes \in [1..top -> StakingRow] /\ top \in Nat /\ top \in 1..top /\ nd \in NodeRow
  BY SoundAre DEF Sound
<1>2. amount \in Int /\ key[2] = top
  BY DelegationAssumption DEF Adds
<1>3. SoundRows(rows, stakes, top)
  BY DEF Sound
<1>a. SoundRows(rows2, stakes2, top) /\ Added(rows, stakes, top, key, amount, rows2, stakes2)
  BY <1>3, AddedRows
<1>4. /\ SoundRows(rows2, stakes2, top)
      /\ DOMAIN rows2 = DOMAIN rows \cup {key}
      /\ \A k \in DOMAIN rows : k # key => rows2[k] = rows[k]
      /\ Held(rows2[key]) = (IF key \in DOMAIN rows THEN Held(rows[key]) ELSE 0) + amount
      /\ rows2[key].released = (IF key \in DOMAIN rows THEN rows[key].released ELSE 0)
      /\ \A g \in 1..top : g # top => stakes2[g] = stakes[g]
      /\ Held(stakes2[top]) = Held(stakes[top]) + amount
      /\ stakes2[top].released = stakes[top].released
  BY <1>a DEF Added
<1>5. rows2 \in [DOMAIN rows \cup {key} -> Row] /\ stakes2 \in [1..top -> StakingRow]
  BY <1>4, SoundAre
<1>6. /\ \A g : g # top => /\ HeldSum(rows2, g) = HeldSum(rows, g)
                           /\ FreedSum(rows2, g) = FreedSum(rows, g)
      /\ HeldSum(rows2, top) = HeldSum(rows, top) + amount
      /\ FreedSum(rows2, top) = FreedSum(rows, top)
  <2>1. PICK h, f : /\ h = (IF key \in DOMAIN rows THEN Held(rows[key]) ELSE 0)
                    /\ f = (IF key \in DOMAIN rows THEN rows[key].released ELSE 0)
    OBVIOUS
  <2>2. h \in Int /\ f \in Int
    BY <1>1, <2>1, RowInts
  <2>3. PICK D : D = DOMAIN rows
    OBVIOUS
  <2>4. RowPut(D, rows, key, rows2)
    BY <1>1, <1>4, <1>5, <2>3, Zenon DEF RowPut
  <2>5. /\ \A g : g # key[2] => HeldSum(rows2, g) = HeldSum(rows, g) /\ FreedSum(rows2, g) = FreedSum(rows, g)
        /\ HeldSum(rows2, key[2]) =
             HeldSum(rows, key[2]) - (IF key \in D THEN Held(rows[key]) ELSE 0) + Held(rows2[key])
        /\ FreedSum(rows2, key[2]) =
             FreedSum(rows, key[2]) - (IF key \in D THEN rows[key].released ELSE 0) + rows2[key].released
    BY <2>4, SumsPut
  <2>6. /\ HeldSum(rows2, top) = HeldSum(rows, top) - h + (h + amount)
        /\ FreedSum(rows2, top) = FreedSum(rows, top) - f + f
    BY <1>2, <1>4, <2>1, <2>3, <2>5, Zenon
  <2>7. HeldSum(rows, top) \in Int /\ FreedSum(rows, top) \in Int
    BY <1>1, <1>3, SoundSums
  <2> QED
    BY <1>2, <2>2, <2>5, <2>6, <2>7
<1>7. nd2 \in NodeRow /\ nd2.value = nd.value + amount /\ nd2.released = nd.released
      /\ nd2.valid = others + 1
  <2>1. nd.value + amount \in Int /\ others + 1 \in Int
    BY <1>1, <1>2 DEF NodeRow
  <2>2. PICK v \in Int, c \in Int : v = nd.value + amount /\ c = others + 1
    BY <2>1
  <2>3. nd2 = Grown(nd, v, c)
    BY <2>2, Zenon DEF Grown, NodeAdds
  <2>4. nd2 \in NodeRow /\ nd2.value = v /\ nd2.released = nd.released /\ nd2.valid = c
    <3>1. nd \in NodeRow
      BY <1>1
    <3>2. PICK x : x = Grown(nd, v, c)
      OBVIOUS
    <3>3. x \in NodeRow /\ x.value = v /\ x.released = nd.released /\ x.valid = c
      BY <3>1, <3>2, NodeGrown
    <3> QED
      BY <2>3, <3>2, <3>3, Zenon
  <2> QED
    BY <2>2, <2>4, Zenon
<1>8. EndedSum(stakes2) = EndedSum(stakes)
  <2>1. 1..top \cup {top} = 1..top
    BY <1>1
  <2>2. StakingPut(top, stakes, top, stakes2)
    BY <1>1, <1>4, <1>5, <2>1 DEF StakingPut
  <2>3. EndedSum(stakes2) = EndedSum(stakes) - (IF top \in 1..top THEN stakes[top].released ELSE 0)
                            + stakes2[top].released
    BY <2>2, EndedPut
  <2>4. EndedSum(stakes) \in Int /\ stakes[top].released \in Int
    BY <1>1, EndedInt DEF StakingRow
  <2> QED
    BY <1>1, <1>4, <2>3, <2>4
<1>9. EndedBefore(stakes2, top)
  BY <1>4 DEF Sound, EndedBefore
<1>10. HeldRight(rows2, stakes2, top)
  BY <1>4, <1>6 DEF Sound, HeldRight
<1>11. ASSUME ~PunishLeaving
       PROVE  FreedRight(rows2, stakes2, top) /\ NodeRight(stakes2, nd2, top, once)
  <2>1. FreedRight(rows, stakes, top) /\ NodeRight(stakes, nd, top, once)
    BY <1>11 DEF Sound
  <2>2. FreedRight(rows2, stakes2, top)
    BY <1>4, <1>6, <2>1 DEF FreedRight
  <2>3. NodeRight(stakes2, nd2, top, once)
    BY <1>4, <1>7, <1>8, <2>1 DEF NodeRight
  <2> QED
    BY <2>2, <2>3
<1> QED
  BY <1>4, <1>7, <1>9, <1>10, <1>11 DEF Sound

\* What a refund makes of the tables.
Taken(t, u, top, key, n) ==
  /\ DOMAIN u.delegation = DOMAIN t.delegation
  /\ \A k \in DOMAIN t.delegation : k # key => u.delegation[k] = t.delegation[k]
  /\ Total(u.delegation[key]) =
       IF Total(t.delegation[key]) - n < Threshold THEN 0 ELSE Total(t.delegation[key]) - n
  /\ u.delegation[key].history <=> RefundsAll(t.delegation[key], n)
  /\ \A g \in 1..top : u.staking[g].status = t.staking[g].status
  /\ u.node.valid = t.node.valid - (IF /\ RefundsAll(t.delegation[key], n)
                                       /\ t.staking[key[2]].status = CANDIDATE THEN 1 ELSE 0)

Good(t, top, once) == Sound(t.delegation, t.staking, t.node, top, once)

\* A refund is taken off the row, the staking and the node.
LEMMA TakenSound ==
  ASSUME NEW t, NEW top, NEW once, Good(t, top, once),
         NEW key \in DOMAIN t.delegation, NEW n \in Nat, NEW u, u = TakenBack(t, key, n)
  PROVE  Good(u, top, once) /\ Taken(t, u, top, key, n)
<1>1. PICK rows, stakes, nd : rows = t.delegation /\ stakes = t.staking /\ nd = t.node
  OBVIOUS
<1>2. PICK rows2, stakes2, nd2 : rows2 = u.delegation /\ stakes2 = u.staking /\ nd2 = u.node
  OBVIOUS
<1>3. Sound(rows, stakes, nd, top, once) /\ SoundRows(rows, stakes, top) /\ key \in DOMAIN rows
  BY <1>1, Zenon DEF Good, Sound
<1>4. /\ IsFiniteSet(DOMAIN rows) /\ rows \in [DOMAIN rows -> Row] /\ DOMAIN rows \subseteq Keys
      /\ stakes \in [1..top -> StakingRow] /\ top \in Nat /\ top \in 1..top /\ nd \in NodeRow
  BY <1>3, SoundAre DEF Sound
<1>5. PICK r \in Row : r = rows[key]
  BY <1>3, <1>4
<1>6. PICK g \in 1..top : g = key[2]
  BY <1>3 DEF SoundRows, PartsIn
<1>7. PICK leaving \in BOOLEAN : leaving <=> stakes[g].status \in {EXITING, EXITED}
  OBVIOUS
<1>8. leaving <=> stakes[g].status # CANDIDATE
  <2>1. stakes[g].status \in {CANDIDATE, EXITING, EXITED}
    BY <1>4 DEF StakingRow
  <2> QED
    BY <1>7, <2>1 DEF CANDIDATE, EXITING, EXITED
<1>9. leaving => r.hes = 0 /\ r.locked = 0
  BY <1>3, <1>5, <1>6, <1>8 DEF SoundRows, PartsIn
<1>10. ~leaving => r.released = 0
  BY <1>3, <1>5, <1>6, <1>8 DEF SoundRows, PartsIn
<1>11. PICK real : real = RealRefund(r, n)
  OBVIOUS
<1>12. PICK dec : dec = Decrease(r, leaving, real)
  OBVIOUS
<1>13. PICK d : d = Refunded(r, n, leaving, real)
  OBVIOUS
<1>14. /\ real \in Int /\ dec.hes \in Int /\ dec.locked \in Int /\ dec.released \in Int
       /\ Held(d) = Held(r) - (dec.hes + dec.locked)
       /\ d.released = r.released - dec.released
       /\ leaving => dec.hes = 0 /\ dec.locked = 0
       /\ ~leaving => dec.hes + dec.locked = real /\ dec.released = 0
  BY <1>9, <1>10, <1>11, <1>12, <1>13, RefundedTotals
<1>15. leaving = (stakes[key[2]].status \in {EXITING, EXITED})
  BY <1>6, <1>7
<1>16. PICK y, z : /\ y = CountsAfter(nd, RefundsAll(r, n), leaving).valid
                   /\ z = CountsAfter(nd, RefundsAll(r, n), leaving).invalid
  OBVIOUS
<1>17. /\ rows2 = [rows EXCEPT ![key] = d]
       /\ stakes2 = [stakes EXCEPT ![g].hes = @ - dec.hes, ![g].locked = @ - dec.locked,
                                   ![g].released = @ - dec.released]
       /\ nd2 = [nd EXCEPT !.value = IF leaving THEN @ ELSE @ - real,
                           !.released = @ - dec.released, !.valid = y, !.invalid = z]
  <2>1. u = [delegation |-> [rows EXCEPT ![key] = d],
             staking |-> [stakes EXCEPT ![g].hes = @ - dec.hes, ![g].locked = @ - dec.locked,
                                        ![g].released = @ - dec.released],
             node |-> [nd EXCEPT !.value = IF leaving THEN @ ELSE @ - real,
                                 !.released = @ - dec.released, !.valid = y, !.invalid = z]]
    BY <1>1, <1>3, <1>5, <1>6, <1>11, <1>12, <1>13, <1>15, <1>16, Zenon DEF TakenBack, Refunded
  <2> QED
    BY <1>2, <2>1
<1>18. PICK a \in Int, b \in Int, c \in Int :
         a = dec.hes /\ b = dec.locked /\ c = dec.released
  BY <1>14
<1>19. /\ Held(r) \in Int /\ Held(d) \in Int /\ r.released \in Int /\ d.released \in Int
       /\ Held(d) = Held(r) - (a + b) /\ d.released = r.released - c
       /\ leaving => a = 0 /\ b = 0
       /\ ~leaving => a + b = real /\ c = 0
  <2>1. Held(r) \in Int /\ r.released \in Int
    BY RowInts
  <2>2. Held(d) = Held(r) - (a + b) /\ d.released = r.released - c
    BY <1>14, <1>18, Zenon
  <2>3. (leaving => a = 0 /\ b = 0) /\ (~leaving => a + b = real /\ c = 0)
    BY <1>14, <1>18, Zenon
  <2>4. Held(d) \in Int /\ d.released \in Int
    BY <2>1, <2>2
  <2> QED
    BY <2>1, <2>2, <2>3, <2>4, Zenon
<1>20. /\ d \in Row
       /\ leaving => d.hes = 0 /\ d.locked = 0
       /\ ~leaving => d.released = 0
       /\ d.history => Total(d) = 0
       /\ Total(d) = IF Total(r) - n < Threshold THEN 0 ELSE Total(r) - n
  <2>1. d = [Balance(r, leaving, RealRefund(r, n)) EXCEPT !.history = RefundsAll(r, n)]
    BY <1>11, <1>13, Zenon DEF Refunded
  <2> QED
    BY <1>9, <1>10, <2>1, RefundedRow
<1>21. d.history <=> RefundsAll(r, n)
  <2>1. PICK e : e = Balance(r, leaving, RealRefund(r, n))
    OBVIOUS
  <2>2. e \in Row
    BY <1>9, <1>10, <2>1, RefundedParts
  <2>3. RefundsAll(r, n) \in BOOLEAN
    BY DEF RefundsAll
  <2>4. d = [e EXCEPT !.history = RefundsAll(r, n)]
    BY <1>11, <1>13, <2>1, Zenon DEF Refunded
  <2> QED
    BY <2>2, <2>3, <2>4, MarkedRow, Zenon
<1>22. /\ DOMAIN rows2 = DOMAIN rows /\ rows2 \in [DOMAIN rows -> Row] /\ rows2[key] = d
       /\ \A k \in DOMAIN rows : k # key => rows2[k] = rows[k]
  BY <1>3, <1>4, <1>17, <1>20
<1>23. /\ \A x : x # g => /\ HeldSum(rows2, x) = HeldSum(rows, x)
                          /\ FreedSum(rows2, x) = FreedSum(rows, x)
       /\ HeldSum(rows2, g) = HeldSum(rows, g) - (a + b)
       /\ FreedSum(rows2, g) = FreedSum(rows, g) - c
  <2>1. PICK D : D = DOMAIN rows
    OBVIOUS
  <2>2. D \cup {key} = D /\ IsFiniteSet(D) /\ key \in D /\ rows \in [D -> Row] /\ rows2 \in [D -> Row]
    BY <1>3, <1>4, <1>22, <2>1
  <2>3. \A x \in D \ {key} : rows2[x] = rows[x]
    BY <1>22, <2>1
  <2>4. RowPut(D, rows, key, rows2)
    BY <2>2, <2>3, Zenon DEF RowPut
  <2>5. /\ \A x : x # key[2] => HeldSum(rows2, x) = HeldSum(rows, x) /\ FreedSum(rows2, x) = FreedSum(rows, x)
        /\ HeldSum(rows2, key[2]) =
             HeldSum(rows, key[2]) - (IF key \in D THEN Held(rows[key]) ELSE 0) + Held(rows2[key])
        /\ FreedSum(rows2, key[2]) =
             FreedSum(rows, key[2]) - (IF key \in D THEN rows[key].released ELSE 0) + rows2[key].released
    BY <2>4, SumsPut
  <2>6. /\ HeldSum(rows2, g) = HeldSum(rows, g) - Held(r) + Held(d)
        /\ FreedSum(rows2, g) = FreedSum(rows, g) - r.released + d.released
    BY <1>5, <1>6, <1>22, <2>2, <2>5
  <2>7. HeldSum(rows, g) \in Int /\ FreedSum(rows, g) \in Int
    BY <1>3, SoundSums
  <2>8. HeldSum(rows2, g) = HeldSum(rows, g) - (a + b) /\ FreedSum(rows2, g) = FreedSum(rows, g) - c
    BY <1>19, <2>6, <2>7
  <2> QED
    BY <1>6, <2>5, <2>8, Zenon
<1>24. stakes2 = [stakes EXCEPT ![g].hes = @ - a, ![g].locked = @ - b, ![g].released = @ - c]
  BY <1>17, <1>18, Zenon
<1>25. /\ stakes2 \in [1..top -> StakingRow]
       /\ \A x \in 1..top : x # g => stakes2[x] = stakes[x]
       /\ stakes2[g].hes = stakes[g].hes - a /\ stakes2[g].locked = stakes[g].locked - b
       /\ stakes2[g].released = stakes[g].released - c /\ stakes2[g].status = stakes[g].status
  <2>1. Decreased(top, stakes, g, a, b, c, stakes2)
    BY <1>4, <1>24, Zenon DEF Decreased
  <2> QED
    BY <2>1, StakingDecreased
<1>26. /\ stakes[g].hes \in Int /\ stakes[g].locked \in Int /\ stakes[g].released \in Int
       /\ Held(stakes2[g]) = Held(stakes[g]) - (a + b)
  <2>1. stakes[g].hes \in Int /\ stakes[g].locked \in Int /\ stakes[g].released \in Int
    BY <1>4 DEF StakingRow
  <2> QED
    BY <1>25, <2>1 DEF Held
<1>27. \A x \in 1..top : stakes2[x].status = stakes[x].status
  BY <1>25
<1>28. /\ nd2 \in NodeRow /\ nd2.released = nd.released - c
       /\ nd2.value = (IF leaving THEN nd.value ELSE nd.value - real) /\ nd2.valid = y
  <2>1. nd.value \in Int /\ nd.released \in Int /\ nd.valid \in Int /\ nd.invalid \in Int
    BY <1>4 DEF NodeRow
  <2>2. PICK v \in Int, f \in Int :
          v = (IF leaving THEN nd.value ELSE nd.value - real) /\ f = nd.released - c
    BY <1>14, <2>1
  <2>3. PICK p \in Int, q \in Int : p = y /\ q = z
    BY <1>16, <2>1 DEF CountsAfter
  <2>4. PICK m \in NodeRow : m = nd
    BY <1>4
  <2>5. nd2 = Shrunk(m, v, f, p, q)
    BY <1>17, <1>18, <2>2, <2>3, <2>4, Zenon DEF Shrunk
  <2>6. nd2 \in NodeRow /\ nd2.value = v /\ nd2.released = f /\ nd2.valid = p
    BY <2>5, NodeShrunk
  <2> QED
    BY <2>2, <2>3, <2>4, <2>6, Zenon
<1>29. y = nd.valid - (IF RefundsAll(r, n) /\ stakes[g].status = CANDIDATE THEN 1 ELSE 0)
  BY <1>8, <1>16 DEF CountsAfter
<1>30. EndedSum(stakes2) = EndedSum(stakes) - c
  <2>1. 1..top \cup {g} = 1..top
    OBVIOUS
  <2>2. StakingPut(top, stakes, g, stakes2)
    BY <1>4, <1>25, <2>1 DEF StakingPut
  <2>3. EndedSum(stakes2) = EndedSum(stakes) - (IF g \in 1..top THEN stakes[g].released ELSE 0)
                            + stakes2[g].released
    BY <2>2, EndedPut
  <2>4. EndedSum(stakes) \in Int
    BY <1>4, EndedInt
  <2> QED
    BY <1>25, <1>26, <2>3, <2>4
<1>31. SoundRows(rows2, stakes2, top)
  <2>1. PartsIn(rows2, stakes2, top)
    <3> SUFFICES ASSUME NEW k \in DOMAIN rows
                 PROVE  /\ k[2] \in 1..top
                        /\ stakes2[k[2]].status = CANDIDATE => rows2[k].released = 0
                        /\ stakes2[k[2]].status # CANDIDATE => rows2[k].hes = 0 /\ rows2[k].locked = 0
                        /\ rows2[k].history => Total(rows2[k]) = 0
      BY <1>22 DEF PartsIn
    <3>1. CASE k = key
      BY <1>6, <1>8, <1>20, <1>22, <1>27, <3>1
    <3>2. CASE k # key
      BY <1>3, <1>22, <1>27, <3>2 DEF SoundRows, PartsIn
    <3> QED
      BY <3>1, <3>2
  <2>2. Shaped(rows2, stakes2, top)
    BY <1>22, <1>25 DEF Shaped
  <2> QED
    BY <1>3, <1>4, <1>22, <2>1, <2>2 DEF SoundRows
<1>32. EndedBefore(stakes2, top)
  BY <1>3, <1>27 DEF Sound, EndedBefore
<1>33. HeldRight(rows2, stakes2, top)
  <2> SUFFICES ASSUME NEW x \in 1..top PROVE Held(stakes2[x]) = HeldSum(rows2, x)
    BY DEF HeldRight
  <2>1. Held(stakes[x]) = HeldSum(rows, x)
    BY <1>3 DEF Sound, HeldRight
  <2> QED
    BY <1>23, <1>25, <1>26, <2>1
<1>34. ASSUME ~PunishLeaving
       PROVE  FreedRight(rows2, stakes2, top) /\ NodeRight(stakes2, nd2, top, once)
  <2>1. FreedRight(rows, stakes, top) /\ NodeRight(stakes, nd, top, once)
    BY <1>3, <1>34 DEF Sound
  <2>2. FreedRight(rows2, stakes2, top)
    <3> SUFFICES ASSUME NEW x \in 1..top PROVE stakes2[x].released = FreedSum(rows2, x)
      BY DEF FreedRight
    <3>1. stakes[x].released = FreedSum(rows, x)
      BY <2>1 DEF FreedRight
    <3> QED
      BY <1>23, <1>25, <3>1
  <2>3. nd2.value = Held(stakes2[top])
    <3>1. nd.value = Held(stakes[top]) /\ Held(stakes[top]) \in Int
      <4>1. stakes[top].hes \in Int /\ stakes[top].locked \in Int
        BY <1>4 DEF StakingRow
      <4> QED
        BY <2>1, <4>1 DEF NodeRight, Held
    <3>2. CASE leaving
      <4>1. a = 0 /\ b = 0 /\ nd2.value = nd.value
        BY <1>19, <1>28, <3>2
      <4>2. CASE g = top
        <5>1. Held(stakes2[top]) = Held(stakes[top]) - (0 + 0)
          BY <1>26, <4>1, <4>2
        <5> QED
          BY <3>1, <4>1, <5>1
      <4>3. CASE g # top
        BY <1>4, <1>25, <3>1, <4>1, <4>3
      <4> QED
        BY <4>2, <4>3
    <3>3. CASE ~leaving
      <4>1. g = top
        BY <1>3, <1>8, <3>3 DEF Sound, EndedBefore, CANDIDATE, EXITED
      <4>2. a + b = real /\ nd2.value = nd.value - real
        BY <1>19, <1>28, <3>3
      <4> QED
        BY <1>26, <3>1, <4>1, <4>2
    <3> QED
      BY <3>2, <3>3
  <2>4. once => nd2.released = EndedSum(stakes2)
    BY <1>28, <1>30, <2>1 DEF NodeRight
  <2> QED
    BY <2>2, <2>3, <2>4 DEF NodeRight
<1>35. Sound(rows2, stakes2, nd2, top, once)
  BY <1>28, <1>31, <1>32, <1>33, <1>34 DEF Sound
<1>36. Good(u, top, once)
  BY <1>2, <1>35, Zenon DEF Good
<1>37. Taken(t, u, top, key, n)
  <2>1. Total(rows2[key]) = IF Total(rows[key]) - n < Threshold THEN 0 ELSE Total(rows[key]) - n
    BY <1>5, <1>20, <1>22, Zenon
  <2>2. rows2[key].history <=> RefundsAll(rows[key], n)
    BY <1>5, <1>21, <1>22, Zenon
  <2>3. nd2.valid = nd.valid - (IF RefundsAll(rows[key], n) /\ stakes[key[2]].status = CANDIDATE
                                THEN 1 ELSE 0)
    BY <1>5, <1>6, <1>28, <1>29, Zenon
  <2> QED
    BY <1>1, <1>2, <1>22, <1>27, <2>1, <2>2, <2>3, Zenon DEF Taken
<1> QED
  BY <1>36, <1>37

\* The same of a delegation.
LEMMA DelegatedSound ==
  ASSUME NEW t, NEW top, NEW once, Good(t, top, once), t.staking[top].status = CANDIDATE,
         NEW a \in Addrs, NEW amount \in Amounts, NEW key, key = <<a, top>>,
         NEW u, u = Delegated(t, key, amount)
  PROVE  /\ Good(u, top, once)
         /\ Added(t.delegation, t.staking, top, key, amount, u.delegation, u.staking)
         /\ u.node.valid = OthersDelegating(t.delegation, a) + 1
<1>1. PICK rows, stakes, nd : rows = t.delegation /\ stakes = t.staking /\ nd = t.node
  OBVIOUS
<1>2. PICK rows2, stakes2, nd2 : rows2 = u.delegation /\ stakes2 = u.staking /\ nd2 = u.node
  OBVIOUS
<1>3. Sound(rows, stakes, nd, top, once) /\ SoundRows(rows, stakes, top)
  BY <1>1, Zenon DEF Good, Sound
<1>4. key \in Keys /\ key[1] = a /\ key[2] = top
  BY <1>3 DEF SoundRows, Keys
<1>5. PICK others : others = OthersDelegating(rows, a)
  OBVIOUS
<1>6. others \in Int
  BY <1>3, <1>5, CountsInt DEF SoundRows
<1>7. /\ rows2 = Upsert(rows, key, amount)
      /\ stakes2 = [stakes EXCEPT ![top].hes = @ + amount]
      /\ nd2 = [nd EXCEPT !.value = @ + amount, !.valid = others + 1]
  <2>1. PICK d, s, m : /\ d = Upsert(rows, key, amount)
                       /\ s = [stakes EXCEPT ![top].hes = @ + amount]
                       /\ m = [nd EXCEPT !.value = @ + amount, !.valid = others + 1]
    OBVIOUS
  <2>2. u = [delegation |-> d, staking |-> s, node |-> m]
    BY <1>1, <1>4, <1>5, <2>1, Zenon DEF Delegated
  <2>3. u.delegation = d /\ u.staking = s /\ u.node = m
    BY <2>2
  <2> QED
    BY <1>2, <2>1, <2>3, Zenon
<1>8. Adds(rows, stakes, top, key, amount, rows2, stakes2)
  BY <1>1, <1>4, <1>7, Zenon DEF Adds
<1>9. NodeAdds(nd, amount, others, nd2)
  BY <1>7, Zenon DEF NodeAdds
<1>10. Sound(rows2, stakes2, nd2, top, once) /\ nd2.valid = others + 1
  BY <1>3, <1>6, <1>8, <1>9, AddedSound
<1>11. Added(rows, stakes, top, key, amount, rows2, stakes2)
  BY <1>3, <1>8, AddedRows
<1> QED
  BY <1>1, <1>2, <1>5, <1>10, <1>11, Zenon DEF Good

\* What the exit of the last staking makes of the tables.
Left(t, u, top) ==
  /\ DOMAIN u.delegation = DOMAIN t.delegation
  /\ \A k \in DOMAIN t.delegation :
       /\ u.delegation[k].history <=> t.delegation[k].history
       /\ t.staking[top].status = CANDIDATE =>
            Total(u.delegation[k]) = Total(t.delegation[k])
  /\ u.staking[top].status # CANDIDATE /\ u.node.valid = 0

\* The rows of the last staking are released; they are again by a second exit,
\* which finds them released.
LEMMA ExitedSound ==
  ASSUME NEW t, NEW top, NEW once, Good(t, top, once),
         once = TRUE => t.staking[top].status = CANDIDATE \/ PunishLeaving,
         NEW st \in {EXITING, EXITED}, NEW u, u = Exited(t, top, st)
  PROVE  Good(u, top, once) /\ Left(t, u, top)
<1>1. PICK rows, stakes, nd : rows = t.delegation /\ stakes = t.staking /\ nd = t.node
  OBVIOUS
<1>2. PICK rows2, stakes2, nd2 : rows2 = u.delegation /\ stakes2 = u.staking /\ nd2 = u.node
  OBVIOUS
<1>3. Sound(rows, stakes, nd, top, once) /\ SoundRows(rows, stakes, top)
  BY <1>1, Zenon DEF Good, Sound
<1>4. /\ rows \in [DOMAIN rows -> Row] /\ DOMAIN rows \subseteq Keys
      /\ stakes \in [1..top -> StakingRow] /\ top \in 1..top /\ nd \in NodeRow
  BY <1>3, SoundAre DEF Sound
<1>5. PICK st2 \in {EXITING, EXITED} :
        st2 = IF stakes[top].status = CANDIDATE THEN st ELSE EXITED
  OBVIOUS
<1>6. /\ rows2 = [k \in DOMAIN rows |->
                    IF k[2] = top /\ ~rows[k].history THEN Release(rows[k]) ELSE rows[k]]
      /\ stakes2 = [stakes EXCEPT ![top] = EndedTotals(@, st2)]
      /\ nd2 = NodeAfterEnd(nd, rows2)
  <2>1. PICK d : d = [k \in DOMAIN rows |->
                        IF k[2] = top /\ ~rows[k].history THEN Release(rows[k]) ELSE rows[k]]
    OBVIOUS
  <2>2. PICK s, m : /\ s = [stakes EXCEPT ![top] =
                              EndedTotals(@, IF @.status = CANDIDATE THEN st ELSE EXITED)]
                    /\ m = NodeAfterEnd(nd, d)
    OBVIOUS
  <2>3. u = [delegation |-> d, staking |-> s, node |-> m]
    BY <1>1, <2>1, <2>2, Zenon DEF Exited
  <2>4. u.delegation = d /\ u.staking = s /\ u.node = m
    BY <2>3
  <2>5. s = [stakes EXCEPT ![top] = EndedTotals(@, st2)]
    BY <1>5, <2>2, Zenon
  <2> QED
    BY <1>2, <2>1, <2>2, <2>4, <2>5, Zenon
<1>7. PICK s2 : s2 = EndedTotals(stakes[top], st2)
  OBVIOUS
<1>8. s2 \in StakingRow /\ s2.status # CANDIDATE
  <2>1. PICK s \in StakingRow : s = stakes[top]
    BY <1>4
  <2>2. s2 = EndedTotals(s, st2)
    BY <1>7, <2>1
  <2> QED
    BY <2>2, EndedStaking
<1>9. stakes2 = [stakes EXCEPT ![top] = s2]
  BY <1>6, <1>7, Zenon
<1>10. /\ stakes2 \in [1..top -> StakingRow] /\ stakes2[top] = s2
       /\ \A g \in 1..top : g # top => stakes2[g] = stakes[g]
  BY <1>4, <1>8, <1>9
<1>11. DOMAIN rows2 = DOMAIN rows
  BY <1>6, Zenon
<1>12. ASSUME NEW k \in DOMAIN rows
       PROVE  /\ rows2[k] \in Row /\ (rows2[k].history <=> rows[k].history)
              /\ k[2] = top => /\ rows2[k].hes = 0 /\ rows2[k].locked = 0
                               /\ rows2[k].released = Held(rows[k])
              /\ k[2] # top => rows2[k] = rows[k]
  <2>1. PICK r \in Row : r = rows[k]
    BY <1>4
  <2>2. CASE k[2] = top /\ ~r.history
    <3>1. PICK x : x = Release(r)
      OBVIOUS
    <3>2. rows2[k] = x
      BY <1>6, <2>1, <2>2, <3>1, Zenon
    <3>3. x \in Row /\ x.hes = 0 /\ x.locked = 0 /\ x.released = r.hes + r.locked
          /\ (x.history <=> r.history)
      BY <3>1, ReleasedRow
    <3> QED
      BY <2>1, <2>2, <3>2, <3>3 DEF Held
  <2>3. CASE k[2] = top /\ r.history
    <3>1. rows2[k] = r
      BY <1>6, <2>1, <2>3, Zenon
    <3>2. Total(r) = 0
      BY <1>3, <2>1, <2>3 DEF SoundRows, PartsIn
    <3>3. r.hes = 0 /\ r.locked = 0 /\ r.released = 0
      BY <3>2, NothingLeft
    <3> QED
      BY <2>1, <2>3, <3>1, <3>3 DEF Held
  <2>4. CASE k[2] # top
    BY <1>6, <2>1, <2>4, Zenon
  <2> QED
    BY <2>2, <2>3, <2>4
<1>13. ASSUME NEW k \in DOMAIN rows, stakes[top].status = CANDIDATE
       PROVE  Total(rows2[k]) = Total(rows[k])
  <2>1. CASE k[2] = top
    <3>1. rows[k].released = 0 /\ rows[k] \in Row
      BY <1>3, <1>4, <1>13, <2>1 DEF SoundRows, PartsIn
    <3>2. rows2[k].hes = 0 /\ rows2[k].locked = 0 /\ rows2[k].released = Held(rows[k])
      BY <1>12, <2>1
    <3>3. Held(rows[k]) \in Nat /\ Total(rows[k]) = Held(rows[k]) + rows[k].released
      BY <3>1, RowInts
    <3> QED
      BY <3>1, <3>2, <3>3 DEF Total
  <2>2. CASE k[2] # top
    BY <1>12, <2>2
  <2> QED
    BY <2>1, <2>2
<1>14. SoundRows(rows2, stakes2, top)
  <2>1. PartsIn(rows2, stakes2, top)
    <3> SUFFICES ASSUME NEW k \in DOMAIN rows
                 PROVE  /\ k[2] \in 1..top
                        /\ stakes2[k[2]].status = CANDIDATE => rows2[k].released = 0
                        /\ stakes2[k[2]].status # CANDIDATE => rows2[k].hes = 0 /\ rows2[k].locked = 0
                        /\ rows2[k].history => Total(rows2[k]) = 0
      BY <1>11 DEF PartsIn
    <3>1. /\ k[2] \in 1..top /\ (rows[k].history => Total(rows[k]) = 0) /\ rows[k] \in Row
          /\ stakes[k[2]].status = CANDIDATE => rows[k].released = 0
          /\ stakes[k[2]].status # CANDIDATE => rows[k].hes = 0 /\ rows[k].locked = 0
      BY <1>3, <1>4 DEF SoundRows, PartsIn
    <3>2. CASE k[2] = top
      <4>1. rows2[k].hes = 0 /\ rows2[k].locked = 0 /\ rows2[k].released = Held(rows[k])
            /\ (rows2[k].history <=> rows[k].history)
        BY <1>12, <3>2
      <4>2. rows[k].history => Held(rows[k]) = 0
        BY <3>1, NothingLeft DEF Held
      <4>3. rows2[k].history => Total(rows2[k]) = 0
        BY <4>1, <4>2 DEF Total
      <4> QED
        BY <1>8, <1>10, <3>1, <3>2, <4>1, <4>3
    <3>3. CASE k[2] # top
      BY <1>10, <1>12, <3>1, <3>3
    <3> QED
      BY <3>2, <3>3
  <2>2. rows2 = [k \in DOMAIN rows |-> rows2[k]]
    BY <1>6, <1>11, Zenon
  <2>3. rows2 \in [DOMAIN rows -> Row]
    BY <1>12, <2>2
  <2>4. Shaped(rows2, stakes2, top)
    BY <1>10, <1>11, <2>3 DEF Shaped
  <2> QED
    BY <1>3, <1>4, <1>11, <2>1, <2>4 DEF SoundRows
<1>15. Ends(rows, stakes, nd, top, rows2, stakes2, nd2, st2)
  <2>1. \A k \in DOMAIN rows :
          /\ k[2] = top => Held(rows2[k]) = 0
          /\ k[2] = top /\ ~PunishLeaving => rows2[k].released = Held(rows[k])
          /\ k[2] # top => rows2[k] = rows[k]
    BY <1>12 DEF Held
  <2> QED
    BY <1>6, <1>11, <2>1, Zenon DEF Ends
<1>16. once = TRUE => stakes[top].status = CANDIDATE \/ PunishLeaving
  BY <1>1, Zenon
<1>17. Sound(rows2, stakes2, nd2, top, once)
  BY <1>3, <1>14, <1>15, <1>16, EndSound, Zenon
<1>18. nd2.valid = 0
  BY <1>6 DEF NodeAfterEnd
<1>19. Good(u, top, once)
  BY <1>2, <1>17, Zenon DEF Good
<1>20. stakes2[top].status # CANDIDATE
  BY <1>8, <1>10
<1>21. \A k \in DOMAIN rows :
         /\ rows2[k].history <=> rows[k].history
         /\ stakes[top].status = CANDIDATE => Total(rows2[k]) = Total(rows[k])
  BY <1>12, <1>13
<1>22. Left(t, u, top)
  BY <1>1, <1>2, <1>11, <1>18, <1>20, <1>21, Zenon DEF Left
<1> QED
  BY <1>19, <1>22

-----------------------------------------------------------------------------
(* Any number of analyses *)

\* f lists the tables after each analysis.
Steps(f, t, tx, n) == f[0] = t /\ \A i \in 1..n : f[i] = Handle(f[i - 1], tx)

Lists(f, t, tx, n) == f = [i \in 0..n |-> IF i = 0 THEN t ELSE Handle(f[i - 1], tx)]

LEMMA ListsAre ==
  ASSUME NEW f, NEW t, NEW tx, NEW n \in Nat, Lists(f, t, tx, n)
  PROVE  Steps(f, t, tx, n)
<1> DEFINE val(i) == IF i = 0 THEN t ELSE Handle(f[i - 1], tx)
<1>1. f = [i \in 0..n |-> val(i)]
  BY Zenon DEF Lists
<1>2. val(0) = t /\ \A i \in 1..n : val(i) = Handle(f[i - 1], tx)
  OBVIOUS
<1> HIDE DEF val
<1>3. \A i \in 0..n : f[i] = val(i)
  BY <1>1
<1> QED
  BY <1>2, <1>3 DEF Steps

LEMMA ListsExist ==
  ASSUME NEW t, NEW tx, NEW n \in Nat
  PROVE  \E f : Lists(f, t, tx, n)
<1> DEFINE val(f, i) == IF i = 0 THEN t ELSE Handle(f[i - 1], tx)
           N == {m \in Nat : \E f : \A i \in 0..m : f[i] = val(f, i)}
<1>1. 0 \in N
  <2> DEFINE f == [i \in 0..0 |-> t]
  <2>1. \A i \in 0..0 : f[i] = val(f, i)
    OBVIOUS
  <2> HIDE DEF f
  <2> QED
    BY <2>1
<1>2. ASSUME NEW m \in Nat, m \in N PROVE m + 1 \in N
  <2>1. PICK f : \A i \in 0..m : f[i] = val(f, i)
    BY <1>2
  <2> DEFINE h == [i \in 0..(m + 1) |-> IF i = m + 1 THEN Handle(f[m], tx) ELSE f[i]]
  <2>2. \A i \in 0..m : h[i] = f[i]
    OBVIOUS
  <2>3. h[m + 1] = Handle(f[m], tx)
    OBVIOUS
  <2> HIDE DEF h
  <2>4. h[m + 1] = val(h, m + 1)
    <3>1. h[m] = f[m] /\ (m + 1) - 1 = m /\ m + 1 # 0
      BY <2>2
    <3> QED
      BY <2>3, <3>1
  <2>5. ASSUME NEW i \in 0..m PROVE h[i] = val(h, i)
    <3>1. h[i] = val(f, i)
      BY <2>1, <2>2
    <3>2. i # 0 => i - 1 \in 0..m
      OBVIOUS
    <3>3. i # 0 => h[i - 1] = f[i - 1]
      BY <2>2, <3>2
    <3> QED
      BY <3>1, <3>3
  <2>6. \A i \in 0..(m + 1) : h[i] = val(h, i)
    <3>1. \A i \in 0..(m + 1) : i \in 0..m \/ i = m + 1
      OBVIOUS
    <3> HIDE DEF val
    <3> QED
      BY <2>4, <2>5, <3>1
  <2> HIDE DEF val
  <2>7. \E g : \A i \in 0..(m + 1) : g[i] = val(g, i)
    BY <2>6, Zenon
  <2>8. m + 1 \in Nat
    OBVIOUS
  <2> QED
    BY <2>7, <2>8
<1> HIDE DEF N
<1>3. n \in N
  BY <1>1, <1>2, NatSet, Zenon
<1>4. PICK f : \A i \in 0..n : f[i] = val(f, i)
  BY <1>3 DEF N
<1> DEFINE h == [i \in 0..n |-> f[i]]
<1>5. \A i \in 0..n : h[i] = val(h, i)
  <2> SUFFICES ASSUME NEW i \in 0..n PROVE h[i] = val(h, i)
    OBVIOUS
  <2>1. h[i] = val(f, i)
    BY <1>4
  <2>2. i # 0 => i - 1 \in 0..n
    OBVIOUS
  <2>3. i # 0 => h[i - 1] = f[i - 1]
    BY <2>2
  <2> HIDE DEF h
  <2> QED
    BY <2>1, <2>3
<1>6. h = [i \in 0..n |-> val(h, i)]
  <2>1. h = [i \in 0..n |-> h[i]]
    OBVIOUS
  <2> HIDE DEF h
  <2> QED
    BY <1>5, <2>1
<1> HIDE DEF h
<1>7. Lists(h, t, tx, n)
  BY <1>6, Zenon DEF Lists
<1> QED
  BY <1>7

\* The tables after n analyses are reached in n steps.
LEMMA AnalysedSteps ==
  ASSUME NEW t, NEW tx, NEW n \in Nat
  PROVE  \E f : Steps(f, t, tx, n) /\ Analysed(t, tx, n) = f[n]
<1>1. PICK f : f = CHOOSE g : Lists(g, t, tx, n)
  OBVIOUS
<1>2. Lists(f, t, tx, n)
  BY <1>1, ListsExist, Zenon
<1>3. Analysed(t, tx, n) = f[n]
  BY <1>1, Zenon DEF Analysed, Lists
<1>4. Steps(f, t, tx, n)
  BY <1>2, ListsAre
<1> QED
  BY <1>3, <1>4

LEMMA AnalysedOnce ==
  ASSUME NEW t, NEW tx
  PROVE  Analysed(t, tx, 1) = Handle(t, tx)
<1>1. PICK f : Steps(f, t, tx, 1) /\ Analysed(t, tx, 1) = f[1]
  BY AnalysedSteps
<1>2. f[0] = t /\ f[1] = Handle(f[1 - 1], tx)
  BY <1>1 DEF Steps
<1> QED
  BY <1>1, <1>2

\* An analysis is the handler of the transaction's type.
LEMMA HandleIs ==
  ASSUME NEW t, NEW tx
  PROVE  /\ tx.type = "delegate" => Handle(t, tx) = Delegated(t, tx.key, tx.amount)
         /\ tx.type = "undelegate" => Handle(t, tx) = TakenBack(t, tx.key, tx.amount)
         /\ tx.type = "stakeExit" => Handle(t, tx) = Exited(t, tx.staking, tx.status)
BY DEF Handle

\* The transactions of a block, with the last staking.
Possible(tx, top) ==
  \/ tx.type = "delegate" /\ tx.amount \in Amounts /\ \E a \in Addrs : tx.key = <<a, top>>
  \/ tx.type = "undelegate" /\ tx.amount \in Nat
  \/ tx.type = "stakeExit" /\ tx.staking = top /\ tx.status \in {EXITING, EXITED}

\* What an analysis needs and keeps, with the rows D.
Ready(t, tx, top, D) ==
  /\ Good(t, top, FALSE) /\ D \subseteq DOMAIN t.delegation
  /\ tx.type = "delegate" => t.staking[top].status = CANDIDATE

LEMMA HandledReady ==
  ASSUME NEW t, NEW tx, NEW top, NEW D, Ready(t, tx, top, D), Possible(tx, top)
  PROVE  Ready(Handle(t, tx), tx, top, D)
<1>1. PICK u : u = Handle(t, tx)
  OBVIOUS
<1>2. Good(t, top, FALSE) /\ D \subseteq DOMAIN t.delegation
  BY DEF Ready
<1>3. PICK once : once = FALSE
  OBVIOUS
<1>4. Good(t, top, once)
  BY <1>2, <1>3, Zenon
<1>5. CASE tx.type = "delegate" /\ tx.amount \in Amounts /\ \E a \in Addrs : tx.key = <<a, top>>
  <2>0. PICK key : key = tx.key
    OBVIOUS
  <2>1. PICK a \in Addrs : key = <<a, top>>
    BY <1>5, <2>0
  <2>2. PICK amount \in Amounts : amount = tx.amount
    BY <1>5
  <2>3. u = Delegated(t, key, amount)
    BY <1>1, <1>5, <2>0, <2>2, HandleIs, Zenon
  <2>4. t.staking[top].status = CANDIDATE
    BY <1>5 DEF Ready
  <2>5. Good(u, top, once) /\ Added(t.delegation, t.staking, top, key, amount, u.delegation, u.staking)
    BY <1>4, <2>1, <2>3, <2>4, DelegatedSound, Zenon
  <2>6. DOMAIN u.delegation = DOMAIN t.delegation \cup {key} /\ u.staking[top].status = CANDIDATE
    BY <2>5 DEF Added
  <2>7. D \subseteq DOMAIN u.delegation
    BY <1>2, <2>6
  <2> QED
    BY <1>1, <1>3, <2>5, <2>6, <2>7, Zenon DEF Ready
<1>6. CASE tx.type = "undelegate" /\ tx.amount \in Nat
  <2>a. PICK n \in Nat : n = tx.amount
    BY <1>6
  <2>1. PICK key : key = tx.key
    OBVIOUS
  <2>2. u = TakenBack(t, key, n)
    BY <1>1, <1>6, <2>1, <2>a, HandleIs, Zenon
  <2>3. CASE key \in DOMAIN t.delegation
    <3>1. Good(u, top, once) /\ Taken(t, u, top, key, n)
      BY <1>4, <2>2, <2>3, TakenSound, Zenon
    <3>2. DOMAIN u.delegation = DOMAIN t.delegation
      BY <3>1 DEF Taken
    <3> QED
      BY <1>1, <1>2, <1>3, <1>6, <3>1, <3>2 DEF Ready
  <2>4. CASE key \notin DOMAIN t.delegation
    <3>1. u = t
      BY <2>2, <2>4, Zenon DEF TakenBack
    <3> QED
      BY <1>1, <3>1, Zenon
  <2> QED
    BY <2>3, <2>4
<1>7. CASE tx.type = "stakeExit" /\ tx.staking = top /\ tx.status \in {EXITING, EXITED}
  <2>1. PICK st \in {EXITING, EXITED} : st = tx.status
    BY <1>7
  <2>2. u = Exited(t, top, st)
    BY <1>1, <1>7, <2>1, HandleIs, Zenon
  <2>3. once = TRUE => t.staking[top].status = CANDIDATE \/ PunishLeaving
    BY <1>3
  <2>4. Good(u, top, once) /\ Left(t, u, top)
    BY <1>4, <2>2, <2>3, ExitedSound, Zenon
  <2>5. DOMAIN u.delegation = DOMAIN t.delegation
    BY <2>4 DEF Left
  <2> QED
    BY <1>1, <1>2, <1>3, <1>7, <2>4, <2>5 DEF Ready
<1> QED
  BY <1>5, <1>6, <1>7, Zenon DEF Possible

LEMMA AnalysedReady ==
  ASSUME NEW t, NEW tx, NEW top, NEW D, Ready(t, tx, top, D), Possible(tx, top),
         NEW n \in Nat
  PROVE  Ready(Analysed(t, tx, n), tx, top, D)
<1>1. PICK f : Steps(f, t, tx, n) /\ Analysed(t, tx, n) = f[n]
  BY AnalysedSteps
<1> DEFINE N == {m \in Nat : m =< n => Ready(f[m], tx, top, D)}
<1>2. 0 \in N
  BY <1>1 DEF Steps
<1>3. ASSUME NEW m \in Nat, m \in N PROVE m + 1 \in N
  <2> SUFFICES ASSUME m + 1 =< n PROVE Ready(f[m + 1], tx, top, D)
    OBVIOUS
  <2>1. Ready(f[m], tx, top, D)
    BY <1>3
  <2>2. f[m + 1] = Handle(f[m], tx)
    <3>1. m + 1 \in 1..n /\ (m + 1) - 1 = m
      OBVIOUS
    <3> QED
      BY <1>1, <3>1 DEF Steps
  <2> QED
    BY <2>1, <2>2, HandledReady, Zenon
<1> HIDE DEF N
<1>4. n \in N
  BY <1>2, <1>3, NatSet, Zenon
<1> QED
  BY <1>1, <1>4 DEF N

-----------------------------------------------------------------------------
(* A block is collected *)

Now(t) == t.delegation = delegation /\ t.staking = staking /\ t.node = node

\* The tables after a block: analysed as often as the list has its transaction.
LEMMA CollectedIs ==
  ASSUME TotalsInv, NEW tx, Collected(tx), Possible(tx, last),
         tx.type = "delegate" => staking[last].status = CANDIDATE,
         tx.type = "stakeExit" => staking[last].status = CANDIDATE
  PROVE  /\ exact' \in BOOLEAN
         /\ \E t, u : /\ Now(t) /\ Good(t, last, exact)
                      /\ delegation' = u.delegation /\ staking' = u.staking /\ node' = u.node
                      /\ Ready(u, tx, last, DOMAIN delegation)
                      /\ exact' => exact /\ exact = exact' /\ u = Handle(t, tx)
<1>1. PICK t : t = [delegation |-> delegation, staking |-> staking, node |-> node]
  OBVIOUS
<1>2. PICK n \in Nat : n = copies
  BY DEF TotalsInv, DelegInv, TypeOK
<1>3. PICK u : u = Analysed(t, tx, n)
  OBVIOUS
<1>4. delegation' = u.delegation /\ staking' = u.staking /\ node' = u.node
  BY <1>1, <1>2, <1>3, Zenon DEF Collected
<1>5. Now(t)
  BY <1>1 DEF Now
<1>6. Good(t, last, exact)
  BY <1>5, TotalsSound, Zenon DEF Good, Now
<1>7. Good(t, last, FALSE)
  BY <1>6 DEF Good, Sound, NodeRight
<1>8. Ready(t, tx, last, DOMAIN delegation)
  BY <1>5, <1>7, Zenon DEF Ready, Now
<1>9. PICK top, D : top = last /\ D = DOMAIN delegation
  OBVIOUS
<1>10. Ready(t, tx, top, D) /\ Possible(tx, top)
  BY <1>8, <1>9, Zenon
<1>11. Ready(u, tx, top, D)
  BY <1>3, <1>10, AnalysedReady, Zenon
<1>12. exact' = (exact /\ copies = 1)
  BY DEF Collected
<1>13. exact \in BOOLEAN /\ exact' \in BOOLEAN
  BY <1>12 DEF TotalsInv, DelegInv, TypeOK
<1>14. ASSUME exact' PROVE exact /\ exact = exact' /\ u = Handle(t, tx)
  <2>1. exact /\ copies = 1
    BY <1>12, <1>14
  <2>2. exact = exact'
    BY <1>13, <1>14, <2>1
  <2> QED
    BY <1>2, <1>3, <2>1, <2>2, AnalysedOnce, Zenon
<1> QED
  BY <1>4, <1>5, <1>6, <1>9, <1>11, <1>13, <1>14, Zenon

\* Good tables, and owed amounts that the rows follow where they must, are the
\* next state's invariant.
LEMMA GoodNext ==
  ASSUME TotalsInv, NEW u, Good(u, last, exact'), exact' \in BOOLEAN,
         delegation' = u.delegation, staking' = u.staking, node' = u.node, copies' = 1,
         UNCHANGED <<last, es, task, picked, fails>>,
         owed' \in [Keys -> Nat], exact' => RowsAreOwed'
  PROVE  TotalsInv'
<1>1. PICK rows, stakes, nd, top :
        rows = u.delegation /\ stakes = u.staking /\ nd = u.node /\ top = last
  OBVIOUS
<1>2. Sound(rows, stakes, nd, top, exact') /\ SoundRows(rows, stakes, top)
  BY <1>1, Zenon DEF Good, Sound
<1>3. Shaped(rows, stakes, top) /\ PartsIn(rows, stakes, top) /\ DOMAIN rows \subseteq Keys
  BY <1>2 DEF SoundRows
<1>4. Shape' /\ PartsInv'
  BY <1>1, <1>3, Zenon DEF Shape, Shaped, PartsInv, PartsIn
<1>5. TypeOK'
  <2>1. \A k \in DOMAIN rows : rows[k] \in Row
    BY <1>3 DEF Shaped
  <2>2. DOMAIN stakes = 1..top
    BY <1>3 DEF Shaped
  <2>3. 1 \in 1..(MaxFail + 1)
    BY DelegationAssumption
  <2> QED
    BY <1>1, <1>3, <2>1, <2>2, <2>3 DEF TotalsInv, DelegInv, TypeOK
<1>6. TaskInv' /\ CopiesInv'
  BY DEF TotalsInv, DelegInv, TaskInv, CopiesInv
<1>7. DelegInv'
  BY <1>4, <1>5, <1>6 DEF DelegInv
<1> QED
  BY <1>1, <1>2, <1>7, SoundTotals, Zenon

\* A delegation: where it is analysed once, the row grows by its amount.
LEMMA DelegateTotals ==
  ASSUME TotalsInv, NEW a \in Addrs, NEW amount \in Amounts, Delegate(a, amount),
         NEW key, key = <<a, last>>
  PROVE  /\ TotalsInv' /\ DOMAIN delegation \subseteq DOMAIN delegation'
         /\ exact' =>
              /\ Added(delegation, staking, last, key, amount, delegation', staking')
              /\ node'.valid = OthersDelegating(delegation, a) + 1
<1>1. PICK tx : tx = [type |-> "delegate", key |-> key, amount |-> amount]
  OBVIOUS
<1>2. Collected(tx) /\ staking[last].status = CANDIDATE
  BY <1>1, Zenon DEF Delegate
<1>3. /\ UNCHANGED <<last, es, task, picked, fails>>
      /\ owed' = [owed EXCEPT ![key] = @ + amount]
  BY DEF Delegate, migration, faults
<1>4. tx.type = "delegate" /\ tx.key = key /\ tx.amount = amount
  BY <1>1
<1>5. Possible(tx, last)
  BY <1>4, Zenon DEF Possible
<1>6. tx.type # "stakeExit"
  BY <1>4
<1>b. exact' \in BOOLEAN
  BY <1>2, <1>5, <1>6, CollectedIs
<1>7. PICK t, u : /\ Now(t) /\ Good(t, last, exact)
                  /\ delegation' = u.delegation /\ staking' = u.staking /\ node' = u.node
                  /\ Ready(u, tx, last, DOMAIN delegation)
                  /\ exact' => exact /\ exact = exact' /\ u = Handle(t, tx)
  BY <1>2, <1>5, <1>6, CollectedIs
<1>8. DOMAIN delegation \subseteq DOMAIN delegation'
  BY <1>7, Zenon DEF Ready
<1>9. DelegInv /\ owed \in [Keys -> Nat] /\ last \in 1..MaxStaking /\ key \in Keys
  BY DEF TotalsInv, DelegInv, TypeOK, Keys
<1>10. amount \in Nat
  BY DelegationAssumption
<1>11. owed' \in [Keys -> Nat] /\ owed'[key] = owed[key] + amount
       /\ \A k \in Keys : k # key => owed'[k] = owed[k]
  BY <1>3, <1>9, <1>10
<1>12. ASSUME exact'
       PROVE  /\ Good(u, last, exact')
              /\ Added(delegation, staking, last, key, amount, delegation', staking')
              /\ node'.valid = OthersDelegating(delegation, a) + 1
  <2>1. u = Delegated(t, key, amount)
    BY <1>4, <1>7, <1>12, HandleIs
  <2>2. PICK once, top : once = exact' /\ top = last
    OBVIOUS
  <2>3. Good(t, top, once) /\ t.staking[top].status = CANDIDATE
    BY <1>2, <1>7, <1>12, <2>2, Zenon DEF Now
  <2>4. key = <<a, top>>
    BY <2>2
  <2>5. /\ Good(u, top, once)
        /\ Added(t.delegation, t.staking, top, key, amount, u.delegation, u.staking)
        /\ u.node.valid = OthersDelegating(t.delegation, a) + 1
    BY <2>1, <2>3, <2>4, DelegatedSound
  <2> QED
    BY <1>7, <2>2, <2>5, Zenon DEF Now
<1>13. Good(u, last, exact')
  <2>1. CASE ~exact'
    <3>1. FALSE = exact'
      BY <1>b, <2>1
    <3> QED
      BY <1>7, <3>1, Zenon DEF Ready
  <2>2. CASE exact'
    BY <1>12, <2>2
  <2> QED
    BY <2>1, <2>2
<1>14. ASSUME exact' PROVE RowsAreOwed'
  <2>1. RowsAreOwed
    BY <1>7, <1>9, <1>14 DEF DelegInv
  <2>2. /\ DOMAIN delegation' = DOMAIN delegation \cup {key}
        /\ \A k \in DOMAIN delegation : k # key => delegation'[k] = delegation[k]
        /\ Held(delegation'[key]) = (IF key \in DOMAIN delegation THEN Held(delegation[key]) ELSE 0) + amount
        /\ delegation'[key].released = (IF key \in DOMAIN delegation THEN delegation[key].released ELSE 0)
        /\ delegation'[key].released = 0
    BY <1>12, <1>14 DEF Added
  <2> SUFFICES ASSUME NEW k \in Keys PROVE RowTotal(k)' = owed'[k]
    BY DEF RowsAreOwed
  <2>3. RowTotal(k) = owed[k]
    BY <2>1 DEF RowsAreOwed
  <2>4. CASE k = key
    <3>1. PICK h \in Int : h = IF key \in DOMAIN delegation THEN Held(delegation[key]) ELSE 0
      <4>1. key \in DOMAIN delegation => Held(delegation[key]) \in Int
        BY <1>9, RowsAre, RowInts
      <4> QED
        BY <4>1
    <3>2. h = RowTotal(key)
      <4>1. CASE key \in DOMAIN delegation
        <5>1. delegation[key] \in Row /\ delegation[key].released = 0
          BY <1>9, <2>2, <4>1, RowsAre
        <5>2. Total(delegation[key]) = Held(delegation[key]) + 0
          BY <5>1, RowInts
        <5> QED
          BY <3>1, <4>1, <5>2 DEF RowTotal
      <4>2. CASE key \notin DOMAIN delegation
        BY <3>1, <4>2 DEF RowTotal
      <4> QED
        BY <4>1, <4>2
    <3>3. Held(delegation'[key]) = h + amount
      BY <2>2, <3>1, Zenon
    <3>4. Total(delegation'[key]) = h + amount
      <4>1. PICK e : e = delegation'[key]
        OBVIOUS
      <4>2. Held(e) = h + amount /\ e.released = 0 /\ h + amount \in Int
        BY <1>10, <2>2, <3>3, <4>1
      <4>3. Total(e) = h + amount
        BY <4>2 DEF Total, Held
      <4> QED
        BY <4>1, <4>3
    <3>5. RowTotal(k)' = Total(delegation'[key])
      BY <2>2, <2>4 DEF RowTotal, Total
    <3> QED
      BY <1>11, <2>3, <2>4, <3>2, <3>4, <3>5
  <2>5. CASE k # key
    <3>1. k \in DOMAIN delegation' <=> k \in DOMAIN delegation
      BY <2>2, <2>5
    <3>2. RowTotal(k)' = RowTotal(k)
      BY <2>2, <2>5, <3>1, Zenon DEF RowTotal, Total
    <3> QED
      BY <1>11, <2>3, <2>5, <3>2
  <2> QED
    BY <2>4, <2>5
<1>15. copies' = 1
  BY <1>2 DEF Collected
<1>16. TotalsInv'
  BY <1>3, <1>7, <1>11, <1>13, <1>14, <1>15, <1>b, GoodNext
<1> QED
  BY <1>8, <1>12, <1>16

\* A refund: where it is analysed once, the row loses what the chain takes off.
LEMMA UndelegateTotals ==
  ASSUME TotalsInv, NEW key \in Keys, NEW n \in Refunds, Undelegate(key, n)
  PROVE  /\ TotalsInv' /\ DOMAIN delegation \subseteq DOMAIN delegation'
         /\ exact' =>
              /\ key \in DOMAIN delegation
              /\ \E t, u : /\ Now(t) /\ Taken(t, u, last, key, n)
                           /\ delegation' = u.delegation /\ staking' = u.staking
                           /\ node' = u.node
<1>1. PICK tx : tx = [type |-> "undelegate", key |-> key, amount |-> n]
  OBVIOUS
<1>2. Collected(tx)
  BY <1>1, Zenon DEF Undelegate
<1>3. /\ UNCHANGED <<last, es, task, picked, fails>> /\ n =< owed[key]
      /\ owed' = [owed EXCEPT ![key] = IF @ - n < Threshold THEN 0 ELSE @ - n]
  BY DEF Undelegate, migration, faults
<1>4. tx.type = "undelegate" /\ tx.key = key /\ tx.amount = n
  BY <1>1
<1>5. n \in Nat \ {0} /\ Threshold \in Nat
  BY DelegationAssumption
<1>6. Possible(tx, last) /\ tx.type # "stakeExit" /\ tx.type # "delegate"
  BY <1>4, <1>5 DEF Possible
<1>b. exact' \in BOOLEAN
  BY <1>2, <1>6, CollectedIs
<1>7. PICK t, u : /\ Now(t) /\ Good(t, last, exact)
                  /\ delegation' = u.delegation /\ staking' = u.staking /\ node' = u.node
                  /\ Ready(u, tx, last, DOMAIN delegation)
                  /\ exact' => exact /\ exact = exact' /\ u = Handle(t, tx)
  BY <1>2, <1>6, CollectedIs
<1>8. DOMAIN delegation \subseteq DOMAIN delegation'
  BY <1>7, Zenon DEF Ready
<1>9. DelegInv /\ owed \in [Keys -> Nat]
  BY DEF TotalsInv, DelegInv, TypeOK
<1>10. PICK w \in Nat : w = IF owed[key] - n < Threshold THEN 0 ELSE owed[key] - n
  <2>1. owed[key] \in Nat
    BY <1>9
  <2> QED
    BY <1>3, <1>5, <2>1
<1>11. owed' \in [Keys -> Nat] /\ owed'[key] = w
       /\ \A k \in Keys : k # key => owed'[k] = owed[k]
  <2>1. owed' = [owed EXCEPT ![key] = w]
    BY <1>3, <1>10, Zenon
  <2> QED
    BY <1>9, <1>10, <2>1
<1>12. ASSUME exact'
       PROVE  /\ key \in DOMAIN delegation /\ Total(delegation[key]) = owed[key]
              /\ Good(u, last, exact') /\ Taken(t, u, last, key, n)
  <2>1. RowTotal(key) = owed[key]
    BY <1>7, <1>9, <1>12 DEF DelegInv, RowsAreOwed
  <2>2. key \in DOMAIN delegation /\ Total(delegation[key]) = owed[key]
    <3>1. owed[key] \in Nat /\ owed[key] # 0
      BY <1>3, <1>5, <1>9
    <3> QED
      BY <2>1, <3>1 DEF RowTotal
  <2>3. u = TakenBack(t, key, n)
    BY <1>4, <1>7, <1>12, HandleIs
  <2>4. PICK once, top : once = exact' /\ top = last
    OBVIOUS
  <2>5. Good(t, top, once) /\ key \in DOMAIN t.delegation
    BY <1>7, <1>12, <2>2, <2>4, Zenon DEF Now
  <2>6. Good(u, top, once) /\ Taken(t, u, top, key, n)
    BY <1>5, <2>3, <2>5, TakenSound
  <2> QED
    BY <2>2, <2>4, <2>6, Zenon
<1>13. Good(u, last, exact')
  <2>1. CASE ~exact'
    <3>1. FALSE = exact'
      BY <1>b, <2>1
    <3> QED
      BY <1>7, <3>1, Zenon DEF Ready
  <2>2. CASE exact'
    BY <1>12, <2>2
  <2> QED
    BY <2>1, <2>2
<1>14. ASSUME exact' PROVE RowsAreOwed'
  <2>1. RowsAreOwed
    BY <1>7, <1>9, <1>14 DEF DelegInv
  <2>2. /\ DOMAIN delegation' = DOMAIN delegation /\ key \in DOMAIN delegation
        /\ \A k \in DOMAIN delegation : k # key => delegation'[k] = delegation[k]
        /\ Total(delegation'[key]) = w
    <3>1. Taken(t, u, last, key, n) /\ Now(t) /\ delegation' = u.delegation
          /\ key \in DOMAIN delegation /\ Total(delegation[key]) = owed[key]
      BY <1>7, <1>12, <1>14
    <3>2. /\ DOMAIN delegation' = DOMAIN delegation
          /\ \A k \in DOMAIN delegation : k # key => delegation'[k] = delegation[k]
          /\ Total(delegation'[key]) =
               IF Total(delegation[key]) - n < Threshold THEN 0 ELSE Total(delegation[key]) - n
      BY <3>1, Zenon DEF Taken, Now
    <3> QED
      BY <1>10, <3>1, <3>2, Zenon
  <2> SUFFICES ASSUME NEW k \in Keys PROVE RowTotal(k)' = owed'[k]
    BY DEF RowsAreOwed
  <2>3. CASE k = key
    BY <1>11, <2>2, <2>3 DEF RowTotal, Total
  <2>4. CASE k # key
    <3>1. RowTotal(k)' = RowTotal(k)
      BY <2>2, <2>4, Zenon DEF RowTotal, Total
    <3> QED
      BY <1>11, <2>1, <2>4, <3>1 DEF RowsAreOwed
  <2> QED
    BY <2>3, <2>4
<1>15. copies' = 1
  BY <1>2 DEF Collected
<1>16. TotalsInv'
  BY <1>3, <1>7, <1>11, <1>13, <1>14, <1>15, <1>b, GoodNext
<1> QED
  BY <1>7, <1>8, <1>12, <1>16

\* The last staking exits: what is released is what was held.
LEMMA StakeExitTotals ==
  ASSUME TotalsInv, StakeExit
  PROVE  /\ TotalsInv' /\ DOMAIN delegation \subseteq DOMAIN delegation'
         /\ exact' =>
              \E t, u : /\ Now(t) /\ Left(t, u, last)
                        /\ delegation' = u.delegation /\ staking' = u.staking /\ node' = u.node
<1>1. PICK st \in {EXITING, EXITED} :
        Collected([type |-> "stakeExit", staking |-> last, status |-> st])
  BY Zenon DEF StakeExit
<1>2. PICK tx : tx = [type |-> "stakeExit", staking |-> last, status |-> st]
  OBVIOUS
<1>3. Collected(tx)
  BY <1>1, <1>2, Zenon
<1>4. UNCHANGED <<owed, last, es, task, picked, fails>> /\ staking[last].status = CANDIDATE
  BY DEF StakeExit, migration, faults
<1>5. tx.type = "stakeExit" /\ tx.staking = last /\ tx.status = st
  BY <1>2
<1>6. Possible(tx, last) /\ tx.type # "delegate"
  BY <1>5 DEF Possible
<1>b. exact' \in BOOLEAN
  BY <1>3, <1>4, <1>6, CollectedIs
<1>7. PICK t, u : /\ Now(t) /\ Good(t, last, exact)
                  /\ delegation' = u.delegation /\ staking' = u.staking /\ node' = u.node
                  /\ Ready(u, tx, last, DOMAIN delegation)
                  /\ exact' => exact /\ exact = exact' /\ u = Handle(t, tx)
  BY <1>3, <1>4, <1>6, CollectedIs
<1>8. DOMAIN delegation \subseteq DOMAIN delegation'
  BY <1>7, Zenon DEF Ready
<1>9. DelegInv /\ owed' \in [Keys -> Nat]
  BY <1>4 DEF TotalsInv, DelegInv, TypeOK
<1>10. ASSUME exact' PROVE Good(u, last, exact') /\ Left(t, u, last)
  <2>1. PICK once, top : once = exact' /\ top = last
    OBVIOUS
  <2>2. u = Exited(t, top, st)
    BY <1>5, <1>7, <1>10, <2>1, HandleIs
  <2>3. Good(t, top, once) /\ t.staking[top].status = CANDIDATE
    BY <1>4, <1>7, <1>10, <2>1, Zenon DEF Now
  <2>4. Good(u, top, once) /\ Left(t, u, top)
    BY <2>2, <2>3, ExitedSound
  <2> QED
    BY <2>1, <2>4, Zenon
<1>11. Good(u, last, exact')
  <2>1. CASE ~exact'
    <3>1. FALSE = exact'
      BY <1>b, <2>1
    <3> QED
      BY <1>7, <3>1, Zenon DEF Ready
  <2>2. CASE exact'
    BY <1>10, <2>2
  <2> QED
    BY <2>1, <2>2
<1>12. ASSUME exact' PROVE RowsAreOwed'
  <2>1. RowsAreOwed
    BY <1>7, <1>9, <1>12 DEF DelegInv
  <2>2. Now(t) /\ Left(t, u, last) /\ delegation' = u.delegation
    BY <1>7, <1>10, <1>12
  <2>3. /\ DOMAIN delegation' = DOMAIN delegation
        /\ \A k \in DOMAIN delegation : Total(delegation'[k]) = Total(delegation[k])
    BY <1>4, <2>2, Zenon DEF Left, Now
  <2> SUFFICES ASSUME NEW k \in Keys PROVE RowTotal(k)' = owed'[k]
    BY DEF RowsAreOwed
  <2>4. RowTotal(k)' = RowTotal(k)
    BY <2>3, Zenon DEF RowTotal, Total
  <2> QED
    BY <1>4, <2>1, <2>4 DEF RowsAreOwed
<1>13. copies' = 1
  BY <1>3 DEF Collected
<1>14. TotalsInv'
  BY <1>4, <1>7, <1>9, <1>11, <1>12, <1>13, <1>b, GoodNext
<1> QED
  BY <1>7, <1>8, <1>10, <1>14

LEMMA TotalsNext == TotalsInv /\ [Next]_vars => TotalsInv'
<1> SUFFICES ASSUME TotalsInv, [Next]_vars PROVE TotalsInv'
  OBVIOUS
<1>1. CASE DelegateSome
  BY <1>1, DelegateTotals, Zenon DEF DelegateSome
<1>2. CASE UndelegateSome
  BY <1>2, UndelegateTotals, Zenon DEF UndelegateSome
<1>3. CASE Settle \/ StakeExit \/ Punish \/ Restake
  BY <1>3, SettleTotals, StakeExitTotals, PunishTotals, RestakeTotals
<1>4. CASE TaskSelect \/ TaskSave \/ TaskDelete \/ TaskThrows
  BY <1>4, TaskTotals
<1>5. CASE Fail \/ Crash
  BY <1>5, FaultTotals
<1>6. CASE UNCHANGED vars
  BY <1>6, StutterTotals
<1> QED
  BY <1>1, <1>2, <1>3, <1>4, <1>5, <1>6, Zenon DEF Next

-----------------------------------------------------------------------------
(* The rows *)

\* The rows have their types, whatever is analysed more than once: a refund
\* takes no more off a part than it has, the second time too.
THEOREM DelegationsTyped == Spec => []TypeOK
<1>1. TotalsInv => TypeOK
  BY DEF TotalsInv, DelegInv
<1> QED
  BY <1>1, TotalsInit, TotalsNext, PTL DEF Spec

\* Until a retry has analysed a transaction again, every delegation has what the
\* chain owes: refunds are computed as the chain does, also after failed attempts
\* at blocks without a delegation, and the task deletes no row that is live again.
THEOREM RowsAreTheChain == Spec => []RowsFollowChain
<1>1. TotalsInv => RowsFollowChain
  BY DEF TotalsInv, DelegInv, RowsFollowChain
<1> QED
  BY <1>1, TotalsInit, TotalsNext, PTL DEF Spec

LEMMA RowsDeleted ==
  ASSUME TotalsInv, [Next]_vars, NEW k \in DOMAIN delegation \ DOMAIN delegation'
  PROVE  k \in es
<1>1. CASE TaskDelete
  <2>1. k \in picked /\ task = "delete"
    BY <1>1 DEF TaskDelete, ToDelete
  <2> QED
    BY <2>1 DEF TotalsInv, DelegInv, TaskInv
<1>2. CASE DelegateSome
  BY <1>2, DelegateTotals DEF DelegateSome
<1>3. CASE UndelegateSome
  BY <1>3, UndelegateTotals DEF UndelegateSome
<1>4. CASE StakeExit
  BY <1>4, StakeExitTotals
<1>5. CASE Settle \/ Punish \/ Restake
  BY <1>5 DEF Settle, Punish, Restake
<1>6. CASE TaskSelect \/ TaskSave \/ TaskThrows \/ Fail \/ Crash \/ UNCHANGED vars
  BY <1>6 DEF TaskSelect, TaskSave, TaskThrows, Fail, Crash, vars, tables
<1> QED
  BY <1>1, <1>2, <1>3, <1>4, <1>5, <1>6, Zenon DEF Next

\* A row is deleted from the table only once it is in Elasticsearch.
THEOREM EndedAreKept == Spec => EndedKept
<1>1. TotalsInv /\ [Next]_vars => [\A k \in DOMAIN delegation \ DOMAIN delegation' : k \in es]_vars
  BY RowsDeleted
<1> QED
  BY <1>1, TotalsInit, TotalsNext, PTL DEF Spec, EndedKept

-----------------------------------------------------------------------------
(* The totals *)

\* The sums as Delegation.tla writes them.
LEMMA SumsAre ==
  TotalsInv => /\ StakingSums
               /\ ~PunishLeaving => ReleasedSums /\ NodeSums
<1> SUFFICES ASSUME TotalsInv
             PROVE  /\ StakingSums
                    /\ ~PunishLeaving => ReleasedSums /\ NodeSums
  OBVIOUS
<1>1. DOMAIN staking = 1..last
  BY TablesAre
<1>2. StakingSums
  BY <1>1, Zenon DEF TotalsInv, HeldAgree, HeldRight, StakingSums, SumOver, HeldSum, HeldIn, RowsOf, Held
<1>3. ~PunishLeaving => ReleasedSums
  BY <1>1, Zenon DEF TotalsInv, FreedAgree, FreedRight, ReleasedSums, SumOver, FreedSum, FreedIn, RowsOf
<1>4. ~PunishLeaving => NodeSums
  BY Zenon DEF TotalsInv, NodeAgrees, NodeRight, NodeSums, EndedSum, FreedOf, Held
<1> QED
  BY <1>2, <1>3, <1>4, Zenon

\* A staking's free and locked totals together are those of its delegations,
\* also where a staking that is leaving is punished, and however often a block
\* was tried.
THEOREM HeldTotalsAgree == Spec => []StakingSums
BY SumsAre, TotalsInit, TotalsNext, PTL DEF Spec

\* The totals kept in staking and node are those of the delegation rows, whatever
\* the order of the transactions, settlements, ends and new stakings and however
\* often a block was tried, unless a staking that is leaving is punished: what a
\* retry counts again it counts again in every table.  What the node has released
\* follows its stakings until a retry has analysed a transaction again.
THEOREM AllTotalsAgree ==
  ASSUME PunishLeaving = FALSE
  PROVE  Spec => []TotalsAgree
<1>1. TotalsInv => TotalsAgree
  BY SumsAre DEF TotalsAgree
<1> QED
  BY <1>1, TotalsInit, TotalsNext, PTL DEF Spec

-----------------------------------------------------------------------------
(* The number of delegators *)

Delegators(o, g) == {a \in Addrs : o[<<a, g>>] > 0}

\* A row that has not ended has something in it.
LiveOwed == \A k \in DOMAIN delegation : ~delegation[k].history => owed[k] > 0

\* The node's number is that of its delegators.
Counted == node.valid = IF staking[last].status = CANDIDATE
                        THEN Cardinality(Delegators(owed, last)) ELSE 0

CountsNow == TotalsInv /\ LiveOwed /\ Counted

\* That holds until a retry has analysed a transaction again.
ValidInv == TotalsInv /\ (exact => LiveOwed /\ Counted)

LEMMA DelegatorsFinite ==
  ASSUME NEW o, NEW g
  PROVE  IsFiniteSet(Delegators(o, g)) /\ Delegators(o, g) \subseteq Addrs
BY FS_Subset, DelegationAssumption DEF Delegators

\* The rows that count as valid are those of the last staking, one per delegator.
LEMMA OthersAre ==
  ASSUME exact, TotalsInv, LiveOwed, staking[last].status = CANDIDATE,
         NEW a \in Addrs
  PROVE  OthersDelegating(delegation, a) = Cardinality(Delegators(owed, last) \ {a})
<1> DEFINE S == Delegators(owed, last) \ {a}
           T == {k \in DOMAIN delegation :
                   Live(delegation, k) /\ delegation[k].released = 0 /\ k[1] # a}
           f == [b \in S |-> <<b, last>>]
<1>1. /\ DelegInv /\ DOMAIN delegation \subseteq Keys
      /\ delegation \in [DOMAIN delegation -> Row]
      /\ \A k \in Keys : RowTotal(k) = owed[k]
  BY TablesAre DEF TotalsInv, DelegInv, RowsAreOwed
<1>2. last \in 1..MaxStaking
  BY DEF TotalsInv, DelegInv, TypeOK
<1>3. ASSUME NEW b \in S PROVE <<b, last>> \in T
  <2>1. PICK k : k = <<b, last>>
    OBVIOUS
  <2>2. k \in Keys /\ k[1] = b /\ k[2] = last /\ owed[k] > 0 /\ b # a
    BY <1>2, <2>1 DEF Keys, Delegators
  <2>3. k \in DOMAIN delegation /\ Total(delegation[k]) > 0
    BY <1>1, <2>2 DEF RowTotal
  <2>4. ~delegation[k].history
    BY <1>1, <2>3, RowsAre
  <2>5. delegation[k].released = 0
    BY <1>1, <2>2, <2>3, RowsAre
  <2> QED
    BY <2>1, <2>2, <2>3, <2>4, <2>5 DEF Live
<1>4. ASSUME NEW k \in T PROVE \E b \in S : <<b, last>> = k
  <2>1. k \in DOMAIN delegation /\ ~delegation[k].history /\ delegation[k].released = 0 /\ k[1] # a
    BY DEF Live
  <2>2. k \in Keys /\ owed[k] > 0 /\ owed[k] = Total(delegation[k])
    BY <1>1, <2>1 DEF LiveOwed, RowTotal
  <2>3. k[2] \in 1..last /\ staking[k[2]].status = CANDIDATE
    <3>1. staking[k[2]].status # CANDIDATE => Total(delegation[k]) = 0
      BY <1>1, <2>1, RowsAre DEF Total
    <3> QED
      BY <1>1, <2>1, <2>2, <3>1, RowsAre
  <2>4. k[2] = last
    BY <2>3 DEF TotalsInv, OldEnded, EndedBefore, CANDIDATE, EXITED
  <2>5. k[1] \in Addrs /\ k = <<k[1], last>>
    BY <2>2, <2>4 DEF Keys
  <2>6. k[1] \in S
    BY <2>1, <2>2, <2>5 DEF Delegators
  <2> QED
    BY <2>5, <2>6
<1>5. IsFiniteSet(S)
  BY DelegatorsFinite, FS_Subset
<1> HIDE DEF S, T
<1>6. f \in [S -> T]
  BY <1>3
<1>7. \A b, c \in S : f[b] = f[c] => b = c
  OBVIOUS
<1>8. \A k \in T : \E b \in S : f[b] = k
  BY <1>4
<1> HIDE DEF f
<1>9. f \in Injection(S, T) /\ f \in Surjection(S, T)
  BY <1>6, <1>7, <1>8, Zenon DEF Injection, Surjection, IsInjective
<1>10. ExistsBijection(S, T)
  BY <1>9 DEF ExistsBijection, Bijection
<1>11. Cardinality(T) = Cardinality(S)
  BY <1>5, <1>10, FS_Bijection
<1> QED
  BY <1>11 DEF OthersDelegating, S, T

LEMMA ValidInit == Init => CountsNow
<1> SUFFICES ASSUME Init PROVE CountsNow
  OBVIOUS
<1>1. TotalsInv
  BY TotalsInit
<1>2. LiveOwed
  BY DEF Init, LiveOwed
<1>3. Delegators(owed, last) = {}
  <2>1. \A a \in Addrs : <<a, last>> \in Keys
    BY <1>1 DEF TotalsInv, DelegInv, TypeOK, Keys
  <2>2. \A k \in Keys : owed[k] = 0
    BY DEF Init
  <2> QED
    BY <2>1, <2>2 DEF Delegators
<1>4. node.valid = 0 /\ Cardinality({}) = 0
  BY FS_EmptySet DEF Init
<1>5. Counted
  BY <1>3, <1>4 DEF Counted, Delegators
<1> QED
  BY <1>1, <1>2, <1>5 DEF CountsNow

\* A delegation counts its delegator.
LEMMA DelegateValid ==
  ASSUME Threshold > 0, exact, exact', CountsNow,
         NEW a \in Addrs, NEW amount \in Amounts, Delegate(a, amount)
  PROVE  CountsNow'
<1> DEFINE key == <<a, last>>
<1>1. TotalsInv /\ DelegInv /\ LiveOwed
  BY DEF CountsNow, TotalsInv
<1>2. amount \in Nat /\ amount > 0
  BY DelegationAssumption
<1>3. /\ last' = last /\ staking[last].status = CANDIDATE
      /\ owed' = [owed EXCEPT ![key] = @ + amount]
  BY Zenon DEF Delegate
<1>a. PICK x : x = key
  OBVIOUS
<1>b. /\ TotalsInv' /\ node'.valid = OthersDelegating(delegation, a) + 1
      /\ Added(delegation, staking, last, x, amount, delegation', staking')
  BY <1>1, <1>a, DelegateTotals
<1>c. /\ DOMAIN delegation' = DOMAIN delegation \cup {key}
      /\ \A k \in DOMAIN delegation : k # key => delegation'[k] = delegation[k]
      /\ staking'[last].status = CANDIDATE
  BY <1>a, <1>b, Zenon DEF Added
<1>4. owed \in [Keys -> Nat] /\ last \in 1..MaxStaking /\ key \in Keys
  BY <1>1 DEF DelegInv, TypeOK, Keys
<1>5. OthersDelegating(delegation, a) = Cardinality(Delegators(owed, last) \ {a})
  BY <1>1, <1>3, OthersAre
<1>6. node'.valid = Cardinality(Delegators(owed, last) \ {a}) + 1
  BY <1>5, <1>b
<1>7. Delegators(owed', last) = (Delegators(owed, last) \ {a}) \cup {a}
  <2>1. \A b \in Addrs : <<b, last>> \in Keys /\ (b # a => owed'[<<b, last>>] = owed[<<b, last>>])
    BY <1>3, <1>4 DEF Keys
  <2>2. owed'[<<a, last>>] > 0
    BY <1>2, <1>3, <1>4
  <2> QED
    BY <2>1, <2>2 DEF Delegators
<1>8. Cardinality(Delegators(owed', last)) = Cardinality(Delegators(owed, last) \ {a}) + 1
  <2>1. PICK S : S = Delegators(owed, last) \ {a}
    OBVIOUS
  <2>2. IsFiniteSet(S) /\ a \notin S
    BY <2>1, DelegatorsFinite, FS_Subset
  <2>3. Cardinality(S \cup {a}) = Cardinality(S) + 1
    BY <2>2, FS_AddElement
  <2> QED
    BY <1>7, <2>1, <2>3
<1>10. Counted'
  <2>1. node'.valid = Cardinality(Delegators(owed', last))
    BY <1>6, <1>8
  <2> QED
    BY <1>3, <1>c, <2>1, Zenon DEF Counted, Delegators
<1>11. LiveOwed'
  <2> SUFFICES ASSUME NEW k \in DOMAIN delegation', ~delegation'[k].history PROVE owed'[k] > 0
    BY DEF LiveOwed
  <2>1. CASE k = key
    BY <1>2, <1>3, <1>4, <2>1
  <2>2. CASE k # key
    <3>1. k \in DOMAIN delegation /\ delegation'[k] = delegation[k]
      BY <1>c, <2>2
    <3>2. k \in Keys
      BY <1>1, <3>1, TablesAre
    <3> QED
      BY <1>1, <1>3, <1>4, <2>2, <3>1, <3>2 DEF LiveOwed
  <2> QED
    BY <2>1, <2>2
<1> QED
  BY <1>b, <1>10, <1>11 DEF CountsNow

\* A refund of everything uncounts its delegator, unless the staking has ended.
LEMMA UndelegateValid ==
  ASSUME Threshold > 0, exact, exact', CountsNow,
         NEW k \in Keys, NEW n \in Refunds, Undelegate(k, n)
  PROVE  CountsNow'
<1>1. TotalsInv /\ DelegInv /\ LiveOwed /\ Counted
  BY DEF CountsNow, TotalsInv
<1>2. n \in Nat \ {0} /\ n =< owed[k] /\ RowTotal(k) = owed[k] /\ last' = last
  BY <1>1, DelegationAssumption DEF Undelegate, DelegInv, TypeOK, RowsAreOwed
<1>a. PICK t, u : /\ Now(t) /\ Taken(t, u, last, k, n)
                  /\ delegation' = u.delegation /\ staking' = u.staking /\ node' = u.node
  BY <1>1, UndelegateTotals
<1>b. TotalsInv' /\ k \in DOMAIN delegation
  BY <1>1, UndelegateTotals
<1>3. k \in DOMAIN delegation
  BY <1>b
<1>4. owed \in [Keys -> Nat] /\ last \in 1..MaxStaking /\ last \in 1..last
  BY <1>1, TablesAre DEF DelegInv, TypeOK
<1>5. PICK r \in Row : r = delegation[k]
  BY <1>1, <1>3, RowsAre
<1>6. Total(r) = owed[k]
  BY <1>2, <1>3, <1>5 DEF RowTotal
<1>7. PICK all \in BOOLEAN : all <=> owed[k] - n < Threshold
  OBVIOUS
<1>8. all <=> RefundsAll(r, n)
  BY <1>6, <1>7 DEF RefundsAll
<1>9. PICK g \in 1..last : g = k[2]
  BY <1>1, <1>3 DEF DelegInv, PartsInv, PartsIn
<1>10. staking[g].status \in {CANDIDATE, EXITING, EXITED} /\ staking \in [1..last -> StakingRow]
  BY <1>1, TablesAre DEF StakingRow
<1>11. PICK leaving \in BOOLEAN : leaving <=> staking[g].status \in {EXITING, EXITED}
  OBVIOUS
<1>12. leaving <=> staking[g].status # CANDIDATE
  BY <1>10, <1>11 DEF CANDIDATE, EXITING, EXITED
<1>13. owed' = [owed EXCEPT ![k] = IF @ - n < Threshold THEN 0 ELSE @ - n]
  BY Zenon DEF Undelegate
<1>c. /\ DOMAIN delegation' = DOMAIN delegation
      /\ \A x \in DOMAIN delegation : x # k => delegation'[x] = delegation[x]
      /\ delegation'[k].history <=> RefundsAll(delegation[k], n)
      /\ \A x \in 1..last : staking'[x].status = staking[x].status
      /\ node'.valid = node.valid - (IF RefundsAll(delegation[k], n)
                                        /\ staking[k[2]].status = CANDIDATE THEN 1 ELSE 0)
  BY <1>a, Zenon DEF Taken, Now
<1>14. node'.valid = node.valid - (IF all /\ ~leaving THEN 1 ELSE 0)
  BY <1>5, <1>8, <1>9, <1>12, <1>c, Zenon
<1>15. \A x \in 1..last : staking'[x].status = staking[x].status
  BY <1>c
<1>16. \A b \in Addrs : /\ <<b, last>> \in Keys
                        /\ <<b, last>> # k => owed'[<<b, last>>] = owed[<<b, last>>]
  BY <1>4, <1>13 DEF Keys
<1>17. owed'[k] = IF all THEN 0 ELSE owed[k] - n
  BY <1>4, <1>7, <1>13
<1>18. owed[k] > 0 /\ (~all => owed'[k] > 0)
  BY <1>2, <1>4, <1>7, <1>17, DelegationAssumption
<1>19. Counted'
  <2>1. CASE leaving
    <3>1. node'.valid = node.valid
      <4>1. node.valid \in Int
        BY <1>1 DEF TotalsInv, NodeRow
      <4> QED
        BY <1>14, <2>1, <4>1
    <3>2. staking[last].status = CANDIDATE => Delegators(owed', last) = Delegators(owed, last)
      <4>1. staking[last].status = CANDIDATE => \A b \in Addrs : <<b, last>> # k
        BY <1>9, <1>12, <2>1
      <4> QED
        BY <1>16, <4>1 DEF Delegators
    <3> QED
      BY <1>1, <1>2, <1>4, <1>15, <3>1, <3>2, Zenon DEF Counted, Delegators
  <2>2. CASE ~leaving
    <3>1. g = last /\ staking[last].status = CANDIDATE
      BY <1>1, <1>12, <2>2 DEF TotalsInv, OldEnded, EndedBefore, CANDIDATE, EXITED
    <3>2. PICK a \in Addrs : k = <<a, last>>
      <4>1. k[1] \in Addrs /\ k = <<k[1], k[2]>>
        BY DEF Keys
      <4> QED
        BY <1>9, <3>1, <4>1
    <3>3. node.valid = Cardinality(Delegators(owed, last))
      BY <1>1, <3>1 DEF Counted, Delegators
    <3>4. a \in Delegators(owed, last)
      BY <1>18, <3>2 DEF Delegators
    <3>5. \A b \in Addrs : b # a => owed'[<<b, last>>] = owed[<<b, last>>]
      BY <1>16, <3>2
    <3>6. Delegators(owed', last) = IF all THEN Delegators(owed, last) \ {a}
                                    ELSE Delegators(owed, last)
      <4>1. CASE all
        <5>1. owed'[<<a, last>>] = 0
          BY <1>17, <3>2, <4>1
        <5> QED
          BY <3>5, <4>1, <5>1 DEF Delegators
      <4>2. CASE ~all
        <5>1. owed'[<<a, last>>] > 0 /\ owed[<<a, last>>] > 0
          BY <1>18, <3>2, <4>2
        <5> QED
          BY <3>5, <4>2, <5>1 DEF Delegators
      <4> QED
        BY <4>1, <4>2
    <3>7. node'.valid = Cardinality(Delegators(owed', last))
      <4>1. PICK S : S = Delegators(owed, last)
        OBVIOUS
      <4>2. IsFiniteSet(S) /\ Cardinality(S) \in Nat
        BY <4>1, DelegatorsFinite, FS_CardinalityType
      <4>3. Cardinality(S \ {a}) = Cardinality(S) - 1
        BY <3>4, <4>1, <4>2, FS_RemoveElement
      <4> QED
        BY <1>14, <2>2, <3>3, <3>6, <4>1, <4>2, <4>3
    <3> QED
      BY <1>2, <1>4, <1>15, <3>1, <3>7, Zenon DEF Counted, Delegators
  <2> QED
    BY <2>1, <2>2
<1>20. LiveOwed'
  <2> SUFFICES ASSUME NEW x \in DOMAIN delegation', ~delegation'[x].history PROVE owed'[x] > 0
    BY DEF LiveOwed
  <2>1. x \in DOMAIN delegation /\ (x # k => delegation'[x] = delegation[x])
    BY <1>c
  <2>2. CASE x = k
    <3>1. ~RefundsAll(r, n)
      BY <1>5, <1>c, <2>2, Zenon
    <3> QED
      BY <1>8, <1>18, <2>2, <3>1
  <2>3. CASE x # k
    <3>1. x \in Keys /\ owed'[x] = owed[x]
      BY <1>1, <1>4, <1>13, <2>1, <2>3, TablesAre
    <3> QED
      BY <1>1, <2>1, <2>3, <3>1 DEF LiveOwed
  <2> QED
    BY <2>2, <2>3
<1> QED
  BY <1>b, <1>19, <1>20 DEF CountsNow

\* A step that changes no amount, and no row from ended to live.
LEMMA ValidKept ==
  ASSUME CountsNow, TotalsInv', owed' = owed, last' = last,
         \A k \in DOMAIN delegation' :
           k \in DOMAIN delegation /\ (delegation[k].history => delegation'[k].history),
         staking'[last].status = CANDIDATE => /\ staking[last].status = CANDIDATE
                                              /\ node'.valid = node.valid,
         staking'[last].status # CANDIDATE =>
           \/ node'.valid = 0
           \/ staking[last].status # CANDIDATE /\ node'.valid = node.valid
  PROVE  CountsNow'
<1>1. Counted /\ LiveOwed
  BY DEF CountsNow
<1>2. LiveOwed'
  BY <1>1 DEF LiveOwed
<1>3. CASE staking'[last].status = CANDIDATE
  <2>1. Counted'
    BY <1>1, <1>3, Zenon DEF Counted, Delegators
  <2> QED
    BY <1>2, <2>1 DEF CountsNow
<1>4. CASE staking'[last].status # CANDIDATE
  <2>1. node'.valid = 0
    BY <1>1, <1>4, Zenon DEF Counted, Delegators
  <2>2. Counted'
    BY <1>4, <2>1, Zenon DEF Counted, Delegators
  <2> QED
    BY <1>2, <2>2 DEF CountsNow
<1> QED
  BY <1>3, <1>4

LEMMA SettleValid == ASSUME CountsNow, Settle PROVE CountsNow'
<1>1. TotalsInv /\ TotalsInv' /\ DelegInv
  BY SettleTotals DEF CountsNow, TotalsInv
<1>2. owed' = owed /\ last' = last /\ node' = node
  BY DEF Settle
<1>3. PICK over \in SUBSET {g \in DOMAIN staking : staking[g].status = EXITING} :
        staking' = [g \in DOMAIN staking |->
          LET s == staking[g]
              t == IF s.hes > 0 THEN [s EXCEPT !.locked = @ + s.hes, !.hes = 0] ELSE s
          IN [t EXCEPT !.status = IF g \in over THEN EXITED ELSE @]]
  BY Zenon DEF Settle
<1>4. staking'[last].status = CANDIDATE <=> staking[last].status = CANDIDATE
  <2>1. PICK s \in StakingRow : s = staking[last]
    BY <1>1, TablesAre
  <2>2. last \in DOMAIN staking
    BY <1>1, TablesAre
  <2>3. PICK t : t = IF s.hes > 0 THEN [s EXCEPT !.locked = @ + s.hes, !.hes = 0] ELSE s
    OBVIOUS
  <2>4. t \in StakingRow /\ t.status = s.status
    <3>1. CASE s.hes > 0
      <4>1. PICK x \in Int, z \in Int : x = s.locked + s.hes /\ z = 0
        BY DEF StakingRow
      <4>2. PICK v : v = WithLocked(s, x)
        OBVIOUS
      <4>3. v \in StakingRow /\ v.status = s.status
        BY <4>2, LockedSet
      <4>4. t = WithHes(v, z)
        BY <2>3, <3>1, <4>1, <4>2, Zenon DEF WithHes, WithLocked
      <4> QED
        BY <4>3, <4>4, HesSet
    <3>2. CASE ~(s.hes > 0)
      BY <2>3, <3>2, Zenon
    <3> QED
      BY <3>1, <3>2
  <2>5. PICK st \in {CANDIDATE, EXITING, EXITED} : st = IF last \in over THEN EXITED ELSE t.status
    <3>1. t.status \in {CANDIDATE, EXITING, EXITED}
      BY <2>4 DEF StakingRow
    <3> QED
      BY <3>1
  <2>6. staking'[last] = WithStatus(t, st)
    BY <1>3, <2>1, <2>2, <2>3, <2>5, Zenon DEF WithStatus
  <2>7. staking'[last].status = st
    BY <2>4, <2>6, StatusSet
  <2>8. last \in over => s.status = EXITING
    BY <2>1
  <2>9. st = CANDIDATE <=> s.status = CANDIDATE
    BY <2>4, <2>5, <2>8 DEF CANDIDATE, EXITING, EXITED
  <2> QED
    BY <2>1, <2>7, <2>9, Zenon
<1>5. \A k \in DOMAIN delegation' :
        k \in DOMAIN delegation /\ (delegation[k].history => delegation'[k].history)
  <2>1. delegation' = [k \in DOMAIN delegation |->
          IF ~delegation[k].history /\ delegation[k].hes > 0
          THEN [delegation[k] EXCEPT !.locked = @ + delegation[k].hes, !.hes = 0]
          ELSE delegation[k]]
    BY Zenon DEF Settle
  <2> QED
    BY <2>1, Zenon
<1> QED
  BY <1>1, <1>2, <1>4, <1>5, ValidKept

\* Nobody is counted once the staking has ended.
LEMMA ExitValid == ASSUME exact', CountsNow, StakeExit PROVE CountsNow'
<1>1. TotalsInv /\ TotalsInv'
  BY StakeExitTotals DEF CountsNow
<1>2. owed' = owed /\ last' = last
  BY DEF StakeExit
<1>3. PICK t, u : /\ Now(t) /\ Left(t, u, last)
                  /\ delegation' = u.delegation /\ staking' = u.staking /\ node' = u.node
  BY <1>1, StakeExitTotals
<1>4. /\ DOMAIN delegation' = DOMAIN delegation
      /\ \A k \in DOMAIN delegation : delegation'[k].history <=> delegation[k].history
      /\ staking'[last].status # CANDIDATE /\ node'.valid = 0
  BY <1>3, Zenon DEF Left, Now
<1> QED
  BY <1>1, <1>2, <1>4, ValidKept

LEMMA PunishValid == ASSUME CountsNow, Punish PROVE CountsNow'
<1>1. TotalsInv' /\ DelegInv
  BY PunishTotals DEF CountsNow, TotalsInv
<1>2. owed' = owed /\ last' = last
  BY DEF Punish
<1>3. node'.valid = 0
  <2>1. node' = NodeAfterEnd(node, delegation')
    BY Zenon DEF Punish
  <2> QED
    BY <2>1 DEF NodeAfterEnd
<1>4. staking'[last].status # CANDIDATE
  <2>1. PICK st \in {EXITING, EXITED} : staking' = [staking EXCEPT ![last] = EndedTotals(@, st)]
    BY Zenon DEF Punish
  <2> QED
    BY <1>1, <2>1, LastEnds
<1>5. \A k \in DOMAIN delegation' :
        k \in DOMAIN delegation /\ (delegation[k].history => delegation'[k].history)
  <2>1. delegation' = [k \in DOMAIN delegation |->
          IF k[2] = last /\ ~delegation[k].history
          THEN [Release(delegation[k]) EXCEPT !.released = @ + delegation[k].released]
          ELSE delegation[k]]
    BY Zenon DEF Punish
  <2> QED
    BY <2>1, Zenon
<1> QED
  BY <1>1, <1>2, <1>3, <1>4, <1>5, ValidKept

LEMMA RestakeValid == ASSUME exact, CountsNow, Restake PROVE CountsNow'
<1>1. TotalsInv' /\ TotalsInv /\ DelegInv /\ Counted /\ LiveOwed
  BY RestakeTotals DEF CountsNow, TotalsInv
<1>2. /\ owed' = owed /\ last' = last + 1 /\ delegation' = delegation /\ node' = node
      /\ staking[last].status = EXITED
  BY DEF Restake
<1>3. LiveOwed'
  BY <1>1, <1>2 DEF LiveOwed
<1>4. node'.valid = 0
  BY <1>1, <1>2 DEF Counted, CANDIDATE, EXITED
<1>5. PICK m : m = last'
  OBVIOUS
<1>6. m \in 1..MaxStaking /\ m \notin 1..last
  BY <1>1, <1>2, <1>5, TablesAre DEF TotalsInv, DelegInv, TypeOK
<1>7. \A a \in Addrs : owed[<<a, m>>] = 0
  <2> TAKE a \in Addrs
  <2>1. PICK k : k = <<a, m>>
    OBVIOUS
  <2>2. k \in Keys /\ k[2] = m
    BY <1>6, <2>1 DEF Keys
  <2>3. k \notin DOMAIN delegation
    BY <1>1, <1>6, <2>2, RowsAre
  <2>4. RowTotal(k) = 0 /\ RowTotal(k) = owed[k]
    BY <1>1, <2>2, <2>3 DEF RowTotal, DelegInv, RowsAreOwed
  <2> QED
    BY <2>1, <2>4
<1>8. Delegators(owed, m) = {} /\ Cardinality({}) = 0
  BY <1>7, FS_EmptySet DEF Delegators
<1>9. node'.valid = Cardinality(Delegators(owed, m))
  BY <1>4, <1>8
<1>10. Counted'
  <2>1. node'.valid = IF staking'[m].status = CANDIDATE THEN Cardinality(Delegators(owed, m)) ELSE 0
    BY <1>4, <1>8
  <2> QED
    BY <1>2, <1>5, <2>1, Zenon DEF Counted, Delegators
<1> QED
  BY <1>1, <1>3, <1>10 DEF CountsNow

LEMMA TaskValid ==
  ASSUME CountsNow, TaskSelect \/ TaskSave \/ TaskDelete \/ TaskThrows
  PROVE  CountsNow'
<1>1. TotalsInv'
  BY TaskTotals DEF CountsNow
<1>2. UNCHANGED <<owed, last, staking, node>>
  BY DEF TaskSelect, TaskSave, TaskDelete, TaskThrows, tables
<1>3. \A k \in DOMAIN delegation' :
        k \in DOMAIN delegation /\ (delegation[k].history => delegation'[k].history)
  <2>1. CASE TaskDelete
    <3>1. delegation' = [k \in DOMAIN delegation \ ToDelete |-> delegation[k]]
      BY <2>1, Zenon DEF TaskDelete
    <3> QED
      BY <3>1
  <2>2. CASE TaskSelect \/ TaskSave \/ TaskThrows
    <3>1. delegation' = delegation
      BY <2>2 DEF TaskSelect, TaskSave, TaskThrows, tables
    <3> QED
      BY <3>1
  <2> QED
    BY <2>1, <2>2
<1> QED
  BY <1>1, <1>2, <1>3, ValidKept

\* Once a transaction has been analysed again, that remains so.
LEMMA ExactBefore == ASSUME [Next]_vars, exact' PROVE exact
<1>1. CASE DelegateSome \/ UndelegateSome \/ StakeExit
  <2>1. PICK tx : Collected(tx)
    BY <1>1, Zenon DEF DelegateSome, UndelegateSome, Delegate, Undelegate, StakeExit
  <2>2. exact' = (exact /\ copies = 1)
    BY <2>1 DEF Collected
  <2> QED
    BY <2>2
<1>2. CASE Settle \/ Punish \/ Restake \/ Fail \/ Crash
  BY <1>2 DEF Settle, Punish, Restake, Fail, Crash
<1>3. CASE TaskSelect \/ TaskSave \/ TaskDelete \/ TaskThrows \/ UNCHANGED vars
  BY <1>3 DEF TaskSelect, TaskSave, TaskDelete, TaskThrows, vars
<1> QED
  BY <1>1, <1>2, <1>3, Zenon DEF Next

LEMMA ValidNext ==
  ASSUME Threshold > 0
  PROVE  ValidInv /\ [Next]_vars => ValidInv'
<1> SUFFICES ASSUME ValidInv, [Next]_vars PROVE ValidInv'
  OBVIOUS
<1>1. TotalsInv'
  BY TotalsNext DEF ValidInv
<1>2. ASSUME exact' PROVE CountsNow'
  <2>1. exact /\ CountsNow
    BY <1>2, ExactBefore DEF ValidInv, CountsNow
  <2>2. CASE DelegateSome
    BY <1>2, <2>1, <2>2, DelegateValid, Zenon DEF DelegateSome
  <2>3. CASE UndelegateSome
    BY <1>2, <2>1, <2>3, UndelegateValid, Zenon DEF UndelegateSome
  <2>4. CASE Settle \/ StakeExit \/ Punish \/ Restake
    BY <1>2, <2>1, <2>4, SettleValid, ExitValid, PunishValid, RestakeValid
  <2>5. CASE TaskSelect \/ TaskSave \/ TaskDelete \/ TaskThrows
    BY <2>1, <2>5, TaskValid
  <2>6. CASE Fail \/ Crash \/ UNCHANGED vars
    <3>1. UNCHANGED <<owed, last, delegation, staking, node>>
      BY <2>6 DEF Fail, Crash, vars, tables
    <3> QED
      BY <1>1, <2>1, <3>1, ValidKept DEF CountsNow
  <2> QED
    BY <2>2, <2>3, <2>4, <2>5, <2>6, Zenon DEF Next
<1> QED
  BY <1>1, <1>2 DEF ValidInv, CountsNow

\* The node's number of valid delegators is the number of those who have a
\* delegation in its staking, however they delegate and take back, until a retry
\* has analysed a transaction again, where the chain has a threshold at all:
\* without one an empty row could stay live.
THEOREM DelegatorsAreCounted ==
  ASSUME Threshold > 0
  PROVE  Spec => []ValidAddrs
<1>1. ValidInv => ValidAddrs
  BY Zenon DEF ValidInv, ValidAddrs, Counted, Delegators
<1>2. CountsNow => ValidInv
  BY DEF CountsNow, ValidInv
<1> QED
  BY <1>1, <1>2, ValidInit, ValidNext, PTL DEF Spec
=============================================================================
