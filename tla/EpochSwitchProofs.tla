-------------------------- MODULE EpochSwitchProofs --------------------------
(***************************************************************************)
(* Proofs about the epoch switches: types, and that every block gets the   *)
(* lists and rewards of its epochs and every epoch is recorded once,       *)
(* whatever the periods, the answers of lagging nodes, failed requests and *)
(* restarts.                                                               *)
(***************************************************************************)
EXTENDS EpochSwitch, TLAPS

(***************************************************************************)
(* Arithmetic of periods                                                   *)
(***************************************************************************)

\* The quotient of one more.
LEMMA Succ ==
  ASSUME NEW x \in Nat, NEW p \in Nat \ {0}
  PROVE  /\ (x + 1) % p = 0 => (x + 1) \div p = x \div p + 1
         /\ (x + 1) % p # 0 => (x + 1) \div p = x \div p
BY Z3

\* The quotient of a period more.
LEMMA Shift ==
  ASSUME NEW x \in Nat, NEW p \in Nat \ {0}
  PROVE  (x + p) \div p = x \div p + 1
BY Z3

\* The quotient grows, and is no larger than the number.
LEMMA DivMono ==
  ASSUME NEW x \in Nat, NEW y \in Nat, x =< y, NEW p \in Nat \ {0}
  PROVE  x \div p \in Nat /\ x \div p =< y \div p /\ x \div p =< x
<1>1. x \div p \in Nat
  BY Z3
<1>2. x \div p =< y \div p
  BY Z3
<1>3. x \div p =< x
  BY Z3
<1> QED
  BY <1>1, <1>2, <1>3

\* A whole number of periods.
LEMMA Mult ==
  ASSUME NEW k \in Nat, NEW p \in Nat \ {0}
  PROVE  (k * p) \div p = k
BY Z3

\* The epoch of a positive block, counted from the block before.
LEMMA EpochPositive ==
  ASSUME NEW b \in Int, b >= 1, NEW p \in Nat \ {0}
  PROVE  /\ Epoch(b, p) = (b - 1) \div p + 1
         /\ Epoch(b, p) \in Nat \ {0}
         /\ Epoch(b, p) =< b
<1>1. b - 1 \in Nat /\ (b - 1) + p = b + p - 1
  OBVIOUS
<1>2. Epoch(b, p) = (b - 1) \div p + 1
  <2>1. Epoch(b, p) = (b + p - 1) \div p
    BY DEF Epoch
  <2>2. ((b - 1) + p) \div p = (b - 1) \div p + 1
    BY <1>1, Shift
  <2> QED
    BY <1>1, <2>1, <2>2
<1>3. (b - 1) \div p \in Nat /\ (b - 1) \div p =< b - 1
  BY <1>1, DivMono
<1> QED
  BY <1>2, <1>3

\* Epochs are numbers that do not decrease.
LEMMA EpochMono ==
  ASSUME NEW a \in Int, NEW b \in Int, a =< b, NEW p \in Nat \ {0}
  PROVE  Epoch(a, p) \in Nat /\ Epoch(b, p) \in Nat /\ Epoch(a, p) =< Epoch(b, p)
<1>1. CASE a >= 1
  <2>1. a - 1 \in Nat /\ b - 1 \in Nat /\ a - 1 =< b - 1 /\ b >= 1
    BY <1>1
  <2>2. (a - 1) \div p \in Nat /\ (b - 1) \div p \in Nat /\ (a - 1) \div p =< (b - 1) \div p
    BY <2>1, DivMono
  <2> QED
    BY <1>1, <2>1, <2>2, EpochPositive
<1>2. CASE a =< 0
  <2>1. Epoch(a, p) = 0
    BY <1>2 DEF Epoch
  <2>2. Epoch(b, p) \in Nat
    BY EpochPositive DEF Epoch
  <2> QED
    BY <2>1, <2>2
<1> QED
  BY <1>1, <1>2

\* The next block opens an epoch, or it belongs to the same.
LEMMA EpochNext ==
  ASSUME NEW b \in Int, b >= 1, NEW p \in Nat \ {0}
  PROVE  /\ Opens(b + 1, p) => Epoch(b + 1, p) = Epoch(b, p) + 1
         /\ ~Opens(b + 1, p) => Epoch(b + 1, p) = Epoch(b, p)
<1> DEFINE x == b - 1
<1>1. x \in Nat /\ x + 1 = b /\ (b + 1) - 1 = x + 1
  OBVIOUS
<1>2. Epoch(b, p) = x \div p + 1 /\ Epoch(b + 1, p) = (x + 1) \div p + 1
  BY <1>1, EpochPositive
<1>3. Opens(b + 1, p) <=> (x + 1) % p = 0
  BY <1>1 DEF Opens
<1>4. x \div p \in Nat
  BY <1>1, DivMono
<1> HIDE DEF x
<1> QED
  BY <1>1, <1>2, <1>3, <1>4, Succ

\* Whole periods end their epoch.
LEMMA EpochWhole ==
  ASSUME NEW k \in Nat, NEW p \in Nat \ {0}
  PROVE  Epoch(k * p, p) = k
<1>1. CASE k = 0
  BY <1>1 DEF Epoch
<1>2. CASE k >= 1
  <2>1. k * p \in Nat /\ k * p >= 1 /\ (k - 1) * p \in Nat /\ k * p = (k - 1) * p + p
    BY <1>2, Z3
  <2>2. Epoch(k * p, p) = (k * p + p - 1) \div p
    BY <2>1 DEF Epoch
  <2>3. (k * p + p - 1) \div p = k
    BY <1>2, Z3
  <2> QED
    BY <2>2, <2>3
<1> QED
  BY <1>1, <1>2

\* The last block of the epoch before: below b, and of that epoch.
LEMMA PreEpochLastFacts ==
  ASSUME NEW b \in Heights, NEW p \in Nat \ {0, 1}
  PROVE  /\ PreEpochLast(b, p) \in Nat /\ PreEpochLast(b, p) =< MaxBlock
         /\ b =< 0 => PreEpochLast(b, p) = 0
         /\ b >= 1 => /\ PreEpochLast(b, p) = (Epoch(b, p) - 1) * p
                      /\ PreEpochLast(b, p) + 1 =< b
<1>1. CASE b =< 0
  BY <1>1, EpochBounds DEF PreEpochLast, Epoch, Heights
<1>2. CASE b >= 1
  <2> DEFINE q == (b - 1) \div p
  <2>1. b \in Int /\ p \in Nat \ {0} /\ b - 1 \in Nat /\ b =< MaxBlock
    BY <1>2, EpochBounds DEF Heights
  <2>2. Epoch(b, p) = q + 1 /\ q \in Nat
    <3>1. Epoch(b, p) = q + 1
      BY <1>2, <2>1, EpochPositive
    <3>2. q \in Nat
      BY <2>1, DivMono
    <3> QED
      BY <3>1, <3>2
  <2>3. q * p =< b - 1
    BY <2>1, Z3
  <2>4. q * p \in Nat
    BY <2>1, <2>2
  <2> HIDE DEF q
  <2>5. PreEpochLast(b, p) = q * p
    BY <2>2 DEF PreEpochLast
  <2> QED
    BY <1>2, <2>1, <2>2, <2>3, <2>4, <2>5, EpochBounds
<1> QED
  BY <1>1, <1>2 DEF Heights

\* What is asked for as the previous list is the one of the epoch before.
LEMMA PreviousIsBefore ==
  ASSUME NEW b \in Heights, NEW p \in Nat \ {0, 1}, NEW cur
  PROVE  PreviousList(cur, b, p) = Before(b, p)
<1>1. CASE b =< 0
  BY <1>1, PreEpochLastFacts DEF PreviousList, Before, Serving, ListAt
<1>2. CASE b >= 1
  <2> DEFINE k == Epoch(b, p) - 1
  <2>1. b \in Int /\ p \in Nat \ {0}
    BY DEF Heights
  <2>2. k \in Nat /\ Epoch(b, p) = k + 1
    <3>1. Epoch(b, p) \in Nat \ {0}
      BY <1>2, <2>1, EpochPositive
    <3> QED
      BY <3>1
  <2>3. PreEpochLast(b, p) = k * p
    BY <1>2, PreEpochLastFacts
  <2>4. Serving(b, p) = k + 1
    <3>1. Serving(b, p) = Epoch(b, p)
      BY <1>2, <2>1 DEF Serving
    <3> QED
      BY <2>2, <3>1
  <2>5. Epoch(k * p, p) = k
    BY <2>1, <2>2, EpochWhole
  <2>6. k * p = 0 <=> k = 0
    BY <2>2, Z3
  <2> HIDE DEF k
  <2> QED
    BY <2>2, <2>3, <2>4, <2>5, <2>6 DEF PreviousList, ListAt, Before
<1> QED
  BY <1>1, <1>2 DEF Heights

\* The rewards asked for when a settlement epoch opens are those of that epoch.
LEMMA InfoIsServing ==
  ASSUME NEW b \in Heights
  PROVE  InfoAt(PreEpochLast(b, SettlePeriod)) = Serving(b, SettlePeriod)
<1>0. SettlePeriod \in Nat \ {0, 1} /\ SettlePeriod \in Nat \ {0}
  BY PeriodAssumption
<1>1. CASE b =< 0
  <2>1. 0 \div SettlePeriod = 0
    BY <1>0, Mult
  <2> QED
    BY <1>0, <1>1, <2>1, PreEpochLastFacts DEF InfoAt, Serving
<1>2. CASE b >= 1
  <2> DEFINE k == Epoch(b, SettlePeriod) - 1
  <2>1. k \in Nat /\ Epoch(b, SettlePeriod) = k + 1 /\ b \in Int
    <3>1. b \in Int
      BY DEF Heights
    <3>2. Epoch(b, SettlePeriod) \in Nat \ {0}
      BY <1>0, <1>2, <3>1, EpochPositive
    <3> QED
      BY <3>1, <3>2
  <2>2. PreEpochLast(b, SettlePeriod) = k * SettlePeriod
    BY <1>0, <1>2, PreEpochLastFacts
  <2>3. (k * SettlePeriod) \div SettlePeriod = k
    BY <1>0, <2>1, Mult
  <2>4. Serving(b, SettlePeriod) = Epoch(b, SettlePeriod)
    BY <1>2, <2>1 DEF Serving
  <2>5. InfoAt(PreEpochLast(b, SettlePeriod)) = k + 1
    BY <2>2, <2>3 DEF InfoAt
  <2> HIDE DEF k
  <2> QED
    BY <2>1, <2>4, <2>5
<1> QED
  BY <1>1, <1>2 DEF Heights

\* The epochs served from one block to the next.
LEMMA ServingNext ==
  ASSUME NEW b \in Heights, NEW p \in Nat \ {0, 1}
  PROVE  /\ Serving(b, p) \in Nat \ {0}
         /\ ~Opens(b + 1, p) => /\ Serving(b + 1, p) = Serving(b, p)
                                /\ Before(b + 1, p) = Before(b, p)
         /\ Opens(b + 1, p) /\ b >= 1 => Serving(b, p) = Serving(b + 1, p) - 1
<1>1. b \in Int /\ p \in Nat \ {0} /\ b >= -1
  BY DEF Heights
<1>2. CASE b >= 1
  <2>1. Epoch(b, p) \in Nat \ {0}
    BY <1>1, <1>2, EpochPositive
  <2> QED
    BY <1>1, <1>2, <2>1, EpochNext DEF Serving, Before
<1>3. CASE b = 0
  <2>1. Opens(1, p)
    BY <1>1, Z3 DEF Opens
  <2> QED
    BY <1>3, <2>1 DEF Serving
<1>4. CASE b = -1
  BY <1>4 DEF Serving, Before
<1> QED
  BY <1>1, <1>2, <1>3, <1>4

(***************************************************************************)
(* Types, and the table block_node                                         *)
(***************************************************************************)

\* Elements of a queue that is extended.
LEMMA AppendStep ==
  ASSUME NEW S, NEW q \in Seq(S), NEW x \in S
  PROVE  /\ Append(q, x) \in Seq(S) /\ Len(Append(q, x)) = Len(q) + 1
         /\ \A i \in DOMAIN Append(q, x) :
              \/ i = Len(q) + 1 /\ Append(q, x)[i] = x
              \/ i \in DOMAIN q /\ Append(q, x)[i] = q[i]
OBVIOUS

\* An element of a queue.
LEMMA ElementTyped ==
  ASSUME NEW S, NEW q \in Seq(S), NEW j \in DOMAIN q
  PROVE  q[j] \in S
OBVIOUS

\* Elements of a queue that loses its head.
LEMMA TailStep ==
  ASSUME NEW S, NEW q \in Seq(S), q # <<>>
  PROVE  /\ Tail(q) \in Seq(S) /\ Head(q) \in S /\ 1 \in DOMAIN q /\ q[1] = Head(q)
         /\ \A i \in DOMAIN Tail(q) : i + 1 \in DOMAIN q /\ Tail(q)[i] = q[i + 1]
OBVIOUS

\* The nodes of b's consensus epoch have been recorded.
Recorded(b) == Len(blockNode) >= Epoch(b, ConsensusPeriod)

\* Where the main thread is between two blocks, or with an epoch still to record.
ThreadInv ==
  /\ blk =< chainHead /\ db.cur =< chainHead
  /\ \A i \in DOMAIN msgs : msgs[i].blk =< chainHead
  /\ pc = "down" => ~booting /\ msgs = <<>>
  /\ pc \in {"next", "record", "publish", "stopped"} => ~booting
  /\ pc = "ready" => booting
  /\ booting => blk = db.cur /\ msgs = <<>>
  /\ ~booting /\ pc \in {"consensus", "consensusLists", "record"} =>
       Opens(blk, ConsensusPeriod)
  /\ pc = "record" => ers.curVal # 0
  /\ ~booting /\ pc \notin {"down", "next", "stopped"} => blk >= 0

\* block_node numbers its batches; it has one for each epoch up to the last
\* committed block, the last published one, and the one in work when that was
\* recorded or opens no epoch.
RecordInv ==
  /\ \A i \in DOMAIN blockNode : blockNode[i].num = i
  /\ Len(blockNode) =< Epoch(chainHead, ConsensusPeriod)
  /\ pc # "stopped" => maxNum \in {-1, Len(blockNode)}
  /\ Recorded(db.cur)
  /\ \A i \in DOMAIN msgs : Recorded(msgs[i].blk)
  /\ pc \notin {"down", "stopped"} =>
       IF booting \/ pc \in {"next", "publish"} \/ ~Opens(blk, ConsensusPeriod)
       THEN Recorded(blk) ELSE Recorded(blk - 1)

SwitchInv == TypeOK /\ ThreadInv /\ RecordInv

\* Constants as the lemmas need them.
LEMMA Periods ==
  /\ ConsensusPeriod \in Nat \ {0, 1} /\ ConsensusPeriod \in Nat \ {0}
  /\ SettlePeriod \in Nat \ {0, 1} /\ SettlePeriod \in Nat \ {0}
BY PeriodAssumption

\* Lists that nodes answer with, for blocks of the chain.
LEMMA ListsTyped ==
  ASSUME NEW x \in Nat, x =< MaxBlock, NEW p \in Nat \ {0, 1}
  PROVE  ListAt(x, p) \in Lists \ {0}
<1>1. CASE x = 0
  BY <1>1, EpochBounds DEF ListAt, Lists
<1>2. CASE x >= 1
  <2>1. Epoch(x, p) \in Nat \ {0} /\ Epoch(x, p) =< x
    BY <1>2, EpochPositive
  <2> QED
    BY <1>2, <2>1, EpochBounds DEF ListAt, Lists
<1> QED
  BY <1>1, <1>2

\* The answers of a change are typed.
LEMMA AnswersTyped ==
  ASSUME TypeOK, NEW p \in Nat \ {0, 1}, NEW h \in NodeHeads, NEW cur
  PROVE  /\ PreviousList(cur, blk, p) \in Lists
         /\ CurrentList(blk, p, h) \in Lists
         /\ h \in Nat /\ h >= 1 /\ h =< MaxBlock
         /\ Epoch(h, p) \in Lists
<1>0. blk \in Heights /\ blk \in Int /\ p \in Nat \ {0}
  BY DEF TypeOK, Heights
<1>1. h \in Nat /\ h >= 1 /\ h =< MaxBlock
  BY EpochBounds DEF TypeOK, NodeHeads, Blocks
<1>2. PreEpochLast(blk, p) \in Nat /\ PreEpochLast(blk, p) =< MaxBlock
  BY <1>0, PreEpochLastFacts
<1>3. PreviousList(cur, blk, p) \in Lists
  BY <1>2, ListsTyped DEF PreviousList
<1>4. TargetBlock(blk, p) \in Nat /\ TargetBlock(blk, p) =< MaxBlock
  <2>1. CASE PreEpochLast(blk, p) = 0
    BY <2>1, EpochBounds DEF TargetBlock
  <2>2. CASE PreEpochLast(blk, p) # 0
    <3>1. blk >= 1 /\ PreEpochLast(blk, p) + 1 =< blk /\ blk =< MaxBlock
      BY <1>0, <2>2, PreEpochLastFacts DEF Heights
    <3> QED
      BY <1>0, <1>2, <2>2, <3>1, EpochBounds DEF TargetBlock, Heights
  <2> QED
    BY <2>1, <2>2
<1>5. ListAt(TargetBlock(blk, p), p) \in Lists /\ ListAt(h, p) \in Lists
  BY <1>1, <1>4, ListsTyped
<1>6. 0 \in Lists
  BY EpochBounds DEF Lists
<1>7. CurrentList(blk, p, h) \in Lists
  BY <1>5, <1>6 DEF CurrentList
<1>8. Epoch(h, p) \in Lists
  <2>1. Epoch(h, p) \in Nat /\ Epoch(h, p) =< h
    BY <1>0, <1>1, EpochPositive
  <2> QED
    BY <1>1, <2>1, EpochBounds DEF Lists
<1> QED
  BY <1>1, <1>3, <1>7, <1>8

\* The rewards asked for are of a settlement epoch that has a year.
LEMMA InfoTyped ==
  ASSUME TypeOK
  PROVE  LET info == InfoAt(PreEpochLast(blk, SettlePeriod))
         IN /\ info \in Lists /\ YearOf[info] \in Nat
            /\ info \in 1..(MaxBlock \div SettlePeriod + 1)
<1> DEFINE x == PreEpochLast(blk, SettlePeriod)
<1>1. x \in Nat /\ x =< MaxBlock
  <2>1. blk \in Heights
    BY DEF TypeOK
  <2> QED
    BY <2>1, Periods, PreEpochLastFacts
<1>2. x \div SettlePeriod \in Nat /\ x \div SettlePeriod =< MaxBlock \div SettlePeriod
      /\ MaxBlock \div SettlePeriod \in Nat /\ x \div SettlePeriod =< x
  <2> HIDE DEF x
  <2>1. MaxBlock \in Nat /\ SettlePeriod \in Nat \ {0}
    BY EpochBounds, Periods
  <2>2. MaxBlock \div SettlePeriod \in Nat
    BY <2>1, DivMono
  <2> QED
    BY <1>1, <2>1, <2>2, DivMono
<1> HIDE DEF x
<1>3. InfoAt(x) \in Lists
  BY <1>1, <1>2, EpochBounds DEF InfoAt, Lists
<1>4. InfoAt(x) \in 1..(MaxBlock \div SettlePeriod + 1)
  BY <1>2 DEF InfoAt
<1>5. YearOf[InfoAt(x)] \in Nat
  BY <1>4, YearAssumption
<1> QED
  BY <1>3, <1>4, <1>5 DEF x

\* What the main thread takes for the number of the last batch is that number.
LEMMA KnownMaxIsLen ==
  ASSUME SwitchInv, pc # "stopped"
  PROVE  KnownMax = Len(blockNode) /\ Len(blockNode) \in Nat
<1>1. Len(blockNode) \in Nat /\ DOMAIN blockNode = 1..Len(blockNode)
  BY DEF SwitchInv, TypeOK
<1>2. Len(blockNode) =< MaxBlock
  <2>1. chainHead \in Int /\ chainHead >= 1 /\ chainHead =< MaxBlock /\ MaxBlock \in Nat
    BY EpochBounds DEF SwitchInv, TypeOK, Blocks
  <2>2. Epoch(chainHead, ConsensusPeriod) \in Nat /\ Epoch(chainHead, ConsensusPeriod) =< chainHead
    BY <2>1, Periods, EpochPositive
  <2> QED
    BY <1>1, <2>1, <2>2 DEF SwitchInv, RecordInv
<1>3. \A i \in DOMAIN blockNode : blockNode[i].num = i
  BY DEF SwitchInv, RecordInv
<1>4. SelectMaxNum = Len(blockNode)
  <2> DEFINE P(n) == /\ n = 0 \/ \E i \in DOMAIN blockNode : blockNode[i].num = n
                     /\ \A i \in DOMAIN blockNode : blockNode[i].num =< n
  <2>1. Len(blockNode) \in 0..MaxBlock /\ P(Len(blockNode))
    <3>1. Len(blockNode) \in 0..MaxBlock
      BY <1>1, <1>2, EpochBounds
    <3>2. \A i \in DOMAIN blockNode : blockNode[i].num =< Len(blockNode)
      BY <1>1, <1>3
    <3>3. Len(blockNode) # 0 => Len(blockNode) \in DOMAIN blockNode
      BY <1>1
    <3> QED
      BY <1>3, <3>1, <3>2, <3>3
  <2>2. ASSUME NEW n \in 0..MaxBlock, P(n) PROVE n = Len(blockNode)
    <3>1. n =< Len(blockNode)
      <4>1. CASE n = 0
        BY <1>1, <4>1
      <4>2. ASSUME NEW i \in DOMAIN blockNode, blockNode[i].num = n PROVE n =< Len(blockNode)
        BY <1>1, <1>3, <4>2
      <4> QED
        BY <2>2, <4>1, <4>2
    <3>2. n >= Len(blockNode)
      <4>1. CASE Len(blockNode) = 0
        BY <4>1
      <4>2. CASE Len(blockNode) # 0
        <5>1. Len(blockNode) \in DOMAIN blockNode
          BY <1>1, <4>2
        <5> QED
          BY <1>3, <2>2, <5>1
      <4> QED
        BY <4>1, <4>2
    <3>3. n \in Int /\ Len(blockNode) \in Int
      BY <1>1, EpochBounds
    <3> HIDE DEF P
    <3> QED
      BY <3>1, <3>2, <3>3
  <2>3. SelectMaxNum = CHOOSE n \in 0..MaxBlock : P(n)
    BY DEF SelectMaxNum
  <2> HIDE DEF P
  <2> QED
    BY <2>1, <2>2, <2>3
<1>5. maxNum = -1 \/ maxNum = Len(blockNode)
  BY DEF SwitchInv, RecordInv
<1> QED
  BY <1>1, <1>4, <1>5 DEF KnownMax

\* The table has no more batches than the chain can have epochs.
LEMMA TableInBounds ==
  ASSUME SwitchInv
  PROVE  /\ Len(blockNode) =< Epoch(MaxBlock, ConsensusPeriod)
         /\ Epoch(MaxBlock, ConsensusPeriod) \in Nat
<1>1. chainHead \in Int /\ chainHead =< MaxBlock /\ MaxBlock \in Int
  BY EpochBounds DEF SwitchInv, TypeOK, Blocks
<1>2. /\ Epoch(chainHead, ConsensusPeriod) =< Epoch(MaxBlock, ConsensusPeriod)
      /\ Epoch(chainHead, ConsensusPeriod) \in Nat /\ Epoch(MaxBlock, ConsensusPeriod) \in Nat
  BY <1>1, Periods, EpochMono
<1>3. Len(blockNode) =< Epoch(chainHead, ConsensusPeriod) /\ Len(blockNode) \in Nat
  BY DEF SwitchInv, RecordInv, TypeOK
<1> QED
  BY <1>2, <1>3

\* When an epoch is recorded the table has all the epochs before it, and the
\* guard holds exactly when it lacks this one.
LEMMA RecordStep ==
  ASSUME SwitchInv, pc = "record"
  PROVE  /\ Missing => Len(blockNode) + 1 = Epoch(blk, ConsensusPeriod)
         /\ ~Missing => Recorded(blk)
         /\ Epoch(blk, ConsensusPeriod) =< Epoch(chainHead, ConsensusPeriod)
         /\ Epoch(blk, ConsensusPeriod) =< Epoch(MaxBlock, ConsensusPeriod)
         /\ Epoch(blk, ConsensusPeriod) \in Nat
         /\ Epoch(MaxBlock, ConsensusPeriod) \in Nat
<1> DEFINE e == Epoch(blk, ConsensusPeriod)
<1>0. KnownMax = Len(blockNode) /\ Len(blockNode) \in Nat
  BY KnownMaxIsLen
<1>1. Opens(blk, ConsensusPeriod) /\ blk \in Int /\ blk =< chainHead
      /\ chainHead \in Int /\ chainHead =< MaxBlock /\ MaxBlock \in Nat
  BY EpochBounds DEF SwitchInv, ThreadInv, TypeOK, Heights, Blocks
<1>2. blk >= 1
  BY <1>1 DEF Opens
<1>3. e = (blk - 1) \div ConsensusPeriod + 1 /\ (blk - 1) \div ConsensusPeriod \in Nat
  <2>1. blk - 1 \in Nat
    BY <1>1, <1>2
  <2> QED
    BY <1>1, <1>2, <2>1, Periods, EpochPositive, DivMono
<1>4. Epoch(blk - 1, ConsensusPeriod) = e - 1
  <2>1. CASE blk = 1
    <3>1. 0 \div ConsensusPeriod = 0
      BY Periods, Mult
    <3> QED
      BY <1>3, <2>1, <3>1 DEF Epoch
  <2>2. CASE blk > 1
    <3>1. blk - 1 \in Int /\ blk - 1 >= 1 /\ (blk - 1) + 1 = blk
      BY <1>1, <2>2
    <3>2. Epoch(blk - 1, ConsensusPeriod) \in Nat
      BY <3>1, Periods, EpochPositive
    <3> QED
      BY <1>1, <3>1, <3>2, Periods, EpochNext
  <2> QED
    BY <1>1, <1>2, <2>1, <2>2
<1>5. Len(blockNode) >= e - 1
  BY <1>1, <1>4 DEF SwitchInv, ThreadInv, RecordInv, Recorded
<1>6. e =< Epoch(chainHead, ConsensusPeriod) /\ e =< Epoch(MaxBlock, ConsensusPeriod)
      /\ Epoch(MaxBlock, ConsensusPeriod) \in Nat
  BY <1>1, Periods, EpochMono
<1> HIDE DEF e
<1>7. Missing => Len(blockNode) + 1 = e
  BY <1>0, <1>3, <1>5 DEF Missing
<1>8. ~Missing => Len(blockNode) >= e
  BY <1>0, <1>3 DEF Missing
<1> QED
  BY <1>3, <1>6, <1>7, <1>8 DEF Recorded, e

\* A block that opens no epoch is of the epoch of the block before.
LEMMA EpochSame ==
  ASSUME NEW b \in Heights, NEW p \in Nat \ {0, 1}, ~Opens(b + 1, p)
  PROVE  Epoch(b + 1, p) = Epoch(b, p)
<1>1. b \in Int /\ b >= -1 /\ p \in Nat \ {0}
  BY DEF Heights
<1>2. CASE b >= 1
  BY <1>1, <1>2, EpochNext
<1>3. CASE b = 0
  <2>1. Opens(b + 1, p)
    BY <1>1, <1>3, Z3 DEF Opens
  <2> QED
    BY <2>1
<1>4. CASE b = -1
  BY <1>4 DEF Epoch
<1> QED
  BY <1>1, <1>2, <1>3, <1>4

\* A first start.
LEMMA SwitchInit == Init => SwitchInv
<1> SUFFICES ASSUME Init PROVE SwitchInv
  OBVIOUS
<1> USE EpochBounds
<1>1. /\ chainHead = 1 /\ blk = -1 /\ pc = "down" /\ booting = FALSE /\ maxNum = -1
      /\ msgs = <<>> /\ blockNode = <<>> /\ db.cur = -1
  BY DEF Init
<1>2. Epoch(MaxBlock, ConsensusPeriod) \in Nat /\ Epoch(1, ConsensusPeriod) \in Nat
      /\ Epoch(-1, ConsensusPeriod) = 0
  BY Periods, EpochMono DEF Epoch
<1>3. MaxBlock >= 1
  OBVIOUS
<1>4. TypeOK
  <2>1. FreshErs \in ErsType /\ BlankStat \in StatType
    BY DEF Lists, Rewards, ErsType, StatType, FreshErs, NoReward, BlankStat
  <2>2. chainHead \in Blocks \ {0} /\ blk \in Heights /\ seen \in Lists
        /\ maxNum \in -1..Epoch(MaxBlock, ConsensusPeriod)
    BY <1>1, <1>2, <1>3 DEF Init, Blocks, Heights, Lists
  <2>3. db \in [made : BOOLEAN, cur : Heights, reward : Lists, rates : Seq(Nat)]
    BY DEF Init, Heights, Lists
  <2>4. crashes \in 0..MaxCrash /\ fails \in 0..MaxFail /\ year \in Nat
    BY DEF Init
  <2>5. ers \in ErsType /\ stat \in StatType /\ booting \in BOOLEAN
    BY <1>1, <2>1 DEF Init
  <2>6. /\ msgs \in Seq([blk : Blocks, ers : ErsType, stat : StatType])
        /\ blockNode \in Seq([num : 1..Epoch(MaxBlock, ConsensusPeriod), list : Lists \ {0}])
    BY <1>1
  <2> QED
    BY <1>1, <2>2, <2>3, <2>4, <2>5, <2>6 DEF TypeOK
<1>5. ThreadInv
  BY <1>1 DEF ThreadInv
<1>6. RecordInv
  BY <1>1, <1>2 DEF RecordInv, Recorded
<1> QED
  BY <1>4, <1>5, <1>6 DEF SwitchInv

\* Types are kept, action by action.
LEMMA TypesKept == SwitchInv /\ [Next]_vars => TypeOK'
<1> SUFFICES ASSUME SwitchInv, [Next]_vars PROVE TypeOK'
  OBVIOUS
<1>1. TypeOK
  BY DEF SwitchInv
<1>2. CASE UNCHANGED vars
  BY <1>1, <1>2 DEF vars, memory, TypeOK
<1>3. CASE ChainGrow
  <2>1. chainHead' \in Blocks \ {0}
    BY <1>1, <1>3, EpochBounds DEF TypeOK, ChainGrow, Blocks
  <2> QED
    BY <1>1, <1>3, <2>1 DEF TypeOK, ChainGrow, memory
<1>4. CASE Crash
  <2>1. FreshErs \in ErsType /\ BlankStat \in StatType /\ -1 \in Heights /\ 0 \in Lists
    BY EpochBounds DEF Lists, Rewards, ErsType, StatType, FreshErs, NoReward, BlankStat, Heights
  <2>2. crashes' \in 0..MaxCrash
    BY <1>1, <1>4, EpochBounds DEF TypeOK, Crash
  <2>3. Epoch(MaxBlock, ConsensusPeriod) \in Nat
    BY Periods, EpochBounds, EpochMono
  <2>4. maxNum' \in -1..Epoch(MaxBlock, ConsensusPeriod)
    BY <1>4, <2>3 DEF Crash
  <2>5. msgs' \in Seq([blk : Blocks, ers : ErsType, stat : StatType])
    BY <1>4 DEF Crash
  <2> QED
    BY <1>1, <1>4, <2>1, <2>2, <2>4, <2>5 DEF TypeOK, Crash
<1>5. CASE Start
  <2>1. stat' \in StatType /\ blk' \in Heights
    BY <1>1, <1>5, EpochBounds DEF TypeOK, Start, RowStat, BlankStat, StatType, Lists
  <2> QED
    BY <1>1, <1>5, <2>1 DEF TypeOK, Start
<1>6. CASE InitDone
  <2>1. YearOf[1] \in Nat
    <3>1. MaxBlock \div SettlePeriod \in Nat
      BY EpochBounds, Periods, DivMono
    <3> QED
      BY <3>1, YearAssumption
  <2>2. /\ stat' \in StatType
        /\ db' \in [made : BOOLEAN, cur : Heights, reward : Lists, rates : Seq(Nat)]
    <3>1. CASE db.made
      BY <1>1, <1>6, <3>1 DEF TypeOK, InitDone
    <3>2. CASE ~db.made
      <4>1. <<YearOf[1]>> \in Seq(Nat) /\ -1 \in Heights /\ 0 \in Lists
        BY <2>1, EpochBounds DEF Heights, Lists
      <4>2. /\ db' = [made |-> TRUE, cur |-> -1, reward |-> 0, rates |-> <<YearOf[1]>>]
            /\ stat' = [reward |-> 0, rates |-> <<YearOf[1]>>]
        BY <1>6, <3>2 DEF InitDone
      <4> QED
        BY <4>1, <4>2 DEF StatType
    <3> QED
      BY <3>1, <3>2
  <2> QED
    BY <1>1, <1>6, <2>2 DEF TypeOK, InitDone
<1>7. CASE Request
  <2>1. blk' \in Heights
    BY <1>1, <1>7, EpochBounds DEF TypeOK, Request, Heights, Blocks
  <2> QED
    BY <1>1, <1>7, <2>1 DEF TypeOK, Request
<1>8. CASE SettleBegin
  <2>1. PICK h \in NodeHeads : seen' = Epoch(h, SettlePeriod)
    BY <1>8 DEF SettleBegin
  <2>2. seen' \in Lists /\ PreviousList(ers.curVer, blk, SettlePeriod) \in Lists
    BY <1>1, <2>1, Periods, AnswersTyped
  <2>3. ers' \in ErsType
    BY <1>1, <1>8, <2>2 DEF TypeOK, SettleBegin, ErsType
  <2> QED
    BY <1>1, <1>8, <2>2, <2>3 DEF TypeOK, SettleBegin
<1>9. CASE ConsensusBegin
  <2>1. PICK h \in NodeHeads : seen' = Epoch(h, ConsensusPeriod)
    BY <1>9 DEF ConsensusBegin
  <2>2. seen' \in Lists /\ PreviousList(ers.curVal, blk, ConsensusPeriod) \in Lists
    BY <1>1, <2>1, Periods, AnswersTyped
  <2>3. ers' \in ErsType
    BY <1>1, <1>9, <2>2 DEF TypeOK, ConsensusBegin, ErsType
  <2> QED
    BY <1>1, <1>9, <2>2, <2>3 DEF TypeOK, ConsensusBegin
<1>10. CASE SettleLists
  <2> DEFINE info == InfoAt(PreEpochLast(blk, SettlePeriod))
  <2>1. info \in Lists /\ YearOf[info] \in Nat
    BY <1>1, InfoTyped
  <2>2. PICK h \in NodeHeads :
          LET list == CurrentList(blk, SettlePeriod, h)
              asked == [ers EXCEPT !.curVer = list, !.reward = info]
          IN IF list = 0
             THEN /\ ers' = [asked EXCEPT !.preStake = ers.stake]
                  /\ pc' = "settle" /\ UNCHANGED <<year, stat>>
             ELSE /\ ers' = Rotated(asked, info, list)
                  /\ year' = YearOf[info]
                  /\ stat' = [reward |-> info, rates |-> RatesWith(YearOf[info])]
                  /\ pc' = AfterSettle
    BY <1>10 DEF SettleLists
  <2> DEFINE list == CurrentList(blk, SettlePeriod, h)
  <2>3. list \in Lists
    BY <1>1, Periods, AnswersTyped
  <2>4. ers \in ErsType /\ stat \in StatType /\ year \in Nat
    BY <1>1 DEF TypeOK
  <2> HIDE DEF info, list
  <2>5. CASE list = 0
    <3>1. ers' = [[ers EXCEPT !.curVer = list, !.reward = info] EXCEPT !.preStake = ers.stake]
          /\ pc' = "settle" /\ UNCHANGED <<year, stat>>
      BY <2>2, <2>5 DEF info, list
    <3>2. ers' \in ErsType
      BY <2>1, <2>3, <2>4, <3>1 DEF ErsType
    <3> QED
      BY <1>1, <1>10, <3>1, <3>2 DEF TypeOK, SettleLists
  <2>6. CASE list # 0
    <3>1. /\ ers' = Rotated([ers EXCEPT !.curVer = list, !.reward = info], info, list)
          /\ year' = YearOf[info] /\ pc' = AfterSettle
          /\ stat' = [reward |-> info, rates |-> RatesWith(YearOf[info])]
      BY <2>2, <2>6 DEF info, list
    <3>2. ers' \in ErsType
      BY <2>1, <2>3, <2>4, <3>1 DEF ErsType, Rewards, Rotated
    <3>3. RatesWith(YearOf[info]) \in Seq(Nat)
      BY <2>1, <2>4 DEF StatType, RatesWith
    <3>4. stat' \in StatType
      BY <2>1, <3>1, <3>3 DEF StatType
    <3>5. pc' \in {"consensus", "publish"} /\ year' \in Nat
      BY <2>1, <3>1 DEF AfterSettle
    <3> QED
      BY <1>1, <1>10, <3>2, <3>4, <3>5 DEF TypeOK, SettleLists
  <2> QED
    BY <2>5, <2>6
<1>11. CASE SettleFail
  <2>1. ers' \in ErsType
    <3>1. \A h \in NodeHeads : CurrentList(blk, SettlePeriod, h) \in Lists
      BY <1>1, Periods, AnswersTyped
    <3>2. ers \in ErsType
      BY <1>1 DEF TypeOK
    <3>3. ASSUME NEW l \in Lists PROVE [ers EXCEPT !.curVer = l] \in ErsType
      BY <3>2 DEF ErsType
    <3> QED
      BY <1>11, <3>1, <3>2, <3>3 DEF SettleFail
  <2>2. fails' \in 0..MaxFail
    BY <1>1, <1>11, EpochBounds DEF TypeOK, SettleFail
  <2> QED
    BY <1>1, <1>11, <2>1, <2>2 DEF TypeOK, SettleFail
<1>12. CASE ConsensusLists
  <2>1. PICK h \in NodeHeads :
          ers' = [ers EXCEPT !.curVal = CurrentList(blk, ConsensusPeriod, h)]
    BY <1>12 DEF ConsensusLists
  <2>2. CurrentList(blk, ConsensusPeriod, h) \in Lists
    BY <1>1, Periods, AnswersTyped
  <2>3. ers' \in ErsType
    BY <1>1, <2>1, <2>2 DEF TypeOK, ErsType
  <2>4. pc' \in {"consensus", "ready", "record"}
    BY <1>12 DEF ConsensusLists, AfterConsensus
  <2> QED
    BY <1>1, <1>12, <2>3, <2>4 DEF TypeOK, ConsensusLists
<1>13. CASE ConsensusFail
  <2>1. fails' \in 0..MaxFail
    BY <1>1, <1>13, EpochBounds DEF TypeOK, ConsensusFail
  <2> QED
    BY <1>1, <1>13, <2>1 DEF TypeOK, ConsensusFail
<1>14. CASE Record
  <2>0. pc = "record"
    BY <1>14 DEF Record
  <2>1. KnownMax = Len(blockNode) /\ Len(blockNode) \in Nat
    BY <2>0, KnownMaxIsLen
  <2>2. CASE Missing
    <3>1. Len(blockNode) + 1 =< Epoch(MaxBlock, ConsensusPeriod)
          /\ Epoch(MaxBlock, ConsensusPeriod) \in Nat
      BY <2>0, <2>2, RecordStep
    <3>2. ers.curVal \in Lists \ {0}
      BY <1>1, <2>0 DEF SwitchInv, ThreadInv, TypeOK, ErsType
    <3>3. [num |-> KnownMax + 1, list |-> ers.curVal]
            \in [num : 1..Epoch(MaxBlock, ConsensusPeriod), list : Lists \ {0}]
      BY <2>1, <3>1, <3>2
    <3>4. blockNode' \in Seq([num : 1..Epoch(MaxBlock, ConsensusPeriod), list : Lists \ {0}])
      <4>1. blockNode' = Append(blockNode, [num |-> KnownMax + 1, list |-> ers.curVal])
        BY <1>14, <2>2 DEF Record
      <4>2. blockNode \in Seq([num : 1..Epoch(MaxBlock, ConsensusPeriod), list : Lists \ {0}])
        BY <1>1 DEF TypeOK
      <4> QED
        BY <3>3, <4>1, <4>2, AppendStep
    <3>5. maxNum' \in -1..Epoch(MaxBlock, ConsensusPeriod)
      BY <1>14, <2>1, <2>2, <3>1 DEF Record
    <3> QED
      BY <1>1, <1>14, <3>4, <3>5 DEF TypeOK, Record
  <2>3. CASE ~Missing
    <3>1. maxNum' \in -1..Epoch(MaxBlock, ConsensusPeriod)
      <4>1. Len(blockNode) =< Epoch(MaxBlock, ConsensusPeriod)
            /\ Epoch(MaxBlock, ConsensusPeriod) \in Nat
        BY TableInBounds
      <4> QED
        BY <1>14, <2>1, <2>3, <4>1 DEF Record
    <3> QED
      BY <1>1, <1>14, <2>3, <3>1 DEF TypeOK, Record
  <2> QED
    BY <2>2, <2>3
<1>15. CASE RecordFail
  <2>0. pc = "record"
    BY <1>15 DEF RecordFail
  <2>1. KnownMax = Len(blockNode) /\ Len(blockNode) \in Nat
    BY <2>0, KnownMaxIsLen
  <2>2. Missing => Len(blockNode) + 1 =< Epoch(MaxBlock, ConsensusPeriod)
    BY <2>0, RecordStep
  <2>3. Len(blockNode) =< Epoch(MaxBlock, ConsensusPeriod)
        /\ Epoch(MaxBlock, ConsensusPeriod) \in Nat
    BY TableInBounds
  <2>4. KnownMax \in -1..Epoch(MaxBlock, ConsensusPeriod)
    BY <2>1, <2>3
  <2>5. (IF Missing THEN KnownMax + 1 ELSE KnownMax) \in -1..Epoch(MaxBlock, ConsensusPeriod)
    BY <2>1, <2>2, <2>3, <2>4
  <2>6. maxNum' \in -1..Epoch(MaxBlock, ConsensusPeriod)
    BY <1>1, <1>15, <2>4, <2>5 DEF RecordFail, TypeOK
  <2>7. fails' \in 0..MaxFail
    BY <1>1, <1>15, EpochBounds DEF TypeOK, RecordFail
  <2> QED
    BY <1>1, <1>15, <2>6, <2>7 DEF TypeOK, RecordFail
<1>16. CASE Publish
  <2>1. blk \in Blocks
    BY <1>1, <1>16 DEF SwitchInv, ThreadInv, Publish, TypeOK, Blocks, Heights
  <2>2. [blk |-> blk, ers |-> ers, stat |-> stat] \in [blk : Blocks, ers : ErsType, stat : StatType]
    BY <1>1, <2>1 DEF TypeOK
  <2>3. msgs' \in Seq([blk : Blocks, ers : ErsType, stat : StatType])
    BY <1>1, <1>16, <2>2 DEF TypeOK, Publish
  <2> QED
    BY <1>1, <1>16, <2>3 DEF TypeOK, Publish
<1>17. CASE Commit
  <2>1. msgs # <<>> /\ msgs' = Tail(msgs)
    BY <1>17 DEF Commit
  <2>2. /\ Head(msgs) \in [blk : Blocks, ers : ErsType, stat : StatType]
        /\ msgs' \in Seq([blk : Blocks, ers : ErsType, stat : StatType])
    <3>1. msgs \in Seq([blk : Blocks, ers : ErsType, stat : StatType])
      BY <1>1 DEF TypeOK
    <3> QED
      BY <2>1, <3>1, TailStep
  <2>3. db' \in [made : BOOLEAN, cur : Heights, reward : Lists, rates : Seq(Nat)]
    <3>1. CASE Head(msgs).blk = 0
      BY <1>1, <1>17, <3>1 DEF TypeOK, Commit
    <3>2. CASE Head(msgs).blk # 0
      <4>1. PICK r \in {Head(msgs).stat.reward, stat.reward},
                 s \in {Head(msgs).stat.rates, stat.rates} :
              db' = [db EXCEPT !.cur = Head(msgs).blk, !.reward = r, !.rates = s]
        BY <1>17, <3>2 DEF Commit
      <4>2. r \in Lists /\ s \in Seq(Nat)
        BY <1>1, <2>2 DEF TypeOK, StatType
      <4>3. Head(msgs).blk \in Heights
        BY <2>2 DEF Blocks, Heights
      <4> QED
        BY <1>1, <4>1, <4>2, <4>3 DEF TypeOK
    <3> QED
      BY <3>1, <3>2
  <2> QED
    BY <1>1, <1>17, <2>2, <2>3 DEF TypeOK, Commit
<1> QED
  BY <1>2, <1>3, <1>4, <1>5, <1>6, <1>7, <1>8, <1>9, <1>10, <1>11, <1>12, <1>13, <1>14, <1>15,
     <1>16, <1>17 DEF Next, Main, Settle, Consensus

\* A message is typed.
LEMMA MessageTyped ==
  ASSUME TypeOK, NEW j \in DOMAIN msgs
  PROVE  msgs[j] \in [blk : Blocks, ers : ErsType, stat : StatType] /\ msgs[j].blk \in Int
<1>1. msgs \in Seq([blk : Blocks, ers : ErsType, stat : StatType])
  BY DEF TypeOK
<1>2. msgs[j] \in [blk : Blocks, ers : ErsType, stat : StatType]
  BY <1>1, ElementTyped
<1> QED
  BY <1>2 DEF Blocks

\* The messages after a step, as far as their blocks go.
LEMMA MessagesStep ==
  ASSUME TypeOK, [Next]_vars, NEW i \in DOMAIN msgs'
  PROVE  \/ \E j \in DOMAIN msgs : msgs'[i] = msgs[j]
         \/ Publish /\ msgs'[i] = [blk |-> blk, ers |-> ers, stat |-> stat]
<1>0. msgs \in Seq([blk : Blocks, ers : ErsType, stat : StatType])
  BY DEF TypeOK
<1>1. CASE Publish
  <2>1. msgs' = Append(msgs, [blk |-> blk, ers |-> ers, stat |-> stat])
    BY <1>1 DEF Publish
  <2>2. DOMAIN msgs = 1..Len(msgs) /\ Len(msgs) \in Nat
    BY <1>0
  <2>3. CASE i \in DOMAIN msgs
    BY <1>0, <2>1, <2>3
  <2>4. CASE i \notin DOMAIN msgs
    BY <1>0, <1>1, <2>1, <2>2, <2>4
  <2> QED
    BY <2>3, <2>4
<1>2. CASE Commit
  <2>1. msgs # <<>> /\ msgs' = Tail(msgs)
    BY <1>2 DEF Commit
  <2> QED
    BY <1>0, <2>1, TailStep
<1>3. CASE Crash
  BY <1>3 DEF Crash
<1>4. CASE UNCHANGED msgs
  BY <1>4
<1> QED
  BY <1>1, <1>2, <1>3, <1>4 DEF Next, vars, memory, ChainGrow, Main, Start, InitDone, Request, Settle,
     SettleBegin, SettleLists, Consensus, ConsensusBegin, ConsensusLists, Record, SettleFail,
     ConsensusFail, RecordFail

\* A block of the chain stays one.
LEMMA HeadGrows ==
  ASSUME TypeOK, [Next]_vars
  PROVE  chainHead \in Nat \ {0} /\ chainHead' \in Nat /\ chainHead =< chainHead'
<1>1. chainHead \in Nat \ {0}
  BY EpochBounds DEF TypeOK, Blocks
<1>2. chainHead' = chainHead \/ chainHead' = chainHead + 1
  BY DEF Next, vars, ChainGrow, Crash, Main, Start, InitDone, Request, Settle, SettleBegin,
     SettleLists, Consensus, ConsensusBegin, ConsensusLists, Record, Publish, Commit, SettleFail,
     ConsensusFail, RecordFail
<1> QED
  BY <1>1, <1>2

\* Where the main thread is, action by action.
LEMMA ThreadKept == SwitchInv /\ [Next]_vars => ThreadInv'
<1> SUFFICES ASSUME SwitchInv, [Next]_vars PROVE ThreadInv'
  OBVIOUS
<1>1. TypeOK /\ ThreadInv
  BY DEF SwitchInv
<1>2. /\ blk \in Int /\ db.cur \in Int
      /\ chainHead \in Nat \ {0} /\ chainHead' \in Nat /\ chainHead =< chainHead'
  BY <1>1, HeadGrows DEF TypeOK, Heights
<1>3. \A i \in DOMAIN msgs' : msgs'[i].blk =< chainHead'
  <2> SUFFICES ASSUME NEW i \in DOMAIN msgs' PROVE msgs'[i].blk =< chainHead'
    OBVIOUS
  <2>1. CASE \E j \in DOMAIN msgs : msgs'[i] = msgs[j]
    <3>1. PICK j \in DOMAIN msgs : msgs'[i] = msgs[j]
      BY <2>1
    <3>2. msgs[j].blk \in Int /\ msgs[j].blk =< chainHead
      <4>1. msgs[j].blk \in Int
        BY <1>1, MessageTyped
      <4> QED
        BY <1>1, <4>1 DEF ThreadInv
    <3> QED
      BY <1>2, <3>1, <3>2
  <2>2. CASE msgs'[i] = [blk |-> blk, ers |-> ers, stat |-> stat]
    BY <1>1, <1>2, <2>2 DEF ThreadInv
  <2> QED
    BY <1>1, <2>1, <2>2, MessagesStep
<1>4. CASE UNCHANGED vars
  BY <1>1, <1>4 DEF ThreadInv, vars, memory
<1>5. CASE ChainGrow
  BY <1>1, <1>2, <1>3, <1>5 DEF ThreadInv, ChainGrow, memory
<1>6. CASE Crash
  BY <1>1, <1>2, <1>3, <1>6 DEF ThreadInv, Crash
<1>7. CASE Start
  BY <1>1, <1>3, <1>7 DEF ThreadInv, Start
<1>8. CASE InitDone
  <2>1. db'.cur \in {db.cur, -1}
    BY <1>8 DEF InitDone
  <2>2. chainHead' >= 1
    BY <1>1, <1>2, <1>8 DEF TypeOK, Blocks, InitDone
  <2> QED
    BY <1>1, <1>2, <1>3, <1>8, <2>1, <2>2 DEF ThreadInv, InitDone
<1>9. CASE Request
  BY <1>1, <1>2, <1>3, <1>9 DEF ThreadInv, Request, TypeOK, Heights
<1>10. CASE SettleBegin
  BY <1>1, <1>2, <1>3, <1>10 DEF ThreadInv, SettleBegin
<1>11. CASE SettleLists
  BY <1>1, <1>2, <1>3, <1>11 DEF ThreadInv, SettleLists, AfterSettle
<1>12. CASE SettleFail
  BY <1>1, <1>2, <1>3, <1>12 DEF ThreadInv, SettleFail
<1>13. CASE ConsensusBegin
  BY <1>1, <1>2, <1>3, <1>13 DEF ThreadInv, ConsensusBegin
<1>14. CASE ConsensusLists
  BY <1>1, <1>2, <1>3, <1>14 DEF ThreadInv, ConsensusLists, AfterConsensus, TypeOK, ErsType
<1>15. CASE ConsensusFail
  BY <1>1, <1>2, <1>3, <1>15 DEF ThreadInv, ConsensusFail
<1>16. CASE Record
  BY <1>1, <1>2, <1>3, <1>16 DEF ThreadInv, Record
<1>17. CASE RecordFail
  BY <1>1, <1>2, <1>3, <1>17 DEF ThreadInv, RecordFail
<1>18. CASE Publish
  BY <1>1, <1>2, <1>3, <1>18 DEF ThreadInv, Publish
<1>19. CASE Commit
  <2>1. msgs # <<>> /\ Head(msgs).blk =< chainHead
    <3>1. msgs # <<>> /\ msgs \in Seq([blk : Blocks, ers : ErsType, stat : StatType])
      BY <1>1, <1>19 DEF TypeOK, Commit
    <3> QED
      BY <1>1, <3>1, TailStep DEF ThreadInv
  <2>2. db'.cur =< chainHead
    BY <1>1, <1>2, <1>19, <2>1 DEF Commit, ThreadInv, TypeOK
  <2> QED
    BY <1>1, <1>2, <1>3, <1>19, <2>1, <2>2 DEF ThreadInv, Commit
<1> QED
  BY <1>4, <1>5, <1>6, <1>7, <1>8, <1>9, <1>10, <1>11, <1>12, <1>13, <1>14, <1>15, <1>16, <1>17,
     <1>18, <1>19 DEF Next, Main, Settle, Consensus

\* What has been recorded stays recorded.
LEMMA RecordedStays ==
  ASSUME SwitchInv, [Next]_vars
  PROVE  /\ Len(blockNode) \in Nat /\ Len(blockNode') \in Nat /\ Len(blockNode) =< Len(blockNode')
         /\ \A b \in Int : Epoch(b, ConsensusPeriod) \in Nat /\ (Recorded(b) => Recorded(b)')
<1>1. Len(blockNode) \in Nat
  BY DEF SwitchInv, TypeOK
<1>2. Len(blockNode') \in Nat /\ Len(blockNode) =< Len(blockNode')
  <2>1. CASE UNCHANGED blockNode
    BY <1>1, <2>1
  <2>2. CASE Record
    <3>1. \/ UNCHANGED blockNode
          \/ blockNode' = Append(blockNode, [num |-> KnownMax + 1, list |-> ers.curVal])
      BY <2>2 DEF Record
    <3>2. blockNode' = Append(blockNode, [num |-> KnownMax + 1, list |-> ers.curVal])
            => Len(blockNode') = Len(blockNode) + 1
      BY DEF SwitchInv, TypeOK
    <3> QED
      BY <1>1, <3>1, <3>2
  <2> QED
    BY <2>1, <2>2 DEF Next, vars, ChainGrow, Crash, Main, Start, InitDone, Request, Settle,
       SettleBegin, SettleLists, Consensus, ConsensusBegin, ConsensusLists, Publish, Commit,
       SettleFail, ConsensusFail, RecordFail
<1>3. ASSUME NEW b \in Int PROVE Epoch(b, ConsensusPeriod) \in Nat
  BY Periods, EpochMono
<1> QED
  BY <1>1, <1>2, <1>3 DEF Recorded

\* The table block_node, action by action.
LEMMA RecordKept == SwitchInv /\ [Next]_vars => RecordInv'
<1> SUFFICES ASSUME SwitchInv, [Next]_vars PROVE RecordInv'
  OBVIOUS
<1>1. TypeOK /\ ThreadInv /\ RecordInv
  BY DEF SwitchInv
<1>2. blk \in Heights /\ blk \in Int /\ db.cur \in Int
  BY <1>1 DEF TypeOK, Heights
<1>3. Len(blockNode) \in Nat /\ Len(blockNode') \in Nat /\ Len(blockNode) =< Len(blockNode')
  BY RecordedStays
<1>4. /\ \A b \in Int : Epoch(b, ConsensusPeriod) \in Nat
      /\ \A b \in Int : Recorded(b) => Recorded(b)'
  BY RecordedStays
<1>5. pc = "publish" => Recorded(blk)
  BY <1>1 DEF RecordInv
<1>6. \A i \in DOMAIN msgs' : Len(blockNode') >= Epoch(msgs'[i].blk, ConsensusPeriod)
  <2> SUFFICES ASSUME NEW i \in DOMAIN msgs' PROVE Len(blockNode') >= Epoch(msgs'[i].blk, ConsensusPeriod)
    OBVIOUS
  <2>1. CASE \E j \in DOMAIN msgs : msgs'[i] = msgs[j]
    <3>1. PICK j \in DOMAIN msgs : msgs'[i] = msgs[j]
      BY <2>1
    <3>2. Len(blockNode) >= Epoch(msgs[j].blk, ConsensusPeriod) /\ msgs[j].blk \in Int
      <4>1. msgs[j].blk \in Int
        BY <1>1, MessageTyped
      <4> QED
        BY <1>1, <4>1 DEF RecordInv, Recorded
    <3> QED
      BY <1>3, <1>4, <3>1, <3>2 DEF Recorded
  <2>2. CASE Publish /\ msgs'[i] = [blk |-> blk, ers |-> ers, stat |-> stat]
    <3>1. Len(blockNode) >= Epoch(blk, ConsensusPeriod) /\ msgs'[i].blk = blk
      BY <1>5, <2>2 DEF Recorded, Publish
    <3> QED
      BY <1>2, <1>3, <1>4, <3>1 DEF Recorded
  <2> QED
    BY <1>1, <2>1, <2>2, MessagesStep
<1>7. Epoch(chainHead, ConsensusPeriod) =< Epoch(chainHead', ConsensusPeriod)
      /\ Epoch(chainHead, ConsensusPeriod) \in Nat /\ Epoch(chainHead', ConsensusPeriod) \in Nat
  BY <1>1, HeadGrows, Periods, EpochMono
<1>8. /\ \A i \in DOMAIN blockNode' : blockNode'[i].num = i
      /\ Len(blockNode') =< Epoch(chainHead', ConsensusPeriod)
  <2>1. CASE Record /\ Missing
    <3>1. KnownMax = Len(blockNode) /\ pc = "record"
      BY <2>1, KnownMaxIsLen DEF Record
    <3>2. Len(blockNode) + 1 =< Epoch(chainHead, ConsensusPeriod)
      BY <1>3, <2>1, <3>1, RecordStep
    <3>3. blockNode' = Append(blockNode, [num |-> Len(blockNode) + 1, list |-> ers.curVal])
      BY <2>1, <3>1 DEF Record
    <3>4. Len(blockNode') = Len(blockNode) + 1
      BY <1>1, <3>3 DEF TypeOK
    <3>5. \A i \in DOMAIN blockNode' : blockNode'[i].num = i
      <4> SUFFICES ASSUME NEW i \in DOMAIN blockNode' PROVE blockNode'[i].num = i
        OBVIOUS
      <4>1. blockNode \in Seq([num : 1..Epoch(MaxBlock, ConsensusPeriod), list : Lists \ {0}])
        BY <1>1 DEF TypeOK
      <4>2. \/ i = Len(blockNode) + 1
               /\ blockNode'[i] = [num |-> Len(blockNode) + 1, list |-> ers.curVal]
            \/ i \in DOMAIN blockNode /\ blockNode'[i] = blockNode[i]
        BY <3>3, <4>1
      <4> QED
        BY <1>1, <4>2 DEF RecordInv
    <3> QED
      BY <1>3, <1>7, <3>2, <3>4, <3>5
  <2>2. CASE UNCHANGED blockNode
    <3>1. Len(blockNode) =< Epoch(chainHead, ConsensusPeriod)
          /\ \A i \in DOMAIN blockNode : blockNode[i].num = i
      BY <1>1 DEF RecordInv
    <3> QED
      BY <1>3, <1>7, <2>2, <3>1
  <2> QED
    BY <2>1, <2>2 DEF Next, vars, memory, ChainGrow, Crash, Main, Start, InitDone, Request, Settle,
       SettleBegin, SettleLists, Consensus, ConsensusBegin, ConsensusLists, Record, Publish, Commit,
       SettleFail, ConsensusFail, RecordFail
<1>9. Recorded(db.cur)'
  <2>1. CASE UNCHANGED db
    BY <1>1, <1>2, <1>3, <1>4, <2>1 DEF RecordInv, Recorded
  <2>2. CASE Commit
    <3>1. msgs # <<>> /\ 1 \in DOMAIN msgs /\ msgs[1] = Head(msgs)
      <4>1. msgs # <<>> /\ msgs \in Seq([blk : Blocks, ers : ErsType, stat : StatType])
        BY <1>1, <2>2 DEF TypeOK, Commit
      <4> QED
        BY <4>1, TailStep
    <3>2. Len(blockNode) >= Epoch(Head(msgs).blk, ConsensusPeriod) /\ Head(msgs).blk \in Int
      BY <1>1, <3>1, MessageTyped DEF RecordInv, Recorded
    <3>3. db'.cur = Head(msgs).blk \/ UNCHANGED db
      BY <1>1, <2>2 DEF Commit, TypeOK
    <3> QED
      BY <1>3, <1>4, <2>1, <3>2, <3>3 DEF Recorded
  <2>3. CASE InitDone
    <3>1. UNCHANGED db \/ db'.cur = -1
      BY <2>3 DEF InitDone
    <3>2. Epoch(-1, ConsensusPeriod) = 0
      BY DEF Epoch
    <3> QED
      BY <1>3, <2>1, <3>1, <3>2 DEF Recorded
  <2> QED
    BY <2>1, <2>2, <2>3 DEF Next, vars, ChainGrow, Crash, Main, Start, Request, Settle,
       SettleBegin, SettleLists, Consensus, ConsensusBegin, ConsensusLists, Record, Publish,
       SettleFail, ConsensusFail, RecordFail
<1>10. pc' # "stopped" => maxNum' \in {-1, Len(blockNode')}
  <2>1. CASE Record
    <3>1. KnownMax = Len(blockNode)
      BY <2>1, KnownMaxIsLen DEF Record
    <3>2. blockNode' = Append(blockNode, [num |-> KnownMax + 1, list |-> ers.curVal])
            => Len(blockNode') = Len(blockNode) + 1
      BY <1>1 DEF TypeOK
    <3> QED
      BY <2>1, <3>1, <3>2 DEF Record
  <2>2. CASE UNCHANGED <<blockNode, maxNum>> /\ (pc = "stopped" => pc' = "stopped")
    BY <1>1, <2>2 DEF RecordInv
  <2>3. CASE Crash \/ RecordFail
    BY <2>3 DEF Crash, RecordFail
  <2> QED
    BY <2>1, <2>2, <2>3 DEF Next, vars, memory, ChainGrow, Main, Start, InitDone, Request, Settle,
       SettleBegin, SettleLists, Consensus, ConsensusBegin, ConsensusLists, Publish, Commit,
       SettleFail, ConsensusFail
<1>11. pc' \notin {"down", "stopped"} =>
         IF booting' \/ pc' \in {"next", "publish"} \/ ~Opens(blk', ConsensusPeriod)
         THEN Recorded(blk)' ELSE Recorded(blk - 1)'
  <2> DEFINE Done == IF booting \/ pc \in {"next", "publish"} \/ ~Opens(blk, ConsensusPeriod)
                     THEN Recorded(blk) ELSE Recorded(blk - 1)
  <2>0. pc \notin {"down", "stopped"} => Done
    BY <1>1 DEF RecordInv
  <2>1. CASE /\ UNCHANGED <<blk, booting, blockNode>>
             /\ pc \notin {"down", "stopped", "next", "publish"}
             /\ pc' \notin {"next", "publish"}
    BY <2>0, <2>1 DEF Recorded
  <2>2. CASE UNCHANGED <<blk, booting, blockNode, pc>>
    BY <2>0, <2>2 DEF Recorded
  <2>3. CASE Crash \/ RecordFail
    BY <2>3 DEF Crash, RecordFail
  <2>4. CASE Start
    BY <1>1, <2>4 DEF RecordInv, Start, Recorded
  <2>5. CASE InitDone
    BY <1>1, <2>0, <2>5 DEF InitDone, Recorded, ThreadInv
  <2>6. CASE Request
    <3>1. Recorded(blk) /\ blk' = blk + 1 /\ UNCHANGED blockNode
      BY <2>0, <2>6 DEF Request
    <3>2. CASE Opens(blk', ConsensusPeriod)
      <4>1. pc' \in {"settle", "consensus"} /\ UNCHANGED booting /\ ~booting
        BY <1>1, <2>6, <3>2 DEF Request, ThreadInv
      <4>2. blk' - 1 = blk
        BY <1>2, <3>1
      <4> QED
        BY <3>1, <3>2, <4>1, <4>2 DEF Recorded
    <3>3. CASE ~Opens(blk', ConsensusPeriod)
      <4>1. Epoch(blk', ConsensusPeriod) = Epoch(blk, ConsensusPeriod)
        BY <1>2, <3>1, <3>3, Periods, EpochSame
      <4> QED
        BY <3>1, <3>3, <4>1 DEF Recorded
    <3> QED
      BY <3>2, <3>3
  <2>7. CASE SettleLists
    <3>1. UNCHANGED <<blk, booting, blockNode>> /\ pc = "settleLists"
          /\ (pc' = "settle" \/ pc' = AfterSettle)
      BY <2>7 DEF SettleLists
    <3> QED
      BY <2>0, <3>1 DEF AfterSettle, Recorded
  <2>8. CASE Record
    <3>1. pc = "record" /\ UNCHANGED <<blk, booting>> /\ pc' = "publish"
      BY <2>8 DEF Record
    <3>2. CASE Missing
      <4>1. Len(blockNode) + 1 = Epoch(blk, ConsensusPeriod)
        BY <3>1, <3>2, RecordStep
      <4>2. Len(blockNode') = Len(blockNode) + 1
        <5>1. blockNode' = Append(blockNode, [num |-> KnownMax + 1, list |-> ers.curVal])
          BY <2>8, <3>2 DEF Record
        <5> QED
          BY <1>1, <5>1 DEF TypeOK
      <4> QED
        BY <1>3, <3>1, <4>1, <4>2 DEF Recorded
    <3>3. CASE ~Missing
      BY <1>2, <1>4, <3>1, <3>3, RecordStep DEF Recorded
    <3> QED
      BY <3>2, <3>3
  <2>9. CASE Publish
    BY <1>5, <2>9 DEF Publish, Recorded
  <2> HIDE DEF Done
  <2> QED
    BY <2>1, <2>2, <2>3, <2>4, <2>5, <2>6, <2>7, <2>8, <2>9 DEF Next, vars, memory, ChainGrow, Main,
       Settle, SettleBegin, Consensus, ConsensusBegin, ConsensusLists, AfterConsensus, Commit,
       SettleFail, ConsensusFail
<1> QED
  BY <1>6, <1>8, <1>9, <1>10, <1>11 DEF RecordInv, Recorded

(***************************************************************************)
(* The previous lists and the rewards of a block                           *)
(***************************************************************************)

\* From the request for a previous list to the publication it is the block's;
\* a block that opens no epoch takes over the list of the block before.
PreviousInv ==
  /\ pc \in {"settleLists", "consensus", "consensusLists", "ready", "next", "record", "publish"} =>
       ers.preVer = Before(blk, SettlePeriod)
  /\ (\/ pc \in {"consensusLists", "ready", "next", "record", "publish"}
      \/ pc \in {"settle", "settleLists"} /\ ~booting /\ ~Opens(blk, ConsensusPeriod)) =>
       ers.preVal = Before(blk, ConsensusPeriod)
  /\ PreviousListsExact

\* The rewards of the block's epoch are set when its settlement change is done,
\* and those of the epoch before until then.
RewardInv ==
  /\ pc \in {"consensus", "consensusLists", "ready", "next", "record", "publish"} =>
       ers.reward = Serving(blk, SettlePeriod) /\ ers.stake.info = Serving(blk, SettlePeriod)
  /\ ~booting /\ pc \in {"settle", "settleLists"} =>
       Opens(blk, SettlePeriod)
       /\ (blk > 1 => ers.stake.info = Serving(blk, SettlePeriod) - 1)
  /\ ~booting /\ pc \in {"consensus", "consensusLists", "record", "publish"}
     /\ Opens(blk, SettlePeriod) /\ blk > 1 =>
       ers.preStake.info = Serving(blk, SettlePeriod) - 1
  /\ RewardsOfTheirEpoch

\* The messages after a step.
LEMMA MessageStep ==
  ASSUME TypeOK, [Next]_vars, NEW m \in Messages'
  PROVE  m \in Messages \/ (Publish /\ m = [blk |-> blk, ers |-> ers, stat |-> stat])
<1>1. PICK i \in DOMAIN msgs' : m = msgs'[i]
  BY DEF Messages
<1>2. (\E j \in DOMAIN msgs : m = msgs[j]) => m \in Messages
  BY DEF Messages
<1> QED
  BY <1>1, <1>2, MessagesStep

\* A block in work is a height.
LEMMA BlockFacts ==
  ASSUME TypeOK
  PROVE  /\ blk \in Heights /\ blk \in Int /\ ers \in ErsType
         /\ \A b \in Heights : Serving(b, SettlePeriod) \in Nat
BY Periods, ServingNext DEF TypeOK, Heights

\* The previous lists, action by action.
LEMMA PreviousKept == SwitchInv /\ PreviousInv /\ [Next]_vars => PreviousInv'
<1> SUFFICES ASSUME SwitchInv, PreviousInv, [Next]_vars PROVE PreviousInv'
  OBVIOUS
<1>1. TypeOK /\ ThreadInv /\ blk \in Heights /\ ers \in ErsType
  BY BlockFacts DEF SwitchInv
<1>2. PreviousListsExact'
  <2> SUFFICES ASSUME NEW m \in Messages'
               PROVE  m.ers.preVal = Before(m.blk, ConsensusPeriod)
                      /\ m.ers.preVer = Before(m.blk, SettlePeriod)
    BY DEF PreviousListsExact
  <2>1. CASE m \in Messages
    BY <2>1 DEF PreviousInv, PreviousListsExact
  <2>2. CASE Publish /\ m = [blk |-> blk, ers |-> ers, stat |-> stat]
    BY <2>2 DEF PreviousInv, Publish
  <2> QED
    BY <1>1, <2>1, <2>2, MessageStep
<1>3. CASE UNCHANGED <<pc, blk, booting, ers>>
  BY <1>2, <1>3 DEF PreviousInv
<1>4. CASE Crash \/ Start \/ RecordFail
  BY <1>2, <1>4 DEF PreviousInv, Crash, Start, RecordFail
<1>5. CASE InitDone
  BY <1>2, <1>5 DEF PreviousInv, InitDone
<1>6. CASE Request
  <2>1. /\ pc = "next" /\ blk' = blk + 1 /\ UNCHANGED <<ers, booting>>
        /\ pc' = IF Opens(blk', SettlePeriod) THEN "settle"
                 ELSE IF Opens(blk', ConsensusPeriod) THEN "consensus" ELSE "publish"
    BY <1>6 DEF Request
  <2>2. ers.preVer = Before(blk, SettlePeriod) /\ ers.preVal = Before(blk, ConsensusPeriod)
    BY <2>1 DEF PreviousInv
  <2>3. /\ ~Opens(blk', SettlePeriod) => Before(blk', SettlePeriod) = Before(blk, SettlePeriod)
        /\ ~Opens(blk', ConsensusPeriod) => Before(blk', ConsensusPeriod) = Before(blk, ConsensusPeriod)
    BY <1>1, <2>1, Periods, ServingNext
  <2> QED
    BY <1>2, <2>1, <2>2, <2>3 DEF PreviousInv
<1>7. CASE SettleBegin
  <2>1. /\ pc = "settle" /\ pc' = "settleLists" /\ UNCHANGED <<blk, booting>>
        /\ ers' = [ers EXCEPT !.preVer = PreviousList(ers.curVer, blk, SettlePeriod)]
    BY <1>7 DEF SettleBegin
  <2>2. PreviousList(ers.curVer, blk, SettlePeriod) = Before(blk, SettlePeriod)
    BY <1>1, Periods, PreviousIsBefore
  <2>3. ers'.preVer = Before(blk, SettlePeriod) /\ ers'.preVal = ers.preVal
    BY <1>1, <2>1, <2>2 DEF ErsType
  <2> QED
    BY <1>2, <2>1, <2>3 DEF PreviousInv
<1>8. CASE SettleLists
  <2>1. /\ pc = "settleLists" /\ UNCHANGED <<blk, booting>>
        /\ pc' = "settle" \/ pc' = AfterSettle
    BY <1>8 DEF SettleLists
  <2>2. ers'.preVer = ers.preVer /\ ers'.preVal = ers.preVal
    BY <1>1, <1>8 DEF SettleLists, Rotated, ErsType
  <2> QED
    BY <1>2, <2>1, <2>2 DEF PreviousInv, AfterSettle
<1>9. CASE SettleFail
  <2>1. pc \in {"settle", "settleLists"} /\ pc' = "settle" /\ UNCHANGED <<blk, booting>>
    BY <1>9 DEF SettleFail
  <2>2. ers'.preVer = ers.preVer /\ ers'.preVal = ers.preVal
    BY <1>1, <1>9 DEF SettleFail, ErsType
  <2> QED
    BY <1>2, <2>1, <2>2 DEF PreviousInv
<1>10. CASE ConsensusBegin
  <2>1. /\ pc = "consensus" /\ pc' = "consensusLists" /\ UNCHANGED <<blk, booting>>
        /\ ers' = [ers EXCEPT !.preVal = PreviousList(ers.curVal, blk, ConsensusPeriod)]
    BY <1>10 DEF ConsensusBegin
  <2>2. PreviousList(ers.curVal, blk, ConsensusPeriod) = Before(blk, ConsensusPeriod)
    BY <1>1, Periods, PreviousIsBefore
  <2>3. ers'.preVal = Before(blk, ConsensusPeriod) /\ ers'.preVer = ers.preVer
    BY <1>1, <2>1, <2>2 DEF ErsType
  <2> QED
    BY <1>2, <2>1, <2>3 DEF PreviousInv
<1>11. CASE ConsensusLists
  <2>1. /\ pc = "consensusLists" /\ UNCHANGED <<blk, booting>>
        /\ pc' = "consensus" \/ pc' = AfterConsensus
    BY <1>11 DEF ConsensusLists
  <2>2. ers'.preVer = ers.preVer /\ ers'.preVal = ers.preVal
    BY <1>1, <1>11 DEF ConsensusLists, ErsType
  <2> QED
    BY <1>2, <2>1, <2>2 DEF PreviousInv, AfterConsensus
<1>12. CASE ConsensusFail
  <2>1. pc \in {"consensus", "consensusLists"} /\ pc' = "consensus" /\ UNCHANGED <<blk, booting, ers>>
    BY <1>12 DEF ConsensusFail
  <2> QED
    BY <1>2, <2>1 DEF PreviousInv
<1>13. CASE Record \/ Publish
  <2>1. pc \in {"record", "publish"} /\ pc' \in {"publish", "next"} /\ UNCHANGED <<blk, booting, ers>>
    BY <1>13 DEF Record, Publish
  <2> QED
    BY <1>2, <2>1 DEF PreviousInv
<1> QED
  BY <1>3, <1>4, <1>5, <1>6, <1>7, <1>8, <1>9, <1>10, <1>11, <1>12, <1>13 DEF Next, vars, memory, Main,
     Settle, Consensus, ChainGrow, Commit

\* The rewards, action by action.
LEMMA RewardKept == SwitchInv /\ RewardInv /\ [Next]_vars => RewardInv'
<1> SUFFICES ASSUME SwitchInv, RewardInv, [Next]_vars PROVE RewardInv'
  OBVIOUS
<1>1. TypeOK /\ ThreadInv /\ blk \in Heights /\ blk \in Int /\ ers \in ErsType
  BY BlockFacts DEF SwitchInv
<1>2. RewardsOfTheirEpoch'
  <2> SUFFICES ASSUME NEW m \in Messages'
               PROVE  /\ m.ers.reward = Serving(m.blk, SettlePeriod)
                      /\ m.ers.stake.info = Serving(m.blk, SettlePeriod)
                      /\ Opens(m.blk, SettlePeriod) /\ m.blk > 1 =>
                           m.ers.preStake.info = Serving(m.blk, SettlePeriod) - 1
    BY DEF RewardsOfTheirEpoch
  <2>1. CASE m \in Messages
    BY <2>1 DEF RewardInv, RewardsOfTheirEpoch
  <2>2. CASE Publish /\ m = [blk |-> blk, ers |-> ers, stat |-> stat]
    <3>1. m.blk = blk /\ m.ers = ers /\ pc = "publish" /\ ~booting
      BY <1>1, <2>2 DEF Publish, ThreadInv
    <3> QED
      BY <3>1 DEF RewardInv
  <2> QED
    BY <1>1, <2>1, <2>2, MessageStep
<1>3. CASE UNCHANGED <<pc, blk, booting, ers>>
  BY <1>2, <1>3 DEF RewardInv
<1>4. CASE Crash \/ Start \/ RecordFail
  BY <1>2, <1>4 DEF RewardInv, Crash, Start, RecordFail
<1>5. CASE InitDone
  BY <1>2, <1>5 DEF RewardInv, InitDone
<1>6. CASE Request
  <2>1. /\ pc = "next" /\ blk' = blk + 1 /\ UNCHANGED <<ers, booting>>
        /\ pc' = IF Opens(blk', SettlePeriod) THEN "settle"
                 ELSE IF Opens(blk', ConsensusPeriod) THEN "consensus" ELSE "publish"
    BY <1>6 DEF Request
  <2>2. ers.reward = Serving(blk, SettlePeriod) /\ ers.stake.info = Serving(blk, SettlePeriod)
    BY <2>1 DEF RewardInv
  <2>3. /\ ~Opens(blk', SettlePeriod) => Serving(blk', SettlePeriod) = Serving(blk, SettlePeriod)
        /\ Opens(blk', SettlePeriod) /\ blk' > 1 =>
             Serving(blk, SettlePeriod) = Serving(blk', SettlePeriod) - 1
    BY <1>1, <2>1, Periods, ServingNext
  <2> QED
    BY <1>2, <2>1, <2>2, <2>3 DEF RewardInv
<1>7. CASE SettleBegin \/ SettleFail
  <2>1. pc \in {"settle", "settleLists"} /\ pc' \in {"settle", "settleLists"} /\ UNCHANGED <<blk, booting>>
    BY <1>7 DEF SettleBegin, SettleFail
  <2>2. ers'.stake = ers.stake
    BY <1>1, <1>7 DEF SettleBegin, SettleFail, ErsType
  <2> QED
    BY <1>2, <2>1, <2>2 DEF RewardInv
<1>8. CASE SettleLists
  <2> DEFINE info == InfoAt(PreEpochLast(blk, SettlePeriod))
  <2>1. PICK h \in NodeHeads :
          LET list == CurrentList(blk, SettlePeriod, h)
              asked == [ers EXCEPT !.curVer = list, !.reward = info]
          IN IF list = 0
               THEN ers' = [asked EXCEPT !.preStake = ers.stake] /\ pc' = "settle"
               ELSE ers' = Rotated(asked, info, list) /\ pc' = AfterSettle
    BY <1>8 DEF SettleLists
  <2> DEFINE list == CurrentList(blk, SettlePeriod, h)
  <2>2. pc = "settleLists" /\ UNCHANGED <<blk, booting>>
    BY <1>8 DEF SettleLists
  <2>3. info = Serving(blk, SettlePeriod) /\ info \in Lists /\ list \in Lists
    BY <1>1, InfoIsServing, InfoTyped, Periods, AnswersTyped
  <2> HIDE DEF info, list
  <2>4. CASE list = 0
    <3>1. ers' = [[ers EXCEPT !.curVer = list, !.reward = info] EXCEPT !.preStake = ers.stake]
          /\ pc' = "settle"
      BY <2>1, <2>4 DEF list
    <3>2. ers'.stake = ers.stake
      BY <1>1, <2>3, <3>1 DEF ErsType
    <3> QED
      BY <1>2, <2>2, <3>1, <3>2 DEF RewardInv
  <2>5. CASE list # 0
    <3>1. ers' = Rotated([ers EXCEPT !.curVer = list, !.reward = info], info, list)
          /\ pc' = AfterSettle
      BY <2>1, <2>5 DEF list
    <3>2. ers'.reward = info /\ ers'.stake.info = info /\ ers'.preStake = ers.stake
      BY <1>1, <2>3, <3>1 DEF ErsType, Rewards, Rotated
    <3> QED
      BY <1>2, <2>2, <2>3, <3>1, <3>2 DEF RewardInv, AfterSettle
  <2> QED
    BY <2>4, <2>5
<1>9. CASE ConsensusBegin \/ ConsensusLists \/ ConsensusFail \/ Record \/ Publish
  <2>1. /\ pc \in {"consensus", "consensusLists", "record", "publish"}
        /\ pc' \in {"consensus", "consensusLists", "record", "publish", "ready", "next"}
        /\ UNCHANGED <<blk, booting>>
    BY <1>9 DEF ConsensusBegin, ConsensusLists, ConsensusFail, Record, Publish, AfterConsensus
  <2>2. ers'.reward = ers.reward /\ ers'.stake = ers.stake /\ ers'.preStake = ers.preStake
    BY <1>1, <1>9 DEF ConsensusBegin, ConsensusLists, ConsensusFail, Record, Publish, ErsType
  <2> QED
    BY <1>2, <2>1, <2>2 DEF RewardInv
<1> QED
  BY <1>3, <1>4, <1>5, <1>6, <1>7, <1>8, <1>9 DEF Next, vars, memory, Main, Settle, Consensus,
     ChainGrow, Commit

(***************************************************************************)
(* The network_stat row, and the current lists                             *)
(***************************************************************************)

Listed(rates) == {rates[i] : i \in DOMAIN rates}
YearsServed(b) == {YearOf[s] : s \in 1..Serving(b, SettlePeriod)}

\* The settlement change of the block in work is still to do.
Unsettled == ~booting /\ pc \in {"settle", "settleLists"}
Settled == pc \in {"consensus", "consensusLists", "ready", "next", "record", "publish"}

\* The last block whose settlement change the NetworkStat object has been through.
Through == IF Unsettled THEN blk - 1 ELSE blk

\* The object has the rate of every year up to the block in work, the row of every
\* year up to the last committed block, and each message what the object had when
\* it left; neither rates nor rewards are taken back while messages are on their way.
RowInv ==
  /\ db.made \/ (db.cur = -1 /\ (pc = "down" \/ booting))
  /\ db.made => YearsServed(db.cur) \subseteq Listed(db.rates)
  /\ Epoch(db.cur, SettlePeriod) =< db.reward
  /\ db.made /\ pc \notin {"down", "stopped"} => YearsServed(Through) \subseteq Listed(stat.rates)
  /\ Settled => Epoch(blk, SettlePeriod) =< stat.reward
  /\ Settled \/ Unsettled => /\ stat.reward =< Serving(blk, SettlePeriod)
                             /\ year = YearOf[Serving(Through, SettlePeriod)]
  /\ \A m \in Messages :
       /\ YearsServed(m.blk) \subseteq Listed(m.stat.rates)
       /\ Listed(m.stat.rates) \subseteq Listed(stat.rates)
       /\ Epoch(m.blk, SettlePeriod) =< m.stat.reward
       /\ m.stat.reward =< stat.reward

\* Served epochs do not decrease along the chain.
LEMMA ServingMono ==
  ASSUME NEW a \in Int, NEW b \in Int, a =< b, NEW p \in Nat \ {0}
  PROVE  /\ Serving(a, p) \in Nat \ {0} /\ Serving(b, p) \in Nat \ {0}
         /\ Serving(a, p) =< Serving(b, p)
<1>1. Epoch(a, p) \in Nat /\ Epoch(b, p) \in Nat /\ Epoch(a, p) =< Epoch(b, p)
  BY EpochMono
<1>2. (a >= 1 => Epoch(a, p) \in Nat \ {0}) /\ (b >= 1 => Epoch(b, p) \in Nat \ {0})
  BY EpochPositive
<1> QED
  BY <1>1, <1>2 DEF Serving

\* Epochs and the epochs served differ at the genesis block only.
LEMMA EpochServing ==
  ASSUME NEW b \in Int, NEW p \in Nat \ {0}
  PROVE  /\ Epoch(b, p) \in Nat /\ Epoch(b, p) =< Serving(b, p)
         /\ b >= 1 => Epoch(b, p) = Serving(b, p)
BY EpochMono DEF Serving, Epoch

\* The years of the next block: its own, and those of the block before.
LEMMA YearsNext ==
  ASSUME NEW b \in Heights
  PROVE  /\ ~Opens(b + 1, SettlePeriod) => YearsServed(b + 1) = YearsServed(b)
         /\ YearsServed(b + 1) \subseteq YearsServed(b) \cup {YearOf[Serving(b + 1, SettlePeriod)]}
         /\ YearOf[Serving(b, SettlePeriod)] \in YearsServed(b)
<1>1. b \in Int /\ Serving(b, SettlePeriod) \in Nat \ {0} /\ Serving(b + 1, SettlePeriod) \in Nat
  BY Periods, ServingMono DEF Heights
<1>2. /\ ~Opens(b + 1, SettlePeriod) => Serving(b + 1, SettlePeriod) = Serving(b, SettlePeriod)
      /\ Opens(b + 1, SettlePeriod) /\ b >= 1 =>
           Serving(b, SettlePeriod) = Serving(b + 1, SettlePeriod) - 1
  BY Periods, ServingNext
<1>3. ~(b >= 1) => Serving(b + 1, SettlePeriod) = 1
  <2>1. ~(b >= 1) => b + 1 < 1 \/ b + 1 = 1
    BY <1>1
  <2>2. Epoch(1, SettlePeriod) = 1
    <3>1. Epoch(1, SettlePeriod) \in Nat \ {0} /\ Epoch(1, SettlePeriod) =< 1
      BY Periods, EpochPositive
    <3> QED
      BY <3>1
  <2> QED
    BY <1>1, <2>1, <2>2 DEF Serving, Heights
<1>4. Serving(b + 1, SettlePeriod) =< Serving(b, SettlePeriod) + 1
  BY <1>1, <1>2, <1>3
<1> QED
  BY <1>1, <1>2, <1>4 DEF YearsServed

\* A rate that is added leaves the others.
LEMMA RatesGrow ==
  ASSUME TypeOK, NEW y \in Nat
  PROVE  /\ Listed(stat.rates) \subseteq Listed(RatesWith(y))
         /\ year = y \/ year = 0 \/ y \in Listed(RatesWith(y))
<1>1. stat.rates \in Seq(Nat)
  BY DEF TypeOK, StatType
<1>2. PICK q \in Seq(Nat) : q = stat.rates
  BY <1>1
<1>3. DOMAIN q = 1..Len(q) /\ Len(q) \in Nat
  OBVIOUS
<1>4. /\ Append(q, y) \in Seq(Nat) /\ DOMAIN Append(q, y) = 1..(Len(q) + 1)
      /\ Append(q, y)[Len(q) + 1] = y
      /\ \A i \in 1..Len(q) : Append(q, y)[i] = q[i]
  OBVIOUS
<1>5. Listed(q) \subseteq Listed(Append(q, y)) /\ y \in Listed(Append(q, y))
  BY <1>3, <1>4 DEF Listed
<1> QED
  BY <1>2, <1>5 DEF RatesWith

\* While messages are on their way the object loses neither rates nor rewards.
LEMMA StatGrows ==
  ASSUME SwitchInv, RowInv, [Next]_vars
  PROVE  \/ msgs' = <<>>
         \/ Listed(stat.rates) \subseteq Listed(stat'.rates) /\ stat.reward =< stat'.reward
<1>1. TypeOK /\ ThreadInv /\ blk \in Heights
  BY DEF SwitchInv, TypeOK
<1>2. stat.reward \in Nat
  BY <1>1, EpochBounds DEF TypeOK, StatType, Lists
<1>3. CASE UNCHANGED stat
  BY <1>2, <1>3
<1>4. CASE Crash
  BY <1>4 DEF Crash
<1>5. CASE Start
  BY <1>1, <1>5 DEF Start, ThreadInv
<1>6. CASE InitDone
  BY <1>1, <1>6 DEF InitDone, ThreadInv
<1>7. CASE SettleLists
  <2> DEFINE info == InfoAt(PreEpochLast(blk, SettlePeriod))
  <2>1. pc = "settleLists" /\ UNCHANGED msgs
    BY <1>7 DEF SettleLists
  <2>2. UNCHANGED stat \/ stat' = [reward |-> info, rates |-> RatesWith(YearOf[info])]
    BY <1>7 DEF SettleLists
  <2>3. info = Serving(blk, SettlePeriod) /\ YearOf[info] \in Nat
    BY <1>1, InfoIsServing, InfoTyped
  <2>4. ~booting => stat.reward =< Serving(blk, SettlePeriod)
    BY <2>1 DEF RowInv, Unsettled
  <2>5. booting => msgs = <<>>
    BY <1>1 DEF ThreadInv
  <2>6. Listed(stat.rates) \subseteq Listed(RatesWith(YearOf[info]))
    BY <1>1, <2>3, RatesGrow
  <2> HIDE DEF info
  <2> QED
    BY <1>2, <2>1, <2>2, <2>3, <2>4, <2>5, <2>6
<1> QED
  BY <1>3, <1>4, <1>5, <1>6, <1>7 DEF Next, vars, memory, ChainGrow, Main, Request, Settle,
     SettleBegin, Consensus, ConsensusBegin, ConsensusLists, Record, Publish, Commit, SettleFail,
     ConsensusFail, RecordFail

\* What a message carries of the object.
LEMMA RowMessagesKept ==
  ASSUME SwitchInv, RowInv, [Next]_vars, NEW m \in Messages'
  PROVE  /\ YearsServed(m.blk) \subseteq Listed(m.stat.rates)
         /\ Listed(m.stat.rates) \subseteq Listed(stat'.rates)
         /\ Epoch(m.blk, SettlePeriod) =< m.stat.reward
         /\ m.stat.reward =< stat'.reward
<1>1. TypeOK /\ ThreadInv
  BY DEF SwitchInv
<1>2. msgs' # <<>>
  BY DEF Messages
<1>3. Listed(stat.rates) \subseteq Listed(stat'.rates) /\ stat.reward =< stat'.reward
  BY <1>2, StatGrows
<1>4. stat.reward \in Int /\ stat'.reward \in Int
  <2>1. TypeOK'
    BY TypesKept
  <2> QED
    BY <1>1, <2>1, EpochBounds DEF TypeOK, StatType, Lists
<1>5. CASE m \in Messages
  <2>1. m.stat.reward \in Int
    <3>1. PICK j \in DOMAIN msgs : m = msgs[j]
      BY <1>5 DEF Messages
    <3>2. m.stat \in StatType
      BY <1>1, <3>1, MessageTyped
    <3> QED
      BY <3>2, EpochBounds DEF StatType, Lists
  <2>2. /\ YearsServed(m.blk) \subseteq Listed(m.stat.rates)
        /\ Listed(m.stat.rates) \subseteq Listed(stat.rates)
        /\ Epoch(m.blk, SettlePeriod) =< m.stat.reward
        /\ m.stat.reward =< stat.reward
    BY <1>5 DEF RowInv
  <2> QED
    BY <1>3, <1>4, <2>1, <2>2
<1>6. CASE Publish /\ m = [blk |-> blk, ers |-> ers, stat |-> stat]
  <2>1. pc = "publish" /\ m.blk = blk /\ m.stat = stat
    BY <1>6 DEF Publish
  <2>2. ~booting /\ db.made /\ ~Unsettled /\ Settled
    BY <1>1, <2>1 DEF ThreadInv, RowInv, Unsettled, Settled
  <2>3. YearsServed(blk) \subseteq Listed(stat.rates) /\ Epoch(blk, SettlePeriod) =< stat.reward
    BY <2>1, <2>2 DEF RowInv, Through
  <2> QED
    BY <1>3, <1>4, <2>1, <2>3
<1> QED
  BY <1>1, <1>5, <1>6, MessageStep

\* The row and the object, action by action.
LEMMA RowKept == SwitchInv /\ RowInv /\ [Next]_vars => RowInv'
<1> SUFFICES ASSUME SwitchInv, RowInv, [Next]_vars PROVE RowInv'
  OBVIOUS
<1>1. TypeOK /\ ThreadInv /\ blk \in Heights /\ blk \in Int /\ db.cur \in Heights /\ db.cur \in Int
  BY DEF SwitchInv, TypeOK, Heights
<1>2. \A m \in Messages' :
        /\ YearsServed(m.blk) \subseteq Listed(m.stat.rates)
        /\ Listed(m.stat.rates) \subseteq Listed(stat'.rates)
        /\ Epoch(m.blk, SettlePeriod) =< m.stat.reward
        /\ m.stat.reward =< stat'.reward
  BY RowMessagesKept
<1>3. /\ db.made \/ (db.cur = -1 /\ (pc = "down" \/ booting))
      /\ db.made => YearsServed(db.cur) \subseteq Listed(db.rates)
      /\ Epoch(db.cur, SettlePeriod) =< db.reward
  BY DEF RowInv
<1>4. CASE UNCHANGED <<pc, blk, booting, year, stat, db>>
  <2>1. Settled' = Settled /\ Unsettled' = Unsettled /\ Through' = Through
    BY <1>4 DEF Settled, Unsettled, Through
  <2> QED
    BY <1>2, <1>4, <2>1 DEF RowInv
<1>5. CASE Crash
  BY <1>2, <1>3, <1>5 DEF RowInv, Crash, Settled, Unsettled
<1>6. CASE Start
  <2>1. /\ pc' = "settle" /\ booting' = TRUE /\ blk' = db.cur /\ UNCHANGED db
        /\ db.made => stat'.rates = db.rates
    BY <1>6 DEF Start, RowStat
  <2>2. ~Settled' /\ ~Unsettled' /\ Through' = db.cur
    BY <2>1 DEF Settled, Unsettled, Through
  <2> QED
    BY <1>2, <1>3, <2>1, <2>2 DEF RowInv
<1>7. CASE InitDone
  <2>0. pc = "ready" /\ booting /\ blk = db.cur
    BY <1>1, <1>7 DEF InitDone, ThreadInv
  <2>1. pc' = "next" /\ booting' = FALSE /\ UNCHANGED <<blk, year>>
    BY <1>7 DEF InitDone
  <2>2. Settled /\ Settled' /\ ~Unsettled' /\ Through' = blk /\ Through = blk
    BY <2>0, <2>1 DEF Settled, Unsettled, Through
  <2>3. CASE db.made
    BY <1>2, <1>3, <1>7, <2>0, <2>1, <2>2, <2>3 DEF RowInv, InitDone
  <2>4. CASE ~db.made
    <3>1. /\ db' = [made |-> TRUE, cur |-> -1, reward |-> 0, rates |-> <<YearOf[1]>>]
          /\ stat' = [reward |-> 0, rates |-> <<YearOf[1]>>]
      BY <1>7, <2>4 DEF InitDone
    <3>2. blk = -1
      BY <1>3, <2>0, <2>4
    <3>3. Serving(-1, SettlePeriod) = 1 /\ Epoch(-1, SettlePeriod) = 0
      BY DEF Serving, Epoch
    <3>4. YearsServed(-1) \subseteq Listed(<<YearOf[1]>>)
      <4>1. YearsServed(-1) = {YearOf[1]}
        BY <3>3 DEF YearsServed
      <4>2. YearOf[1] \in Listed(<<YearOf[1]>>)
        BY DEF Listed
      <4> QED
        BY <4>1, <4>2
    <3>5. year = YearOf[Serving(-1, SettlePeriod)]
      BY <2>2, <3>2 DEF RowInv
    <3> QED
      BY <1>2, <2>1, <2>2, <3>1, <3>2, <3>3, <3>4, <3>5 DEF RowInv
  <2> QED
    BY <2>3, <2>4
<1>8. CASE Request
  <2>1. /\ pc = "next" /\ blk' = blk + 1 /\ UNCHANGED <<booting, year, stat, db>> /\ ~booting
        /\ pc' = IF Opens(blk', SettlePeriod) THEN "settle"
                 ELSE IF Opens(blk', ConsensusPeriod) THEN "consensus" ELSE "publish"
    BY <1>1, <1>8 DEF Request, ThreadInv
  <2>2. /\ Settled /\ ~Unsettled /\ Through = blk
        /\ (Settled' <=> ~Opens(blk', SettlePeriod)) /\ (Unsettled' <=> Opens(blk', SettlePeriod))
        /\ Through' = IF Opens(blk', SettlePeriod) THEN blk' - 1 ELSE blk'
    BY <2>1 DEF Settled, Unsettled, Through
  <2>3. db.made /\ YearsServed(blk) \subseteq Listed(stat.rates)
    BY <2>1, <2>2 DEF RowInv
  <2>4. /\ Epoch(blk, SettlePeriod) =< stat.reward /\ stat.reward =< Serving(blk, SettlePeriod)
        /\ year = YearOf[Serving(blk, SettlePeriod)]
    BY <2>2 DEF RowInv
  <2>5. stat.reward \in Int
    BY <1>1, EpochBounds DEF TypeOK, StatType, Lists
  <2>6. /\ Serving(blk, SettlePeriod) \in Nat /\ Serving(blk', SettlePeriod) \in Nat
        /\ Serving(blk, SettlePeriod) =< Serving(blk', SettlePeriod)
    BY <1>1, <2>1, Periods, ServingMono
  <2>7. CASE Opens(blk', SettlePeriod)
    <3>1. Through' = blk /\ ~Settled'
      BY <1>1, <2>1, <2>2, <2>7
    <3>2. stat.reward =< Serving(blk', SettlePeriod)
      BY <2>4, <2>5, <2>6
    <3> QED
      BY <1>2, <1>3, <2>1, <2>3, <2>4, <3>1, <3>2 DEF RowInv
  <2>8. CASE ~Opens(blk', SettlePeriod)
    <3>1. Through' = blk' /\ ~Unsettled'
      BY <2>2, <2>8
    <3>2. /\ YearsServed(blk') = YearsServed(blk)
          /\ Serving(blk', SettlePeriod) = Serving(blk, SettlePeriod)
      BY <1>1, <2>1, <2>8, YearsNext, ServingNext, Periods
    <3>3. Epoch(blk', SettlePeriod) =< stat.reward
      <4>1. CASE blk >= 1
        <5>1. Epoch(blk', SettlePeriod) = Serving(blk, SettlePeriod)
              /\ Epoch(blk, SettlePeriod) = Serving(blk, SettlePeriod)
          BY <1>1, <2>1, <3>2, <4>1, Periods, EpochServing
        <5> QED
          BY <2>4, <5>1
      <4>2. CASE blk' =< 0
        <5>1. Epoch(blk', SettlePeriod) = 0 /\ Epoch(blk, SettlePeriod) = 0
          BY <1>1, <2>1, <4>2 DEF Epoch
        <5> QED
          BY <2>4, <5>1
      <4>3. CASE blk = 0
        <5>1. 0 % SettlePeriod = 0
          BY Periods, Z3
        <5>2. Opens(blk', SettlePeriod)
          BY <2>1, <4>3, <5>1 DEF Opens
        <5> QED
          BY <2>8, <5>2
      <4> QED
        BY <1>1, <2>1, <4>1, <4>2, <4>3
    <3> QED
      BY <1>2, <1>3, <2>1, <2>3, <2>4, <3>1, <3>2, <3>3 DEF RowInv
  <2> QED
    BY <2>7, <2>8
<1>9. CASE SettleBegin \/ SettleFail
  <2>1. /\ pc \in {"settle", "settleLists"} /\ pc' \in {"settle", "settleLists"}
        /\ UNCHANGED <<blk, booting, year, stat, db>>
    BY <1>9 DEF SettleBegin, SettleFail
  <2>2. ~Settled /\ ~Settled' /\ Unsettled' = Unsettled /\ Through' = Through
    BY <2>1 DEF Settled, Unsettled, Through
  <2> QED
    BY <1>2, <1>3, <2>1, <2>2 DEF RowInv
<1>10. CASE SettleLists
  <2> DEFINE info == InfoAt(PreEpochLast(blk, SettlePeriod))
  <2>1. /\ pc = "settleLists" /\ UNCHANGED <<blk, booting, db>>
        /\ \/ pc' = "settle" /\ UNCHANGED <<year, stat>>
           \/ /\ pc' = AfterSettle /\ year' = YearOf[info]
              /\ stat' = [reward |-> info, rates |-> RatesWith(YearOf[info])]
    BY <1>10 DEF SettleLists
  <2>2. info = Serving(blk, SettlePeriod) /\ YearOf[info] \in Nat
    BY <1>1, InfoIsServing, InfoTyped
  <2> HIDE DEF info
  <2>3. CASE pc' = "settle" /\ UNCHANGED <<year, stat>>
    <3>1. ~Settled /\ ~Settled' /\ Unsettled' = Unsettled /\ Through' = Through
      BY <2>1, <2>3 DEF Settled, Unsettled, Through
    <3> QED
      BY <1>2, <1>3, <2>1, <2>3, <3>1 DEF RowInv
  <2>4. CASE /\ pc' = AfterSettle /\ year' = YearOf[info]
             /\ stat' = [reward |-> info, rates |-> RatesWith(YearOf[info])]
    <3>1. Settled' /\ ~Unsettled' /\ Through' = blk
      BY <2>1, <2>4 DEF Settled, Unsettled, Through, AfterSettle
    <3>2. ASSUME db.made PROVE YearsServed(blk) \subseteq Listed(stat'.rates)
      <4>1. /\ Listed(stat.rates) \subseteq Listed(stat'.rates)
            /\ year = YearOf[info] \/ year = 0 \/ YearOf[info] \in Listed(stat'.rates)
        BY <1>1, <2>2, <2>4, RatesGrow
      <4>2. YearsServed(Through) \subseteq Listed(stat.rates)
        BY <2>1, <3>2 DEF RowInv
      <4>3. CASE booting
        BY <4>1, <4>2, <4>3 DEF Through, Unsettled
      <4>4. CASE ~booting
        <5>0. Unsettled /\ Through = blk - 1
          BY <2>1, <4>4 DEF Unsettled, Through
        <5>1. Unsettled /\ Through = blk - 1 /\ blk - 1 \in Heights /\ blk - 1 + 1 = blk
          <6>1. blk >= 0
            BY <1>1, <2>1, <4>4 DEF ThreadInv
          <6> QED
            BY <1>1, <5>0, <6>1, EpochBounds DEF Heights
        <5>2. year = YearOf[Serving(blk - 1, SettlePeriod)]
          BY <5>1 DEF RowInv
        <5>3. /\ YearsServed(blk) \subseteq YearsServed(blk - 1) \cup {YearOf[info]}
              /\ year \in YearsServed(blk - 1)
          BY <2>2, <5>1, <5>2, YearsNext
        <5>4. year # 0
          <6>1. /\ blk - 1 \in Int /\ Serving(blk - 1, SettlePeriod) \in Nat \ {0}
                /\ Serving(blk - 1, SettlePeriod) =< Serving(blk, SettlePeriod)
            BY <1>1, <5>1, Periods, ServingMono
          <6>2. info \in 1..(MaxBlock \div SettlePeriod + 1)
            BY <1>1, InfoTyped DEF info
          <6>3. Serving(blk - 1, SettlePeriod) \in 1..(MaxBlock \div SettlePeriod + 1)
            BY <2>2, <6>1, <6>2, Periods, EpochBounds
          <6> QED
            BY <5>2, <6>3, YearAssumption
        <5> QED
          BY <4>1, <4>2, <5>1, <5>3, <5>4
      <4> QED
        BY <4>3, <4>4
    <3>3. /\ Epoch(blk, SettlePeriod) =< stat'.reward
          /\ stat'.reward =< Serving(blk, SettlePeriod)
      <4>1. stat'.reward = Serving(blk, SettlePeriod)
        BY <2>2, <2>4
      <4>2. Epoch(blk, SettlePeriod) \in Nat /\ Serving(blk, SettlePeriod) \in Nat
            /\ Epoch(blk, SettlePeriod) =< Serving(blk, SettlePeriod)
        BY <1>1, Periods, EpochServing, ServingMono
      <4> QED
        BY <4>1, <4>2
    <3> QED
      BY <1>2, <1>3, <2>1, <2>2, <2>4, <3>1, <3>2, <3>3 DEF RowInv
  <2> QED
    BY <2>1, <2>3, <2>4
<1>11. CASE ConsensusBegin \/ ConsensusLists \/ ConsensusFail \/ Record \/ Publish
  <2>1. /\ pc \in {"consensus", "consensusLists", "record", "publish"}
        /\ pc' \in {"consensus", "consensusLists", "record", "publish", "ready", "next"}
        /\ UNCHANGED <<blk, booting, year, stat, db>>
    BY <1>11 DEF ConsensusBegin, ConsensusLists, ConsensusFail, Record, Publish, AfterConsensus
  <2>2. Settled /\ Settled' /\ ~Unsettled /\ ~Unsettled' /\ Through' = Through
    BY <2>1 DEF Settled, Unsettled, Through
  <2> QED
    BY <1>2, <1>3, <2>1, <2>2 DEF RowInv
<1>12. CASE RecordFail
  <2>1. pc = "record" /\ pc' = "stopped" /\ UNCHANGED <<blk, booting, year, stat, db>>
    BY <1>12 DEF RecordFail
  <2>2. ~Settled' /\ ~Unsettled'
    BY <2>1 DEF Settled, Unsettled
  <2> QED
    BY <1>1, <1>2, <1>3, <2>1, <2>2 DEF RowInv, ThreadInv
<1>13. CASE Commit
  <2>1. msgs # <<>> /\ UNCHANGED <<pc, blk, booting, year, stat>>
    BY <1>13 DEF Commit
  <2>2. Settled' = Settled /\ Unsettled' = Unsettled /\ Through' = Through
    BY <2>1 DEF Settled, Unsettled, Through
  <2>3. db.made
    BY <1>1, <1>3, <2>1 DEF ThreadInv
  <2>4. Head(msgs) \in Messages
    <3>1. msgs \in Seq([blk : Blocks, ers : ErsType, stat : StatType])
      BY <1>1 DEF TypeOK
    <3> QED
      BY <2>1, <3>1, TailStep DEF Messages
  <2>5. CASE UNCHANGED db
    BY <1>2, <1>3, <2>1, <2>2, <2>5 DEF RowInv
  <2>6. CASE ~ UNCHANGED db
    <3> DEFINE m == Head(msgs)
    <3>1. PICK r \in {m.stat.reward, stat.reward}, t \in {m.stat.rates, stat.rates} :
            db' = [db EXCEPT !.cur = m.blk, !.reward = r, !.rates = t]
      BY <1>13, <2>6 DEF Commit
    <3>2. /\ YearsServed(m.blk) \subseteq Listed(m.stat.rates)
          /\ Listed(m.stat.rates) \subseteq Listed(stat.rates)
          /\ Epoch(m.blk, SettlePeriod) =< m.stat.reward
          /\ m.stat.reward =< stat.reward
      BY <2>4 DEF RowInv
    <3>3. m.blk \in Int /\ m.stat.reward \in Int /\ stat.reward \in Int
      <4>1. PICK j \in DOMAIN msgs : m = msgs[j]
        BY <2>4 DEF Messages
      <4>2. m.stat \in StatType /\ m.blk \in Int
        BY <1>1, <4>1, MessageTyped
      <4>3. m.stat.reward \in Lists /\ stat.reward \in Lists
        BY <1>1, <4>2 DEF StatType, TypeOK
      <4> QED
        BY <4>2, <4>3, EpochBounds DEF Lists
    <3>4. Epoch(m.blk, SettlePeriod) \in Nat
      BY <3>3, Periods, EpochMono
    <3> HIDE DEF m
    <3>5. db'.made = db.made /\ db'.cur = m.blk /\ db'.reward = r /\ db'.rates = t
      BY <1>1, <3>1 DEF TypeOK
    <3>6. YearsServed(m.blk) \subseteq Listed(t)
      BY <3>1, <3>2
    <3>7. Epoch(m.blk, SettlePeriod) =< r
      BY <3>1, <3>2, <3>3, <3>4
    <3> QED
      BY <1>2, <2>1, <2>2, <2>3, <3>5, <3>6, <3>7 DEF RowInv
  <2> QED
    BY <2>5, <2>6
<1> QED
  BY <1>4, <1>5, <1>6, <1>7, <1>8, <1>9, <1>10, <1>11, <1>12, <1>13 DEF Next, vars, memory, Main,
     Settle, Consensus, ChainGrow

\* An answer that is not empty is not older than the block, but for the lag.
CurrentInv ==
  /\ Settled => ers.curVer >= Oldest(blk, SettlePeriod)
  /\ (\/ pc \in {"ready", "next", "record", "publish"}
      \/ Unsettled /\ ~Opens(blk, ConsensusPeriod)) =>
       ers.curVal >= Oldest(blk, ConsensusPeriod)
  /\ CurrentListsNotOld

\* The first block of an epoch is not above its blocks, and stays within it.
LEMMA FirstBlockFacts ==
  ASSUME NEW b \in Heights, NEW p \in Nat \ {0, 1}
  PROVE  /\ b \in Int /\ FirstBlock(b, p) \in Int /\ FirstBlock(b, p) =< b
         /\ Oldest(b, p) \in Nat \ {0}
         /\ ~Opens(b + 1, p) => Oldest(b + 1, p) = Oldest(b, p)
<1>1. b \in Int /\ b >= -1 /\ p \in Nat \ {0} /\ NodeLag \in Nat
  BY EpochBounds DEF Heights
<1>2. FirstBlock(b, p) \in Int /\ FirstBlock(b, p) =< b
  BY <1>1, PreEpochLastFacts DEF FirstBlock
<1>3. Oldest(b, p) \in Nat \ {0}
  BY <1>1, <1>2, ServingMono DEF Oldest
<1>4. ASSUME ~Opens(b + 1, p) PROVE Oldest(b + 1, p) = Oldest(b, p)
  <2>1. CASE b >= 1
    <3>1. Epoch(b + 1, p) = Epoch(b, p)
      BY <1>1, <1>4, <2>1, EpochNext
    <3>2. PreEpochLast(b + 1, p) = PreEpochLast(b, p)
      BY <3>1 DEF PreEpochLast
    <3>3. FirstBlock(b + 1, p) = FirstBlock(b, p)
      BY <1>1, <2>1, <3>2 DEF FirstBlock
    <3> QED
      BY <3>3 DEF Oldest
  <2>2. CASE b = 0
    <3>1. 0 % p = 0
      BY <1>1, Z3
    <3>2. Opens(b + 1, p)
      BY <2>2, <3>1 DEF Opens
    <3> QED
      BY <1>4, <3>2
  <2>3. CASE b = -1
    <3>1. b + 1 =< 0 /\ b =< 0 /\ b + 1 - NodeLag =< 0 /\ b - NodeLag =< 0
      BY <1>1, <2>3
    <3> QED
      BY <1>1, <2>3, <3>1 DEF Oldest, FirstBlock, Serving
  <2> QED
    BY <1>1, <2>1, <2>2, <2>3
<1> QED
  BY <1>1, <1>2, <1>3, <1>4

\* An answer that is not empty is not older than the lag allows.
LEMMA AnswerNotOld ==
  ASSUME TypeOK, ThreadInv, NEW p \in Nat \ {0, 1}, NEW h \in NodeHeads,
         CurrentList(blk, p, h) # 0
  PROVE  CurrentList(blk, p, h) >= Oldest(blk, p)
<1>1. /\ blk \in Heights /\ blk \in Int /\ p \in Nat \ {0} /\ NodeLag \in Nat
      /\ chainHead \in Int /\ blk =< chainHead
  BY EpochBounds DEF TypeOK, ThreadInv, Heights, Blocks
<1>2. h \in Int /\ h >= 1 /\ h >= chainHead - NodeLag
  BY <1>1 DEF NodeHeads
<1> DEFINE x == FirstBlock(blk, p)
<1>3. x \in Int /\ x =< blk /\ Oldest(blk, p) = Serving(x - NodeLag, p)
  BY <1>1, FirstBlockFacts DEF Oldest
<1> HIDE DEF x
<1>4. ListAt(h, p) >= Oldest(blk, p)
  <2>1. x - NodeLag =< h /\ x - NodeLag \in Int
    BY <1>1, <1>2, <1>3
  <2>2. ListAt(h, p) = Serving(h, p)
    BY <1>2 DEF ListAt, Serving
  <2>3. /\ Serving(x - NodeLag, p) \in Nat \ {0} /\ Serving(h, p) \in Nat \ {0}
        /\ Serving(x - NodeLag, p) =< Serving(h, p)
    BY <1>1, <1>2, <2>1, ServingMono
  <2> QED
    BY <1>3, <2>2, <2>3
<1>5. ListAt(TargetBlock(blk, p), p) >= Oldest(blk, p)
  <2>1. x - NodeLag =< x /\ x - NodeLag \in Int
    BY <1>1, <1>3
  <2>2. /\ Serving(x - NodeLag, p) \in Nat \ {0} /\ Serving(x, p) \in Nat \ {0}
        /\ Serving(x - NodeLag, p) =< Serving(x, p)
    BY <1>1, <1>3, <2>1, ServingMono
  <2>3. CASE PreEpochLast(blk, p) = 0
    <3>1. x =< 1
      BY <1>1, <2>3 DEF x, FirstBlock
    <3>2. Serving(x, p) = 1
      <4>1. Serving(1, p) = 1
        <5>1. Epoch(1, p) \in Nat \ {0} /\ Epoch(1, p) =< 1
          BY <1>1, EpochPositive
        <5> QED
          BY <5>1 DEF Serving
      <4>2. Serving(x, p) \in Nat \ {0} /\ Serving(1, p) \in Nat /\ Serving(x, p) =< Serving(1, p)
        BY <1>1, <1>3, <3>1, ServingMono
      <4> QED
        BY <4>1, <4>2
    <3>3. ListAt(TargetBlock(blk, p), p) = 1
      BY <2>3 DEF TargetBlock, ListAt
    <3> QED
      BY <1>3, <2>2, <3>2, <3>3
  <2>4. CASE PreEpochLast(blk, p) # 0
    <3>1. PreEpochLast(blk, p) \in Nat /\ blk >= 1
      BY <1>1, <2>4, PreEpochLastFacts
    <3>2. TargetBlock(blk, p) = x /\ x >= 1
      BY <1>1, <2>4, <3>1 DEF TargetBlock, x, FirstBlock
    <3>3. ListAt(x, p) = Serving(x, p)
      BY <1>3, <3>2 DEF ListAt, Serving
    <3> QED
      BY <1>3, <2>2, <3>2, <3>3
  <2> QED
    BY <2>3, <2>4
<1> QED
  BY <1>4, <1>5 DEF CurrentList

\* The current lists, action by action.
LEMMA CurrentKept == SwitchInv /\ CurrentInv /\ [Next]_vars => CurrentInv'
<1> SUFFICES ASSUME SwitchInv, CurrentInv, [Next]_vars PROVE CurrentInv'
  OBVIOUS
<1>1. TypeOK /\ ThreadInv /\ RecordInv /\ blk \in Heights /\ blk \in Int /\ ers \in ErsType
  BY BlockFacts DEF SwitchInv
<1>2. ASSUME NEW m \in Messages'
      PROVE  m.ers.curVal >= Oldest(m.blk, ConsensusPeriod)
             /\ m.ers.curVer >= Oldest(m.blk, SettlePeriod)
  <2>1. CASE m \in Messages
    BY <2>1 DEF CurrentInv, CurrentListsNotOld
  <2>2. CASE Publish /\ m = [blk |-> blk, ers |-> ers, stat |-> stat]
    BY <2>2 DEF CurrentInv, Settled, Publish
  <2> QED
    BY <1>1, <2>1, <2>2, MessageStep
<1>3. \A i \in DOMAIN blockNode' :
        blockNode'[i].list >= Serving(((i - 1) * ConsensusPeriod + 1) - NodeLag, ConsensusPeriod)
  <2>1. CASE UNCHANGED blockNode
    BY <2>1 DEF CurrentInv, CurrentListsNotOld
  <2>2. CASE Record /\ Missing
    <3>1. /\ pc = "record"
          /\ blockNode' = Append(blockNode, [num |-> KnownMax + 1, list |-> ers.curVal])
      BY <2>2 DEF Record
    <3>0. PICK e : e = Epoch(blk, ConsensusPeriod)
      OBVIOUS
    <3>2. Len(blockNode) + 1 = e /\ Len(blockNode) \in Nat
      BY <1>1, <2>2, <3>0, <3>1, RecordStep DEF TypeOK
    <3>3. ers.curVal >= Oldest(blk, ConsensusPeriod)
      BY <3>1 DEF CurrentInv
    <3>4. blk >= 1
      BY <1>1, <3>1 DEF ThreadInv, Opens
    <3>5. FirstBlock(blk, ConsensusPeriod) = (e - 1) * ConsensusPeriod + 1
      BY <1>1, <3>0, <3>4, Periods, PreEpochLastFacts DEF FirstBlock
    <3>6. ers.curVal >= Serving(((e - 1) * ConsensusPeriod + 1) - NodeLag, ConsensusPeriod)
      <4>1. Oldest(blk, ConsensusPeriod)
              = Serving(((e - 1) * ConsensusPeriod + 1) - NodeLag, ConsensusPeriod)
        BY <3>5, Zenon DEF Oldest
      <4> QED
        BY <3>3, <4>1, Zenon
    <3> DEFINE n == [num |-> KnownMax + 1, list |-> ers.curVal]
    <3> SUFFICES ASSUME NEW i \in DOMAIN blockNode'
                 PROVE  blockNode'[i].list
                          >= Serving(((i - 1) * ConsensusPeriod + 1) - NodeLag, ConsensusPeriod)
      OBVIOUS
    <3>7. n.list = ers.curVal
      OBVIOUS
    <3> HIDE DEF n
    <3>8. \/ i = Len(blockNode) + 1 /\ blockNode'[i] = n
          \/ i \in DOMAIN blockNode /\ blockNode'[i] = blockNode[i]
      <4>1. blockNode' = Append(blockNode, n)
        BY <3>1 DEF n
      <4>2. blockNode \in Seq([num : 1..Epoch(MaxBlock, ConsensusPeriod), list : Lists \ {0}])
        BY <1>1 DEF TypeOK
      <4>3. PICK S : blockNode \in Seq(S)
        BY <4>2
      <4>4. blockNode \in Seq(S \cup {n})
        BY <4>3
      <4> QED
        BY <4>1, <4>4, AppendStep
    <3>9. CASE i = Len(blockNode) + 1 /\ blockNode'[i] = n
      BY <3>2, <3>6, <3>7, <3>9
    <3>10. CASE i \in DOMAIN blockNode /\ blockNode'[i] = blockNode[i]
      BY <3>10 DEF CurrentInv, CurrentListsNotOld
    <3> QED
      BY <3>8, <3>9, <3>10
  <2> QED
    BY <2>1, <2>2 DEF Next, vars, ChainGrow, Crash, Main, Start, InitDone, Request, Settle,
       SettleBegin, SettleLists, Consensus, ConsensusBegin, ConsensusLists, Record, Publish, Commit,
       SettleFail, ConsensusFail, RecordFail
<1>4. CurrentListsNotOld'
  BY <1>2, <1>3 DEF CurrentListsNotOld
<1>5. /\ blk \in Int
      /\ \A b \in Heights, p \in Nat \ {0, 1} :
           Oldest(b, p) \in Nat \ {0} /\ (~Opens(b + 1, p) => Oldest(b + 1, p) = Oldest(b, p))
  BY <1>1, FirstBlockFacts
<1>6. CASE UNCHANGED <<pc, blk, booting, ers>>
  BY <1>4, <1>6 DEF CurrentInv, Settled, Unsettled
<1>7. CASE Crash \/ Start \/ RecordFail
  <2>1. ~Settled' /\ ~Unsettled'
    BY <1>7 DEF Settled, Unsettled, Crash, Start, RecordFail
  <2>2. pc' \in {"down", "settle", "stopped"}
    BY <1>7 DEF Crash, Start, RecordFail
  <2> QED
    BY <1>4, <2>1, <2>2 DEF CurrentInv
<1>8. CASE InitDone
  <2>1. pc = "ready" /\ pc' = "next" /\ UNCHANGED <<blk, ers>>
    BY <1>8 DEF InitDone
  <2> QED
    BY <1>4, <2>1 DEF CurrentInv, Settled, Unsettled
<1>9. CASE Request
  <2>1. /\ pc = "next" /\ blk' = blk + 1 /\ UNCHANGED <<booting, ers>>
        /\ pc' = IF Opens(blk', SettlePeriod) THEN "settle"
                 ELSE IF Opens(blk', ConsensusPeriod) THEN "consensus" ELSE "publish"
    BY <1>9 DEF Request
  <2>2. ers.curVer >= Oldest(blk, SettlePeriod) /\ ers.curVal >= Oldest(blk, ConsensusPeriod)
    BY <2>1 DEF CurrentInv, Settled
  <2>3. /\ ~Opens(blk', SettlePeriod) => Oldest(blk', SettlePeriod) = Oldest(blk, SettlePeriod)
        /\ ~Opens(blk', ConsensusPeriod) => Oldest(blk', ConsensusPeriod) = Oldest(blk, ConsensusPeriod)
    BY <1>1, <1>5, <2>1, Periods
  <2> QED
    BY <1>4, <2>1, <2>2, <2>3 DEF CurrentInv, Settled, Unsettled
<1>10. CASE SettleBegin \/ SettleFail
  <2>1. pc \in {"settle", "settleLists"} /\ pc' \in {"settle", "settleLists"} /\ UNCHANGED <<blk, booting>>
    BY <1>10 DEF SettleBegin, SettleFail
  <2>2. ers'.curVal = ers.curVal
    BY <1>1, <1>10 DEF SettleBegin, SettleFail, ErsType
  <2> QED
    BY <1>4, <2>1, <2>2 DEF CurrentInv, Settled, Unsettled
<1>11. CASE SettleLists
  <2> DEFINE info == InfoAt(PreEpochLast(blk, SettlePeriod))
  <2>1. PICK h \in NodeHeads :
          LET list == CurrentList(blk, SettlePeriod, h)
              asked == [ers EXCEPT !.curVer = list, !.reward = info]
          IN IF list = 0
               THEN ers' = [asked EXCEPT !.preStake = ers.stake] /\ pc' = "settle"
               ELSE ers' = Rotated(asked, info, list) /\ pc' = AfterSettle
    BY <1>11 DEF SettleLists
  <2> DEFINE list == CurrentList(blk, SettlePeriod, h)
  <2>2. pc = "settleLists" /\ UNCHANGED <<blk, booting>>
    BY <1>11 DEF SettleLists
  <2>3. info \in Lists /\ list \in Lists /\ (list # 0 => list >= Oldest(blk, SettlePeriod))
    BY <1>1, InfoTyped, Periods, AnswersTyped, AnswerNotOld
  <2> HIDE DEF info, list
  <2>4. CASE list = 0
    <3>1. ers' = [[ers EXCEPT !.curVer = list, !.reward = info] EXCEPT !.preStake = ers.stake]
          /\ pc' = "settle"
      BY <2>1, <2>4 DEF list
    <3>2. ers'.curVal = ers.curVal
      BY <1>1, <2>3, <3>1 DEF ErsType
    <3> QED
      BY <1>4, <2>2, <3>1, <3>2 DEF CurrentInv, Settled, Unsettled
  <2>5. CASE list # 0
    <3>1. ers' = Rotated([ers EXCEPT !.curVer = list, !.reward = info], info, list)
          /\ pc' = AfterSettle
      BY <2>1, <2>5 DEF list
    <3>2. ers'.curVer = list /\ ers'.curVal = ers.curVal
      BY <1>1, <2>3, <3>1 DEF ErsType, Rotated
    <3> QED
      BY <1>4, <2>2, <2>3, <2>5, <3>1, <3>2 DEF CurrentInv, Settled, Unsettled, AfterSettle
  <2> QED
    BY <2>4, <2>5
<1>12. CASE ConsensusBegin
  <2>1. /\ pc = "consensus" /\ pc' = "consensusLists" /\ UNCHANGED <<blk, booting>>
    BY <1>12 DEF ConsensusBegin
  <2>2. ers'.curVer = ers.curVer
    BY <1>1, <1>12 DEF ConsensusBegin, ErsType
  <2> QED
    BY <1>4, <2>1, <2>2 DEF CurrentInv, Settled, Unsettled
<1>13. CASE ConsensusLists
  <2>1. PICK h \in NodeHeads :
          /\ ers' = [ers EXCEPT !.curVal = CurrentList(blk, ConsensusPeriod, h)]
          /\ pc' = IF CurrentList(blk, ConsensusPeriod, h) = 0 THEN "consensus" ELSE AfterConsensus
    BY <1>13 DEF ConsensusLists
  <2>2. pc = "consensusLists" /\ UNCHANGED <<blk, booting>>
    BY <1>13 DEF ConsensusLists
  <2>3. CurrentList(blk, ConsensusPeriod, h) # 0 =>
          CurrentList(blk, ConsensusPeriod, h) >= Oldest(blk, ConsensusPeriod)
    BY <1>1, Periods, AnswerNotOld
  <2>4. ers'.curVal = CurrentList(blk, ConsensusPeriod, h) /\ ers'.curVer = ers.curVer
    BY <1>1, <2>1 DEF ErsType
  <2> QED
    BY <1>4, <2>1, <2>2, <2>3, <2>4 DEF CurrentInv, Settled, Unsettled, AfterConsensus
<1>14. CASE ConsensusFail
  <2>1. pc \in {"consensus", "consensusLists"} /\ pc' = "consensus" /\ UNCHANGED <<blk, booting, ers>>
    BY <1>14 DEF ConsensusFail
  <2> QED
    BY <1>4, <2>1 DEF CurrentInv, Settled, Unsettled
<1>15. CASE Record \/ Publish
  <2>1. pc \in {"record", "publish"} /\ pc' \in {"publish", "next"} /\ UNCHANGED <<blk, booting, ers>>
    BY <1>15 DEF Record, Publish
  <2> QED
    BY <1>4, <2>1 DEF CurrentInv, Settled, Unsettled
<1> QED
  BY <1>6, <1>7, <1>8, <1>9, <1>10, <1>11, <1>12, <1>13, <1>14, <1>15 DEF Next, vars, memory, Main,
     Settle, Consensus, ChainGrow, Commit

-----------------------------------------------------------------------------

\* The invariant of the whole, and its start.
LEMMA SwitchInvariant == Spec => [](SwitchInv /\ PreviousInv /\ RewardInv /\ RowInv /\ CurrentInv)
<1> DEFINE Whole == SwitchInv /\ PreviousInv /\ RewardInv /\ RowInv /\ CurrentInv
<1>1. Init => Whole
  <2> SUFFICES ASSUME Init PROVE Whole
    OBVIOUS
  <2>1. PreviousInv /\ RewardInv
    BY DEF Init, PreviousInv, RewardInv, PreviousListsExact, RewardsOfTheirEpoch, Messages
  <2>2. RowInv
    <3>1. Messages = {} /\ ~Settled /\ ~Unsettled
      BY DEF Init, Messages, Settled, Unsettled
    <3>2. Epoch(-1, SettlePeriod) = 0
      BY DEF Epoch
    <3> QED
      BY <3>1, <3>2 DEF Init, RowInv
  <2>3. CurrentInv
    BY DEF Init, CurrentInv, CurrentListsNotOld, Messages, Settled, Unsettled
  <2> QED
    BY <2>1, <2>2, <2>3, SwitchInit
<1>2. Whole /\ [Next]_vars => Whole'
  BY TypesKept, ThreadKept, RecordKept, PreviousKept, RewardKept, RowKept, CurrentKept DEF SwitchInv
<1> QED
  BY <1>1, <1>2, PTL DEF Spec

\* Every reachable state of the epoch switches is well typed, restarts and
\* failed requests included.
THEOREM SwitchTypeCorrect == Spec => []TypeOK
<1>1. SwitchInv => TypeOK
  BY DEF SwitchInv
<1> QED
  BY <1>1, SwitchInvariant, PTL

\* EpochService numbers the consensus epochs without gap and without repetition,
\* also when a switch block is processed again after a crash.
THEOREM EpochsRecordedOnce == Spec => []BlockNodeOnce
<1>1. SwitchInv => BlockNodeOnce
  BY DEF SwitchInv, RecordInv, BlockNodeOnce, Recorded
<1> QED
  BY <1>1, SwitchInvariant, PTL

\* EpochRetryService gives every block the validators and verifiers of the epochs
\* before its own, whatever requests fail and wherever the process restarts.
THEOREM PreviousListsOfTheEpoch == Spec => []PreviousListsExact
<1>1. PreviousInv => PreviousListsExact
  BY DEF PreviousInv
<1> QED
  BY <1>1, SwitchInvariant, PTL

\* Every block has the rewards of its own settlement epoch, and the one that
\* opens an epoch the reward of the epoch that ended.
THEOREM RewardsAreTheEpochs == Spec => []RewardsOfTheirEpoch
<1>1. RewardInv => RewardsOfTheirEpoch
  BY DEF RewardInv
<1> QED
  BY <1>1, SwitchInvariant, PTL

\* The network_stat row of a committed block never lacks the rate of an issue
\* year, nor has it the reward of an epoch before the block's, although the
\* collection thread saves an object that the main thread keeps changing, and
\* restarts begin from the row.
THEOREM RowHasItsYears == Spec => []RowNotBehind
<1>1. SwitchInv /\ RowInv => RowNotBehind
  <2> SUFFICES ASSUME SwitchInv, RowInv, db.cur >= 1
               PROVE  /\ YearsUpTo(db.cur) \subseteq ListedYears
                      /\ db.reward >= Epoch(db.cur, SettlePeriod)
    BY DEF RowNotBehind
  <2>1. db.cur \in Int /\ db.reward \in Int /\ db.made
    BY EpochBounds DEF SwitchInv, TypeOK, Heights, Lists, RowInv
  <2>2. Epoch(db.cur, SettlePeriod) = Serving(db.cur, SettlePeriod)
    BY <2>1, Periods, EpochServing
  <2>3. YearsUpTo(db.cur) \subseteq ListedYears
    BY <2>1, <2>2 DEF RowInv, YearsServed, YearsUpTo, Listed, ListedYears
  <2>4. Epoch(db.cur, SettlePeriod) \in Nat
    BY <2>1, Periods, EpochServing
  <2> QED
    BY <2>1, <2>3, <2>4 DEF RowInv
<1> QED
  BY <1>1, SwitchInvariant, PTL

\* The current lists of a block and those in block_node are at most the lag of
\* the answering chain node older than their epoch.
THEOREM CurrentListsInTime == Spec => []CurrentListsNotOld
<1>1. CurrentInv => CurrentListsNotOld
  BY DEF CurrentInv
<1> QED
  BY <1>1, SwitchInvariant, PTL
=============================================================================
