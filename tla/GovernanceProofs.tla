---------------------------- MODULE GovernanceProofs ----------------------------
(***************************************************************************)
(* Proofs about proposals and votes, for any nodes, parameters, options,   *)
(* periods and bounds: the parameters in memory are the table's between    *)
(* two blocks, the sums of a proposal are its valid votes, the votes of a  *)
(* punished node do not count, and the parameters are ones the chain gave. *)
(***************************************************************************)
EXTENDS Governance, FiniteSetTheorems, Induction, TLAPS

Tx ==
  [type : {"none"}]
  \cup [type : {"param"}, name : Params, passes : BOOLEAN]
  \cup [type : {"upgrade"}, passes : BOOLEAN]
  \cup [type : {"cancel"}, target : Nat, passes : BOOLEAN]
  \cup [type : {"vote"}, node : Nodes, prop : Nat, option : Options]

Block == [tx : Tx, slash : SUBSET Nodes]

\* The chain: a cancel proposal ends before its target, a vote is on an earlier
\* proposal, and the only one of its node.
ChainInv ==
  /\ chain \in Seq(Block)
  /\ \A c \in 1..Tip : chain[c].tx.type = "cancel" =>
       chain[c].tx.target \in 1..Tip /\ EndVoting(c) < EndVoting(chain[c].tx.target)
  /\ \A b \in 1..Tip : chain[b].tx.type = "vote" =>
       chain[b].tx.prop \in Proposals /\ chain[b].tx.prop < b
  /\ \A b, c \in 1..Tip :
       /\ chain[b].tx.type = "vote" /\ chain[c].tx.type = "vote"
       /\ chain[b].tx.node = chain[c].tx.node /\ chain[b].tx.prop = chain[c].tx.prop
       => b = c

-----------------------------------------------------------------------------
(* Ends of votes *)

LEMMA Constants ==
  /\ ConsensusPeriod \in Nat \ {0} /\ SettlePeriod \in Nat \ {0} /\ VoteRounds \in Nat \ {0}
  /\ EndMargin \in Nat /\ VoteDuration \in Nat /\ MaxBlock \in Nat
  /\ IsFiniteSet(Nodes) /\ IsFiniteSet(Options)
BY GovernanceAssumption

LEMMA EndsInt ==
  ASSUME NEW b \in Nat
  PROVE  /\ ParamEnd(b) \in Int /\ RoundEnd(b) \in Int
         /\ \A e \in Int : AfterRound(e) \in Int /\ AfterRound(e) > e
<1>1. ParamEnd(b) \in Int
  BY Constants, Z3 DEF ParamEnd
<1>2. \A e \in Int : e % ConsensusPeriod \in 0..(ConsensusPeriod - 1)
  BY Constants, Z3
<1>3. VoteRounds * ConsensusPeriod \in Int
  BY Constants
<1>4. RoundEnd(b) \in Int
  <2> DEFINE m == VoteRounds * ConsensusPeriod  r == b % ConsensusPeriod
  <2>1. m \in Int /\ r \in Int
    BY <1>2, <1>3
  <2>2. RoundEnd(b) = b + ConsensusPeriod - r + m - EndMargin
    BY DEF RoundEnd
  <2> HIDE DEF m, r
  <2> QED
    BY <2>1, <2>2, Constants
<1>5. ASSUME NEW e \in Int PROVE AfterRound(e) \in Int /\ AfterRound(e) > e
  BY <1>2, Constants DEF AfterRound
<1> QED
  BY <1>1, <1>4, <1>5

LEMMA VotingEnds ==
  ASSUME NEW p \in Nat
  PROVE  EndVoting(p) \in Int /\ Active(p) \in Int /\ EndVoting(p) < Active(p)
BY EndsInt DEF EndVoting, Active

-----------------------------------------------------------------------------
(* The chain grows *)

LEMMA ChainStep ==
  ASSUME ChainInv, ChainGrows
  PROVE  /\ Tip \in Nat /\ Tip' = Tip + 1
         /\ \A p \in 1..Tip : /\ chain'[p] = chain[p]
                              /\ EndVoting(p)' = EndVoting(p) /\ Active(p)' = Active(p)
         /\ chain'[Tip + 1].tx \in TxsOf /\ chain'[Tip + 1].slash \subseteq Nodes
<1>1. chain \in Seq(Block) /\ Tip \in Nat
  BY DEF ChainInv, Tip
<1>2. PICK t \in TxsOf, s \in {{}} \cup {{n} : n \in Nodes} :
        chain' = Append(chain, [tx |-> t, slash |-> s])
  BY DEF ChainGrows
<1>3. Tip' = Tip + 1 /\ \A p \in 1..Tip : chain'[p] = chain[p]
  BY <1>1, <1>2 DEF Tip
<1>4. chain'[Tip + 1] = [tx |-> t, slash |-> s]
  BY <1>1, <1>2 DEF Tip
<1> QED
  BY <1>1, <1>3, <1>4 DEF EndVoting, Active

\* A transaction the chain takes is typed.
LEMMA TxTyped ==
  ASSUME ChainInv, NEW t \in TxsOf
  PROVE  t \in Tx
<1>1. \A p \in Proposals : p \in Nat
  BY DEF Proposals
<1> QED
  BY <1>1 DEF TxsOf, Tx

LEMMA ProposalsGrow ==
  ASSUME ChainInv, ChainGrows
  PROVE  /\ Proposals \subseteq Proposals'
         /\ \A p \in Proposals' : p \in Proposals \/ p = Tip + 1
         /\ \A n \in Nat : n =< Tip => Proposals' \cap 1..n = Proposals \cap 1..n
<1>1. /\ Tip \in Nat /\ Tip' = Tip + 1 /\ \A p \in 1..Tip : chain'[p] = chain[p]
  BY ChainStep
<1> QED
  BY <1>1 DEF Proposals

LEMMA ChainKept == ChainInv /\ [Next]_vars => ChainInv'
<1> SUFFICES ASSUME ChainInv, [Next]_vars PROVE ChainInv'
  OBVIOUS
<1>1. CASE UNCHANGED chain
  BY <1>1 DEF ChainInv, Tip, EndVoting, Proposals
<1>2. CASE ChainGrows
  <2>1. /\ Tip \in Nat /\ Tip' = Tip + 1
        /\ \A p \in 1..Tip : chain'[p] = chain[p] /\ EndVoting(p)' = EndVoting(p)
    BY <1>2, ChainStep
  <2>2. PICK t \in TxsOf, s \in {{}} \cup {{n} : n \in Nodes} :
          chain' = Append(chain, [tx |-> t, slash |-> s])
    BY <1>2 DEF ChainGrows
  <2>3. chain' \in Seq(Block) /\ chain'[Tip + 1].tx = t
    <3>1. [tx |-> t, slash |-> s] \in Block
      BY <2>2, TxTyped DEF Block
    <3> QED
      BY <2>2, <3>1 DEF ChainInv, Tip
  <2>4. t.type = "cancel" => t.target \in Proposals /\ RoundEnd(Tip + 1) < EndVoting(t.target)
    BY <2>2 DEF TxsOf
  <2>5. t.type = "vote" =>
          /\ t.prop \in Proposals
          /\ \A b \in 1..Tip : ~(/\ chain[b].tx.type = "vote" /\ chain[b].tx.node = t.node
                                  /\ chain[b].tx.prop = t.prop)
    BY <2>2 DEF TxsOf
  <2>6. \A p \in Proposals : p \in 1..Tip /\ p \in Proposals'
    BY <1>2, ProposalsGrow DEF Proposals
  <2>7. ASSUME NEW c \in 1..Tip', chain'[c].tx.type = "cancel",
               NEW q, q = chain'[c].tx.target
        PROVE  q \in 1..Tip' /\ EndVoting(c)' < EndVoting(q)'
    <3>1. CASE c \in 1..Tip
      <4>1. chain[c] = chain'[c] /\ q \in 1..Tip /\ EndVoting(c) < EndVoting(q)
        BY <2>1, <2>7, <3>1 DEF ChainInv
      <4> QED
        BY <2>1, <3>1, <4>1
    <3>2. CASE c = Tip + 1
      <4>1. t.type = "cancel" /\ q = t.target
        BY <2>3, <2>7, <3>2
      <4>2. EndVoting(c)' = RoundEnd(Tip + 1)
        BY <2>3, <3>2, <4>1 DEF EndVoting
      <4>3. q \in 1..Tip /\ EndVoting(q)' = EndVoting(q)
        BY <2>1, <2>4, <2>6, <4>1
      <4> QED
        BY <2>1, <2>4, <4>1, <4>2, <4>3
    <3> QED
      BY <2>1, <3>1, <3>2
  <2>8. ASSUME NEW b \in 1..Tip', chain'[b].tx.type = "vote"
        PROVE  chain'[b].tx.prop \in Proposals' /\ chain'[b].tx.prop < b
    <3>1. CASE b \in 1..Tip
      BY <2>1, <2>6, <2>8, <3>1 DEF ChainInv
    <3>2. CASE b = Tip + 1
      BY <2>1, <2>3, <2>5, <2>6, <2>8, <3>2
    <3> QED
      BY <2>1, <3>1, <3>2
  <2>9. ASSUME NEW b \in 1..Tip', NEW c \in 1..Tip',
               chain'[b].tx.type = "vote", chain'[c].tx.type = "vote",
               chain'[b].tx.node = chain'[c].tx.node, chain'[b].tx.prop = chain'[c].tx.prop
        PROVE  b = c
    <3>1. (b \in 1..Tip \/ b = Tip + 1) /\ (c \in 1..Tip \/ c = Tip + 1)
      BY <2>1
    <3>2. CASE b \in 1..Tip /\ c \in 1..Tip
      BY <2>1, <2>9, <3>2 DEF ChainInv
    <3>3. CASE b \in 1..Tip /\ c = Tip + 1
      BY <2>1, <2>3, <2>5, <2>9, <3>3
    <3>4. CASE b = Tip + 1 /\ c \in 1..Tip
      BY <2>1, <2>3, <2>5, <2>9, <3>4
    <3> QED
      BY <3>1, <3>2, <3>3, <3>4
  <2> QED
    BY <2>3, <2>7, <2>8, <2>9 DEF ChainInv
<1> QED
  BY <1>1, <1>2 DEF Next, vars, Collect, Begin, Consensus, NewBlock, Propose, Vote, NoTx, Commit,
     Fail, Duplicate, Retry, Task, Select, Ask, Update, AskThrows, Crash

-----------------------------------------------------------------------------
(* Decided proposals *)

\* A proposal in force stays in force: the cancellation of a proposal ends
\* before the vote on it does.
LEMMA TallyStays ==
  ASSUME ChainInv, ChainGrows, NEW p \in Proposals, Active(p) =< Tip,
         Tally(p) \in {"PASS", "FINISH"}
  PROVE  Tally(p)' \in {"PASS", "FINISH"}
<1>1. /\ Tip \in Nat /\ Tip' = Tip + 1 /\ p \in 1..Tip
      /\ \A q \in 1..Tip : /\ chain'[q] = chain[q]
                           /\ EndVoting(q)' = EndVoting(q) /\ Active(q)' = Active(q)
      /\ chain'[Tip + 1].tx \in TxsOf
  BY ChainStep DEF Proposals
<1>2. \A q \in Nat : EndVoting(q) \in Int /\ Active(q) \in Int /\ EndVoting(q) < Active(q)
  BY VotingEnds
<1>3. EndVoting(p) < Tip /\ Active(p) =< Tip /\ EndVoting(p) \in Int
  BY <1>1, <1>2
<1>4. ~CancelledAt(p, Tip) /\ chain[p].tx.passes
  BY <1>1, <1>3 DEF Tally, StatusAt
<1>5. ~CancelledAt(p, Tip)'
  <2> SUFFICES ASSUME NEW c \in Proposals', chain'[c].tx.type = "cancel",
                      chain'[c].tx.target = p, chain'[c].tx.passes, EndVoting(c)' <= Tip + 1
               PROVE  FALSE
    BY <1>1 DEF CancelledAt
  <2>1. CASE c \in Proposals
    <3>1. c \in 1..Tip
      BY <2>1 DEF Proposals
    <3>a. chain[c] = chain'[c] /\ c \in Nat
      BY <1>1, <3>1
    <3>b. chain[c].tx.type = "cancel" /\ chain[c].tx.target = p
      BY <3>a
    <3>c. EndVoting(c) < EndVoting(p)
      BY <3>1, <3>b DEF ChainInv
    <3>2. EndVoting(c) < EndVoting(p) /\ EndVoting(c) \in Int /\ chain[c] = chain'[c]
      BY <1>2, <3>a, <3>c
    <3>3. EndVoting(c) =< Tip
      BY <1>1, <1>3, <3>2
    <3> QED
      BY <1>4, <2>1, <3>2, <3>3 DEF CancelledAt
  <2>2. CASE c = Tip + 1
    <3>1. Open(p)
      BY <1>1, <2>2 DEF TxsOf
    <3> QED
      BY <1>1, <1>3, <3>1 DEF Open
  <2> QED
    BY <2>1, <2>2, ProposalsGrow
<1>6. ~CancelledAt(p, Tip)' /\ chain'[p].tx.passes
  BY <1>1, <1>4, <1>5
<1>7. Tip' >= EndVoting(p)' /\ ~(Tip' < EndVoting(p)') /\ ~(Tip' < Active(p)')
  BY <1>1, <1>2, <1>3
<1> QED
  BY <1>6, <1>7 DEF Tally, StatusAt

LEMMA RotationsIs ==
  ASSUME NEW x
  PROVE  Rotations(x) # {} <=>
           \E p \in Due : /\ \/ chain[p].tx.type = "param" /\ chain[p].tx.name = x
                             \/ chain[p].tx.type = "upgrade"
                          /\ Tally(p) \in {"PASS", "FINISH"}
BY DEF Rotations

-----------------------------------------------------------------------------
(* The tables *)

Row == [status : Statuses, sums : [Options -> Nat]]
VoteRow == [node : Nodes, prop : Nat, option : Options, valid : BOOLEAN]
Work == [rows : UNION {[D -> Row] : D \in SUBSET Nat}, votes : SUBSET VoteRow,
         punished : [Nodes -> Nat], config : [Params -> Nat]]

Counting(V, p, o) == {v \in V : v.valid /\ v.prop = p /\ v.option = o}

\* In the chain c, the vote is that of a transaction of the first k blocks.
Cast(c, v, k) ==
  \E b \in 1..k : c[b].tx.type = "vote" /\ c[b].tx.node = v.node /\ c[b].tx.prop = v.prop

Proposed(c, k) == {p \in 1..k : c[p].tx.type \in Proposing}

\* The tables proposal and vote after the first k blocks of the chain c.
Sound(c, R, V, k) ==
  /\ R \in [Proposed(c, k) -> Row]
  /\ V \subseteq VoteRow /\ IsFiniteSet(V)
  /\ \A v \in V : v.prop \in Proposed(c, k) /\ Cast(c, v, k)
  /\ \A p \in Proposed(c, k), o \in Options : R[p].sums[o] = Cardinality(Counting(V, p, o))

\* Records with one or two fields replaced.
LEMMA ReplacedOne ==
  ASSUME NEW r \in Row, NEW e \in [Options -> Nat], NEW x, x = [r EXCEPT !.sums = e]
  PROVE  x \in Row /\ x.sums = e /\ x.status = r.status
BY DEF Row

LEMMA Restatused ==
  ASSUME NEW r \in Row, NEW e \in Statuses, NEW x, x = [r EXCEPT !.status = e]
  PROVE  x \in Row /\ x.status = e /\ x.sums = r.sums
BY DEF Row

LEMMA Voided ==
  ASSUME NEW v \in VoteRow, NEW u, u = [v EXCEPT !.valid = FALSE]
  PROVE  /\ u \in VoteRow /\ ~u.valid
         /\ u.node = v.node /\ u.prop = v.prop /\ u.option = v.option
BY DEF VoteRow

\* Taking votes back: what is left counted is what was counted and is not taken.
LEMMA TakenBack ==
  ASSUME NEW V \in SUBSET VoteRow, NEW S \in SUBSET V, NEW p, NEW o
  PROVE  Counting({IF v \in S THEN [v EXCEPT !.valid = FALSE] ELSE v : v \in V}, p, o)
           = Counting(V, p, o) \ {v \in S : v.prop = p /\ v.option = o}
<1> DEFINE f(v) == IF v \in S THEN [v EXCEPT !.valid = FALSE] ELSE v
<1>1. \A v \in V : /\ v \in S => ~f(v).valid
                   /\ v \notin S => f(v) = v
  BY Voided
<1> HIDE DEF f
<1>2. Counting({f(v) : v \in V}, p, o) = Counting(V, p, o) \ {v \in S : v.prop = p /\ v.option = o}
  BY <1>1 DEF Counting
<1> QED
  BY <1>2 DEF f

LEMMA CountLess ==
  ASSUME NEW C, IsFiniteSet(C), NEW B \in SUBSET C
  PROVE  /\ Cardinality(C \ B) = Cardinality(C) - Cardinality(B)
         /\ Cardinality(C \ B) \in Nat /\ Cardinality(B) \in Nat
<1>1. Cardinality(C \ B) = Cardinality(C) - Cardinality(C \cap B)
  BY FS_Difference
<1>2. C \cap B = B
  OBVIOUS
<1> QED
  BY <1>1, <1>2, FS_Difference, FS_Subset, FS_CardinalityType

LEMMA SoundTyped ==
  ASSUME NEW c, NEW R, NEW V, NEW k, Sound(c, R, V, k)
  PROVE  /\ R \in UNION {[D -> Row] : D \in SUBSET Nat} /\ V \in SUBSET VoteRow
         /\ DOMAIN R = Proposed(c, k)
<1>1. R \in [Proposed(c, k) -> Row] /\ V \subseteq VoteRow
  BY DEF Sound
<1>2. Proposed(c, k) \in SUBSET Nat
  BY DEF Proposed
<1> QED
  BY <1>1, <1>2

LEMMA WithoutVotesSound ==
  ASSUME NEW w \in Work, NEW c, NEW k, Sound(c, w.rows, w.votes, k),
         NEW S \in SUBSET w.votes, \A v \in S : v.valid
  PROVE  /\ Sound(c, WithoutVotes(w, S).rows, WithoutVotes(w, S).votes, k)
         /\ WithoutVotes(w, S).punished = w.punished /\ WithoutVotes(w, S).config = w.config
<1> DEFINE D == Proposed(c, k)
           T(p, o) == {v \in S : v.prop = p /\ v.option = o}
           sums(p) == [o \in Options |-> w.rows[p].sums[o] - Cardinality(T(p, o))]
           R == [p \in DOMAIN w.rows |-> [w.rows[p] EXCEPT !.sums = sums(p)]]
           V == {IF v \in S THEN [v EXCEPT !.valid = FALSE] ELSE v : v \in w.votes}
<1>1. WithoutVotes(w, S) = [w EXCEPT !.rows = R, !.votes = V]
  BY DEF WithoutVotes
<1>2. /\ WithoutVotes(w, S).rows = R /\ WithoutVotes(w, S).votes = V
      /\ WithoutVotes(w, S).punished = w.punished /\ WithoutVotes(w, S).config = w.config
  <2> HIDE DEF R, V
  <2>1. PICK x : x = [w EXCEPT !.rows = R, !.votes = V]
    OBVIOUS
  <2>2. x.rows = R /\ x.votes = V /\ x.punished = w.punished /\ x.config = w.config
    BY <2>1 DEF Work
  <2>3. WithoutVotes(w, S) = x
    BY <1>1, <2>1, Zenon
  <2> QED
    BY <2>2, <2>3
<1>3. /\ w.rows \in [D -> Row] /\ w.votes \in SUBSET VoteRow /\ IsFiniteSet(w.votes)
      /\ \A p \in D, o \in Options : w.rows[p].sums[o] = Cardinality(Counting(w.votes, p, o))
  BY DEF Sound
<1>4. \A p, o : Counting(V, p, o) = Counting(w.votes, p, o) \ T(p, o)
  BY <1>3, TakenBack
<1>5. ASSUME NEW p \in D, NEW o \in Options
      PROVE  /\ sums(p)[o] = Cardinality(Counting(V, p, o))
             /\ sums(p)[o] \in Nat
  <2>1. IsFiniteSet(Counting(w.votes, p, o))
    BY <1>3, FS_Subset DEF Counting
  <2>2. T(p, o) \subseteq Counting(w.votes, p, o)
    BY DEF Counting
  <2> HIDE DEF T
  <2>3. /\ Cardinality(Counting(w.votes, p, o) \ T(p, o))
             = Cardinality(Counting(w.votes, p, o)) - Cardinality(T(p, o))
        /\ Cardinality(Counting(w.votes, p, o) \ T(p, o)) \in Nat
    BY <2>1, <2>2, CountLess
  <2>4. sums(p)[o] = w.rows[p].sums[o] - Cardinality(T(p, o))
    OBVIOUS
  <2>5. w.rows[p].sums[o] = Cardinality(Counting(w.votes, p, o))
    BY <1>3
  <2> HIDE DEF sums
  <2> QED
    BY <1>4, <2>3, <2>4, <2>5
<1>6. \A p \in D : sums(p) \in [Options -> Nat]
  <2> SUFFICES ASSUME NEW p \in D PROVE sums(p) \in [Options -> Nat]
    OBVIOUS
  <2>1. \A o \in Options : sums(p)[o] \in Nat
    BY <1>5
  <2>2. sums(p) = [o \in Options |-> sums(p)[o]]
    OBVIOUS
  <2> HIDE DEF sums
  <2> QED
    BY <2>1, <2>2
<1> HIDE DEF sums, T
<1>7. \A p \in D : R[p] \in Row /\ R[p].sums = sums(p)
  <2> SUFFICES ASSUME NEW p \in D PROVE R[p] \in Row /\ R[p].sums = sums(p)
    OBVIOUS
  <2>1. PICK q \in Row : q = w.rows[p]
    BY <1>3
  <2>2. PICK e \in [Options -> Nat] : e = sums(p)
    BY <1>6
  <2>3. PICK x : x = [q EXCEPT !.sums = e]
    OBVIOUS
  <2>4. x \in Row /\ x.sums = e
    BY <2>3, ReplacedOne
  <2>5. p \in DOMAIN w.rows
    BY <1>3
  <2>6. R[p] = x
    BY <2>1, <2>2, <2>3, <2>5, Zenon
  <2> QED
    BY <2>2, <2>4, <2>6
<1>8. R \in [D -> Row]
  <2>1. DOMAIN w.rows = D
    BY <1>3
  <2> QED
    BY <1>7, <2>1
<1>9. V \subseteq VoteRow /\ \A v \in V : \E u \in w.votes : u.prop = v.prop /\ u.node = v.node
  BY <1>3, Voided
<1>10. IsFiniteSet(V)
  <2> DEFINE g == [v \in w.votes |-> IF v \in S THEN [v EXCEPT !.valid = FALSE] ELSE v]
  <2>1. g \in Surjection(w.votes, V)
    BY DEF Surjection
  <2> HIDE DEF g, V
  <2> QED
    BY <1>3, <2>1, FS_Surjection
<1>11. \A v \in V : v.prop \in D /\ Cast(c, v, k)
  <2>1. \A u \in w.votes : u.prop \in D /\ Cast(c, u, k)
    BY <1>3 DEF Sound
  <2> QED
    BY <1>9, <2>1 DEF Cast
<1>12. \A p \in D, o \in Options : R[p].sums[o] = Cardinality(Counting(V, p, o))
  BY <1>5, <1>7
<1>13. Sound(c, R, V, k)
  <2> HIDE DEF R, V
  <2> QED
    BY <1>8, <1>9, <1>10, <1>11, <1>12 DEF Sound
<1> HIDE DEF R, V
<1> QED
  BY <1>2, <1>13, Zenon

\* The status of a row is another's affair.
LEMMA RestatusSound ==
  ASSUME NEW c, NEW R, NEW V, NEW k, Sound(c, R, V, k),
         NEW Q \in [Proposed(c, k) -> Row], \A p \in Proposed(c, k) : Q[p].sums = R[p].sums
  PROVE  Sound(c, Q, V, k)
BY DEF Sound

\* A longer chain has the same first blocks.
LEMMA LongerSound ==
  ASSUME NEW c, NEW d, NEW R, NEW V, NEW k \in Nat, Sound(c, R, V, k),
         \A b \in 1..k : d[b] = c[b]
  PROVE  Sound(d, R, V, k)
<1>1. Proposed(d, k) = Proposed(c, k)
  BY DEF Proposed
<1>2. \A v : Cast(c, v, k) => Cast(d, v, k)
  BY DEF Cast
<1> QED
  BY <1>1, <1>2 DEF Sound

\* A block without governance changes no row.
LEMMA SkipSound ==
  ASSUME NEW c, NEW R, NEW V, NEW k \in Nat, Sound(c, R, V, k), c[k + 1].tx.type \notin Proposing
  PROVE  Sound(c, R, V, k + 1)
<1>1. Proposed(c, k + 1) = Proposed(c, k)
  BY DEF Proposed
<1>2. \A v : Cast(c, v, k) => Cast(c, v, k + 1)
  BY DEF Cast
<1> QED
  BY <1>1, <1>2 DEF Sound

\* A new proposal has no votes yet.
LEMMA ProposeSound ==
  ASSUME NEW c, NEW R, NEW V, NEW k \in Nat, Sound(c, R, V, k), c[k + 1].tx.type \in Proposing,
         NEW Q, Q = [p \in DOMAIN R \cup {k + 1} |->
                  IF p = k + 1 THEN [status |-> "VOTING", sums |-> NoSums] ELSE R[p]]
  PROVE  Sound(c, Q, V, k + 1)
<1> DEFINE D == Proposed(c, k)  E == Proposed(c, k + 1)
<1>1. E = D \cup {k + 1} /\ k + 1 \notin D
  BY DEF Proposed
<1>2. \A v : Cast(c, v, k) => Cast(c, v, k + 1)
  BY DEF Cast
<1>3. R \in [D -> Row] /\ \A p \in D : R[p] \in Row
  BY DEF Sound
<1>4. PICK r : r = [status |-> "VOTING", sums |-> NoSums]
  OBVIOUS
<1>5. r \in Row /\ \A o \in Options : r.sums[o] = 0
  BY <1>4 DEF Row, NoSums, Statuses
<1>6. Q = [p \in D \cup {k + 1} |-> IF p = k + 1 THEN r ELSE R[p]]
  <2>1. DOMAIN R = D
    BY <1>3
  <2> HIDE DEF D
  <2> QED
    BY <1>4, <2>1, Zenon
<1>7. Q \in [E -> Row] /\ Q[k + 1] = r /\ \A p \in D : Q[p] = R[p]
  BY <1>1, <1>3, <1>5, <1>6
<1>8. \A o \in Options : Counting(V, k + 1, o) = {}
  BY <1>1 DEF Counting, Sound
<1>9. \A p \in E, o \in Options : Q[p].sums[o] = Cardinality(Counting(V, p, o))
  <2> SUFFICES ASSUME NEW p \in E, NEW o \in Options
               PROVE  Q[p].sums[o] = Cardinality(Counting(V, p, o))
    OBVIOUS
  <2>1. CASE p \in D
    BY <1>7, <2>1 DEF Sound
  <2>2. CASE p = k + 1
    <3>1. Counting(V, p, o) = {}
      BY <1>8, <2>2
    <3>2. Cardinality({}) = 0
      BY FS_EmptySet
    <3> QED
      BY <1>5, <1>7, <2>2, <3>1, <3>2
  <2> QED
    BY <1>1, <2>1, <2>2
<1>10. V \subseteq VoteRow /\ IsFiniteSet(V) /\ \A v \in V : v.prop \in E /\ Cast(c, v, k + 1)
  BY <1>1, <1>2 DEF Sound
<1> QED
  BY <1>7, <1>9, <1>10 DEF Sound

\* A vote that no vote of the table is the same as counts once.
LEMMA VoteSound ==
  ASSUME NEW c, NEW R, NEW V, NEW k \in Nat, Sound(c, R, V, k),
         NEW v \in VoteRow, v.valid, v.prop \in Proposed(c, k), ~Cast(c, v, k),
         c[k + 1].tx.type = "vote", c[k + 1].tx.node = v.node, c[k + 1].tx.prop = v.prop,
         NEW Q, Q = [R EXCEPT ![v.prop].sums[v.option] = @ + 1]
  PROVE  Sound(c, Q, V \cup {v}, k + 1)
<1> DEFINE D == Proposed(c, k)
<1>1. Proposed(c, k + 1) = D
  BY DEF Proposed, Proposing, Enacting
<1>2. \A u : Cast(c, u, k) => Cast(c, u, k + 1)
  BY DEF Cast
<1>3. Cast(c, v, k + 1)
  BY DEF Cast
<1>4. R \in [D -> Row] /\ v.prop \in D /\ v.option \in Options
  BY DEF Sound, VoteRow
<1>5. PICK q \in Row : q = R[v.prop]
  BY <1>4
<1>6. PICK e \in [Options -> Nat] : e = [q.sums EXCEPT ![v.option] = @ + 1]
  BY <1>4, <1>5 DEF Row
<1>7. PICK x : x = [q EXCEPT !.sums = e]
  OBVIOUS
<1>8. x \in Row /\ x.sums = e
  BY <1>7, ReplacedOne
<1>9. Q = [R EXCEPT ![v.prop] = x]
  BY <1>5, <1>6, <1>7, Zenon
<1>10. Q \in [D -> Row] /\ Q[v.prop] = x /\ \A p \in D : p # v.prop => Q[p] = R[p]
  BY <1>4, <1>8, <1>9
<1>11. v \notin V
  BY DEF Sound
<1>12. /\ V \subseteq VoteRow /\ IsFiniteSet(V)
       /\ \A u \in V : u.prop \in D /\ Cast(c, u, k)
       /\ \A p \in D, o \in Options : R[p].sums[o] = Cardinality(Counting(V, p, o))
  BY DEF Sound
<1>13. \A p \in D, o \in Options : Q[p].sums[o] = Cardinality(Counting(V \cup {v}, p, o))
  <2> SUFFICES ASSUME NEW p \in D, NEW o \in Options
               PROVE  Q[p].sums[o] = Cardinality(Counting(V \cup {v}, p, o))
    OBVIOUS
  <2>1. CASE p = v.prop /\ o = v.option
    <3>1. Counting(V \cup {v}, p, o) = Counting(V, p, o) \cup {v} /\ v \notin Counting(V, p, o)
      BY <1>11, <2>1 DEF Counting
    <3>2. IsFiniteSet(Counting(V, p, o))
      BY <1>12, FS_Subset DEF Counting
    <3>3. Cardinality(Counting(V \cup {v}, p, o)) = Cardinality(Counting(V, p, o)) + 1
      BY <3>1, <3>2, FS_AddElement
    <3>4. Q[p].sums[o] = q.sums[o] + 1
      BY <1>4, <1>5, <1>6, <1>8, <1>10, <2>1 DEF Row
    <3>5. q.sums[o] = Cardinality(Counting(V, p, o))
      BY <1>5, <1>12, <2>1
    <3> QED
      BY <3>3, <3>4, <3>5
  <2>2. CASE ~(p = v.prop /\ o = v.option)
    <3>1. Counting(V \cup {v}, p, o) = Counting(V, p, o)
      BY <2>2 DEF Counting
    <3>2. Q[p].sums[o] = R[p].sums[o]
      <4>1. CASE p = v.prop
        BY <1>4, <1>5, <1>6, <1>8, <1>10, <2>2, <4>1 DEF Row
      <4>2. CASE p # v.prop
        BY <1>10, <4>2
      <4> QED
        BY <4>1, <4>2
    <3>3. R[p].sums[o] = Cardinality(Counting(V, p, o))
      BY <1>12
    <3> QED
      BY <3>1, <3>2, <3>3
  <2> QED
    BY <2>1, <2>2
<1>14. IsFiniteSet(V \cup {v})
  BY <1>12, FS_AddElement
<1> QED
  BY <1>1, <1>2, <1>3, <1>4, <1>10, <1>12, <1>13, <1>14 DEF Sound

-----------------------------------------------------------------------------
(* The inductive invariant *)

ThreadInv ==
  /\ done \in Nat /\ num \in Nat /\ done =< Tip
  /\ pc \in {"idle", "consensus", "newBlock", "tx", "commit"}
  /\ num = IF pc = "idle" THEN done ELSE done + 1
  /\ num =< Tip
  /\ again \in BOOLEAN /\ reports \subseteq Nodes

TablesInv ==
  /\ Sound(chain, rows, votes, done)
  /\ punished \in [Nodes -> 0..done]
  /\ config \in [Params -> 0..Tip] /\ mem \in [Params -> 0..Tip]
  /\ cache \subseteq Proposals

\* The tables as the transaction sees them: the block's own row comes with its
\* last step.
WorkInv ==
  pc # "idle" =>
    /\ work \in Work
    /\ Sound(chain, work.rows, work.votes, IF pc = "commit" THEN num ELSE done)
    /\ work.punished \in [Nodes -> 0..num] /\ work.config \in [Params -> 0..Tip]

\* Memory is ahead of the table only while the block that changes it is in work,
\* and each of its retries changes it again.
ParamsInv ==
  /\ pc = "idle" => mem = config
  /\ pc \in {"consensus", "newBlock"} => work.config = config
  /\ pc \in {"tx", "commit"} => work.config = mem
  /\ mem # config => \E x \in Params : Rotations(x) # {}

TaskInv ==
  /\ tpc \in {"idle", "ask"}
  /\ todo \subseteq DOMAIN rows /\ early \subseteq DOMAIN rows
  /\ DOMAIN found \subseteq DOMAIN rows /\ found \in [DOMAIN found -> Statuses]

GovInv == ChainInv /\ ThreadInv /\ TablesInv /\ WorkInv /\ ParamsInv /\ TaskInv

LEMMA NothingAtAll ==
  /\ <<>> \in [{} -> Row] /\ <<>> \in [{} -> Statuses] /\ DOMAIN <<>> = {}
<1>1. DOMAIN <<>> = {}
  OBVIOUS
<1>2. <<>> = [p \in {} |-> <<>>[p]]
  OBVIOUS
<1> QED
  BY <1>1, <1>2

LEMMA InitInv == Init => GovInv
<1> SUFFICES ASSUME Init PROVE GovInv
  OBVIOUS
<1>1. Tip = 0 /\ chain \in Seq(Block)
  BY DEF Init, Tip
<1>2. ChainInv
  BY <1>1 DEF ChainInv
<1>3. ThreadInv
  <2>1. done = 0 /\ num = 0 /\ pc = "idle" /\ reports = {}
    BY DEF Init
  <2>2. again \in BOOLEAN
    BY Zenon DEF Init
  <2> QED
    BY <1>1, <2>1, <2>2 DEF ThreadInv
<1>4. Proposed(chain, done) = {} /\ Sound(chain, rows, votes, done)
  <2>1. Proposed(chain, done) = {}
    BY DEF Init, Proposed
  <2>2. IsFiniteSet({})
    BY FS_EmptySet
  <2> QED
    BY <2>1, <2>2, NothingAtAll DEF Init, Sound
<1>5. TablesInv
  BY <1>1, <1>4 DEF Init, TablesInv
<1>6. WorkInv /\ ParamsInv
  BY DEF Init, WorkInv, ParamsInv
<1>7. TaskInv
  BY NothingAtAll DEF Init, TaskInv
<1> QED
  BY <1>2, <1>3, <1>5, <1>6, <1>7 DEF GovInv

LEMMA ThreadKept == ChainInv /\ ThreadInv /\ [Next]_vars => ThreadInv'
<1> SUFFICES ASSUME ChainInv, ThreadInv, [Next]_vars PROVE ThreadInv'
  OBVIOUS
<1>1. CASE ChainGrows
  <2>1. Tip \in Nat /\ Tip' = Tip + 1
    BY <1>1, ChainStep
  <2> QED
    BY <1>1, <2>1 DEF ChainGrows, ThreadInv, collection, tables
<1>2. CASE UNCHANGED chain /\ ~ChainGrows
  <2>1. Tip' = Tip /\ Tip \in Nat
    BY <1>2 DEF ChainInv, Tip
  <2>2. CASE Begin
    <3>1. done + 1 \in 1..Tip /\ done + 1 \in Nat
      BY <2>1, <2>2 DEF Begin, ThreadInv
    <3>2. chain[done + 1] \in Block
      BY <3>1 DEF ChainInv, Tip
    <3>3. chain[done + 1].slash \subseteq Nodes
      BY <3>2 DEF Block
    <3>4. num' = done + 1 /\ done' = done /\ pc' = "consensus"
          /\ reports' = chain[done + 1].slash
      BY <2>2 DEF Begin, tables
    <3>5. again' \in BOOLEAN
      BY <2>2, Zenon DEF Begin
    <3> QED
      BY <2>1, <3>1, <3>3, <3>4, <3>5 DEF ThreadInv
  <2>3. CASE Fail \/ Duplicate \/ Crash
    BY <2>1, <2>3 DEF Fail, Duplicate, Retry, Crash, ThreadInv, tables
  <2>4. CASE Consensus \/ NewBlock \/ Propose \/ Vote \/ NoTx \/ Commit
    BY <2>1, <2>4 DEF Consensus, NewBlock, Propose, Vote, NoTx, Commit, ThreadInv, tables
  <2>5. CASE Task \/ AskThrows \/ UNCHANGED vars
    BY <2>1, <2>5 DEF Task, Select, Ask, Update, AskThrows, vars, ThreadInv, collection, tables
  <2> QED
    BY <1>2, <2>2, <2>3, <2>4, <2>5 DEF Next, Collect
<1> QED
  BY <1>1, <1>2 DEF Next, vars, Collect, Begin, Consensus, NewBlock, Propose, Vote, NoTx, Commit,
     Fail, Duplicate, Retry, Task, Select, Ask, Update, AskThrows, Crash

-----------------------------------------------------------------------------
(* The committed tables *)

LEMMA ParamsTyped ==
  ASSUME NEW a \in Nat, NEW b \in Nat, a =< b, NEW S, NEW f \in [S -> 0..a]
  PROVE  f \in [S -> 0..b] /\ f \in [S -> Nat]
<1>1. 0..a \subseteq 0..b /\ 0..a \subseteq Nat
  OBVIOUS
<1> QED
  BY <1>1

LEMMA CommitSound ==
  ASSUME ChainInv, ThreadInv, TablesInv, WorkInv, Commit
  PROVE  Sound(chain, rows', work.votes, num)
<1> DEFINE E == Proposed(chain, num)
<1>1. pc = "commit" /\ pc # "idle"
  BY DEF Commit
<1>2. Sound(chain, work.rows, work.votes, num)
  BY <1>1 DEF WorkInv
<1>3. work.rows \in [E -> Row] /\ DOMAIN rows = Proposed(chain, done)
      /\ rows \in [Proposed(chain, done) -> Row]
  BY <1>2 DEF Sound, TablesInv
<1>4. rows' = [p \in E |-> IF p \in DOMAIN rows THEN [work.rows[p] EXCEPT !.status = rows[p].status]
                           ELSE work.rows[p]]
  BY <1>3 DEF Commit
<1>5. ASSUME NEW p \in E PROVE rows'[p] \in Row /\ rows'[p].sums = work.rows[p].sums
  <2>1. PICK q \in Row : q = work.rows[p]
    BY <1>3
  <2>2. CASE p \in DOMAIN rows
    <3>1. PICK e \in Statuses : e = rows[p].status
      BY <1>3, <2>2 DEF Row
    <3>2. PICK x : x = [q EXCEPT !.status = e]
      OBVIOUS
    <3>3. x \in Row /\ x.sums = q.sums
      BY <3>2, Restatused
    <3>4. rows'[p] = x
      BY <1>4, <2>1, <2>2, <3>1, <3>2, Zenon
    <3> QED
      BY <2>1, <3>3, <3>4
  <2>3. CASE p \notin DOMAIN rows
    <3>1. rows'[p] = q
      BY <1>4, <2>1, <2>3, Zenon
    <3> QED
      BY <2>1, <3>1
  <2> QED
    BY <2>2, <2>3
<1>6. rows' \in [E -> Row]
  BY <1>4, <1>5
<1> QED
  BY <1>2, <1>5, <1>6, RestatusSound

LEMMA UpdateSound ==
  ASSUME TablesInv, TaskInv, Update
  PROVE  Sound(chain, rows', votes, done) /\ DOMAIN rows' = DOMAIN rows
<1> DEFINE D == Proposed(chain, done)
<1>1. rows \in [D -> Row] /\ DOMAIN rows = D /\ Sound(chain, rows, votes, done)
  BY DEF Sound, TablesInv
<1>2. rows' = [p \in D |-> IF p \in DOMAIN found THEN [rows[p] EXCEPT !.status = found[p]] ELSE rows[p]]
  BY <1>1 DEF Update
<1>3. ASSUME NEW p \in D PROVE rows'[p] \in Row /\ rows'[p].sums = rows[p].sums
  <2>1. PICK q \in Row : q = rows[p]
    BY <1>1
  <2>2. CASE p \in DOMAIN found
    <3>1. PICK e \in Statuses : e = found[p]
      BY <2>2 DEF TaskInv
    <3>2. PICK x : x = [q EXCEPT !.status = e]
      OBVIOUS
    <3>3. x \in Row /\ x.sums = q.sums
      BY <3>2, Restatused
    <3>4. rows'[p] = x
      BY <1>2, <2>1, <2>2, <3>1, <3>2, Zenon
    <3> QED
      BY <2>1, <3>3, <3>4
  <2>3. CASE p \notin DOMAIN found
    <3>1. rows'[p] = q
      BY <1>2, <2>1, <2>3, Zenon
    <3> QED
      BY <2>1, <3>1
  <2> QED
    BY <2>2, <2>3
<1>4. rows' \in [D -> Row] /\ DOMAIN rows' = D
  BY <1>2, <1>3
<1> QED
  BY <1>1, <1>3, <1>4, RestatusSound

LEMMA TablesKept ==
  ASSUME ChainInv, ThreadInv, TablesInv, WorkInv, TaskInv, [Next]_vars
  PROVE  TablesInv'
<1>0. Tip \in Nat /\ done \in Nat /\ done =< Tip /\ num \in Nat /\ num =< Tip
  BY DEF ChainInv, Tip, ThreadInv
<1>1. CASE ChainGrows
  <2>1. /\ Tip' = Tip + 1 /\ \A p \in 1..Tip : chain'[p] = chain[p]
        /\ Proposals \subseteq Proposals'
    BY <1>1, ChainStep, ProposalsGrow
  <2>2. \A b \in 1..done : chain'[b] = chain[b]
    BY <1>0, <2>1
  <2>3. Sound(chain, rows, votes, done)
    BY DEF TablesInv
  <2>4. Sound(chain', rows, votes, done)
    BY <1>0, <2>2, <2>3, LongerSound
  <2>5. config \in [Params -> 0..Tip'] /\ mem \in [Params -> 0..Tip']
    BY <1>0, <2>1, ParamsTyped DEF TablesInv
  <2> QED
    BY <1>1, <2>1, <2>4, <2>5 DEF TablesInv, ChainGrows, collection, tables
<1>2. CASE Commit
  <2>1. Sound(chain, rows', work.votes, num)
    BY <1>2, CommitSound
  <2>2. /\ votes' = work.votes /\ punished' = work.punished /\ config' = work.config
        /\ done' = num /\ chain' = chain /\ mem' = mem /\ cache' = cache
    BY <1>2 DEF Commit
  <2>3. Tip' = Tip /\ Proposals' = Proposals
    BY <2>2 DEF Tip, Proposals
  <2>4. work.punished \in [Nodes -> 0..num] /\ work.config \in [Params -> 0..Tip]
    BY <1>2 DEF Commit, WorkInv
  <2> QED
    BY <2>1, <2>2, <2>3, <2>4 DEF TablesInv
<1>3. CASE Update
  <2>1. Sound(chain, rows', votes, done)
    BY <1>3, UpdateSound
  <2>2. /\ votes' = votes /\ punished' = punished /\ config' = config
        /\ done' = done /\ chain' = chain /\ mem' = mem /\ cache' = cache
    BY <1>3 DEF Update, collection
  <2>3. Tip' = Tip /\ Proposals' = Proposals
    BY <2>2 DEF Tip, Proposals
  <2> QED
    BY <2>1, <2>2, <2>3 DEF TablesInv
<1>4. CASE ~ChainGrows /\ ~Commit /\ ~Update
  <2>1. UNCHANGED <<chain, tables>>
    BY <1>4 DEF Next, vars, Collect, Begin, Consensus, NewBlock, Propose, Vote, NoTx,
       Fail, Duplicate, Retry, Task, Select, Ask, AskThrows, Crash
  <2>2. Tip' = Tip /\ Proposals' = Proposals
    BY <2>1 DEF Tip, Proposals
  <2>3. mem' \in [Params -> 0..Tip]
    BY <1>4 DEF Next, vars, Collect, Begin, Consensus, NewBlock, Propose, Vote, NoTx, Fail,
       Duplicate, Retry, Task, Select, Ask, AskThrows, Crash, collection, TablesInv
  <2>4. cache' \subseteq Proposals
    <3>1. CASE Propose
      <4>1. num \in Proposals
        BY <1>0, <3>1 DEF Propose, Proposals, ThreadInv
      <4> QED
        BY <3>1, <4>1 DEF Propose, TablesInv
    <3>2. CASE Crash
      <4>1. DOMAIN rows = Proposed(chain, done)
        BY DEF TablesInv, Sound
      <4>2. DOMAIN rows \subseteq Proposals
        BY <1>0, <4>1 DEF Proposed, Proposals
      <4> QED
        BY <3>2, <4>2 DEF Crash, Reloaded
    <3>3. CASE ~Propose /\ ~Crash
      BY <1>4, <3>3 DEF Next, vars, Collect, Begin, Consensus, NewBlock, Vote, NoTx, Fail,
         Duplicate, Retry, Task, Select, Ask, AskThrows, collection, TablesInv
    <3> QED
      BY <3>1, <3>2, <3>3
  <2> QED
    BY <2>1, <2>2, <2>3, <2>4 DEF TablesInv, tables
<1> QED
  BY <1>1, <1>2, <1>3, <1>4

-----------------------------------------------------------------------------
(* The tables as the transaction sees them *)

LEMMA WorkReplaced ==
  ASSUME NEW w \in Work, NEW y
  PROVE  /\ \A x : x = [w EXCEPT !.config = y] =>
              /\ x.rows = w.rows /\ x.votes = w.votes /\ x.punished = w.punished /\ x.config = y
              /\ y \in [Params -> Nat] => x \in Work
         /\ \A x : x = [w EXCEPT !.punished = y] =>
              /\ x.rows = w.rows /\ x.votes = w.votes /\ x.punished = y /\ x.config = w.config
              /\ y \in [Nodes -> Nat] => x \in Work
         /\ \A x : x = [w EXCEPT !.rows = y] =>
              /\ x.rows = y /\ x.votes = w.votes /\ x.punished = w.punished /\ x.config = w.config
              /\ y \in UNION {[D -> Row] : D \in SUBSET Nat} => x \in Work
BY DEF Work

\* A transaction begins with the committed tables.
LEMMA Opened ==
  ASSUME ChainInv, ThreadInv, TablesInv,
         NEW w, w = [rows |-> rows, votes |-> votes, punished |-> punished, config |-> config]
  PROVE  /\ w \in Work /\ Sound(chain, w.rows, w.votes, done)
         /\ w.punished \in [Nodes -> 0..done] /\ w.config \in [Params -> 0..Tip]
         /\ w.config = config
<1>1. rows \in UNION {[D -> Row] : D \in SUBSET Nat} /\ votes \in SUBSET VoteRow
  BY SoundTyped DEF TablesInv
<1>2. punished \in [Nodes -> Nat] /\ config \in [Params -> Nat]
  <2>1. Tip \in Nat /\ done \in Nat
    BY DEF ChainInv, Tip, ThreadInv
  <2> QED
    BY <2>1, ParamsTyped DEF TablesInv
<1>3. w.rows = rows /\ w.votes = votes /\ w.punished = punished /\ w.config = config
  OBVIOUS
<1> QED
  BY <1>1, <1>2, <1>3 DEF Work, TablesInv

\* What WorkInv says of the next state's transaction.
WorkIs(w, k) ==
  /\ w \in Work /\ Sound(chain, w.rows, w.votes, k)
  /\ w.punished \in [Nodes -> 0..num] /\ w.config \in [Params -> 0..Tip]

LEMMA WorkBefore ==
  ASSUME ChainInv, ThreadInv, WorkInv, pc \notin {"idle", "commit"}
  PROVE  WorkIs(work, done) /\ num = done + 1 /\ num \in Nat /\ done \in Nat /\ Tip \in Nat
         /\ num \in 1..Tip
BY DEF WorkInv, WorkIs, ThreadInv, ChainInv, Tip

LEMMA Punishes ==
  ASSUME ChainInv, ThreadInv, TablesInv, WorkInv, Consensus
  PROVE  WorkIs(work', done) /\ work'.config = work.config
<1>1. pc \notin {"idle", "commit"}
  BY DEF Consensus
<1>2. WorkIs(work, done) /\ num = done + 1 /\ num \in Nat /\ done \in Nat /\ Tip \in Nat
  BY <1>1, WorkBefore
<1> DEFINE S == UNION {Voidable(work, n) : n \in reports}
           y == [n \in Nodes |-> IF n \in reports THEN num ELSE work.punished[n]]
<1>3. S \in SUBSET work.votes /\ \A v \in S : v.valid
  BY DEF Voidable
<1>4. y \in [Nodes -> 0..num] /\ y \in [Nodes -> Nat]
  <2>1. work.punished \in [Nodes -> 0..num]
    BY <1>2 DEF WorkIs
  <2>2. \A n \in Nodes : y[n] \in 0..num
    BY <1>2, <2>1
  <2>3. y \in [Nodes -> 0..num]
    BY <2>2
  <2> HIDE DEF y
  <2> QED
    BY <1>2, <2>3, ParamsTyped
<1> HIDE DEF S, y
<1>5. PICK w : w = WithoutVotes(work, S)
  OBVIOUS
<1>6. /\ Sound(chain, w.rows, w.votes, done)
      /\ w.punished = work.punished /\ w.config = work.config
  BY <1>2, <1>3, <1>5, WithoutVotesSound DEF WorkIs
<1>7. w \in Work
  <2>1. w.rows \in UNION {[D -> Row] : D \in SUBSET Nat} /\ w.votes \in SUBSET VoteRow
    BY <1>6, SoundTyped
  <2> DEFINE R == [p \in DOMAIN work.rows |-> [work.rows[p] EXCEPT !.sums = [o \in Options |->
                     work.rows[p].sums[o] - Cardinality({v \in S : v.prop = p /\ v.option = o})]]]
             V == {IF v \in S THEN [v EXCEPT !.valid = FALSE] ELSE v : v \in work.votes}
  <2>2. w = [work EXCEPT !.rows = R, !.votes = V]
    BY <1>5 DEF WithoutVotes
  <2> HIDE DEF R, V
  <2>3. w.rows = R /\ w.votes = V
    BY <1>2, <2>2 DEF Work, WorkIs
  <2> QED
    BY <1>2, <2>1, <2>2, <2>3 DEF Work, WorkIs
<1>8. work' = [w EXCEPT !.punished = y]
  <2>1. w.punished = work.punished
    BY <1>6
  <2>2. work' = [w EXCEPT !.punished = [n \in Nodes |-> IF n \in reports THEN num ELSE w.punished[n]]]
    BY <1>5 DEF Consensus, S
  <2> QED
    BY <2>1, <2>2 DEF y
<1>9. PICK z : z = [w EXCEPT !.punished = y]
  OBVIOUS
<1>10. z.rows = w.rows /\ z.votes = w.votes /\ z.punished = y /\ z.config = w.config /\ z \in Work
  BY <1>4, <1>7, <1>9, WorkReplaced
<1>11. WorkIs(z, done)
  BY <1>2, <1>4, <1>6, <1>10 DEF WorkIs
<1>12. work' = z
  BY <1>8, <1>9
<1> QED
  BY <1>6, <1>10, <1>11, <1>12

LEMMA Rotates ==
  ASSUME ChainInv, ThreadInv, WorkInv, NewBlock
  PROVE  /\ WorkIs(work', done) /\ mem' \in {mem, work'.config}
         /\ (\E x \in Params : Rotations(x) # {}) => mem' = work'.config
         /\ ~(\E x \in Params : Rotations(x) # {}) => mem' = mem /\ work'.config = work.config
<1>1. pc \notin {"idle", "commit"}
  BY DEF NewBlock
<1>2. WorkIs(work, done) /\ Tip \in Nat
  BY <1>1, WorkBefore
<1>3. PICK c \in [Params -> 0..Tip] :
        /\ \A x \in Params : IF Rotations(x) = {} THEN c[x] = work.config[x]
                              ELSE c[x] \in Rotations(x)
        /\ work' = [work EXCEPT !.config = c]
        /\ mem' = IF \A x \in Params : Rotations(x) = {} THEN mem ELSE c
  BY Zenon DEF NewBlock
<1>4. c \in [Params -> Nat]
  BY <1>2, <1>3, ParamsTyped
<1>5. PICK z : z = [work EXCEPT !.config = c]
  OBVIOUS
<1>6. z.rows = work.rows /\ z.votes = work.votes /\ z.punished = work.punished /\ z.config = c
      /\ z \in Work
  BY <1>2, <1>4, <1>5, WorkReplaced DEF WorkIs
<1>7. work' = z
  BY <1>3, <1>5
<1>8. WorkIs(z, done)
  BY <1>2, <1>3, <1>6 DEF WorkIs
<1>9. ASSUME \A x \in Params : Rotations(x) = {} PROVE c = work.config
  <2>1. work.config \in [Params -> 0..Tip]
    BY <1>2 DEF WorkIs
  <2>2. \A x \in Params : c[x] = work.config[x]
    BY <1>3, <1>9
  <2> QED
    BY <1>3, <2>1, <2>2
<1> QED
  BY <1>3, <1>6, <1>7, <1>8, <1>9

LEMMA EntersProposal ==
  ASSUME ChainInv, ThreadInv, WorkInv, Propose
  PROVE  WorkIs(work', num) /\ work'.config = work.config
<1>1. pc \notin {"idle", "commit"}
  BY DEF Propose
<1>2. WorkIs(work, done) /\ num = done + 1 /\ done \in Nat
  BY <1>1, WorkBefore
<1>3. PICK R : R = [p \in DOMAIN work.rows \cup {num} |->
                     IF p = num THEN [status |-> "VOTING", sums |-> NoSums] ELSE work.rows[p]]
  OBVIOUS
<1>4. Sound(chain, R, work.votes, num)
  <2>1. Sound(chain, work.rows, work.votes, done)
    BY <1>2 DEF WorkIs
  <2>2. chain[done + 1].tx.type \in Proposing
    BY <1>2 DEF Propose
  <2>3. R = [p \in DOMAIN work.rows \cup {done + 1} |->
               IF p = done + 1 THEN [status |-> "VOTING", sums |-> NoSums] ELSE work.rows[p]]
    BY <1>2, <1>3
  <2> QED
    BY <1>2, <2>1, <2>2, <2>3, ProposeSound
<1>5. R \in UNION {[D -> Row] : D \in SUBSET Nat}
  BY <1>4, SoundTyped
<1>6. PICK z : z = [work EXCEPT !.rows = R]
  OBVIOUS
<1>7. z.rows = R /\ z.votes = work.votes /\ z.punished = work.punished /\ z.config = work.config
      /\ z \in Work
  BY <1>2, <1>5, <1>6, WorkReplaced DEF WorkIs
<1>8. work' = z
  BY <1>3, <1>6, Zenon DEF Propose
<1>9. WorkIs(z, num)
  BY <1>2, <1>4, <1>7 DEF WorkIs
<1> QED
  BY <1>7, <1>8, <1>9

LEMMA EntersVote ==
  ASSUME ChainInv, ThreadInv, WorkInv, Vote
  PROVE  WorkIs(work', num) /\ work'.config = work.config
<1>1. pc \notin {"idle", "commit"}
  BY DEF Vote
<1>2. WorkIs(work, done) /\ num = done + 1 /\ done \in Nat /\ num \in 1..Tip /\ Tip \in Nat
  BY <1>1, WorkBefore
<1>3. PICK t : t = chain[num].tx
  OBVIOUS
<1>4. PICK v : v = [node |-> t.node, prop |-> t.prop, option |-> t.option, valid |-> TRUE]
  OBVIOUS
<1>5. t.type = "vote" /\ t \in Tx
  <2>1. chain[num] \in Block
    BY <1>2 DEF ChainInv, Tip
  <2> QED
    BY <1>3, <2>1 DEF Vote, Block
<1>6. t.prop \in Proposals /\ t.prop < num
  BY <1>2, <1>3, <1>5 DEF ChainInv
<1>7. v \in VoteRow /\ v.valid /\ v.node = t.node /\ v.prop = t.prop /\ v.option = t.option
  <2>1. t \in [type : {"vote"}, node : Nodes, prop : Nat, option : Options]
    BY <1>5 DEF Tx
  <2> QED
    BY <1>4, <2>1 DEF VoteRow
<1>8. v.prop \in Proposed(chain, done)
  BY <1>2, <1>6, <1>7 DEF Proposed, Proposals
<1>9. ~Cast(chain, v, done)
  <2> SUFFICES ASSUME NEW b \in 1..done, chain[b].tx.type = "vote", chain[b].tx.node = v.node,
                      chain[b].tx.prop = v.prop
               PROVE  FALSE
    BY DEF Cast
  <2>1. b \in 1..Tip /\ b # num
    BY <1>2
  <2> QED
    BY <1>2, <1>3, <1>5, <1>7, <2>1 DEF ChainInv
<1>10. PICK R : R = [work.rows EXCEPT ![v.prop].sums[v.option] = @ + 1]
  OBVIOUS
<1>11. PICK V : V = work.votes \cup {v}
  OBVIOUS
<1>12. Sound(chain, R, V, num)
  <2>1. Sound(chain, work.rows, work.votes, done)
    BY <1>2 DEF WorkIs
  <2>2. chain[done + 1].tx.type = "vote" /\ chain[done + 1].tx.node = v.node
        /\ chain[done + 1].tx.prop = v.prop
    BY <1>2, <1>3, <1>5, <1>7
  <2> QED
    BY <1>2, <1>7, <1>8, <1>9, <1>10, <1>11, <2>1, <2>2, VoteSound
<1>13. R \in UNION {[D -> Row] : D \in SUBSET Nat} /\ V \in SUBSET VoteRow
  BY <1>12, SoundTyped
<1>14. PICK z : z = [work EXCEPT !.rows = R, !.votes = V]
  OBVIOUS
<1>15. z.rows = R /\ z.votes = V /\ z.punished = work.punished /\ z.config = work.config
       /\ z \in Work
  BY <1>2, <1>13, <1>14 DEF WorkIs, Work
<1>16. work' = z
  <2>1. work' = [work EXCEPT !.rows[t.prop].sums[t.option] = @ + 1, !.votes = @ \cup {v}]
    BY <1>3, <1>4, Zenon DEF Vote
  <2>2. work' = [work EXCEPT !.rows = [work.rows EXCEPT ![t.prop].sums[t.option] = @ + 1],
                              !.votes = work.votes \cup {v}]
    BY <2>1
  <2> QED
    BY <1>7, <1>10, <1>11, <1>14, <2>2
<1>17. WorkIs(z, num)
  BY <1>2, <1>12, <1>15 DEF WorkIs
<1> QED
  BY <1>15, <1>16, <1>17

LEMMA WorkKept ==
  ASSUME ChainInv, ThreadInv, TablesInv, WorkInv, [Next]_vars
  PROVE  WorkInv'
<1>0. Tip \in Nat /\ done \in Nat /\ done =< Tip /\ num \in Nat /\ num =< Tip
  BY DEF ChainInv, Tip, ThreadInv
<1>1. CASE ChainGrows
  <2>1. Tip' = Tip + 1 /\ \A p \in 1..Tip : chain'[p] = chain[p]
    BY <1>1, ChainStep
  <2>2. UNCHANGED <<pc, num, work, done>>
    BY <1>1 DEF ChainGrows, collection, tables
  <2>3. CASE pc = "idle"
    BY <2>2, <2>3 DEF WorkInv
  <2>4. CASE pc # "idle"
    <3> DEFINE k == IF pc = "commit" THEN num ELSE done
    <3>1. k \in Nat /\ k =< Tip /\ k' = k
      BY <1>0, <2>2
    <3>2. Sound(chain, work.rows, work.votes, k)
      BY <2>4 DEF WorkInv
    <3>3. \A b \in 1..k : chain'[b] = chain[b]
      BY <1>0, <2>1, <3>1
    <3> HIDE DEF k
    <3>4. Sound(chain', work.rows, work.votes, k)
      BY <3>1, <3>2, <3>3, LongerSound
    <3>5. work.config \in [Params -> 0..Tip']
      BY <1>0, <2>1, <2>4, ParamsTyped DEF WorkInv
    <3> QED
      BY <2>2, <2>4, <3>4, <3>5 DEF WorkInv, k
  <2> QED
    BY <2>3, <2>4
<1>2. CASE Begin
  <2>1. work' = [rows |-> rows, votes |-> votes, punished |-> punished, config |-> config]
        /\ pc' = "consensus" /\ num' = done + 1 /\ done' = done /\ chain' = chain
    BY <1>2 DEF Begin, tables
  <2>2. /\ work' \in Work /\ Sound(chain, work'.rows, work'.votes, done)
        /\ work'.punished \in [Nodes -> 0..done] /\ work'.config \in [Params -> 0..Tip]
    BY <2>1, Opened
  <2>3. work'.punished \in [Nodes -> 0..num']
    BY <1>0, <2>1, <2>2, ParamsTyped
  <2> QED
    BY <2>1, <2>2, <2>3 DEF WorkInv, Tip
<1>3. CASE Fail \/ Duplicate
  <2>1. work' = [rows |-> rows, votes |-> votes, punished |-> punished, config |-> config]
        /\ pc' = "consensus" /\ num' = num /\ done' = done /\ chain' = chain /\ num = done + 1
    BY <1>3 DEF Fail, Duplicate, Retry, tables, ThreadInv
  <2>2. /\ work' \in Work /\ Sound(chain, work'.rows, work'.votes, done)
        /\ work'.punished \in [Nodes -> 0..done] /\ work'.config \in [Params -> 0..Tip]
    BY <2>1, Opened
  <2>3. work'.punished \in [Nodes -> 0..num']
    BY <1>0, <2>1, <2>2, ParamsTyped
  <2> QED
    BY <2>1, <2>2, <2>3 DEF WorkInv, Tip
<1>4. CASE Consensus \/ NewBlock
  <2>1. WorkIs(work', done)
    BY <1>4, Punishes, Rotates
  <2>2. pc' # "commit" /\ num' = num /\ done' = done /\ chain' = chain
    BY <1>4 DEF Consensus, NewBlock, tables
  <2> QED
    BY <2>1, <2>2 DEF WorkIs, WorkInv, Tip
<1>5. CASE Propose \/ Vote
  <2>1. WorkIs(work', num)
    BY <1>5, EntersProposal, EntersVote
  <2>2. pc' = "commit" /\ num' = num /\ done' = done /\ chain' = chain
    BY <1>5 DEF Propose, Vote, tables
  <2> QED
    BY <2>1, <2>2 DEF WorkIs, WorkInv, Tip
<1>6. CASE NoTx
  <2>1. WorkIs(work, done) /\ num = done + 1
    BY <1>6, WorkBefore DEF NoTx
  <2>2. chain[done + 1].tx.type \notin Proposing
    BY <1>6, <2>1 DEF NoTx, Proposing, Enacting
  <2>3. Sound(chain, work.rows, work.votes, num)
    BY <1>0, <2>1, <2>2, SkipSound DEF WorkIs
  <2>4. pc' = "commit" /\ num' = num /\ done' = done /\ chain' = chain /\ work' = work
    BY <1>6 DEF NoTx, tables
  <2> QED
    BY <2>1, <2>3, <2>4 DEF WorkIs, WorkInv, Tip
<1>7. CASE Commit \/ Crash
  <2>1. pc' = "idle"
    BY <1>7 DEF Commit, Crash
  <2> QED
    BY <2>1 DEF WorkInv
<1>8. CASE Task \/ AskThrows \/ UNCHANGED vars
  <2>1. UNCHANGED <<pc, num, done, chain, work>>
    BY <1>8 DEF Task, Select, Ask, Update, AskThrows, vars, collection, tables
  <2> QED
    BY <2>1 DEF WorkInv, Tip
<1> QED
  BY <1>1, <1>2, <1>3, <1>4, <1>5, <1>6, <1>7, <1>8 DEF Next, Collect

-----------------------------------------------------------------------------
(* The parameters in memory *)

\* What is due in the block in work stays due: the chain grows, the cache grows.
LEMMA RotationsStay ==
  ASSUME ChainInv, ThreadInv, TablesInv,
         ChainGrows \/ UNCHANGED chain, cache \subseteq cache', num' = num,
         NEW x \in Params, Rotations(x) # {}
  PROVE  Rotations(x)' # {}
<1>1. PICK p \in Due : /\ \/ chain[p].tx.type = "param" /\ chain[p].tx.name = x
                          \/ chain[p].tx.type = "upgrade"
                       /\ Tally(p) \in {"PASS", "FINISH"}
  BY RotationsIs
<1>2. p \in Proposals /\ p \in 1..Tip /\ p \in cache /\ Active(p) = num /\ num =< Tip
  BY <1>1 DEF Due, TablesInv, ThreadInv, Proposals
<1>3. chain'[p] = chain[p] /\ Active(p)' = Active(p) /\ Tally(p)' \in {"PASS", "FINISH"}
  <2>1. CASE ChainGrows
    BY <1>1, <1>2, <2>1, ChainStep, TallyStays
  <2>2. CASE UNCHANGED chain
    BY <1>1, <2>2 DEF Active, Tally, StatusAt, CancelledAt, Proposals, EndVoting, Tip
  <2> QED
    BY <2>1, <2>2
<1>4. p \in Due'
  BY <1>2, <1>3 DEF Due
<1>5. \/ chain'[p].tx.type = "param" /\ chain'[p].tx.name = x
      \/ chain'[p].tx.type = "upgrade"
  BY <1>1, <1>3
<1> QED
  BY <1>3, <1>4, <1>5 DEF Rotations

LEMMA ParamsKept ==
  ASSUME ChainInv, ThreadInv, TablesInv, WorkInv, ParamsInv, [Next]_vars
  PROVE  ParamsInv'
<1> DEFINE Rotating == \E x \in Params : Rotations(x) # {}
<1>1. ASSUME ChainGrows \/ UNCHANGED chain, cache \subseteq cache', num' = num, Rotating
      PROVE  Rotating'
  BY <1>1, RotationsStay
<1>2. CASE ChainGrows \/ Task \/ AskThrows \/ UNCHANGED vars
  <2>1. UNCHANGED <<pc, work, mem, cache, num, config>> /\ (ChainGrows \/ UNCHANGED chain)
    BY <1>2 DEF ChainGrows, Task, Select, Ask, Update, AskThrows, vars, collection, tables
  <2>2. Rotating => Rotating'
    BY <1>1, <2>1
  <2> HIDE DEF Rotating
  <2> QED
    BY <2>1, <2>2 DEF ParamsInv, Rotating
<1>3. CASE Begin
  <2>1. mem = config /\ mem' = mem /\ config' = config /\ pc' = "consensus" /\ work'.config = config
    BY <1>3 DEF Begin, ParamsInv, tables
  <2> QED
    BY <2>1 DEF ParamsInv
<1>4. CASE Fail \/ Duplicate
  <2>1. mem' = mem /\ config' = config /\ pc' = "consensus" /\ work'.config = config
        /\ cache' = cache /\ num' = num /\ chain' = chain
    BY <1>4 DEF Fail, Duplicate, Retry, tables
  <2>2. Rotating => Rotating'
    BY <1>1, <2>1
  <2> QED
    BY <2>1, <2>2 DEF ParamsInv
<1>5. CASE Consensus
  <2>1. mem' = mem /\ config' = config /\ pc = "consensus" /\ pc' = "newBlock"
        /\ cache' = cache /\ num' = num /\ chain' = chain
    BY <1>5 DEF Consensus, tables
  <2>2. work'.config = work.config
    BY <1>5, Punishes
  <2>3. Rotating => Rotating'
    BY <1>1, <2>1
  <2> QED
    BY <2>1, <2>2, <2>3 DEF ParamsInv
<1>6. CASE NewBlock
  <2>1. config' = config /\ pc = "newBlock" /\ pc' = "tx"
        /\ cache' = cache /\ num' = num /\ chain' = chain
    BY <1>6 DEF NewBlock, tables
  <2>2. Rotating => mem' = work'.config
    BY <1>6, Rotates
  <2>3. ~Rotating => mem' = mem /\ work'.config = work.config
    BY <1>6, Rotates
  <2>4. work.config = config /\ (mem # config => Rotating)
    BY <2>1 DEF ParamsInv
  <2>5. Rotating => Rotating'
    BY <1>1, <2>1
  <2>6. mem' = work'.config /\ (mem' # config' => Rotating')
    BY <2>1, <2>2, <2>3, <2>4, <2>5
  <2> QED
    BY <2>1, <2>6 DEF ParamsInv
<1>7. CASE Propose \/ Vote \/ NoTx
  <2>1. mem' = mem /\ config' = config /\ pc = "tx" /\ pc' = "commit"
        /\ cache \subseteq cache' /\ num' = num /\ chain' = chain
    BY <1>7 DEF Propose, Vote, NoTx, tables
  <2>2. work'.config = work.config
    BY <1>7, EntersProposal, EntersVote DEF NoTx
  <2>3. Rotating => Rotating'
    BY <1>1, <2>1
  <2> QED
    BY <2>1, <2>2, <2>3 DEF ParamsInv
<1>8. CASE Commit
  <2>1. mem' = mem /\ config' = work.config /\ work.config = mem /\ pc' = "idle"
    BY <1>8 DEF Commit, ParamsInv
  <2> QED
    BY <2>1 DEF ParamsInv
<1>9. CASE Crash
  <2>1. mem' = config /\ config' = config /\ pc' = "idle"
    BY <1>9 DEF Crash, tables
  <2> QED
    BY <2>1 DEF ParamsInv
<1> QED
  BY <1>2, <1>3, <1>4, <1>5, <1>6, <1>7, <1>8, <1>9 DEF Next, Collect

-----------------------------------------------------------------------------
(* The task *)

LEMMA StatusTyped ==
  ASSUME NEW p \in Nat, NEW b \in Nat
  PROVE  StatusAt(p, b) \in Statuses
<1>1. EndVoting(p) \in Int
  BY VotingEnds
<1> QED
  BY <1>1 DEF StatusAt, Statuses

LEMMA TaskKept ==
  ASSUME ChainInv, ThreadInv, TablesInv, WorkInv, TaskInv, [Next]_vars
  PROVE  TaskInv'
<1>0. /\ Tip \in Nat /\ done \in Nat
      /\ rows \in [Proposed(chain, done) -> Row] /\ DOMAIN rows = Proposed(chain, done)
  BY DEF ChainInv, Tip, ThreadInv, TablesInv, Sound
<1>1. CASE ChainGrows \/ Begin \/ Consensus \/ NewBlock \/ Propose \/ Vote \/ NoTx \/ Fail \/ Duplicate
           \/ UNCHANGED vars
  <2>1. UNCHANGED <<tpc, todo, early, found, rows>>
    BY <1>1 DEF ChainGrows, Begin, Consensus, NewBlock, Propose, Vote, NoTx, Fail, Duplicate, Retry,
       vars, task, tables
  <2> QED
    BY <2>1 DEF TaskInv
<1>2. CASE Commit
  <2>1. UNCHANGED <<tpc, todo, early, found>>
    BY <1>2 DEF Commit, task
  <2>2. Sound(chain, rows', work.votes, num) /\ num = done + 1
    BY <1>2, CommitSound DEF Commit, ThreadInv
  <2>3. DOMAIN rows' = Proposed(chain, num)
    BY <2>2 DEF Sound
  <2>4. DOMAIN rows \subseteq DOMAIN rows'
    BY <1>0, <2>2, <2>3 DEF Proposed
  <2> QED
    BY <2>1, <2>4 DEF TaskInv
<1>3. CASE Select
  <2>1. found' = [p \in Pending |-> rows[p].status] /\ todo' = Pending /\ tpc' = "ask"
        /\ early' = early /\ rows' = rows
    BY <1>3 DEF Select, tables
  <2>2. Pending \subseteq DOMAIN rows /\ \A p \in Pending : rows[p].status \in Statuses
    BY <1>0 DEF Pending, Row
  <2> QED
    BY <2>1, <2>2 DEF TaskInv
<1>4. CASE Ask
  <2>1. PICK p \in todo : /\ todo' = todo \ {p}
                          /\ found' = IF Skipped(p) THEN found ELSE [found EXCEPT ![p] = StatusFound(p)]
    BY <1>4 DEF Ask
  <2>2. p \in Nat
    BY <1>0, <2>1 DEF TaskInv, Proposed
  <2>3. p \in DOMAIN found => StatusFound(p) \in Statuses
    BY <1>0, <2>2, StatusTyped DEF StatusFound, Tally, TaskInv
  <2>4. tpc' = tpc /\ early' = early /\ rows' = rows
    BY <1>4 DEF Ask, tables
  <2>5. DOMAIN found' = DOMAIN found /\ found' \in [DOMAIN found -> Statuses]
    BY <2>1, <2>3 DEF TaskInv
  <2> QED
    BY <2>1, <2>4, <2>5 DEF TaskInv
<1>5. CASE AskThrows
  <2>1. UNCHANGED <<tpc, early, found, rows>> /\ todo' \subseteq todo
    BY <1>5 DEF AskThrows, tables
  <2> QED
    BY <2>1 DEF TaskInv
<1>6. CASE Update
  <2>1. DOMAIN rows' = DOMAIN rows
    BY <1>6, UpdateSound
  <2>2. /\ early' = early \cup {p \in DOMAIN found : found[p] # "VOTING" /\ done < EndVoting(p)}
        /\ tpc' = "idle" /\ found' = <<>> /\ todo' = todo
    BY <1>6 DEF Update
  <2> QED
    BY <2>1, <2>2, NothingAtAll DEF TaskInv
<1>7. CASE Crash
  <2>1. tpc' = "idle" /\ todo' = {} /\ found' = <<>> /\ early' = early /\ rows' = rows
    BY <1>7 DEF Crash, tables
  <2> QED
    BY <2>1, NothingAtAll DEF TaskInv
<1> QED
  BY <1>1, <1>2, <1>3, <1>4, <1>5, <1>6, <1>7 DEF Next, Collect, Task

-----------------------------------------------------------------------------
(* The theorems *)

LEMMA GovernanceInvariant == Spec => []GovInv
<1>1. Init => GovInv
  BY InitInv
<1>2. GovInv /\ [Next]_vars => GovInv'
  BY ChainKept, ThreadKept, TablesKept, WorkKept, ParamsKept, TaskKept DEF GovInv
<1> QED
  BY <1>1, <1>2, PTL DEF Spec

\* The state is typed; in particular the table has a row for each proposal of
\* the committed blocks and no other, whatever fails or crashes.
THEOREM GovernanceTyped == Spec => []TypeOK
<1>1. GovInv => TypeOK
  <2> SUFFICES ASSUME GovInv PROVE TypeOK
    OBVIOUS
  <2>1. ChainInv /\ ThreadInv /\ TablesInv /\ TaskInv
    BY DEF GovInv
  <2>2. Tip \in Nat /\ done \in 0..Tip /\ num \in {done, done + 1}
    BY <2>1 DEF ChainInv, Tip, ThreadInv
  <2>3. rows \in [Proposed(chain, done) -> Row] /\ DOMAIN rows = Proposed(chain, done)
    BY <2>1 DEF TablesInv, Sound
  <2>4. DOMAIN rows = Proposals \cap 1..done
    BY <2>2, <2>3 DEF Proposed, Proposals
  <2>5. \A p \in DOMAIN rows : rows[p] \in [status : Statuses, sums : [Options -> Nat]]
    BY <2>3 DEF Row
  <2>6. votes \subseteq [node : Nodes, prop : DOMAIN rows, option : Options, valid : BOOLEAN]
    <3>1. votes \subseteq VoteRow /\ \A v \in votes : v.prop \in DOMAIN rows
      BY <2>1, <2>3 DEF TablesInv, Sound
    <3> QED
      BY <3>1 DEF VoteRow
  <2>7. again \in BOOLEAN
    BY <2>1 DEF ThreadInv
  <2>8. \A p \in DOMAIN found : found[p] \in Statuses
    BY <2>1 DEF TaskInv
  <2> QED
    BY <2>1, <2>2, <2>4, <2>5, <2>6, <2>7, <2>8 DEF TypeOK, ThreadInv, TablesInv, TaskInv
<1> QED
  BY <1>1, GovernanceInvariant, PTL

\* rotateConfig and overrideBlockChainConfig: between blocks the parameters in
\* memory are the table's, although a rollback leaves memory changed: the retry
\* of the block rotates again.
THEOREM MemoryFollowsTable == Spec => []MemoryIsTable
<1>1. GovInv => MemoryIsTable
  BY DEF GovInv, ParamsInv, MemoryIsTable
<1> QED
  BY <1>1, GovernanceInvariant, PTL

\* ProposalVoteAnalyzer and proposalSlashUpdate: the sums of a proposal are its
\* valid votes.
THEOREM SumsAreVotes == Spec => []SumsMatchVotes
<1>1. GovInv => SumsMatchVotes
  <2> SUFFICES ASSUME GovInv, NEW p \in DOMAIN rows, NEW o \in Options
               PROVE  rows[p].sums[o] = Cardinality(Counting(votes, p, o))
    BY DEF SumsMatchVotes, Counting
  <2>1. Sound(chain, rows, votes, done)
    BY DEF GovInv, TablesInv
  <2>2. p \in Proposed(chain, done)
    BY <2>1 DEF Sound
  <2> QED
    BY <2>1, <2>2 DEF Sound
<1> QED
  BY <1>1, GovernanceInvariant, PTL

-----------------------------------------------------------------------------
(***************************************************************************)
(* The values of the parameters, and the votes of punished nodes           *)
(***************************************************************************)

\* The chain votes on one parameter proposal at a time, and takes no vote of a
\* node it has punished.
VotingInv ==
  /\ \A p, q \in Proposals :
       chain[p].tx.type = "param" /\ chain[q].tx.type = "param" /\ p < q =>
         EndVoting(p) =< q \/ CancelledAt(p, Tip)
  /\ \A b \in 1..Tip : chain[b].tx.type = "vote" =>
       \A c \in 1..b : chain[b].tx.node \notin chain[c].slash

\* A vote lasts at least to the block of its proposal.
LEMMA Multiple ==
  ASSUME NEW a \in Nat, NEW s \in Nat \ {0}
  PROVE  ((a + s - 1) \div s) * s >= a
<1> DEFINE x == a + s - 1  q == x \div s  r == x % s
<1>1. x \in Int /\ q \in Int /\ r \in 0..(s - 1)
  OBVIOUS
<1>2. x = s * q + r
  OBVIOUS
<1> HIDE DEF q, r
<1>3. PICK m \in Int : m = s * q
  BY <1>1
<1>4. m = q * s
  BY <1>1, <1>3
<1>5. m >= a
  BY <1>1, <1>2, <1>3
<1> QED
  BY <1>4, <1>5 DEF q

LEMMA ParamEndAfter ==
  ASSUME NEW b \in Nat
  PROVE  /\ ParamEnd(b) >= b
         /\ VoteDuration >= SettlePeriod => ParamEnd(b) > b
<1> DEFINE s == SettlePeriod
           q == (b + s - 1) \div s
           d == VoteDuration \div s
<1>1. s \in Nat \ {0} /\ q \in Int /\ d \in Nat /\ (VoteDuration >= s => d >= 1)
  <2>1. VoteDuration \in Nat /\ s \in Nat \ {0}
    BY Constants
  <2>2. d \in Nat
    BY <2>1
  <2>3. VoteDuration = s * d + (VoteDuration % s) /\ VoteDuration % s \in 0..(s - 1)
    BY <2>1
  <2>4. d = 0 => s * d = 0
    BY <2>1
  <2>5. VoteDuration >= s => d # 0
    BY <2>1, <2>3, <2>4
  <2> QED
    BY <2>1, <2>2, <2>5
<1>2. q * s >= b
  BY <1>1, Multiple
<1>3. ParamEnd(b) = (q + d) * s
  BY DEF ParamEnd
<1> HIDE DEF s, q, d
<1>4. (q + d) * s = q * s + d * s
  BY <1>1
<1>5. q * s \in Int /\ d * s \in Nat /\ (d >= 1 => d * s >= 1)
  BY <1>1
<1> QED
  BY <1>1, <1>2, <1>3, <1>4, <1>5 DEF s

LEMMA RoundEndAfter ==
  ASSUME NEW b \in Nat
  PROVE  RoundEnd(b) > b
<1> DEFINE m == VoteRounds * ConsensusPeriod  r == b % ConsensusPeriod
<1>1. r \in 0..(ConsensusPeriod - 1) /\ m \in Nat /\ m >= ConsensusPeriod
  <2>1. r \in 0..(ConsensusPeriod - 1)
    BY Constants, Z3
  <2>2. PICK v \in Nat : VoteRounds = v + 1
    <3>1. VoteRounds - 1 \in Nat
      BY Constants
    <3> QED
      BY <3>1, Constants
  <2>3. m = v * ConsensusPeriod + ConsensusPeriod /\ v * ConsensusPeriod \in Nat
    BY <2>2, Constants
  <2> QED
    BY <2>1, <2>3, Constants
<1>2. RoundEnd(b) = b + ConsensusPeriod - r + m - EndMargin
  BY DEF RoundEnd
<1> HIDE DEF m, r
<1>3. ConsensusPeriod \in Nat /\ EndMargin \in Nat /\ EndMargin < ConsensusPeriod
  BY GovernanceAssumption
<1> QED
  BY <1>1, <1>2, <1>3

LEMMA VotingEndsAfter ==
  ASSUME NEW p \in Nat
  PROVE  EndVoting(p) >= p /\ Active(p) > p
<1>1. EndVoting(p) \in Int /\ Active(p) \in Int /\ EndVoting(p) < Active(p)
  BY VotingEnds
<1>2. EndVoting(p) >= p
  BY ParamEndAfter, RoundEndAfter, EndsInt DEF EndVoting
<1> QED
  BY <1>1, <1>2

-----------------------------------------------------------------------------
(* Cancelled proposals *)

\* Some passed proposal cancels p, sooner or later.
Cancels(c, p) == chain[c].tx.type = "cancel" /\ chain[c].tx.target = p /\ chain[c].tx.passes
Cancelled(p) == \E c \in Proposals : Cancels(c, p)

\* When the vote on a proposal ends it is known whether it is cancelled.
LEMMA CancelledInTime ==
  ASSUME ChainInv, NEW p \in Proposals, NEW b \in Int
  PROVE  /\ CancelledAt(p, b) => Cancelled(p)
         /\ b >= EndVoting(p) => (CancelledAt(p, b) <=> Cancelled(p))
<1>1. ASSUME NEW c \in Proposals, Cancels(c, p), b >= EndVoting(p) PROVE EndVoting(c) <= b
  <2>1. c \in 1..Tip /\ c \in Nat /\ p \in Nat
    BY DEF Proposals
  <2>2. EndVoting(c) < EndVoting(p)
    BY <1>1, <2>1 DEF ChainInv, Cancels
  <2> QED
    BY <1>1, <2>1, <2>2, VotingEnds
<1> QED
  BY <1>1 DEF CancelledAt, Cancelled, Cancels

\* A chain that grows cancels proposals that are voted on beyond its new block.
LEMMA CancelledGrows ==
  ASSUME ChainInv, ChainGrows, NEW p \in Proposals
  PROVE  /\ Cancelled(p) => Cancelled(p)'
         /\ EndVoting(p) =< Tip + 1 => (Cancelled(p)' <=> Cancelled(p))
         /\ \A b \in Int : b =< Tip + 1 => (CancelledAt(p, b)' <=> CancelledAt(p, b))
<1>1. /\ Tip \in Nat /\ Tip' = Tip + 1 /\ p \in 1..Tip /\ p \in Nat
      /\ \A q \in 1..Tip : chain'[q] = chain[q] /\ EndVoting(q)' = EndVoting(q)
      /\ chain'[Tip + 1].tx \in TxsOf
  BY ChainStep DEF Proposals
<1>2. /\ Proposals \subseteq Proposals' /\ \A c \in Proposals' : c \in Proposals \/ c = Tip + 1
      /\ \A c \in Proposals : c \in 1..Tip
  BY ProposalsGrow DEF Proposals
<1>3. \A c \in Proposals : (Cancels(c, p)' <=> Cancels(c, p)) /\ EndVoting(c)' = EndVoting(c)
  BY <1>1, <1>2 DEF Cancels
<1>k. PICK k \in Nat : k = Tip + 1
  BY <1>1
<1>4. Cancels(k, p)' => Open(p) /\ EndVoting(k)' = RoundEnd(k)
  <2>1. PICK t \in TxsOf : chain'[k].tx = t
    BY <1>1, <1>k
  <2>2. t.type = "cancel" => Open(t.target)
    BY DEF TxsOf
  <2>3. Cancels(k, p)' => t.type = "cancel" /\ t.target = p
    BY <2>1 DEF Cancels
  <2>4. t.type = "cancel" => EndVoting(k)' = RoundEnd(k)
    BY <2>1 DEF EndVoting
  <2> QED
    BY <2>2, <2>3, <2>4
<1>5. Open(p) => Tip + 1 < EndVoting(p)
  BY DEF Open
<1>6. RoundEnd(k) > Tip + 1 /\ RoundEnd(k) \in Int /\ EndVoting(p) \in Int
  BY <1>1, <1>k, RoundEndAfter, EndsInt, VotingEnds
<1>7. Cancelled(p) => Cancelled(p)'
  BY <1>2, <1>3 DEF Cancelled
<1>8. ASSUME EndVoting(p) =< Tip + 1, Cancelled(p)' PROVE Cancelled(p)
  <2>1. PICK c \in Proposals' : Cancels(c, p)'
    BY <1>8 DEF Cancelled
  <2>2. c # Tip + 1
    BY <1>1, <1>k, <1>4, <1>5, <1>6, <1>8, <2>1
  <2> QED
    BY <1>2, <1>3, <2>1, <2>2 DEF Cancelled
<1>9. ASSUME NEW b \in Int, b =< Tip + 1 PROVE CancelledAt(p, b)' <=> CancelledAt(p, b)
  <2>1. CancelledAt(p, b) <=> \E c \in Proposals : Cancels(c, p) /\ EndVoting(c) <= b
    BY DEF CancelledAt, Cancels
  <2>2. CancelledAt(p, b)' <=> \E c \in Proposals' : Cancels(c, p)' /\ EndVoting(c)' <= b
    BY DEF CancelledAt, Cancels
  <2>3. ASSUME NEW c \in Proposals', Cancels(c, p)', EndVoting(c)' <= b PROVE c \in Proposals
    BY <1>1, <1>2, <1>k, <1>4, <1>6, <1>9, <2>3
  <2> QED
    BY <1>2, <1>3, <2>1, <2>2, <2>3
<1> QED
  BY <1>7, <1>8, <1>9

\* The status of a proposal in a block of the chain is settled.
LEMMA StatusStays ==
  ASSUME ChainInv, ChainGrows, NEW p \in Proposals, NEW b \in Int, b =< Tip
  PROVE  StatusAt(p, b)' = StatusAt(p, b)
<1>1. CancelledAt(p, b)' <=> CancelledAt(p, b)
  <2>1. Tip \in Nat
    BY ChainStep
  <2> QED
    BY <2>1, CancelledGrows
<1>2. chain'[p] = chain[p] /\ EndVoting(p)' = EndVoting(p) /\ Active(p)' = Active(p)
  BY ChainStep DEF Proposals
<1>3. CASE CancelledAt(p, b)
  BY <1>1, <1>3 DEF StatusAt
<1>4. CASE ~CancelledAt(p, b)
  BY <1>1, <1>2, <1>4, VotingEnds DEF StatusAt, Proposals
<1> QED
  BY <1>3, <1>4

-----------------------------------------------------------------------------
(* Votes *)

LEMMA VotingKept == ChainInv /\ VotingInv /\ [Next]_vars => VotingInv'
<1> SUFFICES ASSUME ChainInv, VotingInv, [Next]_vars PROVE VotingInv'
  OBVIOUS
<1>1. CASE UNCHANGED chain
  BY <1>1 DEF VotingInv, CancelledAt, Tip, EndVoting, Proposals
<1>2. CASE ChainGrows
  <2>1. /\ Tip \in Nat /\ Tip' = Tip + 1
        /\ \A p \in 1..Tip : chain'[p] = chain[p] /\ EndVoting(p)' = EndVoting(p)
        /\ Proposals \subseteq Proposals'
        /\ \A p \in Proposals' : p \in Proposals \/ p = Tip + 1
        /\ \A p \in Proposals : p \in 1..Tip
    BY <1>2, ChainStep, ProposalsGrow DEF Proposals
  <2>2. PICK t \in TxsOf, s \in {{}} \cup {{n} : n \in Nodes} :
          /\ chain' = Append(chain, [tx |-> t, slash |-> s])
          /\ t.type = "vote" => t.node \notin s
    BY <1>2 DEF ChainGrows
  <2>3. chain'[Tip + 1] = [tx |-> t, slash |-> s]
    BY <2>1, <2>2 DEF Tip, ChainInv
  <2>4. ASSUME NEW p \in Proposals', NEW q \in Proposals', chain'[p].tx.type = "param",
               chain'[q].tx.type = "param", p < q
        PROVE  EndVoting(p)' =< q \/ CancelledAt(p, Tip)'
    <3>1. p \in Proposals /\ chain[p].tx.type = "param"
      BY <2>1, <2>4
    <3>2. CancelledAt(p, Tip) => CancelledAt(p, Tip)'
      <4>1. CancelledAt(p, Tip) => \E c \in Proposals : /\ chain[c].tx.type = "cancel"
              /\ chain[c].tx.target = p /\ chain[c].tx.passes /\ EndVoting(c) <= Tip
        BY DEF CancelledAt
      <4>2. \A c \in Proposals : EndVoting(c) \in Int
        BY <2>1, VotingEnds
      <4> QED
        BY <2>1, <4>1, <4>2 DEF CancelledAt
    <3>3. CASE q \in Proposals
      BY <2>1, <2>4, <3>1, <3>2, <3>3 DEF VotingInv
    <3>4. CASE q = Tip + 1
      <4>1. t.type = "param"
        BY <2>3, <2>4, <3>4
      <4>2. ~Open(p)
        BY <3>1, <4>1 DEF TxsOf
      <4>3. StatusAt(p, Tip) # "VOTING" \/ EndVoting(p) =< Tip + 1
        BY <2>1, <3>1, <4>2, VotingEnds DEF Open
      <4>4. StatusAt(p, Tip) # "VOTING" => CancelledAt(p, Tip) \/ EndVoting(p) =< Tip
        BY <2>1, <3>1, VotingEnds DEF StatusAt
      <4> QED
        BY <2>1, <3>1, <3>2, <3>4, <4>3, <4>4, VotingEnds
    <3> QED
      BY <2>1, <3>3, <3>4
  <2>5. ASSUME NEW b \in 1..Tip', chain'[b].tx.type = "vote", NEW c \in 1..b
        PROVE  chain'[b].tx.node \notin chain'[c].slash
    <3>1. CASE b \in 1..Tip
      <4>1. c \in 1..Tip
        BY <2>1, <3>1
      <4> QED
        BY <2>1, <2>5, <3>1, <4>1 DEF VotingInv
    <3>2. CASE b = Tip + 1
      <4>1. t.type = "vote" /\ t.node \notin s /\ t.node \notin Slashed
        <5>1. t.type = "vote"
          BY <2>3, <2>5, <3>2
        <5>2. t.node \notin Slashed
          BY <5>1 DEF TxsOf
        <5> QED
          BY <2>2, <5>1, <5>2
      <4>2. chain'[b].tx.node = t.node
        BY <2>3, <3>2
      <4>3. CASE c = Tip + 1
        BY <2>3, <4>1, <4>2, <4>3
      <4>4. CASE c \in 1..Tip
        BY <2>1, <4>1, <4>2, <4>4 DEF Slashed
      <4> QED
        BY <2>1, <3>2, <4>3, <4>4
    <3> QED
      BY <2>1, <3>1, <3>2
  <2> QED
    BY <2>4, <2>5 DEF VotingInv
<1> QED
  BY <1>1, <1>2 DEF Next, vars, Collect, Begin, Consensus, NewBlock, Propose, Vote, NoTx, Commit,
     Fail, Duplicate, Retry, Task, Select, Ask, Update, AskThrows, Crash

-----------------------------------------------------------------------------
(* The votes of punished nodes *)

\* A node is punished in a block that punishes it, and its votes that count are on
\* proposals that had ended in that block or whose rows left VOTING too early.
Kept(V, P) ==
  /\ \A n \in Nodes : P[n] # 0 => n \in chain[P[n]].slash
  /\ \A v \in V : v.valid /\ P[v.node] # 0 =>
       EndVoting(v.prop) =< P[v.node] \/ v.prop \in early

PunishInv ==
  /\ \A p \in DOMAIN rows :
       rows[p].status = "VOTING" \/ p \in early \/ EndVoting(p) =< done
  /\ Kept(votes, punished)
  /\ pc # "idle" =>
       /\ reports \subseteq chain[num].slash
       /\ Kept(work.votes, work.punished)
       /\ \A p \in DOMAIN work.rows \ DOMAIN rows : work.rows[p].status = "VOTING"

\* The tables keep what they keep when the chain grows and rows are found early.
LEMMA KeptGrows ==
  ASSUME ChainInv, ThreadInv, ChainGrows \/ UNCHANGED chain, early \subseteq early',
         NEW R, NEW V, NEW k \in Nat, k =< Tip, Sound(chain, R, V, k),
         NEW P \in [Nodes -> 0..Tip], Kept(V, P)
  PROVE  /\ \A n \in Nodes : P[n] # 0 => n \in chain'[P[n]].slash
         /\ \A v \in V : v.valid /\ P[v.node] # 0 =>
              EndVoting(v.prop)' =< P[v.node] \/ v.prop \in early'
<1>1. Tip \in Nat
  BY DEF ChainInv, Tip
<1>2. \A p \in 1..Tip : chain'[p] = chain[p] /\ EndVoting(p)' = EndVoting(p)
  <2>1. CASE ChainGrows
    BY <2>1, ChainStep
  <2>2. CASE UNCHANGED chain
    BY <2>2 DEF EndVoting
  <2> QED
    BY <2>1, <2>2
<1>3. \A v \in V : v.prop \in 1..Tip
  BY <1>1 DEF Sound, Proposed
<1>4. ASSUME NEW n \in Nodes, P[n] # 0 PROVE n \in chain'[P[n]].slash
  <2>1. P[n] \in 1..Tip
    BY <1>1, <1>4
  <2> QED
    BY <1>2, <1>4, <2>1 DEF Kept
<1>5. ASSUME NEW v \in V, v.valid, P[v.node] # 0
      PROVE  EndVoting(v.prop)' =< P[v.node] \/ v.prop \in early'
  BY <1>2, <1>3, <1>5 DEF Kept
<1> QED
  BY <1>4, <1>5

\* setSlashParameters leaves the votes of the punished nodes that are on proposals
\* whose rows say something else than VOTING.
LEMMA PunishesKept ==
  ASSUME ChainInv, ThreadInv, TablesInv, WorkInv, PunishInv, Consensus
  PROVE  Kept(work.votes, work.punished) /\ Kept(work'.votes, work'.punished)
<1>1. /\ pc \notin {"idle", "commit"} /\ WorkIs(work, done) /\ num = done + 1
      /\ num \in 1..Tip /\ Tip \in Nat /\ done \in Nat
  BY WorkBefore DEF Consensus
<1>2. reports \subseteq chain[num].slash /\ Kept(work.votes, work.punished)
  BY <1>1 DEF PunishInv
<1> DEFINE S == UNION {Voidable(work, n) : n \in reports}
           f(v) == IF v \in S THEN [v EXCEPT !.valid = FALSE] ELSE v
           V == {f(v) : v \in work.votes}
           P == [n \in Nodes |-> IF n \in reports THEN num ELSE work.punished[n]]
<1>3. work'.votes = V /\ work'.punished = P
  <2> DEFINE R == [p \in DOMAIN work.rows |-> [work.rows[p] EXCEPT !.sums = [o \in Options |->
                     work.rows[p].sums[o] - Cardinality({v \in S : v.prop = p /\ v.option = o})]]]
  <2>1. PICK w : w = [work EXCEPT !.rows = R, !.votes = V]
    OBVIOUS
  <2>2. WithoutVotes(work, S) = w
    BY <2>1 DEF WithoutVotes
  <2>3. work' = [w EXCEPT !.punished = [n \in Nodes |-> IF n \in reports THEN num ELSE w.punished[n]]]
    BY <2>2 DEF Consensus
  <2> HIDE DEF R, V
  <2>4. work \in Work
    BY <1>1 DEF WorkIs
  <2>5. w.votes = V /\ w.punished = work.punished
    BY <2>1, <2>4 DEF Work
  <2>6. work' = [w EXCEPT !.punished = P]
    BY <2>3, <2>5
  <2> HIDE DEF P
  <2>7. w \in [rows : {w.rows}, votes : {w.votes}, punished : {w.punished}, config : {w.config}]
    BY <2>1, <2>4 DEF Work
  <2> QED
    BY <2>5, <2>6, <2>7
<1>4. work.votes \subseteq VoteRow /\ \A v \in work.votes : v.prop \in DOMAIN rows
  BY <1>1 DEF WorkIs, TablesInv, Sound
<1>5. \A v \in work.votes : v \in S => ~f(v).valid
  BY <1>4, Voided
<1>6. \A v \in work.votes : v \notin S => f(v) = v
  OBVIOUS
<1>7. ASSUME NEW n \in Nodes, P[n] # 0 PROVE n \in chain[P[n]].slash
  BY <1>2, <1>7 DEF Kept
<1>8. ASSUME NEW u \in V, u.valid, P[u.node] # 0
      PROVE  EndVoting(u.prop) =< P[u.node] \/ u.prop \in early
  <2>1. PICK v \in work.votes : u = f(v)
    OBVIOUS
  <2>2. u = v /\ v \notin S /\ v \in VoteRow /\ v.node \in Nodes /\ v.prop \in DOMAIN rows
    BY <1>4, <1>5, <1>6, <1>8, <2>1 DEF VoteRow
  <2>3. CASE v.node \notin reports
    <3>1. P[v.node] = work.punished[v.node]
      BY <2>2, <2>3
    <3> QED
      BY <1>2, <1>8, <2>2, <3>1 DEF Kept
  <2>4. CASE v.node \in reports
    <3>1. v \notin Voidable(work, v.node)
      BY <2>2, <2>4
    <3>2. rows[v.prop].status # "VOTING"
      BY <1>8, <2>2, <3>1 DEF Voidable
    <3>3. v.prop \in early \/ EndVoting(v.prop) =< done
      BY <2>2, <3>2 DEF PunishInv
    <3>4. P[v.node] = num
      BY <2>2, <2>4
    <3>5. EndVoting(v.prop) \in Int
      <4>1. v.prop \in Nat
        BY <2>2 DEF VoteRow
      <4> QED
        BY <4>1, VotingEnds
    <3> QED
      BY <1>1, <2>2, <3>3, <3>4, <3>5
  <2> QED
    BY <2>3, <2>4
<1> HIDE DEF V, P
<1>9. Kept(V, P)
  BY <1>7, <1>8 DEF Kept
<1> QED
  BY <1>2, <1>3, <1>9

\* A vote is not that of a punished node.
LEMMA VoteKept ==
  ASSUME ChainInv, ThreadInv, TablesInv, WorkInv, VotingInv, PunishInv, Vote
  PROVE  Kept(work'.votes, work'.punished)
<1>1. /\ pc \notin {"idle", "commit"} /\ WorkIs(work, done) /\ num \in 1..Tip /\ Tip \in Nat
  BY WorkBefore DEF Vote
<1>2. Kept(work.votes, work.punished)
  BY <1>1 DEF PunishInv
<1>3. PICK t : t = chain[num].tx
  OBVIOUS
<1>4. PICK v : v = [node |-> t.node, prop |-> t.prop, option |-> t.option, valid |-> TRUE]
  OBVIOUS
<1>5. PICK V : V = work.votes \cup {v}
  OBVIOUS
<1>6. work'.votes = V /\ work'.punished = work.punished
  <2>1. work' = [work EXCEPT !.rows[t.prop].sums[t.option] = @ + 1, !.votes = @ \cup {v}]
    BY <1>3, <1>4, Zenon DEF Vote
  <2>2. PICK R : R = [work.rows EXCEPT ![t.prop].sums[t.option] = @ + 1]
    OBVIOUS
  <2>3. work' = [work EXCEPT !.rows = R, !.votes = V]
    BY <1>5, <2>1, <2>2
  <2> QED
    BY <1>1, <2>3 DEF WorkIs, Work
<1>7. v.node = t.node /\ t.node \in Nodes
  <2>1. chain[num] \in Block
    BY <1>1 DEF ChainInv, Tip
  <2>2. t.type = "vote" /\ t \in Tx
    BY <1>3, <2>1 DEF Vote, Block
  <2>3. t \in [type : {"vote"}, node : Nodes, prop : Nat, option : Options]
    BY <2>2 DEF Tx
  <2> QED
    BY <1>4, <2>3
<1>8. work.punished[v.node] = 0
  <2> SUFFICES ASSUME work.punished[v.node] # 0 PROVE FALSE
    OBVIOUS
  <2>1. PICK k : k = work.punished[v.node]
    OBVIOUS
  <2>2. k \in 1..num
    BY <1>1, <1>7, <2>1 DEF WorkIs
  <2>3. t.node \in chain[k].slash
    BY <1>2, <1>7, <2>1 DEF Kept
  <2> QED
    BY <1>1, <1>3, <2>2, <2>3 DEF VotingInv, Vote
<1>9. Kept(V, work.punished)
  BY <1>2, <1>5, <1>8 DEF Kept
<1> QED
  BY <1>6, <1>9

\* The statuses after a commit and after an update.
LEMMA CommitStatus ==
  ASSUME ChainInv, ThreadInv, TablesInv, WorkInv, Commit, NEW p \in DOMAIN rows'
  PROVE  /\ p \in DOMAIN work.rows
         /\ p \in DOMAIN rows => rows'[p].status = rows[p].status
         /\ p \notin DOMAIN rows => rows'[p] = work.rows[p]
<1>1. pc = "commit" /\ pc # "idle"
  BY DEF Commit
<1>2. work.rows \in [Proposed(chain, num) -> Row] /\ rows \in [Proposed(chain, done) -> Row]
  BY <1>1 DEF WorkInv, Sound, TablesInv
<1>3. rows' = [q \in DOMAIN work.rows |->
                 IF q \in DOMAIN rows THEN [work.rows[q] EXCEPT !.status = rows[q].status]
                 ELSE work.rows[q]]
  BY DEF Commit
<1>4. p \in DOMAIN work.rows
  BY <1>3
<1>5. CASE p \in DOMAIN rows
  <2>1. PICK q \in Row : q = work.rows[p]
    BY <1>2, <1>4
  <2>2. PICK e \in Statuses : e = rows[p].status
    BY <1>2, <1>5 DEF Row
  <2>3. PICK x : x = [q EXCEPT !.status = e]
    OBVIOUS
  <2>4. x.status = e
    BY <2>3, Restatused
  <2>5. rows'[p] = x
    BY <1>3, <1>4, <1>5, <2>1, <2>2, <2>3, Zenon
  <2> QED
    BY <1>4, <1>5, <2>2, <2>4, <2>5
<1>6. CASE p \notin DOMAIN rows
  BY <1>3, <1>4, <1>6, Zenon
<1> QED
  BY <1>4, <1>5, <1>6

LEMMA UpdateStatus ==
  ASSUME TablesInv, TaskInv, Update, NEW p \in DOMAIN rows'
  PROVE  /\ p \in DOMAIN rows
         /\ p \in DOMAIN found => rows'[p].status = found[p]
         /\ p \notin DOMAIN found => rows'[p] = rows[p]
<1>1. rows \in [Proposed(chain, done) -> Row]
  BY DEF Sound, TablesInv
<1>2. rows' = [q \in DOMAIN rows |->
                 IF q \in DOMAIN found THEN [rows[q] EXCEPT !.status = found[q]] ELSE rows[q]]
  BY DEF Update
<1>3. p \in DOMAIN rows
  BY <1>2
<1>4. CASE p \in DOMAIN found
  <2>1. PICK q \in Row : q = rows[p]
    BY <1>1, <1>3
  <2>2. PICK e \in Statuses : e = found[p]
    BY <1>4 DEF TaskInv
  <2>3. PICK x : x = [q EXCEPT !.status = e]
    OBVIOUS
  <2>4. x.status = e
    BY <2>3, Restatused
  <2>5. rows'[p] = x
    BY <1>2, <1>3, <1>4, <2>1, <2>2, <2>3, Zenon
  <2> QED
    BY <1>3, <1>4, <2>2, <2>4, <2>5
<1>5. CASE p \notin DOMAIN found
  BY <1>2, <1>3, <1>5, Zenon
<1> QED
  BY <1>3, <1>4, <1>5

\* What the block in work enters that the table does not have is a new proposal.
LEMMA NewRows ==
  ASSUME ChainInv, ThreadInv, TablesInv, WorkInv, pc \notin {"idle", "commit"}
  PROVE  DOMAIN work.rows = DOMAIN rows
BY WorkBefore DEF WorkIs, TablesInv, Sound

LEMMA EnteredRows ==
  ASSUME ChainInv, ThreadInv, TablesInv, WorkInv, Propose \/ Vote \/ NoTx
  PROVE  \A p \in DOMAIN work'.rows \ DOMAIN rows : work'.rows[p].status = "VOTING"
<1>1. /\ pc \notin {"idle", "commit"} /\ WorkIs(work, done) /\ DOMAIN work.rows = DOMAIN rows
  BY WorkBefore, NewRows DEF Propose, Vote, NoTx
<1>2. CASE Propose
  <2>1. PICK R : R = [p \in DOMAIN work.rows \cup {num} |->
                       IF p = num THEN [status |-> "VOTING", sums |-> NoSums] ELSE work.rows[p]]
    OBVIOUS
  <2>2. work' = [work EXCEPT !.rows = R]
    BY <1>2, <2>1, Zenon DEF Propose
  <2>3. work'.rows = R
    BY <1>1, <2>2, WorkReplaced DEF WorkIs
  <2> QED
    BY <1>1, <2>1, <2>3
<1>3. CASE Vote
  <2>1. PICK t : t = chain[num].tx
    OBVIOUS
  <2>2. PICK R : R = [work.rows EXCEPT ![t.prop].sums[t.option] = @ + 1]
    OBVIOUS
  <2>3. PICK V : V = work.votes \cup {[node |-> t.node, prop |-> t.prop, option |-> t.option,
                                        valid |-> TRUE]}
    OBVIOUS
  <2>4. work' = [work EXCEPT !.rows = R, !.votes = V]
    BY <1>3, <2>1, <2>2, <2>3 DEF Vote
  <2>5. work'.rows = R
    BY <1>1, <2>4 DEF WorkIs, Work
  <2>6. DOMAIN R = DOMAIN work.rows
    BY <2>2
  <2> QED
    BY <1>1, <2>5, <2>6
<1>4. CASE NoTx
  BY <1>1, <1>4 DEF NoTx
<1> QED
  BY <1>2, <1>3, <1>4

LEMMA PunishKept ==
  ASSUME ChainInv, ThreadInv, TablesInv, WorkInv, TaskInv, VotingInv, PunishInv, [Next]_vars
  PROVE  PunishInv'
<1>0. /\ Tip \in Nat /\ done \in Nat /\ done =< Tip /\ num \in Nat /\ num =< Tip
      /\ num = IF pc = "idle" THEN done ELSE done + 1
  BY DEF ChainInv, Tip, ThreadInv
<1>a. /\ rows \in [Proposed(chain, done) -> Row] /\ Sound(chain, rows, votes, done)
      /\ punished \in [Nodes -> 0..done] /\ punished \in [Nodes -> 0..Tip]
  BY <1>0, ParamsTyped DEF TablesInv, Sound
<1>b. pc # "idle" =>
        /\ \E k \in Nat : k =< Tip /\ Sound(chain, work.rows, work.votes, k)
        /\ work.punished \in [Nodes -> 0..Tip]
  BY <1>0, ParamsTyped DEF WorkInv
<1>c. \A p \in DOMAIN rows : p \in 1..Tip /\ EndVoting(p) \in Int
  BY <1>0, <1>a, VotingEnds DEF Proposed
<1>1. CASE ChainGrows \/ Task \/ AskThrows \/ UNCHANGED vars
  <2>1. /\ UNCHANGED <<pc, num, reports, work, votes, punished, done>>
        /\ ChainGrows \/ UNCHANGED chain
        /\ early \subseteq early'
    BY <1>1 DEF ChainGrows, Task, Select, Ask, Update, AskThrows, vars, collection, tables, task
  <2>2. \A p \in DOMAIN rows' : rows'[p].status = "VOTING" \/ p \in early' \/ EndVoting(p)' =< done
    <3>0. \A p \in DOMAIN rows : EndVoting(p)' = EndVoting(p)
      <4>1. CASE ChainGrows
        BY <1>c, <4>1, ChainStep
      <4>2. CASE UNCHANGED chain
        BY <4>2 DEF EndVoting
      <4> QED
        BY <2>1, <4>1, <4>2
    <3>1. CASE Update
      <4> SUFFICES ASSUME NEW p \in DOMAIN rows', rows'[p].status # "VOTING", p \notin early'
                   PROVE  EndVoting(p)' =< done
        OBVIOUS
      <4>1. /\ p \in DOMAIN rows
            /\ p \in DOMAIN found => rows'[p].status = found[p]
            /\ p \notin DOMAIN found => rows'[p] = rows[p]
        BY <3>1, UpdateStatus
      <4>2. early' = early \cup {q \in DOMAIN found : found[q] # "VOTING" /\ done < EndVoting(q)}
        BY <3>1 DEF Update
      <4>3. EndVoting(p) =< done
        BY <1>0, <1>c, <4>1, <4>2 DEF PunishInv
      <4> QED
        BY <3>0, <4>1, <4>3
    <3>2. CASE ~Update
      <4>1. rows' = rows /\ early' = early
        BY <1>1, <3>2 DEF ChainGrows, Task, Select, Ask, AskThrows, vars, tables, task
      <4> QED
        BY <3>0, <4>1 DEF PunishInv
    <3> QED
      BY <3>1, <3>2
  <2>3. Kept(votes, punished)'
    BY <1>0, <1>a, <2>1, KeptGrows DEF Kept, PunishInv
  <2>4. ASSUME pc # "idle"
        PROVE  /\ reports \subseteq chain'[num].slash
               /\ \A n \in Nodes : work.punished[n] # 0 => n \in chain'[work.punished[n]].slash
               /\ \A v \in work.votes : v.valid /\ work.punished[v.node] # 0 =>
                    EndVoting(v.prop)' =< work.punished[v.node] \/ v.prop \in early'
               /\ \A p \in DOMAIN work.rows \ DOMAIN rows' : work.rows[p].status = "VOTING"
    <3>1. num \in 1..Tip /\ chain'[num] = chain[num]
      <4>1. num \in 1..Tip
        BY <1>0, <2>4
      <4> QED
        BY <2>1, <4>1, ChainStep
    <3>2. DOMAIN rows' = DOMAIN rows
      <4>1. CASE Update
        BY <4>1, UpdateSound
      <4>2. CASE ~Update
        BY <1>1, <4>2 DEF ChainGrows, Task, Select, Ask, AskThrows, vars, tables
      <4> QED
        BY <4>1, <4>2
    <3>3. Kept(work.votes, work.punished)
      BY <2>4 DEF PunishInv
    <3>4. PICK k \in Nat : k =< Tip /\ Sound(chain, work.rows, work.votes, k)
      BY <1>b, <2>4
    <3>5. /\ \A n \in Nodes : work.punished[n] # 0 => n \in chain'[work.punished[n]].slash
          /\ \A v \in work.votes : v.valid /\ work.punished[v.node] # 0 =>
               EndVoting(v.prop)' =< work.punished[v.node] \/ v.prop \in early'
      BY <1>b, <2>1, <2>4, <3>3, <3>4, KeptGrows
    <3> QED
      BY <2>4, <3>1, <3>2, <3>5 DEF PunishInv
  <2> QED
    BY <2>1, <2>2, <2>3, <2>4 DEF PunishInv, Kept
<1>2. ASSUME UNCHANGED chain, early' = early, rows' = rows, votes' = votes, punished' = punished,
             done' = done,
             pc' # "idle" =>
               /\ reports' \subseteq chain[num'].slash
               /\ Kept(work'.votes, work'.punished)
               /\ \A p \in DOMAIN work'.rows \ DOMAIN rows : work'.rows[p].status = "VOTING"
      PROVE  PunishInv'
  BY <1>2 DEF PunishInv, Kept, EndVoting
<1>3. CASE Begin
  <2>1. UNCHANGED <<chain, early, tables>> /\ reports' = chain[done + 1].slash /\ num' = done + 1
    BY <1>3 DEF Begin, task
  <2>2. work' = [rows |-> rows, votes |-> votes, punished |-> punished, config |-> config]
    BY <1>3 DEF Begin
  <2>3. work'.rows = rows /\ work'.votes = votes /\ work'.punished = punished
    BY <2>2
  <2>4. Kept(work'.votes, work'.punished)
    BY <2>3 DEF PunishInv
  <2> QED
    BY <1>2, <2>1, <2>3, <2>4 DEF tables
<1>4. CASE Fail \/ Duplicate
  <2>1. UNCHANGED <<chain, early, tables, reports, num>> /\ pc # "idle"
    BY <1>4 DEF Fail, Duplicate, Retry, task
  <2>2. work' = [rows |-> rows, votes |-> votes, punished |-> punished, config |-> config]
    BY <1>4 DEF Fail, Duplicate, Retry
  <2>3. work'.rows = rows /\ work'.votes = votes /\ work'.punished = punished
    BY <2>2
  <2>4. Kept(work'.votes, work'.punished) /\ reports \subseteq chain[num].slash
    BY <2>1, <2>3 DEF PunishInv
  <2> QED
    BY <1>2, <2>1, <2>3, <2>4 DEF tables
<1>5. CASE Consensus
  <2>1. UNCHANGED <<chain, early, tables, num>> /\ reports' = {} /\ pc \notin {"idle", "commit"}
        /\ pc' = "newBlock"
    BY <1>5 DEF Consensus, task
  <2>2. Kept(work'.votes, work'.punished)
    BY <1>5, PunishesKept
  <2>3. DOMAIN work'.rows = DOMAIN rows
    BY <1>5, Punishes DEF WorkIs, Sound, TablesInv
  <2> QED
    BY <1>2, <2>1, <2>2, <2>3 DEF tables
<1>6. CASE NewBlock
  <2>1. UNCHANGED <<chain, early, tables, num, reports>> /\ pc \notin {"idle", "commit"}
    BY <1>6 DEF NewBlock, task
  <2>2. work'.votes = work.votes /\ work'.punished = work.punished
    <3>1. PICK c : work' = [work EXCEPT !.config = c]
      BY <1>6 DEF NewBlock
    <3> QED
      BY <2>1, <3>1, WorkReplaced DEF WorkInv
  <2>3. DOMAIN work'.rows = DOMAIN rows
    BY <1>6, Rotates DEF WorkIs, Sound, TablesInv
  <2>4. reports \subseteq chain[num].slash /\ Kept(work'.votes, work'.punished)
    BY <2>1, <2>2 DEF PunishInv
  <2> QED
    BY <1>2, <2>1, <2>3, <2>4 DEF tables
<1>7. CASE Propose \/ Vote \/ NoTx
  <2>1. UNCHANGED <<chain, early, tables, num, reports>> /\ pc \notin {"idle", "commit"}
    BY <1>7 DEF Propose, Vote, NoTx, task
  <2>2. Kept(work'.votes, work'.punished)
    <3>1. CASE Propose
      <4>1. PICK R : work' = [work EXCEPT !.rows = R]
        BY <3>1 DEF Propose
      <4>2. work'.votes = work.votes /\ work'.punished = work.punished
        BY <2>1, <4>1, WorkReplaced DEF WorkInv
      <4> QED
        BY <2>1, <4>2 DEF PunishInv
    <3>2. CASE Vote
      BY <3>2, VoteKept
    <3>3. CASE NoTx
      BY <2>1, <3>3 DEF NoTx, PunishInv
    <3> QED
      BY <1>7, <3>1, <3>2, <3>3
  <2>3. \A p \in DOMAIN work'.rows \ DOMAIN rows : work'.rows[p].status = "VOTING"
    BY <1>7, EnteredRows
  <2>4. reports \subseteq chain[num].slash
    BY <2>1 DEF PunishInv
  <2> QED
    BY <1>2, <2>1, <2>2, <2>3, <2>4 DEF tables
<1>8. CASE Commit
  <2>1. /\ UNCHANGED <<chain, early>> /\ votes' = work.votes /\ punished' = work.punished
        /\ done' = num /\ pc' = "idle" /\ pc = "commit" /\ pc # "idle"
    BY <1>8 DEF Commit, task
  <2>2. Kept(work.votes, work.punished) /\ num = done + 1
    BY <1>0, <2>1 DEF PunishInv
  <2>3. ASSUME NEW p \in DOMAIN rows'
        PROVE  rows'[p].status = "VOTING" \/ p \in early \/ EndVoting(p) =< num
    <3>1. /\ p \in DOMAIN work.rows
          /\ p \in DOMAIN rows => rows'[p].status = rows[p].status
          /\ p \notin DOMAIN rows => rows'[p] = work.rows[p]
      BY <1>8, CommitStatus
    <3>2. CASE p \in DOMAIN rows
      BY <1>0, <1>c, <2>2, <3>1, <3>2 DEF PunishInv
    <3>3. CASE p \notin DOMAIN rows
      BY <2>1, <3>1, <3>3 DEF PunishInv
    <3> QED
      BY <3>2, <3>3
  <2> QED
    BY <2>1, <2>2, <2>3 DEF PunishInv, Kept, EndVoting
<1>9. CASE Crash
  <2>1. UNCHANGED <<chain, early, tables>> /\ pc' = "idle"
    BY <1>9 DEF Crash
  <2> QED
    BY <1>2, <2>1 DEF tables
<1> QED
  BY <1>1, <1>3, <1>4, <1>5, <1>6, <1>7, <1>8, <1>9 DEF Next, Collect

LEMMA PunishInvariant == Spec => [](GovInv /\ VotingInv /\ PunishInv)
<1>1. Init => GovInv /\ VotingInv /\ PunishInv
  <2> SUFFICES ASSUME Init PROVE GovInv /\ VotingInv /\ PunishInv
    OBVIOUS
  <2>1. Tip = 0 /\ Proposals = {} /\ rows = <<>> /\ votes = {} /\ pc = "idle"
        /\ \A n \in Nodes : punished[n] = 0
    BY DEF Init, Tip, Proposals
  <2> QED
    BY <2>1, InitInv, NothingAtAll DEF VotingInv, PunishInv, Kept
<1>2. GovInv /\ VotingInv /\ PunishInv /\ [Next]_vars => (GovInv /\ VotingInv /\ PunishInv)'
  BY ChainKept, ThreadKept, TablesKept, WorkKept, ParamsKept, TaskKept, VotingKept, PunishKept
     DEF GovInv
<1> QED
  BY <1>1, <1>2, PTL DEF Spec

\* Decided(p) is the least of its set.
LEMMA DecidedLeast ==
  ASSUME Tip \in Nat, NEW p \in Nat, NEW b \in p..Tip, StatusAt(p, b) # "VOTING"
  PROVE  Decided(p) =< b
<1> DEFINE T == {c \in p..Tip : StatusAt(p, c) # "VOTING"} \cup {Tip + 1}
<1>1. T \in SUBSET Nat /\ b \in T
  OBVIOUS
<1> HIDE DEF T
<1>2. \E x \in T : \A y \in T : x =< y
  BY <1>1, LeastNat
<1>3. Min(T) \in T /\ \A y \in T : Min(T) =< y
  BY <1>2 DEF Min
<1>4. Decided(p) = Min(T)
  BY DEF Decided, T
<1> QED
  BY <1>1, <1>3, <1>4

\* setSlashParameters and proposalSlashUpdate: the votes of a punished node do not
\* count on a proposal the chain still voted on in the block that punished it,
\* unless ProposalInfoTask had moved the proposal's row on ahead of the blocks.
THEOREM PunishedVotesAreOut == Spec => []PunishedVotesOut
<1>1. GovInv /\ PunishInv => PunishedVotesOut
  <2> SUFFICES ASSUME GovInv, PunishInv, NEW v \in votes, v.valid, punished[v.node] # 0,
                      v.prop \notin early
               PROVE  punished[v.node] >= Decided(v.prop)
    BY DEF PunishedVotesOut
  <2>1. Tip \in Nat /\ done \in Nat /\ done =< Tip
    BY DEF GovInv, ChainInv, ThreadInv, Tip
  <2>2. votes \subseteq VoteRow /\ punished \in [Nodes -> 0..done]
    BY DEF GovInv, TablesInv, Sound
  <2>3. v.node \in Nodes /\ v.prop \in Nat
    BY <2>2 DEF VoteRow
  <2>4. PICK b \in Nat : b = punished[v.node]
    BY <2>1, <2>2, <2>3
  <2>5. b =< Tip
    BY <2>1, <2>2, <2>3, <2>4
  <2>6. EndVoting(v.prop) =< b
    BY <2>4 DEF PunishInv, Kept
  <2>7. b \in v.prop..Tip
    BY <2>1, <2>3, <2>5, <2>6, VotingEnds, VotingEndsAfter
  <2>8. StatusAt(v.prop, b) # "VOTING"
    BY <2>3, <2>6, VotingEnds DEF StatusAt
  <2> QED
    BY <2>1, <2>3, <2>4, <2>7, <2>8, DecidedLeast, VotingEnds
<1> QED
  BY <1>1, PunishInvariant, PTL

-----------------------------------------------------------------------------
(* The values of the parameters *)

\* Proposals of parameter x that set it, in their active block.
Won(x) == {p \in Proposals : /\ chain[p].tx.type = "param" /\ chain[p].tx.name = x
                             /\ chain[p].tx.passes /\ ~Cancelled(p)}
Set(x, b) == {p \in Won(x) : Active(p) <= b}

LEMMA ProposalFacts ==
  ASSUME NEW p \in Proposals
  PROVE  /\ p \in Nat /\ p \in 1..Tip /\ EndVoting(p) \in Int /\ Active(p) \in Int
         /\ EndVoting(p) < Active(p) /\ p < Active(p) /\ p =< EndVoting(p)
BY VotingEnds, VotingEndsAfter DEF Proposals

\* A parameter's value: the last proposal that set it.
LEMMA ValueIs ==
  ASSUME ChainInv, NEW x, NEW b \in Int
  PROVE  ValueAt(x, b) = Max({0} \cup Set(x, b))
<1> DEFINE T == {p \in Proposals : /\ chain[p].tx.type = "param" /\ chain[p].tx.name = x
                                   /\ Active(p) <= b /\ StatusAt(p, b) = "PASS"}
<1>1. ASSUME NEW p \in Proposals, chain[p].tx.type = "param", Active(p) <= b
      PROVE  StatusAt(p, b) = "PASS" <=> chain[p].tx.passes /\ ~Cancelled(p)
  <2>1. b >= EndVoting(p) /\ ~(b < EndVoting(p))
    BY <1>1, ProposalFacts
  <2>2. CancelledAt(p, b) <=> Cancelled(p)
    BY <2>1, CancelledInTime
  <2>3. CASE Cancelled(p)
    BY <2>2, <2>3 DEF StatusAt
  <2>4. CASE ~Cancelled(p)
    BY <1>1, <2>1, <2>2, <2>4 DEF StatusAt
  <2> QED
    BY <2>3, <2>4
<1>2. T = Set(x, b)
  BY <1>1 DEF Set, Won
<1>3. ValueAt(x, b) = Max({0} \cup T)
  BY DEF ValueAt
<1> QED
  BY <1>2, <1>3

ValuesAre == ChainInv => \A x : \A b \in Int : ValueAt(x, b) = Max({0} \cup Set(x, b))

LEMMA ValuesHold == ValuesAre
BY ValueIs DEF ValuesAre

\* The value in a block of the chain, and in the next, is settled.
LEMMA ValueStays ==
  ASSUME ChainInv, ChainInv', ChainGrows, NEW x, NEW b \in Int, b =< Tip
  PROVE  ValueAt(x, b)' = ValueAt(x, b)
<1>1. /\ Tip \in Nat /\ Tip' = Tip + 1
      /\ \A p \in 1..Tip : chain'[p] = chain[p] /\ Active(p)' = Active(p)
      /\ Proposals \subseteq Proposals'
      /\ \A p \in Proposals' : p \in Proposals \/ p = Tip + 1
  BY ChainStep, ProposalsGrow
<1>2. \A p \in Proposals : /\ p \in 1..Tip
                           /\ Active(p) <= b => (Cancelled(p)' <=> Cancelled(p))
  BY <1>1, ProposalFacts, CancelledGrows
<1>3. PICK k \in Nat : k = Tip + 1
  BY <1>1
<1>4. Active(k)' > k
  <2>1. chain'[k].tx.type = "param" => Active(k)' = ParamEnd(k) + 1
    BY DEF Active
  <2>2. chain'[k].tx.type # "param" => Active(k)' = AfterRound(RoundEnd(k))
    BY DEF Active
  <2>3. ParamEnd(k) >= k /\ RoundEnd(k) > k
    BY ParamEndAfter, RoundEndAfter
  <2>4. ParamEnd(k) \in Int /\ RoundEnd(k) \in Int
        /\ AfterRound(RoundEnd(k)) \in Int /\ AfterRound(RoundEnd(k)) > RoundEnd(k)
    BY EndsInt
  <2> QED
    BY <2>1, <2>2, <2>3, <2>4
<1>5. Set(x, b)' = Set(x, b)
  <2>1. \A p : p \in Set(x, b)' <=>
          /\ p \in Proposals' /\ chain'[p].tx.type = "param" /\ chain'[p].tx.name = x
          /\ chain'[p].tx.passes /\ ~Cancelled(p)' /\ Active(p)' <= b
    BY DEF Set, Won
  <2>2. \A p : p \in Set(x, b) <=>
          /\ p \in Proposals /\ chain[p].tx.type = "param" /\ chain[p].tx.name = x
          /\ chain[p].tx.passes /\ ~Cancelled(p) /\ Active(p) <= b
    BY DEF Set, Won
  <2>3. \A p \in Set(x, b)' : p \in Proposals
    <3> SUFFICES ASSUME NEW p \in Set(x, b)', p \notin Proposals PROVE FALSE
      OBVIOUS
    <3>1. p = k /\ Active(p)' <= b
      BY <1>1, <1>3, <2>1
    <3>2. Active(k)' <= b
      BY <3>1
    <3> QED
      BY <1>1, <1>3, <1>4, <3>2, EndsInt DEF Active
  <2> QED
    BY <1>1, <1>2, <2>1, <2>2, <2>3
<1>6. ValueAt(x, b)' = Max({0} \cup Set(x, b)')
  <2>1. ValuesAre'
    BY ValuesHold, PTL
  <2> QED
    BY <2>1 DEF ValuesAre
<1> QED
  BY <1>5, <1>6, ValueIs

\* With a vote of an epoch at least, a later parameter proposal than one that sets
\* its parameter has a later active block.
LEMMA LaterActive ==
  ASSUME VoteDuration >= SettlePeriod, ChainInv, VotingInv,
         NEW x, NEW p \in Won(x), NEW q \in Won(x), p < q
  PROVE  Active(p) < Active(q)
<1>1. /\ p \in Proposals /\ q \in Proposals /\ chain[p].tx.type = "param"
      /\ chain[q].tx.type = "param" /\ ~Cancelled(p)
  BY DEF Won
<1>2. ~CancelledAt(p, Tip)
  <2>1. Tip \in Int
    BY DEF ChainInv, Tip
  <2> QED
    BY <1>1, <2>1, CancelledInTime
<1>3. EndVoting(p) =< q
  BY <1>1, <1>2 DEF VotingInv
<1>4. EndVoting(p) = ParamEnd(p) /\ Active(p) = ParamEnd(p) + 1 /\ Active(q) = ParamEnd(q) + 1
  BY <1>1 DEF EndVoting, Active
<1>5. p \in Nat /\ q \in Nat /\ ParamEnd(q) > q /\ ParamEnd(p) \in Int /\ ParamEnd(q) \in Int
  BY <1>1, ProposalFacts, ParamEndAfter, EndsInt
<1> QED
  BY <1>3, <1>4, <1>5

\* In its active block the proposal is the parameter's value.
LEMMA ValueInBlock ==
  ASSUME VoteDuration >= SettlePeriod, ChainInv, VotingInv, NEW x, NEW p \in Won(x)
  PROVE  ValueAt(x, Active(p)) = p
<1>1. p \in Nat /\ Active(p) \in Int /\ p \in Set(x, Active(p))
  BY ProposalFacts DEF Won, Set
<1>2. \A q \in Set(x, Active(p)) : q \in Nat /\ p >= q
  <2> SUFFICES ASSUME NEW q \in Set(x, Active(p)), ~(p >= q) PROVE FALSE
    BY ProposalFacts DEF Set, Won
  <2>1. q \in Won(x) /\ q \in Nat /\ Active(q) \in Int /\ Active(q) <= Active(p)
    BY ProposalFacts DEF Set, Won
  <2> QED
    BY <1>1, <2>1, LaterActive
<1> DEFINE T == {0} \cup Set(x, Active(p))
<1>3. p \in T /\ \A q \in T : q \in Nat /\ p >= q
  BY <1>1, <1>2
<1> HIDE DEF T
<1>4. Max(T) \in T /\ \A q \in T : Max(T) >= q
  BY <1>3 DEF Max
<1>5. Max(T) = p
  BY <1>3, <1>4
<1> QED
  BY <1>1, <1>5, ValueIs DEF T

\* A proposal due in the block in work that has passed sets its parameter.
LEMMA DueWon ==
  ASSUME ChainInv, num =< Tip, num \in Nat, NEW p \in Proposals, Active(p) = num,
         chain[p].tx.type = "param"
  PROVE  Tally(p) \in {"PASS", "FINISH"} <=> p \in Won(chain[p].tx.name)
<1>1. Tip \in Nat /\ Tip >= EndVoting(p) /\ ~(Tip < EndVoting(p))
  BY ProposalFacts DEF ChainInv, Tip
<1>2. CancelledAt(p, Tip) <=> Cancelled(p)
  BY <1>1, CancelledInTime
<1>3. CASE Cancelled(p)
  BY <1>2, <1>3 DEF Tally, StatusAt, Won
<1>4. CASE ~Cancelled(p)
  <2>1. Tally(p) = IF chain[p].tx.passes THEN "PASS" ELSE "FAIL"
    BY <1>1, <1>2, <1>4 DEF Tally, StatusAt
  <2> QED
    BY <1>4, <2>1 DEF Won
<1> QED
  BY <1>3, <1>4

\* The parameters have values that the chain gave them from block k on.
InWindow(c, k) == \A x \in Params : \E b \in k..Tip : c[x] = ValueAt(x, b)

\* The cache has every proposal with an active block that has been collected.
WindowInv ==
  /\ InWindow(config, done)
  /\ pc \in {"tx", "commit"} => InWindow(work.config, num)
  /\ \A p \in Proposals : chain[p].tx.type \in Enacting
       /\ (p =< done \/ (pc = "commit" /\ p = num)) => p \in cache

\* OnNewBlockAnalyzer brings the parameters to the block.
LEMMA RotatesInWindow ==
  ASSUME VoteDuration >= SettlePeriod, ChainInv, ThreadInv, TablesInv, WorkInv, ParamsInv,
         VotingInv, WindowInv, NewBlock
  PROVE  InWindow(work'.config, num)
<1>1. /\ pc \notin {"idle", "commit"} /\ pc = "newBlock" /\ WorkIs(work, done) /\ num = done + 1
      /\ num \in Nat /\ done \in Nat /\ Tip \in Nat /\ num =< Tip
  BY WorkBefore DEF NewBlock, ThreadInv
<1>2. PICK c \in [Params -> 0..Tip] :
        /\ \A x \in Params : IF Rotations(x) = {} THEN c[x] = work.config[x]
                              ELSE c[x] \in Rotations(x)
        /\ work' = [work EXCEPT !.config = c]
  BY Zenon DEF NewBlock
<1>3. work'.config = c
  BY <1>1, <1>2, WorkReplaced DEF WorkIs
<1>4. work.config = config
  BY <1>1 DEF ParamsInv
<1>5. ASSUME NEW x \in Params PROVE \E b \in num..Tip : c[x] = ValueAt(x, b)
  <2>1. CASE Rotations(x) = {}
    <3>1. c[x] = config[x]
      BY <1>2, <1>4, <2>1
    <3>2. PICK b \in done..Tip : config[x] = ValueAt(x, b)
      BY DEF WindowInv, InWindow
    <3>3. CASE b # done
      BY <1>1, <3>1, <3>2, <3>3
    <3>4. CASE b = done
      <4>1. ASSUME NEW p \in Won(x), Active(p) = num PROVE FALSE
        <5>1. p \in Proposals /\ p < num /\ p \in Nat /\ chain[p].tx.type = "param"
              /\ chain[p].tx.name = x
          BY <1>1, <4>1, ProposalFacts DEF Won
        <5>2. p \in cache
          BY <1>1, <5>1 DEF WindowInv, Enacting
        <5>3. Tally(p) \in {"PASS", "FINISH"}
          BY <1>1, <4>1, <5>1, DueWon
        <5>4. p \in Due
          BY <4>1, <5>2 DEF Due
        <5> QED
          BY <2>1, <5>1, <5>3, <5>4, RotationsIs
      <4>2. Set(x, num) = Set(x, done)
        <5>1. \A p \in Won(x) : Active(p) \in Int
          BY ProposalFacts DEF Won
        <5> QED
          BY <1>1, <4>1, <5>1 DEF Set
      <4>3. ValueAt(x, num) = ValueAt(x, done)
        <5>1. ValueAt(x, num) = Max({0} \cup Set(x, num)) /\ ValueAt(x, done) = Max({0} \cup Set(x, done))
          BY <1>1, ValueIs
        <5> QED
          BY <4>2, <5>1, Zenon
      <4> QED
        BY <1>1, <3>1, <3>2, <3>4, <4>3
    <3> QED
      BY <3>3, <3>4
  <2>2. CASE Rotations(x) # {}
    <3>1. c[x] \in Rotations(x)
      BY <1>2, <2>2
    <3>2. CASE c[x] \in {p \in Due : /\ chain[p].tx.type = "param" /\ chain[p].tx.name = x
                                     /\ Tally(p) \in {"PASS", "FINISH"}}
      <4>1. PICK p \in Due : /\ p = c[x] /\ chain[p].tx.type = "param" /\ chain[p].tx.name = x
                             /\ Tally(p) \in {"PASS", "FINISH"}
        BY <3>2
      <4>2. p \in Proposals /\ Active(p) = num
        BY DEF Due, TablesInv
      <4>3. p \in Won(x)
        BY <1>1, <4>1, <4>2, DueWon
      <4>4. ValueAt(x, num) = p
        BY <4>2, <4>3, ValueInBlock
      <4> QED
        BY <1>1, <4>1, <4>4
    <3>3. CASE c[x] = ValueAt(x, Tip)
      BY <1>1, <3>3
    <3> QED
      BY <3>1, <3>2, <3>3 DEF Rotations
  <2> QED
    BY <2>1, <2>2
<1> QED
  BY <1>3, <1>5 DEF InWindow

\* What the chain has given stays given.
LEMMA WindowGrows ==
  ASSUME ChainInv, ChainInv', ChainGrows \/ UNCHANGED chain, NEW c, NEW k \in Nat, InWindow(c, k)
  PROVE  \A x \in Params : \E b \in k..Tip' : c[x] = ValueAt(x, b)'
<1>1. CASE ChainGrows
  <2> SUFFICES ASSUME NEW x \in Params PROVE \E b \in k..Tip' : c[x] = ValueAt(x, b)'
    OBVIOUS
  <2>1. PICK b \in k..Tip : c[x] = ValueAt(x, b)
    BY DEF InWindow
  <2>2. Tip \in Nat /\ Tip' = Tip + 1
    BY <1>1, ChainStep
  <2>3. ValueAt(x, b)' = ValueAt(x, b)
    BY <1>1, <2>1, <2>2, ValueStays
  <2> QED
    BY <2>1, <2>2, <2>3
<1>2. CASE UNCHANGED chain
  <2>1. Tip' = Tip /\ \A x : \A b : ValueAt(x, b)' = ValueAt(x, b)
    BY <1>2 DEF ValueAt, StatusAt, CancelledAt, EndVoting, Active, Proposals, Tip
  <2> QED
    BY <2>1 DEF InWindow
<1> QED
  BY <1>1, <1>2

LEMMA WindowKept ==
  ASSUME VoteDuration >= SettlePeriod, ChainInv, ChainInv', ThreadInv, TablesInv, WorkInv,
         ParamsInv, VotingInv, WindowInv, [Next]_vars
  PROVE  WindowInv'
<1>0. /\ Tip \in Nat /\ done \in Nat /\ done =< Tip /\ num \in Nat /\ num =< Tip
      /\ num = IF pc = "idle" THEN done ELSE done + 1
  BY DEF ChainInv, Tip, ThreadInv
<1>1. ChainGrows \/ UNCHANGED chain
  BY DEF Next, vars, Collect, Begin, Consensus, NewBlock, Propose, Vote, NoTx, Commit,
     Fail, Duplicate, Retry, Task, Select, Ask, Update, AskThrows, Crash
<1>2. /\ \A x \in Params : \E b \in done..Tip' : config[x] = ValueAt(x, b)'
      /\ pc \in {"tx", "commit"} =>
           \A x \in Params : \E b \in num..Tip' : work.config[x] = ValueAt(x, b)'
  BY <1>0, <1>1, WindowGrows DEF WindowInv
<1>3. ASSUME NEW p \in Proposals', chain'[p].tx.type \in Enacting, p =< num
      PROVE  p \in Proposals /\ chain[p].tx.type \in Enacting
  <2>1. CASE ChainGrows
    <3>1. Tip' = Tip + 1 /\ \A q \in 1..Tip : chain'[q] = chain[q]
      BY <2>1, ChainStep
    <3>2. p \in Proposals /\ p \in 1..Tip
      BY <1>0, <1>3, <2>1, <3>1, ProposalsGrow DEF Proposals
    <3> QED
      BY <1>3, <3>1, <3>2
  <2>2. CASE UNCHANGED chain
    BY <1>3, <2>2 DEF Proposals, Tip
  <2> QED
    BY <1>1, <2>1, <2>2
<1>4. CASE ChainGrows \/ Task \/ AskThrows \/ UNCHANGED vars
  <2>1. UNCHANGED <<pc, num, work, config, cache, done>>
    BY <1>4 DEF ChainGrows, Task, Select, Ask, Update, AskThrows, vars, collection, tables
  <2>2. ASSUME NEW p \in Proposals', chain'[p].tx.type \in Enacting,
               p =< done \/ (pc = "commit" /\ p = num)
        PROVE  p \in cache
    <3>1. p =< num
      BY <1>0, <2>2 DEF Proposals
    <3> QED
      BY <1>3, <2>2, <3>1 DEF WindowInv
  <2> QED
    BY <1>2, <2>1, <2>2 DEF WindowInv, InWindow
<1>5. CASE Begin \/ Consensus \/ Fail \/ Duplicate
  <2>1. UNCHANGED <<chain, config, cache, done>> /\ pc' \in {"consensus", "newBlock"}
    BY <1>5 DEF Begin, Consensus, Fail, Duplicate, Retry, tables
  <2> QED
    BY <1>0, <1>2, <1>3, <2>1 DEF WindowInv, InWindow, Proposals, Tip
<1>6. CASE NewBlock
  <2>1. UNCHANGED <<chain, config, cache, done, num>> /\ pc' = "tx" /\ pc # "commit"
    BY <1>6 DEF NewBlock, tables
  <2>2. InWindow(work'.config, num)
    BY <1>6, RotatesInWindow
  <2>3. \A x : \A b : ValueAt(x, b)' = ValueAt(x, b)
    BY <2>1 DEF ValueAt, StatusAt, CancelledAt, EndVoting, Active, Proposals, Tip
  <2>4. Tip' = Tip /\ Proposals' = Proposals
    BY <2>1 DEF Tip, Proposals
  <2> QED
    BY <1>2, <2>1, <2>2, <2>3, <2>4 DEF WindowInv, InWindow
<1>7. CASE Propose \/ Vote \/ NoTx
  <2>1. UNCHANGED <<chain, config, done, num>> /\ pc = "tx" /\ pc' = "commit" /\ cache \subseteq cache'
    BY <1>7 DEF Propose, Vote, NoTx, tables
  <2>2. work'.config = work.config
    BY <1>7, EntersProposal, EntersVote DEF NoTx
  <2>3. Tip' = Tip /\ Proposals' = Proposals
    BY <2>1 DEF Tip, Proposals
  <2>4. chain[num].tx.type \in Enacting => num \in cache'
    BY <1>7 DEF Propose, Vote, NoTx, Enacting
  <2> QED
    BY <1>2, <2>1, <2>2, <2>3, <2>4 DEF WindowInv, InWindow
<1>8. CASE Commit
  <2>1. UNCHANGED <<chain, cache, num>> /\ pc = "commit" /\ pc' = "idle" /\ done' = num
        /\ config' = work.config
    BY <1>8 DEF Commit
  <2>2. Tip' = Tip /\ Proposals' = Proposals
    BY <2>1 DEF Tip, Proposals
  <2>3. ASSUME NEW p \in Proposals, chain[p].tx.type \in Enacting, p =< num PROVE p \in cache
    BY <1>0, <2>1, <2>3 DEF WindowInv, Proposals
  <2> QED
    BY <1>2, <2>1, <2>2, <2>3 DEF WindowInv, InWindow
<1>9. CASE Crash
  <2>1. UNCHANGED <<chain, config, done>> /\ pc' = "idle" /\ cache' = Reloaded
    BY <1>9 DEF Crash, tables
  <2>2. Tip' = Tip /\ Proposals' = Proposals
    BY <2>1 DEF Tip, Proposals
  <2>3. DOMAIN rows = Proposed(chain, done)
    BY DEF TablesInv, Sound
  <2>4. ASSUME NEW p \in Proposals, chain[p].tx.type \in Enacting, p =< done PROVE p \in Reloaded
    BY <1>0, <2>3, <2>4 DEF Reloaded, Proposed, Proposals
  <2> QED
    BY <1>2, <2>1, <2>2, <2>4 DEF WindowInv, InWindow
<1> QED
  BY <1>4, <1>5, <1>6, <1>7, <1>8, <1>9 DEF Next, Collect

\* OnNewBlockAnalyzer and rotateConfig: a parameter in the table has a value the
\* chain gave it between the last committed block and the chain's last one, across
\* failures and restarts, if the vote on a parameter proposal lasts an epoch at
\* least: then no two of them are due in the same block.
THEOREM ParametersFollowChain ==
  ASSUME VoteDuration >= SettlePeriod
  PROVE  Spec => []ConfigInWindow
<1> DEFINE Inv == GovInv /\ VotingInv /\ WindowInv
<1>1. Init => Inv
  <2> SUFFICES ASSUME Init PROVE Inv
    OBVIOUS
  <2>1. Tip = 0 /\ Proposals = {} /\ pc = "idle" /\ done = 0 /\ \A x \in Params : config[x] = 0
    BY DEF Init, Tip, Proposals
  <2>2. GovInv /\ VotingInv
    BY <2>1, InitInv DEF VotingInv
  <2>3. \A x : ValueAt(x, 0) = 0
    <3> SUFFICES ASSUME NEW x PROVE ValueAt(x, 0) = 0
      OBVIOUS
    <3>1. {0} \cup Set(x, 0) = {0}
      BY <2>1 DEF Set, Won
    <3>2. Max({0}) = 0
      BY DEF Max
    <3>3. ValueAt(x, 0) = Max({0} \cup Set(x, 0))
      BY <2>2, ValueIs DEF GovInv
    <3> QED
      BY <3>1, <3>2, <3>3, Zenon
  <2> QED
    BY <2>1, <2>2, <2>3 DEF WindowInv, InWindow
<1>2. Inv /\ [Next]_vars => Inv'
  BY ChainKept, ThreadKept, TablesKept, WorkKept, ParamsKept, TaskKept, VotingKept, WindowKept
     DEF GovInv
<1>3. Inv => ConfigInWindow
  BY DEF WindowInv, InWindow, ConfigInWindow
<1> QED
  BY <1>1, <1>2, <1>3, PTL DEF Spec
=============================================================================
