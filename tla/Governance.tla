----------------------------- MODULE Governance -----------------------------
(***************************************************************************)
(* Proposals, votes and the parameters they change.                        *)
(*                                                                         *)
(* The chain produces blocks; a block holds at most one governance         *)
(* transaction, so a proposal is named by its block, as it is by its hash. *)
(* The collection thread follows the chain: at a consensus switch it takes *)
(* the votes of punished nodes back, at the active block of proposals it   *)
(* asks for their result and rotates the table config and the parameters   *)
(* in memory, then it enters the block's transaction.  ProposalInfoTask    *)
(* brings the status of the proposal rows up to date from the chain.       *)
(*                                                                         *)
(* A parameter's value is the proposal that set it, 0 the initial one.     *)
(***************************************************************************)
EXTENDS Integers, Sequences, FiniteSets, FiniteSetsExt

CONSTANTS
  Nodes, Params, Options,
  ConsensusPeriod, SettlePeriod,  \* blocks of a consensus round and a settlement epoch
  VoteDuration,  \* of a parameter proposal, in blocks
  VoteRounds,    \* of the other proposals
  EndMargin,     \* endBlockNumCal's 20
  MaxBlock, LastTx, MaxTx, MaxAhead, MaxFail, MaxCrash  \* bounds

ASSUME GovernanceAssumption ==
  /\ IsFiniteSet(Nodes) /\ IsFiniteSet(Params) /\ IsFiniteSet(Options)
  /\ {ConsensusPeriod, SettlePeriod, VoteRounds} \subseteq Nat \ {0}
  /\ EndMargin \in 0..(ConsensusPeriod - 1)
  /\ {VoteDuration, MaxBlock, LastTx, MaxTx, MaxAhead, MaxFail, MaxCrash} \subseteq Nat

VARIABLES
  chain,     \* the chain: what each block holds
  pc, num,   \* the collection thread and the block in work
  again,     \* has the block in work failed before?
  reports,   \* nodes the block in work is to punish, in memory
  work,      \* the tables as the open MySQL transaction sees them
  done,      \* last committed block
  rows,      \* proposal: status and sums of votes, by proposal
  votes,     \* vote
  punished,  \* block in which a node was punished, 0 for never
  config,    \* the table config
  mem,       \* BlockChainConfig
  cache,     \* ProposalCache
  tpc, todo, found,  \* ProposalInfoTask: proposals to ask for, statuses to write
  early,     \* proposals whose row left VOTING before their last block was committed
  fails, crashes

tables == <<done, rows, votes, punished, config>>
collection == <<pc, num, again, reports, work, mem, cache>>
task == <<tpc, todo, found, early>>
vars == <<chain, collection, tables, task, fails, crashes>>

Statuses == {"VOTING", "PASS", "FAIL", "PRE_UPGRADE", "FINISH", "CANCEL"}
Tip == Len(chain)

Init ==
  /\ chain = <<>>
  /\ pc = "idle" /\ num = 0 /\ again = FALSE /\ reports = {} /\ work = <<>>
  /\ done = 0 /\ rows = <<>> /\ votes = {} /\ punished = [n \in Nodes |-> 0]
  /\ config = [x \in Params |-> 0] /\ mem = [x \in Params |-> 0] /\ cache = {}
  /\ tpc = "idle" /\ todo = {} /\ found = <<>> /\ early = {}
  /\ fails = 0 /\ crashes = 0

-----------------------------------------------------------------------------
(* RoundCalculation *)

\* getParameterProposalVoteEndBlockNum
ParamEnd(b) ==
  ((b + SettlePeriod - 1) \div SettlePeriod + VoteDuration \div SettlePeriod) * SettlePeriod

\* endBlockNumCal, activeBlockNumCal
RoundEnd(b) == b + ConsensusPeriod - (b % ConsensusPeriod) + VoteRounds * ConsensusPeriod - EndMargin
AfterRound(b) == b + ConsensusPeriod - (b % ConsensusPeriod) + 1

EndVoting(p) == IF chain[p].tx.type = "param" THEN ParamEnd(p) ELSE RoundEnd(p)
Active(p) == IF chain[p].tx.type = "param" THEN ParamEnd(p) + 1 ELSE AfterRound(RoundEnd(p))

-----------------------------------------------------------------------------
(* The chain *)

Enacting == {"param", "upgrade"}   \* proposals with an active block
Proposing == Enacting \cup {"cancel"}   \* (a text proposal: a cancel with no target)
Proposals == {p \in 1..Tip : chain[p].tx.type \in Proposing}

CancelledAt(p, b) ==
  \E c \in Proposals : /\ chain[c].tx.type = "cancel" /\ chain[c].tx.target = p
                       /\ chain[c].tx.passes /\ EndVoting(c) <= b

\* A proposal's status in block b.
StatusAt(p, b) ==
  CASE CancelledAt(p, b) -> "CANCEL"
    [] ~CancelledAt(p, b) /\ b < EndVoting(p) -> "VOTING"
    [] ~CancelledAt(p, b) /\ b >= EndVoting(p) ->
         IF ~chain[p].tx.passes THEN "FAIL"
         ELSE IF chain[p].tx.type # "upgrade" THEN "PASS"
         ELSE IF b < Active(p) THEN "PRE_UPGRADE" ELSE "FINISH"

\* getTallyResult: nothing while the voting lasts.
Tally(p) == StatusAt(p, Tip)

\* A parameter's value in block b.
ValueAt(x, b) ==
  Max({0} \cup {p \in Proposals : /\ chain[p].tx.type = "param" /\ chain[p].tx.name = x
                                  /\ Active(p) <= b /\ StatusAt(p, b) = "PASS"})

Open(p) == StatusAt(p, Tip) = "VOTING" /\ Tip + 1 < EndVoting(p)
Slashed == UNION {chain[b].slash : b \in 1..Tip}

\* The chain votes on one parameter proposal and on one upgrade at a time; a
\* proposal can be cancelled while it is voted on, by a vote that ends earlier;
\* a node votes once, and no more when it was punished.
TxsOf ==
  {[type |-> "none"]}
  \cup {t \in [type : {"param"}, name : Params, passes : BOOLEAN] :
          \A p \in Proposals : chain[p].tx.type = "param" => ~Open(p)}
  \cup {t \in [type : {"upgrade"}, passes : BOOLEAN] :
          \A p \in Proposals :
            chain[p].tx.type = "upgrade" => StatusAt(p, Tip) \notin {"VOTING", "PRE_UPGRADE"}}
  \cup {t \in [type : {"cancel"}, target : Proposals, passes : BOOLEAN] :
          /\ chain[t.target].tx.type \in Enacting
          /\ Open(t.target) /\ RoundEnd(Tip + 1) < EndVoting(t.target)}
  \cup {t \in [type : {"vote"}, node : Nodes \ Slashed, prop : Proposals, option : Options] :
          /\ Open(t.prop)
          /\ \A b \in 1..Tip : ~(/\ chain[b].tx.type = "vote" /\ chain[b].tx.node = t.node
                                  /\ chain[b].tx.prop = t.prop)}

TxCount == Cardinality({b \in 1..Tip : chain[b].tx.type # "none"})
SwitchesConsensus(b) == (b - 1) % ConsensusPeriod = 0

ChainGrows ==
  /\ Tip < MaxBlock /\ Tip < done + MaxAhead
  /\ \E t \in TxsOf, s \in {{}} \cup {{n} : n \in Nodes} :
       /\ t.type # "none" => TxCount < MaxTx /\ Tip < LastTx
       /\ s # {} => SwitchesConsensus(Tip + 1) /\ Slashed = {}
       /\ \A n \in s : \E b \in 1..Tip : chain[b].tx.type = "vote" /\ chain[b].tx.node = n
       /\ t.type = "vote" => t.node \notin s
       /\ chain' = Append(chain, [tx |-> t, slash |-> s])
  /\ UNCHANGED <<collection, tables, task, fails, crashes>>

-----------------------------------------------------------------------------
(* The collection thread *)

Begin ==
  /\ pc = "idle" /\ done < Tip
  /\ num' = done + 1 /\ again' = FALSE
  /\ reports' = chain[done + 1].slash
  /\ work' = [rows |-> rows, votes |-> votes, punished |-> punished, config |-> config]
  /\ pc' = "consensus"
  /\ UNCHANGED <<chain, mem, cache, tables, task, fails, crashes>>

\* Variant: the votes are marked, the sums left alone.
WithoutVotesRows(w, S) ==
  [w EXCEPT !.votes = {IF v \in S THEN [v EXCEPT !.valid = FALSE] ELSE v : v \in @}]

\* proposalSlashUpdate
WithoutVotes(w, S) ==
  [w EXCEPT
     !.rows = [p \in DOMAIN w.rows |-> [w.rows[p] EXCEPT !.sums = [o \in Options |->
       w.rows[p].sums[o] - Cardinality({v \in S : v.prop = p /\ v.option = o})]]],
     !.votes = {IF v \in S THEN [v EXCEPT !.valid = FALSE] ELSE v : v \in w.votes}]

\* Variant: the proposals of a parameter only.
VoidableParam(w, n) ==
  {v \in w.votes : /\ v.valid /\ v.node = n /\ rows[v.prop].status = "VOTING"
                   /\ chain[v.prop].tx.type = "param"}

\* setSlashParameters: the votes of a node on proposals whose row says VOTING.
Voidable(w, n) ==
  {v \in w.votes : v.valid /\ v.node = n /\ rows[v.prop].status = "VOTING"}

\* OnConsensusAnalyzer: slash, then setSlashParameters; the reports are dropped
\* from the cache, for good.
Consensus ==
  /\ pc = "consensus"
  /\ work' = [WithoutVotes(work, UNION {Voidable(work, n) : n \in reports})
                EXCEPT !.punished = [n \in Nodes |-> IF n \in reports THEN num ELSE @[n]]]
  /\ reports' = {}
  /\ pc' = "newBlock"
  /\ UNCHANGED <<chain, num, again, mem, cache, tables, task, fails, crashes>>

Due == {p \in cache : Active(p) = num}

\* Values OnNewBlockAnalyzer puts into its list for parameter x: the new value
\* of a parameter proposal that passed, the chain's value when an upgrade is
\* in force.
Rotations(x) ==
  {p \in Due : /\ chain[p].tx.type = "param" /\ chain[p].tx.name = x
               /\ Tally(p) \in {"PASS", "FINISH"}}
  \cup {ValueAt(x, Tip) : p \in {q \in Due : /\ chain[q].tx.type = "upgrade"
                                              /\ Tally(q) \in {"PASS", "FINISH"}}}

\* Variant: the table only.
NewBlockTable ==
  /\ pc = "newBlock"
  /\ pc' = "tx"
  /\ work' \in {[work EXCEPT !.config = c] :
                 c \in {d \in [Params -> 0..Tip] :
                          \A x \in Params : IF Rotations(x) = {} THEN d[x] = work.config[x]
                                            ELSE d[x] \in Rotations(x)}}
  /\ UNCHANGED <<chain, num, again, reports, mem, cache, tables, task, fails, crashes>>

\* OnNewBlockAnalyzer: rotateConfig writes the table (the last of several
\* values of a parameter stays; they come in the order of a hash set), then
\* overrideBlockChainConfig reads it into memory, before the commit.
NewBlock ==
  /\ pc = "newBlock"
  /\ pc' = "tx"
  /\ \E c \in [Params -> 0..Tip] :
       /\ \A x \in Params : IF Rotations(x) = {} THEN c[x] = work.config[x]
                             ELSE c[x] \in Rotations(x)
       /\ work' = [work EXCEPT !.config = c]
       /\ mem' = IF \A x \in Params : Rotations(x) = {} THEN mem ELSE c
  /\ UNCHANGED <<chain, num, again, reports, cache, tables, task, fails, crashes>>

NoSums == [o \in Options |-> 0]

\* Proposal*Analyzer: insert into proposal; the ones with an active block go
\* to the cache at once.
Propose ==
  /\ pc = "tx" /\ ~again /\ chain[num].tx.type \in Proposing
  /\ work' = [work EXCEPT !.rows = [p \in DOMAIN work.rows \cup {num} |->
                 IF p = num THEN [status |-> "VOTING", sums |-> NoSums] ELSE work.rows[p]]]
  /\ cache' = IF chain[num].tx.type \in Enacting THEN cache \cup {num} ELSE cache
  /\ pc' = "commit"
  /\ UNCHANGED <<chain, num, again, reports, mem, tables, task, fails, crashes>>

\* ProposalVoteAnalyzer: insert into vote, add to the proposal's sums.
Vote ==
  /\ pc = "tx" /\ ~again /\ chain[num].tx.type = "vote"
  /\ LET t == chain[num].tx IN
       work' = [work EXCEPT
                  !.rows[t.prop].sums[t.option] = @ + 1,
                  !.votes = @ \cup {[node |-> t.node, prop |-> t.prop, option |-> t.option,
                                     valid |-> TRUE]}]
  /\ pc' = "commit"
  /\ UNCHANGED <<chain, num, again, reports, mem, cache, tables, task, fails, crashes>>

NoTx ==
  /\ pc = "tx" /\ chain[num].tx.type = "none"
  /\ pc' = "commit"
  /\ UNCHANGED <<chain, num, again, reports, work, mem, cache, tables, task, fails, crashes>>

\* The transaction writes sums, the task writes statuses.
Commit ==
  /\ pc = "commit"
  /\ rows' = [p \in DOMAIN work.rows |->
                IF p \in DOMAIN rows THEN [work.rows[p] EXCEPT !.status = rows[p].status]
                ELSE work.rows[p]]
  /\ votes' = work.votes /\ punished' = work.punished /\ config' = work.config
  /\ done' = num /\ pc' = "idle" /\ work' = <<>>
  /\ UNCHANGED <<chain, num, again, reports, mem, cache, task, fails, crashes>>

Retry ==
  /\ again' = TRUE /\ pc' = "consensus"
  /\ work' = [rows |-> rows, votes |-> votes, punished |-> punished, config |-> config]
  /\ UNCHANGED <<chain, num, reports, mem, cache, tables, task, crashes>>

\* An exception: the transaction rolls back, what is in memory stays, and the
\* block is retried.
Fail ==
  /\ pc \in {"newBlock", "tx", "commit"} /\ fails < MaxFail
  /\ fails' = fails + 1
  /\ Retry

\* The retry lists the block's transactions a second time: the second row of
\* the same hash is refused, in every retry.
Duplicate ==
  /\ pc = "tx" /\ again /\ chain[num].tx.type # "none"
  /\ Retry /\ UNCHANGED fails

-----------------------------------------------------------------------------
(* ProposalInfoTask *)

\* Variant: upgrades that wait for their block are not asked for again.
PendingVoting == {p \in DOMAIN rows : rows[p].status = "VOTING"}

Pending == {p \in DOMAIN rows : rows[p].status \in {"VOTING", "PRE_UPGRADE", "PASS"}}

Select ==
  /\ tpc = "idle" /\ Pending # {}
  /\ todo' = Pending
  /\ found' = [p \in todo' |-> rows[p].status]
  /\ tpc' = "ask"
  /\ UNCHANGED <<chain, collection, tables, early, fails, crashes>>

\* The proposals whose status is left alone while the synchronised block is
\* before the end of the vote: the criteria meant for the second query are
\* added to the first one's, so the second returns every proposal.
Skipped(p) == done < EndVoting(p) /\ DOMAIN rows = {}

StatusFound(p) == IF Tally(p) = "VOTING" THEN found[p] ELSE Tally(p)

Ask ==
  /\ tpc = "ask"
  /\ \E p \in todo :
       /\ todo' = todo \ {p}
       /\ found' = IF Skipped(p) THEN found ELSE [found EXCEPT ![p] = StatusFound(p)]
  /\ UNCHANGED <<chain, collection, tables, tpc, early, fails, crashes>>

\* A call throws: the proposal keeps its status.
AskThrows ==
  /\ tpc = "ask" /\ fails < MaxFail
  /\ fails' = fails + 1
  /\ \E p \in todo : todo' = todo \ {p}
  /\ UNCHANGED <<chain, collection, tables, tpc, found, early, crashes>>

\* updateProposalInfoList
Update ==
  /\ tpc = "ask" /\ todo = {}
  /\ rows' = [p \in DOMAIN rows |->
                IF p \in DOMAIN found THEN [rows[p] EXCEPT !.status = found[p]] ELSE rows[p]]
  /\ early' = early \cup {p \in DOMAIN found : found[p] # "VOTING" /\ done < EndVoting(p)}
  /\ tpc' = "idle" /\ found' = <<>>
  /\ UNCHANGED <<chain, collection, done, votes, punished, config, todo, fails,
                 crashes>>

-----------------------------------------------------------------------------
(* Restart: InitializationService reads the proposals into the cache and the *)
(* table into memory.                                                        *)

\* Variant: the proposals that are being voted on.
ReloadedVoting ==
  {p \in DOMAIN rows : chain[p].tx.type \in Enacting /\ rows[p].status = "VOTING"}

Reloaded == {p \in DOMAIN rows : chain[p].tx.type \in Enacting}

Crash ==
  /\ crashes < MaxCrash
  /\ crashes' = crashes + 1
  /\ pc' = "idle" /\ num' = done /\ again' = FALSE /\ reports' = {} /\ work' = <<>>
  /\ cache' = Reloaded /\ mem' = config
  /\ tpc' = "idle" /\ todo' = {} /\ found' = <<>>
  /\ UNCHANGED <<chain, tables, early, fails>>

Collect == Begin \/ Consensus \/ NewBlock \/ Propose \/ Vote \/ NoTx \/ Commit
Task == Select \/ Ask \/ Update

Next == ChainGrows \/ Collect \/ Fail \/ Duplicate \/ Task \/ AskThrows \/ Crash

Spec == Init /\ [][Next]_vars

\* The task runs every 15 seconds; an answer comes.
FairSpec == Spec /\ WF_vars(Task)

-----------------------------------------------------------------------------
(* Properties *)

\* The types of the state; a proposal is in the table once its block is.
TypeOK ==
  /\ num \in {done, done + 1} /\ done \in 0..Tip /\ again \in BOOLEAN
  /\ pc \in {"idle", "consensus", "newBlock", "tx", "commit"} /\ reports \subseteq Nodes
  /\ DOMAIN rows = Proposals \cap 1..done
  /\ \A p \in DOMAIN rows : rows[p] \in [status : Statuses, sums : [Options -> Nat]]
  /\ votes \subseteq [node : Nodes, prop : DOMAIN rows, option : Options, valid : BOOLEAN]
  /\ punished \in [Nodes -> 0..done]
  /\ config \in [Params -> 0..Tip] /\ mem \in [Params -> 0..Tip]
  /\ cache \subseteq Proposals /\ early \subseteq DOMAIN rows /\ todo \subseteq DOMAIN rows /\ tpc \in {"idle", "ask"}
  /\ DOMAIN found \subseteq DOMAIN rows /\ \A p \in DOMAIN found : found[p] \in Statuses

\* A parameter in the table has a value the chain gave it between the last
\* committed block and the chain's last block: no passed proposal is missed, in
\* particular across a restart, and none that failed or was cancelled counts.
ConfigInWindow == \A x \in Params : \E b \in done..Tip : config[x] = ValueAt(x, b)

\* Between blocks the parameters in memory are the ones of the table, although
\* memory is changed before the commit and does not roll back.
MemoryIsTable == pc = "idle" => mem = config

\* The sums of a proposal are its valid votes.
SumsMatchVotes ==
  \A p \in DOMAIN rows, o \in Options :
    rows[p].sums[o] = Cardinality({v \in votes : v.valid /\ v.prop = p /\ v.option = o})

\* The block in which the chain stops voting on p (Tip + 1: not yet).
Decided(p) == Min({b \in p..Tip : StatusAt(p, b) # "VOTING"} \cup {Tip + 1})

\* "If the proposal is being voted on the vote becomes invalid and the sums go
\* down" (setSlashParameters): the votes of a punished node do not count on a
\* proposal the chain still voted on.
PunishedVotesNeverCount ==
  \A v \in votes : v.valid /\ punished[v.node] # 0 => punished[v.node] >= Decided(v.prop)

\* So it is for every proposal whose row did not leave VOTING ahead of the blocks.
PunishedVotesOut ==
  \A v \in votes : v.valid /\ punished[v.node] # 0 =>
    punished[v.node] >= Decided(v.prop) \/ v.prop \in early

\* The status of a row becomes the chain's.
StatusSettles == <>[](\A p \in DOMAIN rows : rows[p].status = StatusAt(p, Tip))
=============================================================================
