------------------------- MODULE SyncPipelineSafety -------------------------
(***************************************************************************)
(* PipelineInv is inductive, and the ordering guarantees of the pipeline   *)
(* follow from it: ES is a gap-free prefix at most one block ahead of      *)
(* MySQL, nothing requested is lost while the agent runs, Redis never      *)
(* shows what ES lacks, and the pipeline implements IngestLedger.          *)
(*                                                                         *)
(* On top of it: what network_stat counts (CountInv, ExactInv), which ids  *)
(* node operations get (OptsPlaced, AgreeInv), and that n_opt_bak keeps    *)
(* the operations a start may have to replay (BackupInv).                  *)
(***************************************************************************)
EXTENDS SyncPipelineProofs, Induction

\* What publishing one event at the end of a ring does to its elements.
LEMMA RingAppend ==
  ASSUME NEW r \in Seq(Event), NEW e \in Event
  PROVE  /\ BlocksOf(Append(r, e)) = BlocksOf(r) \cup {e.blk}
         /\ \A i \in 1..Len(r) : BlocksBefore(Append(r, e), i) = BlocksBefore(r, i)
         /\ BlocksBefore(Append(r, e), Len(r) + 1) = BlocksOf(r)
<1> DEFINE q == Append(r, e)
<1>1. Len(q) = Len(r) + 1 /\ q[Len(r) + 1] = e /\ \A i \in 1..Len(r) : q[i] = r[i]
  OBVIOUS
<1>2. Len(r) \in Nat
  OBVIOUS
<1> HIDE DEF q
<1>3. BlocksOf(q) = BlocksOf(r) \cup {e.blk}
  BY <1>1, <1>2 DEF BlocksOf
<1>4. \A i \in 1..Len(r) : BlocksBefore(q, i) = BlocksBefore(r, i)
  BY <1>1, <1>2 DEF BlocksBefore
<1>5. BlocksBefore(q, Len(r) + 1) = BlocksOf(r)
  BY <1>1, <1>2 DEF BlocksBefore, BlocksOf
<1> QED BY <1>3, <1>4, <1>5 DEF q

\* What finishing the event at the head of a ring does to its elements.
LEMMA RingTail ==
  ASSUME NEW r \in Seq(Event), r # <<>>
  PROVE  /\ BlocksOf(r) = {Head(r).blk} \cup BlocksOf(Tail(r))
         /\ Len(Tail(r)) = Len(r) - 1 /\ Len(r) \in Nat \ {0}
         /\ \A i \in 1..Len(Tail(r)) :
              /\ Tail(r)[i] = r[i + 1]
              /\ BlocksBefore(r, i + 1) = {Head(r).blk} \cup BlocksBefore(Tail(r), i)
         /\ BlocksBefore(r, 1) = {} /\ r[1] = Head(r)
<1> DEFINE q == Tail(r)
<1>1. /\ Len(r) \in Nat \ {0} /\ Len(q) = Len(r) - 1 /\ r[1] = Head(r)
      /\ \A i \in 1..Len(q) : q[i] = r[i + 1]
  OBVIOUS
<1> HIDE DEF q
<1>2. \A j \in 1..Len(r) : j = 1 \/ (j - 1 \in 1..Len(q) /\ q[j - 1] = r[j])
  BY <1>1
<1>3. BlocksOf(r) = {Head(r).blk} \cup BlocksOf(q)
  <2>1. BlocksOf(r) \subseteq {Head(r).blk} \cup BlocksOf(q)
    BY <1>1, <1>2 DEF BlocksOf
  <2>2. {Head(r).blk} \cup BlocksOf(q) \subseteq BlocksOf(r)
    BY <1>1 DEF BlocksOf
  <2> QED BY <2>1, <2>2
<1>4. ASSUME NEW i \in 1..Len(q)
      PROVE  BlocksBefore(r, i + 1) = {Head(r).blk} \cup BlocksBefore(q, i)
  <2>1. BlocksBefore(r, i + 1) \subseteq {Head(r).blk} \cup BlocksBefore(q, i)
    <3> SUFFICES ASSUME NEW j \in 1..i, j # 1
                 PROVE  r[j].blk \in BlocksBefore(q, i)
      BY <1>1 DEF BlocksBefore
    <3>1. j - 1 \in 1..(i - 1) /\ q[j - 1] = r[j]
      BY <1>1, <1>2
    <3> QED BY <3>1 DEF BlocksBefore
  <2>2. {Head(r).blk} \cup BlocksBefore(q, i) \subseteq BlocksBefore(r, i + 1)
    <3>1. Head(r).blk \in BlocksBefore(r, i + 1)
      BY <1>1 DEF BlocksBefore
    <3>2. ASSUME NEW j \in 1..(i - 1) PROVE q[j].blk \in BlocksBefore(r, i + 1)
      <4>1. j + 1 \in 1..((i + 1) - 1) /\ q[j] = r[j + 1]
        BY <1>1
      <4> QED BY <4>1 DEF BlocksBefore
    <3> QED BY <3>1, <3>2 DEF BlocksBefore
  <2> QED BY <2>1, <2>2
<1>5. BlocksBefore(r, 1) = {}
  BY DEF BlocksBefore
<1> QED BY <1>1, <1>3, <1>4, <1>5 DEF q

\* The invariant holds before the first start.
LEMMA InitSafe == Init => PipelineInv
<1> SUFFICES ASSUME Init PROVE PipelineInv
  OBVIOUS
<1>1. ~Running /\ esBlock = {} /\ main # "fill"
  BY DEF Init, Running
<1>2. PipelineCold /\ RingsConsecutive
  BY <1>1 DEF Init, PipelineCold, RingsConsecutive
<1>3. WorksOnHead /\ ImportOwned /\ BootInOrder /\ RedisBehindEs
  BY <1>1 DEF Init, WorksOnHead, ImportOwned, BootInOrder, RedisBehindEs, NoImport
<1>4. PredecessorsFirst
  BY <1>1 DEF Init, PredecessorsFirst, Ordered, EmptyStage
<1>5. FinishedKept
  BY <1>1 DEF FinishedKept, EsAtMostOneAhead
<1> QED BY InitTyped, <1>2, <1>3, <1>4, <1>5 DEF PipelineInv

\* The variables the invariant is about, apart from the collection thread's.
core == <<main, collected, boot, bootRing, blockRing, collRing, compRing, persRing,
          stage, imp, db, esBlock, redisBlock>>

\* A step that leaves them alone, and the collection thread on its event or idle.
LEMMA QuietSafe ==
  ASSUME PipelineInv, TypeOK', UNCHANGED core,
         \/ UNCHANGED col
         \/ col.pc # "idle" /\ col'.pc \in {"idle", "released"}
         \/ col.pc = "published" /\ col'.pc = "written" /\ col'.ev = col.ev
  PROVE  PipelineInv'
<1> USE DEF PipelineInv, core
<1>1. PipelineCold' /\ RingsConsecutive'
  BY DEF PipelineCold, RingsConsecutive, Running, Finished
<1>2. WorksOnHead'
  BY DEF WorksOnHead, Downstream, BlocksOf
<1>3. PredecessorsFirst'
  BY DEF PredecessorsFirst
<1>4. FinishedKept'
  BY DEF FinishedKept, Running, Finished, Downstream, BlocksOf, EsAtMostOneAhead
<1>5. ImportOwned' /\ BootInOrder' /\ RedisBehindEs'
  BY DEF ImportOwned, BootInOrder, RedisBehindEs, Running
<1> QED BY <1>1, <1>2, <1>3, <1>4, <1>5

\* A crash at any point keeps the invariant: memory is empty, the stores stay.
LEMMA CrashSafe ==
  ASSUME PipelineInv, TypeOK', Crash
  PROVE  PipelineInv'
<1>1. main' = "down" /\ ~Running' /\ UNCHANGED <<db, esBlock, redisBlock>>
  BY DEF Crash, Running, store
<1>2. PipelineCold' /\ RingsConsecutive'
  BY <1>1 DEF Crash, MemoryCleared, PipelineCold, RingsConsecutive
<1>3. WorksOnHead'
  BY DEF Crash, MemoryCleared, WorksOnHead
<1>4. PredecessorsFirst'
  BY <1>1 DEF Crash, MemoryCleared, PredecessorsFirst, Ordered, EmptyStage, PipelineInv
<1>5. FinishedKept'
  BY <1>1 DEF FinishedKept, EsAtMostOneAhead, PipelineInv
<1>6. ImportOwned' /\ BootInOrder' /\ RedisBehindEs'
  BY <1>1 DEF Crash, MemoryCleared, NoImport, ImportOwned, BootInOrder, RedisBehindEs,
       PipelineInv
<1> QED BY <1>2, <1>3, <1>4, <1>5, <1>6 DEF PipelineInv

\* Loading the network_stat row (InitializationService.init) keeps the invariant.
LEMMA StartSafe ==
  ASSUME PipelineInv, TypeOK', Start
  PROVE  PipelineInv'
<1> USE DEF Start, bootVars, persVars, store, PipelineInv
<1>1. ~Running /\ ~Running'
  BY DEF Running
<1>2. PipelineCold' /\ RingsConsecutive'
  BY <1>1 DEF PipelineCold, RingsConsecutive
<1>3. WorksOnHead'
  BY DEF WorksOnHead, Downstream, BlocksOf
<1>4. PredecessorsFirst'
  BY DEF PredecessorsFirst
<1>5. FinishedKept'
  BY <1>1 DEF FinishedKept, EsAtMostOneAhead
<1>6. ImportOwned' /\ BootInOrder' /\ RedisBehindEs'
  BY <1>1 DEF ImportOwned, BootInOrder, RedisBehindEs
<1> QED BY <1>2, <1>3, <1>4, <1>5, <1>6

\* What a cold pipeline owes when the main loop is about to start.
LEMMA LoopEntered ==
  ASSUME PipelineInv, TypeOK', main \in {"check", "fill"}, main' = "loop",
         UNCHANGED <<collected, bootRing, blockRing, collRing, compRing, persRing, stage,
                     col, imp, db, esBlock, redisBlock>>,
         imp.phase = "none", bootRing = <<>>, 1..db.cur \subseteq esBlock
  PROVE  PipelineInv'
<1> USE DEF PipelineInv
<1>1. ~Running /\ Running'
  BY DEF Running
<1>2. /\ blockRing = <<>> /\ collRing = <<>> /\ compRing = <<>> /\ persRing = <<>>
      /\ stage = EmptyStage /\ col.pc = "idle" /\ collected = db.cur
  BY <1>1 DEF PipelineCold
<1>3. Finished' = db.cur
  BY <1>2 DEF Finished, TypeOK, ThreadsTyped
<1>4. PipelineCold' /\ RingsConsecutive'
  BY <1>1, <1>2, <1>3 DEF PipelineCold, RingsConsecutive, TypeOK, StoresTyped
<1>5. WorksOnHead'
  BY <1>2 DEF WorksOnHead
<1>6. PredecessorsFirst'
  BY DEF PredecessorsFirst
<1>7. FinishedKept'
  <2>1. Downstream' = {}
    BY <1>2 DEF Downstream, BlocksOf, EmptyStage
  <2> QED BY <1>3, <2>1 DEF FinishedKept, EsAtMostOneAhead
<1>8. ImportOwned' /\ BootInOrder' /\ RedisBehindEs'
  BY DEF ImportOwned, BootInOrder, RedisBehindEs
<1> QED BY <1>4, <1>5, <1>6, <1>7, <1>8

\* The comparison of ES with MySQL (ConsistencyService.post) picks a range below
\* which ES is complete.
LEMMA ConsistencyCheckSafe ==
  ASSUME PipelineInv, TypeOK', ConsistencyCheck
  PROVE  PipelineInv'
<1>1. /\ main = "check" /\ ~Running
      /\ UNCHANGED <<collected, bootRing, blockRing, collRing, compRing, persRing, stage,
                     col, imp, db, esBlock, redisBlock>>
  BY DEF ConsistencyCheck, Running, collVars, persVars, esVars, redisVars
<1>2. bootRing = <<>> /\ imp.phase = "none"
  BY <1>1 DEF PipelineInv, BootInOrder, ImportOwned, TypeOK, PersisterTyped
<1>3. CASE db.cur < 0 /\ main' = "loop"
  <2>1. 1..db.cur \subseteq esBlock
    BY <1>3 DEF PipelineInv, TypeOK, StoresTyped
  <2> QED BY <1>1, <1>2, <1>3, <2>1, LoopEntered
<1>4. ASSUME NEW n \in 0..db.cur, EsMaxBlockIs(n), n = db.cur, main' = "loop"
      PROVE  PipelineInv'
  <2>1. db.cur \in esBlock
    BY <1>4 DEF EsMaxBlockIs, PipelineInv, TypeOK, StoresTyped
  <2>2. 1..(db.cur - 1) \subseteq esBlock
    BY <2>1 DEF PipelineInv, PredecessorsFirst, Ordered, Below
  <2>3. 1..db.cur \subseteq esBlock
    BY <2>1, <2>2 DEF PipelineInv, TypeOK, StoresTyped
  <2> QED BY <1>1, <1>2, <1>4, <2>3, LoopEntered
<1>5. ASSUME NEW n \in 0..db.cur, EsMaxBlockIs(n), n # db.cur, main' = "fill",
             boot' = [next |-> StartBlock(n), end |-> db.cur, done |-> FALSE]
      PROVE  PipelineInv'
  <2> USE DEF PipelineInv
  <2>1. ~Running'
    BY <1>5 DEF Running
  <2>2. PipelineCold' /\ RingsConsecutive'
    BY <1>1, <2>1, <1>5 DEF PipelineCold, RingsConsecutive
  <2>3. WorksOnHead'
    BY <1>1 DEF WorksOnHead, Downstream, BlocksOf
  <2>4. PredecessorsFirst'
    BY <1>1 DEF PredecessorsFirst
  <2>5. FinishedKept'
    BY <1>1, <2>1 DEF FinishedKept, EsAtMostOneAhead
  <2>6. ImportOwned' /\ RedisBehindEs'
    BY <1>1, <1>2 DEF ImportOwned, RedisBehindEs
  <2>7. BootInOrder'
    <3>1. 1..n \subseteq esBlock
      BY <1>5 DEF EsMaxBlockIs, PredecessorsFirst, Ordered, Below, TypeOK, StoresTyped
    <3>2. Below(n + 1, esBlock)
      BY <3>1, <1>5 DEF Below, TypeOK, StoresTyped
    <3> QED BY <1>1, <1>2, <1>5, <3>2 DEF BootInOrder, StartBlock, TypeOK, StoresTyped, Below
  <2> QED BY <2>2, <2>3, <2>4, <2>5, <2>6, <2>7
<1> QED BY <1>3, <1>4, <1>5 DEF ConsistencyCheck

\* When ShutdownCallback reports completion, ES holds every committed block and
\* the main loop may begin.
LEMMA BootstrapFinishSafe ==
  ASSUME PipelineInv, TypeOK', BootstrapFinish
  PROVE  PipelineInv'
<1>1. /\ main = "fill" /\ main' = "loop" /\ boot.done /\ boot.next > boot.end
      /\ UNCHANGED <<collected, bootRing, blockRing, collRing, compRing, persRing, stage,
                     col, imp, db, esBlock, redisBlock>>
  BY DEF BootstrapFinish, memory, store
<1>2. /\ boot.end = db.cur /\ boot.next - Len(bootRing) = boot.end + 1
      /\ boot.next =< boot.end + 1 /\ Below(boot.next - Len(bootRing), esBlock)
  BY <1>1 DEF PipelineInv, BootInOrder
<1>3. bootRing = <<>>
  <2>1. /\ boot.next \in Nat /\ boot.end \in Nat /\ Len(bootRing) \in Nat
        /\ bootRing \in Seq(Blocks)
    BY BoundsAssumption DEF PipelineInv, TypeOK, RingsTyped, ThreadsTyped, Blocks
  <2>2. Len(bootRing) = 0
    BY <1>1, <1>2, <2>1
  <2> QED BY <2>1, <2>2
<1>4. imp.phase = "none"
  BY <1>1, <1>3 DEF PipelineInv, ImportOwned, Running, TypeOK, PersisterTyped
<1>5. 1..db.cur \subseteq esBlock
  BY <1>2 DEF Below, PipelineInv, TypeOK, StoresTyped
<1> QED BY <1>1, <1>3, <1>4, <1>5, LoopEntered

(***************************************************************************)
(* How the order of blocks survives each move, as facts about any contents *)
(* of the index, the staging set and the two rings.                        *)
(***************************************************************************)

\* Predecessors in a set are predecessors in every larger one.
LEMMA BelowMonotone ==
  ASSUME NEW b, NEW s, NEW t, Below(b, s), s \subseteq t
  PROVE  Below(b, t)
BY DEF Below

\* Publishing a block to the complement ring keeps the order when its
\* predecessors are already on their way.
LEMMA OrderedPublish ==
  ASSUME NEW es, NEW st, NEW pr \in Seq(Event), NEW cr \in Seq(Event), NEW e \in Event,
         Ordered(es, st, pr, cr), Below(e.blk, es \cup st \cup BlocksOf(pr) \cup BlocksOf(cr))
  PROVE  Ordered(es, st, pr, Append(cr, e))
<1> DEFINE q == Append(cr, e)
<1>1. Len(q) = Len(cr) + 1 /\ q[Len(cr) + 1] = e /\ \A i \in 1..Len(cr) : q[i] = cr[i]
  OBVIOUS
<1>2. /\ \A i \in 1..Len(cr) : BlocksBefore(q, i) = BlocksBefore(cr, i)
      /\ BlocksBefore(q, Len(cr) + 1) = BlocksOf(cr)
  BY RingAppend
<1>3. Len(cr) \in Nat
  OBVIOUS
<1> HIDE DEF q
<1>4. ASSUME NEW i \in 1..Len(q)
      PROVE  Below(q[i].blk, es \cup st \cup BlocksOf(pr) \cup BlocksBefore(q, i))
  <2>1. CASE i \in 1..Len(cr)
    BY <1>1, <1>2, <2>1 DEF Ordered
  <2>2. CASE i = Len(cr) + 1
    BY <1>1, <1>2, <2>2
  <2> QED BY <1>1, <1>3, <2>1, <2>2
<1> QED BY <1>4 DEF Ordered, q

\* Handing an event from the complement ring to the persistence ring keeps the
\* order of the blocks.
LEMMA OrderedForward ==
  ASSUME NEW es, NEW st, NEW pr \in Seq(Event), NEW cr \in Seq(Event), cr # <<>>,
         Ordered(es, st, pr, cr)
  PROVE  Ordered(es, st, Append(pr, Head(cr)), Tail(cr))
<1> DEFINE e == Head(cr)
           p == Append(pr, e)
           q == Tail(cr)
<1>1. /\ Len(p) = Len(pr) + 1 /\ p[Len(pr) + 1] = e /\ \A i \in 1..Len(pr) : p[i] = pr[i]
      /\ e \in Event /\ Len(pr) \in Nat
  OBVIOUS
<1>2. /\ \A i \in 1..Len(pr) : BlocksBefore(p, i) = BlocksBefore(pr, i)
      /\ BlocksBefore(p, Len(pr) + 1) = BlocksOf(pr)
      /\ BlocksOf(p) = BlocksOf(pr) \cup {e.blk}
  BY <1>1, RingAppend
<1>3. /\ \A i \in 1..Len(q) : q[i] = cr[i + 1]
      /\ \A i \in 1..Len(q) : BlocksBefore(cr, i + 1) = {e.blk} \cup BlocksBefore(q, i)
      /\ BlocksBefore(cr, 1) = {} /\ cr[1] = e
      /\ Len(q) = Len(cr) - 1 /\ Len(cr) \in Nat \ {0}
  BY RingTail
<1> HIDE DEF e, p, q
<1>4. ASSUME NEW i \in 1..Len(p)
      PROVE  Below(p[i].blk, es \cup st \cup BlocksBefore(p, i))
  <2>1. CASE i \in 1..Len(pr)
    BY <1>1, <1>2, <2>1 DEF Ordered
  <2>2. CASE i = Len(pr) + 1
    <3>0. 1 \in 1..Len(cr)
      BY <1>3
    <3>1. Below(cr[1].blk, es \cup st \cup BlocksOf(pr) \cup BlocksBefore(cr, 1))
      BY <3>0 DEF Ordered
    <3>2. es \cup st \cup BlocksOf(pr) \cup BlocksBefore(cr, 1) = es \cup st \cup BlocksOf(pr)
      BY <1>3
    <3> QED BY <1>1, <1>2, <1>3, <2>2, <3>1, <3>2
  <2> QED BY <1>1, <2>1, <2>2
<1>5. ASSUME NEW i \in 1..Len(q)
      PROVE  Below(q[i].blk, es \cup st \cup BlocksOf(p) \cup BlocksBefore(q, i))
  <2>1. i + 1 \in 1..Len(cr)
    BY <1>3
  <2>2. Below(cr[i + 1].blk, es \cup st \cup BlocksOf(pr) \cup BlocksBefore(cr, i + 1))
    BY <2>1 DEF Ordered
  <2>3. es \cup st \cup BlocksOf(pr) \cup BlocksBefore(cr, i + 1)
          = es \cup st \cup BlocksOf(p) \cup BlocksBefore(q, i)
    BY <1>2, <1>3
  <2> QED BY <1>3, <2>2, <2>3
<1>6. (\A b \in es : Below(b, es)) /\ (\A b \in st : Below(b, es \cup st))
  BY DEF Ordered
<1>7. Ordered(es, st, p, q)
  BY <1>4, <1>5, <1>6 DEF Ordered
<1> QED BY <1>7 DEF p, q, e

\* Moving the event at the head of the persistence ring to the stage keeps the
\* order.
LEMMA OrderedStage ==
  ASSUME NEW es, NEW st, NEW pr \in Seq(Event), NEW cr \in Seq(Event), pr # <<>>,
         Ordered(es, st, pr, cr)
  PROVE  /\ Ordered(es, st \cup {Head(pr).blk}, pr, cr)
         /\ Ordered(es, st \cup {Head(pr).blk}, Tail(pr), cr)
<1> DEFINE e == Head(pr)
           t == st \cup {e.blk}
           q == Tail(pr)
<1>1. /\ \A i \in 1..Len(q) : q[i] = pr[i + 1]
      /\ \A i \in 1..Len(q) : BlocksBefore(pr, i + 1) = {e.blk} \cup BlocksBefore(q, i)
      /\ BlocksBefore(pr, 1) = {} /\ pr[1] = e
      /\ Len(q) = Len(pr) - 1 /\ Len(pr) \in Nat \ {0}
      /\ BlocksOf(pr) = {e.blk} \cup BlocksOf(q)
  BY RingTail
<1>2. t = st \cup {e.blk}
  OBVIOUS
<1> HIDE DEF e, t, q
<1>3. \A b \in es : Below(b, es)
  BY DEF Ordered
<1>4. ASSUME NEW b \in t PROVE Below(b, es \cup t)
  <2>1. CASE b \in st
    BY <1>2, <2>1, BelowMonotone DEF Ordered, Below
  <2>2. CASE b = e.blk
    <3>0. 1 \in 1..Len(pr)
      BY <1>1
    <3>1. Below(pr[1].blk, es \cup st \cup BlocksBefore(pr, 1))
      BY <3>0 DEF Ordered
    <3> QED BY <1>1, <1>2, <2>2, <3>1 DEF Below
  <2> QED BY <1>2, <2>1, <2>2
<1>5. ASSUME NEW i \in 1..Len(pr)
      PROVE  Below(pr[i].blk, es \cup t \cup BlocksBefore(pr, i))
  BY <1>2 DEF Ordered, Below
<1>6. ASSUME NEW i \in 1..Len(q)
      PROVE  Below(q[i].blk, es \cup t \cup BlocksBefore(q, i))
  <2>1. i + 1 \in 1..Len(pr)
    BY <1>1
  <2>2. Below(pr[i + 1].blk, es \cup st \cup BlocksBefore(pr, i + 1))
    BY <2>1 DEF Ordered
  <2>3. es \cup st \cup BlocksBefore(pr, i + 1) = es \cup t \cup BlocksBefore(q, i)
    BY <1>1, <1>2
  <2> QED BY <1>1, <2>2, <2>3
<1>7. ASSUME NEW i \in 1..Len(cr)
      PROVE  /\ Below(cr[i].blk, es \cup t \cup BlocksOf(pr) \cup BlocksBefore(cr, i))
             /\ Below(cr[i].blk, es \cup t \cup BlocksOf(q) \cup BlocksBefore(cr, i))
  <2>1. Below(cr[i].blk, es \cup st \cup BlocksOf(pr) \cup BlocksBefore(cr, i))
    BY DEF Ordered
  <2> QED BY <1>1, <1>2, <2>1 DEF Below
<1>8. Ordered(es, t, pr, cr)
  BY <1>3, <1>4, <1>5, <1>7 DEF Ordered
<1>9. Ordered(es, t, q, cr)
  BY <1>3, <1>4, <1>6, <1>7 DEF Ordered
<1> QED BY <1>8, <1>9 DEF t, e, q

\* Saving the staged blocks in ES keeps the order.
LEMMA OrderedSave ==
  ASSUME NEW es, NEW st, NEW pr, NEW cr, Ordered(es, st, pr, cr)
  PROVE  Ordered(es \cup st, st, pr, cr)
<1> DEFINE t == es \cup st
<1>1. t \cup st = t
  OBVIOUS
<1>2. \A b \in t : Below(b, t)
  BY DEF Ordered, Below
<1>3. \A b \in st : Below(b, t \cup st)
  BY <1>1, <1>2
<1>4. ASSUME NEW i \in 1..Len(pr) PROVE Below(pr[i].blk, t \cup st \cup BlocksBefore(pr, i))
  BY <1>1 DEF Ordered
<1>5. ASSUME NEW i \in 1..Len(cr)
      PROVE  Below(cr[i].blk, t \cup st \cup BlocksOf(pr) \cup BlocksBefore(cr, i))
  BY <1>1 DEF Ordered
<1> HIDE DEF t
<1>6. Ordered(t, st, pr, cr)
  BY <1>2, <1>3, <1>4, <1>5 DEF Ordered
<1> QED BY <1>6 DEF t

\* Dropping a stage that ES holds, and the event that filled it, keeps the order.
LEMMA OrderedClear ==
  ASSUME NEW es, NEW st, NEW pr \in Seq(Event), NEW cr \in Seq(Event), pr # <<>>,
         Ordered(es, st, pr, cr), st \subseteq es, Head(pr).blk \in st
  PROVE  Ordered(es, {}, Tail(pr), cr)
<1> DEFINE q == Tail(pr)
<1>1. Ordered(es, st, q, cr)
  <2>1. st \cup {Head(pr).blk} = st
    OBVIOUS
  <2> QED BY <2>1, OrderedStage
<1> HIDE DEF q
<1>2. es \cup st = es /\ es \cup {} = es
  OBVIOUS
<1>3. ASSUME NEW i \in 1..Len(q) PROVE Below(q[i].blk, es \cup {} \cup BlocksBefore(q, i))
  BY <1>1, <1>2 DEF Ordered
<1>4. ASSUME NEW i \in 1..Len(cr)
      PROVE  Below(cr[i].blk, es \cup {} \cup BlocksOf(q) \cup BlocksBefore(cr, i))
  BY <1>1, <1>2 DEF Ordered
<1>5. Ordered(es, {}, q, cr)
  BY <1>1, <1>3, <1>4 DEF Ordered
<1> QED BY <1>5 DEF q

(***************************************************************************)
(* One lemma per action that disturbs the invariant.                       *)
(***************************************************************************)

\* Publishing the next missing block at start-up keeps the invariant.
LEMMA BootstrapPublishSafe ==
  ASSUME PipelineInv, TypeOK', BootstrapPublish
  PROVE  PipelineInv'
<1>1. /\ main = "fill" /\ main' = "fill" /\ ~Running /\ ~Running' /\ boot.next =< boot.end
      /\ bootRing' = Append(bootRing, boot.next)
      /\ boot' = [boot EXCEPT !.next = @ + 1]
      /\ UNCHANGED <<collected, blockRing, collRing, compRing, persRing, stage,
                     col, imp, db, esBlock, redisBlock>>
  BY DEF BootstrapPublish, Running, collVars, persVars, esVars, redisVars
<1>2. /\ boot.next \in Nat /\ boot.end \in Nat /\ Len(bootRing) \in Nat
      /\ bootRing \in Seq(Blocks) /\ boot.next \in Blocks
      /\ boot \in [next : 0..(MaxBlock + 1), end : Blocks, done : BOOLEAN]
  BY <1>1, BoundsAssumption DEF PipelineInv, TypeOK, RingsTyped, ThreadsTyped, Blocks
<1>3. PipelineCold' /\ RingsConsecutive'
  BY <1>1 DEF PipelineInv, PipelineCold, RingsConsecutive
<1>4. WorksOnHead'
  BY <1>1 DEF PipelineInv, WorksOnHead, Downstream, BlocksOf
<1>5. PredecessorsFirst'
  BY <1>1 DEF PipelineInv, PredecessorsFirst
<1>6. FinishedKept'
  BY <1>1 DEF PipelineInv, FinishedKept, EsAtMostOneAhead
<1>7. RedisBehindEs'
  BY <1>1 DEF PipelineInv, RedisBehindEs
<1>8. ImportOwned'
  <2>1. bootRing # <<>> => Head(bootRing') = Head(bootRing) /\ bootRing' # <<>>
    BY <1>1, <1>2
  <2> QED BY <1>1, <2>1 DEF PipelineInv, ImportOwned
<1>9. BootInOrder'
  <2>1. /\ boot'.next = boot.next + 1 /\ boot'.end = boot.end /\ boot'.done = boot.done
    BY <1>1, <1>2
  <2>2. /\ Len(bootRing') = Len(bootRing) + 1 /\ bootRing'[Len(bootRing) + 1] = boot.next
        /\ \A i \in 1..Len(bootRing) : bootRing'[i] = bootRing[i]
    BY <1>1, <1>2
  <2>3. boot'.next - Len(bootRing') = boot.next - Len(bootRing)
    BY <1>2, <2>1, <2>2
  <2>4. /\ boot.end = db.cur /\ 1 =< boot.next - Len(bootRing)
        /\ \A i \in 1..Len(bootRing) : bootRing[i] = boot.next - Len(bootRing) - 1 + i
        /\ Below(boot.next - Len(bootRing), esBlock)
        /\ boot.done => boot.next - Len(bootRing) = boot.end + 1
    BY <1>1 DEF PipelineInv, BootInOrder
  <2>5. ~boot.done
    BY <1>1, <1>2, <2>4
  <2>6. \A i \in 1..Len(bootRing') : bootRing'[i] = boot'.next - Len(bootRing') - 1 + i
    <3> SUFFICES ASSUME NEW i \in 1..Len(bootRing')
                 PROVE  bootRing'[i] = boot'.next - Len(bootRing') - 1 + i
      OBVIOUS
    <3>1. CASE i \in 1..Len(bootRing)
      BY <1>2, <2>2, <2>3, <2>4, <3>1
    <3>2. CASE i = Len(bootRing) + 1
      BY <1>2, <2>1, <2>2, <3>2
    <3> QED BY <1>2, <2>2, <3>1, <3>2
  <2>7. 1 =< boot'.next - Len(bootRing') /\ boot'.next =< boot'.end + 1
    BY <1>1, <1>2, <2>1, <2>3, <2>4
  <2>8. Below(boot'.next - Len(bootRing'), esBlock')
    BY <1>1, <2>3, <2>4
  <2> QED BY <1>1, <2>1, <2>4, <2>5, <2>6, <2>7, <2>8 DEF BootInOrder
<1> QED BY <1>3, <1>4, <1>5, <1>6, <1>7, <1>8, <1>9 DEF PipelineInv

\* Beginning the re-import of a missing block keeps the invariant.
LEMMA BootstrapHandleSafe ==
  ASSUME PipelineInv, TypeOK', BootstrapHandle
  PROVE  PipelineInv'
<1>1. /\ bootRing # <<>> /\ imp'.who = "boot" /\ imp'.phase = "es" /\ imp'.todo = EsIndex
      /\ imp'.blks = {Head(bootRing)}
      /\ UNCHANGED <<main, collected, boot, bootRing, blockRing, collRing, compRing, persRing,
                     stage, col, db, esBlock, redisBlock>>
  BY DEF BootstrapHandle, bootVars, collVars, esVars, redisVars
<1>2. main = "fill"
  BY <1>1 DEF PipelineInv, BootInOrder
<1>3. PipelineCold' /\ RingsConsecutive'
  BY <1>1 DEF PipelineInv, PipelineCold, RingsConsecutive, Running, Finished
<1>4. WorksOnHead'
  BY <1>1 DEF PipelineInv, WorksOnHead, Downstream, BlocksOf
<1>5. PredecessorsFirst'
  BY <1>1 DEF PipelineInv, PredecessorsFirst
<1>6. FinishedKept'
  BY <1>1, <1>2 DEF PipelineInv, FinishedKept, EsAtMostOneAhead, Running
<1>7. ImportOwned'
  BY <1>1, <1>2 DEF ImportOwned, EsIndex
<1>8. BootInOrder' /\ RedisBehindEs'
  BY <1>1 DEF PipelineInv, BootInOrder, RedisBehindEs
<1> QED BY <1>3, <1>4, <1>5, <1>6, <1>7, <1>8 DEF PipelineInv

\* Finishing the re-import of a block keeps the invariant: ES is complete up to
\* that block, and the completion flag is set by the last one only.
LEMMA BootstrapDoneSafe ==
  ASSUME PipelineInv, TypeOK', BootstrapDone
  PROVE  PipelineInv'
<1>1. /\ bootRing # <<>> /\ imp.who = "boot" /\ imp.phase = "redis"
      /\ imp'.phase = "none"
      /\ boot' = [boot EXCEPT !.done = @ \/ IsLast(Head(bootRing))]
      /\ bootRing' = Tail(bootRing)
      /\ UNCHANGED <<main, collected, blockRing, collRing, compRing, persRing,
                     stage, col, db, esBlock, redisBlock>>
  BY DEF BootstrapDone, NoImport, collVars, esVars, redisVars
<1>2. /\ main = "fill" /\ imp.blks = {Head(bootRing)} /\ Head(bootRing) \in esBlock
  BY <1>1 DEF PipelineInv, ImportOwned
<1>3. PipelineCold' /\ RingsConsecutive'
  BY <1>1 DEF PipelineInv, PipelineCold, RingsConsecutive, Running, Finished
<1>4. WorksOnHead'
  BY <1>1 DEF PipelineInv, WorksOnHead, Downstream, BlocksOf
<1>5. PredecessorsFirst'
  BY <1>1 DEF PipelineInv, PredecessorsFirst
<1>6. FinishedKept'
  BY <1>1, <1>2 DEF PipelineInv, FinishedKept, EsAtMostOneAhead, Running
<1>7. ImportOwned' /\ RedisBehindEs'
  BY <1>1 DEF PipelineInv, ImportOwned, RedisBehindEs
<1>8. BootInOrder'
  <2>1. /\ boot.next \in Nat /\ boot.end \in Nat /\ Len(bootRing) \in Nat \ {0}
        /\ bootRing \in Seq(Blocks)
        /\ boot \in [next : 0..(MaxBlock + 1), end : Blocks, done : BOOLEAN]
    BY <1>1, BoundsAssumption DEF PipelineInv, TypeOK, RingsTyped, ThreadsTyped, Blocks
  <2>2. /\ boot'.next = boot.next /\ boot'.end = boot.end
        /\ boot'.done => boot.done \/ Head(bootRing) = boot.end
    BY <1>1, <2>1 DEF IsLast
  <2>3. /\ Len(bootRing') = Len(bootRing) - 1 /\ Head(bootRing) = bootRing[1]
        /\ \A i \in 1..Len(bootRing') : bootRing'[i] = bootRing[i + 1]
    BY <1>1, <2>1
  <2>4. /\ boot.end = db.cur /\ 1 =< boot.next - Len(bootRing) /\ boot.next =< boot.end + 1
        /\ \A i \in 1..Len(bootRing) : bootRing[i] = boot.next - Len(bootRing) - 1 + i
        /\ Below(boot.next - Len(bootRing), esBlock)
        /\ boot.done => boot.next - Len(bootRing) = boot.end + 1
    BY <1>2 DEF PipelineInv, BootInOrder
  <2>5. /\ boot'.next - Len(bootRing') = boot.next - Len(bootRing) + 1
        /\ Head(bootRing) = boot.next - Len(bootRing)
    BY <2>1, <2>2, <2>3, <2>4
  <2>6. \A i \in 1..Len(bootRing') : bootRing'[i] = boot'.next - Len(bootRing') - 1 + i
    <3> SUFFICES ASSUME NEW i \in 1..Len(bootRing')
                 PROVE  bootRing'[i] = boot'.next - Len(bootRing') - 1 + i
      OBVIOUS
    <3>1. i + 1 \in 1..Len(bootRing)
      BY <2>1, <2>3
    <3>2. bootRing[i + 1] = boot.next - Len(bootRing) - 1 + (i + 1)
      BY <2>4, <3>1
    <3> QED BY <2>1, <2>3, <2>5, <3>2
  <2>7. Below(boot'.next - Len(bootRing'), esBlock')
    BY <1>1, <1>2, <2>1, <2>4, <2>5 DEF Below
  <2>8. boot'.done => boot'.next - Len(bootRing') = boot'.end + 1
    BY <2>1, <2>2, <2>4, <2>5
  <2>9. 1 =< boot'.next - Len(bootRing') /\ boot'.next =< boot'.end + 1
    BY <2>1, <2>2, <2>4, <2>5
  <2> QED BY <1>1, <1>2, <2>2, <2>4, <2>6, <2>7, <2>8, <2>9 DEF BootInOrder
<1> QED BY <1>3, <1>4, <1>5, <1>6, <1>7, <1>8 DEF PipelineInv

\* The numbers the arguments below compute with.
LEMMA Sizes ==
  ASSUME PipelineInv
  PROVE  /\ collected \in Int /\ Finished \in Int /\ db.cur \in Int
         /\ Len(blockRing) \in Nat /\ Len(collRing) \in Nat
         /\ collRing \in Seq(Blocks) /\ blockRing \in Seq(Blocks)
         /\ compRing \in Seq(Event) /\ persRing \in Seq(Event)
<1>1. collected \in Int /\ db.cur \in Int
  BY BoundsAssumption DEF PipelineInv, TypeOK, ThreadsTyped, StoresTyped
<1>2. /\ collRing \in Seq(Blocks) /\ blockRing \in Seq(Blocks)
      /\ compRing \in Seq(Event) /\ persRing \in Seq(Event)
  BY DEF PipelineInv, TypeOK, RingsTyped
<1>3. Len(blockRing) \in Nat /\ Len(collRing) \in Nat
  BY <1>2
<1> QED BY <1>1, <1>2, <1>3 DEF Finished

\* The main loop breaking on an exception keeps the invariant.
LEMMA MainLoopBreakSafe ==
  ASSUME PipelineInv, TypeOK', MainLoopBreak
  PROVE  PipelineInv'
<1>1. /\ main = "loop" /\ main' = "stopped" /\ Running /\ Running'
      /\ UNCHANGED <<collected, boot, bootRing, blockRing, collRing, compRing, persRing,
                     stage, col, imp, db, esBlock, redisBlock>>
  BY DEF MainLoopBreak, Running, memory, store
<1>2. PipelineCold' /\ RingsConsecutive'
  BY <1>1 DEF PipelineInv, PipelineCold, RingsConsecutive, Finished
<1>3. WorksOnHead'
  BY <1>1 DEF PipelineInv, WorksOnHead, Downstream, BlocksOf
<1>4. PredecessorsFirst'
  BY <1>1 DEF PipelineInv, PredecessorsFirst
<1>5. FinishedKept'
  BY <1>1 DEF PipelineInv, FinishedKept, EsAtMostOneAhead, Finished, Downstream, BlocksOf
<1>6. ImportOwned' /\ BootInOrder' /\ RedisBehindEs'
  BY <1>1 DEF PipelineInv, ImportOwned, BootInOrder, RedisBehindEs
<1> QED BY <1>2, <1>3, <1>4, <1>5, <1>6 DEF PipelineInv

\* One round of the main loop (AgentApplication.run) keeps the invariant.
LEMMA CollectSafe ==
  ASSUME PipelineInv, TypeOK', Collect
  PROVE  PipelineInv'
<1>1. /\ main = "loop" /\ main' = "loop" /\ Running /\ Running'
      /\ collected' = collected + 1 /\ blockRing' = Append(blockRing, collected + 1)
      /\ UNCHANGED <<boot, bootRing, collRing, compRing, persRing,
                     stage, col, imp, db, esBlock, redisBlock>>
  BY DEF Collect, Running, bootVars, collVars, persVars, esVars, redisVars
<1>2. /\ Len(blockRing') = Len(blockRing) + 1
      /\ blockRing'[Len(blockRing) + 1] = collected + 1
      /\ \A i \in 1..Len(blockRing) : blockRing'[i] = blockRing[i]
  BY <1>1, Sizes
<1>3. Finished' = Finished
  BY <1>1, <1>2, Sizes DEF Finished
<1>4. PipelineCold'
  BY <1>1 DEF PipelineCold
<1>5. RingsConsecutive'
  <2>1. /\ \A i \in 1..Len(collRing) : collRing[i] = Finished + i
        /\ \A i \in 1..Len(blockRing) : blockRing[i] = Finished + Len(collRing) + i
        /\ db.cur = IF Finished =< 0 THEN -1 ELSE Finished
    BY <1>1 DEF PipelineInv, RingsConsecutive
  <2>2. ASSUME NEW i \in 1..Len(blockRing')
        PROVE  blockRing'[i] = Finished + Len(collRing) + i
    <3>1. CASE i \in 1..Len(blockRing)
      BY <1>2, <2>1, <3>1
    <3>2. CASE i = Len(blockRing) + 1
      <4>1. collected = Finished + Len(blockRing) + Len(collRing)
        BY Sizes DEF Finished
      <4> QED BY <1>2, <3>2, <4>1, Sizes
    <3> QED BY <1>2, <3>1, <3>2, Sizes
  <2> QED BY <1>1, <1>3, <2>1, <2>2 DEF RingsConsecutive
<1>6. WorksOnHead'
  BY <1>1 DEF PipelineInv, WorksOnHead, Downstream, BlocksOf
<1>7. PredecessorsFirst'
  BY <1>1 DEF PipelineInv, PredecessorsFirst
<1>8. FinishedKept'
  BY <1>1, <1>3 DEF PipelineInv, FinishedKept, EsAtMostOneAhead, Downstream, BlocksOf
<1>9. ImportOwned' /\ BootInOrder' /\ RedisBehindEs'
  BY <1>1 DEF PipelineInv, ImportOwned, BootInOrder, RedisBehindEs
<1> QED BY <1>4, <1>5, <1>6, <1>7, <1>8, <1>9 DEF PipelineInv

\* BlockEventHandler handing a block on keeps the invariant.
LEMMA BlockHandleSafe ==
  ASSUME PipelineInv, TypeOK', BlockHandle
  PROVE  PipelineInv'
<1>1. /\ blockRing # <<>> /\ collRing' = Append(collRing, Head(blockRing))
      /\ blockRing' = Tail(blockRing)
      /\ UNCHANGED <<main, collected, boot, bootRing, compRing, persRing,
                     stage, col, imp, db, esBlock, redisBlock>>
  BY DEF BlockHandle, bootVars, persVars, esVars, redisVars
<1>2. Running /\ Running'
  BY <1>1 DEF PipelineInv, PipelineCold, Running
<1>3. /\ Len(blockRing') = Len(blockRing) - 1 /\ Len(blockRing) \in Nat \ {0}
      /\ \A i \in 1..Len(blockRing') : blockRing'[i] = blockRing[i + 1]
      /\ Head(blockRing) = blockRing[1] /\ Head(blockRing) \in Blocks
  BY <1>1, Sizes
<1>4. /\ Len(collRing') = Len(collRing) + 1 /\ collRing'[Len(collRing) + 1] = blockRing[1]
      /\ \A i \in 1..Len(collRing) : collRing'[i] = collRing[i]
      /\ collRing # <<>> => collRing' # <<>> /\ Head(collRing') = Head(collRing)
  <2>1. /\ Len(collRing') = Len(collRing) + 1 /\ collRing'[Len(collRing) + 1] = blockRing[1]
        /\ \A i \in 1..Len(collRing) : collRing'[i] = collRing[i]
    BY <1>1, <1>3, Sizes
  <2>2. collRing' \in Seq(Blocks)
    BY <1>1, <1>3, Sizes
  <2>3. ASSUME collRing # <<>> PROVE collRing' # <<>> /\ Head(collRing') = Head(collRing)
    <3>1. 1 \in 1..Len(collRing) /\ Head(collRing) = collRing[1]
      BY <2>3, Sizes
    <3>2. collRing' # <<>>
      BY <2>1, <2>2, Sizes
    <3>3. Head(collRing') = collRing'[1]
      BY <2>2, <3>2
    <3> QED BY <2>1, <3>1, <3>2, <3>3
  <2> QED BY <2>1, <2>3
<1>5. Finished' = Finished
  BY <1>1, <1>3, <1>4, Sizes DEF Finished
<1>6. PipelineCold'
  BY <1>2 DEF PipelineCold
<1>7. RingsConsecutive'
  <2>1. /\ \A i \in 1..Len(collRing) : collRing[i] = Finished + i
        /\ \A i \in 1..Len(blockRing) : blockRing[i] = Finished + Len(collRing) + i
        /\ db.cur = IF Finished =< 0 THEN -1 ELSE Finished
    BY <1>2 DEF PipelineInv, RingsConsecutive
  <2>2. ASSUME NEW i \in 1..Len(collRing')
        PROVE  collRing'[i] = Finished + i
    <3>1. CASE i \in 1..Len(collRing)
      BY <1>4, <2>1, <3>1
    <3>2. CASE i = Len(collRing) + 1
      BY <1>3, <1>4, <2>1, <3>2, Sizes
    <3> QED BY <1>4, <3>1, <3>2, Sizes
  <2>3. ASSUME NEW i \in 1..Len(blockRing')
        PROVE  blockRing'[i] = Finished + Len(collRing') + i
    <3>1. i + 1 \in 1..Len(blockRing)
      BY <1>3
    <3> QED BY <1>3, <1>4, <2>1, <3>1, Sizes
  <2> QED BY <1>1, <1>5, <2>1, <2>2, <2>3 DEF RingsConsecutive
<1>8. WorksOnHead'
  BY <1>1, <1>4 DEF PipelineInv, WorksOnHead, Downstream, BlocksOf
<1>9. PredecessorsFirst'
  BY <1>1 DEF PipelineInv, PredecessorsFirst
<1>10. FinishedKept'
  BY <1>1, <1>2, <1>5 DEF PipelineInv, FinishedKept, EsAtMostOneAhead, Downstream, BlocksOf
<1>11. ImportOwned' /\ BootInOrder' /\ RedisBehindEs'
  BY <1>1, <1>2 DEF PipelineInv, ImportOwned, BootInOrder, RedisBehindEs
<1> QED BY <1>6, <1>7, <1>8, <1>9, <1>10, <1>11 DEF PipelineInv

\* Publishing a block downstream before its commit keeps the invariant: it is
\* the first block that is not finished, however often it is retried.
LEMMA CollectPublishSafe ==
  ASSUME PipelineInv, TypeOK', CollectPublish
  PROVE  PipelineInv'
<1>1. PICK b \in Blocks : CollectPublish!(b)
  BY DEF CollectPublish
<1> DEFINE e == AttemptEvent(b)
<1>2. /\ collRing # <<>> /\ b = Head(collRing) /\ col.pc = "idle"
      /\ compRing' = Append(compRing, e)
      /\ col' = [col EXCEPT !.pc = "published", !.ev = e]
      /\ UNCHANGED <<main, collected, boot, bootRing, blockRing, collRing, persRing,
                     stage, imp, db, esBlock, redisBlock>>
  BY <1>1 DEF Attempting, bootVars, persVars, esVars, redisVars
<1>3. e \in Event /\ e.blk = b
  <2>1. e \in Event
    BY AttemptTyped DEF PipelineInv, TypeOK
  <2> QED BY <2>1 DEF AttemptEvent
<1>4. col'.pc = "published" /\ col'.ev = e
  BY <1>2 DEF PipelineInv, TypeOK, CollectorTyped
<1> HIDE DEF e
<1>5. Running /\ Running' /\ Finished' = Finished
  BY <1>2 DEF PipelineInv, PipelineCold, Running, Finished
<1>6. b = Finished + 1
  <2>1. collRing[1] = b /\ 1 \in 1..Len(collRing)
    BY <1>2, Sizes
  <2> QED BY <1>5, <2>1 DEF PipelineInv, RingsConsecutive
<1>7. Downstream' = Downstream \cup {b}
  <2>1. BlocksOf(compRing') = BlocksOf(compRing) \cup {b}
    BY <1>2, <1>3, RingAppend, Sizes
  <2>2. BlocksOf(persRing)' = BlocksOf(persRing)
    BY <1>2 DEF BlocksOf
  <2>3. BlocksOf(compRing)' = BlocksOf(compRing')
    BY DEF BlocksOf
  <2> QED BY <1>2, <2>1, <2>2, <2>3 DEF Downstream
<1>8. 1..Finished \subseteq esBlock \cup Downstream /\ \A d \in Downstream : d =< Finished + 1
  BY <1>5 DEF PipelineInv, FinishedKept
<1>9. PipelineCold'
  BY <1>5 DEF PipelineCold
<1>10. RingsConsecutive'
  BY <1>2, <1>5 DEF PipelineInv, RingsConsecutive
<1>11. WorksOnHead'
  BY <1>2, <1>3, <1>4, <1>7 DEF WorksOnHead
<1>12. PredecessorsFirst'
  <2>1. Below(b, esBlock \cup Downstream)
    BY <1>6, <1>8, Sizes DEF Below
  <2>2. Below(e.blk, esBlock \cup stage.blks \cup BlocksOf(persRing) \cup BlocksOf(compRing))
    BY <1>3, <2>1 DEF Below, Downstream
  <2>3. Ordered(esBlock, stage.blks, persRing, Append(compRing, e))
    BY <1>3, <2>2, OrderedPublish, Sizes DEF PipelineInv, PredecessorsFirst
  <2> QED BY <1>2, <2>3 DEF PredecessorsFirst
<1>13. FinishedKept'
  BY <1>2, <1>5, <1>6, <1>7, <1>8, Sizes DEF PipelineInv, FinishedKept, EsAtMostOneAhead
<1>14. ImportOwned' /\ BootInOrder' /\ RedisBehindEs'
  BY <1>2, <1>5 DEF PipelineInv, ImportOwned, BootInOrder, RedisBehindEs
<1> QED BY <1>9, <1>10, <1>11, <1>12, <1>13, <1>14 DEF PipelineInv

\* The commit advances MySQL by exactly one block, which is already published.
LEMMA CollectCommitSafe ==
  ASSUME PipelineInv, TypeOK', CollectCommit
  PROVE  PipelineInv'
<1> DEFINE b == col.ev.blk
<1>1. /\ collRing # <<>> /\ col.pc = "written" /\ col'.pc = "idle"
      /\ db' = StatRow(b) /\ collRing' = Tail(collRing)
      /\ UNCHANGED <<main, collected, boot, bootRing, blockRing, compRing, persRing,
                     stage, imp, esBlock, redisBlock>>
  BY DEF CollectCommit, bootVars, persVars, esVars, redisVars
<1>2. Running /\ Running'
  BY <1>1 DEF PipelineInv, PipelineCold, Running
<1>3. /\ b = Head(collRing) /\ b \in esBlock \cup Downstream /\ b \in Blocks
  BY <1>1 DEF PipelineInv, WorksOnHead, TypeOK, CollectorTyped, Event
<1>4. db'.cur = IF b = 0 THEN db.cur ELSE b
  BY <1>1 DEF StatRow
<1> HIDE DEF b
<1>5. /\ Len(collRing') = Len(collRing) - 1 /\ Len(collRing) \in Nat \ {0}
      /\ \A i \in 1..Len(collRing') : collRing'[i] = collRing[i + 1]
      /\ b = collRing[1]
  BY <1>1, <1>3, Sizes
<1>6. /\ \A i \in 1..Len(collRing) : collRing[i] = Finished + i
      /\ \A i \in 1..Len(blockRing) : blockRing[i] = Finished + Len(collRing) + i
      /\ db.cur = IF Finished =< 0 THEN -1 ELSE Finished
  BY <1>2 DEF PipelineInv, RingsConsecutive
<1>7. b = Finished + 1
  BY <1>5, <1>6, Sizes
<1>8. Finished' = Finished + 1
  BY <1>1, <1>5, Sizes DEF Finished
<1>9. db'.cur = IF Finished + 1 =< 0 THEN -1 ELSE Finished + 1
  BY <1>3, <1>4, <1>6, <1>7, Sizes, BoundsAssumption DEF Blocks
<1>10. Downstream' = Downstream
  BY <1>1 DEF Downstream, BlocksOf
<1>11. PipelineCold'
  BY <1>2 DEF PipelineCold
<1>12. RingsConsecutive'
  <2>1. ASSUME NEW i \in 1..Len(collRing')
        PROVE  collRing'[i] = Finished + 1 + i
    <3>1. i + 1 \in 1..Len(collRing)
      BY <1>5
    <3> QED BY <1>5, <1>6, <3>1, Sizes
  <2>2. ASSUME NEW i \in 1..Len(blockRing)
        PROVE  blockRing[i] = Finished + 1 + Len(collRing') + i
    BY <1>5, <1>6, Sizes
  <2> QED BY <1>1, <1>8, <1>9, <2>1, <2>2 DEF RingsConsecutive
<1>13. WorksOnHead'
  BY <1>1 DEF WorksOnHead
<1>14. PredecessorsFirst'
  BY <1>1 DEF PipelineInv, PredecessorsFirst
<1>15. FinishedKept'
  <2>1. 1..(Finished + 1) \subseteq esBlock \cup Downstream
    BY <1>2, <1>3, <1>7, Sizes DEF PipelineInv, FinishedKept
  <2>2. \A d \in Downstream : d =< Finished + 1 + 1
    <3> SUFFICES ASSUME NEW d \in Downstream PROVE d =< Finished + 1 + 1
      OBVIOUS
    <3>1. d =< Finished + 1
      BY <1>2 DEF PipelineInv, FinishedKept
    <3>2. d \in Int
      BY DEF PipelineInv, TypeOK, PersisterTyped, RingsTyped, Downstream, BlocksOf, Event, Blocks
    <3> QED BY <3>1, <3>2, Sizes
  <2>3. ASSUME NEW d \in esBlock PROVE d =< IF db'.cur < 0 THEN 1 ELSE db'.cur + 1
    <3>1. d \in Int
      BY DEF PipelineInv, TypeOK, StoresTyped, Blocks
    <3>2. d =< IF db.cur < 0 THEN 1 ELSE db.cur + 1
      BY DEF PipelineInv, FinishedKept, EsAtMostOneAhead
    <3> QED BY <1>6, <1>9, <3>1, <3>2, Sizes
  <2> QED BY <1>1, <1>8, <1>10, <2>1, <2>2, <2>3 DEF FinishedKept, EsAtMostOneAhead
<1>16. ImportOwned' /\ BootInOrder' /\ RedisBehindEs'
  <2>1. main # "fill"
    BY <1>2 DEF Running
  <2> QED BY <1>1, <1>2, <2>1 DEF PipelineInv, ImportOwned, BootInOrder, RedisBehindEs
<1> QED BY <1>11, <1>12, <1>13, <1>14, <1>15, <1>16 DEF PipelineInv

\* ComplementEventHandler handing an event on keeps the invariant.
LEMMA ComplementHandleSafe ==
  ASSUME PipelineInv, TypeOK', ComplementHandle
  PROVE  PipelineInv'
<1>1. /\ compRing # <<>> /\ persRing' = Append(persRing, Head(compRing))
      /\ compRing' = Tail(compRing)
      /\ UNCHANGED <<main, collected, boot, bootRing, blockRing, collRing,
                     stage, col, imp, db, esBlock, redisBlock>>
  BY DEF ComplementHandle, bootVars, collVars, persVars, esVars, redisVars
<1>2. Running /\ Running' /\ Finished' = Finished
  BY <1>1 DEF PipelineInv, PipelineCold, Running, Finished
<1>3. Head(compRing) \in Event
  BY <1>1, Sizes
<1>4. Downstream' = Downstream
  <2>1. BlocksOf(compRing) = {Head(compRing).blk} \cup BlocksOf(compRing')
    BY <1>1, RingTail, Sizes
  <2>2. BlocksOf(persRing') = BlocksOf(persRing) \cup {Head(compRing).blk}
    BY <1>1, <1>3, RingAppend, Sizes
  <2>3. BlocksOf(compRing)' = BlocksOf(compRing') /\ BlocksOf(persRing)' = BlocksOf(persRing')
    BY DEF BlocksOf
  <2> QED BY <1>1, <2>1, <2>2, <2>3 DEF Downstream
<1>5. PipelineCold'
  BY <1>2 DEF PipelineCold
<1>6. RingsConsecutive'
  BY <1>1, <1>2 DEF PipelineInv, RingsConsecutive
<1>7. WorksOnHead'
  BY <1>1, <1>4 DEF PipelineInv, WorksOnHead
<1>8. PredecessorsFirst'
  BY <1>1, OrderedForward, Sizes DEF PipelineInv, PredecessorsFirst
<1>9. FinishedKept'
  BY <1>1, <1>2, <1>4 DEF PipelineInv, FinishedKept, EsAtMostOneAhead
<1>10. ImportOwned' /\ BootInOrder' /\ RedisBehindEs'
  <2>1. persRing # <<>> => persRing' # <<>> /\ Head(persRing') = Head(persRing)
    <3> SUFFICES ASSUME persRing # <<>> PROVE persRing' # <<>> /\ Head(persRing') = Head(persRing)
      OBVIOUS
    <3>1. persRing' \in Seq(Event) /\ Len(persRing') = Len(persRing) + 1
      BY <1>1, <1>3, Sizes
    <3>2. Len(persRing) \in Nat \ {0}
      BY Sizes
    <3>3. persRing'[1] = persRing[1]
      BY <1>1, <1>3, <3>2, Sizes
    <3>4. persRing' # <<>>
      BY <3>1, <3>2
    <3> QED BY <3>1, <3>3, <3>4, Sizes
  <2> QED BY <1>1, <1>2, <2>1 DEF PipelineInv, ImportOwned, BootInOrder, RedisBehindEs
<1> QED BY <1>5, <1>6, <1>7, <1>8, <1>9, <1>10 DEF PipelineInv

\* The event at the head of the persistence ring joins the staging set, whether
\* the batch is full (it keeps its slot) or not.
LEMMA StagingSafe ==
  ASSUME PipelineInv, TypeOK', persRing # <<>>, imp.phase = "none",
         NEW s, StagedWith(Head(persRing), s), stage' = s,
         UNCHANGED <<main, collected, boot, bootRing, blockRing, collRing, compRing,
                     col, db, esBlock, redisBlock>>,
         \/ persRing' = Tail(persRing) /\ UNCHANGED imp
         \/ /\ UNCHANGED persRing
            /\ imp'.phase = "es" /\ imp'.who = "pers" /\ imp'.todo = EsIndex
            /\ imp'.blks = s.blks
  PROVE  PipelineInv'
<1>1. Running /\ Running' /\ Finished' = Finished
  BY DEF PipelineInv, PipelineCold, Running, Finished
<1>2. /\ stage'.blks = stage.blks \cup {Head(persRing).blk}
      /\ BlocksOf(persRing) = {Head(persRing).blk} \cup BlocksOf(Tail(persRing))
  BY RingTail, Sizes DEF StagedWith
<1>3. Downstream' = Downstream
  <2>1. BlocksOf(compRing)' = BlocksOf(compRing) /\ BlocksOf(persRing)' = BlocksOf(persRing')
    BY DEF BlocksOf
  <2> QED BY <1>2, <2>1 DEF Downstream
<1>4. PipelineCold'
  BY <1>1 DEF PipelineCold
<1>5. RingsConsecutive'
  BY <1>1 DEF PipelineInv, RingsConsecutive
<1>6. WorksOnHead'
  BY <1>3 DEF PipelineInv, WorksOnHead
<1>7. PredecessorsFirst'
  <2>1. /\ Ordered(esBlock, stage.blks \cup {Head(persRing).blk}, persRing, compRing)
        /\ Ordered(esBlock, stage.blks \cup {Head(persRing).blk}, Tail(persRing), compRing)
    BY OrderedStage, Sizes DEF PipelineInv, PredecessorsFirst
  <2> QED BY <1>2, <2>1 DEF PredecessorsFirst
<1>8. FinishedKept'
  BY <1>1, <1>3 DEF PipelineInv, FinishedKept, EsAtMostOneAhead
<1>9. ImportOwned'
  BY <1>1, <1>2 DEF ImportOwned, EsIndex
<1>10. BootInOrder' /\ RedisBehindEs'
  BY DEF PipelineInv, BootInOrder, RedisBehindEs
<1> QED BY <1>4, <1>5, <1>6, <1>7, <1>8, <1>9, <1>10 DEF PipelineInv

\* Staging a block without a flush keeps the invariant.
LEMMA PersistStageSafe ==
  ASSUME PipelineInv, TypeOK', PersistStage
  PROVE  PipelineInv'
<1>1. PICK s \in Stages : StagedWith(Head(persRing), s) /\ stage' = s
  BY DEF PersistStage
<1>2. /\ persRing # <<>> /\ imp.phase = "none"
      /\ persRing' = Tail(persRing)
      /\ UNCHANGED <<main, collected, boot, bootRing, blockRing, collRing, compRing,
                     col, db, esBlock, redisBlock, imp>>
  BY DEF PersistStage, bootVars, esVars, redisVars
<1> QED BY <1>1, <1>2, StagingSafe

\* Staging the block that fills the batch, and starting its import, keeps the
\* invariant.
LEMMA PersistFlushSafe ==
  ASSUME PipelineInv, TypeOK', PersistFlush
  PROVE  PipelineInv'
<1>1. PICK s \in Stages :
        /\ StagedWith(Head(persRing), s) /\ stage' = s
        /\ imp' = [phase |-> "es", who |-> "pers", todo |-> EsIndex, blks |-> s.blks,
                   txs |-> {b \in s.blks : TxCount[b] > 0}, opts |-> s.opts]
  BY DEF PersistFlush
<1>2. /\ persRing # <<>> /\ imp.phase = "none"
      /\ UNCHANGED <<main, collected, boot, bootRing, blockRing, collRing, compRing,
                     persRing, col, db, esBlock, redisBlock>>
  BY DEF PersistFlush, bootVars, esVars, redisVars
<1>3. imp'.phase = "es" /\ imp'.who = "pers" /\ imp'.todo = EsIndex /\ imp'.blks = s.blks
  BY <1>1
<1> QED BY <1>1, <1>2, <1>3, StagingSafe

\* Clearing the stage after the import loses nothing: ES holds what was staged.
LEMMA PersistDoneSafe ==
  ASSUME PipelineInv, TypeOK', PersistDone
  PROVE  PipelineInv'
<1>1. /\ persRing # <<>> /\ imp.phase = "redis" /\ imp.who = "pers"
      /\ imp'.phase = "none" /\ stage'.blks = {} /\ persRing' = Tail(persRing)
      /\ UNCHANGED <<main, collected, boot, bootRing, blockRing, collRing, compRing,
                     col, db, esBlock, redisBlock>>
  BY DEF PersistDone, NoImport, EmptyStage, bootVars, collVars, esVars, redisVars
<1>2. Running /\ Running' /\ Finished' = Finished
  BY <1>1 DEF PipelineInv, PipelineCold, Running, Finished
<1>3. stage.blks \subseteq esBlock /\ Head(persRing).blk \in stage.blks
  BY <1>1 DEF PipelineInv, ImportOwned
<1>4. /\ esBlock \cup Downstream' = esBlock \cup Downstream
      /\ Downstream' \subseteq Downstream
  <2>1. BlocksOf(compRing)' = BlocksOf(compRing) /\ BlocksOf(persRing)' = BlocksOf(persRing')
    BY <1>1 DEF BlocksOf
  <2>2. BlocksOf(persRing) = {Head(persRing).blk} \cup BlocksOf(persRing')
    BY <1>1, RingTail, Sizes
  <2> QED BY <1>1, <1>3, <2>1, <2>2 DEF Downstream
<1>5. PipelineCold'
  BY <1>2 DEF PipelineCold
<1>6. RingsConsecutive'
  BY <1>1, <1>2 DEF PipelineInv, RingsConsecutive
<1>7. WorksOnHead'
  BY <1>1, <1>4 DEF PipelineInv, WorksOnHead
<1>8. PredecessorsFirst'
  BY <1>1, <1>3, OrderedClear, Sizes DEF PipelineInv, PredecessorsFirst
<1>9. FinishedKept'
  BY <1>1, <1>2, <1>4 DEF PipelineInv, FinishedKept, EsAtMostOneAhead
<1>10. ImportOwned' /\ BootInOrder' /\ RedisBehindEs'
  BY <1>1 DEF PipelineInv, ImportOwned, BootInOrder, RedisBehindEs
<1> QED BY <1>5, <1>6, <1>7, <1>8, <1>9, <1>10 DEF PipelineInv

\* A completed ES save, in any order of the parallel ones, keeps the invariant.
LEMMA EsSaveSafe ==
  ASSUME PipelineInv, TypeOK', NEW i \in EsIndex, EsSave(i)
  PROVE  PipelineInv'
<1>1. /\ imp.phase = "es" /\ i \in imp.todo
      /\ imp'.phase = "es" /\ imp'.who = imp.who /\ imp'.blks = imp.blks
      /\ imp'.todo = imp.todo \ {i}
      /\ esBlock' = IF i = "block" THEN esBlock \cup imp.blks ELSE esBlock
      /\ UNCHANGED <<main, collected, boot, bootRing, blockRing, collRing, compRing,
                     persRing, stage, col, db, redisBlock>>
  BY DEF EsSave, PipelineInv, TypeOK, PersisterTyped, bootVars, collVars, redisVars
<1>2. esBlock \subseteq esBlock' /\ Downstream' = Downstream
  BY <1>1 DEF Downstream, BlocksOf
<1>3. Finished' = Finished /\ Running' = Running
  BY <1>1 DEF Finished, Running
<1>4. PipelineCold' /\ RingsConsecutive'
  BY <1>1, <1>3 DEF PipelineInv, PipelineCold, RingsConsecutive
<1>5. WorksOnHead'
  BY <1>1, <1>2 DEF PipelineInv, WorksOnHead
<1>6. ImportOwned'
  BY <1>1, <1>3 DEF PipelineInv, ImportOwned
<1>7. RedisBehindEs'
  BY <1>1, <1>2 DEF PipelineInv, RedisBehindEs
<1>8. BootInOrder'
  BY <1>1, <1>2 DEF PipelineInv, BootInOrder, Below
<1>9. PredecessorsFirst' /\ EsAtMostOneAhead'
  <2>1. CASE i # "block"
    BY <1>1, <2>1 DEF PipelineInv, PredecessorsFirst, FinishedKept, EsAtMostOneAhead
  <2>2. CASE i = "block" /\ imp.who = "pers"
    <3>1. Running /\ imp.blks = stage.blks
      BY <1>1, <2>2 DEF PipelineInv, ImportOwned
    <3>2. PredecessorsFirst'
      BY <1>1, <2>2, <3>1, OrderedSave DEF PipelineInv, PredecessorsFirst
    <3>3. ASSUME NEW d \in stage.blks PROVE d =< IF db.cur < 0 THEN 1 ELSE db.cur + 1
      <4>1. d =< Finished + 1
        BY <3>1 DEF PipelineInv, FinishedKept, Downstream
      <4>2. db.cur = IF Finished =< 0 THEN -1 ELSE Finished
        BY <3>1 DEF PipelineInv, RingsConsecutive
      <4>3. d \in Int
        BY DEF PipelineInv, TypeOK, PersisterTyped, Blocks
      <4> QED BY <4>1, <4>2, <4>3, Sizes
    <3> QED BY <1>1, <2>2, <3>1, <3>2, <3>3 DEF PipelineInv, FinishedKept, EsAtMostOneAhead
  <2>3. CASE i = "block" /\ imp.who = "boot"
    <3> DEFINE h == Head(bootRing)
    <3>1. main = "fill" /\ bootRing # <<>> /\ imp.blks = {h}
      BY <1>1, <2>3 DEF PipelineInv, ImportOwned
    <3>2. h = bootRing[1] /\ Len(bootRing) \in Nat \ {0}
      BY <3>1 DEF PipelineInv, TypeOK, RingsTyped
    <3> HIDE DEF h
    <3>3. /\ boot.end = db.cur /\ 1 =< boot.next - Len(bootRing) /\ boot.next =< boot.end + 1
          /\ bootRing[1] = boot.next - Len(bootRing) - 1 + 1
          /\ Below(boot.next - Len(bootRing), esBlock)
      BY <3>1, <3>2 DEF PipelineInv, BootInOrder
    <3>4. boot.next \in Int
      BY DEF PipelineInv, TypeOK, ThreadsTyped
    <3>5. h = boot.next - Len(bootRing) /\ h =< db.cur /\ h \in Int /\ 1 =< db.cur
      BY <3>2, <3>3, <3>4, Sizes
    <3>6. Below(h, esBlock)
      BY <3>3, <3>5
    <3>7. stage.blks = {} /\ persRing = <<>> /\ compRing = <<>>
      BY <3>1 DEF PipelineInv, PipelineCold, Running, EmptyStage
    <3>8. \A b \in esBlock : Below(b, esBlock)
      BY DEF PipelineInv, PredecessorsFirst, Ordered
    <3>9. \A b \in esBlock' : Below(b, esBlock')
      BY <1>1, <2>3, <3>1, <3>6, <3>8 DEF Below
    <3>10. PredecessorsFirst'
      <4>1. Ordered(esBlock', {}, <<>>, <<>>)
        BY <3>9 DEF Ordered
      <4> QED BY <1>1, <3>7, <4>1 DEF PredecessorsFirst
    <3>11. EsAtMostOneAhead'
      BY <1>1, <2>3, <3>1, <3>5, Sizes DEF PipelineInv, FinishedKept, EsAtMostOneAhead
    <3> QED BY <3>10, <3>11
  <2> QED BY <2>1, <2>2, <2>3 DEF PipelineInv, TypeOK, PersisterTyped
<1>10. FinishedKept'
  BY <1>2, <1>3, <1>9 DEF PipelineInv, FinishedKept
<1> QED BY <1>4, <1>5, <1>6, <1>7, <1>8, <1>9, <1>10 DEF PipelineInv

\* The Redis part of an import: only the import's progress and Redis change.
LEMMA RedisStepSafe ==
  ASSUME PipelineInv, TypeOK',
         imp.phase # "none", imp'.phase = "redis", imp'.who = imp.who, imp'.blks = imp.blks,
         imp.phase = "redis" \/ "block" \notin imp.todo,
         redisBlock' \subseteq redisBlock \cup imp.blks,
         UNCHANGED <<main, collected, boot, bootRing, blockRing, collRing, compRing,
                     persRing, stage, col, db, esBlock>>
  PROVE  PipelineInv'
<1>1. PipelineCold' /\ RingsConsecutive'
  BY DEF PipelineInv, PipelineCold, RingsConsecutive, Running, Finished
<1>2. WorksOnHead'
  BY DEF PipelineInv, WorksOnHead, Downstream, BlocksOf
<1>3. PredecessorsFirst'
  BY DEF PipelineInv, PredecessorsFirst
<1>4. FinishedKept'
  BY DEF PipelineInv, FinishedKept, Running, Finished, Downstream, BlocksOf, EsAtMostOneAhead
<1>5. imp.blks \subseteq esBlock
  BY DEF PipelineInv, ImportOwned
<1>6. ImportOwned'
  BY <1>5 DEF PipelineInv, ImportOwned, Running
<1>7. BootInOrder' /\ RedisBehindEs'
  BY <1>5 DEF PipelineInv, BootInOrder, RedisBehindEs
<1> QED BY <1>1, <1>2, <1>3, <1>4, <1>6, <1>7 DEF PipelineInv

\* Redis is only written once the latch has counted every ES save.
LEMMA RedisImportSafe ==
  ASSUME PipelineInv, TypeOK',
         RedisImport \/ \E i \in RedisKey : RedisSave(i) \/ RedisSaveFail(i)
  PROVE  PipelineInv'
<1>1. imp \in [phase : {"none", "es", "redis"}, who : {"pers", "boot"},
               todo : SUBSET EsIndex, blks : SUBSET Blocks, txs : SUBSET Blocks,
               opts : SUBSET Row]
  BY DEF PipelineInv, TypeOK, PersisterTyped
<1>2. CASE RedisImport
  <2>1. /\ imp.phase = "es" /\ imp.todo = {}
        /\ imp'.phase = "redis" /\ imp'.who = imp.who /\ imp'.blks = imp.blks
        /\ UNCHANGED <<main, collected, boot, bootRing, blockRing, collRing, compRing,
                       persRing, stage, col, db, esBlock, redisBlock>>
    BY <1>1, <1>2 DEF RedisImport, LatchOpen, bootVars, collVars, esVars, redisVars
  <2> QED BY <2>1, RedisStepSafe
<1>3. ASSUME NEW i \in RedisKey, RedisSave(i) \/ RedisSaveFail(i) PROVE PipelineInv'
  <2>1. /\ imp.phase = "redis"
        /\ imp'.phase = "redis" /\ imp'.who = imp.who /\ imp'.blks = imp.blks
    BY <1>1, <1>3 DEF RedisSave, RedisSaveFail
  <2>2. /\ redisBlock' \subseteq redisBlock \cup imp.blks
        /\ UNCHANGED <<main, collected, boot, bootRing, blockRing, collRing, compRing,
                       persRing, stage, col, db, esBlock>>
    BY <1>3 DEF RedisSave, RedisSaveFail, bootVars, collVars, esVars, redisVars
  <2> QED BY <2>1, <2>2, RedisStepSafe
<1> QED BY <1>2, <1>3

-----------------------------------------------------------------------------
(* The steps together *)

\* The steps of the collection handler that publish and commit nothing, failed
\* attempts among them, keep the invariant.
LEMMA CollectionStepSafe ==
  ASSUME PipelineInv, TypeOK', Collection \/ CollectionFails
  PROVE  PipelineInv'
<1>1. CASE CollectPublish
  BY <1>1, CollectPublishSafe
<1>2. CASE CollectCommit
  BY <1>2, CollectCommitSafe
<1>3. CASE CollectWrite
  <2>1. UNCHANGED core /\ col.pc = "published"
    BY <1>3 DEF CollectWrite, core, bootVars, persVars, esVars, redisVars
  <2>2. col'.pc = "written" /\ col'.ev = col.ev
    BY <1>3 DEF CollectWrite, PipelineInv, TypeOK, CollectorTyped
  <2> QED BY <2>1, <2>2, QuietSafe
<1>4. CASE CollectFailParse \/ CollectFailAnalyse \/ CollectFailStatistic
  <2>1. UNCHANGED core /\ UNCHANGED col
    BY <1>4 DEF CollectFailParse, CollectFailAnalyse, CollectFailStatistic, core,
         bootVars, persVars, esVars, redisVars
  <2> QED BY <2>1, QuietSafe
<1>5. CASE CollectFailWrite \/ CollectFailCommit
  <2>1. UNCHANGED core /\ col.pc # "idle" /\ col'.pc \in {"idle", "released"}
    BY <1>5 DEF CollectFailWrite, CollectFailCommit, core, bootVars, persVars, esVars,
         redisVars
  <2> QED BY <2>1, QuietSafe
<1> QED BY <1>1, <1>2, <1>3, <1>4, <1>5 DEF Collection, CollectionFails

\* The invariant is inductive.
LEMMA NextSafe ==
  ASSUME PipelineInv, TypeOK', [Next]_vars
  PROVE  PipelineInv'
<1>1. CASE ChainGrow \/ BatchSizeAdjust
  <2>1. UNCHANGED core /\ UNCHANGED col
    BY <1>1 DEF ChainGrow, BatchSizeAdjust, core, memory, store, bootVars, collVars,
         persVars, esVars, redisVars
  <2> QED BY <2>1, QuietSafe
<1>2. CASE Boot
  BY <1>2, StartSafe, ConsistencyCheckSafe, BootstrapPublishSafe, BootstrapFinishSafe,
     BootstrapHandleSafe, BootstrapDoneSafe DEF Boot
<1>3. CASE Collect \/ MainLoopBreak \/ Crash
  BY <1>3, CollectSafe, MainLoopBreakSafe, CrashSafe
<1>4. CASE BlockHandle \/ Collection \/ CollectionFails \/ ComplementHandle
  BY <1>4, BlockHandleSafe, CollectionStepSafe, ComplementHandleSafe
<1>5. CASE Persistence
  BY <1>5, PersistStageSafe, PersistFlushSafe, PersistDoneSafe DEF Persistence
<1>6. CASE Import
  BY <1>6, EsSaveSafe, RedisImportSafe DEF Import
<1>7. CASE UNCHANGED vars
  <2>1. UNCHANGED core /\ UNCHANGED col
    BY <1>7 DEF vars, core, memory, store
  <2> QED BY <2>1, QuietSafe
<1> QED BY <1>1, <1>2, <1>3, <1>4, <1>5, <1>6, <1>7 DEF Next

\* The inductive invariant of the whole pipeline.
THEOREM PipelineInvariant == Spec => []PipelineInv
<1>1. PipelineInv /\ TypeOK' /\ [Next]_vars => PipelineInv'
  BY NextSafe
<1> QED BY InitSafe, TypeCorrect, <1>1, PTL DEF Spec

\* The order of the blocks implies that the block index has no hole.
LEMMA InvPrefixClosed == PipelineInv => EsPrefixClosed
<1> SUFFICES ASSUME PipelineInv, NEW b \in esBlock PROVE 1..b \subseteq esBlock
  BY DEF EsPrefixClosed
<1>1. Below(b, esBlock)
  BY DEF PipelineInv, PredecessorsFirst, Ordered
<1>2. b \in Int
  BY DEF PipelineInv, TypeOK, StoresTyped, Blocks
<1> QED BY <1>1, <1>2 DEF Below

\* What is finished and what the first two rings hold is everything requested.
LEMMA InvNothingLost == PipelineInv => NothingLost
<1> SUFFICES ASSUME PipelineInv, Running PROVE 1..collected \subseteq esBlock \cup InFlight
  BY DEF NothingLost, Running
<1> SUFFICES ASSUME NEW b \in 1..collected PROVE b \in esBlock \cup InFlight
  OBVIOUS
<1>1. collected = Finished + Len(blockRing) + Len(collRing)
  BY Sizes DEF Finished
<1>2. CASE b =< Finished
  BY <1>2, Sizes DEF PipelineInv, FinishedKept, InFlight
<1>3. CASE b > Finished /\ b =< Finished + Len(collRing)
  <2>1. b - Finished \in 1..Len(collRing)
    BY <1>3, Sizes
  <2>2. collRing[b - Finished] = b
    BY <2>1, Sizes DEF PipelineInv, RingsConsecutive
  <2> QED BY <2>1, <2>2 DEF InFlight, NumbersOf
<1>4. CASE b > Finished + Len(collRing)
  <2>1. b - Finished - Len(collRing) \in 1..Len(blockRing)
    BY <1>1, <1>4, Sizes
  <2>2. blockRing[b - Finished - Len(collRing)] = b
    BY <2>1, Sizes DEF PipelineInv, RingsConsecutive
  <2> QED BY <2>1, <2>2 DEF InFlight, NumbersOf
<1> QED BY <1>2, <1>3, <1>4, Sizes

\* The block index never has a hole, at any moment of any run.
THEOREM PrefixClosed == Spec => []EsPrefixClosed
BY PipelineInvariant, InvPrefixClosed, PTL

\* ES leads MySQL by at most the block in progress, whatever fails or crashes.
THEOREM AtMostOneAhead == Spec => []EsAtMostOneAhead
<1>1. PipelineInv => EsAtMostOneAhead
  BY DEF PipelineInv, FinishedKept
<1> QED BY <1>1, PipelineInvariant, PTL

\* While the main loop runs no block it requested is dropped.
THEOREM NoBlockLost == Spec => []NothingLost
BY PipelineInvariant, InvNothingLost, PTL

\* What the Redis list shows, ES can resolve.
THEOREM RedisNeverAhead == Spec => []RedisBehindEs
<1>1. PipelineInv => RedisBehindEs
  BY DEF PipelineInv
<1> QED BY <1>1, PipelineInvariant, PTL

-----------------------------------------------------------------------------
(* The pipeline implements IngestLedger *)

\* Every step of the pipeline is a step of the ledger, or changes neither the
\* MySQL height nor the block index.
LEMMA LedgerStep ==
  ASSUME PipelineInv, PipelineInv', [Next]_vars
  PROVE  [Ledger!Next]_(Ledger!ledger)
<1>1. CASE CollectCommit
  <2> DEFINE b == col.ev.blk
  <2>1. db' = StatRow(b) /\ UNCHANGED esBlock /\ collRing # <<>> /\ col.pc = "written"
    BY <1>1 DEF CollectCommit, esVars
  <2>2. Running
    BY <2>1 DEF PipelineInv, PipelineCold
  <2>3. /\ \A i \in 1..Len(collRing) : collRing[i] = Finished + i
        /\ db.cur = IF Finished =< 0 THEN -1 ELSE Finished
    BY <2>2 DEF PipelineInv, RingsConsecutive
  <2>4. b = collRing[1] /\ 1 \in 1..Len(collRing) /\ b \in Nat
    BY <2>1, Sizes DEF PipelineInv, WorksOnHead, TypeOK, CollectorTyped, Event, Blocks
  <2> HIDE DEF b
  <2>5. CASE b = 0
    BY <2>1, <2>5 DEF StatRow, Ledger!ledger
  <2>6. CASE b # 0
    <3>1. db'.cur = b
      BY <2>1, <2>6 DEF StatRow
    <3>2. b = Finished + 1
      BY <2>3, <2>4, Sizes
    <3>3. b = Ledger!Following
      BY <2>3, <2>4, <2>6, <3>2, Sizes DEF Ledger!Following
    <3> QED BY <2>1, <3>1, <3>3 DEF Ledger!Next, Ledger!Commit
  <2> QED BY <2>5, <2>6
<1>2. ASSUME NEW i \in EsIndex, EsSave(i) PROVE [Ledger!Next]_(Ledger!ledger)
  <2>1. UNCHANGED db /\ esBlock \subseteq esBlock'
    BY <1>2 DEF EsSave, collVars
  <2>2. EsPrefixClosed'
    BY InvPrefixClosed, PTL
  <2>3. Ledger!PrefixClosed(esBlock')
    BY <2>2 DEF EsPrefixClosed, Ledger!PrefixClosed
  <2>4. esBlock' \subseteq 0..Ledger!Following
    <3> SUFFICES ASSUME NEW d \in esBlock' PROVE d \in 0..Ledger!Following
      OBVIOUS
    <3>1. d \in Nat
      BY DEF PipelineInv, TypeOK, StoresTyped, Blocks
    <3>2. d =< IF db'.cur < 0 THEN 1 ELSE db'.cur + 1
      BY DEF PipelineInv, FinishedKept, EsAtMostOneAhead
    <3>3. db.cur \in Int
      BY Sizes
    <3> QED BY <2>1, <3>1, <3>2, <3>3 DEF Ledger!Following
  <2> QED BY <2>1, <2>3, <2>4 DEF Ledger!Next, Ledger!Index
<1>3. CASE (\E i \in RedisKey : RedisSave(i)) \/ UNCHANGED store
  BY <1>3 DEF RedisSave, collVars, esVars, store, Ledger!ledger
<1> QED BY <1>1, <1>2, <1>3, StoresMovers

\* Every behaviour of the pipeline, crashes and failures included, is one the
\* ledger allows: MySQL advances block by block, ES stays a growing prefix.
THEOREM ImplementsLedger == Spec => LedgerSpec
<1>1. Init => Ledger!Init
  BY DEF Init, Ledger!Init
<1>2. PipelineInv /\ PipelineInv' /\ [Next]_vars => [Ledger!Next]_(Ledger!ledger)
  BY LedgerStep
<1> QED BY <1>1, <1>2, PipelineInvariant, PTL DEF Spec, LedgerSpec, Ledger!Spec

-----------------------------------------------------------------------------
(* The counter of network_stat *)

\* One more block adds its own share to the sum over the blocks before it.
LEMMA BlockSum ==
  ASSUME NEW f \in [Blocks -> Nat], NEW b \in (-1)..MaxBlock
  PROVE  /\ SumFunctionOnSet(f, 1..b) \in Int
         /\ b =< 0 => SumFunctionOnSet(f, 1..b) = 0
         /\ b > 0 => SumFunctionOnSet(f, 1..b) = f[b] + SumFunctionOnSet(f, 1..(b - 1))
<1>1. IsFiniteSet(1..b) /\ \A x \in 1..b : f[x] \in Int
  <2>1. b \in Int /\ \A x \in 1..b : x \in Blocks
    BY BoundsAssumption DEF Blocks
  <2>2. IsFiniteSet(1..b)
    BY <2>1, FS_Interval
  <2> QED BY <2>1, <2>2
<1>2. SumFunctionOnSet(f, 1..b) \in Int
  BY <1>1, SumInt
<1>3. ASSUME b =< 0 PROVE SumFunctionOnSet(f, 1..b) = 0
  <2>1. 1..b = {}
    BY <1>3, BoundsAssumption
  <2> QED BY <2>1, SumEmpty, Zenon
<1>4. ASSUME b > 0
      PROVE  SumFunctionOnSet(f, 1..b) = f[b] + SumFunctionOnSet(f, 1..(b - 1))
  <2>1. b \in 1..b /\ (1..b) \ {b} = 1..(b - 1)
    BY <1>4, BoundsAssumption
  <2>2. SumFunctionOnSet(f, 1..b) = f[b] + SumFunctionOnSet(f, (1..b) \ {b})
    BY <1>1, <2>1, SumWithout
  <2> QED BY <2>1, <2>2, Zenon
<1> QED BY <1>2, <1>3, <1>4

LEMMA TxTotals ==
  ASSUME NEW b \in (-1)..MaxBlock
  PROVE  /\ TxTotal(b) \in Int
         /\ b =< 0 => TxTotal(b) = 0
         /\ b > 0 => TxTotal(b) = TxCount[b] + TxTotal(b - 1)
BY BlockSum, ContentAssumption DEF TxTotal

\* The block at the head of the collection ring follows the MySQL height.
LEMMA HeadNext ==
  ASSUME PipelineInv, collRing # <<>>
  PROVE  /\ Running /\ Head(collRing) \in Blocks /\ Head(collRing) = Finished + 1
         /\ Head(collRing) \in Nat /\ Head(collRing) =< MaxBlock
         /\ db.cur = IF Head(collRing) =< 1 THEN -1 ELSE Head(collRing) - 1
<1>1. Running
  BY DEF PipelineInv, PipelineCold
<1>2. collRing[1] = Head(collRing) /\ Head(collRing) \in Blocks /\ 1 \in 1..Len(collRing)
  BY Sizes
<1>3. collRing[1] = Finished + 1 /\ db.cur = IF Finished =< 0 THEN -1 ELSE Finished
  BY <1>1, <1>2 DEF PipelineInv, RingsConsecutive
<1> QED BY <1>1, <1>2, <1>3, Sizes, BoundsAssumption DEF Blocks

\* Only a start and a crash change whether the process runs, and only a commit
\* writes to MySQL.
LEMMA LifeMovers ==
  ASSUME [Next]_vars
  PROVE  /\ Start \/ Crash \/ (main' = "down" <=> main = "down")
         /\ CollectCommit \/ UNCHANGED <<db, bak>>
<1>1. CASE ConsistencyCheck \/ BootstrapFinish \/ MainLoopBreak
  BY <1>1 DEF ConsistencyCheck, BootstrapFinish, MainLoopBreak, memory, store, collVars
<1>2. Start \/ Crash \/ (main' = "down" <=> main = "down")
  <2>1. CASE ChainGrow \/ BootstrapPublish \/ BootstrapDone \/ Collect \/ CollectionFails
             \/ PersistStage \/ PersistDone \/ (\E i \in RedisKey : RedisSaveFail(i))
             \/ BatchSizeAdjust \/ UNCHANGED <<env, main, collected, boot, batchSize, maxBlockNumber>>
    BY <2>1 DEF ChainGrow, BootstrapPublish, BootstrapDone, Collect, CollectionFails,
       CollectFailParse, CollectFailAnalyse, CollectFailStatistic, CollectFailWrite,
       CollectFailCommit, PersistStage, PersistDone, RedisSaveFail, BatchSizeAdjust
  <2> QED BY <1>1, <2>1, ThreadMovers
<1>3. CollectCommit \/ UNCHANGED <<db, bak>>
  BY StoresMovers DEF EsSave, RedisSave, store, collVars
<1> QED BY <1>2, <1>3

\* No transaction is left out: what memory and MySQL have counted covers the
\* committed blocks, and the block in progress once the guard has let it pass.
CountInv ==
  /\ main = "down" => preBlock = 0
  /\ db.txQty >= TxTotal(db.cur)
  /\ main # "down" => mem.txQty >= TxTotal(db.cur)
  /\ preBlock > 0 => mem.txQty >= TxTotal(preBlock)
  /\ col.pc \in {"published", "written"} => col.ev.blk = 0 \/ preBlock = col.ev.blk

LEMMA CountInit == Init => CountInv
<1> SUFFICES ASSUME Init PROVE CountInv
  OBVIOUS
<1>1. TxTotal(-1) = 0
  BY TxTotals, BoundsAssumption
<1> QED BY <1>1 DEF Init, CountInv

\* The count after an attempt covers the attempted block.
LEMMA CountedAttempt ==
  ASSUME PipelineInv, CountInv, collRing # <<>>
  PROVE  LET b == Head(collRing)
         IN  /\ TxQtyAfter(b) \in Int /\ TxQtyAfter(b) >= mem.txQty
             /\ b > 0 => TxQtyAfter(b) >= TxTotal(b)
<1> DEFINE b == Head(collRing)
<1>1. /\ b \in Nat /\ b =< MaxBlock /\ b \in Blocks /\ main # "down"
      /\ db.cur = IF b =< 1 THEN -1 ELSE b - 1
  BY HeadNext DEF Running
<1>2. mem.txQty \in Nat /\ listed \in Nat /\ TxCount[b] \in Nat
  BY <1>1, ContentAssumption DEF PipelineInv, TypeOK, CollectorTyped
<1> HIDE DEF b
<1>3. mem.txQty >= TxTotal(db.cur) /\ (preBlock > 0 => mem.txQty >= TxTotal(preBlock))
  BY <1>1 DEF CountInv
<1>4. b = 0 \/ (TxTotal(db.cur) = TxTotal(b - 1) /\ TxTotal(b - 1) \in Int)
  <2>1. CASE b = 1
    <3>1. TxTotal(-1) = 0 /\ TxTotal(0) = 0
      BY TxTotals, BoundsAssumption
    <3> QED BY <1>1, <2>1, <3>1
  <2>2. CASE b > 1
    BY <1>1, <2>2, TxTotals, BoundsAssumption
  <2> QED BY <1>1, <2>1, <2>2
<1>5. b > 0 => TxTotal(b) = TxCount[b] + TxTotal(b - 1)
  BY <1>1, TxTotals, BoundsAssumption
<1>6. TxQtyAfter(b) = IF b = 0 \/ preBlock = b THEN mem.txQty ELSE mem.txQty + (listed + TxCount[b])
  BY DEF TxQtyAfter, AllTx
<1>7. TxQtyAfter(b) \in Int /\ TxQtyAfter(b) >= mem.txQty
  BY <1>2, <1>6
<1>8. ASSUME b > 0 PROVE TxQtyAfter(b) >= TxTotal(b)
  <2>1. CASE preBlock = b
    BY <1>3, <1>6, <1>8, <2>1
  <2>2. CASE preBlock # b
    <3>1. TxQtyAfter(b) = mem.txQty + (listed + TxCount[b])
      BY <1>6, <1>8, <2>2
    <3> QED BY <1>1, <1>2, <1>3, <1>4, <1>5, <1>8, <3>1
  <2> QED BY <2>1, <2>2
<1> QED BY <1>7, <1>8 DEF b

\* Every step keeps the count.
LEMMA CountStep ==
  ASSUME PipelineInv, CountInv, [Next]_vars
  PROVE  CountInv'
<1>0. /\ db \in [cur : {-1} \cup 1..MaxBlock, txQty : Nat, optSeq : Nat]
      /\ mem \in [txQty : Nat, optSeq : Nat] /\ preBlock \in Nat
      /\ TxTotal(db.cur) \in Int /\ TxTotal(preBlock) \in Int
  <2>1. /\ db \in [cur : {-1} \cup 1..MaxBlock, txQty : Nat, optSeq : Nat]
        /\ mem \in [txQty : Nat, optSeq : Nat] /\ preBlock \in Blocks
    BY DEF PipelineInv, TypeOK, StoresTyped, CollectorTyped
  <2>2. db.cur \in (-1)..MaxBlock /\ preBlock \in (-1)..MaxBlock /\ preBlock \in Nat
    BY <2>1, BoundsAssumption DEF Blocks
  <2> QED BY <2>1, <2>2, TxTotals
<1>1. CASE Start
  <2>1. /\ main = "down"
        /\ mem'.txQty = db.txQty /\ UNCHANGED <<db, preBlock, col>>
    BY <1>1 DEF Start, store, LoadedStat
  <2>2. preBlock' = 0
    BY <2>1 DEF CountInv
  <2>3. mem'.txQty >= TxTotal(db'.cur) /\ db'.txQty >= TxTotal(db'.cur)
    BY <2>1 DEF CountInv
  <2>4. col'.pc \in {"published", "written"} => col'.ev.blk = 0 \/ preBlock' = col'.ev.blk
    BY <2>1 DEF CountInv
  <2> QED BY <2>2, <2>3, <2>4 DEF CountInv
<1>2. CASE Crash
  <2>1. /\ preBlock' = 0 /\ main' = "down" /\ UNCHANGED db /\ col'.pc = "idle"
    BY <1>2 DEF Crash, MemoryCleared, store
  <2> QED BY <1>0, <2>1 DEF CountInv
<1>3. ASSUME NEW b \in Blocks, Attempting(b), mem'.txQty = TxQtyAfter(b),
             preBlock' = PreBlockAfter(b), UNCHANGED <<main, db>>,
             col' = col \/ col'.ev.blk = b
      PROVE  CountInv'
  <2>1. b = Head(collRing) /\ collRing # <<>> /\ col.pc = "idle"
    BY <1>3 DEF Attempting
  <2>2. /\ mem'.txQty \in Int /\ mem'.txQty >= mem.txQty
        /\ b > 0 => mem'.txQty >= TxTotal(b)
    BY <1>3, <2>1, CountedAttempt
  <2>3. main # "down" /\ b \in Nat
    BY <2>1, HeadNext DEF Running
  <2>4. preBlock' = IF b = 0 THEN preBlock ELSE b
    BY <1>3 DEF PreBlockAfter
  <2>5. preBlock' > 0 => mem'.txQty >= TxTotal(preBlock')
    <3>1. CASE b = 0
      BY <1>0, <2>2, <2>4, <3>1 DEF CountInv
    <3>2. CASE b # 0
      BY <2>2, <2>3, <2>4, <3>2
    <3> QED BY <3>1, <3>2
  <2>6. mem'.txQty >= TxTotal(db'.cur) /\ db'.txQty >= TxTotal(db'.cur)
    BY <1>0, <1>3, <2>2, <2>3 DEF CountInv
  <2>7. col'.pc \in {"published", "written"} => col'.ev.blk = 0 \/ preBlock' = col'.ev.blk
    BY <1>3, <2>1, <2>4
  <2> QED BY <1>3, <2>3, <2>5, <2>6, <2>7 DEF CountInv
<1>4. CASE CollectPublish
  <2>1. PICK b \in Blocks :
          /\ Attempting(b) /\ mem' = [txQty |-> TxQtyAfter(b), optSeq |-> mem.optSeq + OptsOf(b)]
          /\ preBlock' = PreBlockAfter(b) /\ UNCHANGED <<main, db>>
          /\ col' = [col EXCEPT !.pc = "published", !.ev = AttemptEvent(b)]
    BY <1>4 DEF CollectPublish
  <2>2. mem'.txQty = TxQtyAfter(b)
    BY <2>1
  <2>3. col'.ev = AttemptEvent(b)
    BY <2>1 DEF PipelineInv, TypeOK, CollectorTyped
  <2>4. col'.ev.blk = b
    BY <2>3 DEF AttemptEvent
  <2> QED BY <1>3, <2>1, <2>2, <2>4
<1>5. CASE CollectFailStatistic
  <2>1. PICK b \in Blocks :
          /\ Attempting(b) /\ mem' = [txQty |-> TxQtyAfter(b), optSeq |-> mem.optSeq + OptsOf(b)]
          /\ preBlock' = PreBlockAfter(b)
    BY <1>5 DEF CollectFailStatistic
  <2>2. mem'.txQty = TxQtyAfter(b)
    BY <2>1
  <2>3. UNCHANGED <<main, db, col>>
    BY <1>5 DEF CollectFailStatistic
  <2> QED BY <1>3, <2>1, <2>2, <2>3
<1>6. CASE CollectCommit
  <2> DEFINE b == col.ev.blk
  <2>1. /\ col.pc = "written" /\ db' = StatRow(b) /\ UNCHANGED <<main, mem, preBlock>>
        /\ col'.pc = "idle"
    BY <1>6 DEF CollectCommit
  <2>2. b = 0 \/ (preBlock = b /\ b > 0)
    <3>1. b = 0 \/ preBlock = b
      BY <2>1, Zenon DEF CountInv
    <3>2. preBlock \in Nat
      BY <1>0
    <3> QED BY <3>1, <3>2
  <2>3. CASE b = 0
    BY <2>1, <2>3 DEF StatRow, CountInv
  <2>4. CASE preBlock = b /\ b > 0
    <3>1. db'.cur = preBlock /\ db'.txQty = mem.txQty /\ preBlock > 0
      BY <2>1, <2>4 DEF StatRow
    <3> QED BY <1>0, <2>1, <3>1 DEF CountInv
  <2> QED BY <2>2, <2>3, <2>4
<1>7. CASE /\ UNCHANGED <<preBlock, db>> /\ mem'.txQty = mem.txQty
           /\ main' = "down" <=> main = "down"
           /\ \/ UNCHANGED col \/ col'.pc \in {"idle", "released"}
              \/ col.pc = "published" /\ col'.ev = col.ev
  BY <1>7 DEF CountInv
<1>8. CASE CollectFailAnalyse \/ CollectFailParse \/ CollectFailWrite \/ CollectFailCommit
  <2>1. mem'.txQty = mem.txQty
    BY <1>0, <1>8 DEF CollectFailAnalyse, CollectFailParse, CollectFailWrite, CollectFailCommit
  <2>2. UNCHANGED <<main, db, preBlock>>
    BY <1>8 DEF CollectFailAnalyse, CollectFailParse, CollectFailWrite, CollectFailCommit
  <2>3. UNCHANGED col \/ col'.pc \in {"idle", "released"}
    BY <1>8 DEF CollectFailAnalyse, CollectFailParse, CollectFailWrite, CollectFailCommit
  <2> QED BY <1>7, <2>1, <2>2, <2>3
<1>9. CASE CollectWrite
  <2>1. UNCHANGED <<main, db, preBlock, mem>> /\ col.pc = "published" /\ col'.ev = col.ev
    BY <1>9 DEF CollectWrite, PipelineInv, TypeOK, CollectorTyped
  <2> QED BY <1>7, <2>1
<1>10. CASE PersistStage \/ PersistFlush
  BY <1>7, <1>10 DEF PersistStage, PersistFlush
<1>11. CASE UNCHANGED <<mem, txId, txTop, preBlock, listed, nulled, col, delCount>>
  <2>1. CASE UNCHANGED db
    BY <1>1, <1>2, <1>7, <1>11, <2>1, LifeMovers
  <2> QED BY <1>6, <2>1, LifeMovers
<1> QED BY <1>1, <1>2, <1>4, <1>5, <1>6, <1>8, <1>9, <1>10, <1>11, CollectorMovers

\* network_stat never counts less than the committed blocks carry, whatever is
\* retried, rolled back or lost in a crash.
THEOREM NoTransactionUncounted == Spec => []TxQtyNeverShort
<1>1. PipelineInv /\ CountInv /\ [Next]_vars => CountInv'
  BY CountStep
<1>2. CountInv => TxQtyNeverShort
  BY DEF CountInv, TxQtyNeverShort
<1> QED BY <1>1, <1>2, CountInit, PipelineInvariant, PTL DEF Spec

-----------------------------------------------------------------------------
(* The ids of the node operations *)

EventsOf(ring) == {ring[i] : i \in 1..Len(ring)}

\* The events on their way to the staging sets.
Pending == EventsOf(persRing) \cup EventsOf(compRing)

PendingOpts == UNION {OptRows(e) : e \in Pending}

\* The rows of node operations wherever they are.
AllOpts == bak["opt"] \cup esOpt \cup stage.opts \cup imp.opts \cup OptRows(col.ev)
           \cup PendingOpts

LEMMA EventsAppend ==
  ASSUME NEW r \in Seq(Event), NEW e \in Event
  PROVE  EventsOf(Append(r, e)) = EventsOf(r) \cup {e}
<1> DEFINE q == Append(r, e)
<1>1. Len(q) = Len(r) + 1 /\ q[Len(r) + 1] = e /\ \A i \in 1..Len(r) : q[i] = r[i]
  OBVIOUS
<1>2. Len(r) \in Nat
  OBVIOUS
<1> HIDE DEF q
<1>3. EventsOf(q) = EventsOf(r) \cup {e}
  BY <1>1, <1>2 DEF EventsOf
<1> QED BY <1>3 DEF q

LEMMA EventsTail ==
  ASSUME NEW r \in Seq(Event), r # <<>>
  PROVE  Head(r) \in EventsOf(r) /\ EventsOf(Tail(r)) \subseteq EventsOf(r)
<1> DEFINE q == Tail(r)
<1>1. /\ Len(r) \in Nat \ {0} /\ Len(q) = Len(r) - 1 /\ r[1] = Head(r)
      /\ \A i \in 1..Len(q) : q[i] = r[i + 1]
  OBVIOUS
<1> HIDE DEF q
<1>2. Head(r) \in EventsOf(r)
  BY <1>1 DEF EventsOf
<1>3. EventsOf(q) \subseteq EventsOf(r)
  <2> SUFFICES ASSUME NEW i \in 1..Len(q) PROVE q[i] \in EventsOf(r)
    BY DEF EventsOf
  <2>1. i + 1 \in 1..Len(r) /\ q[i] = r[i + 1]
    BY <1>1
  <2> QED BY <2>1 DEF EventsOf
<1> QED BY <1>2, <1>3 DEF q

LEMMA EventsNone == EventsOf(<<>>) = {}
BY DEF EventsOf

\* What an attempt publishes is an event.
LEMMA AttemptIsEvent ==
  ASSUME TypeOK, NEW b \in Blocks
  PROVE  AttemptEvent(b) \in Event
<1>1. mem.optSeq \in Nat /\ listed \in Nat /\ TxCount[b] \in Nat /\ EpochOpts[b] \in Nat
  BY ContentAssumption DEF TypeOK, CollectorTyped
<1> QED BY <1>1 DEF AttemptEvent, Event, OptsOf, AllTx

\* Only the collection handler puts an event on its way.
LEMMA PendingMove ==
  ASSUME TypeOK, [Next]_vars
  PROVE  \/ Pending' \subseteq Pending
         \/ CollectPublish /\ Pending' = Pending \cup {AttemptEvent(Head(collRing))}
<1>0. compRing \in Seq(Event) /\ persRing \in Seq(Event)
  BY DEF TypeOK, RingsTyped
<1>1. CASE CollectPublish
  <2>1. PICK b \in Blocks : /\ b = Head(collRing) /\ compRing' = Append(compRing, AttemptEvent(b))
                            /\ UNCHANGED persRing
    BY <1>1 DEF CollectPublish, Attempting
  <2>2. AttemptEvent(b) \in Event
    BY AttemptIsEvent
  <2>3. EventsOf(compRing') = EventsOf(compRing) \cup {AttemptEvent(b)}
    BY <1>0, <2>1, <2>2, EventsAppend
  <2>4. Pending' = Pending \cup {AttemptEvent(b)}
    BY <2>1, <2>3 DEF Pending
  <2> QED BY <1>1, <2>1, <2>4
<1>2. CASE ComplementHandle
  <2>1. /\ compRing # <<>> /\ persRing' = Append(persRing, Head(compRing))
        /\ compRing' = Tail(compRing)
    BY <1>2 DEF ComplementHandle
  <2>2. Head(compRing) \in Event
    BY <1>0, <2>1
  <2>3. EventsOf(persRing') = EventsOf(persRing) \cup {Head(compRing)}
    BY <1>0, <2>1, <2>2, EventsAppend
  <2>4. Head(compRing) \in EventsOf(compRing) /\ EventsOf(compRing') \subseteq EventsOf(compRing)
    BY <1>0, <2>1, EventsTail
  <2> QED BY <2>3, <2>4 DEF Pending
<1>3. CASE PersistStage \/ PersistDone
  <2>1. persRing # <<>> /\ persRing' = Tail(persRing) /\ UNCHANGED compRing
    BY <1>3 DEF PersistStage, PersistDone
  <2>2. EventsOf(persRing') \subseteq EventsOf(persRing)
    BY <1>0, <2>1, EventsTail
  <2> QED BY <2>1, <2>2 DEF Pending
<1>4. CASE Crash
  <2>1. persRing' = <<>> /\ compRing' = <<>>
    BY <1>4 DEF Crash, MemoryCleared
  <2>2. Pending' = {}
    BY <2>1, EventsNone DEF Pending
  <2> QED BY <2>2
<1>5. CASE UNCHANGED <<compRing, persRing>>
  BY <1>5 DEF Pending
<1>6. CASE BootstrapPublish \/ BootstrapDone \/ Collect \/ BlockHandle \/ CollectCommit
  BY <1>5, <1>6 DEF BootstrapPublish, BootstrapDone, Collect, BlockHandle, CollectCommit
<1> QED BY <1>1, <1>2, <1>3, <1>4, <1>5, <1>6, RingMovers

\* The head of the persistence ring is on its way.
LEMMA HeadPending ==
  ASSUME TypeOK, persRing # <<>>
  PROVE  Head(persRing) \in Pending
<1>1. persRing \in Seq(Event)
  BY DEF TypeOK, RingsTyped
<1> QED BY <1>1, EventsTail DEF Pending

\* What is staged comes from the ring; what is imported is what is staged, or
\* after a start the backup rows.
LEMMA StagedMove ==
  ASSUME TypeOK, [Next]_vars
  PROVE  /\ stage'.opts \subseteq stage.opts \cup PendingOpts
         /\ imp'.opts \subseteq imp.opts \cup stage.opts \cup PendingOpts \cup bak["opt"]
<1>0. imp \in [phase : {"none", "es", "redis"}, who : {"pers", "boot"},
              todo : SUBSET EsIndex, blks : SUBSET Blocks, txs : SUBSET Blocks,
              opts : SUBSET Row]
  BY DEF TypeOK, PersisterTyped
<1>1. CASE Crash \/ PersistDone
  BY <1>1 DEF Crash, MemoryCleared, PersistDone, EmptyStage, NoImport
<1>2. CASE BootstrapHandle \/ BootstrapDone
  BY <1>2 DEF BootstrapHandle, BootstrapDone, NoImport
<1>3. CASE PersistStage \/ PersistFlush
  <2>1. persRing # <<>>
    BY <1>3 DEF PersistStage, PersistFlush
  <2>2. OptRows(Head(persRing)) \subseteq PendingOpts
    BY <2>1, HeadPending DEF PendingOpts
  <2>3. stage'.opts = stage.opts \cup OptRows(Head(persRing))
    BY <1>3 DEF PersistStage, PersistFlush, StagedWith
  <2>4. imp' = imp \/ imp'.opts = stage'.opts
    BY <1>3 DEF PersistStage, PersistFlush
  <2> QED BY <2>2, <2>3, <2>4
<1>4. CASE \/ \E i \in EsIndex : EsSave(i)
           \/ RedisImport
           \/ \E i \in RedisKey : RedisSave(i)
           \/ \E i \in RedisKey : RedisSaveFail(i)
  <2>1. UNCHANGED stage
    BY <1>4 DEF EsSave, RedisImport, RedisSave, RedisSaveFail
  <2>2. imp'.opts = imp.opts
    BY <1>0, <1>4 DEF EsSave, RedisImport, RedisSave, RedisSaveFail
  <2> QED BY <2>1, <2>2
<1>5. CASE UNCHANGED <<bakMax, stage, imp>>
  BY <1>5
<1> QED BY <1>1, <1>2, <1>3, <1>4, <1>5, PersisterMovers

\* Replacing rows adds no others.
LEMMA ReplaceIn == ASSUME NEW old, NEW new PROVE Replace(old, new) \subseteq old \cup new
BY DEF Replace

\* Only an attempt that is published brings new rows; all else moves them.
LEMMA OptsMove ==
  ASSUME TypeOK, [Next]_vars, NEW r \in AllOpts'
  PROVE  r \in AllOpts \/ (CollectPublish /\ r \in OptRows(AttemptEvent(Head(collRing))))
<1>1. CASE r \in bak'["opt"]
  <2>1. CASE CollectCommit
    <3>1. bak'["opt"] = Replace({x \in bak["opt"] : x.id > col.del["opt"]}, OptRows(col.ev))
      BY <2>1 DEF CollectCommit, Kind, NewRows
    <3>2. r \in bak["opt"] \cup OptRows(col.ev)
      BY <1>1, <3>1, ReplaceIn
    <3> QED BY <3>2 DEF AllOpts
  <2> QED BY <1>1, <2>1, LifeMovers DEF AllOpts
<1>2. CASE r \in esOpt'
  <2>1. CASE \E i \in EsIndex : EsSave(i)
    <3>1. esOpt' = esOpt \/ esOpt' = Replace(esOpt, imp.opts)
      BY <2>1 DEF EsSave
    <3>2. r \in esOpt \cup imp.opts
      BY <1>2, <3>1, ReplaceIn
    <3> QED BY <3>2 DEF AllOpts
  <2>2. CASE UNCHANGED esOpt
    BY <1>2, <2>2 DEF AllOpts
  <2>3. CASE CollectCommit \/ (\E i \in RedisKey : RedisSave(i)) \/ UNCHANGED store
    BY <2>2, <2>3 DEF CollectCommit, RedisSave, esVars, store
  <2> QED BY <2>1, <2>2, <2>3, StoresMovers
<1>3. CASE r \in stage'.opts \cup imp'.opts
  BY <1>3, StagedMove DEF AllOpts
<1>4. CASE r \in PendingOpts'
  <2>1. PICK e \in Pending' : r \in OptRows(e)
    BY <1>4 DEF PendingOpts, OptRows
  <2>2. CASE e \in Pending
    BY <2>1, <2>2 DEF PendingOpts, AllOpts
  <2>3. CASE CollectPublish /\ e = AttemptEvent(Head(collRing))
    BY <2>1, <2>3
  <2> QED BY <2>1, <2>2, <2>3, PendingMove
<1>5. CASE r \in OptRows(col.ev)'
  <2>1. CASE col'.ev = col.ev
    BY <1>5, <2>1 DEF AllOpts, OptRows
  <2>2. CASE col'.ev = NoEvent
    BY <1>5, <2>2 DEF OptRows, RowsOf, NoEvent
  <2>3. CASE CollectPublish
    <3>1. col'.ev = AttemptEvent(Head(collRing))
      BY <2>3 DEF CollectPublish, Attempting, TypeOK, CollectorTyped
    <3> QED BY <1>5, <2>3, <3>1 DEF OptRows
  <2>4. CASE CollectWrite
    BY <2>1, <2>4 DEF CollectWrite, TypeOK, CollectorTyped
  <2>5. CASE Crash \/ CollectCommit \/ CollectFailWrite \/ CollectFailCommit
    BY <2>2, <2>5 DEF Crash, MemoryCleared, CollectCommit, CollectFailWrite, CollectFailCommit
  <2>6. CASE Start \/ CollectFailParse \/ CollectFailAnalyse \/ CollectFailStatistic
             \/ PersistStage \/ PersistFlush
    BY <2>1, <2>6 DEF Start, CollectFailParse, CollectFailAnalyse, CollectFailStatistic,
       PersistStage, PersistFlush
  <2> QED BY <2>1, <2>3, <2>4, <2>5, <2>6, CollectorMovers
<1> QED BY <1>1, <1>2, <1>3, <1>4, <1>5 DEF AllOpts

-----------------------------------------------------------------------------
(* Without exceptions each block gets the same ids and is counted once *)

OptCount == [b \in Blocks |-> EpochOpts[b] + TxCount[b]]

\* The node operations of the blocks up to b.
OptTotal(b) == SumFunctionOnSet(OptCount, 1..b)

LEMMA OptTotals ==
  ASSUME NEW b \in (-1)..MaxBlock
  PROVE  /\ OptTotal(b) \in Int
         /\ b =< 0 => OptTotal(b) = 0
         /\ b > 0 => OptTotal(b) = EpochOpts[b] + TxCount[b] + OptTotal(b - 1)
<1>1. OptCount \in [Blocks -> Nat]
  BY ContentAssumption DEF OptCount
<1>2. b > 0 => b \in Blocks
  BY BoundsAssumption DEF Blocks
<1>3. b > 0 => OptCount[b] = EpochOpts[b] + TxCount[b]
  BY <1>2 DEF OptCount
<1> QED BY <1>1, <1>3, BlockSum DEF OptTotal

\* A later block starts where the earlier ones ended, or further up.
LEMMA OptTotalGrows ==
  ASSUME NEW a \in Blocks, NEW b \in Blocks, a =< b
  PROVE  OptTotal(a) =< OptTotal(b)
<1> DEFINE S == {n \in Nat : a + n =< MaxBlock => OptTotal(a) =< OptTotal(a + n)}
<1>0. a \in Nat /\ b \in Nat /\ b =< MaxBlock
  BY BoundsAssumption DEF Blocks
<1>1. 0 \in S
  BY <1>0, OptTotals, BoundsAssumption
<1>2. ASSUME NEW n \in Nat, n \in S PROVE n + 1 \in S
  <2> SUFFICES ASSUME a + (n + 1) =< MaxBlock PROVE OptTotal(a) =< OptTotal(a + (n + 1))
    OBVIOUS
  <2> DEFINE c == a + (n + 1)
  <2>1. c \in Blocks /\ c \in (-1)..MaxBlock /\ c > 0 /\ c - 1 = a + n /\ c - 1 \in (-1)..MaxBlock
    BY <1>0, BoundsAssumption DEF Blocks
  <2>2. OptTotal(a) =< OptTotal(c - 1)
    BY <1>0, <1>2, <2>1
  <2>3. EpochOpts[c] \in Nat /\ TxCount[c] \in Nat
    BY <2>1, ContentAssumption
  <2>4. OptTotal(c) = EpochOpts[c] + TxCount[c] + OptTotal(c - 1) /\ OptTotal(c - 1) \in Int
    BY <2>1, OptTotals
  <2>5. OptTotal(a) \in Int
    BY <1>0, OptTotals, BoundsAssumption
  <2> QED BY <2>2, <2>3, <2>4, <2>5
<1> HIDE DEF S
<1>3. b - a \in S
  BY <1>0, <1>1, <1>2, NatSet
<1> QED BY <1>0, <1>3 DEF S

InProgress == col.pc \in {"published", "written"}

\* Without exceptions the counters are exact: a block is counted, and its ids
\* are handed out, once between two commits.
ExactInv ==
  /\ main = "down" => preBlock = 0 /\ listed = 0
  /\ col.pc # "released"
  /\ db.txQty = TxTotal(db.cur) /\ db.optSeq = OptTotal(db.cur)
  /\ main # "down" /\ col.pc = "idle" =>
       /\ mem.txQty = TxTotal(db.cur) /\ mem.optSeq = OptTotal(db.cur)
       /\ listed = 0 /\ (preBlock = 0 \/ preBlock =< db.cur)
  /\ InProgress =>
       /\ mem.txQty = TxTotal(col.ev.blk) /\ mem.optSeq = OptTotal(col.ev.blk)
       /\ preBlock =< col.ev.blk

\* Each row's id is one of those of its block.
Placed(r) == r.blk \in Blocks /\ r.id \in (OptTotal(r.blk - 1) + 1)..OptTotal(r.blk)
OptsPlaced == \A r \in AllOpts : Placed(r)

LEMMA ExactInit == Init => ExactInv /\ OptsPlaced
<1> SUFFICES ASSUME Init PROVE ExactInv /\ OptsPlaced
  OBVIOUS
<1>1. TxTotal(-1) = 0 /\ OptTotal(-1) = 0
  BY TxTotals, OptTotals, BoundsAssumption
<1>2. ExactInv
  BY <1>1 DEF Init, ExactInv, InProgress
<1>3. Pending = {}
  BY EventsNone DEF Init, Pending
<1>4. AllOpts = {}
  BY <1>3 DEF Init, AllOpts, PendingOpts, OptRows, RowsOf, NoEvent, EmptyStage, NoImport, Kind
<1> QED BY <1>2, <1>4 DEF OptsPlaced

\* The state an exact attempt starts from.
LEMMA ExactAttempt ==
  ASSUME PipelineInv, ExactInv, NEW b \in Blocks, Attempting(b)
  PROVE  /\ TxQtyAfter(b) = TxTotal(b)
         /\ mem.optSeq = OptTotal(b - 1) /\ mem.optSeq + OptsOf(b) = OptTotal(b)
         /\ PreBlockAfter(b) =< b
<1>1. b = Head(collRing) /\ collRing # <<>> /\ col.pc = "idle"
  BY DEF Attempting
<1>2. /\ main # "down" /\ b \in Nat /\ b =< MaxBlock
      /\ db.cur = IF b =< 1 THEN -1 ELSE b - 1
  BY <1>1, HeadNext DEF Running
<1>3. /\ mem.txQty = TxTotal(db.cur) /\ mem.optSeq = OptTotal(db.cur)
      /\ listed = 0 /\ (preBlock = 0 \/ preBlock =< db.cur)
  BY <1>1, <1>2 DEF ExactInv
<1>4. preBlock \in Nat /\ TxCount[b] \in Nat /\ EpochOpts[b] \in Nat
  BY ContentAssumption, BoundsAssumption DEF PipelineInv, TypeOK, CollectorTyped, Blocks
<1>5. /\ TxTotal(db.cur) = TxTotal(b - 1) /\ TxTotal(b - 1) \in Int
      /\ OptTotal(db.cur) = OptTotal(b - 1) /\ OptTotal(b - 1) \in Int
  <2>1. /\ TxTotal(-1) = 0 /\ TxTotal(0) = 0 /\ OptTotal(-1) = 0 /\ OptTotal(0) = 0
    BY TxTotals, OptTotals, BoundsAssumption
  <2>2. CASE b = 0
    BY <1>2, <2>1, <2>2
  <2>3. CASE b = 1
    BY <1>2, <2>1, <2>3
  <2>4. CASE b > 1
    <3>1. db.cur = b - 1 /\ b - 1 \in (-1)..MaxBlock
      BY <1>2, <2>4, BoundsAssumption
    <3> QED BY <3>1, TxTotals, OptTotals
  <2> QED BY <1>2, <2>2, <2>3, <2>4
<1>6. b \in (-1)..MaxBlock /\ b - 1 \in (-1)..MaxBlock
  BY <1>2, BoundsAssumption
<1>7. TxTotal(b) = TxCount[b] + TxTotal(b - 1)
  BY <1>2, <1>6, TxTotals, ContentAssumption
<1>8. OptTotal(b) = EpochOpts[b] + TxCount[b] + OptTotal(b - 1)
  BY <1>2, <1>6, OptTotals, ContentAssumption
<1>9. TxQtyAfter(b) = TxTotal(b)
  <2>1. CASE b = 0
    BY <1>3, <1>5, <1>7, <2>1, ContentAssumption DEF TxQtyAfter
  <2>2. CASE b # 0
    <3>1. preBlock # b
      BY <1>2, <1>3, <1>4, <2>2
    <3>2. TxQtyAfter(b) = mem.txQty + (listed + TxCount[b])
      BY <2>2, <3>1 DEF TxQtyAfter, AllTx
    <3> QED BY <1>3, <1>4, <1>5, <1>7, <3>2
  <2> QED BY <2>1, <2>2
<1>10. OptsOf(b) = EpochOpts[b] + (listed + TxCount[b])
  BY DEF OptsOf, AllTx
<1>11. mem.optSeq + OptsOf(b) = OptTotal(b)
  BY <1>3, <1>4, <1>5, <1>8, <1>10
<1>12. PreBlockAfter(b) =< b
  BY <1>2, <1>3, <1>4 DEF PreBlockAfter
<1> QED BY <1>3, <1>5, <1>9, <1>11, <1>12

LEMMA ExactStep ==
  ASSUME MaxFail = 0, PipelineInv, ExactInv, [Next]_vars
  PROVE  ExactInv'
<1>0. fails = 0 /\ ~ (fails < MaxFail)
  BY DEF PipelineInv, TypeOK, ThreadsTyped
<1>1. CASE Start
  <2>1. /\ main = "down" /\ mem'.txQty = db.txQty /\ mem'.optSeq = db.optSeq
        /\ main' # "down" /\ UNCHANGED <<db, preBlock, listed, col>>
    BY <1>1 DEF Start, store, LoadedStat
  <2>2. preBlock = 0 /\ listed = 0 /\ col.pc = "idle"
    BY <2>1 DEF ExactInv, PipelineInv, PipelineCold, Running
  <2> QED BY <2>1, <2>2 DEF ExactInv, InProgress
<1>2. CASE Crash
  <2>1. /\ preBlock' = 0 /\ listed' = 0 /\ main' = "down" /\ UNCHANGED db /\ col'.pc = "idle"
    BY <1>2 DEF Crash, MemoryCleared, store
  <2> QED BY <2>1 DEF ExactInv, InProgress
<1>3. CASE CollectPublish
  <2>1. PICK b \in Blocks :
          /\ Attempting(b) /\ mem' = [txQty |-> TxQtyAfter(b), optSeq |-> mem.optSeq + OptsOf(b)]
          /\ preBlock' = PreBlockAfter(b) /\ UNCHANGED <<main, db>>
          /\ col' = [col EXCEPT !.pc = "published", !.ev = AttemptEvent(b)]
    BY <1>3 DEF CollectPublish
  <2>2. /\ TxQtyAfter(b) = TxTotal(b) /\ mem.optSeq + OptsOf(b) = OptTotal(b)
        /\ PreBlockAfter(b) =< b
    BY <2>1, ExactAttempt
  <2>3. col'.pc = "published" /\ col'.ev.blk = b
    BY <2>1 DEF PipelineInv, TypeOK, CollectorTyped, AttemptEvent
  <2>4. mem'.txQty = TxTotal(b) /\ mem'.optSeq = OptTotal(b)
    BY <2>1, <2>2
  <2>5. main # "down"
    BY <2>1, HeadNext DEF Attempting, Running
  <2> QED BY <2>1, <2>2, <2>3, <2>4, <2>5 DEF ExactInv, InProgress
<1>4. CASE CollectCommit
  <2>1. PICK b \in Blocks : b = col.ev.blk
    BY DEF PipelineInv, TypeOK, CollectorTyped, Event
  <2>2. /\ col.pc = "written" /\ db' = StatRow(b) /\ UNCHANGED <<main, mem, preBlock>>
        /\ col'.pc = "idle" /\ listed' = 0 /\ collRing # <<>> /\ b = Head(collRing)
    BY <1>4, <2>1 DEF CollectCommit, PipelineInv, WorksOnHead
  <2>3. /\ mem.txQty = TxTotal(b) /\ mem.optSeq = OptTotal(b) /\ preBlock =< b
    BY <2>1, <2>2 DEF ExactInv, InProgress
  <2>4. main # "down" /\ b \in Nat /\ db.cur = IF b =< 1 THEN -1 ELSE b - 1
    BY <2>2, HeadNext DEF Running
  <2>5. CASE b = 0
    <3>1. db' = db /\ db.cur = -1
      BY <2>2, <2>4, <2>5 DEF StatRow
    <3>2. TxTotal(0) = 0 /\ TxTotal(-1) = 0 /\ OptTotal(0) = 0 /\ OptTotal(-1) = 0
      BY TxTotals, OptTotals, BoundsAssumption
    <3>3. preBlock = 0
      BY <2>3, <2>5, BoundsAssumption DEF PipelineInv, TypeOK, CollectorTyped, Blocks
    <3>4. mem.txQty = TxTotal(db.cur) /\ mem.optSeq = OptTotal(db.cur)
      BY <2>3, <2>5, <3>1, <3>2
    <3> QED BY <2>2, <2>4, <3>1, <3>3, <3>4 DEF ExactInv, InProgress
  <2>6. CASE b # 0
    <3>1. db'.cur = b /\ db'.txQty = mem.txQty /\ db'.optSeq = mem.optSeq
      BY <2>2, <2>6 DEF StatRow
    <3> QED BY <2>2, <2>3, <2>4, <3>1 DEF ExactInv, InProgress
  <2> QED BY <2>5, <2>6
<1>5. CASE UNCHANGED <<mem, preBlock, listed, db>> /\ (main' = "down" <=> main = "down")
           /\ (UNCHANGED col \/ (col.pc = "published" /\ col' = [col EXCEPT !.pc = "written", !.del = col'.del]))
  <2>1. CASE UNCHANGED col
    BY <1>5, <2>1 DEF ExactInv, InProgress
  <2>2. CASE col.pc = "published" /\ col' = [col EXCEPT !.pc = "written", !.del = col'.del]
    <3>1. col.pc = "published" /\ col'.pc = "written" /\ col'.ev = col.ev
      BY <2>2 DEF PipelineInv, TypeOK, CollectorTyped
    <3> QED BY <1>5, <3>1 DEF ExactInv, InProgress
  <2> QED BY <1>5, <2>1, <2>2
<1>6. CASE CollectWrite
  <2>1. /\ UNCHANGED <<main, mem, preBlock, listed, db>> /\ col.pc = "published"
        /\ col' = [col EXCEPT !.pc = "written", !.del = col'.del]
    BY <1>6 DEF CollectWrite, PipelineInv, TypeOK, CollectorTyped
  <2> QED BY <1>5, <2>1
<1>7. CASE PersistStage \/ PersistFlush
  BY <1>5, <1>7 DEF PersistStage, PersistFlush
<1>8. CASE UNCHANGED <<mem, txId, txTop, preBlock, listed, nulled, col, delCount>>
  <2>1. CASE UNCHANGED db
    BY <1>1, <1>2, <1>5, <1>8, <2>1, LifeMovers
  <2> QED BY <1>4, <2>1, LifeMovers
<1>9. ~ (CollectFailParse \/ CollectFailAnalyse \/ CollectFailStatistic
         \/ CollectFailWrite \/ CollectFailCommit)
  BY <1>0 DEF CollectFailParse, CollectFailAnalyse, CollectFailStatistic, CollectFailWrite,
     CollectFailCommit
<1> QED BY <1>1, <1>2, <1>3, <1>4, <1>6, <1>7, <1>8, <1>9, CollectorMovers

\* The rows of an exact attempt are those of its block.
LEMMA PlacedStep ==
  ASSUME PipelineInv, ExactInv, OptsPlaced, [Next]_vars
  PROVE  OptsPlaced'
<1> SUFFICES ASSUME NEW r \in AllOpts' PROVE Placed(r)
  BY DEF OptsPlaced, Placed, OptTotal
<1>1. CASE r \in AllOpts
  BY <1>1 DEF OptsPlaced
<1>2. CASE CollectPublish /\ r \in OptRows(AttemptEvent(Head(collRing)))
  <2>1. PICK b \in Blocks : Attempting(b)
    BY <1>2 DEF CollectPublish
  <2>2. mem.optSeq = OptTotal(b - 1) /\ mem.optSeq + OptsOf(b) = OptTotal(b)
    BY <2>1, ExactAttempt
  <2>3. r \in OptRows(AttemptEvent(b))
    BY <1>2, <2>1 DEF Attempting
  <2>4. r.blk = b /\ r.id \in (mem.optSeq + 1)..(mem.optSeq + OptsOf(b))
    BY <2>3 DEF OptRows, RowsOf, AttemptEvent
  <2> QED BY <2>2, <2>4 DEF Placed
<1> QED BY <1>1, <1>2, OptsMove DEF PipelineInv

\* network_stat counts every transaction exactly once as long as no handler
\* throws, whatever crashes and restarts there are.
THEOREM TransactionsCountedOnce ==
  ASSUME MaxFail = 0 PROVE Spec => []TxQtyExact
<1>1. PipelineInv /\ ExactInv /\ [Next]_vars => ExactInv'
  BY ExactStep
<1>2. ExactInv => TxQtyExact
  BY DEF ExactInv, TxQtyExact
<1>3. Init => ExactInv
  BY ExactInit
<1> QED BY <1>1, <1>2, <1>3, PipelineInvariant, PTL DEF Spec

LEMMA PlacedAgree ==
  ASSUME NEW r, NEW d, Placed(r), Placed(d), r.id = d.id
  PROVE  r.blk = d.blk
<1>1. /\ r.blk \in Nat /\ d.blk \in Nat /\ r.blk =< MaxBlock /\ d.blk =< MaxBlock
      /\ r.blk \in Blocks /\ d.blk \in Blocks
  BY BoundsAssumption DEF Placed, Blocks
<1>2. /\ OptTotal(r.blk) \in Int /\ OptTotal(d.blk) \in Int
      /\ OptTotal(r.blk - 1) \in Int /\ OptTotal(d.blk - 1) \in Int
  BY <1>1, OptTotals, BoundsAssumption
<1>3. /\ OptTotal(r.blk - 1) < r.id /\ r.id =< OptTotal(r.blk)
      /\ OptTotal(d.blk - 1) < r.id /\ r.id =< OptTotal(d.blk) /\ r.id \in Int
  BY <1>2 DEF Placed
<1>4. CASE r.blk < d.blk
  <2>1. r.blk =< d.blk - 1 /\ d.blk - 1 \in Blocks
    BY <1>1, <1>4, BoundsAssumption DEF Blocks
  <2>2. OptTotal(r.blk) =< OptTotal(d.blk - 1)
    BY <1>1, <2>1, OptTotalGrows
  <2> QED BY <1>2, <1>3, <2>2
<1>5. CASE d.blk < r.blk
  <2>1. d.blk =< r.blk - 1 /\ r.blk - 1 \in Blocks
    BY <1>1, <1>5, BoundsAssumption DEF Blocks
  <2>2. OptTotal(d.blk) =< OptTotal(r.blk - 1)
    BY <1>1, <2>1, OptTotalGrows
  <2> QED BY <1>2, <1>3, <2>2
<1> QED BY <1>1, <1>4, <1>5

-----------------------------------------------------------------------------
(* Without crashes an id is handed out once, whatever is retried *)

AgreeInv ==
  /\ \A r, s \in AllOpts : r.id = s.id => r.blk = s.blk
  /\ \A r \in AllOpts : r.id \in Int
  /\ main # "down" => \A r \in AllOpts : r.id =< mem.optSeq
  /\ main = "down" => AllOpts = {}

\* The operation sequence in memory only grows until the next start.
LEMMA SequenceGrows ==
  ASSUME TypeOK, [Next]_vars
  PROVE  Start \/ (mem.optSeq \in Nat /\ mem'.optSeq \in Nat /\ mem.optSeq =< mem'.optSeq)
<1>0. /\ mem \in [txQty : Nat, optSeq : Nat] /\ mem.optSeq \in Nat /\ listed \in Nat
      /\ \A b \in Blocks : OptsOf(b) \in Nat
  BY ContentAssumption DEF TypeOK, CollectorTyped, OptsOf, AllTx
<1>1. CASE CollectPublish \/ CollectFailStatistic
  <2>1. PICK b \in Blocks : mem' = [txQty |-> TxQtyAfter(b), optSeq |-> mem.optSeq + OptsOf(b)]
    BY <1>1 DEF CollectPublish, CollectFailStatistic
  <2>2. OptsOf(b) \in Nat /\ mem'.optSeq = mem.optSeq + OptsOf(b)
    BY <1>0, <2>1
  <2> QED BY <1>0, <2>2
<1>2. CASE CollectFailAnalyse
  <2>1. PICK b \in Blocks : \E o \in 0..OptsOf(b) : mem' = [mem EXCEPT !.optSeq = @ + o]
    BY <1>2 DEF CollectFailAnalyse
  <2>2. PICK o \in 0..OptsOf(b) : mem' = [mem EXCEPT !.optSeq = @ + o]
    BY <2>1
  <2>3. o \in Nat /\ mem'.optSeq = mem.optSeq + o
    BY <1>0, <2>2
  <2> QED BY <1>0, <2>3
<1>3. CASE UNCHANGED mem
  BY <1>0, <1>3
<1>4. CASE Crash \/ CollectWrite \/ CollectCommit \/ CollectFailParse \/ CollectFailWrite
           \/ CollectFailCommit \/ PersistStage \/ PersistFlush
           \/ UNCHANGED <<mem, txId, txTop, preBlock, listed, nulled, col, delCount>>
  BY <1>3, <1>4 DEF Crash, CollectWrite, CollectCommit, CollectFailParse, CollectFailWrite,
     CollectFailCommit, PersistStage, PersistFlush
<1> QED BY <1>1, <1>2, <1>4, CollectorMovers

\* The rows of an attempt carry ids no row carried before.
LEMMA AttemptOpts ==
  ASSUME TypeOK, NEW b \in Blocks, NEW r \in OptRows(AttemptEvent(b))
  PROVE  r.blk = b /\ r.id \in Int /\ r.id > mem.optSeq /\ r.id =< mem.optSeq + OptsOf(b)
<1>1. mem.optSeq \in Nat /\ OptsOf(b) \in Nat
  BY ContentAssumption DEF TypeOK, CollectorTyped, OptsOf, AllTx
<1> QED BY <1>1 DEF OptRows, RowsOf, AttemptEvent

LEMMA AgreeStep ==
  ASSUME MaxCrash = 0, PipelineInv, AgreeInv, [Next]_vars
  PROVE  AgreeInv'
<1>0. TypeOK /\ ~ Crash
  BY DEF Crash, PipelineInv, TypeOK, ThreadsTyped
<1>1. CASE CollectPublish
  <2>1. PICK b \in Blocks :
          /\ Attempting(b) /\ UNCHANGED main
          /\ mem' = [txQty |-> TxQtyAfter(b), optSeq |-> mem.optSeq + OptsOf(b)]
    BY <1>1 DEF CollectPublish
  <2>2. main # "down" /\ b = Head(collRing)
    BY <2>1, HeadNext DEF Attempting, Running
  <2>3. mem.optSeq \in Nat /\ OptsOf(b) \in Nat /\ mem'.optSeq = mem.optSeq + OptsOf(b)
    BY <1>0, <2>1, ContentAssumption DEF TypeOK, CollectorTyped, OptsOf, AllTx
  <2>4. \A r \in AllOpts : r.id \in Int /\ r.id =< mem.optSeq
    BY <2>2 DEF AgreeInv
  <2>5. \A r \in OptRows(AttemptEvent(b)) :
          r.blk = b /\ r.id \in Int /\ r.id > mem.optSeq /\ r.id =< mem.optSeq + OptsOf(b)
    BY <1>0, AttemptOpts
  <2>6. \A r \in AllOpts' : r \in AllOpts \/ r \in OptRows(AttemptEvent(b))
    BY <1>0, <2>2, OptsMove
  <2>7. \A r \in AllOpts' : r.id \in Int /\ r.id =< mem'.optSeq
    BY <2>3, <2>4, <2>5, <2>6
  <2>8. ASSUME NEW r \in AllOpts', NEW s \in AllOpts', r.id = s.id PROVE r.blk = s.blk
    <3>1. CASE r \in AllOpts /\ s \in AllOpts
      BY <2>8, <3>1 DEF AgreeInv
    <3>2. CASE r \in OptRows(AttemptEvent(b)) /\ s \in OptRows(AttemptEvent(b))
      BY <2>5, <3>2
    <3>3. CASE r \in AllOpts /\ s \in OptRows(AttemptEvent(b))
      <4>1. r.id =< mem.optSeq /\ s.id > mem.optSeq /\ s.id \in Int
        BY <2>4, <2>5, <3>3
      <4> QED BY <2>3, <2>8, <4>1
    <3>4. CASE s \in AllOpts /\ r \in OptRows(AttemptEvent(b))
      <4>1. s.id =< mem.optSeq /\ r.id > mem.optSeq /\ s.id \in Int
        BY <2>4, <2>5, <3>4
      <4> QED BY <2>3, <2>8, <4>1
    <3> QED BY <2>6, <3>1, <3>2, <3>3, <3>4
  <2> QED BY <2>1, <2>2, <2>7, <2>8 DEF AgreeInv
<1>2. CASE ~CollectPublish
  <2>1. \A r \in AllOpts' : r \in AllOpts
    BY <1>0, <1>2, OptsMove
  <2>2. \A r, s \in AllOpts' : r.id = s.id => r.blk = s.blk
    BY <2>1 DEF AgreeInv
  <2>3. \A r \in AllOpts' : r.id \in Int
    BY <2>1 DEF AgreeInv
  <2>4. main' = "down" => AllOpts' = {}
    <3>1. CASE Start
      BY <3>1 DEF Start
    <3>2. CASE main' = "down" <=> main = "down"
      <4> SUFFICES ASSUME main = "down" PROVE AllOpts' = {}
        BY <3>2
      <4>1. AllOpts = {}
        BY DEF AgreeInv
      <4> QED BY <2>1, <4>1
    <3> QED BY <1>0, <3>1, <3>2, LifeMovers
  <2>5. ASSUME main' # "down", NEW r \in AllOpts' PROVE r.id =< mem'.optSeq
    <3>1. r \in AllOpts
      BY <2>1
    <3>2. main # "down" /\ r.id =< mem.optSeq /\ r.id \in Int
      BY <3>1 DEF AgreeInv
    <3>3. ~ Start
      BY <3>2 DEF Start
    <3> QED BY <1>0, <3>2, <3>3, SequenceGrows
  <2> QED BY <2>2, <2>3, <2>4, <2>5 DEF AgreeInv
<1> QED BY <1>1, <1>2

\* A backup row never carries the id of an indexed operation of another block:
\* always when no handler throws, and also when handlers throw but no process
\* dies.  (An exception and a crash on the same block break it.)
THEOREM IdsAreOfOneBlock ==
  ASSUME MaxFail = 0 \/ MaxCrash = 0 PROVE Spec => []OptIdsAgree
<1>1. ASSUME MaxFail = 0 PROVE Spec => []OptIdsAgree
  <2>1. PipelineInv /\ (ExactInv /\ OptsPlaced) /\ [Next]_vars => (ExactInv /\ OptsPlaced)'
    BY <1>1, ExactStep, PlacedStep
  <2>2. OptsPlaced => OptIdsAgree
    BY PlacedAgree DEF OptsPlaced, OptIdsAgree, AllOpts
  <2>3. Init => ExactInv /\ OptsPlaced
    BY ExactInit
  <2> QED BY <2>1, <2>2, <2>3, PipelineInvariant, PTL DEF Spec
<1>2. ASSUME MaxCrash = 0 PROVE Spec => []OptIdsAgree
  <2>1. PipelineInv /\ AgreeInv /\ [Next]_vars => AgreeInv'
    BY <1>2, AgreeStep
  <2>2. AgreeInv => OptIdsAgree
    BY DEF AgreeInv, OptIdsAgree, AllOpts
  <2>3. Init => AgreeInv
    <3> SUFFICES ASSUME Init PROVE AgreeInv
      OBVIOUS
    <3>1. Pending = {}
      BY EventsNone DEF Init, Pending
    <3>2. AllOpts = {}
      BY <3>1 DEF Init, AllOpts, PendingOpts, OptRows, RowsOf, NoEvent, EmptyStage, NoImport, Kind
    <3> QED BY <3>2 DEF Init, AgreeInv
  <2> QED BY <2>1, <2>2, <2>3, PipelineInvariant, PTL DEF Spec
<1> QED BY <1>1, <1>2

-----------------------------------------------------------------------------
(* The clean-up of n_opt_bak never overtakes the import *)

BakOpts == bak["opt"]
OptsBackedUp(b) == {r \in BakOpts : r.blk = b}

\* The rows with an id up to n belong to searchable blocks.
UsedUpTo(n) == \A r \in BakOpts : r.id =< n => r.blk \in esBlock

\* The rows are those of committed blocks.
RowsCommitted == \A r \in BakOpts : r.id > 0 /\ r.id =< db.optSeq /\ r.blk \in 1..db.cur

\* Ids are handed out above what is committed and above what is deletable.
MarksBehind ==
  /\ main # "down" => db.optSeq =< mem.optSeq /\ bakMax["opt"] =< mem.optSeq
  /\ main = "down" => bakMax["opt"] = 0

HasOpts(e) == e.optLo =< e.optHi

\* The rows up to an event's first id are those of its block and earlier ones.
EventsInOrder ==
  \A e \in Pending :
    /\ e.optHi =< mem.optSeq
    /\ HasOpts(e) => \A r \in BakOpts : r.id =< e.optLo => r.blk =< e.blk

\* The block in progress got ids above all others, and one for each operation.
AttemptAhead ==
  InProgress =>
    /\ col.ev.optHi =< mem.optSeq /\ db.optSeq < col.ev.optLo
    /\ col.ev.blk = 0 => ~HasOpts(col.ev)
    /\ col.ev.optHi - col.ev.optLo + 1 >= EpochOpts[col.ev.blk] + TxCount[col.ev.blk]
    /\ \A e \in Pending : HasOpts(e) /\ e.blk < col.ev.blk => e.optHi < col.ev.optLo
    /\ bakMax["opt"] < col.ev.optLo \/ col.ev.blk \in esBlock

\* What may be deleted, and what the transaction in progress deletes, is used.
DeletesUsed ==
  /\ Running => UsedUpTo(bakMax["opt"])
  /\ col.pc = "written" => UsedUpTo(col.del["opt"])

\* No attempt leaves entries in the list of the genesis block.
GenesisEmpty == listed # 0 => collRing # <<>> /\ Head(collRing) # 0

BootFromBackup == imp.phase # "none" /\ imp.who = "boot" => imp.opts \subseteq BakOpts

\* A committed block that is not searchable has all its operations in the table.
MissingBackedUp ==
  \A b \in 1..db.cur : b \notin esBlock =>
    Cardinality(OptsBackedUp(b)) >= EpochOpts[b] + TxCount[b]

BackupInv ==
  /\ RowsCommitted /\ MarksBehind /\ EventsInOrder /\ AttemptAhead /\ DeletesUsed
  /\ GenesisEmpty /\ BootFromBackup /\ MissingBackedUp /\ IsFiniteSet(AllOpts)

LEMMA BackupInit == Init => BackupInv
<1> SUFFICES ASSUME Init PROVE BackupInv
  OBVIOUS
<1>1. Pending = {} /\ BakOpts = {}
  BY EventsNone DEF Init, Pending, BakOpts, Kind
<1>2. AllOpts = {}
  BY <1>1 DEF Init, AllOpts, PendingOpts, OptRows, RowsOf, NoEvent, EmptyStage, NoImport, Kind
<1>3. RowsCommitted /\ EventsInOrder /\ DeletesUsed /\ BootFromBackup
  BY <1>1 DEF Init, RowsCommitted, EventsInOrder, DeletesUsed, UsedUpTo, BootFromBackup, NoImport
<1>4. MarksBehind /\ AttemptAhead /\ GenesisEmpty
  BY DEF Init, MarksBehind, AttemptAhead, InProgress, GenesisEmpty, Kind
<1>5. MissingBackedUp
  BY DEF Init, MissingBackedUp
<1>6. IsFiniteSet(AllOpts)
  BY <1>2, FS_EmptySet
<1> QED BY <1>3, <1>4, <1>5, <1>6 DEF BackupInv

\* The rows of an event are as many as its ids.
LEMMA OptRowsCount ==
  ASSUME NEW e \in Event
  PROVE  /\ IsFiniteSet(OptRows(e))
         /\ HasOpts(e) => Cardinality(OptRows(e)) = e.optHi - e.optLo + 1
<1> DEFINE S == e.optLo..e.optHi
           f == [i \in S |-> [id |-> i, blk |-> e.blk]]
<1>1. e.optLo \in Int /\ e.optHi \in Int
  BY DEF Event
<1>2. IsFiniteSet(S) /\ Cardinality(S) = IF e.optLo > e.optHi THEN 0 ELSE e.optHi - e.optLo + 1
  BY <1>1, FS_Interval
<1>3. f \in Bijection(S, OptRows(e))
  <2>1. f \in [S -> OptRows(e)]
    BY DEF OptRows, RowsOf
  <2>2. \A i, j \in S : f[i] = f[j] => i = j
    <3> SUFFICES ASSUME NEW i \in S, NEW j \in S, f[i] = f[j] PROVE i = j
      OBVIOUS
    <3>1. f[i].id = i /\ f[j].id = j
      OBVIOUS
    <3> QED BY <3>1
  <2>3. \A t \in OptRows(e) : \E s \in S : f[s] = t
    BY DEF OptRows, RowsOf
  <2> HIDE DEF f
  <2>4. f \in Injection(S, OptRows(e)) /\ f \in Surjection(S, OptRows(e))
    BY <2>1, <2>2, <2>3, Zenon DEF Injection, Surjection, IsInjective
  <2> QED BY <2>4 DEF Bijection
<1> HIDE DEF f
<1>4. ExistsBijection(S, OptRows(e))
  BY <1>3 DEF ExistsBijection
<1>5. IsFiniteSet(OptRows(e)) /\ Cardinality(OptRows(e)) = Cardinality(S)
  BY <1>2, <1>4, FS_Bijection
<1> QED BY <1>1, <1>2, <1>5 DEF HasOpts

\* The index only grows.
LEMMA EsGrows == ASSUME [Next]_vars PROVE esBlock \subseteq esBlock'
<1>1. CASE \E i \in EsIndex : EsSave(i)
  BY <1>1 DEF EsSave
<1>2. CASE CollectCommit \/ (\E i \in RedisKey : RedisSave(i)) \/ UNCHANGED store
  BY <1>2 DEF CollectCommit, RedisSave, esVars, store
<1> QED BY <1>1, <1>2, StoresMovers

\* The rows stay finitely many.
LEMMA FiniteStep ==
  ASSUME PipelineInv, IsFiniteSet(AllOpts), [Next]_vars
  PROVE  IsFiniteSet(AllOpts')
<1>0. TypeOK
  BY DEF PipelineInv
<1>1. CASE CollectPublish
  <2>1. PICK b \in Blocks : b = Head(collRing)
    BY <1>1 DEF CollectPublish, Attempting
  <2>2. IsFiniteSet(OptRows(AttemptEvent(b)))
    BY <1>0, AttemptIsEvent, OptRowsCount
  <2>3. IsFiniteSet(AllOpts \cup OptRows(AttemptEvent(b)))
    BY <2>2, FS_Union
  <2>4. AllOpts' \in SUBSET (AllOpts \cup OptRows(AttemptEvent(b)))
    BY <1>0, <2>1, OptsMove
  <2> QED BY <2>3, <2>4, FS_Subset
<1>2. CASE ~CollectPublish
  <2>1. AllOpts' \in SUBSET AllOpts
    BY <1>0, <1>2, OptsMove
  <2> QED BY <2>1, FS_Subset
<1> QED BY <1>1, <1>2

\* The state of a commit, and what it does to the rows.
LEMMA CommitOpts ==
  ASSUME PipelineInv, BackupInv, CollectCommit
  PROVE  /\ col.ev \in Event /\ InProgress /\ Running /\ mem' = mem /\ main' = main
         /\ \A r \in BakOpts' : r \in BakOpts \/ (r.blk = col.ev.blk /\ r.id \in Nat
                                                  /\ r.id >= col.ev.optLo /\ r.id =< col.ev.optHi)
         /\ \A r \in BakOpts : r \in BakOpts' \/ r.id =< col.del["opt"]
         /\ OptRows(col.ev) \subseteq BakOpts'
         /\ db.cur < col.ev.blk \/ col.ev.blk = 0
         /\ col.ev.blk = 0 => db' = db
         /\ col.ev.blk # 0 => db'.cur = col.ev.blk /\ db'.optSeq = mem.optSeq
<1>1. /\ col.pc = "written" /\ collRing # <<>> /\ db' = StatRow(col.ev.blk)
      /\ bak'["opt"] = Replace({x \in bak["opt"] : x.id > col.del["opt"]}, OptRows(col.ev))
      /\ mem' = mem /\ main' = main
  BY DEF CollectCommit, Kind, NewRows
<1>2. col.ev \in Event /\ col.del["opt"] \in Nat /\ bak["opt"] \in SUBSET Row
  BY DEF PipelineInv, TypeOK, CollectorTyped, StoresTyped, Kind
<1>3. InProgress /\ Running /\ col.ev.blk = Head(collRing)
  BY <1>1 DEF InProgress, PipelineInv, PipelineCold, WorksOnHead
<1>4. \A x \in OptRows(col.ev) : x.blk = col.ev.blk /\ x.id \in Nat
                                 /\ x.id >= col.ev.optLo /\ x.id =< col.ev.optHi
  BY <1>2 DEF OptRows, RowsOf, Event
<1>5. \A r \in BakOpts' : r \in BakOpts \/ r \in OptRows(col.ev)
  BY <1>1, ReplaceIn DEF BakOpts
<1>6. \A r \in BakOpts : r.id \in Nat /\ r.id =< db.optSeq
  BY <1>2 DEF BackupInv, RowsCommitted, BakOpts, Row
<1>7. db.optSeq < col.ev.optLo /\ db.optSeq \in Nat /\ col.ev.optLo \in Nat
  BY <1>2, <1>3 DEF BackupInv, AttemptAhead, Event, PipelineInv, TypeOK, StoresTyped
<1>8. ASSUME NEW r \in BakOpts, r.id > col.del["opt"] PROVE r \in BakOpts'
  <2>1. \A n \in OptRows(col.ev) : n.id # r.id
    BY <1>4, <1>6, <1>7
  <2> QED BY <1>1, <1>8, <2>1 DEF BakOpts, Replace
<1>9. OptRows(col.ev) \subseteq BakOpts'
  BY <1>1 DEF BakOpts, Replace
<1>10. \A r \in BakOpts : r \in BakOpts' \/ r.id =< col.del["opt"]
  BY <1>2, <1>6, <1>8
<1>11. db.cur < col.ev.blk \/ col.ev.blk = 0
  BY <1>1, <1>3, HeadNext
<1>12. /\ col.ev.blk = 0 => db' = db
       /\ col.ev.blk # 0 => db'.cur = col.ev.blk /\ db'.optSeq = mem.optSeq
  BY <1>1 DEF StatRow
<1> QED BY <1>1, <1>2, <1>3, <1>4, <1>5, <1>9, <1>10, <1>11, <1>12

\* The types the steps below compute with.
LEMMA BackupTypes ==
  ASSUME PipelineInv
  PROVE  /\ db.cur \in Int /\ db.optSeq \in Nat /\ mem.optSeq \in Nat
         /\ bakMax["opt"] \in Nat /\ col.del["opt"] \in Nat /\ col.ev \in Event
         /\ \A r \in BakOpts : r.id \in Nat /\ r.blk \in Nat
         /\ \A e \in Pending : e \in Event /\ e.optLo \in Nat /\ e.optHi \in Nat /\ e.blk \in Nat
         /\ esBlock \subseteq Blocks
<1>1. TypeOK /\ db.cur \in Int
  BY Sizes DEF PipelineInv
<1>2. /\ db.optSeq \in Nat /\ mem.optSeq \in Nat /\ bakMax["opt"] \in Nat
      /\ col.del["opt"] \in Nat /\ col.ev \in Event /\ bak["opt"] \subseteq Row
  BY <1>1 DEF TypeOK, StoresTyped, CollectorTyped, PersisterTyped, Kind
<1>3. \A r \in BakOpts : r.id \in Nat /\ r.blk \in Nat
  BY <1>2, BoundsAssumption DEF BakOpts, Row, Blocks
<1>4. \A e \in Pending : e \in Event
  BY <1>1 DEF TypeOK, RingsTyped, Pending, EventsOf
<1>5. \A e \in Event : e.optLo \in Nat /\ e.optHi \in Nat /\ e.blk \in Nat
  BY BoundsAssumption DEF Event, Blocks
<1>6. esBlock \subseteq Blocks
  BY <1>1 DEF TypeOK, StoresTyped
<1> QED BY <1>1, <1>2, <1>3, <1>4, <1>5, <1>6

LEMMA RowsCommittedStep ==
  ASSUME PipelineInv, PipelineInv', BackupInv, [Next]_vars
  PROVE  RowsCommitted'
<1>1. CASE CollectCommit
  <2> SUFFICES ASSUME NEW r \in BakOpts'
               PROVE  r.id > 0 /\ r.id =< db'.optSeq /\ r.blk \in 1..db'.cur
    BY DEF RowsCommitted
  <2>1. /\ InProgress /\ Running /\ main # "down"
        /\ r \in BakOpts \/ (r.blk = col.ev.blk /\ r.id \in Nat /\ r.id >= col.ev.optLo
                             /\ r.id =< col.ev.optHi)
        /\ db.cur < col.ev.blk \/ col.ev.blk = 0
        /\ col.ev.blk = 0 => db' = db
        /\ col.ev.blk # 0 => db'.cur = col.ev.blk /\ db'.optSeq = mem.optSeq
    BY <1>1, CommitOpts DEF Running
  <2>2. /\ col.ev.optHi =< mem.optSeq /\ db.optSeq < col.ev.optLo
        /\ col.ev.blk = 0 => ~HasOpts(col.ev)
    BY <2>1 DEF BackupInv, AttemptAhead
  <2>3. db.optSeq =< mem.optSeq
    BY <2>1 DEF BackupInv, MarksBehind
  <2>4. /\ db.cur \in Int /\ db.optSeq \in Nat /\ mem.optSeq \in Nat
        /\ col.ev.blk \in Nat /\ col.ev.optLo \in Nat /\ col.ev.optHi \in Nat
    BY BackupTypes, BoundsAssumption DEF Event, Blocks
  <2>5. CASE r \in BakOpts
    <3>1. r.id > 0 /\ r.id =< db.optSeq /\ r.blk \in 1..db.cur /\ r.id \in Nat
      BY <2>5, BackupTypes DEF BackupInv, RowsCommitted
    <3>2. CASE col.ev.blk = 0
      BY <2>1, <3>1, <3>2
    <3>3. CASE col.ev.blk # 0
      BY <2>1, <2>3, <2>4, <3>1, <3>3
    <3> QED BY <3>2, <3>3
  <2>6. CASE r.blk = col.ev.blk /\ r.id \in Nat /\ r.id >= col.ev.optLo /\ r.id =< col.ev.optHi
    <3>1. HasOpts(col.ev)
      BY <2>4, <2>6 DEF HasOpts
    <3>2. col.ev.blk # 0
      BY <2>2, <3>1
    <3> QED BY <2>1, <2>2, <2>4, <2>6, <3>2
  <2> QED BY <2>1, <2>5, <2>6
<1>2. CASE UNCHANGED <<db, bak>>
  BY <1>2 DEF BackupInv, RowsCommitted, BakOpts
<1> QED BY <1>1, <1>2, LifeMovers

\* Who moves the mark of the deletable ids, and where to.
LEMMA MarkMoves ==
  ASSUME PipelineInv, BackupInv, [Next]_vars
  PROVE  \/ bakMax'["opt"] = bakMax["opt"]
         \/ Crash /\ bakMax'["opt"] = 0
         \/ /\ main = "fill" /\ main' = main /\ bakMax'["opt"] =< db.optSeq
            /\ UNCHANGED <<db, mem, bak, col>>
         \/ /\ Running /\ persRing # <<>> /\ bakMax'["opt"] = UsedOptId(Head(persRing))
            /\ Head(persRing).blk \in esBlock /\ UNCHANGED <<main, db, mem, bak, col>>
<1>0. imp \in [phase : {"none", "es", "redis"}, who : {"pers", "boot"},
              todo : SUBSET EsIndex, blks : SUBSET Blocks, txs : SUBSET Blocks,
              opts : SUBSET Row] /\ db.optSeq \in Nat
  BY BackupTypes DEF PipelineInv, TypeOK, PersisterTyped
<1>1. CASE Crash
  BY <1>1 DEF Crash, MemoryCleared, Kind
<1>2. CASE BootstrapDone
  <2>1. /\ imp.who = "boot" /\ imp.phase = "redis" /\ UNCHANGED <<main, db, mem, bak, col>>
        /\ \E m \in MaxIds(imp.opts) : bakMax' = [k \in Kind |-> IF k = "tx" THEN 0 ELSE m]
    BY <1>2 DEF BootstrapDone, collVars
  <2>2. main = "fill" /\ imp.opts \subseteq BakOpts
    BY <2>1 DEF PipelineInv, ImportOwned, BackupInv, BootFromBackup
  <2>3. PICK m \in MaxIds(imp.opts) : bakMax'["opt"] = m
    BY <2>1 DEF Kind
  <2>4. m =< db.optSeq
    BY <1>0, <2>2 DEF MaxIds, BackupInv, RowsCommitted
  <2> QED BY <2>1, <2>2, <2>3, <2>4
<1>3. CASE PersistDone
  <2>1. /\ imp.who = "pers" /\ imp.phase = "redis" /\ UNCHANGED <<main, db, mem, bak, col>>
        /\ persRing # <<>> /\ bakMax'["opt"] = UsedOptId(Head(persRing))
    BY <1>3 DEF PersistDone, collVars, Kind
  <2>2. Running /\ Head(persRing).blk \in imp.blks /\ imp.blks \subseteq esBlock
    BY <2>1 DEF PipelineInv, ImportOwned
  <2> QED BY <2>1, <2>2
<1>4. CASE UNCHANGED bakMax
  BY <1>4
<1>5. CASE \/ BootstrapHandle \/ PersistStage \/ PersistFlush
           \/ (\E i \in EsIndex : EsSave(i)) \/ RedisImport
           \/ (\E i \in RedisKey : RedisSave(i)) \/ (\E i \in RedisKey : RedisSaveFail(i))
  BY <1>4, <1>5 DEF BootstrapHandle, PersistStage, PersistFlush, EsSave, RedisImport, RedisSave,
     RedisSaveFail
<1> QED BY <1>1, <1>2, <1>3, <1>4, <1>5, PersisterMovers

LEMMA MarksBehindStep ==
  ASSUME PipelineInv, PipelineInv', BackupInv, [Next]_vars
  PROVE  MarksBehind'
<1>0. /\ TypeOK /\ db.optSeq \in Nat /\ mem.optSeq \in Nat /\ bakMax["opt"] \in Nat
      /\ mem'.optSeq \in Nat /\ bakMax'["opt"] \in Nat
  <2>1. mem'.optSeq \in Nat /\ bakMax'["opt"] \in Nat
    BY DEF PipelineInv, TypeOK, CollectorTyped, PersisterTyped, Kind
  <2> QED BY <2>1, BackupTypes DEF PipelineInv
<1>1. CASE Start
  <2>1. main = "down" /\ main' # "down" /\ mem'.optSeq = db.optSeq /\ db' = db /\ bakMax' = bakMax
    BY <1>1 DEF Start, store, persVars, LoadedStat
  <2> QED BY <1>0, <2>1 DEF BackupInv, MarksBehind
<1>2. CASE Crash
  BY <1>2 DEF Crash, MemoryCleared, MarksBehind, Kind
<1>3. CASE ~Start /\ ~Crash
  <2>1. main' = "down" <=> main = "down"
    BY <1>3, LifeMovers
  <2>2. mem.optSeq =< mem'.optSeq
    BY <1>0, <1>3, SequenceGrows
  <2>3. CASE main = "down"
    <3>1. ~Running /\ main # "fill"
      BY <2>3 DEF Running
    <3>2. bakMax'["opt"] = bakMax["opt"]
      BY <1>3, <3>1, MarkMoves
    <3> QED BY <2>1, <2>3, <3>2 DEF BackupInv, MarksBehind
  <2>4. CASE main # "down"
    <3>1. db.optSeq =< mem.optSeq /\ bakMax["opt"] =< mem.optSeq
      BY <2>4 DEF BackupInv, MarksBehind
    <3>2. db'.optSeq =< mem'.optSeq
      <4>1. CASE CollectCommit
        <5>1. mem' = mem /\ (db' = db \/ db'.optSeq = mem.optSeq)
          BY <4>1, CommitOpts
        <5> QED BY <1>0, <3>1, <5>1
      <4>2. CASE db' = db
        BY <1>0, <2>2, <3>1, <4>2
      <4> QED BY <4>1, <4>2, LifeMovers
    <3>3. bakMax'["opt"] =< mem'.optSeq
      <4>1. CASE bakMax'["opt"] = bakMax["opt"]
        BY <1>0, <2>2, <3>1, <4>1
      <4>2. CASE bakMax'["opt"] =< db.optSeq
        BY <1>0, <2>2, <3>1, <4>2
      <4>3. CASE persRing # <<>> /\ bakMax'["opt"] = UsedOptId(Head(persRing))
        <5>1. PICK e \in Pending : e = Head(persRing)
          BY <1>0, <4>3, HeadPending
        <5>2. e.optHi =< mem.optSeq /\ e.optLo \in Nat /\ e.optHi \in Nat
          BY BackupTypes DEF BackupInv, EventsInOrder
        <5>3. bakMax'["opt"] = IF e.optLo > e.optHi THEN 0 ELSE e.optLo
          BY <4>3, <5>1 DEF UsedOptId
        <5> QED BY <1>0, <2>2, <5>2, <5>3
      <4> QED BY <1>3, <4>1, <4>2, <4>3, MarkMoves
    <3> QED BY <2>1, <2>4, <3>2, <3>3 DEF MarksBehind
  <2> QED BY <2>3, <2>4
<1> QED BY <1>1, <1>2, <1>3

LEMMA EventsInOrderStep ==
  ASSUME PipelineInv, PipelineInv', BackupInv, [Next]_vars
  PROVE  EventsInOrder'
<1> SUFFICES ASSUME NEW e \in Pending'
             PROVE  /\ e.optHi =< mem'.optSeq
                    /\ HasOpts(e) => \A r \in BakOpts' : r.id =< e.optLo => r.blk =< e.blk
  BY DEF EventsInOrder, HasOpts
<1>0. /\ TypeOK /\ mem.optSeq \in Nat
      /\ e \in Event /\ e.optLo \in Nat /\ e.optHi \in Nat /\ e.blk \in Nat
  <2>1. \A d \in Pending' : d \in Event
    BY DEF PipelineInv, TypeOK, RingsTyped, Pending, EventsOf
  <2>2. e \in Event
    BY <2>1
  <2>3. e.optLo \in Nat /\ e.optHi \in Nat /\ e.blk \in Nat
    BY <2>2, BoundsAssumption DEF Event, Blocks
  <2> QED BY <2>2, <2>3, BackupTypes DEF PipelineInv
<1>1. CASE e \in Pending
  <2>1. /\ e.optHi =< mem.optSeq
        /\ HasOpts(e) => \A r \in BakOpts : r.id =< e.optLo => r.blk =< e.blk
    BY <1>1 DEF BackupInv, EventsInOrder
  <2>2. main # "down"
    <3>1. main = "down" => Pending = {}
      BY EventsNone DEF PipelineInv, PipelineCold, Running, Pending
    <3> QED BY <1>1, <3>1
  <2>3. e.optHi =< mem'.optSeq
    <3>1. ~ Start
      BY <2>2 DEF Start
    <3>2. mem'.optSeq \in Nat /\ mem.optSeq =< mem'.optSeq
      BY <1>0, <3>1, SequenceGrows
    <3> QED BY <1>0, <2>1, <3>2
  <2>4. ASSUME HasOpts(e), NEW r \in BakOpts', r.id =< e.optLo PROVE r.blk =< e.blk
    <3>1. CASE r \in BakOpts
      BY <2>1, <2>4, <3>1
    <3>2. CASE CollectCommit /\ r \notin BakOpts
      <4>1. /\ InProgress /\ r.blk = col.ev.blk /\ r.id \in Nat /\ r.id >= col.ev.optLo
            /\ col.ev \in Event
        BY <3>2, CommitOpts
      <4>2. col.ev.blk \in Nat /\ col.ev.optLo \in Nat
        BY <4>1, BoundsAssumption DEF Event, Blocks
      <4>3. e.blk < col.ev.blk => e.optHi < col.ev.optLo
        BY <1>1, <2>4, <4>1 DEF BackupInv, AttemptAhead
      <4>4. e.optLo =< e.optHi
        BY <2>4 DEF HasOpts
      <4> QED BY <1>0, <2>4, <4>1, <4>2, <4>3, <4>4
    <3>3. CASE UNCHANGED bak
      BY <3>1, <3>3 DEF BakOpts
    <3> QED BY <3>1, <3>2, <3>3, LifeMovers
  <2> QED BY <2>3, <2>4
<1>2. CASE CollectPublish /\ e \notin Pending
  <2>1. PICK b \in Blocks :
          /\ Attempting(b) /\ mem' = [txQty |-> TxQtyAfter(b), optSeq |-> mem.optSeq + OptsOf(b)]
          /\ UNCHANGED <<bak, db>>
    BY <1>2 DEF CollectPublish
  <2>2. b = Head(collRing) /\ collRing # <<>> /\ db.cur < b
    BY <2>1, HeadNext DEF Attempting
  <2>3. e = AttemptEvent(b)
    BY <1>0, <1>2, <2>2, PendingMove
  <2>4. e.optHi = mem'.optSeq /\ e.blk = b
    BY <2>1, <2>3 DEF AttemptEvent
  <2>5. \A r \in BakOpts' : r.blk \in 1..db.cur
    BY <2>1 DEF BakOpts, BackupInv, RowsCommitted
  <2>6. \A r \in BakOpts' : r.blk =< e.blk
    BY <1>0, <2>2, <2>4, <2>5, BackupTypes
  <2> QED BY <1>0, <2>4, <2>6
<1> QED BY <1>0, <1>1, <1>2, PendingMove

\* What the handler has published, numbered above all before.
LEMMA AttemptAheadPublish ==
  ASSUME PipelineInv, BackupInv, [Next]_vars, CollectPublish
  PROVE  AttemptAhead'
<1>1. PICK b \in Blocks :
        /\ Attempting(b) /\ mem' = [txQty |-> TxQtyAfter(b), optSeq |-> mem.optSeq + OptsOf(b)]
        /\ UNCHANGED <<bak, db>> /\ bakMax' = bakMax
        /\ col' = [col EXCEPT !.pc = "published", !.ev = AttemptEvent(b)]
  BY DEF CollectPublish, persVars
<1>2. b = Head(collRing) /\ collRing # <<>>
  BY <1>1 DEF Attempting
<1>3. main # "down" /\ TypeOK
  BY <1>2, HeadNext DEF Running, PipelineInv
<1>4. /\ col'.ev = AttemptEvent(b) /\ mem'.optSeq = mem.optSeq + OptsOf(b)
  BY <1>1, <1>3 DEF TypeOK, CollectorTyped
<1>5. /\ col'.ev.blk = b /\ col'.ev.optLo = mem.optSeq + 1
      /\ col'.ev.optHi = mem.optSeq + OptsOf(b)
  BY <1>4 DEF AttemptEvent
<1>6. /\ listed \in Nat /\ EpochOpts[b] \in Nat /\ TxCount[b] \in Nat /\ b \in Nat
      /\ OptsOf(b) = EpochOpts[b] + (listed + TxCount[b])
  BY <1>3, ContentAssumption, BoundsAssumption DEF TypeOK, CollectorTyped, Blocks, OptsOf, AllTx
<1>7. db.optSeq =< mem.optSeq /\ bakMax["opt"] =< mem.optSeq
  BY <1>3 DEF BackupInv, MarksBehind
<1>8. db.optSeq \in Nat /\ mem.optSeq \in Nat /\ bakMax["opt"] \in Nat
  BY BackupTypes
<1>9. col'.ev.optHi =< mem'.optSeq /\ db'.optSeq < col'.ev.optLo /\ bakMax'["opt"] < col'.ev.optLo
  BY <1>1, <1>4, <1>5, <1>6, <1>7, <1>8
<1>10. ASSUME col'.ev.blk = 0 PROVE ~ (col'.ev.optLo =< col'.ev.optHi)
  <2>1. b = 0 /\ listed = 0
    BY <1>2, <1>5, <1>10 DEF BackupInv, GenesisEmpty
  <2>2. OptsOf(b) = 0
    BY <1>6, <2>1, ContentAssumption
  <2> QED BY <1>5, <1>8, <2>2
<1>11. col'.ev.optHi - col'.ev.optLo + 1 >= EpochOpts[col'.ev.blk] + TxCount[col'.ev.blk]
  BY <1>5, <1>6, <1>8
<1>12. ASSUME NEW e \in Pending', HasOpts(e), e.blk < col'.ev.blk PROVE e.optHi < col'.ev.optLo
  <2>1. CASE e \in Pending
    <3>1. e.optHi =< mem.optSeq /\ e.optHi \in Nat
      BY <2>1, BackupTypes DEF BackupInv, EventsInOrder
    <3> QED BY <1>5, <1>8, <3>1
  <2>2. CASE e = AttemptEvent(b)
    BY <1>5, <1>6, <1>12, <2>2 DEF AttemptEvent
  <2> QED BY <1>2, <1>3, <2>1, <2>2, PendingMove
<1> QED BY <1>9, <1>10, <1>11, <1>12 DEF AttemptAhead, HasOpts

\* The part of AttemptAhead that other threads can disturb.
LEMMA AttemptKept ==
  ASSUME PipelineInv, PipelineInv', BackupInv, [Next]_vars, InProgress, InProgress',
         col'.ev = col.ev, ~CollectPublish
  PROVE  AttemptAhead'
<1>1. /\ TypeOK /\ Running /\ main # "down" /\ main # "fill"
  BY DEF PipelineInv, PipelineCold, InProgress, Running
<1>2. /\ col.ev.optHi =< mem.optSeq /\ db.optSeq < col.ev.optLo
      /\ col.ev.blk = 0 => ~HasOpts(col.ev)
      /\ col.ev.optHi - col.ev.optLo + 1 >= EpochOpts[col.ev.blk] + TxCount[col.ev.blk]
      /\ \A e \in Pending : HasOpts(e) /\ e.blk < col.ev.blk => e.optHi < col.ev.optLo
      /\ bakMax["opt"] < col.ev.optLo \/ col.ev.blk \in esBlock
  BY DEF BackupInv, AttemptAhead
<1>3. /\ col.ev.optLo \in Nat /\ col.ev.optHi \in Nat /\ col.ev.blk \in Nat
      /\ mem.optSeq \in Nat /\ db.optSeq \in Nat
  BY BackupTypes, BoundsAssumption DEF Event, Blocks
<1>4. ~CollectCommit /\ ~Start /\ ~Crash
  BY <1>1 DEF CollectCommit, Start, Crash, MemoryCleared, InProgress
<1>5. db' = db /\ mem'.optSeq \in Nat /\ mem.optSeq =< mem'.optSeq
  BY <1>1, <1>4, LifeMovers, SequenceGrows
<1>6. \A e \in Pending' : e \in Pending
  BY <1>1, PendingMove
<1>7. bakMax'["opt"] < col.ev.optLo \/ col.ev.blk \in esBlock'
  <2>1. CASE bakMax'["opt"] = bakMax["opt"]
    BY <1>2, <2>1, EsGrows
  <2>2. CASE /\ persRing # <<>> /\ bakMax'["opt"] = UsedOptId(Head(persRing))
             /\ Head(persRing).blk \in esBlock
    <3>1. PICK e \in Pending : e = Head(persRing)
      BY <1>1, <2>2, HeadPending
    <3>2. e.optLo \in Nat /\ e.optHi \in Nat /\ e.blk \in Nat
      BY BackupTypes
    <3>3. e.blk =< col.ev.blk
      <4>1. e.blk \in Downstream
        <5>1. persRing \in Seq(Event)
          BY <1>1 DEF TypeOK, RingsTyped
        <5>2. e.blk \in BlocksOf(persRing)
          BY <2>2, <3>1, <5>1, RingTail
        <5> QED BY <5>2 DEF Downstream
      <4>2. e.blk =< Finished + 1
        BY <1>1, <4>1 DEF PipelineInv, FinishedKept
      <4>3. collRing # <<>> /\ col.ev.blk = Head(collRing)
        BY DEF PipelineInv, WorksOnHead, InProgress
      <4> QED BY <4>2, <4>3, HeadNext
    <3>4. CASE ~HasOpts(e)
      BY <1>2, <1>3, <2>2, <3>1, <3>2, <3>4 DEF HasOpts, UsedOptId
    <3>5. CASE HasOpts(e) /\ e.blk < col.ev.blk
      <4>1. e.optHi < col.ev.optLo /\ e.optLo =< e.optHi
        BY <1>2, <3>5 DEF HasOpts
      <4>2. bakMax'["opt"] = e.optLo
        BY <2>2, <3>1, <3>2, <4>1 DEF UsedOptId
      <4> QED BY <1>3, <3>2, <4>1, <4>2
    <3>6. CASE e.blk = col.ev.blk
      BY <2>2, <3>1, <3>6, EsGrows
    <3> QED BY <1>3, <3>2, <3>3, <3>4, <3>5, <3>6
  <2> QED BY <1>1, <1>4, <2>1, <2>2, MarkMoves
<1>8. col'.ev.optHi =< mem'.optSeq /\ db'.optSeq < col'.ev.optLo
  BY <1>2, <1>3, <1>5
<1>9. \A e \in Pending' : HasOpts(e) /\ e.blk < col'.ev.blk => e.optHi < col'.ev.optLo
  BY <1>2, <1>6
<1>10. col'.ev.blk = 0 => ~ (col'.ev.optLo =< col'.ev.optHi)
  BY <1>2 DEF HasOpts
<1>11. /\ col'.ev.optHi - col'.ev.optLo + 1 >= EpochOpts[col'.ev.blk] + TxCount[col'.ev.blk]
       /\ bakMax'["opt"] < col'.ev.optLo \/ col'.ev.blk \in esBlock'
  BY <1>2, <1>7
<1> QED BY <1>8, <1>9, <1>10, <1>11 DEF AttemptAhead, HasOpts

\* What each step does to the collection thread.
LEMMA ThreadMoves ==
  ASSUME TypeOK, [Next]_vars
  PROVE  \/ CollectPublish
         \/ ~InProgress'
         \/ CollectWrite /\ col'.ev = col.ev /\ InProgress
         \/ col' = col
<1>1. CASE CollectWrite
  BY <1>1 DEF CollectWrite, TypeOK, CollectorTyped, InProgress
<1>2. CASE Crash \/ CollectCommit \/ CollectFailWrite \/ CollectFailCommit
  BY <1>2 DEF Crash, MemoryCleared, CollectCommit, CollectFailWrite, CollectFailCommit, InProgress
<1>3. CASE \/ Start \/ CollectFailParse \/ CollectFailAnalyse \/ CollectFailStatistic
           \/ PersistStage \/ PersistFlush
           \/ UNCHANGED <<mem, txId, txTop, preBlock, listed, nulled, col, delCount>>
  BY <1>3 DEF Start, CollectFailParse, CollectFailAnalyse, CollectFailStatistic, PersistStage,
     PersistFlush
<1> QED BY <1>1, <1>2, <1>3, CollectorMovers

LEMMA AttemptAheadStep ==
  ASSUME PipelineInv, PipelineInv', BackupInv, [Next]_vars
  PROVE  AttemptAhead'
<1>1. CASE CollectPublish
  BY <1>1, AttemptAheadPublish
<1>2. CASE ~InProgress'
  BY <1>2 DEF AttemptAhead
<1>3. CASE ~CollectPublish /\ InProgress /\ InProgress' /\ col'.ev = col.ev
  BY <1>3, AttemptKept
<1>4. CASE ~CollectPublish /\ InProgress' /\ col' = col
  <2>1. InProgress
    BY <1>4 DEF InProgress
  <2> QED BY <1>3, <1>4, <2>1
<1> QED BY <1>1, <1>2, <1>3, <1>4, ThreadMoves DEF PipelineInv

\* The main loop is entered when everything committed is searchable.
LEMMA LoopBegins ==
  ASSUME PipelineInv, PipelineInv', [Next]_vars, ~Running, Running'
  PROVE  1..db'.cur \subseteq esBlock'
<1>1. ConsistencyCheck \/ BootstrapFinish
  <2>1. CASE main' = main
    BY <2>1 DEF Running
  <2>2. CASE \/ ChainGrow \/ Start \/ BootstrapPublish \/ MainLoopBreak \/ BootstrapDone
             \/ Collect \/ Crash \/ CollectionFails \/ PersistStage \/ PersistDone
             \/ (\E i \in RedisKey : RedisSaveFail(i)) \/ BatchSizeAdjust
             \/ UNCHANGED <<env, main, collected, boot, batchSize, maxBlockNumber>>
    BY <2>1, <2>2 DEF Running, ChainGrow, Start, BootstrapPublish, MainLoopBreak, BootstrapDone,
       Collect, Crash, CollectionFails, CollectFailParse, CollectFailAnalyse,
       CollectFailStatistic, CollectFailWrite, CollectFailCommit, PersistStage, PersistDone,
       RedisSaveFail, BatchSizeAdjust
  <2> QED BY <2>2, ThreadMovers
<1>2. UNCHANGED <<compRing, persRing, stage>>
  BY <1>1 DEF ConsistencyCheck, BootstrapFinish, memory, persVars
<1>3. compRing = <<>> /\ persRing = <<>> /\ stage = EmptyStage
  BY DEF PipelineInv, PipelineCold
<1>4. Downstream' = {}
  BY <1>2, <1>3 DEF Downstream, BlocksOf, EmptyStage
<1>5. 1..Finished' \subseteq esBlock'
  BY <1>4 DEF PipelineInv, FinishedKept
<1>6. db'.cur = IF Finished' =< 0 THEN -1 ELSE Finished'
  BY DEF PipelineInv, RingsConsecutive
<1> QED BY <1>5, <1>6

LEMMA RunningMark ==
  ASSUME PipelineInv, PipelineInv', BackupInv, [Next]_vars, Running'
  PROVE  UsedUpTo(bakMax["opt"])'
<1> SUFFICES ASSUME NEW r \in BakOpts', r.id =< bakMax'["opt"] PROVE r.blk \in esBlock'
  BY DEF UsedUpTo
<1>0. TypeOK /\ esBlock \subseteq esBlock'
  BY EsGrows DEF PipelineInv
<1>1. CASE ~Running
  <2>1. 1..db'.cur \subseteq esBlock'
    BY <1>1, LoopBegins
  <2>2. r.blk \in 1..db'.cur
    BY RowsCommittedStep DEF RowsCommitted
  <2> QED BY <2>1, <2>2
<1>2. CASE Running /\ CollectCommit
  <2>1. /\ InProgress /\ col.ev \in Event
        /\ r \in BakOpts \/ (r.blk = col.ev.blk /\ r.id \in Nat /\ r.id >= col.ev.optLo)
    BY <1>2, CommitOpts
  <2>2. bakMax' = bakMax
    BY <1>2 DEF CollectCommit, persVars
  <2>3. CASE r \in BakOpts
    BY <1>0, <1>2, <2>2, <2>3 DEF BackupInv, DeletesUsed, UsedUpTo
  <2>4. CASE r.blk = col.ev.blk /\ r.id \in Nat /\ r.id >= col.ev.optLo
    <3>1. bakMax["opt"] < col.ev.optLo \/ col.ev.blk \in esBlock
      BY <2>1 DEF BackupInv, AttemptAhead
    <3>2. col.ev.optLo \in Nat /\ bakMax["opt"] \in Nat
      BY <2>1, BackupTypes DEF Event
    <3>3. ~ (bakMax["opt"] < col.ev.optLo)
      BY <2>2, <2>4, <3>2
    <3> QED BY <1>0, <2>4, <3>1, <3>3
  <2> QED BY <2>1, <2>3, <2>4
<1>3. CASE Running /\ UNCHANGED bak
  <2>0. r \in BakOpts /\ r.id \in Nat /\ r.id > 0 /\ r.blk \in 1..db.cur
    <3>1. r \in BakOpts
      BY <1>3 DEF BakOpts
    <3> QED BY <3>1, BackupTypes DEF BackupInv, RowsCommitted
  <2>1. CASE bakMax'["opt"] = bakMax["opt"]
    BY <1>0, <1>3, <2>0, <2>1 DEF BackupInv, DeletesUsed, UsedUpTo
  <2>2. CASE Crash
    BY <2>2 DEF Crash, Running
  <2>3. CASE main = "fill"
    BY <1>3, <2>3 DEF Running
  <2>4. CASE /\ persRing # <<>> /\ bakMax'["opt"] = UsedOptId(Head(persRing))
             /\ Head(persRing).blk \in esBlock
    <3>1. PICK e \in Pending : e = Head(persRing)
      BY <1>0, <2>4, HeadPending
    <3>2. e.optLo \in Nat /\ e.optHi \in Nat /\ e.blk \in Nat
      BY BackupTypes
    <3>3. HasOpts(e) /\ bakMax'["opt"] = e.optLo
      BY <2>0, <2>4, <3>1, <3>2 DEF HasOpts, UsedOptId
    <3>4. r.blk =< e.blk
      BY <2>0, <3>3 DEF BackupInv, EventsInOrder
    <3>5. 1..e.blk \subseteq esBlock
      BY <2>4, <3>1, InvPrefixClosed DEF EsPrefixClosed
    <3>6. r.blk \in 1..e.blk
      BY <2>0, <3>2, <3>4, BackupTypes
    <3> QED BY <1>0, <3>5, <3>6
  <2> QED BY <2>1, <2>2, <2>3, <2>4, MarkMoves
<1> QED BY <1>1, <1>2, <1>3, LifeMovers

LEMMA DeletesUsedStep ==
  ASSUME PipelineInv, PipelineInv', BackupInv, [Next]_vars
  PROVE  DeletesUsed'
<1>0. TypeOK /\ esBlock \subseteq esBlock'
  BY EsGrows DEF PipelineInv
<1>1. Running' => UsedUpTo(bakMax["opt"])'
  BY RunningMark
<1>2. ASSUME col'.pc = "written" PROVE UsedUpTo(col.del["opt"])'
  <2> SUFFICES ASSUME NEW r \in BakOpts', r.id =< col'.del["opt"] PROVE r.blk \in esBlock'
    BY DEF UsedUpTo
  <2>1. CASE CollectWrite
    <3>1. /\ col.pc = "published" /\ UNCHANGED bak
          /\ col'.del["opt"] = bakMax["opt"] \/ col'.del["opt"] = 0
      BY <1>0, <2>1 DEF CollectWrite, TypeOK, CollectorTyped, Kind
    <3>2. r \in BakOpts /\ Running
      BY <3>1 DEF BakOpts, PipelineInv, PipelineCold
    <3>3. r.id \in Nat /\ r.id > 0
      BY <3>2, BackupTypes DEF BackupInv, RowsCommitted
    <3>4. r.id =< bakMax["opt"]
      BY <3>1, <3>3
    <3> QED BY <1>0, <3>2, <3>4 DEF BackupInv, DeletesUsed, UsedUpTo
  <2>2. CASE col' = col
    <3>1. ~ CollectCommit
      BY <1>2, <2>2 DEF CollectCommit
    <3>2. r \in BakOpts
      BY <3>1, LifeMovers DEF BakOpts
    <3> QED BY <1>0, <1>2, <2>2, <3>2 DEF BackupInv, DeletesUsed, UsedUpTo
  <2>3. ~ CollectPublish
    BY <1>0, <1>2 DEF CollectPublish, TypeOK, CollectorTyped
  <2> QED BY <1>0, <1>2, <2>1, <2>2, <2>3, ThreadMoves DEF InProgress
<1> QED BY <1>1, <1>2 DEF DeletesUsed

LEMMA GenesisEmptyStep ==
  ASSUME PipelineInv, PipelineInv', BackupInv, [Next]_vars
  PROVE  GenesisEmpty'
<1>0. TypeOK /\ collRing \in Seq(Blocks) /\ listed \in Nat /\ (listed # 0 => collRing # <<>> /\ Head(collRing) # 0)
  BY Sizes DEF PipelineInv, TypeOK, CollectorTyped, BackupInv, GenesisEmpty
<1>1. ASSUME NEW b \in Blocks, Attempting(b), UNCHANGED collRing,
             \E j \in 0..TxCount[b] : listed' = listed + j
      PROVE  GenesisEmpty'
  <2>1. collRing # <<>> /\ b = Head(collRing)
    BY <1>1 DEF Attempting
  <2>2. CASE b = 0
    <3>1. listed = 0 /\ TxCount[b] = 0
      BY <1>0, <2>1, <2>2, ContentAssumption
    <3>2. listed' = 0
      BY <1>1, <3>1
    <3> QED BY <3>2 DEF GenesisEmpty
  <2>3. CASE b # 0
    BY <1>1, <2>1, <2>3 DEF GenesisEmpty
  <2> QED BY <2>2, <2>3
<1>2. CASE CollectPublish \/ CollectFailAnalyse \/ CollectFailStatistic
  <2>1. PICK b \in Blocks : Attempting(b) /\ Numbered(b)
    BY <1>2 DEF CollectPublish, CollectFailAnalyse, CollectFailStatistic
  <2>2. UNCHANGED collRing
    BY <1>2 DEF CollectPublish, CollectFailAnalyse, CollectFailStatistic
  <2>3. listed' = listed + TxCount[b] /\ TxCount[b] \in 0..TxCount[b]
    BY <2>1, ContentAssumption DEF Numbered, AllTx
  <2> QED BY <1>1, <2>1, <2>2, <2>3
<1>3. CASE CollectFailParse
  <2>1. PICK b \in Blocks : Attempting(b) /\ \E j \in 0..TxCount[b] : listed' = listed + j
    BY <1>3 DEF CollectFailParse
  <2>2. UNCHANGED collRing
    BY <1>3 DEF CollectFailParse
  <2> QED BY <1>1, <2>1, <2>2
<1>4. CASE CollectCommit \/ Crash
  BY <1>4 DEF CollectCommit, Crash, MemoryCleared, GenesisEmpty
<1>5. CASE BlockHandle
  <2>1. collRing' = Append(collRing, Head(blockRing)) /\ UNCHANGED listed
    BY <1>5 DEF BlockHandle
  <2>2. collRing # <<>> => collRing' # <<>> /\ Head(collRing') = Head(collRing)
    BY <1>0, <2>1
  <2> QED BY <1>0, <2>1, <2>2 DEF GenesisEmpty
<1>6. CASE UNCHANGED <<collRing, listed>>
  BY <1>0, <1>6 DEF GenesisEmpty
<1>7. listed' = listed \/ CollectPublish \/ CollectCommit \/ CollectFailParse
      \/ CollectFailAnalyse \/ CollectFailStatistic \/ Crash
  BY CollectorMovers DEF Start, CollectWrite, CollectFailWrite, CollectFailCommit, PersistStage,
     PersistFlush
<1>8. collRing' = collRing \/ Crash \/ BlockHandle \/ CollectCommit
  BY RingMovers DEF BootstrapPublish, BootstrapDone, Collect, CollectPublish, ComplementHandle,
     PersistStage, PersistDone, collVars
<1> QED BY <1>2, <1>3, <1>4, <1>5, <1>6, <1>7, <1>8

LEMMA BootFromBackupStep ==
  ASSUME PipelineInv, PipelineInv', BackupInv, [Next]_vars
  PROVE  BootFromBackup'
<1> SUFFICES ASSUME imp'.phase # "none", imp'.who = "boot" PROVE imp'.opts \subseteq BakOpts'
  BY DEF BootFromBackup
<1>0. imp \in [phase : {"none", "es", "redis"}, who : {"pers", "boot"},
              todo : SUBSET EsIndex, blks : SUBSET Blocks, txs : SUBSET Blocks,
              opts : SUBSET Row]
  BY DEF PipelineInv, TypeOK, PersisterTyped
<1>1. main' = "fill"
  BY DEF PipelineInv, ImportOwned
<1>2. UNCHANGED bak
  <2>1. ~ CollectCommit
    <3>1. CollectCommit => Running /\ main' = main
      BY CommitOpts
    <3> QED BY <1>1, <3>1 DEF Running
  <2> QED BY <2>1, LifeMovers
<1>3. CASE BootstrapHandle
  BY <1>2, <1>3 DEF BootstrapHandle, BakOpts
<1>4. CASE UNCHANGED imp
  BY <1>2, <1>4 DEF BackupInv, BootFromBackup, BakOpts
<1>5. CASE \/ \E i \in EsIndex : EsSave(i)
           \/ RedisImport
           \/ \E i \in RedisKey : RedisSave(i)
           \/ \E i \in RedisKey : RedisSaveFail(i)
  <2>1. imp'.opts = imp.opts /\ imp'.who = imp.who /\ imp.phase # "none"
    BY <1>0, <1>5 DEF EsSave, RedisImport, RedisSave, RedisSaveFail
  <2> QED BY <1>2, <2>1 DEF BackupInv, BootFromBackup, BakOpts
<1>6. CASE Crash \/ BootstrapDone \/ PersistDone \/ PersistFlush
  BY <1>6 DEF Crash, MemoryCleared, BootstrapDone, PersistDone, PersistFlush, NoImport
<1>7. CASE PersistStage
  BY <1>4, <1>7 DEF PersistStage
<1> QED BY <1>3, <1>4, <1>5, <1>6, <1>7, PersisterMovers

LEMMA MissingBackedUpStep ==
  ASSUME PipelineInv, PipelineInv', BackupInv, [Next]_vars, IsFiniteSet(AllOpts')
  PROVE  MissingBackedUp'
<1> SUFFICES ASSUME NEW b \in 1..db'.cur, b \notin esBlock'
             PROVE  Cardinality({r \in BakOpts' : r.blk = b}) >= EpochOpts[b] + TxCount[b]
  BY DEF MissingBackedUp, OptsBackedUp
<1>0. esBlock \subseteq esBlock' /\ b \notin esBlock
  BY EsGrows
<1>1. CASE UNCHANGED <<db, bak>>
  BY <1>0, <1>1 DEF BackupInv, MissingBackedUp, OptsBackedUp, BakOpts
<1>2. CASE CollectCommit
  <2> DEFINE T == {r \in BakOpts' : r.blk = b}
  <2>1. IsFiniteSet(T)
    <3>1. T \in SUBSET AllOpts'
      BY DEF AllOpts, BakOpts
    <3> QED BY <3>1, FS_Subset
  <2>2. /\ col.ev \in Event /\ InProgress
        /\ \A r \in BakOpts : r \in BakOpts' \/ r.id =< col.del["opt"]
        /\ OptRows(col.ev) \subseteq BakOpts'
        /\ db.cur < col.ev.blk \/ col.ev.blk = 0
        /\ col.ev.blk = 0 => db' = db
        /\ col.ev.blk # 0 => db'.cur = col.ev.blk
    BY <1>2, CommitOpts
  <2>3. /\ db.cur \in Int /\ col.ev.blk \in Nat /\ col.ev.optLo \in Nat /\ col.ev.optHi \in Nat
        /\ b \in Int /\ b >= 1 /\ b =< db'.cur
    BY BackupTypes, BoundsAssumption DEF Event, Blocks
  <2>4. b \in Blocks /\ EpochOpts[b] \in Nat /\ TxCount[b] \in Nat
    <3>1. db'.cur \in {-1} \cup 1..MaxBlock
      BY DEF PipelineInv, TypeOK, StoresTyped
    <3>2. b \in Blocks
      BY <2>3, <3>1, BoundsAssumption DEF Blocks
    <3> QED BY <3>2, ContentAssumption
  <2>5. CASE b \in 1..db.cur
    <3>1. Cardinality(OptsBackedUp(b)) >= EpochOpts[b] + TxCount[b]
      BY <1>0, <2>5 DEF BackupInv, MissingBackedUp
    <3>2. col.pc = "written"
      BY <1>2 DEF CollectCommit
    <3>3. \A r \in OptsBackedUp(b) : r \in T
      <4> SUFFICES ASSUME NEW r \in BakOpts, r.blk = b PROVE r \in BakOpts'
        BY DEF OptsBackedUp
      <4>1. ~ (r.id =< col.del["opt"])
        BY <1>0, <3>2 DEF BackupInv, DeletesUsed, UsedUpTo
      <4> QED BY <2>2, <4>1
    <3>4. OptsBackedUp(b) \in SUBSET T
      BY <3>3
    <3> HIDE DEF T
    <3>5. /\ Cardinality(OptsBackedUp(b)) =< Cardinality(T) /\ Cardinality(T) \in Nat
          /\ Cardinality(OptsBackedUp(b)) \in Nat
      BY <2>1, <3>4, FS_Subset, FS_CardinalityType
    <3>6. Cardinality(T) >= EpochOpts[b] + TxCount[b]
      BY <2>4, <3>1, <3>5
    <3> QED BY <3>6 DEF T
  <2>6. CASE b \notin 1..db.cur
    <3>1. b = col.ev.blk
      <4>1. CASE col.ev.blk = 0
        BY <2>2, <2>3, <2>6, <4>1
      <4>2. CASE col.ev.blk # 0
        <5>1. db'.cur = col.ev.blk
          BY <2>2, <4>2
        <5>2. collRing # <<>> /\ col.ev.blk = Head(collRing)
          BY <1>2, <2>2 DEF CollectCommit, PipelineInv, WorksOnHead, InProgress
        <5>3. db.cur = IF col.ev.blk =< 1 THEN -1 ELSE col.ev.blk - 1
          BY <5>2, HeadNext
        <5> QED BY <2>3, <2>6, <5>1, <5>3
      <4> QED BY <4>1, <4>2
    <3>2. /\ col.ev.optHi - col.ev.optLo + 1 >= EpochOpts[b] + TxCount[b]
      BY <2>2, <3>1 DEF BackupInv, AttemptAhead
    <3>3. CASE HasOpts(col.ev)
      <4>1. Cardinality(OptRows(col.ev)) = col.ev.optHi - col.ev.optLo + 1
        BY <2>2, <3>3, OptRowsCount
      <4>2. OptRows(col.ev) \in SUBSET T
        <5>1. \A r \in OptRows(col.ev) : r.blk = b
          BY <3>1 DEF OptRows, RowsOf
        <5> QED BY <2>2, <5>1
      <4> HIDE DEF T
      <4>3. /\ Cardinality(OptRows(col.ev)) =< Cardinality(T) /\ Cardinality(T) \in Nat
        BY <2>1, <4>2, FS_Subset, FS_CardinalityType
      <4>4. Cardinality(T) >= EpochOpts[b] + TxCount[b]
        BY <2>3, <2>4, <3>2, <4>1, <4>3
      <4> QED BY <4>4 DEF T
    <3>4. CASE ~HasOpts(col.ev)
      <4>1. EpochOpts[b] + TxCount[b] =< 0
        BY <2>3, <2>4, <3>2, <3>4 DEF HasOpts
      <4> HIDE DEF T
      <4>2. Cardinality(T) \in Nat
        BY <2>1, FS_CardinalityType
      <4>3. Cardinality(T) >= EpochOpts[b] + TxCount[b]
        BY <2>4, <4>1, <4>2
      <4> QED BY <4>3 DEF T
    <3> QED BY <3>3, <3>4
  <2> QED BY <2>5, <2>6
<1> QED BY <1>1, <1>2, LifeMovers

LEMMA BackupStep ==
  ASSUME PipelineInv, PipelineInv', BackupInv, [Next]_vars
  PROVE  BackupInv'
<1>1. IsFiniteSet(AllOpts')
  BY FiniteStep DEF BackupInv
<1>2. RowsCommitted' /\ MarksBehind' /\ EventsInOrder'
  BY RowsCommittedStep, MarksBehindStep, EventsInOrderStep
<1>3. AttemptAhead' /\ DeletesUsed' /\ GenesisEmpty'
  BY AttemptAheadStep, DeletesUsedStep, GenesisEmptyStep
<1>4. BootFromBackup' /\ MissingBackedUp'
  BY <1>1, BootFromBackupStep, MissingBackedUpStep
<1> QED BY <1>1, <1>2, <1>3, <1>4 DEF BackupInv

\* The operations of a committed block that is not searchable yet can be
\* replayed at the next start, whatever is retried, cleaned up or lost.
THEOREM ReplayIsPossible == Spec => []UnindexedOptsBackedUp
<1>1. PipelineInv /\ PipelineInv' /\ BackupInv /\ [Next]_vars => BackupInv'
  BY BackupStep
<1>2. PipelineInv /\ BackupInv => UnindexedOptsBackedUp
  <2> SUFFICES ASSUME PipelineInv, BackupInv, NEW b \in 1..db.cur, b \notin esBlock
               PROVE  Cardinality(OptsRecorded(b)) >= EpochOpts[b] + TxCount[b]
    BY DEF UnindexedOptsBackedUp
  <2>1. OptsRecorded(b) \in SUBSET AllOpts
    BY DEF OptsRecorded, AllOpts
  <2>2. OptsBackedUp(b) \in SUBSET OptsRecorded(b)
    BY DEF OptsBackedUp, OptsRecorded, BakOpts
  <2>3. IsFiniteSet(OptsRecorded(b))
    BY <2>1, FS_Subset DEF BackupInv
  <2>4. /\ Cardinality(OptsBackedUp(b)) =< Cardinality(OptsRecorded(b))
        /\ Cardinality(OptsRecorded(b)) \in Nat /\ Cardinality(OptsBackedUp(b)) \in Nat
    BY <2>2, <2>3, FS_Subset, FS_CardinalityType
  <2>5. Cardinality(OptsBackedUp(b)) >= EpochOpts[b] + TxCount[b]
    BY DEF BackupInv, MissingBackedUp
  <2>6. EpochOpts[b] \in Nat /\ TxCount[b] \in Nat
    <3>1. db.cur \in {-1} \cup 1..MaxBlock
      BY DEF PipelineInv, TypeOK, StoresTyped
    <3>2. b \in Blocks
      BY <3>1, BoundsAssumption DEF Blocks
    <3> QED BY <3>2, ContentAssumption
  <2> QED BY <2>4, <2>5, <2>6
<1> QED BY <1>1, <1>2, BackupInit, PipelineInvariant, PTL DEF Spec
=============================================================================
