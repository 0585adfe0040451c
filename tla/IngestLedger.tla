---------------------------- MODULE IngestLedger ----------------------------
(***************************************************************************)
(* What the synchronisation agent promises to a reader of its stores: MySQL *)
(* advances one block at a time, and the blocks found by a search are a     *)
(* gap-free prefix of the chain that only grows and is never more than the  *)
(* block in progress ahead of MySQL.                                        *)
(***************************************************************************)
EXTENDS Integers

VARIABLES
  committed,   \* height MySQL holds; -1 before the first block
  searchable   \* blocks the search index holds

ledger == <<committed, searchable>>

\* The genesis block is not recorded, so that 1 follows -1.
Following == IF committed < 0 THEN 1 ELSE committed + 1

PrefixClosed(s) == \A b \in s : 1..b \subseteq s

Init == committed = -1 /\ searchable = {}

Commit == committed' = Following /\ UNCHANGED searchable

\* A batch becomes searchable, or a part of it that was missing.
Index ==
  /\ searchable \subseteq searchable'
  /\ searchable' \subseteq 0..Following
  /\ PrefixClosed(searchable')
  /\ UNCHANGED committed

Next == Commit \/ Index

Spec == Init /\ [][Next]_ledger
=============================================================================
