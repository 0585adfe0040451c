--------------------------- MODULE MCSyncPipeline ---------------------------
(* TLC's instance of SyncPipeline: what each block of the chain carries.    *)
EXTENDS SyncPipeline

\* Block 0 is empty, block 1 carries a transaction, block 2 an epoch operation.
MCTxCount == [b \in Blocks |-> IF b \in {1, 3} THEN 1 ELSE 0]
MCEpochOpts == [b \in Blocks |-> IF b = 2 THEN 1 ELSE 0]
=============================================================================
