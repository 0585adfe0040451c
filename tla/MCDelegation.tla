---------------------------- MODULE MCDelegation -----------------------------
(* TLC's instance of Delegation.                                             *)
EXTENDS Delegation

CONSTANTS a1, a2
MCAddrs == {a1, a2}
=============================================================================
