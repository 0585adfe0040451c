---------------------------- MODULE MCGovernance ----------------------------
(* TLC's instance of Governance.                                             *)
EXTENDS Governance

CONSTANTS n1, n2
MCNodes == {n1, n2}
=============================================================================
