---------------------------- MODULE MCGasEstimate ----------------------------
(* TLC's instance of GasEstimate: two delegators.                             *)
EXTENDS GasEstimate

CONSTANTS a1, a2
MCAddrs == {a1, a2}
=============================================================================
