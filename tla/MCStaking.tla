------------------------------ MODULE MCStaking ------------------------------
(* TLC's instance of Staking: stakes that survive a penalty and that do not. *)
EXTENDS Staking

MCStakes == {4, 8}
=============================================================================
