---------------------------- MODULE MCEpochSwitch ----------------------------
(* TLC's instance of EpochSwitch: every settlement epoch begins a new year.  *)
EXTENDS EpochSwitch

MCYearOf == [s \in 1..(MaxBlock \div SettlePeriod + 1) |-> s]
=============================================================================
