-------------------------- MODULE MCStrategyRunner --------------------------
(***************************************************************************)
(* Instances of StrategyRunner for TLC: the events and fates a run allows. *)
(***************************************************************************)
EXTENDS StrategyRunner
=============================================================================
