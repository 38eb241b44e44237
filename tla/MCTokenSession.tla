-------------------------- MODULE MCTokenSession --------------------------
(* Instances of TokenSession for TLC. *)
EXTENDS TokenSession

MCKinds == {Interactive, MarketData}
=============================================================================
