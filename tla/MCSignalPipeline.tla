-------------------------- MODULE MCSignalPipeline --------------------------
(***************************************************************************)
(* Instances of SignalPipeline for TLC: w1 and w2 come through the webhook *)
(* and may have the same content (a re-transmission, or the same alert     *)
(* firing again); e1 is staged by a strategy engine in PAPER mode. All of  *)
(* them trade gold, so that they compete for its lock.                     *)
(***************************************************************************)
EXTENDS SignalPipeline

CONSTANTS w1, w2, e1, gold

MCSymbolOf   == [s \in Signal |-> gold]
MCSameHash   == [s \in Signal |-> gold]
MCOwnHash    == [s \in Signal |-> s]
MCOwnRef     == [s \in Signal |-> s]
MCSharedRef  == [s \in Signal |-> gold]
MCSlicesOf   == [s \in Signal |-> IF s = w1 THEN 2 ELSE 1]
MCOneSlice   == [s \in Signal |-> 1]
MCFromEngine == Signal \cap {e1}
=============================================================================
