---------------------------- MODULE MCOrderGate ----------------------------
(* Instances of OrderGate: an order, a panic, a single square-off and the     *)
(* clean-up of a partial fill at one bucket.                                  *)
EXTENDS OrderGate

CONSTANTS p1, q1, c1, n1

MCKind == [t \in Thread |->
    CASE t = p1 -> "place" [] t = q1 -> "panic" [] t = c1 -> "single" [] t = n1 -> "clean"]
MCQuantity == [t \in Thread |-> CASE t = p1 -> 4 [] t = q1 -> 4 [] t = c1 -> 2 [] t = n1 -> 0]
MCOpen == [t \in Thread |-> IF t \in {q1, n1} THEN 1 ELSE 0]
=============================================================================
