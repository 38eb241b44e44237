---------------------------- MODULE MCFleetJobs ----------------------------
(* Two tenants, one to be turned round and one to be entered, and one permit. *)
EXTENDS FleetJobs

CONSTANTS t1, t2

Lots  == [t \in Tenant |-> IF t = t1 THEN 1 ELSE -1]
First == [t \in Tenant |-> IF t = t1 THEN -1 ELSE 0]
=============================================================================
