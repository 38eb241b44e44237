---------------------------- MODULE SignalLedger ----------------------------
(***************************************************************************)
(* What the execution gateway of one tenant promises for every trading     *)
(* signal it takes on, whatever threads, retries, crashes and restarts     *)
(* happen in between:                                                      *)
(*   - a signal is taken, stays open, and is closed once, for good;        *)
(*   - an order for a slice of it is only sent while the signal is open,   *)
(*     and only after the broker booked every earlier slice;               *)
(*   - the broker never books two orders for one slice;                    *)
(*   - a signal is closed as "done" only if the broker booked its order.   *)
(* SignalPipeline implements this specification.                           *)
(***************************************************************************)
EXTENDS Naturals

CONSTANTS Signal,      \* the signals that can reach the gateway
          Slice        \* the numbers of the freeze-limit slices of a signal

VARIABLES life,        \* where each signal is in its life
          issued,      \* the slices for which an order request was sent
          orders       \* the number of orders the broker booked per slice

Life == {"new", "open", "done", "closed"}

Init ==
    /\ life = [s \in Signal |-> "new"]
    /\ issued = [s \in Signal |-> {}]
    /\ orders = [s \in Signal |-> [k \in Slice |-> 0]]

\* The gateway takes responsibility for signal s.
Take(s) ==
    /\ life[s] = "new"
    /\ life' = [life EXCEPT ![s] = "open"]
    /\ UNCHANGED <<issued, orders>>

\* The first request for slice k of s leaves the gateway.
Issue(s, k) ==
    /\ life[s] = "open"
    /\ \A j \in Slice : j < k => orders[s][j] = 1
    /\ issued' = [issued EXCEPT ![s] = @ \cup {k}]
    /\ UNCHANGED <<life, orders>>

\* The broker books the one order of slice k, perhaps after s was closed:
\* a request that timed out may still arrive.
Book(s, k) ==
    /\ k \in issued[s]
    /\ orders[s][k] = 0
    /\ orders' = [orders EXCEPT ![s][k] = 1]
    /\ UNCHANGED <<life, issued>>

\* The gateway gives its verdict on s.
Close(s) ==
    /\ life[s] = "open"
    /\ \E v \in {"done", "closed"} :
          /\ v = "done" => orders[s][1] = 1
          /\ life' = [life EXCEPT ![s] = v]
    /\ UNCHANGED <<issued, orders>>

\* The record of a signal that is done is deleted after a week, or overwritten
\* because the notification about it failed.
Forget(s) ==
    /\ life[s] = "done"
    /\ life' = [life EXCEPT ![s] = "closed"]
    /\ UNCHANGED <<issued, orders>>

Next ==
    \E s \in Signal :
        \/ Take(s)
        \/ \E k \in Slice : Issue(s, k) \/ Book(s, k)
        \/ Close(s)
        \/ Forget(s)

vars == <<life, issued, orders>>

Spec == Init /\ [][Next]_vars
=============================================================================
