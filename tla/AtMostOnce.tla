------------------------------ MODULE AtMostOnce ------------------------------
(***************************************************************************)
(* What an idempotent dispatcher promises, without saying how: a command   *)
(* with dispatch key k is executed at most once for every permit granted   *)
(* for k.  A dispatcher whose reservation store never loses anything       *)
(* grants one permit per key, so it executes each key at most once.        *)
(* RealExecution implements this specification.                            *)
(***************************************************************************)
EXTENDS Naturals

CONSTANT Keys

VARIABLES permits,     \* permits[k]: how often k may be executed
          dispatched   \* dispatched[k]: how often k was executed

vars == <<permits, dispatched>>

Init == /\ permits = [k \in Keys |-> 0]
        /\ dispatched = [k \in Keys |-> 0]

Grant(k) == /\ permits' = [permits EXCEPT ![k] = @ + 1]
            /\ UNCHANGED dispatched

Dispatch(k) == /\ dispatched[k] < permits[k]
               /\ dispatched' = [dispatched EXCEPT ![k] = @ + 1]
               /\ UNCHANGED permits

Next == \E k \in Keys : Grant(k) \/ Dispatch(k)

Spec == Init /\ [][Next]_vars
===============================================================================
