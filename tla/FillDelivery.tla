---- MODULE FillDelivery ----
(***************************************************************************)
(* What the fill pipeline promises of one order, whatever threads, retries *)
(* and re-registrations deliver its fills: the shares the worker counts    *)
(* follow the shares the broker fills, never run ahead and never go back.  *)
(***************************************************************************)
EXTENDS Naturals

CONSTANT Qty

VARIABLES
    filled,     \* shares the broker has filled
    counted     \* shares the worker has applied

vars == <<filled, counted>>

Init == filled = 0 /\ counted = 0

Fill ==
    /\ filled' \in filled + 1 .. Qty
    /\ UNCHANGED counted

Count ==
    /\ counted' \in counted + 1 .. filled
    /\ UNCHANGED filled

Next == Fill \/ Count

Spec == Init /\ [][Next]_vars

====
