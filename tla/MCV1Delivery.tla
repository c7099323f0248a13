---------------------------- MODULE MCV1Delivery ----------------------------
(* Instances of V1Delivery for TLC: what may go wrong, and which messages   *)
(* have a deadline.                                                         *)
EXTENDS V1Delivery

CONSTANT m1

Goes(faults, rows, stops) == [fault |-> faults, age |-> rows, stop |-> stops]

\* One mishap of any kind.
AnyOne == {Goes(1, 0, 0), Goes(0, 1, 0), Goes(0, 0, 1)}
FirstOnly == {m1}
=============================================================================
