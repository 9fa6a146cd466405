---------------------------- MODULE MCDatabase ----------------------------
EXTENDS Database, TLC

CONSTANTS a, b, g

OneAccount == <<a>>
OneGroup == <<g>>

(* An event that stays where it is, and two that may be moved: the second  *)
(* of them is stored where the first event is.                             *)
Event(start, immutable) ==
    [location |-> "hall", start |-> start, duration |-> 1, immutable |-> immutable]
FixedAndMovable == {Event(9, TRUE), Event(9, FALSE), Event(10, FALSE)}

WorkerSymmetry == Permutations(Workers)
=============================================================================
