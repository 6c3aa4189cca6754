---------------------------- MODULE MCInventory ----------------------------
(* Small instances of Inventory. *)
EXTENDS Inventory

CONSTANTS m1, m2

\* Lots of two for m1; m2's unit count is 0, which the code reads as 1.
UnitCountDef == [m \in Material |-> IF m = m1 THEN 2 ELSE 0]
AmountDef == {1, 3}
=============================================================================
