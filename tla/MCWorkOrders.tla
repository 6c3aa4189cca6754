---------------------------- MODULE MCWorkOrders ----------------------------
(* Small instances of WorkOrders for TLC. *)
EXTENDS WorkOrders, TLC

CONSTANTS f1, s1, s2, o1

PlanCountDef == {2}
CountDef == {1, 2}
\* The sessions are interchangeable: sound for the invariants.
SessionSymmetry == Permutations(Session)
=============================================================================
