--------------------------- MODULE MCConstruction ---------------------------
(* Small instances of Construction for TLC. *)
EXTENDS Construction

CONSTANTS f1, f2
=============================================================================
