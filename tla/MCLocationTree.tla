-------------------------- MODULE MCLocationTree --------------------------
(* Two browsers, one of which deletes, with a button of two handlers.      *)
EXTENDS LocationTree
CONSTANTS c1, c2
TwoClients == {c1, c2}
Handlers == [c \in TwoClients |-> IF c = c1 THEN 2 ELSE 0]
=============================================================================
