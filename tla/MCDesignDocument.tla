------------------------- MODULE MCDesignDocument -------------------------
(* Two orders, two contents and two connections of the page.              *)
EXTENDS DesignDocument, TLC
CONSTANTS o1, o2, t1, t2, c1, c2
MCOrders == {o1, o2}
MCContents == {t1, t2}
MCConnections == {c1, c2}
Symmetry == Permutations(MCOrders) \cup Permutations(MCContents)
                \cup Permutations(MCConnections)
=============================================================================
