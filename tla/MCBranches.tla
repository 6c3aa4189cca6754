---------------------------- MODULE MCBranches ----------------------------
(* Two brands, two names, one company, one address and one detail.  A page of *)
(* one row turns the first name into the second.                              *)
EXTENDS Branches, TLC
CONSTANTS c1, b1, b2, t1, t2, k1, a1, d1
OneClient == {c1}
MCBrands == {b1, b2}
MCTitles == {t1, t2}
MCCompanies == {k1}
MCAddrs == {a1}
MCDetails == {d1}
MCRejoin == t1 :> t2 @@ t2 :> t2 @@ a1 :> a1
Symmetry == Permutations(MCBrands)
=============================================================================
