--------------------------- MODULE MCAuthentication ---------------------------
(* Authentication for TLC. *)
EXTENDS Authentication, TLC

CONSTANTS o1, o2, t1, t2, k1, k2

MCOperators == {o1, o2}
MCThreads == {t1, t2}
MCKids == {k1, k2}
MCBoots == {1}

Symmetry == Permutations(MCOperators) \cup Permutations(MCThreads) \cup Permutations(MCKids)
===============================================================================
