------------------------------ MODULE MCCapacity ------------------------------
(* Capacity for TLC. *)
EXTENDS Capacity, TLC

FewPerMinute == [k \in Kinds |-> IF k = "read" THEN 1 ELSE 2]
OneOfTwoJobs == CHOOSE J \in SUBSET Jobs : Cardinality(J) = 1
Symmetry == Permutations(Threads) \cup Permutations(Users)
===============================================================================
