---------------------------- MODULE MCBalancer ----------------------------
(* Instances of Balancer for TLC: a large chunk and a small one, or one of  *)
(* two equal ones, and tables that fit in one, in two, or in neither.       *)
EXTENDS Balancer, TLC

MCCapacity == [c \in Chunks |-> IF c = 1 THEN 2 ELSE 3]

Symm == Permutations(Threads) \cup Permutations(Tables)
=============================================================================
