--------------------------- MODULE MCInstanceRepo ---------------------------
(* InstanceRepo for TLC: ids and addresses are interchangeable.            *)
EXTENDS InstanceRepo, TLC

IdSymmetry == Permutations(Ids) \union Permutations(Addresses)
=============================================================================
