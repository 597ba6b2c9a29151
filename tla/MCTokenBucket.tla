---------------------------- MODULE MCTokenBucket ----------------------------
(* A small and slow revision, and a large and fast one. *)
EXTENDS TokenBucket, TLC

MCCapacity == [v \in Revisions |-> IF v = 1 THEN 2 ELSE 3]
MCCredit == [v \in Revisions |-> IF v = 1 THEN 2 ELSE 3]

Symmetry == Permutations(Requests)
=============================================================================
