-------------------------- MODULE MCCategoryMerge --------------------------
(* Instances of CategoryMerge for TLC. *)
EXTENDS CategoryMerge

CONSTANTS g1, g2, g3, c1, c2

Interchangeable == Permutations(Group) \cup Permutations(Category)
=============================================================================
