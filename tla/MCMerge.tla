------------------------------ MODULE MCMerge ------------------------------
(* Instances of Merge for TLC on which an item is on two rows of three.    *)
EXTENDS Merge, TLC

CONSTANTS x, y, z, k

HeldByTwo == {<<k, x>>, <<k, z>>}
Symmetry == Permutations(Admin)
=============================================================================
