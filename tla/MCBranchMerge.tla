--------------------------- MODULE MCBranchMerge ---------------------------
(* Programs of a few ifs over a few objects.                               *)
EXTENDS BranchMerge, TLC

\* The object names are interchangeable.
ObjectSymmetry == Permutations(Objects)
=============================================================================
