---------------------------- MODULE MCSegmentTree ----------------------------
(* Model values and symmetry for SegmentTree. *)
EXTENDS SegmentTree, TLC

Symmetry == Permutations(Seg \ {Root})
=============================================================================
