-------------------------- MODULE MCSdkTransaction --------------------------
(* Small instances of SdkTransaction for TLC. *)
EXTENDS SdkTransaction, TLC

Symmetry == Permutations(Thread) \cup Permutations(Seg \ {Root})
=============================================================================
