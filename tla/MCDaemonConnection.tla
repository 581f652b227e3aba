------------------------- MODULE MCDaemonConnection -------------------------
(* Small instances of DaemonConnection for TLC. *)
EXTENDS DaemonConnection, TLC

Symmetry == Permutations(Thread) \cup Permutations(App)
=============================================================================
