----------------------------- MODULE MCProcessor -----------------------------
(* Small instances of the processor.                                       *)
EXTENDS Processor, TLC

\* Interchangeable model values; used by the safety runs only.
Symmetry == Permutations(Key) \cup Permutations(App) \cup Permutations(RunID)
=============================================================================
