-------------------------- MODULE MCWindowManager --------------------------
(* WindowManager on small instances.  X windows and heap addresses are     *)
(* only compared for equality, so that both are symmetric where no         *)
(* liveness property is checked.                                           *)
EXTENDS WindowManager, TLC

Symmetry == Permutations(Windows) \cup Permutations(Structs)
=============================================================================
