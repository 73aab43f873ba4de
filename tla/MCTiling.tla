------------------------------ MODULE MCTiling ------------------------------
(* Tiling on a small instance: symmetry of the windows, which are only     *)
(* compared for equality.                                                  *)
EXTENDS Tiling, TLC

WindowSymmetry == Permutations(Windows)
=============================================================================
