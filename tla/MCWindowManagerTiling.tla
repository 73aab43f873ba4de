----------------------- MODULE MCWindowManagerTiling -----------------------
(* WindowManagerTiling on a small instance.  The layout of a window does   *)
(* not depend on its name, nor on the address of its struct.               *)
EXTENDS WindowManagerTiling, TLC

Symmetry == Permutations(Windows) \cup Permutations(Structs)
=============================================================================
