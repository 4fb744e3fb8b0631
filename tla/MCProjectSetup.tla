--------------------------- MODULE MCProjectSetup ---------------------------
EXTENDS ProjectSetup, TLC

(* Threads are alike.                                                      *)
Symmetry == Permutations(Callers)
=============================================================================
