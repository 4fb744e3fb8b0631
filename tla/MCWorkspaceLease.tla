-------------------------- MODULE MCWorkspaceLease --------------------------
(* WorkspaceLease on a small instance.  Holders are interchangeable.       *)
EXTENDS WorkspaceLease, TLC

HolderSymmetry == Permutations(Holders)
=============================================================================
