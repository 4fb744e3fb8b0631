---------------------------- MODULE MCCrossStore ----------------------------
(* CrossStore on a small instance: operations 1 and 2 compete for a        *)
(* Workspace and stage the same bytes, operation 3 is in another Workspace *)
(* of the same Project.                                                    *)
EXTENDS CrossStore, TLC

CONSTANTS wsA, wsB, fileA, fileB

MCWorkspaceOf == [o \in Operations |-> IF o = 3 THEN wsB ELSE wsA]
MCArtifactOf == [o \in Operations |-> IF o = 3 THEN fileB ELSE fileA]

WorkerSymmetry == Permutations(Workers)
=============================================================================
