-------------------------- MODULE MCComparisonJobs --------------------------
EXTENDS ComparisonJobs

CONSTANTS o1, o2, w1, r1, r2

(* Two pages of one Workspace, which compete.                              *)
MCWorkspaceOf == [o \in Operations |-> w1]
=============================================================================
