-------------------------- MODULE MCPreparationJobs --------------------------
(* The requests of PreparationJobs differ in their names only. *)
EXTENDS PreparationJobs, TLC

AlikeRequests == Permutations(Requests)
=============================================================================
