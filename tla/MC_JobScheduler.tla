--------------------------- MODULE MC_JobScheduler ---------------------------
(***************************************************************************)
(* Instances of JobScheduler, with an acyclic and with a cyclic memo.      *)
(***************************************************************************)
EXTENDS JobScheduler, TLC

CONSTANTS j1, j2, j3, j4, q1, q2

MC_Level == q1 :> 2 @@ q2 :> 1
MC_Symmetry == Permutations(Job)
=============================================================================
