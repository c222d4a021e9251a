--------------------------- MODULE MC_JobProtocol ---------------------------
(***************************************************************************)
(* Instances of JobProtocol: four job objects and two queues, so that two  *)
(* jobs of one parent can meet on the same queue and a released job object *)
(* comes back on another queue.                                            *)
(***************************************************************************)
EXTENDS JobProtocol, TLC

CONSTANTS j1, j2, j3, j4, q1, q2

MC_Level == q1 :> 2 @@ q2 :> 1
MC_Symmetry == Permutations(Job)
=============================================================================
