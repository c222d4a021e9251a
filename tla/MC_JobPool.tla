------------------------------ MODULE MC_JobPool ------------------------------
(***************************************************************************)
(* A pool of three objects whose clock hand wraps after sixteen visits.    *)
(***************************************************************************)
EXTENDS JobPool

CONSTANTS h1, h2
=============================================================================
