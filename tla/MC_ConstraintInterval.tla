------------------------ MODULE MC_ConstraintInterval ------------------------
(***************************************************************************)
(* Two constants, the even numbers, and a value in every gap.               *)
(***************************************************************************)
EXTENDS ConstraintInterval

MC_Datums == {2, 4}
MC_Points == 1 .. 5
MC_Opaque == {{2, 3}}
=============================================================================
