-------------------------- MODULE MC_DynamicRegistry --------------------------
(***************************************************************************)
(* GP and one more engine, which may be registered, removed and registered *)
(* again; one built-in transformation.                                     *)
(***************************************************************************)
EXTENDS DynamicRegistry, TLC

CONSTANTS gp, x, op1, op2, t1, r1

MC_Symmetry == Permutations({op1, op2})
=============================================================================
