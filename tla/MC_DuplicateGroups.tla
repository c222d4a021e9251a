------------------------- MODULE MC_DuplicateGroups -------------------------
(* A chain of three groups.  Transformations may add a leaf's parent above  *)
(* or below any of them, so that marks cascade and merges can close cycles. *)
EXTENDS DuplicateGroups

E(op, kids) == [op |-> op, kids |-> kids]
R(op, arity) == [op |-> op, arity |-> arity]

Chain == <<E("a", <<>>), E("s", <<1>>), E("u", <<2>>)>>
ChainResults == {R("s", 1), R("t", 1)}
=============================================================================
