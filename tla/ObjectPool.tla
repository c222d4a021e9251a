----------------------------- MODULE ObjectPool -----------------------------
(***************************************************************************)
(* What a pool of objects promises: an object has at most one holder, it   *)
(* gets one only while it has none, and a holder gives it back once.       *)
(* JobPool (CJobFactory over CSyncPool) implements it.                     *)
(***************************************************************************)
EXTENDS Integers

CONSTANT Object
VARIABLE holders        \* how many holders an object has

Init == holders = [o \in Object |-> 0]

Get(o) ==
    /\ holders[o] = 0
    /\ holders' = [holders EXCEPT ![o] = 1]

Put(o) ==
    /\ holders[o] = 1
    /\ holders' = [holders EXCEPT ![o] = 0]

Next == \E o \in Object : Get(o) \/ Put(o)

Spec == Init /\ [][Next]_holders
=============================================================================
