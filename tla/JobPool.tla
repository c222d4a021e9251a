------------------------------- MODULE JobPool -------------------------------
(***************************************************************************)
(* The job objects of one type: CJobFactory hands them out of a CSyncPool, *)
(* creates the pool when the first one is asked for, and destroys it when  *)
(* the phase of the search that uses the type is over (Truncate).  The     *)
(* pool is an array of NumObjs objects with two bitmaps and a clock hand:  *)
(* recycling only marks an object, the hand turns the mark into a free     *)
(* object when it passes, and takes the object at the next turn.  When two *)
(* turns find nothing the object comes from the heap.                      *)
(***************************************************************************)
EXTENDS Integers, FiniteSets

CONSTANTS
    NumObjs,    \* CSyncPool::m_numobjs
    Heap,       \* the objects PtRetrieve can create outside of the array
    Wrap        \* the number of values of m_last_lookup_idx, 2^64 in the code

ASSUME PoolAssumption ==
    /\ NumObjs \in Nat \ {0}
    /\ Wrap \in Nat \ {0}
    /\ Heap \cap (0 .. NumObjs - 1) = {}

Slot == 0 .. NumObjs - 1
Object == Slot \cup Heap

VARIABLES
    exists,     \* the pool of this job type has been created
    reserved,   \* CSyncPool::m_objs_reserved
    recycled,   \* CSyncPool::m_objs_recycled
    hand,       \* CSyncPool::m_last_lookup_idx
    round,      \* the loop variable i of PtRetrieve, or -1 outside of it
    holders     \* how many users hold an object (history)

vars == <<exists, reserved, recycled, hand, round, holders>>

Idle == -1

(* the objects somebody uses *)
Held == {o \in Object : holders[o] > 0}

(* CJobFactory::CJobFactory: no pool yet. *)
Init ==
    /\ exists = FALSE
    /\ reserved = {} /\ recycled = {}
    /\ hand = 0
    /\ round = Idle
    /\ holders = [o \in Object |-> 0]
-----------------------------------------------------------------------------
(* CJobFactory::PtRetrieve: a new pool has empty bitmaps and its hand at 0. *)
PtRetrieve ==
    /\ round = Idle
    /\ round' = 0
    /\ exists' = TRUE
    /\ UNCHANGED <<reserved, recycled, holders>>
    /\ hand' = IF exists THEN hand ELSE 0

(* the object the hand points at, in the iteration that moves it on *)
Scanned == hand % NumObjs

(* The object is free: reserve it and return it. *)
ReserveObject ==
    /\ round \in 0 .. 2 * NumObjs - 1
    /\ Scanned \notin reserved
    /\ reserved' = reserved \cup {Scanned}
    /\ holders' = [holders EXCEPT ![Scanned] = @ + 1]
    /\ hand' = (hand + 1) % Wrap
    /\ round' = Idle
    /\ UNCHANGED <<exists, recycled>>

(* Mutant: the mark is taken off and the reservation forgotten. *)
Mut_KeepReserved ==
    /\ round \in 0 .. 2 * NumObjs - 1
    /\ Scanned \in reserved
    /\ recycled' = recycled \ {Scanned}
    /\ reserved' = reserved
    /\ hand' = (hand + 1) % Wrap
    /\ round' = round + 1
    /\ UNCHANGED <<exists, holders>>

(* Mutant: the hand frees a reserved object whether it carries the mark or not. *)
Mut_ClearReserved ==
    /\ round \in 0 .. 2 * NumObjs - 1
    /\ Scanned \in reserved
    /\ recycled' = recycled \ {Scanned}
    /\ reserved' = reserved \ {Scanned}
    /\ hand' = (hand + 1) % Wrap
    /\ round' = round + 1
    /\ UNCHANGED <<exists, holders>>

(* The object is reserved.  If it is marked for recycling both bits are
   cleared, which makes it free, but it is not taken in this iteration. *)
PassReserved ==
    /\ round \in 0 .. 2 * NumObjs - 1
    /\ Scanned \in reserved
    /\ recycled' = recycled \ {Scanned}
    /\ reserved' = IF Scanned \in recycled THEN reserved \ {Scanned} ELSE reserved
    /\ hand' = (hand + 1) % Wrap
    /\ round' = round + 1
    /\ UNCHANGED <<exists, holders>>

(* Two turns of the hand found nothing: create an object outside the array. *)
CreateObject(o) ==
    /\ round = 2 * NumObjs
    /\ holders[o] = 0
    /\ holders' = [holders EXCEPT ![o] = @ + 1]
    /\ round' = Idle
    /\ UNCHANGED <<exists, reserved, recycled, hand>>

(* Mutant: the object is given back without its mark. *)
Mut_ReleaseUnmarked(o) ==
    /\ round = Idle
    /\ holders[o] > 0
    /\ holders' = [holders EXCEPT ![o] = @ - 1]
    /\ UNCHANGED <<exists, reserved, recycled, hand, round>>

(* CJobFactory::Release and CSyncPool::Recycle.  The scheduler releases what
   it holds, and nothing twice (JobProtocol); the asserts of Recycle say so. *)
Release(o) ==
    /\ round = Idle
    /\ holders[o] > 0
    /\ holders' = [holders EXCEPT ![o] = @ - 1]
    /\ recycled' = IF o \in Slot THEN recycled \cup {o} ELSE recycled
    /\ UNCHANGED <<exists, reserved, hand, round>>

(* CJobFactory::Truncate, called in CJobGroupImplementation and
   CJobGroupOptimization when no job of the type is left (PhasesSeparate of
   SearchJobs). *)
Truncate ==
    /\ round = Idle
    /\ Held = {}
    /\ exists' = FALSE
    /\ reserved' = {} /\ recycled' = {}
    /\ UNCHANGED <<hand, round, holders>>

Next ==
    \/ PtRetrieve \/ ReserveObject \/ PassReserved
    \/ \E o \in Heap : CreateObject(o)
    \/ \E o \in Object : Release(o)
    \/ Truncate

Spec == Init /\ [][Next]_vars
-----------------------------------------------------------------------------
(* Types. *)
PoolTypeOK ==
    /\ exists \in BOOLEAN
    /\ reserved \subseteq Slot /\ recycled \subseteq Slot
    /\ hand \in 0 .. Wrap - 1
    /\ round \in Idle .. 2 * NumObjs
    /\ holders \in [Object -> 0 .. 1]

(* The two bitmaps together say who is in use: a slot is held exactly when it is
   reserved and not marked, and only reserved slots are marked (the asserts
   "Object is not reserved" and "Object was reserved before being recycled"). *)
BitmapsExact ==
    /\ recycled \subseteq reserved
    /\ Held \cap Slot = reserved \ recycled

(* Through retrievals, releases and truncations the bitmaps tell who is in use,
   and nobody else holds it: no object has two holders. *)
PoolInv == PoolTypeOK /\ BitmapsExact

(* PtRetrieve leaves the array only when every object of it is in use, although
   it never looks at more than two bits at a time and a marked object takes two
   visits.  The hand's wrap-around to 0, after 2^64 visits, is the exception: a
   scan during which it happens visits some objects once. *)
NewOnlyWhenFull == (round = 2 * NumObjs /\ hand >= 2 * NumObjs) => Slot \subseteq Held

Abstract == INSTANCE ObjectPool WITH Object <- Object, holders <- holders

(* The pool is an object pool: an object is handed out to one user at a time. *)
ImplementsObjectPool == Abstract!Spec
=============================================================================
