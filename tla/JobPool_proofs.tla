--------------------------- MODULE JobPool_proofs ---------------------------
(***************************************************************************)
(* The pool hands an object to one user at a time, for every size of the   *)
(* array, every heap and every width of the clock hand.                    *)
(***************************************************************************)
EXTENDS JobPool, TLAPS

(* The hand always points at an object of the array. *)
LEMMA ScannedIsSlot ==
    ASSUME PoolTypeOK  PROVE Scanned \in Slot /\ Scanned \notin Heap
<1>1. hand \in Nat /\ NumObjs \in Nat /\ NumObjs > 0
  BY PoolAssumption DEF PoolTypeOK
<1>2. \A n, d \in Nat : d > 0 => n % d \in 0 .. d - 1
  OBVIOUS
<1>3. QED
  BY <1>1, <1>2, PoolAssumption DEF Scanned, Slot

(* The hand stays within its width when it moves. *)
LEMMA HandWraps ==
    ASSUME PoolTypeOK  PROVE (hand + 1) % Wrap \in 0 .. Wrap - 1 /\ 0 \in 0 .. Wrap - 1
<1>1. hand + 1 \in Nat /\ Wrap \in Nat /\ Wrap > 0
  BY PoolAssumption DEF PoolTypeOK
<1>2. \A n, d \in Nat : d > 0 => n % d \in 0 .. d - 1
  OBVIOUS
<1>3. QED
  BY <1>1, <1>2

LEMMA InitPoolInv == Init => PoolInv
<1>1. Init => PoolTypeOK
  <2>1. -1 \in -1 .. 2 * NumObjs /\ 0 \in 0 .. Wrap - 1
    BY PoolAssumption
  <2>2. Init => holders \in [Object -> 0 .. 1]
    BY DEF Init
  <2>3. QED
    BY <2>1, <2>2 DEF Init, PoolTypeOK, Idle
<1>2. Init => BitmapsExact
  BY DEF Init, BitmapsExact, Held
<1>3. QED
  BY <1>1, <1>2 DEF PoolInv

(* The bits and the counter of an object that is taken out of the array. *)
LEMMA ReserveKeepsInv == ASSUME PoolInv, ReserveObject PROVE PoolInv'
<1>1. Scanned \in Slot /\ Scanned \in Object /\ (hand + 1) % Wrap \in 0 .. Wrap - 1
  BY ScannedIsSlot, HandWraps DEF PoolInv, Object
<1>2. holders[Scanned] = 0
  BY <1>1 DEF PoolInv, PoolTypeOK, BitmapsExact, Held, ReserveObject, Object
<1>3. PoolTypeOK'
  BY <1>1, <1>2, PoolAssumption DEF PoolInv, PoolTypeOK, ReserveObject, Idle
<1>4. Held' = Held \cup {Scanned}
  BY <1>1, <1>2 DEF PoolInv, PoolTypeOK, ReserveObject, Held
<1>5. BitmapsExact'
  BY <1>1, <1>4 DEF PoolInv, BitmapsExact, ReserveObject
<1>6. QED
  BY <1>3, <1>5 DEF PoolInv

(* A visit of a reserved object clears a mark and its reservation together. *)
LEMMA PassKeepsInv == ASSUME PoolInv, PassReserved PROVE PoolInv'
<1>1. Scanned \in Slot /\ (hand + 1) % Wrap \in 0 .. Wrap - 1
  BY ScannedIsSlot, HandWraps DEF PoolInv
<1>2. PoolTypeOK'
  BY <1>1, PoolAssumption DEF PoolInv, PoolTypeOK, PassReserved, Idle
<1>3. Held' = Held
  BY DEF PassReserved, Held
<1>4. BitmapsExact'
  BY <1>3 DEF PoolInv, BitmapsExact, PassReserved
<1>5. QED
  BY <1>2, <1>4 DEF PoolInv

(* Objects of the heap have no bits. *)
LEMMA CreateKeepsInv == ASSUME PoolInv, NEW o \in Heap, CreateObject(o) PROVE PoolInv'
<1>1. o \in Object /\ o \notin Slot
  BY PoolAssumption DEF Object, Slot
<1>2. PoolTypeOK'
  BY <1>1, PoolAssumption DEF PoolInv, PoolTypeOK, CreateObject, Idle
<1>3. Held' = Held \cup {o}
  BY <1>1 DEF PoolInv, PoolTypeOK, CreateObject, Held
<1>4. BitmapsExact'
  BY <1>1, <1>3 DEF PoolInv, BitmapsExact, CreateObject
<1>5. QED
  BY <1>2, <1>4 DEF PoolInv

(* A released object of the array is marked, one of the heap is gone. *)
LEMMA ReleaseKeepsInv == ASSUME PoolInv, NEW o \in Object, Release(o) PROVE PoolInv'
<1>1. PoolTypeOK'
  BY PoolAssumption DEF PoolInv, PoolTypeOK, Release
<1>2. Held' = Held \ {o} /\ o \in Held
  BY DEF PoolInv, PoolTypeOK, Release, Held
<1>3. BitmapsExact'
  BY <1>2 DEF PoolInv, BitmapsExact, Release
<1>4. QED
  BY <1>1, <1>3 DEF PoolInv

LEMMA NextPoolInv == PoolInv /\ [Next]_vars => PoolInv'
<1> SUFFICES ASSUME PoolInv, [Next]_vars PROVE PoolInv'
  OBVIOUS
<1>1. CASE PtRetrieve
  <2>1. PoolTypeOK'
    BY <1>1, HandWraps, PoolAssumption DEF PoolInv, PoolTypeOK, PtRetrieve, Idle
  <2>2. BitmapsExact'
    BY <1>1 DEF PoolInv, BitmapsExact, PtRetrieve, Held
  <2>3. QED
    BY <2>1, <2>2 DEF PoolInv
<1>2. CASE ReserveObject
  BY <1>2, ReserveKeepsInv
<1>3. CASE PassReserved
  BY <1>3, PassKeepsInv
<1>4. CASE \E o \in Heap : CreateObject(o)
  BY <1>4, CreateKeepsInv
<1>5. CASE \E o \in Object : Release(o)
  BY <1>5, ReleaseKeepsInv
<1>6. CASE Truncate
  <2>1. PoolTypeOK'
    BY <1>6 DEF PoolInv, PoolTypeOK, Truncate
  <2>2. BitmapsExact'
    BY <1>6 DEF BitmapsExact, Truncate, Held
  <2>3. QED
    BY <2>1, <2>2 DEF PoolInv
<1>7. CASE UNCHANGED vars
  <2>1. PoolTypeOK'
    BY <1>7 DEF PoolInv, PoolTypeOK, vars
  <2>2. BitmapsExact'
    BY <1>7 DEF PoolInv, BitmapsExact, vars, Held
  <2>3. QED
    BY <2>1, <2>2 DEF PoolInv
<1>8. QED
  BY <1>1, <1>2, <1>3, <1>4, <1>5, <1>6, <1>7 DEF Next

(* The bits of CSyncPool always agree with what its users hold, and no object
   has two holders.  PoolInv is inductive; PoolTypeOK alone is not, since a free
   bit would say nothing about holders. *)
THEOREM PoolInvariant == Spec => []PoolInv
<1>1. QED
  BY InitPoolInv, NextPoolInv, PTL DEF Spec

(* Every step of the pool is a step of the abstract pool or invisible to it: in
   particular PtRetrieve never returns an object that somebody holds. *)
LEMMA StepRefines == PoolInv /\ [Next]_vars => [Abstract!Next]_holders
<1> SUFFICES ASSUME PoolInv, [Next]_vars PROVE [Abstract!Next]_holders
  OBVIOUS
<1>1. CASE ReserveObject
  <2>1. Scanned \in Slot /\ Scanned \in Object
    BY ScannedIsSlot DEF PoolInv, Object
  <2>2. holders[Scanned] = 0
    BY <1>1, <2>1 DEF PoolInv, PoolTypeOK, BitmapsExact, Held, ReserveObject, Object
  <2>3. Abstract!Get(Scanned)
    BY <1>1, <2>2 DEF ReserveObject, Abstract!Get
  <2>4. QED
    BY <2>1, <2>3 DEF Abstract!Next
<1>2. ASSUME NEW o \in Heap, CreateObject(o)  PROVE Abstract!Next
  <2>1. o \in Object /\ Abstract!Get(o)
    BY <1>2 DEF CreateObject, Abstract!Get, Object
  <2>2. QED
    BY <2>1 DEF Abstract!Next
<1>3. ASSUME NEW o \in Object, Release(o)  PROVE Abstract!Next
  <2>1. holders[o] = 1
    BY <1>3 DEF PoolInv, PoolTypeOK, Release
  <2>2. Abstract!Put(o)
    BY <1>3, <2>1 DEF Release, Abstract!Put
  <2>3. QED
    BY <2>2 DEF Abstract!Next
<1>4. CASE PtRetrieve \/ PassReserved \/ Truncate \/ UNCHANGED vars
  BY <1>4 DEF PtRetrieve, PassReserved, Truncate, vars
<1>5. QED
  BY <1>1, <1>2, <1>3, <1>4 DEF Next

(* CJobFactory over CSyncPool implements the abstract object pool. *)
THEOREM PoolImplementsObjectPool == Spec => ImplementsObjectPool
<1>1. Init => Abstract!Init
  BY DEF Init, Abstract!Init
<1>2. QED
  BY <1>1, PoolInvariant, StepRefines, PTL DEF Spec, ImplementsObjectPool, Abstract!Spec

(* What a scan has seen, as long as the hand has not wrapped during it: a
   visited object carries no mark, and one visited twice is reserved. *)
ScanInv ==
    round >= 0 /\ hand >= round =>
        \A k \in 0 .. round - 1 :
            LET s == (hand - round + k) % NumObjs
            IN  s \notin recycled /\ (k >= NumObjs => s \in reserved)

(* Division with remainder: the remainder is unique. *)
LEMMA Division ==
    /\ \A n, d \in Nat : d > 0 => n \div d \in Nat /\ n % d \in 0 .. d - 1 /\ n = d * (n \div d) + (n % d)
    /\ \A q, d \in Nat : \A r \in 0 .. d - 1 : d > 0 => (d * q + r) % d = r
OBVIOUS

(* A full turn brings the hand back to the same object. *)
LEMMA FullTurn == ASSUME NEW n \in Nat  PROVE (n + NumObjs) % NumObjs = n % NumObjs
<1> DEFINE q == n \div NumObjs
           r == n % NumObjs
<1>1. NumObjs \in Nat /\ NumObjs > 0
  BY PoolAssumption
<1>2. n = NumObjs * q + r /\ q \in Nat /\ r \in 0 .. NumObjs - 1
  BY <1>1, Division
<1> HIDE DEF q, r
<1>3. n + NumObjs = NumObjs * (q + 1) + r
  BY <1>1, <1>2
<1>4. (NumObjs * (q + 1) + r) % NumObjs = r
  BY <1>1, <1>2, Division
<1>5. QED
  BY <1>3, <1>4 DEF r

(* A turn visits every object of the array. *)
LEMMA TurnVisitsAll ==
    ASSUME NEW n \in Nat, NEW s \in Slot
    PROVE  \E j \in 0 .. NumObjs - 1 : (n + j) % NumObjs = s
<1> DEFINE q == n \div NumObjs
           r == n % NumObjs
<1>1. NumObjs \in Nat /\ NumObjs > 0 /\ s \in 0 .. NumObjs - 1
  BY PoolAssumption DEF Slot
<1>2. n = NumObjs * q + r /\ q \in Nat /\ r \in 0 .. NumObjs - 1
  BY <1>1, Division
<1> HIDE DEF q, r
<1>3. CASE r <= s
  <2>1. n + (s - r) = NumObjs * q + s /\ s - r \in 0 .. NumObjs - 1
    BY <1>1, <1>2, <1>3
  <2>2. (NumObjs * q + s) % NumObjs = s
    BY <1>1, <1>2, Division
  <2>3. QED
    BY <2>1, <2>2
<1>4. CASE ~(r <= s)
  <2>1. n + (s - r + NumObjs) = NumObjs * (q + 1) + s /\ s - r + NumObjs \in 0 .. NumObjs - 1
    BY <1>1, <1>2, <1>4
  <2>2. (NumObjs * (q + 1) + s) % NumObjs = s
    BY <1>1, <1>2, Division
  <2>3. QED
    BY <2>1, <2>2
<1>5. QED
  BY <1>3, <1>4

(* The hand moves on by one, or wraps to 0. *)
LEMMA HandMoves == ASSUME PoolTypeOK  PROVE (hand + 1) % Wrap \in {0, hand + 1}
<1>1. Wrap \in Nat /\ Wrap > 0 /\ hand \in 0 .. Wrap - 1
  BY PoolAssumption DEF PoolTypeOK
<1>2. CASE hand + 1 < Wrap
  <2>1. (Wrap * 0 + (hand + 1)) % Wrap = hand + 1
    BY <1>1, <1>2, Division
  <2>2. Wrap * 0 + (hand + 1) = hand + 1
    BY <1>1
  <2>3. QED
    BY <2>1, <2>2
<1>3. CASE hand + 1 = Wrap
  <2>1. (Wrap * 1 + 0) % Wrap = 0
    BY <1>1, Division
  <2>2. Wrap * 1 + 0 = hand + 1
    BY <1>1, <1>3
  <2>3. QED
    BY <2>1, <2>2
<1>4. QED
  BY <1>1, <1>2, <1>3

(* The second visit of an object in a scan finds it without a mark, since the
   first took it off and nothing is released during the scan. *)
LEMMA PassKeepsScan == ASSUME PoolInv, ScanInv, PassReserved  PROVE ScanInv'
<1>1. /\ NumObjs \in Nat /\ NumObjs > 0 /\ hand \in Nat /\ round \in Nat
      /\ hand' \in {0, hand + 1} /\ round' = round + 1
      /\ recycled' = recycled \ {Scanned} /\ Scanned \in reserved
      /\ reserved' = IF Scanned \in recycled THEN reserved \ {Scanned} ELSE reserved
  BY PoolAssumption, HandMoves DEF PassReserved, PoolInv, PoolTypeOK
<1> SUFFICES ASSUME hand' >= round', NEW k \in 0 .. round' - 1
             PROVE  LET s == (hand' - round' + k) % NumObjs
                    IN  s \notin recycled' /\ (k >= NumObjs => s \in reserved')
  BY DEF ScanInv
<1>2. hand' = hand + 1 /\ hand >= round /\ hand' - round' = hand - round
  <2>1. hand' # 0
    BY <1>1
  <2>2. hand' = hand + 1
    BY <1>1, <2>1
  <2>3. QED
    BY <1>1, <2>2
<1>3. \A i \in 0 .. round - 1 :
        /\ (hand - round + i) % NumObjs \notin recycled
        /\ i >= NumObjs => (hand - round + i) % NumObjs \in reserved
  BY <1>1, <1>2 DEF ScanInv
<1>4. CASE k < round
  <2> DEFINE t == (hand - round + k) % NumObjs
  <2>1. t \notin recycled /\ (k >= NumObjs => t \in reserved)
    BY <1>1, <1>3, <1>4
  <2>2. (hand' - round' + k) % NumObjs = t
    BY <1>2
  <2> HIDE DEF t
  <2>3. QED
    BY <1>1, <2>1, <2>2
<1>5. CASE k = round
  <2>1. hand - round + k = hand
    BY <1>1, <1>5
  <2>2. (hand' - round' + k) % NumObjs = Scanned
    BY <1>2, <2>1 DEF Scanned
  <2>3. ASSUME k >= NumObjs  PROVE Scanned \notin recycled
    <3>1. /\ hand - NumObjs \in Nat /\ k - NumObjs \in 0 .. round - 1
          /\ (hand - NumObjs) + NumObjs = hand /\ hand - round + (k - NumObjs) = hand - NumObjs
      BY <1>1, <1>2, <1>5, <2>3
    <3>2. (hand - NumObjs) % NumObjs = hand % NumObjs
      BY <3>1, FullTurn
    <3>3. QED
      BY <1>3, <3>1, <3>2 DEF Scanned
  <2>4. QED
    BY <1>1, <2>2, <2>3
<1>6. QED
  BY <1>1, <1>4, <1>5

(* Every other step ends the scan or starts a new one. *)
LEMMA StepKeepsScan == PoolInv /\ ScanInv /\ [Next]_vars => ScanInv'
<1> SUFFICES ASSUME PoolInv, ScanInv, [Next]_vars  PROVE ScanInv'
  OBVIOUS
<1>1. CASE PassReserved
  BY <1>1, PassKeepsScan
<1>2. CASE PtRetrieve
  BY <1>2 DEF PtRetrieve, ScanInv
<1>3. CASE ReserveObject \/ (\E o \in Heap : CreateObject(o)) \/ (\E o \in Object : Release(o)) \/ Truncate
  <2>1. round' = -1
    BY <1>3 DEF ReserveObject, CreateObject, Release, Truncate, Idle
  <2>2. QED
    BY <2>1 DEF ScanInv
<1>4. CASE UNCHANGED vars
  BY <1>4 DEF ScanInv, vars
<1>5. QED
  BY <1>1, <1>2, <1>3, <1>4 DEF Next

(* After two turns every object has been visited a second time. *)
LEMMA ScanMeansFull == PoolInv /\ ScanInv => NewOnlyWhenFull
<1> SUFFICES ASSUME PoolInv, ScanInv, round = 2 * NumObjs, hand >= 2 * NumObjs, NEW s \in Slot
             PROVE  s \in Held
  BY DEF NewOnlyWhenFull
<1>1. NumObjs \in Nat /\ NumObjs > 0 /\ hand \in Nat
  BY PoolAssumption DEF PoolInv, PoolTypeOK
<1>2. PICK j \in 0 .. NumObjs - 1 : (hand - NumObjs + j) % NumObjs = s
  <2>1. hand - NumObjs \in Nat
    BY <1>1
  <2>2. QED
    BY <2>1, TurnVisitsAll
<1> DEFINE k == NumObjs + j
<1>3. k \in 0 .. round - 1 /\ k >= NumObjs /\ hand - round + k = hand - NumObjs + j
  BY <1>1
<1>4. s \notin recycled /\ s \in reserved
  BY <1>1, <1>2, <1>3 DEF ScanInv
<1>5. QED
  BY <1>4 DEF PoolInv, BitmapsExact

(* CSyncPool::PtRetrieve goes to the heap only when every object of the array
   is in use, for every size of the array, unless the 64-bit hand wraps during
   the scan. *)
THEOREM NewObjectsOnlyWhenFull == Spec => []NewOnlyWhenFull
<1>1. Init => ScanInv
  BY DEF Init, ScanInv, Idle
<1>2. QED
  BY <1>1, PoolInvariant, StepKeepsScan, ScanMeansFull, PTL DEF Spec
=============================================================================
