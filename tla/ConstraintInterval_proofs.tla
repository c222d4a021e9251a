----------------------- MODULE ConstraintInterval_proofs -----------------------
(***************************************************************************)
(* Proofs about CRange and CConstraintInterval, for any set of constants   *)
(* and any number of arguments: the operations on two ranges and on two    *)
(* arrays of ranges compute the values they should, over all integers; an  *)
(* interval holds the values for which its predicate lets a row through;   *)
(* its array is in canonical form; FContainsInterval is exact; and the     *)
(* scalar expression of an interval has that interval again.               *)
(*                                                                         *)
(* The merge loops are functions of the number of iterations.  What is     *)
(* true of each iterate is shown with sets of numbers: a set that has 0    *)
(* and, with a number, the next one has them all (NaturalSteps).           *)
(***************************************************************************)
EXTENDS ConstraintInterval, FiniteSetTheorems, SequenceTheorems, WellFoundedInduction, TLAPS

-----------------------------------------------------------------------------
(* Induction and loops. *)

(* A set of natural numbers that has an element has a least one. *)
LEMMA LeastNatural ==
    ASSUME NEW T, T \subseteq Nat, T # {}
    PROVE  \E x \in T : \A y \in T : x <= y
<1> DEFINE R == {ss \in Nat \X Nat : ss[1] < ss[2]}
<1>1. IsWellFoundedOn(R, Nat)
  BY ONLY NatLessThanWellFounded DEF OpToRel
<1>2. PICK x \in T : \A y \in T : ~ (<<y, x>> \in R)
  BY <1>1, WFMin
<1>3. ASSUME NEW y \in T  PROVE x <= y
  <2>1. x \in Nat /\ y \in Nat /\ <<y, x>> \in Nat \X Nat
    OBVIOUS
  <2>2. ~ (y < x)
    BY <1>2, <2>1
  <2> QED
    BY <2>1, <2>2
<1> QED
  BY <1>3

(* Induction over the numbers in a set. *)
LEMMA NaturalSteps ==
    ASSUME NEW G, 0 \in G, \A n \in Nat : n \in G => n + 1 \in G
    PROVE  Nat \subseteq G
<1> DEFINE T == Nat \ G
<1> SUFFICES ASSUME T # {} PROVE FALSE
  OBVIOUS
<1>1. PICK m \in T : \A y \in T : m <= y
  BY LeastNatural
<1>2. m \in Nat /\ m # 0 /\ m \notin G
  BY <1>1
<1>3. m - 1 \in Nat /\ m - 1 \notin T
  <2>1. m - 1 \in T => m <= m - 1
    BY <1>1
  <2> QED
    BY <1>2, <2>1
<1>4. m - 1 \in G
  BY <1>3
<1>5. (m - 1) + 1 \in G
  BY <1>3, <1>4
<1> QED
  BY <1>2, <1>5

(* A function on S can be iterated from every element of S. *)
IsMap(F, S) == F \in [S -> S]
Iterates(h, S, F, s) ==
    h \in [Nat -> S] /\ h[0] = s /\ \A n \in Nat : h[n + 1] = F[h[n]]

(* The iteration is defined step by step, so an initial part of it exists for
   every number of steps, and all of it. *)
LEMMA IterationExists ==
    ASSUME NEW S, NEW F, IsMap(F, S), NEW s \in S
    PROVE  \E h : Iterates(h, S, F, s)
<1>0. F \in [S -> S]
  BY DEF IsMap
<1> DEFINE Upto(n) == {h \in [Nat -> S] : h[0] = s /\ \A i \in Nat : i < n => h[i + 1] = F[h[i]]}
           G == {n \in Nat : Upto(n) # {}}
<1>1. 0 \in G
  <2> DEFINE h == [n \in Nat |-> s]
  <2>1. h \in Upto(0)
    BY <1>0
  <2> HIDE DEF Upto, h
  <2> QED
    BY <2>1
<1>2. ASSUME NEW n \in Nat, n \in G PROVE n + 1 \in G
  <2>1. PICK h \in Upto(n) : TRUE
    BY <1>2
  <2>2. h \in [Nat -> S] /\ h[0] = s /\ \A i \in Nat : i < n => h[i + 1] = F[h[i]]
    BY <2>1
  <2> DEFINE k == [i \in Nat |-> IF i = n + 1 THEN F[h[n]] ELSE h[i]]
  <2>3. k \in [Nat -> S] /\ k[0] = s
    BY <1>0, <2>2
  <2>4. ASSUME NEW i \in Nat, i < n + 1 PROVE k[i + 1] = F[k[i]]
    <3>1. k[i] = h[i] /\ i <= n
      BY <2>4
    <3>2. CASE i = n
      BY <3>1, <3>2
    <3>3. CASE i < n
      BY <2>2, <3>1, <3>3
    <3> QED
      BY <3>1, <3>2, <3>3
  <2>5. k \in Upto(n + 1)
    BY <2>3, <2>4
  <2> HIDE DEF Upto, k
  <2> QED
    BY <2>5
<1>3. \A n \in Nat : Upto(n) # {}
  BY <1>1, <1>2, NaturalSteps
<1> DEFINE pick == [n \in Nat |-> CHOOSE h \in Upto(n) : TRUE]
<1>4. \A n \in Nat : pick[n] \in Upto(n)
  BY <1>3
<1> HIDE DEF pick
<1>5. \A n \in Nat : /\ pick[n] \in [Nat -> S] /\ pick[n][0] = s
                     /\ \A i \in Nat : i < n => pick[n][i + 1] = F[pick[n][i]]
  BY <1>4
<1>6. \A i \in Nat : \A n \in Nat : i <= n => pick[n][i] = pick[i][i]
  <2> DEFINE A == {i \in Nat : \A n \in Nat, m \in Nat : i <= n /\ i <= m => pick[n][i] = pick[m][i]}
  <2>1. 0 \in A
    BY <1>5
  <2>2. ASSUME NEW i \in Nat, i \in A PROVE i + 1 \in A
    <3> SUFFICES ASSUME NEW n \in Nat, NEW m \in Nat, i + 1 <= n, i + 1 <= m
                 PROVE  pick[n][i + 1] = pick[m][i + 1]
      OBVIOUS
    <3>1. i < n /\ i < m /\ i <= n /\ i <= m
      OBVIOUS
    <3>2. pick[n][i] = pick[m][i]
      BY <2>2, <3>1
    <3> QED
      BY <1>5, <3>1, <3>2
  <2>3. Nat \subseteq A
    BY <2>1, <2>2, NaturalSteps
  <2> QED
    BY <2>3
<1> DEFINE h == [n \in Nat |-> pick[n][n]]
<1>7. h \in [Nat -> S] /\ h[0] = s
  BY <1>5
<1>8. ASSUME NEW n \in Nat PROVE h[n + 1] = F[h[n]]
  <2>1. n < n + 1 /\ n <= n + 1 /\ n + 1 \in Nat
    OBVIOUS
  <2>2. h[n + 1] = pick[n + 1][n + 1] /\ h[n] = pick[n][n]
    BY <2>1
  <2>3. pick[n + 1][n + 1] = F[pick[n + 1][n]]
    BY <1>5, <2>1
  <2>4. pick[n + 1][n] = pick[n][n]
    BY <1>6, <2>1
  <2> QED
    BY <2>2, <2>3, <2>4
<1> HIDE DEF h
<1> QED
  BY <1>7, <1>8 DEF Iterates

(* What is true of the start and kept by each iteration is true of the iterates. *)
LEMMA IterationKeeps ==
    ASSUME NEW S, NEW F \in [S -> S], NEW s \in S, NEW h,
           h[0] = s, \A n \in Nat : h[n] \in S => h[n + 1] = F[h[n]]
    PROVE  \A n \in Nat : h[n] \in S /\ h[n + 1] = F[h[n]]
<1> DEFINE G == {n \in Nat : h[n] \in S}
<1>1. 0 \in G
  OBVIOUS
<1>2. \A n \in Nat : n \in G => n + 1 \in G
  OBVIOUS
<1>3. Nat \subseteq G
  BY <1>1, <1>2, NaturalSteps
<1> QED
  BY <1>3

(* A measure that each iteration decreases bounds the number of iterations. *)
LEMMA IterationEnds ==
    ASSUME NEW S, NEW F \in [S -> S], NEW h,
           \A n \in Nat : h[n] \in S /\ h[n + 1] = F[h[n]],
           NEW m \in [S -> Nat], \A s \in S : F[s] # s => m[F[s]] < m[s],
           NEW k \in Nat, m[h[0]] <= k
    PROVE  h[k] \in S /\ F[h[k]] = h[k]
<1> DEFINE G == {n \in Nat : F[h[n]] = h[n] \/ m[h[n]] + n <= k}
<1>1. 0 \in G
  OBVIOUS
<1>2. ASSUME NEW n \in Nat, n \in G PROVE n + 1 \in G
  <2>1. h[n] \in S /\ h[n + 1] \in S /\ h[n + 1] = F[h[n]]
    OBVIOUS
  <2>2. CASE F[h[n]] = h[n]
    BY <2>1, <2>2
  <2>3. CASE F[h[n]] # h[n]
    <3>1. m[h[n]] \in Nat /\ m[h[n + 1]] \in Nat /\ m[h[n + 1]] < m[h[n]] /\ m[h[n]] + n <= k
      BY <1>2, <2>1, <2>3
    <3>2. m[h[n + 1]] + (n + 1) <= k
      BY <3>1
    <3> QED
      BY <3>2
  <2> QED
    BY <2>2, <2>3
<1>3. k \in G
  BY <1>1, <1>2, NaturalSteps
<1>4. h[k] \in S /\ F[h[k]] \in S
  OBVIOUS
<1>5. CASE m[h[k]] + k <= k
  <2>1. m[h[k]] \in Nat /\ m[F[h[k]]] \in Nat
    BY <1>4
  <2>2. ~ (m[F[h[k]]] < m[h[k]])
    BY <1>5, <2>1
  <2> QED
    BY <1>4, <2>2
<1> QED
  BY <1>3, <1>4, <1>5

-----------------------------------------------------------------------------
(* Two ranges. *)

(* A well formed range is not the NULL pointer, and its fields have their
   types. *)
LEMMA WellFormedFields ==
    ASSUME NEW a, WellFormed(a)
    PROVE  /\ a # NULL /\ a \in RangeType
           /\ a.l \in Int \cup {NULL} /\ a.r \in Int \cup {NULL}
           /\ a.li \in BOOLEAN /\ a.ri \in BOOLEAN
           /\ a.l = NULL => ~ a.li
           /\ a.r = NULL => ~ a.ri
           /\ a.l # NULL /\ a.r # NULL =>
                  a.l < a.r \/ (a.l = a.r /\ a.li /\ a.ri)
  BY NullAssumption DEF WellFormed, RangeType

(* FDisjointLeft: every value of the first range is before every value of the
   second (CRange::FDisjointLeft). *)
THEOREM DisjointLeftOrders ==
    ASSUME NEW a, NEW b, WellFormed(a), WellFormed(b), FDisjointLeft(a, b),
           NEW x \in Int, NEW y \in Int, Holds(x, a), Holds(y, b)
    PROVE  x < y
  BY WellFormedFields, NullAssumption
  DEF FDisjointLeft, Holds, AboveLeft, BelowRight, IsLessThan, Equals

(* Contains: the values of the second range are values of the first
   (CRange::Contains). *)
THEOREM ContainsSound ==
    ASSUME NEW a, NEW b, WellFormed(a), WellFormed(b), RngContains(a, b),
           NEW x \in Int, Holds(x, b)
    PROVE  Holds(x, a)
  <1>1. AboveLeft(x, a)
    BY WellFormedFields, NullAssumption
    DEF RngContains, FStartsWithOrBefore, FStartsBefore, Holds, AboveLeft,
        IsLessThan, IsGreaterThan, Equals
  <1>2. BelowRight(x, a)
    BY WellFormedFields, NullAssumption
    DEF RngContains, FEndsWithOrAfter, FEndsAfter, Holds, BelowRight,
        IsLessThan, IsGreaterThan, Equals
  <1> QED
    BY <1>1, <1>2, WellFormedFields DEF Holds

(* PrngIntersect: a range of the values that both ranges hold, NULL when there
   are none (CRange::PrngIntersect). *)
THEOREM IntersectExact ==
    ASSUME NEW a, NEW b, WellFormed(a), WellFormed(b), NEW x \in Int
    PROVE  Holds(x, PrngIntersect(a, b)) <=> Holds(x, a) /\ Holds(x, b)
  <1>1. CASE RngContains(a, b)
    <2>1. PrngIntersect(a, b) = b
      BY <1>1 DEF PrngIntersect
    <2> QED
      BY <1>1, <2>1, ContainsSound
  <1>2. CASE ~ RngContains(a, b) /\ RngContains(b, a)
    <2>1. PrngIntersect(a, b) = a
      BY <1>2 DEF PrngIntersect
    <2> QED
      BY <1>2, <2>1, ContainsSound
  <1>3. CASE /\ ~ RngContains(a, b) /\ ~ RngContains(b, a)
             /\ FOverlapsLeft(a, b)
    <2>1. PrngIntersect(a, b) = Rng(b.l, b.li, a.r, a.ri)
      BY <1>3 DEF PrngIntersect
    <2>2. /\ Rng(b.l, b.li, a.r, a.ri) # NULL
          /\ Rng(b.l, b.li, a.r, a.ri).l = b.l
          /\ Rng(b.l, b.li, a.r, a.ri).li = b.li
          /\ Rng(b.l, b.li, a.r, a.ri).r = a.r
          /\ Rng(b.l, b.li, a.r, a.ri).ri = a.ri
      <3>1. /\ b.l \in Int \cup {NULL} /\ (b.li) \in BOOLEAN
            /\ a.r \in Int \cup {NULL} /\ (a.ri) \in BOOLEAN
        BY WellFormedFields
      <3>2. Rng(b.l, b.li, a.r, a.ri) \in RangeType
        BY <3>1 DEF Rng, RangeType
      <3>3. Rng(b.l, b.li, a.r, a.ri) # NULL
        BY <3>2, NullAssumption
      <3> QED
        BY <3>3 DEF Rng
    <2>3. AboveLeft(x, b) => AboveLeft(x, a)
      BY <1>3, WellFormedFields, NullAssumption
      DEF FOverlapsLeft, FStartsBefore, AboveLeft, IsLessThan, IsGreaterThan
    <2>4. BelowRight(x, a) => BelowRight(x, b)
      BY <1>3, WellFormedFields, NullAssumption
      DEF FOverlapsLeft, FEndsAfter, BelowRight, IsLessThan, IsGreaterThan
    <2>5. Holds(x, PrngIntersect(a, b)) <=> AboveLeft(x, b) /\ BelowRight(x, a)
      BY <2>1, <2>2 DEF Holds, AboveLeft, BelowRight
    <2> QED
      BY <2>3, <2>4, <2>5, WellFormedFields DEF Holds
  <1>4. CASE /\ ~ RngContains(a, b) /\ ~ RngContains(b, a)
             /\ ~ FOverlapsLeft(a, b) /\ FOverlapsRight(a, b)
    <2>1. PrngIntersect(a, b) = Rng(a.l, a.li, b.r, b.ri)
      BY <1>4 DEF PrngIntersect
    <2>2. /\ Rng(a.l, a.li, b.r, b.ri) # NULL
          /\ Rng(a.l, a.li, b.r, b.ri).l = a.l
          /\ Rng(a.l, a.li, b.r, b.ri).li = a.li
          /\ Rng(a.l, a.li, b.r, b.ri).r = b.r
          /\ Rng(a.l, a.li, b.r, b.ri).ri = b.ri
      <3>1. /\ a.l \in Int \cup {NULL} /\ (a.li) \in BOOLEAN
            /\ b.r \in Int \cup {NULL} /\ (b.ri) \in BOOLEAN
        BY WellFormedFields
      <3>2. Rng(a.l, a.li, b.r, b.ri) \in RangeType
        BY <3>1 DEF Rng, RangeType
      <3>3. Rng(a.l, a.li, b.r, b.ri) # NULL
        BY <3>2, NullAssumption
      <3> QED
        BY <3>3 DEF Rng
    <2>3. AboveLeft(x, a) => AboveLeft(x, b)
      BY <1>4, WellFormedFields, NullAssumption
      DEF FOverlapsRight, FStartsBefore, AboveLeft, IsLessThan, IsGreaterThan
    <2>4. BelowRight(x, b) => BelowRight(x, a)
      BY <1>4, WellFormedFields, NullAssumption
      DEF FOverlapsRight, FEndsAfter, BelowRight, IsLessThan, IsGreaterThan
    <2>5. Holds(x, PrngIntersect(a, b)) <=> AboveLeft(x, a) /\ BelowRight(x, b)
      BY <2>1, <2>2 DEF Holds, AboveLeft, BelowRight
    <2> QED
      BY <2>3, <2>4, <2>5, WellFormedFields DEF Holds
  <1>5. CASE /\ ~ RngContains(a, b) /\ ~ RngContains(b, a)
             /\ ~ FOverlapsLeft(a, b) /\ ~ FOverlapsRight(a, b)
    <2>1. PrngIntersect(a, b) = NULL
      BY <1>5 DEF PrngIntersect
    <2>2. FDisjointLeft(a, b) \/ FDisjointLeft(b, a)
      <3>1. FStartsBefore(a, b) \/ FStartsWithOrBefore(b, a)
        BY WellFormedFields, NullAssumption
        DEF FStartsBefore, FStartsWithOrBefore, IsLessThan, IsGreaterThan,
            Equals
      <3>2. FEndsAfter(a, b) \/ FEndsWithOrAfter(b, a)
        BY WellFormedFields, NullAssumption
        DEF FEndsAfter, FEndsWithOrAfter, IsLessThan, IsGreaterThan, Equals
      <3> QED
        BY <1>5, <3>1, <3>2
        DEF RngContains, FOverlapsLeft, FOverlapsRight, FStartsWithOrBefore,
            FEndsWithOrAfter
    <2>3. ~ (Holds(x, a) /\ Holds(x, b))
      <3>1. ~ (x < x)
        OBVIOUS
      <3> QED
        BY <2>2, <3>1, DisjointLeftOrders
    <2> QED
      BY <2>1, <2>3 DEF Holds
  <1> QED
    BY <1>1, <1>2, <1>3, <1>4, <1>5

(* PrngDifferenceLeft: the values of the first range before the second starts
   (CRange::PrngDifferenceLeft). *)
THEOREM DifferenceLeftExact ==
    ASSUME NEW a, NEW b, WellFormed(a), WellFormed(b), NEW x \in Int
    PROVE  Holds(x, PrngDifferenceLeft(a, b)) <=>
               Holds(x, a) /\ ~ AboveLeft(x, b)
  <1>1. CASE FDisjointLeft(a, b)
    <2>1. PrngDifferenceLeft(a, b) = a
      BY <1>1 DEF PrngDifferenceLeft
    <2>2. Holds(x, a) => ~ AboveLeft(x, b)
      BY <1>1, WellFormedFields, NullAssumption
      DEF FDisjointLeft, Holds, AboveLeft, BelowRight, IsLessThan, Equals
    <2> QED
      BY <2>1, <2>2
  <1>2. CASE ~ FDisjointLeft(a, b) /\ b.l # NULL /\ FStartsBefore(a, b)
    <2>1. PrngDifferenceLeft(a, b) = Rng(a.l, a.li, b.l, ~ b.li)
      BY <1>2 DEF PrngDifferenceLeft
    <2>2. /\ Rng(a.l, a.li, b.l, ~ b.li) # NULL
          /\ Rng(a.l, a.li, b.l, ~ b.li).l = a.l
          /\ Rng(a.l, a.li, b.l, ~ b.li).li = a.li
          /\ Rng(a.l, a.li, b.l, ~ b.li).r = b.l
          /\ Rng(a.l, a.li, b.l, ~ b.li).ri = ~ b.li
      <3>1. /\ a.l \in Int \cup {NULL} /\ (a.li) \in BOOLEAN
            /\ b.l \in Int \cup {NULL} /\ (~ b.li) \in BOOLEAN
        BY WellFormedFields
      <3>2. Rng(a.l, a.li, b.l, ~ b.li) \in RangeType
        BY <3>1 DEF Rng, RangeType
      <3>3. Rng(a.l, a.li, b.l, ~ b.li) # NULL
        BY <3>2, NullAssumption
      <3> QED
        BY <3>3 DEF Rng
    <2>3. Holds(x, PrngDifferenceLeft(a, b)) <=>
              AboveLeft(x, a) /\ ~ AboveLeft(x, b)
      <3>1. (x < b.l \/ (b.l = x /\ ~ b.li)) <=> ~ AboveLeft(x, b)
        BY <1>2, WellFormedFields, NullAssumption DEF AboveLeft
      <3>2. BelowRight(x, Rng(a.l, a.li, b.l, ~ b.li)) <=>
                (x < b.l \/ (b.l = x /\ ~ b.li))
        BY <1>2, <2>2 DEF BelowRight
      <3>3. AboveLeft(x, Rng(a.l, a.li, b.l, ~ b.li)) <=> AboveLeft(x, a)
        BY <2>2 DEF AboveLeft
      <3> QED
        BY <2>1, <2>2, <3>1, <3>2, <3>3 DEF Holds
    <2>4. ~ AboveLeft(x, b) => BelowRight(x, a)
      BY <1>2, WellFormedFields, NullAssumption
      DEF FDisjointLeft, AboveLeft, BelowRight, IsLessThan, Equals
    <2> QED
      BY <2>3, <2>4, WellFormedFields DEF Holds
  <1>3. CASE ~ FDisjointLeft(a, b) /\ ~ (b.l # NULL /\ FStartsBefore(a, b))
    <2>1. PrngDifferenceLeft(a, b) = NULL
      BY <1>3 DEF PrngDifferenceLeft
    <2>2. AboveLeft(x, a) => AboveLeft(x, b)
      BY <1>3, WellFormedFields, NullAssumption
      DEF FStartsBefore, AboveLeft, IsLessThan, IsGreaterThan
    <2> QED
      BY <2>1, <2>2 DEF Holds
  <1> QED
    BY <1>1, <1>2, <1>3

(* PrngDifferenceRight: the values of the first range after the second ends
   (CRange::PrngDifferenceRight). *)
THEOREM DifferenceRightExact ==
    ASSUME NEW a, NEW b, WellFormed(a), WellFormed(b), NEW x \in Int
    PROVE  Holds(x, PrngDifferenceRight(a, b)) <=>
               Holds(x, a) /\ ~ BelowRight(x, b)
  <1>1. CASE FDisjointLeft(b, a)
    <2>1. PrngDifferenceRight(a, b) = a
      BY <1>1 DEF PrngDifferenceRight
    <2>2. Holds(x, a) => ~ BelowRight(x, b)
      BY <1>1, WellFormedFields, NullAssumption
      DEF FDisjointLeft, Holds, AboveLeft, BelowRight, IsLessThan, Equals
    <2> QED
      BY <2>1, <2>2
  <1>2. CASE ~ FDisjointLeft(b, a) /\ b.r # NULL /\ FEndsAfter(a, b)
    <2>1. PrngDifferenceRight(a, b) = Rng(b.r, ~ b.ri, a.r, a.ri)
      BY <1>2 DEF PrngDifferenceRight
    <2>2. /\ Rng(b.r, ~ b.ri, a.r, a.ri) # NULL
          /\ Rng(b.r, ~ b.ri, a.r, a.ri).l = b.r
          /\ Rng(b.r, ~ b.ri, a.r, a.ri).li = ~ b.ri
          /\ Rng(b.r, ~ b.ri, a.r, a.ri).r = a.r
          /\ Rng(b.r, ~ b.ri, a.r, a.ri).ri = a.ri
      <3>1. /\ b.r \in Int \cup {NULL} /\ (~ b.ri) \in BOOLEAN
            /\ a.r \in Int \cup {NULL} /\ a.ri \in BOOLEAN
        BY WellFormedFields
      <3>2. Rng(b.r, ~ b.ri, a.r, a.ri) \in RangeType
        BY <3>1 DEF Rng, RangeType
      <3>3. Rng(b.r, ~ b.ri, a.r, a.ri) # NULL
        BY <3>2, NullAssumption
      <3> QED
        BY <3>3 DEF Rng
    <2>3. Holds(x, PrngDifferenceRight(a, b)) <=>
              BelowRight(x, a) /\ ~ BelowRight(x, b)
      <3>1. (b.r < x \/ (b.r = x /\ ~ b.ri)) <=> ~ BelowRight(x, b)
        BY <1>2, WellFormedFields, NullAssumption DEF BelowRight
      <3>2. AboveLeft(x, Rng(b.r, ~ b.ri, a.r, a.ri)) <=>
                (b.r < x \/ (b.r = x /\ ~ b.ri))
        BY <1>2, <2>2 DEF AboveLeft
      <3>3. BelowRight(x, Rng(b.r, ~ b.ri, a.r, a.ri)) <=> BelowRight(x, a)
        BY <2>2 DEF BelowRight
      <3> QED
        BY <2>1, <2>2, <3>1, <3>2, <3>3 DEF Holds
    <2>4. ~ BelowRight(x, b) => AboveLeft(x, a)
      BY <1>2, WellFormedFields, NullAssumption
      DEF FDisjointLeft, AboveLeft, BelowRight, IsLessThan, Equals
    <2> QED
      BY <2>3, <2>4, WellFormedFields DEF Holds
  <1>3. CASE ~ FDisjointLeft(b, a) /\ ~ (b.r # NULL /\ FEndsAfter(a, b))
    <2>1. PrngDifferenceRight(a, b) = NULL
      BY <1>3 DEF PrngDifferenceRight
    <2>2. BelowRight(x, a) => BelowRight(x, b)
      BY <1>3, WellFormedFields, NullAssumption
      DEF FEndsAfter, BelowRight, IsLessThan, IsGreaterThan
    <2> QED
      BY <2>1, <2>2 DEF Holds
  <1> QED
    BY <1>1, <1>2, <1>3

(* PrngExtend: when the second range lies after the first and starts where it
   ends, the one range that replaces them holds the values of both
   (CRange::PrngExtend, as AppendOrExtend calls it). *)
THEOREM ExtendExact ==
    ASSUME NEW a, NEW b, WellFormed(a), WellFormed(b), FDisjointLeft(a, b),
           PrngExtend(a, b) # NULL, NEW x \in Int
    PROVE  Holds(x, PrngExtend(a, b)) <=> Holds(x, a) \/ Holds(x, b)
  <1>1. (b.li \/ a.ri) /\ Equals(b.l, a.r)
    BY DEF PrngExtend
  <1>2. PrngExtend(a, b) = Rng(a.l, a.li, b.r, b.ri)
    BY <1>1 DEF PrngExtend
  <1>3. /\ b.l # NULL /\ a.r # NULL /\ b.l = a.r
    BY <1>1, WellFormedFields, NullAssumption DEF FDisjointLeft, Equals
  <1>4. Holds(x, PrngExtend(a, b)) <=> AboveLeft(x, a) /\ BelowRight(x, b)
    BY <1>2 DEF Holds, AboveLeft, BelowRight, Rng
  <1>5. /\ BelowRight(x, a) \/ AboveLeft(x, b)
        /\ BelowRight(x, a) => BelowRight(x, b)
        /\ AboveLeft(x, b) => AboveLeft(x, a)
    BY <1>1, <1>3, WellFormedFields, NullAssumption
    DEF AboveLeft, BelowRight
  <1> QED
    BY <1>4, <1>5, WellFormedFields DEF Holds

-----------------------------------------------------------------------------
(* Ranges that are apart. *)

(* The first range ends before the second starts, and a value between them is
   in neither. *)
Apart(a, b) ==
    /\ a.r # NULL /\ b.l # NULL
    /\ a.r < b.l \/ (a.r = b.l /\ ~ a.ri /\ ~ b.li)

(* A well formed range whose ends are in D. *)
RangeOver(D, a) == WellFormed(a) /\ {a.l, a.r} \subseteq D \cup {NULL}

(* Ranges that are apart are disjoint, and disjoint ranges that PrngExtend does
   not join are apart. *)
LEMMA ApartIsDisjoint ==
    ASSUME NEW a, NEW b, WellFormed(a), WellFormed(b)
    PROVE  /\ Apart(a, b) => FDisjointLeft(a, b)
           /\ FDisjointLeft(a, b) /\ PrngExtend(a, b) = NULL => Apart(a, b)
<1>1. Apart(a, b) => FDisjointLeft(a, b)
  BY WellFormedFields, NullAssumption DEF Apart, FDisjointLeft, IsLessThan, Equals
<1>2. ASSUME FDisjointLeft(a, b), PrngExtend(a, b) = NULL PROVE Apart(a, b)
  <2>1. Rng(a.l, a.li, b.r, b.ri) # NULL
    BY WellFormedFields, NullAssumption DEF Rng, RangeType
  <2>2. ~ ((b.li \/ a.ri) /\ Equals(b.l, a.r))
    BY <1>2, <2>1 DEF PrngExtend
  <2> QED
    BY <1>2, <2>2, WellFormedFields, NullAssumption DEF Apart, FDisjointLeft, IsLessThan, Equals
<1> QED
  BY <1>1, <1>2

(* What lies before a range lies apart from what that range is apart from. *)
LEMMA ApartTransitive ==
    ASSUME NEW a, NEW b, NEW c, WellFormed(a), WellFormed(b), WellFormed(c),
           FDisjointLeft(a, b), Apart(b, c)
    PROVE  Apart(a, c)
  BY WellFormedFields, NullAssumption DEF Apart, FDisjointLeft, IsLessThan, Equals

(* Lying before is transitive on ranges that hold a value. *)
LEMMA DisjointTransitive ==
    ASSUME NEW a, NEW b, NEW c, WellFormed(a), WellFormed(b), WellFormed(c),
           FDisjointLeft(a, b), FDisjointLeft(b, c)
    PROVE  FDisjointLeft(a, c)
  BY WellFormedFields, NullAssumption DEF FDisjointLeft, IsLessThan, Equals

(* One of two ranges ends with or after the other. *)
LEMMA EndsTotal ==
    ASSUME NEW a, NEW b, WellFormed(a), WellFormed(b)
    PROVE  /\ FEndsAfter(a, b) => FEndsWithOrAfter(a, b)
           /\ ~ FEndsAfter(a, b) => FEndsWithOrAfter(b, a)
           /\ ~ FEndsWithOrAfter(a, b) => FEndsAfter(b, a)
  BY WellFormedFields, NullAssumption
  DEF FEndsAfter, FEndsWithOrAfter, IsLessThan, IsGreaterThan, Equals

(* What ends with or after a range has its values on the left of its end. *)
LEMMA EndsMeaning ==
    ASSUME NEW a, NEW b, WellFormed(a), WellFormed(b), FEndsWithOrAfter(b, a),
           NEW x \in Int, BelowRight(x, a)
    PROVE  BelowRight(x, b)
  BY WellFormedFields, NullAssumption
  DEF FEndsWithOrAfter, FEndsAfter, BelowRight, IsLessThan, IsGreaterThan, Equals

(* What lies after a range lies after every range that ends no later *)
LEMMA EndsDisjoint ==
    ASSUME NEW a, NEW b, NEW c, WellFormed(a), WellFormed(b), WellFormed(c),
           FEndsWithOrAfter(b, a)
    PROVE  /\ FDisjointLeft(b, c) => FDisjointLeft(a, c)
           /\ Apart(b, c) => Apart(a, c)
  BY WellFormedFields, NullAssumption
  DEF FEndsWithOrAfter, FEndsAfter, FDisjointLeft, Apart, IsLessThan, IsGreaterThan, Equals

(* The ends of an intersection. *)
LEMMA IntersectEnds ==
    ASSUME NEW a, NEW b, WellFormed(a), WellFormed(b), FEndsWithOrAfter(b, a),
           PrngIntersect(a, b) # NULL
    PROVE  LET n == PrngIntersect(a, b) IN
           /\ WellFormed(n)
           /\ n.r = a.r /\ n.ri = a.ri
           /\ \/ n.l = a.l /\ n.li = a.li /\ FStartsWithOrBefore(b, a)
              \/ n.l = b.l /\ n.li = b.li /\ FStartsWithOrBefore(a, b)
<1>1. CASE RngContains(a, b)
  <2>1. PrngIntersect(a, b) = b
    BY <1>1 DEF PrngIntersect
  <2>2. b.r = a.r /\ b.ri = a.ri
    BY <1>1, WellFormedFields, NullAssumption
    DEF RngContains, FEndsWithOrAfter, FEndsAfter, IsLessThan, IsGreaterThan, Equals
  <2> QED
    BY <1>1, <2>1, <2>2 DEF RngContains
<1>2. CASE ~ RngContains(a, b) /\ RngContains(b, a)
  <2>1. PrngIntersect(a, b) = a
    BY <1>2 DEF PrngIntersect
  <2> QED
    BY <1>2, <2>1 DEF RngContains
<1>3. CASE /\ ~ RngContains(a, b) /\ ~ RngContains(b, a)
           /\ FOverlapsLeft(a, b)
  <2>1. PrngIntersect(a, b) = Rng(b.l, b.li, a.r, a.ri)
    BY <1>3 DEF PrngIntersect
  <2>2. WellFormed(Rng(b.l, b.li, a.r, a.ri))
    <3>1. Rng(b.l, b.li, a.r, a.ri) \in RangeType
      BY WellFormedFields DEF Rng, RangeType
    <3>2. b.l # NULL /\ a.r # NULL => b.l < a.r \/ (b.l = a.r /\ b.li /\ a.ri)
      BY <1>3, WellFormedFields, NullAssumption DEF FOverlapsLeft, FDisjointLeft, IsLessThan, Equals
    <3> QED
      BY <3>1, <3>2, WellFormedFields DEF WellFormed, Rng
  <2>3. FStartsWithOrBefore(a, b)
    BY <1>3 DEF FOverlapsLeft, FStartsWithOrBefore
  <2> QED
    BY <2>1, <2>2, <2>3 DEF Rng
<1>4. CASE /\ ~ RngContains(a, b) /\ ~ RngContains(b, a)
           /\ ~ FOverlapsLeft(a, b)
  <2>1. ~ FOverlapsRight(a, b)
    <3>1. FStartsBefore(a, b) \/ FStartsWithOrBefore(b, a)
      BY WellFormedFields, NullAssumption
      DEF FStartsBefore, FStartsWithOrBefore, IsLessThan, IsGreaterThan, Equals
    <3> QED
      BY <1>4, <3>1 DEF FOverlapsRight, RngContains
  <2> QED
    BY <1>4, <2>1 DEF PrngIntersect
<1> QED
  BY <1>1, <1>2, <1>3, <1>4

(* An intersection is apart from what one of its ranges is apart from. *)
LEMMA IntersectApart ==
    ASSUME NEW a, NEW b, NEW d, WellFormed(a), WellFormed(b), WellFormed(d),
           FEndsWithOrAfter(b, a), PrngIntersect(a, b) # NULL,
           Apart(d, a) \/ Apart(d, b)
    PROVE  Apart(d, PrngIntersect(a, b))
<1> DEFINE n == PrngIntersect(a, b)
<1>1. \/ n.l = a.l /\ n.li = a.li /\ FStartsWithOrBefore(b, a)
      \/ n.l = b.l /\ n.li = b.li /\ FStartsWithOrBefore(a, b)
  BY IntersectEnds
<1> HIDE DEF n
<1>2. CASE n.l = a.l /\ n.li = a.li /\ FStartsWithOrBefore(b, a)
  <2>1. Apart(d, a)
    BY <1>2, WellFormedFields, NullAssumption
    DEF Apart, FStartsWithOrBefore, FStartsBefore, IsLessThan, IsGreaterThan, Equals
  <2> QED
    BY <1>2, <2>1 DEF Apart, n
<1>3. CASE n.l = b.l /\ n.li = b.li /\ FStartsWithOrBefore(a, b)
  <2>1. Apart(d, b)
    BY <1>3, WellFormedFields, NullAssumption
    DEF Apart, FStartsWithOrBefore, FStartsBefore, IsLessThan, IsGreaterThan, Equals
  <2> QED
    BY <1>3, <2>1 DEF Apart, n
<1> QED
  BY <1>1, <1>2, <1>3 DEF n

(* The ends of what is left of a range before another one. *)
LEMMA DifferenceLeftEnds ==
    ASSUME NEW a, NEW b, WellFormed(a), WellFormed(b), PrngDifferenceLeft(a, b) # NULL
    PROVE  LET n == PrngDifferenceLeft(a, b) IN
           /\ WellFormed(n)
           /\ n.l = a.l /\ n.li = a.li /\ n.r \in {a.r, b.l}
           /\ FDisjointLeft(n, b)
           /\ FEndsWithOrAfter(a, n)
<1>1. CASE FDisjointLeft(a, b)
  <2>1. PrngDifferenceLeft(a, b) = a
    BY <1>1 DEF PrngDifferenceLeft
  <2>2. FEndsWithOrAfter(a, a)
    BY WellFormedFields, NullAssumption DEF FEndsWithOrAfter, Equals
  <2> QED
    BY <1>1, <2>1, <2>2
<1>2. CASE ~ FDisjointLeft(a, b) /\ b.l # NULL /\ FStartsBefore(a, b)
  <2> DEFINE n == Rng(a.l, a.li, b.l, ~ b.li)
  <2>1. PrngDifferenceLeft(a, b) = n
    BY <1>2 DEF PrngDifferenceLeft
  <2>2. n.l = a.l /\ n.li = a.li /\ n.r = b.l /\ n.ri = ~ b.li
    BY DEF Rng
  <2>3. WellFormed(n)
    <3>1. n \in RangeType
      BY WellFormedFields DEF Rng, RangeType
    <3>2. a.l # NULL => a.l < b.l \/ (a.l = b.l /\ a.li /\ ~ b.li)
      BY <1>2, WellFormedFields, NullAssumption DEF FStartsBefore, IsLessThan, IsGreaterThan
    <3> HIDE DEF n
    <3> QED
      BY <1>2, <2>2, <3>1, <3>2, WellFormedFields DEF WellFormed
  <2> HIDE DEF n
  <2>4. FDisjointLeft(n, b)
    BY <1>2, <2>2, WellFormedFields, NullAssumption DEF FDisjointLeft, IsLessThan, Equals
  <2>5. FEndsWithOrAfter(a, n)
    BY <1>2, <2>2, <2>3, WellFormedFields, NullAssumption
    DEF FDisjointLeft, FEndsWithOrAfter, FEndsAfter, IsLessThan, IsGreaterThan, Equals
  <2> QED
    BY <2>1, <2>2, <2>3, <2>4, <2>5
<1> QED
  BY <1>1, <1>2 DEF PrngDifferenceLeft

(* The ends of what is left of a range after another one. *)
LEMMA DifferenceRightEnds ==
    ASSUME NEW a, NEW b, WellFormed(a), WellFormed(b),
           ~ FDisjointLeft(b, a), ~ FEndsWithOrAfter(b, a)
    PROVE  LET n == PrngDifferenceRight(a, b) IN
           /\ n # NULL /\ WellFormed(n)
           /\ n.r = a.r /\ n.ri = a.ri /\ n.l = b.r /\ n.l # NULL /\ n.li = ~ b.ri
           /\ FDisjointLeft(b, n)
           /\ FStartsWithOrBefore(a, n)
<1>1. b.r # NULL /\ FEndsAfter(a, b)
  BY EndsTotal, WellFormedFields, NullAssumption DEF FEndsWithOrAfter, FEndsAfter
<1> DEFINE n == Rng(b.r, ~ b.ri, a.r, a.ri)
<1>2. PrngDifferenceRight(a, b) = n
  BY <1>1 DEF PrngDifferenceRight
<1>3. n.r = a.r /\ n.ri = a.ri /\ n.l = b.r /\ n.li = ~ b.ri
  BY DEF Rng
<1>4. WellFormed(n)
  <2>1. n \in RangeType
    BY WellFormedFields DEF Rng, RangeType
  <2>2. a.r # NULL => b.r < a.r \/ (b.r = a.r /\ a.ri /\ ~ b.ri)
    BY <1>1, WellFormedFields, NullAssumption DEF FEndsAfter, IsLessThan, IsGreaterThan
  <2> HIDE DEF n
  <2> QED
    BY <1>1, <1>3, <2>1, <2>2, WellFormedFields DEF WellFormed
<1> HIDE DEF n
<1>5. FDisjointLeft(b, n)
  BY <1>1, <1>3, WellFormedFields, NullAssumption DEF FDisjointLeft, IsLessThan, Equals
<1>6. FStartsWithOrBefore(a, n)
  BY <1>1, <1>3, <1>4, WellFormedFields, NullAssumption
  DEF FDisjointLeft, FStartsWithOrBefore, FStartsBefore, IsLessThan, IsGreaterThan, Equals
<1> QED
  BY <1>1, <1>2, <1>3, <1>4, <1>5, <1>6, WellFormedFields

(* The ends of two ranges that touch, in one. *)
LEMMA ExtendEnds ==
    ASSUME NEW a, NEW b, WellFormed(a), WellFormed(b), FDisjointLeft(a, b),
           PrngExtend(a, b) # NULL
    PROVE  LET n == PrngExtend(a, b) IN
           WellFormed(n) /\ n.l = a.l /\ n.li = a.li /\ n.r = b.r /\ n.ri = b.ri
<1> DEFINE n == Rng(a.l, a.li, b.r, b.ri)
<1>1. PrngExtend(a, b) = n /\ b.l = a.r /\ b.l # NULL /\ a.r # NULL /\ (b.li \/ a.ri)
  BY WellFormedFields, NullAssumption DEF PrngExtend, FDisjointLeft, Equals
<1>2. n.l = a.l /\ n.li = a.li /\ n.r = b.r /\ n.ri = b.ri
  BY DEF Rng
<1>3. n \in RangeType
  BY WellFormedFields DEF Rng, RangeType
<1> HIDE DEF n
<1>4. a.l # NULL /\ b.r # NULL => a.l < b.r \/ (a.l = b.r /\ a.li /\ b.ri)
  BY <1>1, WellFormedFields, NullAssumption
<1>5. WellFormed(n)
  BY <1>2, <1>3, <1>4, WellFormedFields DEF WellFormed
<1> QED
  BY <1>1, <1>2, <1>5

-----------------------------------------------------------------------------
(* Arrays of ranges. *)

(* The arrays of ranges of an interval: in order and apart, as CConstraintInterval
   keeps them, with ends in D. *)
Arrays(D) ==
    {rs \in Seq(RangeType) :
        /\ \A k \in 1 .. Len(rs) : RangeOver(D, rs[k])
        /\ \A k \in 1 .. Len(rs) - 1 : Apart(rs[k], rs[k + 1])}

Within(x, rs) == \E k \in 1 .. Len(rs) : Holds(x, rs[k])

(* What it means to be such an array, in one place. *)
LEMMA ArrayFacts ==
    ASSUME NEW D, NEW rs \in Arrays(D)
    PROVE  /\ rs \in Seq(RangeType) /\ Len(rs) \in Nat
           /\ \A k \in 1 .. Len(rs) : RangeOver(D, rs[k]) /\ WellFormed(rs[k])
           /\ \A k \in 1 .. Len(rs) - 1 : Apart(rs[k], rs[k + 1])
           /\ rs # <<>> => Len(rs) \in 1 .. Len(rs) /\ WellFormed(rs[Len(rs)])
<1>1. rs \in Seq(RangeType)
  BY DEF Arrays
<1>2. \A k \in 1 .. Len(rs) : RangeOver(D, rs[k]) /\ WellFormed(rs[k])
  BY DEF Arrays, RangeOver
<1>3. Len(rs) \in Nat /\ (rs # <<>> => Len(rs) \in 1 .. Len(rs))
  BY <1>1
<1> QED
  BY <1>1, <1>2, <1>3 DEF Arrays

(* Every range of an array lies before every later one. *)
LEMMA ArrayApart ==
    ASSUME NEW D, NEW rs \in Arrays(D), NEW i \in 1 .. Len(rs), NEW j \in 1 .. Len(rs), i < j
    PROVE  Apart(rs[i], rs[j])
<1>1. Len(rs) \in Nat /\ \A k \in 1 .. Len(rs) : WellFormed(rs[k])
  BY DEF Arrays, RangeOver
<1> DEFINE G == {n \in Nat : i + 1 + n \in 1 .. Len(rs) => Apart(rs[i], rs[i + 1 + n])}
<1>2. 0 \in G
  <2>1. i + 1 \in 1 .. Len(rs) => i \in 1 .. Len(rs) - 1
    BY <1>1
  <2> QED
    BY <2>1 DEF Arrays
<1>3. ASSUME NEW n \in Nat, n \in G PROVE n + 1 \in G
  <2> SUFFICES ASSUME i + 1 + (n + 1) \in 1 .. Len(rs) PROVE Apart(rs[i], rs[i + 1 + (n + 1)])
    OBVIOUS
  <2> DEFINE k == i + 1 + n
  <2>1. k \in 1 .. Len(rs) /\ k \in 1 .. Len(rs) - 1 /\ k + 1 = i + 1 + (n + 1) /\ k + 1 \in 1 .. Len(rs)
    BY <1>1
  <2>2. Apart(rs[i], rs[k])
    BY <1>3, <2>1
  <2>3. Apart(rs[k], rs[k + 1])
    BY <2>1 DEF Arrays
  <2> HIDE DEF k
  <2>4. Apart(rs[i], rs[k + 1])
    BY <1>1, <2>1, <2>2, <2>3, ApartIsDisjoint, ApartTransitive
  <2> QED
    BY <2>1, <2>4
<1>4. Nat \subseteq G
  BY <1>2, <1>3, NaturalSteps
<1>5. j - i - 1 \in Nat /\ i + 1 + (j - i - 1) = j
  BY <1>1
<1>6. j - i - 1 \in G
  BY <1>4, <1>5
<1> QED
  BY <1>5, <1>6

(* So no value is in two ranges, and what a value is after or before in one of
   them it is in the later or the earlier ones. *)
LEMMA ArrayOrder ==
    ASSUME NEW D, NEW rs \in Arrays(D), NEW i \in 1 .. Len(rs), NEW j \in 1 .. Len(rs), i < j,
           NEW x \in Int
    PROVE  /\ BelowRight(x, rs[i]) => ~ AboveLeft(x, rs[j])
           /\ BelowRight(x, rs[i]) => BelowRight(x, rs[j])
           /\ AboveLeft(x, rs[j]) => AboveLeft(x, rs[i])
<1>1. Apart(rs[i], rs[j])
  BY ArrayApart
<1>2. WellFormed(rs[i]) /\ WellFormed(rs[j])
  BY DEF Arrays, RangeOver
<1> QED
  BY <1>1, <1>2, WellFormedFields, NullAssumption DEF Apart, BelowRight, AboveLeft

(* The array without ranges. *)
LEMMA EmptyArray == ASSUME NEW D PROVE <<>> \in Arrays(D) /\ \A x : ~ Within(x, <<>>)
  BY DEF Arrays, Within

(* An array grows by a range that is apart from its last one. *)
LEMMA AppendArray ==
    ASSUME NEW D, NEW rs \in Arrays(D), NEW n, RangeOver(D, n),
           rs = <<>> \/ Apart(rs[Len(rs)], n)
    PROVE  LET t == Append(rs, n) IN
           /\ t \in Arrays(D) /\ t # <<>> /\ t[Len(t)] = n
           /\ \A x : Within(x, t) <=> Within(x, rs) \/ Holds(x, n)
<1> DEFINE t == Append(rs, n)
<1>1. rs \in Seq(RangeType) /\ n \in RangeType /\ Len(rs) \in Nat
  BY WellFormedFields DEF Arrays, RangeOver
<1>2. /\ t \in Seq(RangeType) /\ Len(t) = Len(rs) + 1 /\ t[Len(rs) + 1] = n /\ t # <<>>
      /\ \A k \in 1 .. Len(rs) : t[k] = rs[k]
  BY <1>1, AppendProperties
<1> HIDE DEF t
<1>3. \A k \in 1 .. Len(t) : RangeOver(D, t[k])
  <2> TAKE k \in 1 .. Len(t)
  <2>1. k \in 1 .. Len(rs) \/ k = Len(rs) + 1
    BY <1>1, <1>2
  <2> QED
    BY <1>2, <2>1 DEF Arrays
<1>4. \A k \in 1 .. Len(t) - 1 : Apart(t[k], t[k + 1])
  <2> TAKE k \in 1 .. Len(t) - 1
  <2>1. CASE k = Len(rs)
    <3>1. k \in 1 .. Len(rs) /\ rs # <<>> /\ t[k] = rs[Len(rs)] /\ t[k + 1] = n
      BY <1>1, <1>2, <2>1
    <3> QED
      BY <3>1
  <2>2. CASE k # Len(rs)
    <3>1. k \in 1 .. Len(rs) - 1 /\ k \in 1 .. Len(rs) /\ k + 1 \in 1 .. Len(rs)
      BY <1>1, <1>2, <2>2
    <3> QED
      BY <1>2, <3>1 DEF Arrays
  <2> QED
    BY <2>1, <2>2
<1>5. ASSUME NEW x PROVE Within(x, t) <=> Within(x, rs) \/ Holds(x, n)
  <2>1. \A k : k \in 1 .. Len(t) <=> k \in 1 .. Len(rs) \/ k = Len(rs) + 1
    BY <1>1, <1>2
  <2> QED
    BY <1>2, <2>1 DEF Within
<1>6. t \in Arrays(D) /\ t[Len(t)] = n
  BY <1>2, <1>3, <1>4 DEF Arrays
<1> QED
  BY <1>2, <1>5, <1>6 DEF t

(* A sequence without its last element. *)
LEMMA FrontOfSeq ==
    ASSUME NEW S, NEW s \in Seq(S), s # <<>>
    PROVE  LET f == SubSeq(s, 1, Len(s) - 1) IN
           f \in Seq(S) /\ Len(f) = Len(s) - 1 /\ \A k \in 1 .. Len(s) - 1 : f[k] = s[k]
<1> DEFINE f == SubSeq(s, 1, Len(s) - 1)
<1>1. Len(s) \in Nat /\ 1 <= Len(s) /\ \A k \in 1 .. Len(s) : s[k] \in S
  OBVIOUS
<1>2. 1 \in Int /\ Len(s) - 1 \in Int /\ \A k \in 1 .. Len(s) - 1 : s[k] \in S
  BY <1>1
<1>3. /\ f \in Seq(S)
      /\ Len(f) = IF 1 <= Len(s) - 1 THEN (Len(s) - 1) - 1 + 1 ELSE 0
      /\ \A k \in 1 .. (Len(s) - 1) - 1 + 1 : f[k] = s[1 + k - 1]
  BY <1>2, SubSeqProperties
<1> HIDE DEF f
<1>4. Len(f) = Len(s) - 1
  <2>1. CASE 1 <= Len(s) - 1
    <3>1. Len(f) = (Len(s) - 1) - 1 + 1
      BY <1>3, <2>1, Zenon
    <3> QED
      BY <1>1, <3>1
  <2>2. CASE ~ (1 <= Len(s) - 1)
    <3>1. Len(f) = 0
      BY <1>3, <2>2, Zenon
    <3>2. Len(s) = 1 /\ Len(s) - 1 = 0
      <4>1. \A n \in Nat : 1 <= n /\ ~ (1 <= n - 1) => n = 1 /\ n - 1 = 0
        OBVIOUS
      <4> QED
        BY <1>1, <2>2, <4>1, Zenon
    <3> QED
      BY <3>1, <3>2, Zenon
  <2> QED
    BY <2>1, <2>2, Zenon
<1>5. ASSUME NEW k \in 1 .. Len(s) - 1 PROVE f[k] = s[k]
  <2>1. k \in 1 .. (Len(s) - 1) - 1 + 1 /\ 1 + k - 1 = k
    BY <1>1
  <2> QED
    BY <1>3, <2>1
<1> QED
  BY <1>3, <1>4, <1>5

(* CConstraintInterval::AppendOrExtend keeps the array in order and adds the
   values of the range. *)
LEMMA AppendOrExtendArray ==
    ASSUME NEW D, NEW rs \in Arrays(D), NEW n, RangeOver(D, n),
           rs = <<>> \/ FDisjointLeft(rs[Len(rs)], n)
    PROVE  LET t == AppendOrExtend(rs, n) IN
           /\ t \in Arrays(D) /\ t # <<>>
           /\ t[Len(t)].r = n.r /\ t[Len(t)].ri = n.ri
           /\ \A x \in Int : Within(x, t) <=> Within(x, rs) \/ Holds(x, n)
<1>1. rs \in Seq(RangeType) /\ n \in RangeType /\ n # NULL /\ Len(rs) \in Nat
  BY WellFormedFields DEF Arrays, RangeOver
<1>2. CASE rs = <<>>
  <2> DEFINE t == Append(rs, n)
  <2>1. AppendOrExtend(rs, n) = <<n>> /\ t = <<n>>
    BY <1>1, <1>2 DEF AppendOrExtend
  <2>2. t \in Arrays(D) /\ t # <<>> /\ t[Len(t)] = n /\ \A x : Within(x, t) <=> Within(x, rs) \/ Holds(x, n)
    <3>1. rs = <<>> \/ Apart(rs[Len(rs)], n)
      BY <1>2
    <3> QED
      BY <3>1, AppendArray, Zenon
  <2> HIDE DEF t
  <2> QED
    BY <2>1, <2>2
<1>3. CASE rs # <<>> /\ PrngExtend(rs[Len(rs)], n) = NULL
  <2>1. AppendOrExtend(rs, n) = Append(rs, n)
    BY <1>1, <1>3 DEF AppendOrExtend, Last
  <2>2. WellFormed(rs[Len(rs)]) /\ WellFormed(n)
    BY <1>1, <1>3 DEF Arrays, RangeOver
  <2>3. Apart(rs[Len(rs)], n)
    BY <1>3, <2>2, ApartIsDisjoint
  <2> QED
    BY <2>1, <2>3, AppendArray
<1>4. CASE rs # <<>> /\ PrngExtend(rs[Len(rs)], n) # NULL
  <2> DEFINE last == rs[Len(rs)]
             e == PrngExtend(last, n)
             f == SubSeq(rs, 1, Len(rs) - 1)
  <2>1. AppendOrExtend(rs, n) = Append(f, e)
    BY <1>1, <1>4 DEF AppendOrExtend, Last, Front
  <2>2. WellFormed(last) /\ WellFormed(n) /\ FDisjointLeft(last, n) /\ RangeOver(D, last)
    BY <1>1, <1>4 DEF Arrays, RangeOver
  <2>3. WellFormed(e) /\ e.l = last.l /\ e.li = last.li /\ e.r = n.r /\ e.ri = n.ri
    BY <1>4, <2>2, ExtendEnds
  <2>4. RangeOver(D, e)
    BY <2>2, <2>3 DEF RangeOver
  <2>5. \A x \in Int : Holds(x, e) <=> Holds(x, last) \/ Holds(x, n)
    BY <1>4, <2>2, ExtendExact
  <2>6. f \in Seq(RangeType) /\ Len(f) = Len(rs) - 1 /\ \A k \in 1 .. Len(rs) - 1 : f[k] = rs[k]
    BY <1>1, <1>4, FrontOfSeq
  <2>7. Len(rs) - 1 \in Nat /\ Len(rs) \in 1 .. Len(rs)
    BY <1>1, <1>4
  <2> HIDE DEF f, e
  <2>8. f \in Arrays(D)
    <3>1. \A k \in 1 .. Len(f) : k \in 1 .. Len(rs)
      BY <2>6, <2>7
    <3>2. \A k \in 1 .. Len(f) - 1 : k \in 1 .. Len(rs) - 1 /\ k + 1 \in 1 .. Len(rs) - 1
      BY <2>6, <2>7
    <3> QED
      BY <2>6, <3>1, <3>2 DEF Arrays
  <2>9. f = <<>> \/ Apart(f[Len(f)], e)
    <3> SUFFICES ASSUME f # <<>> PROVE Apart(f[Len(f)], e)
      OBVIOUS
    <3>1. Len(f) \in 1 .. Len(rs) - 1 /\ Len(f) + 1 = Len(rs)
      BY <2>6, <2>7
    <3>2. Apart(f[Len(f)], last)
      BY <2>6, <3>1 DEF Arrays
    <3> QED
      BY <2>3, <3>2 DEF Apart
  <2>10. \A x \in Int : Within(x, rs) <=> Within(x, f) \/ Holds(x, last)
    <3>1. \A k : k \in 1 .. Len(rs) <=> k \in 1 .. Len(f) \/ k = Len(rs)
      BY <2>6, <2>7
    <3>2. \A k \in 1 .. Len(f) : f[k] = rs[k]
      BY <2>6
    <3> QED
      BY <3>1, <3>2 DEF Within
  <2> DEFINE t == Append(f, e)
  <2>11. t \in Arrays(D) /\ t # <<>> /\ t[Len(t)] = e /\ \A x : Within(x, t) <=> Within(x, f) \/ Holds(x, e)
    BY <2>4, <2>8, <2>9, AppendArray
  <2> HIDE DEF t
  <2>12. \A x \in Int : Within(x, t) <=> Within(x, rs) \/ Holds(x, n)
    BY <2>5, <2>10, <2>11
  <2>13. t = AppendOrExtend(rs, n)
    BY <2>1 DEF t
  <2> QED
    BY <2>3, <2>11, <2>12, <2>13
<1> QED
  BY <1>2, <1>3, <1>4

-----------------------------------------------------------------------------
(* The merge loops. *)

(* What a loop ends with: its state after as many iterations as its measure
   allows is one that the iteration leaves as it is. *)
IsMeasure(m, S, F) == m \in [S -> Nat] /\ \A t \in S : F[t] # t => m[F[t]] < m[t]
Runs(h, S, F, s) == h[0] = s /\ \A n \in Nat : h[n] \in S => h[n + 1] = F[h[n]]

(* A loop whose body decreases the measure of its state, or leaves the state
   alone, has nothing left to do after as many iterations. *)
LEMMA LoopEnds ==
    ASSUME NEW S, NEW F, IsMap(F, S), NEW s \in S, NEW h, Runs(h, S, F, s),
           NEW m, IsMeasure(m, S, F), NEW k \in Nat, m[s] <= k
    PROVE  h[k] \in S /\ F[h[k]] = h[k]
<1>1. F \in [S -> S] /\ h[0] = s /\ \A n \in Nat : h[n] \in S => h[n + 1] = F[h[n]]
  BY DEF IsMap, Runs
<1>2. m \in [S -> Nat] /\ \A t \in S : F[t] # t => m[F[t]] < m[t]
  BY DEF IsMeasure
<1>3. \A n \in Nat : h[n] \in S /\ h[n + 1] = F[h[n]]
  BY <1>1, IterationKeeps
<1> QED
  BY <1>1, <1>2, <1>3, IterationEnds

(* The positions of the loops over two arrays, and what they have left. *)
LoopStates(D, fst, snd) ==
    [fst : 1 .. Len(fst) + 1, snd : 1 .. Len(snd) + 1,
     residual : RangeType \cup {NULL}, dest : Arrays(D)]
Left(fst, snd, s) == (Len(fst) + 1 - s.fst) + (Len(snd) + 1 - s.snd)

(* The positions of a loop and what they leave are numbers. *)
LEMMA LoopStatesFacts ==
    ASSUME NEW D, NEW fst \in Arrays(D), NEW snd \in Arrays(D)
    PROVE  /\ Len(fst) \in Nat /\ Len(snd) \in Nat /\ Iterations(fst, snd) \in Nat
           /\ LoopStart \in LoopStates(D, fst, snd)
           /\ Left(fst, snd, LoopStart) = Iterations(fst, snd)
           /\ \A s \in LoopStates(D, fst, snd) :
                 /\ Left(fst, snd, s) \in Nat
                 /\ s.fst \in 1 .. Len(fst) + 1 /\ s.fst \in Nat
                 /\ s.snd \in 1 .. Len(snd) + 1 /\ s.snd \in Nat
                 /\ s.dest \in Arrays(D)
                 /\ s.fst <= Len(fst) => /\ s.fst \in 1 .. Len(fst) /\ RangeOver(D, fst[s.fst])
                                         /\ WellFormed(fst[s.fst])
                 /\ s.snd <= Len(snd) => /\ s.snd \in 1 .. Len(snd) /\ RangeOver(D, snd[s.snd])
                                         /\ WellFormed(snd[s.snd])
<1>1. Len(fst) \in Nat /\ Len(snd) \in Nat
  BY DEF Arrays
<1>2. LoopStart \in LoopStates(D, fst, snd) /\ Left(fst, snd, LoopStart) = Iterations(fst, snd)
  BY <1>1, EmptyArray DEF LoopStart, LoopStates, Left, Iterations
<1>3. ASSUME NEW s \in LoopStates(D, fst, snd)
      PROVE  /\ Left(fst, snd, s) \in Nat
             /\ s.fst \in 1 .. Len(fst) + 1 /\ s.fst \in Nat
             /\ s.snd \in 1 .. Len(snd) + 1 /\ s.snd \in Nat
             /\ s.dest \in Arrays(D)
             /\ s.fst <= Len(fst) => s.fst \in 1 .. Len(fst) /\ RangeOver(D, fst[s.fst])
                                     /\ WellFormed(fst[s.fst])
             /\ s.snd <= Len(snd) => s.snd \in 1 .. Len(snd) /\ RangeOver(D, snd[s.snd])
                                     /\ WellFormed(snd[s.snd])
  <2>1. s.fst \in 1 .. Len(fst) + 1 /\ s.snd \in 1 .. Len(snd) + 1 /\ s.dest \in Arrays(D)
    BY DEF LoopStates
  <2>2. Left(fst, snd, s) \in Nat /\ s.fst \in Nat /\ s.snd \in Nat
    BY <1>1, <2>1, SMTT(30) DEF Left
  <2>3. /\ s.fst <= Len(fst) => s.fst \in 1 .. Len(fst)
        /\ s.snd <= Len(snd) => s.snd \in 1 .. Len(snd)
    BY <1>1, <2>1
  <2> QED
    BY <2>1, <2>2, <2>3 DEF Arrays, RangeOver
<1> QED
  BY <1>1, <1>2, <1>3 DEF Iterations

(* Going past a range leaves one range less. *)
LEMMA NextFstState ==
    ASSUME NEW D, NEW fst \in Arrays(D), NEW snd \in Arrays(D),
           NEW s \in LoopStates(D, fst, snd), NEW dest \in Arrays(D),
           s.fst <= Len(fst)
    PROVE  LET t == NextFst(s, dest) IN
           /\ t \in LoopStates(D, fst, snd) /\ Left(fst, snd, t) < Left(fst, snd, s)
           /\ t.fst = s.fst + 1 /\ t.snd = s.snd /\ t.residual = NULL /\ t.dest = dest
<1> DEFINE t == NextFst(s, dest)
<1>1. /\ s.fst \in 1 .. Len(fst) + 1 /\ s.fst \in Nat /\ s.snd \in 1 .. Len(snd) + 1 /\ s.snd \in Nat
      /\ Len(fst) \in Nat /\ Len(snd) \in Nat
  BY LoopStatesFacts
<1>2. t = [fst |-> s.fst + 1, snd |-> s.snd, residual |-> NULL, dest |-> dest]
  BY DEF NextFst
<1>3. s.fst + 1 \in 1 .. Len(fst) + 1
  BY <1>1
<1> HIDE DEF t
<1>4. t \in LoopStates(D, fst, snd)
  BY <1>1, <1>2, <1>3 DEF LoopStates
<1>5. Left(fst, snd, t) < Left(fst, snd, s)
  BY <1>1, <1>2 DEF Left
<1> QED
  BY <1>2, <1>4, <1>5 DEF t

(* Going past a range of the second array, the same. *)
LEMMA NextSndState ==
    ASSUME NEW D, NEW fst \in Arrays(D), NEW snd \in Arrays(D),
           NEW s \in LoopStates(D, fst, snd), NEW dest \in Arrays(D), NEW res \in RangeType \cup {NULL},
           s.snd <= Len(snd)
    PROVE  LET t == NextSnd(s, res, dest) IN
           /\ t \in LoopStates(D, fst, snd) /\ Left(fst, snd, t) < Left(fst, snd, s)
           /\ t.snd = s.snd + 1 /\ t.fst = s.fst /\ t.residual = res /\ t.dest = dest
<1> DEFINE t == NextSnd(s, res, dest)
<1>1. /\ s.fst \in 1 .. Len(fst) + 1 /\ s.fst \in Nat /\ s.snd \in 1 .. Len(snd) + 1 /\ s.snd \in Nat
      /\ Len(fst) \in Nat /\ Len(snd) \in Nat
  BY LoopStatesFacts
<1>2. t = [fst |-> s.fst, snd |-> s.snd + 1, residual |-> res, dest |-> dest]
  BY DEF NextSnd
<1>3. s.snd + 1 \in 1 .. Len(snd) + 1
  BY <1>1
<1> HIDE DEF t
<1>4. t \in LoopStates(D, fst, snd)
  BY <1>1, <1>2, <1>3 DEF LoopStates
<1>5. Left(fst, snd, t) < Left(fst, snd, s)
  BY <1>1, <1>2 DEF Left
<1> QED
  BY <1>2, <1>4, <1>5 DEF t

-----------------------------------------------------------------------------
(* PciIntersect. *)

(* One of the two cases of the loop: the first range goes. *)
IntersectHalfOf(D, p, i, q, j, dest, t) ==
    /\ t \in Arrays(D)
    /\ t # <<>> => \/ i + 1 <= Len(p) /\ Apart(t[Len(t)], p[i + 1])
                   \/ i + 1 <= Len(p) => Apart(t[Len(t)], q[j])
    /\ \A x \in Int : /\ Within(x, t) <=> Within(x, dest) \/ (Holds(x, p[i]) /\ Holds(x, q[j]))
                      /\ \A l \in 1 .. Len(q) : j < l => ~ (Holds(x, p[i]) /\ Holds(x, q[l]))

(* An iteration of the intersection adds the values that the range that goes
   shares with the other array. *)
LEMMA IntersectHalf ==
    ASSUME NEW D, NEW p \in Arrays(D), NEW q \in Arrays(D), NEW dest \in Arrays(D),
           NEW i \in 1 .. Len(p), NEW j \in 1 .. Len(q),
           FEndsWithOrAfter(q[j], p[i]),
           dest # <<>> => Apart(dest[Len(dest)], p[i]) \/ Apart(dest[Len(dest)], q[j]),
           NEW t, t = IF PrngIntersect(p[i], q[j]) = NULL THEN dest
                      ELSE Append(dest, PrngIntersect(p[i], q[j]))
    PROVE  IntersectHalfOf(D, p, i, q, j, dest, t)
<1> DEFINE new == PrngIntersect(p[i], q[j])
<1>1. /\ WellFormed(p[i]) /\ WellFormed(q[j]) /\ RangeOver(D, p[i]) /\ RangeOver(D, q[j])
      /\ \A k \in 1 .. Len(p) : WellFormed(p[k])
      /\ Len(p) \in Nat /\ Len(q) \in Nat /\ Len(dest) \in Nat
  BY ArrayFacts
<1>2. dest # <<>> => WellFormed(dest[Len(dest)])
  BY ArrayFacts
<1>3. \A x \in Int : Holds(x, new) <=> Holds(x, p[i]) /\ Holds(x, q[j])
  BY <1>1, IntersectExact
<1>4. new # NULL => /\ WellFormed(new) /\ new.r = p[i].r /\ new.ri = p[i].ri
                    /\ RangeOver(D, new)
                    /\ dest # <<>> => Apart(dest[Len(dest)], new)
  <2> SUFFICES ASSUME new # NULL
               PROVE  /\ WellFormed(new) /\ new.r = p[i].r /\ new.ri = p[i].ri
                      /\ RangeOver(D, new)
                      /\ dest # <<>> => Apart(dest[Len(dest)], new)
    OBVIOUS
  <2>1. /\ WellFormed(new) /\ new.r = p[i].r /\ new.ri = p[i].ri
        /\ new.l \in {p[i].l, q[j].l}
    BY <1>1, IntersectEnds
  <2>2. RangeOver(D, new)
    BY <1>1, <2>1 DEF RangeOver
  <2>3. dest # <<>> => Apart(dest[Len(dest)], new)
    BY <1>1, <1>2, IntersectApart
  <2> QED
    BY <2>1, <2>2, <2>3
<1>5. i + 1 <= Len(p) => i + 1 \in 1 .. Len(p) /\ Apart(p[i], p[i + 1])
  <2>1. i + 1 <= Len(p) => i \in 1 .. Len(p) - 1 /\ i + 1 \in 1 .. Len(p)
    BY <1>1
  <2> QED
    BY <2>1 DEF Arrays
<1>6. ASSUME NEW x \in Int, NEW l \in 1 .. Len(q), j < l, Holds(x, p[i])
      PROVE  ~ Holds(x, q[l])
  <2>1. BelowRight(x, q[j])
    BY <1>1, <1>6, EndsMeaning DEF Holds
  <2>2. ~ AboveLeft(x, q[l])
    BY <1>6, <2>1, ArrayOrder
  <2> QED
    BY <2>2 DEF Holds
<1>7. CASE new = NULL
  <2>1. t = dest
    BY <1>7
  <2>2. \A x : ~ Holds(x, new)
    BY <1>7 DEF Holds
  <2>3. dest # <<>> /\ i + 1 <= Len(p) => Apart(dest[Len(dest)], p[i + 1]) \/ Apart(dest[Len(dest)], q[j])
    BY <1>1, <1>2, <1>5, ApartIsDisjoint, ApartTransitive
  <2> HIDE DEF new
  <2> QED
    BY <1>3, <1>6, <2>1, <2>2, <2>3 DEF IntersectHalfOf
<1>8. CASE new # NULL
  <2>1. /\ t = Append(dest, new) /\ t \in Arrays(D) /\ t # <<>> /\ t[Len(t)] = new
        /\ \A x : Within(x, t) <=> Within(x, dest) \/ Holds(x, new)
    BY <1>4, <1>8, AppendArray
  <2>2. i + 1 <= Len(p) => Apart(new, p[i + 1])
    BY <1>4, <1>5, <1>8 DEF Apart
  <2> HIDE DEF new
  <2> QED
    BY <1>3, <1>6, <2>1, <2>2 DEF IntersectHalfOf
<1> QED
  BY <1>7, <1>8

(* The values that two arrays share and that a range before the positions holds. *)
Met(x, fst, i, snd, j) ==
    \E k \in 1 .. Len(fst) : \E l \in 1 .. Len(snd) :
        Holds(x, fst[k]) /\ Holds(x, snd[l]) /\ (k < i \/ l < j)

IntersectStates(D, fst, snd) ==
    {s \in LoopStates(D, fst, snd) :
        /\ s.dest # <<>> /\ s.fst <= Len(fst) /\ s.snd <= Len(snd) =>
              \/ Apart(s.dest[Len(s.dest)], fst[s.fst])
              \/ Apart(s.dest[Len(s.dest)], snd[s.snd])
        /\ \A x \in Int : Within(x, s.dest) <=> Met(x, fst, s.fst, snd, s.snd)}

(* An iteration of the intersection keeps what its states are: the array that
   is built holds the values that both arrays hold before the positions. *)
LEMMA IntersectKeeps ==
    ASSUME NEW D, NEW fst \in Arrays(D), NEW snd \in Arrays(D), NEW s \in IntersectStates(D, fst, snd)
    PROVE  LET t == IntersectStep(fst, snd, s) IN
           /\ t \in IntersectStates(D, fst, snd)
           /\ t # s => Left(fst, snd, t) < Left(fst, snd, s)
           /\ t = s => s.fst > Len(fst) \/ s.snd > Len(snd)
<1> DEFINE t == IntersectStep(fst, snd, s)
           this == fst[s.fst]
           other == snd[s.snd]
           Out(new) == IF new = NULL THEN s.dest ELSE Append(s.dest, new)
<1>1. s \in LoopStates(D, fst, snd) /\ \A x \in Int : Within(x, s.dest) <=> Met(x, fst, s.fst, snd, s.snd)
  BY DEF IntersectStates
<1>2. CASE s.fst > Len(fst) \/ s.snd > Len(snd)
  BY <1>2 DEF IntersectStep
<1>3. ASSUME ~ (s.fst > Len(fst) \/ s.snd > Len(snd))
      PROVE  /\ s.fst \in 1 .. Len(fst) /\ s.snd \in 1 .. Len(snd)
             /\ s.fst <= Len(fst) /\ s.snd <= Len(snd)
             /\ s.dest \in Arrays(D) /\ s.fst \in Nat /\ s.snd \in Nat
             /\ Len(fst) \in Nat /\ Len(snd) \in Nat
             /\ Left(fst, snd, s) \in Nat
             /\ WellFormed(this) /\ WellFormed(other)
             /\ s.dest # <<>> => \/ Apart(s.dest[Len(s.dest)], this)
                                 \/ Apart(s.dest[Len(s.dest)], other)
  <2>1. /\ s.fst \in Nat /\ s.snd \in Nat /\ s.dest \in Arrays(D)
        /\ Len(fst) \in Nat /\ Len(snd) \in Nat /\ Left(fst, snd, s) \in Nat
    BY <1>1, LoopStatesFacts
  <2>2. s.fst <= Len(fst) /\ s.snd <= Len(snd)
    BY <1>3, <2>1
  <2>3. s.fst \in 1 .. Len(fst) /\ s.snd \in 1 .. Len(snd) /\ WellFormed(this) /\ WellFormed(other)
    BY <1>1, <2>2, LoopStatesFacts
  <2> QED
    BY <2>1, <2>2, <2>3 DEF IntersectStates
<1>4. CASE ~ (s.fst > Len(fst) \/ s.snd > Len(snd)) /\ FEndsAfter(other, this)
  <2> DEFINE d == Out(PrngIntersect(this, other))
  <2>1. t = NextFst(s, d)
    BY <1>4 DEF IntersectStep
  <2>2. FEndsWithOrAfter(other, this)
    BY <1>3, <1>4, EndsTotal
  <2>3. /\ d \in Arrays(D)
        /\ d # <<>> => \/ s.fst + 1 <= Len(fst) /\ Apart(d[Len(d)], fst[s.fst + 1])
                       \/ s.fst + 1 <= Len(fst) => Apart(d[Len(d)], other)
        /\ \A x \in Int : /\ Within(x, d) <=> Within(x, s.dest) \/ (Holds(x, this) /\ Holds(x, other))
                          /\ \A l \in 1 .. Len(snd) : s.snd < l => ~ (Holds(x, this) /\ Holds(x, snd[l]))
    <3>1. /\ s.fst \in 1 .. Len(fst) /\ s.snd \in 1 .. Len(snd) /\ s.dest \in Arrays(D)
          /\ s.dest # <<>> => \/ Apart(s.dest[Len(s.dest)], fst[s.fst])
                              \/ Apart(s.dest[Len(s.dest)], snd[s.snd])
      BY <1>3, <1>4
    <3>2. d = IF PrngIntersect(fst[s.fst], snd[s.snd]) = NULL THEN s.dest
              ELSE Append(s.dest, PrngIntersect(fst[s.fst], snd[s.snd]))
      OBVIOUS
    <3> HIDE DEF d
    <3>3. IntersectHalfOf(D, fst, s.fst, snd, s.snd, s.dest, d)
      BY <2>2, <3>1, <3>2, IntersectHalf
    <3> QED
      BY <3>3 DEF IntersectHalfOf
  <2> HIDE DEF d
  <2>4. /\ t \in LoopStates(D, fst, snd) /\ Left(fst, snd, t) < Left(fst, snd, s)
        /\ t.fst = s.fst + 1 /\ t.snd = s.snd /\ t.dest = d
    BY <1>1, <1>3, <1>4, <2>1, <2>3, NextFstState
  <2>5. ASSUME NEW x \in Int
        PROVE  Met(x, fst, s.fst + 1, snd, s.snd) <=> Met(x, fst, s.fst, snd, s.snd) \/ (Holds(x, this) /\ Holds(x, other))
    <3>1. \A k \in 1 .. Len(fst) : k < s.fst + 1 <=> k < s.fst \/ k = s.fst
      BY <1>3, <1>4
    <3>2. \A l \in 1 .. Len(snd) : l < s.snd \/ l = s.snd \/ s.snd < l
      BY <1>3, <1>4
    <3>3. \A l \in 1 .. Len(snd) : s.snd < l => ~ (Holds(x, this) /\ Holds(x, snd[l]))
      BY <2>3
    <3> QED
      BY <1>3, <1>4, <3>1, <3>2, <3>3 DEF Met
  <2>6. \A x \in Int : Within(x, d) <=> Met(x, fst, s.fst + 1, snd, s.snd)
    BY <1>1, <2>3, <2>5
  <2>7. t \in IntersectStates(D, fst, snd)
    BY <2>3, <2>4, <2>6 DEF IntersectStates
  <2>8. t # s
    BY <1>3, <1>4, <2>4
  <2> QED
    BY <2>4, <2>7, <2>8
<1>5. CASE ~ (s.fst > Len(fst) \/ s.snd > Len(snd)) /\ ~ FEndsAfter(other, this)
  <2> DEFINE d == Out(PrngIntersect(other, this))
  <2>1. t = NextSnd(s, NULL, d)
    BY <1>5 DEF IntersectStep
  <2>2. FEndsWithOrAfter(this, other)
    BY <1>3, <1>5, EndsTotal
  <2>3. /\ d \in Arrays(D)
        /\ d # <<>> => \/ s.snd + 1 <= Len(snd) /\ Apart(d[Len(d)], snd[s.snd + 1])
                       \/ s.snd + 1 <= Len(snd) => Apart(d[Len(d)], this)
        /\ \A x \in Int : /\ Within(x, d) <=> Within(x, s.dest) \/ (Holds(x, other) /\ Holds(x, this))
                          /\ \A k \in 1 .. Len(fst) : s.fst < k => ~ (Holds(x, other) /\ Holds(x, fst[k]))
    <3>1. /\ s.fst \in 1 .. Len(fst) /\ s.snd \in 1 .. Len(snd) /\ s.dest \in Arrays(D)
          /\ s.dest # <<>> => \/ Apart(s.dest[Len(s.dest)], snd[s.snd])
                              \/ Apart(s.dest[Len(s.dest)], fst[s.fst])
      BY <1>3, <1>5
    <3>2. d = IF PrngIntersect(snd[s.snd], fst[s.fst]) = NULL THEN s.dest
              ELSE Append(s.dest, PrngIntersect(snd[s.snd], fst[s.fst]))
      OBVIOUS
    <3> HIDE DEF d
    <3>3. IntersectHalfOf(D, snd, s.snd, fst, s.fst, s.dest, d)
      BY <2>2, <3>1, <3>2, IntersectHalf
    <3> QED
      BY <3>3 DEF IntersectHalfOf
  <2> HIDE DEF d
  <2>4. /\ t \in LoopStates(D, fst, snd) /\ Left(fst, snd, t) < Left(fst, snd, s)
        /\ t.fst = s.fst /\ t.snd = s.snd + 1 /\ t.dest = d
    BY <1>1, <1>3, <1>5, <2>1, <2>3, NextSndState
  <2>5. ASSUME NEW x \in Int
        PROVE  Met(x, fst, s.fst, snd, s.snd + 1) <=> Met(x, fst, s.fst, snd, s.snd) \/ (Holds(x, this) /\ Holds(x, other))
    <3>1. \A l \in 1 .. Len(snd) : l < s.snd + 1 <=> l < s.snd \/ l = s.snd
      BY <1>3, <1>5
    <3>2. \A k \in 1 .. Len(fst) : k < s.fst \/ k = s.fst \/ s.fst < k
      BY <1>3, <1>5
    <3>3. \A k \in 1 .. Len(fst) : s.fst < k => ~ (Holds(x, other) /\ Holds(x, fst[k]))
      BY <2>3
    <3> QED
      BY <1>3, <1>5, <3>1, <3>2, <3>3 DEF Met
  <2>6. \A x \in Int : Within(x, d) <=> Met(x, fst, s.fst, snd, s.snd + 1)
    BY <1>1, <2>3, <2>5
  <2>7. t \in IntersectStates(D, fst, snd)
    BY <2>3, <2>4, <2>6 DEF IntersectStates
  <2>8. t # s
    BY <1>3, <1>5, <2>4
  <2> QED
    BY <2>4, <2>7, <2>8
<1> QED
  BY <1>2, <1>4, <1>5

Pcis(D) == [rngs : Arrays(D), null : BOOLEAN]

(* The loop of PciIntersect is an iteration of its step. *)
LEMMA IntersectLoopIs ==
    ASSUME NEW fst, NEW snd, NEW S, LoopStart \in S,
           \A s \in S : IntersectStep(fst, snd, s) \in S
    PROVE  LET h == IntersectLoop(fst, snd) IN
           h[0] = LoopStart /\ \A n \in Nat : h[n + 1] = IntersectStep(fst, snd, h[n])
<1> DEFINE F == [s \in S |-> IntersectStep(fst, snd, s)]
           Is(h) == h = [n \in Nat |-> IF n = 0 THEN LoopStart
                                       ELSE IntersectStep(fst, snd, h[n - 1])]
<1>1. F \in [S -> S]
  OBVIOUS
<1>2. PICK g \in [Nat -> S] : g[0] = LoopStart /\ \A n \in Nat : g[n + 1] = F[g[n]]
  <2>1. IsMap(F, S)
    BY <1>1 DEF IsMap
  <2> HIDE DEF F
  <2>2. \E g : Iterates(g, S, F, LoopStart)
    BY <2>1, IterationExists
  <2> QED
    BY <2>2 DEF Iterates
<1>3. Is(g)
  <2>1. ASSUME NEW n \in Nat, n # 0 PROVE g[n] = IntersectStep(fst, snd, g[n - 1])
    <3>1. n - 1 \in Nat /\ (n - 1) + 1 = n
      BY <2>1
    <3>2. g[(n - 1) + 1] = F[g[n - 1]] /\ g[n - 1] \in S
      BY <1>2, <3>1
    <3> QED
      BY <3>1, <3>2
  <2> QED
    BY <1>2, <2>1
<1>4. IntersectLoop(fst, snd) = CHOOSE h : Is(h)
  BY DEF IntersectLoop
<1> DEFINE h == IntersectLoop(fst, snd)
<1>5. Is(h)
  BY <1>3, <1>4
<1> HIDE DEF h
<1>6. h[0] = LoopStart
  BY <1>5
<1>7. ASSUME NEW n \in Nat PROVE h[n + 1] = IntersectStep(fst, snd, h[n])
  <2>1. n + 1 \in Nat /\ n + 1 # 0 /\ (n + 1) - 1 = n
    OBVIOUS
  <2>2. h[n + 1] = IntersectStep(fst, snd, h[(n + 1) - 1])
    BY <1>5, <2>1
  <2> QED
    BY <2>1, <2>2
<1> QED
  BY <1>6, <1>7 DEF h

(* The loop of PciIntersect ends with the values that both arrays hold. *)
LEMMA IntersectLoopExact ==
    ASSUME NEW D, NEW fst \in Arrays(D), NEW snd \in Arrays(D)
    PROVE  LET dest == IntersectLoop(fst, snd)[Iterations(fst, snd)].dest IN
           /\ dest \in Arrays(D)
           /\ \A x \in Int : Within(x, dest) <=> Within(x, fst) /\ Within(x, snd)
<1> DEFINE S == IntersectStates(D, fst, snd)
           F == [s \in S |-> IntersectStep(fst, snd, s)]
           m == [s \in S |-> Left(fst, snd, s)]
           k == Iterations(fst, snd)
           h == IntersectLoop(fst, snd)
<1>1. LoopStart \in S
  <2>1. LoopStart \in LoopStates(D, fst, snd) /\ LoopStart.fst = 1 /\ LoopStart.snd = 1 /\ LoopStart.dest = <<>>
    BY LoopStatesFacts DEF LoopStart
  <2>2. \A x \in Int : ~ Within(x, <<>>) /\ ~ Met(x, fst, 1, snd, 1)
    <3>1. \A i \in 1 .. Len(fst) : ~ (i < 1)
      BY ArrayFacts
    <3>2. \A i \in 1 .. Len(snd) : ~ (i < 1)
      BY ArrayFacts
    <3> QED
      BY <3>1, <3>2, EmptyArray DEF Met
  <2> QED
    BY <2>1, <2>2 DEF IntersectStates
<1>2. F \in [S -> S]
  BY IntersectKeeps
<1>3. m \in [S -> Nat] /\ k \in Nat /\ m[LoopStart] <= k
  <2>1. \A s \in S : Left(fst, snd, s) \in Nat
    BY LoopStatesFacts DEF IntersectStates
  <2>2. m \in [S -> Nat]
    BY <2>1
  <2>3. m[LoopStart] = k /\ k \in Nat
    BY <1>1, LoopStatesFacts
  <2> QED
    BY <2>2, <2>3
<1>4. \A s \in S : F[s] # s => m[F[s]] < m[s]
  BY IntersectKeeps
<1>5. h[0] = LoopStart /\ \A n \in Nat : h[n] \in S => h[n + 1] = F[h[n]]
  BY <1>1, IntersectLoopIs, IntersectKeeps
<1> HIDE DEF h
<1>6. h[k] \in S /\ F[h[k]] = h[k]
  <2> HIDE DEF S, F, m, k
  <2>1. IsMap(F, S) /\ IsMeasure(m, S, F) /\ Runs(h, S, F, LoopStart)
    BY <1>2, <1>3, <1>4, <1>5 DEF IsMap, IsMeasure, Runs
  <2> QED
    BY <1>1, <1>3, <2>1, LoopEnds
<1> DEFINE s == h[k]
<1>7. s \in S /\ (s.fst > Len(fst) \/ s.snd > Len(snd))
  BY <1>6, IntersectKeeps
<1> HIDE DEF s
<1>8. /\ s.dest \in Arrays(D)
      /\ \A i \in 1 .. Len(fst) : s.fst > Len(fst) => i < s.fst
      /\ \A i \in 1 .. Len(snd) : s.snd > Len(snd) => i < s.snd
  <2>1. s \in LoopStates(D, fst, snd)
    BY <1>7 DEF IntersectStates
  <2>2. s.dest \in Arrays(D) /\ s.fst \in Nat /\ s.snd \in Nat /\ Len(fst) \in Nat /\ Len(snd) \in Nat
    BY <2>1, LoopStatesFacts
  <2> QED
    BY <2>2
<1>9. \A x \in Int : Met(x, fst, s.fst, snd, s.snd) <=> Within(x, fst) /\ Within(x, snd)
  BY <1>7, <1>8 DEF Met, Within
<1> QED
  BY <1>7, <1>8, <1>9 DEF IntersectStates, s, h

(* PciIntersect: the values, and NULL, that both intervals hold
   (CConstraintInterval::PciIntersect). *)
THEOREM PciIntersectExact ==
    ASSUME NEW D, NEW p \in Pcis(D), NEW q \in Pcis(D)
    PROVE  LET t == PciIntersect(p, q) IN
           /\ t \in Pcis(D) /\ t.null = (p.null /\ q.null)
           /\ \A x \in Int : Within(x, t.rngs) <=> Within(x, p.rngs) /\ Within(x, q.rngs)
<1>1. p.rngs \in Arrays(D) /\ q.rngs \in Arrays(D) /\ p.null \in BOOLEAN /\ q.null \in BOOLEAN
  BY DEF Pcis
<1> DEFINE dest == IntersectLoop(p.rngs, q.rngs)[Iterations(p.rngs, q.rngs)].dest
<1>2. /\ dest \in Arrays(D)
      /\ \A x \in Int : Within(x, dest) <=> Within(x, p.rngs) /\ Within(x, q.rngs)
  BY <1>1, IntersectLoopExact
<1>3. PciIntersect(p, q) = [rngs |-> dest, null |-> p.null /\ q.null]
  BY DEF PciIntersect, Pci
<1> HIDE DEF dest
<1> QED
  BY <1>1, <1>2, <1>3 DEF Pcis

-----------------------------------------------------------------------------
(* PciUnion. *)

(* What is after the positions of a loop. *)
After(x, rs, i) == \E k \in 1 .. Len(rs) : i <= k /\ Holds(x, rs[k])

(* The last range of an array, if it has one, lies before the range. *)
EndsBefore(rs, c) == rs # <<>> => FDisjointLeft(rs[Len(rs)], c)

(* An array that ends before a range ends before every later one. *)
LEMMA EndsBeforeLater ==
    ASSUME NEW D, NEW rs \in Arrays(D), NEW a, NEW b, WellFormed(a), WellFormed(b),
           EndsBefore(rs, a), FDisjointLeft(a, b)
    PROVE  EndsBefore(rs, b)
<1>1. rs # <<>> => WellFormed(rs[Len(rs)])
  BY ArrayFacts
<1> QED
  BY <1>1, DisjointTransitive DEF EndsBefore

(* The array that is built first is empty and ends before every range. *)
LEMMA EndsBeforeStart ==
    ASSUME NEW D, NEW rs \in Arrays(D), NEW a, NEW b, WellFormed(a), WellFormed(b),
           EndsBefore(rs, a), FStartsWithOrBefore(a, b)
    PROVE  EndsBefore(rs, b)
<1>1. rs # <<>> => WellFormed(rs[Len(rs)])
  BY ArrayFacts
<1>2. \A d : WellFormed(d) /\ FDisjointLeft(d, a) => FDisjointLeft(d, b)
  BY WellFormedFields, NullAssumption
  DEF FDisjointLeft, FStartsWithOrBefore, FStartsBefore, IsLessThan, IsGreaterThan, Equals
<1> QED
  BY <1>1, <1>2 DEF EndsBefore

(* A range of an array ends before the next one starts. *)
LEMMA ArrayNext ==
    ASSUME NEW D, NEW rs \in Arrays(D), NEW i \in 1 .. Len(rs), i + 1 <= Len(rs)
    PROVE  /\ i + 1 \in 1 .. Len(rs) /\ WellFormed(rs[i + 1])
           /\ Apart(rs[i], rs[i + 1]) /\ FDisjointLeft(rs[i], rs[i + 1])
<1>1. Len(rs) \in Nat
  BY ArrayFacts
<1>2. i \in 1 .. Len(rs) - 1 /\ i + 1 \in 1 .. Len(rs)
  BY <1>1
<1>3. WellFormed(rs[i]) /\ WellFormed(rs[i + 1]) /\ Apart(rs[i], rs[i + 1])
  BY <1>2, ArrayFacts
<1> QED
  BY <1>2, <1>3, ApartIsDisjoint

(* What is after a position is in its range or after the next position. *)
LEMMA AfterNext ==
    ASSUME NEW D, NEW rs \in Arrays(D), NEW i \in 1 .. Len(rs), NEW x \in Int
    PROVE  /\ After(x, rs, i) <=> Holds(x, rs[i]) \/ After(x, rs, i + 1)
           /\ After(x, rs, i + 1) => ~ Holds(x, rs[i])
           /\ After(x, rs, i + 1) => ~ BelowRight(x, rs[i])
<1>1. Len(rs) \in Nat /\ i \in Nat
  BY ArrayFacts
<1>2. \A k \in 1 .. Len(rs) : i <= k <=> k = i \/ i + 1 <= k
  BY <1>1
<1>3. \A k \in 1 .. Len(rs) : i + 1 <= k <=> i < k
  BY <1>1
<1>4. \A k \in 1 .. Len(rs) : i < k /\ Holds(x, rs[k]) => ~ BelowRight(x, rs[i])
  BY ArrayOrder DEF Holds
<1>5. After(x, rs, i + 1) => ~ BelowRight(x, rs[i])
  BY <1>3, <1>4 DEF After
<1> QED
  BY <1>2, <1>5 DEF After, Holds

(* Nothing is after the last position. *)
LEMMA AfterEnd ==
    ASSUME NEW D, NEW rs \in Arrays(D), NEW i \in Nat, NEW x
    PROVE  /\ i > Len(rs) => ~ After(x, rs, i)
           /\ After(x, rs, 1) <=> Within(x, rs)
<1>1. Len(rs) \in Nat /\ \A k \in 1 .. Len(rs) : 1 <= k /\ ~ (i > Len(rs) /\ i <= k)
  BY ArrayFacts
<1> QED
  BY <1>1 DEF After, Within

(* What of a range that ends with or before the range at j no range from j on
   holds: what is before that range starts. *)
LEMMA BeforeRange ==
    ASSUME NEW D, NEW q \in Arrays(D), NEW j \in 1 .. Len(q), NEW x \in Int,
           NEW a, WellFormed(a), FEndsWithOrAfter(q[j], a)
    PROVE  Holds(x, PrngDifferenceLeft(a, q[j])) <=> Holds(x, a) /\ ~ After(x, q, j)
<1>1. WellFormed(q[j])
  BY ArrayFacts
<1>2. Holds(x, a) /\ AboveLeft(x, q[j]) => Holds(x, q[j])
  BY <1>1, EndsMeaning, WellFormedFields DEF Holds
<1>3. Holds(x, a) => ~ After(x, q, j + 1)
  BY <1>1, EndsMeaning, AfterNext DEF Holds
<1>4. Holds(x, q[j]) => AboveLeft(x, q[j])
  BY DEF Holds
<1> QED
  BY <1>1, <1>2, <1>3, <1>4, AfterNext, DifferenceLeftExact

(* AppendOrExtend of the part of a that starts before other, and what the new
   last range lies before. *)
LEMMA AppendLeft ==
    ASSUME NEW D, NEW dest \in Arrays(D), NEW a, RangeOver(D, a), EndsBefore(dest, a),
           NEW b, RangeOver(D, b), NEW t, t = AppendOrExtend(dest, PrngDifferenceLeft(a, b))
    PROVE  /\ t \in Arrays(D)
           /\ EndsBefore(dest, b) => EndsBefore(t, b)
           /\ \A c : WellFormed(c) /\ FDisjointLeft(a, c) => EndsBefore(t, c)
           /\ \A c : WellFormed(c) /\ FDisjointLeft(b, c) /\ FStartsWithOrBefore(a, c) => EndsBefore(t, c)
           /\ \A x \in Int : Within(x, t) <=> Within(x, dest) \/ Holds(x, PrngDifferenceLeft(a, b))
<1> DEFINE n == PrngDifferenceLeft(a, b)
<1>1. WellFormed(a) /\ WellFormed(b)
  BY DEF RangeOver
<1>2. CASE n = NULL
  <2>1. t = dest
    BY <1>2 DEF AppendOrExtend
  <2>2. \A x : ~ Holds(x, n)
    BY <1>2 DEF Holds
  <2>3. \A c : WellFormed(c) /\ FDisjointLeft(a, c) => EndsBefore(t, c)
    BY <1>1, <2>1, EndsBeforeLater
  <2>4. \A c : WellFormed(c) /\ FStartsWithOrBefore(a, c) => EndsBefore(t, c)
    BY <1>1, <2>1, EndsBeforeStart
  <2> HIDE DEF n
  <2> QED
    BY <2>1, <2>2, <2>3, <2>4 DEF n
<1>3. CASE n # NULL
  <2>1. /\ WellFormed(n) /\ n.l = a.l /\ n.li = a.li /\ n.r \in {a.r, b.l}
        /\ FDisjointLeft(n, b) /\ FEndsWithOrAfter(a, n)
    BY <1>1, <1>3, DifferenceLeftEnds
  <2> HIDE DEF n
  <2>2. RangeOver(D, n)
    BY <2>1 DEF RangeOver
  <2>3. dest = <<>> \/ FDisjointLeft(dest[Len(dest)], n)
    BY <2>1 DEF EndsBefore, FDisjointLeft
  <2>4. t = AppendOrExtend(dest, n)
    BY DEF n
  <2>5. /\ t \in Arrays(D) /\ t # <<>>
        /\ t[Len(t)].r = n.r /\ t[Len(t)].ri = n.ri
        /\ \A x \in Int : Within(x, t) <=> Within(x, dest) \/ Holds(x, n)
    BY <2>2, <2>3, <2>4, AppendOrExtendArray
  <2>6. \A c : FDisjointLeft(n, c) => EndsBefore(t, c)
    BY <2>5 DEF EndsBefore, FDisjointLeft
  <2>7. \A c : WellFormed(c) /\ FDisjointLeft(a, c) => FDisjointLeft(n, c)
    BY <1>1, <2>1, EndsDisjoint
  <2>8. \A c : WellFormed(c) /\ FDisjointLeft(b, c) => FDisjointLeft(n, c)
    BY <1>1, <2>1, DisjointTransitive
  <2> QED
    BY <2>1, <2>5, <2>6, <2>7, <2>8 DEF n
<1> QED
  BY <1>2, <1>3

(* AppendOrExtend of a whole range. *)
LEMMA AppendWhole ==
    ASSUME NEW D, NEW dest \in Arrays(D), NEW a, RangeOver(D, a), EndsBefore(dest, a),
           NEW t, t = AppendOrExtend(dest, a)
    PROVE  /\ t \in Arrays(D)
           /\ \A c : FDisjointLeft(a, c) => EndsBefore(t, c)
           /\ \A x \in Int : Within(x, t) <=> Within(x, dest) \/ Holds(x, a)
<1>1. dest = <<>> \/ FDisjointLeft(dest[Len(dest)], a)
  BY DEF EndsBefore
<1>2. /\ t \in Arrays(D) /\ t # <<>>
      /\ t[Len(t)].r = a.r /\ t[Len(t)].ri = a.ri
      /\ \A x \in Int : Within(x, t) <=> Within(x, dest) \/ Holds(x, a)
  BY <1>1, AppendOrExtendArray
<1>3. \A c : FDisjointLeft(a, c) => EndsBefore(t, c)
  BY <1>2 DEF EndsBefore, FDisjointLeft
<1> QED
  BY <1>2, <1>3

(* One of the cases of the loop of PciUnion, AddRemainingRanges included: the
   first range goes. *)
UnionHalfOf(D, p, i, q, j, dest, t) ==
    /\ t \in Arrays(D)
    /\ i + 1 <= Len(p) => EndsBefore(t, p[i + 1])
    /\ j <= Len(q) => EndsBefore(t, q[j])
    /\ \A x \in Int : Within(x, t) <=> Within(x, dest) \/ (Holds(x, p[i]) /\ ~ After(x, q, j))

(* The range that goes is added without the values that the other array holds
   from its position on. *)
LEMMA UnionHalf ==
    ASSUME NEW D, NEW p \in Arrays(D), NEW q \in Arrays(D), NEW dest \in Arrays(D),
           NEW i \in 1 .. Len(p), NEW j \in 1 .. Len(q) + 1,
           EndsBefore(dest, p[i]), NEW t,
           j <= Len(q) => /\ EndsBefore(dest, q[j]) /\ FEndsWithOrAfter(q[j], p[i])
                          /\ t = AppendOrExtend(dest, PrngDifferenceLeft(p[i], q[j])),
           j > Len(q) => t = AppendOrExtend(dest, p[i])
    PROVE  UnionHalfOf(D, p, i, q, j, dest, t)
<1>1. Len(q) \in Nat /\ Len(p) \in Nat /\ j \in Nat /\ WellFormed(p[i]) /\ RangeOver(D, p[i])
  BY ArrayFacts
<1>2. i + 1 <= Len(p) => WellFormed(p[i + 1]) /\ FDisjointLeft(p[i], p[i + 1])
  BY ArrayNext
<1>3. CASE j <= Len(q)
  <2>1. j \in 1 .. Len(q)
    BY <1>1, <1>3
  <2>2. RangeOver(D, q[j])
    BY <2>1, ArrayFacts
  <2>3. /\ t \in Arrays(D) /\ EndsBefore(t, q[j])
        /\ \A c : WellFormed(c) /\ FDisjointLeft(p[i], c) => EndsBefore(t, c)
        /\ \A x \in Int : Within(x, t) <=> Within(x, dest) \/ Holds(x, PrngDifferenceLeft(p[i], q[j]))
    BY <1>1, <1>3, <2>2, AppendLeft
  <2>4. \A x \in Int : Holds(x, PrngDifferenceLeft(p[i], q[j])) <=> Holds(x, p[i]) /\ ~ After(x, q, j)
    BY <1>1, <1>3, <2>1, BeforeRange
  <2> QED
    BY <1>2, <2>3, <2>4 DEF UnionHalfOf
<1>4. CASE j > Len(q)
  <2>1. /\ t \in Arrays(D)
        /\ \A c : FDisjointLeft(p[i], c) => EndsBefore(t, c)
        /\ \A x \in Int : Within(x, t) <=> Within(x, dest) \/ Holds(x, p[i])
    BY <1>1, <1>4, AppendWhole
  <2>2. \A x : ~ After(x, q, j)
    BY <1>1, <1>4, AfterEnd
  <2>3. ~ (j <= Len(q))
    BY <1>1, <1>4
  <2> QED
    BY <1>2, <2>1, <2>2, <2>3 DEF UnionHalfOf
<1> QED
  BY <1>1, <1>3, <1>4

UnionStates(D, fst, snd) ==
    {s \in LoopStates(D, fst, snd) :
        /\ s.fst <= Len(fst) => EndsBefore(s.dest, fst[s.fst])
        /\ s.snd <= Len(snd) => EndsBefore(s.dest, snd[s.snd])
        /\ \A x \in Int : Within(x, s.dest) <=> /\ Within(x, fst) \/ Within(x, snd)
                                                /\ ~ After(x, fst, s.fst) /\ ~ After(x, snd, s.snd)}

(* An iteration of the union keeps what its states are: the array that is
   built holds the values that one of the arrays holds before the positions. *)
LEMMA UnionKeeps ==
    ASSUME NEW D, NEW fst \in Arrays(D), NEW snd \in Arrays(D), NEW s \in UnionStates(D, fst, snd)
    PROVE  LET t == UnionStep(fst, snd, s) IN
           /\ t \in UnionStates(D, fst, snd)
           /\ t # s => Left(fst, snd, t) < Left(fst, snd, s)
           /\ t = s => s.fst > Len(fst) /\ s.snd > Len(snd)
<1> DEFINE t == UnionStep(fst, snd, s)
           this == fst[s.fst]
           other == snd[s.snd]
<1>1. s \in LoopStates(D, fst, snd)
  BY DEF UnionStates
<1>2. /\ s.fst \in 1 .. Len(fst) + 1 /\ s.snd \in 1 .. Len(snd) + 1 /\ s.dest \in Arrays(D)
      /\ s.fst \in Nat /\ s.snd \in Nat /\ Len(fst) \in Nat /\ Len(snd) \in Nat
      /\ s.fst <= Len(fst) => s.fst \in 1 .. Len(fst) /\ WellFormed(this)
      /\ s.snd <= Len(snd) => s.snd \in 1 .. Len(snd) /\ WellFormed(other)
  BY <1>1, LoopStatesFacts
<1>3. /\ s.fst <= Len(fst) => EndsBefore(s.dest, this)
      /\ s.snd <= Len(snd) => EndsBefore(s.dest, other)
      /\ \A x \in Int : Within(x, s.dest) <=> /\ Within(x, fst) \/ Within(x, snd)
                                              /\ ~ After(x, fst, s.fst) /\ ~ After(x, snd, s.snd)
  BY DEF UnionStates
<1>4. ASSUME s.fst <= Len(fst), NEW d, t = NextFst(s, d),
             s.snd <= Len(snd) => /\ FEndsWithOrAfter(other, this)
                                  /\ d = AppendOrExtend(s.dest, PrngDifferenceLeft(this, other)),
             s.snd > Len(snd) => d = AppendOrExtend(s.dest, this)
      PROVE  t \in UnionStates(D, fst, snd) /\ t # s /\ Left(fst, snd, t) < Left(fst, snd, s)
  <2>1. UnionHalfOf(D, fst, s.fst, snd, s.snd, s.dest, d)
    BY <1>2, <1>3, <1>4, UnionHalf
  <2>2. d \in Arrays(D)
    BY <2>1 DEF UnionHalfOf
  <2>3. /\ t \in LoopStates(D, fst, snd) /\ Left(fst, snd, t) < Left(fst, snd, s)
        /\ t.fst = s.fst + 1 /\ t.snd = s.snd /\ t.dest = d
    BY <1>1, <1>4, <2>2, NextFstState
  <2>4. \A x \in Int : /\ After(x, fst, s.fst) <=> Holds(x, this) \/ After(x, fst, s.fst + 1)
                       /\ Holds(x, this) => ~ After(x, fst, s.fst + 1)
                       /\ Holds(x, this) => Within(x, fst)
    BY <1>2, <1>4, AfterNext DEF Within
  <2>5. \A x \in Int : Within(x, d) <=> /\ Within(x, fst) \/ Within(x, snd)
                                        /\ ~ After(x, fst, s.fst + 1) /\ ~ After(x, snd, s.snd)
    BY <1>3, <2>1, <2>4 DEF UnionHalfOf
  <2>6. t # s
    BY <1>2, <2>3
  <2> HIDE DEF t
  <2> QED
    BY <2>1, <2>3, <2>5, <2>6 DEF UnionStates, UnionHalfOf
<1>5. ASSUME s.snd <= Len(snd), NEW d, t = NextSnd(s, NULL, d),
             s.fst <= Len(fst) => /\ FEndsWithOrAfter(this, other)
                                  /\ d = AppendOrExtend(s.dest, PrngDifferenceLeft(other, this)),
             s.fst > Len(fst) => d = AppendOrExtend(s.dest, other)
      PROVE  t \in UnionStates(D, fst, snd) /\ t # s /\ Left(fst, snd, t) < Left(fst, snd, s)
  <2>1. UnionHalfOf(D, snd, s.snd, fst, s.fst, s.dest, d)
    BY <1>2, <1>3, <1>5, UnionHalf
  <2>2. d \in Arrays(D)
    BY <2>1 DEF UnionHalfOf
  <2>3. /\ t \in LoopStates(D, fst, snd) /\ Left(fst, snd, t) < Left(fst, snd, s)
        /\ t.fst = s.fst /\ t.snd = s.snd + 1 /\ t.dest = d
    BY <1>1, <1>5, <2>2, NextSndState
  <2>4. \A x \in Int : /\ After(x, snd, s.snd) <=> Holds(x, other) \/ After(x, snd, s.snd + 1)
                       /\ Holds(x, other) => ~ After(x, snd, s.snd + 1)
                       /\ Holds(x, other) => Within(x, snd)
    BY <1>2, <1>5, AfterNext DEF Within
  <2>5. \A x \in Int : Within(x, d) <=> /\ Within(x, fst) \/ Within(x, snd)
                                        /\ ~ After(x, fst, s.fst) /\ ~ After(x, snd, s.snd + 1)
    BY <1>3, <2>1, <2>4 DEF UnionHalfOf
  <2>6. t # s
    BY <1>2, <2>3
  <2> HIDE DEF t
  <2> QED
    BY <2>1, <2>3, <2>5, <2>6 DEF UnionStates, UnionHalfOf
<1>6. CASE s.fst <= Len(fst) /\ s.snd <= Len(snd) /\ FEndsAfter(other, this)
  <2>1. t = NextFst(s, AppendOrExtend(s.dest, PrngDifferenceLeft(this, other)))
    BY <1>6 DEF UnionStep
  <2>2. FEndsWithOrAfter(other, this) /\ ~ (s.snd > Len(snd))
    BY <1>2, <1>6, EndsTotal
  <2> HIDE DEF t
  <2> QED
    BY <1>4, <1>6, <2>1, <2>2 DEF t
<1>7. CASE s.fst <= Len(fst) /\ s.snd <= Len(snd) /\ ~ FEndsAfter(other, this)
  <2>1. t = NextSnd(s, NULL, AppendOrExtend(s.dest, PrngDifferenceLeft(other, this)))
    BY <1>7 DEF UnionStep
  <2>2. FEndsWithOrAfter(this, other) /\ ~ (s.fst > Len(fst))
    BY <1>2, <1>7, EndsTotal
  <2> HIDE DEF t
  <2> QED
    BY <1>5, <1>7, <2>1, <2>2 DEF t
<1>8. CASE s.fst <= Len(fst) /\ s.snd > Len(snd)
  <2>1. ~ (s.snd <= Len(snd))
    BY <1>2, <1>8
  <2>2. t = NextFst(s, AppendOrExtend(s.dest, this))
    BY <1>8, <2>1 DEF UnionStep
  <2> HIDE DEF t
  <2> QED
    BY <1>4, <1>8, <2>1, <2>2 DEF t
<1>9. CASE s.fst > Len(fst) /\ s.snd <= Len(snd)
  <2>1. ~ (s.fst <= Len(fst))
    BY <1>2, <1>9
  <2>2. t = NextSnd(s, NULL, AppendOrExtend(s.dest, other))
    BY <1>9, <2>1 DEF UnionStep
  <2> HIDE DEF t
  <2> QED
    BY <1>5, <1>9, <2>1, <2>2 DEF t
<1>10. CASE s.fst > Len(fst) /\ s.snd > Len(snd)
  <2>1. ~ (s.fst <= Len(fst)) /\ ~ (s.snd <= Len(snd))
    BY <1>2, <1>10
  <2>2. t = s
    BY <2>1 DEF UnionStep
  <2> QED
    BY <1>10, <2>2
<1> QED
  BY <1>2, <1>6, <1>7, <1>8, <1>9, <1>10

(* The loop of PciUnion is an iteration of its step. *)
LEMMA UnionLoopIs ==
    ASSUME NEW fst, NEW snd, NEW S, LoopStart \in S,
           \A s \in S : UnionStep(fst, snd, s) \in S
    PROVE  LET h == UnionLoop(fst, snd) IN
           h[0] = LoopStart /\ \A n \in Nat : h[n + 1] = UnionStep(fst, snd, h[n])
<1> DEFINE F == [s \in S |-> UnionStep(fst, snd, s)]
           Is(h) == h = [n \in Nat |-> IF n = 0 THEN LoopStart
                                       ELSE UnionStep(fst, snd, h[n - 1])]
<1>1. IsMap(F, S)
  BY DEF IsMap
<1>2. \E g : Iterates(g, S, F, LoopStart)
  <2> HIDE DEF F
  <2> QED
    BY <1>1, IterationExists
<1>3. PICK g : Iterates(g, S, F, LoopStart)
  BY <1>2
<1>4. Is(g)
  <2>1. ASSUME NEW n \in Nat, n # 0 PROVE g[n] = UnionStep(fst, snd, g[n - 1])
    <3>1. n - 1 \in Nat /\ (n - 1) + 1 = n
      BY <2>1
    <3>2. g[(n - 1) + 1] = F[g[n - 1]] /\ g[n - 1] \in S
      BY <1>3, <3>1 DEF Iterates
    <3> QED
      BY <3>1, <3>2
  <2> QED
    BY <1>3, <2>1 DEF Iterates
<1>5. UnionLoop(fst, snd) = CHOOSE h : Is(h)
  BY DEF UnionLoop
<1> DEFINE h == UnionLoop(fst, snd)
<1>6. Is(h)
  BY <1>4, <1>5
<1> HIDE DEF h
<1>7. h[0] = LoopStart
  BY <1>6
<1>8. ASSUME NEW n \in Nat PROVE h[n + 1] = UnionStep(fst, snd, h[n])
  <2>1. n + 1 \in Nat /\ n + 1 # 0 /\ (n + 1) - 1 = n
    OBVIOUS
  <2>2. h[n + 1] = UnionStep(fst, snd, h[(n + 1) - 1])
    BY <1>6, <2>1
  <2> QED
    BY <2>1, <2>2
<1> QED
  BY <1>7, <1>8 DEF h

(* The loop of PciUnion ends with the values that one of the arrays holds. *)
LEMMA UnionLoopExact ==
    ASSUME NEW D, NEW fst \in Arrays(D), NEW snd \in Arrays(D)
    PROVE  LET dest == UnionLoop(fst, snd)[Iterations(fst, snd)].dest IN
           /\ dest \in Arrays(D)
           /\ \A x \in Int : Within(x, dest) <=> Within(x, fst) \/ Within(x, snd)
<1> DEFINE S == UnionStates(D, fst, snd)
           F == [s \in S |-> UnionStep(fst, snd, s)]
           m == [s \in S |-> Left(fst, snd, s)]
           k == Iterations(fst, snd)
           h == UnionLoop(fst, snd)
<1>1. LoopStart \in S
  <2>1. LoopStart \in LoopStates(D, fst, snd) /\ LoopStart.fst = 1 /\ LoopStart.snd = 1 /\ LoopStart.dest = <<>>
    BY LoopStatesFacts DEF LoopStart
  <2>2. \A x \in Int : ~ Within(x, <<>>) /\ (After(x, fst, 1) <=> Within(x, fst)) /\ (After(x, snd, 1) <=> Within(x, snd))
    BY EmptyArray, AfterEnd
  <2>3. \A c : EndsBefore(<<>>, c)
    BY DEF EndsBefore
  <2> QED
    BY <2>1, <2>2, <2>3 DEF UnionStates
<1>2. F \in [S -> S]
  BY UnionKeeps
<1>3. m \in [S -> Nat] /\ k \in Nat /\ m[LoopStart] <= k
  <2>1. \A s \in S : Left(fst, snd, s) \in Nat
    BY LoopStatesFacts DEF UnionStates
  <2>2. m \in [S -> Nat]
    BY <2>1
  <2>3. m[LoopStart] = k /\ k \in Nat
    BY <1>1, LoopStatesFacts
  <2> QED
    BY <2>2, <2>3
<1>4. \A s \in S : F[s] # s => m[F[s]] < m[s]
  BY UnionKeeps
<1>5. h[0] = LoopStart /\ \A n \in Nat : h[n] \in S => h[n + 1] = F[h[n]]
  BY <1>1, UnionLoopIs, UnionKeeps
<1> HIDE DEF h
<1>6. h[k] \in S /\ F[h[k]] = h[k]
  <2> HIDE DEF S, F, m, k
  <2>1. IsMap(F, S) /\ IsMeasure(m, S, F) /\ Runs(h, S, F, LoopStart)
    BY <1>2, <1>3, <1>4, <1>5 DEF IsMap, IsMeasure, Runs
  <2> QED
    BY <1>1, <1>3, <2>1, LoopEnds
<1> DEFINE s == h[k]
<1>7. s \in S /\ s.fst > Len(fst) /\ s.snd > Len(snd)
  BY <1>6, UnionKeeps
<1> HIDE DEF s
<1>8. s.dest \in Arrays(D) /\ s.fst \in Nat /\ s.snd \in Nat
  <2>1. s \in LoopStates(D, fst, snd)
    BY <1>7 DEF UnionStates
  <2> QED
    BY <2>1, LoopStatesFacts
<1>9. \A x \in Int : ~ After(x, fst, s.fst) /\ ~ After(x, snd, s.snd)
  BY <1>7, <1>8, AfterEnd
<1> QED
  BY <1>7, <1>8, <1>9 DEF UnionStates, s, h

(* PciUnion: the values, and NULL, that one of the intervals holds
   (CConstraintInterval::PciUnion). *)
THEOREM PciUnionExact ==
    ASSUME NEW D, NEW p \in Pcis(D), NEW q \in Pcis(D)
    PROVE  LET t == PciUnion(p, q) IN
           /\ t \in Pcis(D) /\ t.null = (p.null \/ q.null)
           /\ \A x \in Int : Within(x, t.rngs) <=> Within(x, p.rngs) \/ Within(x, q.rngs)
<1>1. p.rngs \in Arrays(D) /\ q.rngs \in Arrays(D) /\ p.null \in BOOLEAN /\ q.null \in BOOLEAN
  BY DEF Pcis
<1> DEFINE dest == UnionLoop(p.rngs, q.rngs)[Iterations(p.rngs, q.rngs)].dest
<1>2. /\ dest \in Arrays(D)
      /\ \A x \in Int : Within(x, dest) <=> Within(x, p.rngs) \/ Within(x, q.rngs)
  BY <1>1, UnionLoopExact
<1>3. PciUnion(p, q) = [rngs |-> dest, null |-> p.null \/ q.null]
  BY DEF PciUnion, Pci
<1> HIDE DEF dest
<1> QED
  BY <1>1, <1>2, <1>3 DEF Pcis

-----------------------------------------------------------------------------
(* PciDifference. *)

(* What is left of the current range of the first array, and of the array. *)
Current(fst, s) == IF s.residual = NULL THEN fst[s.fst] ELSE s.residual
Rest(x, fst, s) ==
    (s.fst <= Len(fst) /\ Holds(x, Current(fst, s))) \/ After(x, fst, s.fst + 1)

CurrentOK(D, fst, snd, s) ==
    LET this == Current(fst, s) IN
    /\ RangeOver(D, this) /\ this.r = fst[s.fst].r /\ this.ri = fst[s.fst].ri
    /\ \A x \in Int : Holds(x, this) => Holds(x, fst[s.fst])
    /\ \A l \in 1 .. Len(snd) : l < s.snd => FDisjointLeft(snd[l], this)
    /\ EndsBefore(s.dest, this)
    /\ s.residual # NULL => s.snd > 1 /\ s.residual.l = snd[s.snd - 1].r

DifferenceStates(D, fst, snd) ==
    {s \in LoopStates(D, fst, snd) :
        /\ s.fst <= Len(fst) => CurrentOK(D, fst, snd, s)
        /\ \A x \in Int : Within(x, s.dest) <=>
                              Within(x, fst) /\ ~ Within(x, snd) /\ ~ Rest(x, fst, s)}

(* A value of a range that the ranges before j lie before is in the others if
   at all. *)
LEMMA BehindOthers ==
    ASSUME NEW D, NEW q \in Arrays(D), NEW j \in Nat, NEW a, WellFormed(a),
           \A l \in 1 .. Len(q) : l < j => FDisjointLeft(q[l], a),
           NEW x \in Int, Holds(x, a)
    PROVE  Within(x, q) <=> After(x, q, j)
<1>1. \A l \in 1 .. Len(q) : WellFormed(q[l]) /\ (l < j \/ j <= l)
  BY ArrayFacts
<1>2. \A l \in 1 .. Len(q) : l < j => ~ Holds(x, q[l])
  <2> TAKE l \in 1 .. Len(q)
  <2>1. ~ (x < x)
    OBVIOUS
  <2> QED
    BY <1>1, <2>1, DisjointLeftOrders
<1> QED
  BY <1>1, <1>2 DEF Within, After

(* The current range is done with: the values of it that no range of the second
   array holds are in the result. *)
LEMMA DifferenceNextFst ==
    ASSUME NEW D, NEW fst \in Arrays(D), NEW snd \in Arrays(D), NEW s \in DifferenceStates(D, fst, snd),
           s.fst <= Len(fst), NEW d \in Arrays(D),
           \A c : WellFormed(c) /\ FDisjointLeft(Current(fst, s), c) => EndsBefore(d, c),
           \A x \in Int : Within(x, d) <=> \/ Within(x, s.dest)
                                           \/ Holds(x, Current(fst, s)) /\ ~ Within(x, snd)
    PROVE  /\ NextFst(s, d) \in DifferenceStates(D, fst, snd)
           /\ NextFst(s, d) # s
           /\ Left(fst, snd, NextFst(s, d)) < Left(fst, snd, s)
<1> DEFINE t == NextFst(s, d)
           this == Current(fst, s)
<1>1. s \in LoopStates(D, fst, snd) /\ CurrentOK(D, fst, snd, s)
  BY DEF DifferenceStates
<1>2. /\ t \in LoopStates(D, fst, snd) /\ Left(fst, snd, t) < Left(fst, snd, s)
      /\ t.fst = s.fst + 1 /\ t.snd = s.snd /\ t.residual = NULL /\ t.dest = d
  BY <1>1, NextFstState
<1> HIDE DEF t
<1>3. s.fst \in 1 .. Len(fst) /\ Len(fst) \in Nat /\ s.fst \in Nat /\ s.snd \in Nat
  BY <1>1, LoopStatesFacts
<1>4. /\ RangeOver(D, this) /\ this.r = fst[s.fst].r /\ this.ri = fst[s.fst].ri
      /\ \A x \in Int : Holds(x, this) => Holds(x, fst[s.fst])
      /\ \A l \in 1 .. Len(snd) : l < s.snd => FDisjointLeft(snd[l], this)
      /\ WellFormed(this)
  BY <1>1 DEF CurrentOK, RangeOver
<1>5. ASSUME t.fst <= Len(fst) PROVE CurrentOK(D, fst, snd, t)
  <2> DEFINE next == fst[s.fst + 1]
  <2>1. Current(fst, t) = next
    BY <1>2 DEF Current
  <2>2. s.fst + 1 \in 1 .. Len(fst) /\ WellFormed(next) /\ FDisjointLeft(fst[s.fst], next)
    BY <1>2, <1>3, <1>5, ArrayNext
  <2>3. RangeOver(D, next)
    BY <2>2, ArrayFacts
  <2>4. FDisjointLeft(this, next)
    BY <1>4, <2>2 DEF FDisjointLeft
  <2>5. EndsBefore(d, next)
    BY <2>2, <2>4
  <2>6. \A l \in 1 .. Len(snd) : l < s.snd => FDisjointLeft(snd[l], next)
    BY <1>4, <2>2, <2>4, DisjointTransitive, ArrayFacts
  <2> QED
    BY <1>2, <2>1, <2>3, <2>5, <2>6 DEF CurrentOK
<1>6. ASSUME NEW x \in Int
      PROVE  Within(x, d) <=> Within(x, fst) /\ ~ Within(x, snd) /\ ~ Rest(x, fst, t)
  <2>1. Rest(x, fst, t) <=> After(x, fst, s.fst + 1)
    <3>1. CASE s.fst + 1 <= Len(fst)
      <4>1. s.fst + 1 \in 1 .. Len(fst)
        BY <1>3, <3>1
      <4>2. After(x, fst, s.fst + 1) <=> Holds(x, fst[s.fst + 1]) \/ After(x, fst, (s.fst + 1) + 1)
        BY <4>1, AfterNext
      <4> QED
        BY <1>2, <3>1, <4>2 DEF Rest, Current
    <3>2. CASE ~ (s.fst + 1 <= Len(fst))
      <4>1. s.fst + 1 \in Nat /\ (s.fst + 1) + 1 \in Nat /\ s.fst + 1 > Len(fst) /\ (s.fst + 1) + 1 > Len(fst)
        BY <1>3, <3>2
      <4>2. ~ After(x, fst, s.fst + 1) /\ ~ After(x, fst, (s.fst + 1) + 1)
        BY <4>1, AfterEnd
      <4> QED
        BY <1>2, <3>2, <4>2 DEF Rest
    <3> QED
      BY <3>1, <3>2
  <2>2. Rest(x, fst, s) <=> Holds(x, this) \/ After(x, fst, s.fst + 1)
    BY DEF Rest
  <2>3. /\ Holds(x, this) => Within(x, fst)
        /\ Holds(x, this) => ~ After(x, fst, s.fst + 1)
    BY <1>3, <1>4, AfterNext DEF Within
  <2>4. Within(x, s.dest) <=> Within(x, fst) /\ ~ Within(x, snd) /\ ~ Rest(x, fst, s)
    BY DEF DifferenceStates
  <2> HIDE DEF this
  <2> QED
    BY <2>1, <2>2, <2>3, <2>4 DEF this
<1>7. t \in DifferenceStates(D, fst, snd)
  BY <1>2, <1>5, <1>6 DEF DifferenceStates
<1>8. t # s
  BY <1>2, <1>3
<1> QED
  BY <1>2, <1>7, <1>8 DEF t

(* A range of the second array is done with: the values of the current range
   before it are in the result, those after it are the current range now. *)
LEMMA DifferenceNextSnd ==
    ASSUME NEW D, NEW fst \in Arrays(D), NEW snd \in Arrays(D), NEW s \in DifferenceStates(D, fst, snd),
           s.fst <= Len(fst), s.snd <= Len(snd), NEW d \in Arrays(D), NEW res \in RangeType \cup {NULL},
           NEW now, now = Current(fst, NextSnd(s, res, d)),
           RangeOver(D, now), now.r = Current(fst, s).r, now.ri = Current(fst, s).ri,
           FDisjointLeft(snd[s.snd], now), EndsBefore(d, now),
           res # NULL => res.l = snd[s.snd].r,
           \A x \in Int : Holds(x, now) <=> Holds(x, Current(fst, s)) /\ ~ BelowRight(x, snd[s.snd]),
           \A x \in Int : Within(x, d) <=>
               Within(x, s.dest) \/ (Holds(x, Current(fst, s)) /\ ~ AboveLeft(x, snd[s.snd]))
    PROVE  /\ NextSnd(s, res, d) \in DifferenceStates(D, fst, snd)
           /\ NextSnd(s, res, d) # s
           /\ Left(fst, snd, NextSnd(s, res, d)) < Left(fst, snd, s)
<1> DEFINE t == NextSnd(s, res, d)
           this == Current(fst, s)
           other == snd[s.snd]
<1>1. s \in LoopStates(D, fst, snd) /\ CurrentOK(D, fst, snd, s)
  BY DEF DifferenceStates
<1>2. /\ t \in LoopStates(D, fst, snd) /\ Left(fst, snd, t) < Left(fst, snd, s)
      /\ t.fst = s.fst /\ t.snd = s.snd + 1 /\ t.residual = res /\ t.dest = d
  BY <1>1, NextSndState
<1>3. now = Current(fst, t)
  OBVIOUS
<1> HIDE DEF t
<1>4. /\ s.fst \in 1 .. Len(fst) /\ Len(fst) \in Nat /\ s.fst \in Nat /\ s.snd \in Nat
      /\ s.snd \in 1 .. Len(snd) /\ Len(snd) \in Nat /\ WellFormed(other)
  BY <1>1, LoopStatesFacts
<1>5. /\ RangeOver(D, this) /\ this.r = fst[s.fst].r /\ this.ri = fst[s.fst].ri
      /\ \A x \in Int : Holds(x, this) => Holds(x, fst[s.fst])
      /\ \A l \in 1 .. Len(snd) : l < s.snd => FDisjointLeft(snd[l], this)
      /\ WellFormed(this)
  BY <1>1 DEF CurrentOK, RangeOver
<1>6. CurrentOK(D, fst, snd, t)
  <2>1. \A l \in 1 .. Len(snd) : l < s.snd + 1 => FDisjointLeft(snd[l], now)
    <3> SUFFICES ASSUME NEW l \in 1 .. Len(snd), l < s.snd + 1 PROVE FDisjointLeft(snd[l], now)
      OBVIOUS
    <3>1. CASE l = s.snd
      BY <3>1
    <3>2. CASE l < s.snd
      <4>1. Apart(snd[l], other)
        BY <1>4, <3>2, ArrayApart
      <4>2. WellFormed(snd[l]) /\ WellFormed(now)
        BY ArrayFacts DEF RangeOver
      <4>3. FDisjointLeft(snd[l], other)
        BY <1>4, <4>1, <4>2, ApartIsDisjoint
      <4> QED
        BY <1>4, <4>2, <4>3, DisjointTransitive
    <3> QED
      BY <1>4, <3>1, <3>2
  <2>2. res # NULL => t.snd > 1 /\ res.l = snd[t.snd - 1].r
    <3>1. t.snd > 1 /\ t.snd - 1 = s.snd
      BY <1>2, <1>4
    <3> QED
      BY <3>1
  <2>3. \A x \in Int : Holds(x, now) => Holds(x, fst[s.fst])
    BY <1>5
  <2>4. now.r = fst[s.fst].r /\ now.ri = fst[s.fst].ri
    BY <1>5
  <2> QED
    BY <1>2, <1>3, <2>1, <2>2, <2>3, <2>4 DEF CurrentOK
<1>7. ASSUME NEW x \in Int
      PROVE  Within(x, d) <=> Within(x, fst) /\ ~ Within(x, snd) /\ ~ Rest(x, fst, t)
  <2>1. Rest(x, fst, t) <=> Holds(x, now) \/ After(x, fst, s.fst + 1)
    BY <1>2, <1>3 DEF Rest
  <2>2. Rest(x, fst, s) <=> Holds(x, this) \/ After(x, fst, s.fst + 1)
    BY DEF Rest
  <2>3. /\ Holds(x, this) => Within(x, fst)
        /\ Holds(x, this) => ~ After(x, fst, s.fst + 1)
    BY <1>4, <1>5, AfterNext DEF Within
  <2>4. Within(x, s.dest) <=> Within(x, fst) /\ ~ Within(x, snd) /\ ~ Rest(x, fst, s)
    BY DEF DifferenceStates
  <2>5. Holds(x, this) => (Within(x, snd) <=> After(x, snd, s.snd))
    BY <1>4, <1>5, BehindOthers
  <2>6. After(x, snd, s.snd) <=> Holds(x, other) \/ After(x, snd, s.snd + 1)
    BY <1>4, AfterNext
  <2>7. After(x, snd, s.snd + 1) => ~ BelowRight(x, other)
    BY <1>4, AfterNext
  <2>8. ~ AboveLeft(x, other) => BelowRight(x, other)
    BY <1>4, WellFormedFields, NullAssumption DEF AboveLeft, BelowRight
  <2>9. Holds(x, other) <=> AboveLeft(x, other) /\ BelowRight(x, other)
    BY <1>4, WellFormedFields DEF Holds
  <2>10. Holds(x, now) <=> Holds(x, this) /\ ~ BelowRight(x, other)
    OBVIOUS
  <2>11. Within(x, d) <=> Within(x, s.dest) \/ (Holds(x, this) /\ ~ AboveLeft(x, other))
    OBVIOUS
  <2> HIDE DEF this, other
  <2> QED
    BY ONLY <2>1, <2>2, <2>3, <2>4, <2>5, <2>6, <2>7, <2>8, <2>9, <2>10, <2>11
<1>8. t \in DifferenceStates(D, fst, snd)
  BY <1>2, <1>6, <1>7 DEF DifferenceStates
<1>9. t # s
  BY <1>2, <1>4
<1> QED
  BY <1>2, <1>8, <1>9 DEF t

(* The residual starts where a range of the second array ends, and the next one
   does not end there. *)
LEMMA ResidualAhead ==
    ASSUME NEW a, NEW b, NEW c, WellFormed(a), WellFormed(b), WellFormed(c),
           Apart(c, b), a.l = c.r
    PROVE  ~ FDisjointLeft(b, a)
  BY WellFormedFields, NullAssumption DEF Apart, FDisjointLeft, IsLessThan, Equals

(* The values of a range are after the start of what starts with or before it. *)
LEMMA StartsMeaning ==
    ASSUME NEW a, NEW b, WellFormed(a), WellFormed(b), ~ FStartsWithOrBefore(a, b),
           NEW x \in Int, AboveLeft(x, a)
    PROVE  AboveLeft(x, b)
  BY WellFormedFields, NullAssumption
  DEF FStartsWithOrBefore, FStartsBefore, AboveLeft, IsLessThan, IsGreaterThan, Equals

(* An iteration of the difference keeps what its states are: the array that is
   built and the rest of the current range hold what is left so far. *)
LEMMA DifferenceKeeps ==
    ASSUME NEW D, NEW fst \in Arrays(D), NEW snd \in Arrays(D), NEW s \in DifferenceStates(D, fst, snd)
    PROVE  LET t == DifferenceStep(fst, snd, s) IN
           /\ t \in DifferenceStates(D, fst, snd)
           /\ t # s => Left(fst, snd, t) < Left(fst, snd, s)
           /\ t = s => s.fst > Len(fst)
<1> DEFINE t == DifferenceStep(fst, snd, s)
           this == Current(fst, s)
           other == snd[s.snd]
           diff == PrangeDiffWithRightResidual(this, other)
<1>1. s \in LoopStates(D, fst, snd) /\ (s.fst <= Len(fst) => CurrentOK(D, fst, snd, s))
  BY DEF DifferenceStates
<1>2. /\ s.fst \in 1 .. Len(fst) + 1 /\ s.snd \in 1 .. Len(snd) + 1 /\ s.dest \in Arrays(D)
      /\ s.fst \in Nat /\ s.snd \in Nat /\ Len(fst) \in Nat /\ Len(snd) \in Nat
      /\ s.fst <= Len(fst) => s.fst \in 1 .. Len(fst)
      /\ s.snd <= Len(snd) => s.snd \in 1 .. Len(snd) /\ WellFormed(other) /\ RangeOver(D, other)
  BY <1>1, LoopStatesFacts
<1>3. s.fst <= Len(fst) =>
         /\ RangeOver(D, this) /\ WellFormed(this) /\ EndsBefore(s.dest, this)
         /\ \A l \in 1 .. Len(snd) : l < s.snd => FDisjointLeft(snd[l], this)
         /\ s.residual # NULL => s.snd > 1 /\ s.residual.l = snd[s.snd - 1].r
  BY <1>1 DEF CurrentOK, RangeOver
<1>4. t = IF s.fst > Len(fst) THEN s
          ELSE IF s.snd > Len(snd) THEN NextFst(s, AppendOrExtend(s.dest, this))
          ELSE IF FEndsWithOrAfter(other, this)
          THEN NextFst(s, AppendOrExtend(s.dest, PrngDifferenceLeft(this, other)))
          ELSE NextSnd(s, diff.residual, AppendOrExtend(s.dest, diff.ret))
  BY DEF DifferenceStep, Current
<1>5. CASE s.fst > Len(fst)
  BY <1>4, <1>5
<1>6. CASE s.fst <= Len(fst) /\ s.snd > Len(snd)
  <2> DEFINE d == AppendOrExtend(s.dest, this)
  <2>1. t = NextFst(s, d)
    BY <1>2, <1>4, <1>6
  <2>2. /\ d \in Arrays(D)
        /\ \A c : FDisjointLeft(this, c) => EndsBefore(d, c)
        /\ \A x \in Int : Within(x, d) <=> Within(x, s.dest) \/ Holds(x, this)
    BY <1>2, <1>3, <1>6, AppendWhole
  <2>3. \A x \in Int : Holds(x, this) => ~ Within(x, snd)
    <3>1. \A x \in Int : Holds(x, this) => (Within(x, snd) <=> After(x, snd, s.snd))
      BY <1>2, <1>3, <1>6, BehindOthers
    <3>2. \A x : ~ After(x, snd, s.snd)
      BY <1>2, <1>6, AfterEnd
    <3> QED
      BY <3>1, <3>2
  <2> HIDE DEF t, d, this
  <2> QED
    BY <1>6, <2>1, <2>2, <2>3, DifferenceNextFst DEF t, this
<1>7. CASE s.fst <= Len(fst) /\ s.snd <= Len(snd) /\ FEndsWithOrAfter(other, this)
  <2> DEFINE d == AppendOrExtend(s.dest, PrngDifferenceLeft(this, other))
  <2>1. t = NextFst(s, d)
    BY <1>2, <1>4, <1>7
  <2>2. /\ d \in Arrays(D)
        /\ \A c : WellFormed(c) /\ FDisjointLeft(this, c) => EndsBefore(d, c)
        /\ \A x \in Int : Within(x, d) <=> Within(x, s.dest) \/ Holds(x, PrngDifferenceLeft(this, other))
    BY <1>2, <1>3, <1>7, AppendLeft
  <2>3. \A x \in Int : Holds(x, PrngDifferenceLeft(this, other)) <=> Holds(x, this) /\ ~ Within(x, snd)
    <3>1. \A x \in Int : Holds(x, this) => (Within(x, snd) <=> After(x, snd, s.snd))
      BY <1>2, <1>3, <1>7, BehindOthers
    <3>2. \A x \in Int : Holds(x, PrngDifferenceLeft(this, other)) <=> Holds(x, this) /\ ~ After(x, snd, s.snd)
      BY <1>2, <1>3, <1>7, BeforeRange
    <3> QED
      BY <3>1, <3>2
  <2> HIDE DEF t, d, this
  <2> QED
    BY <1>7, <2>1, <2>2, <2>3, DifferenceNextFst DEF t, this
<1>8. CASE s.fst <= Len(fst) /\ s.snd <= Len(snd) /\ ~ FEndsWithOrAfter(other, this)
  <2> DEFINE d == AppendOrExtend(s.dest, diff.ret)
             res == diff.residual
             now == Current(fst, NextSnd(s, res, d))
  <2>1. t = NextSnd(s, res, d)
    BY <1>2, <1>4, <1>8
  <2>2. now = IF res = NULL THEN fst[s.fst] ELSE res
    BY DEF Current, NextSnd
  <2>3. CASE FDisjointLeft(other, this)
    <3>1. diff.ret = NULL /\ res = NULL
      BY <2>3 DEF PrangeDiffWithRightResidual
    <3>2. s.residual = NULL
      <4> SUFFICES ASSUME s.residual # NULL PROVE FALSE
        OBVIOUS
      <4>1. this = s.residual /\ s.snd > 1 /\ s.residual.l = snd[s.snd - 1].r
        BY <1>3, <1>8 DEF Current
      <4>2. s.snd - 1 \in 1 .. Len(snd) /\ s.snd - 1 < s.snd /\ s.snd \in 1 .. Len(snd)
        BY <1>2, <1>8, <4>1
      <4>3. Apart(snd[s.snd - 1], other) /\ WellFormed(snd[s.snd - 1])
        BY <4>2, ArrayApart, ArrayFacts
      <4> QED
        BY <1>2, <1>3, <1>8, <2>3, <4>1, <4>3, ResidualAhead
    <3>3. now = this /\ d = s.dest
      BY <2>2, <3>1, <3>2 DEF Current, AppendOrExtend
    <3>4. \A x \in Int : Holds(x, this) => ~ BelowRight(x, other)
      <4>1. PrngDifferenceRight(this, other) = this
        BY <2>3 DEF PrngDifferenceRight
      <4> QED
        BY <1>2, <1>3, <1>8, <4>1, DifferenceRightExact
    <3>5. \A x \in Int : AboveLeft(x, other) \/ BelowRight(x, other)
      BY <1>2, <1>8, WellFormedFields, NullAssumption DEF AboveLeft, BelowRight
    <3>6. \A x \in Int : Holds(x, now) <=> Holds(x, this) /\ ~ BelowRight(x, other)
      BY <3>3, <3>4
    <3>7. \A x \in Int : Within(x, d) <=> Within(x, s.dest) \/ (Holds(x, this) /\ ~ AboveLeft(x, other))
      BY <3>3, <3>4, <3>5
    <3>8. d \in Arrays(D) /\ res \in RangeType \cup {NULL} /\ EndsBefore(d, now) /\ RangeOver(D, now)
      BY <1>2, <1>3, <1>8, <3>1, <3>3
    <3>9. now.r = this.r /\ now.ri = this.ri /\ FDisjointLeft(other, now)
      BY <2>3, <3>3
    <3>10. now = Current(fst, NextSnd(s, res, d))
      OBVIOUS
    <3> HIDE DEF t, d, res, now, diff
    <3> QED
      BY <1>8, <2>1, <3>1, <3>6, <3>7, <3>8, <3>9, <3>10, DifferenceNextSnd DEF t
  <2>4. CASE ~ FDisjointLeft(other, this)
    <3>1. /\ res = PrngDifferenceRight(this, other)
          /\ diff.ret = IF RngContains(this, other) THEN PrngDifferenceLeft(this, other) ELSE NULL
      BY <2>4 DEF PrangeDiffWithRightResidual
    <3>2. /\ res # NULL /\ WellFormed(res)
          /\ res.r = this.r /\ res.ri = this.ri /\ res.l = other.r
          /\ FDisjointLeft(other, res) /\ FStartsWithOrBefore(this, res)
      BY <1>2, <1>3, <1>8, <2>4, <3>1, DifferenceRightEnds
    <3>3. now = res
      BY <2>2, <3>2
    <3>4. \A x \in Int : Holds(x, now) <=> Holds(x, this) /\ ~ BelowRight(x, other)
      BY <1>2, <1>3, <1>8, <3>1, <3>3, DifferenceRightExact
    <3>5. RangeOver(D, now) /\ res \in RangeType \cup {NULL}
      BY <1>2, <1>3, <1>8, <3>2, <3>3, WellFormedFields DEF RangeOver
    <3>6. /\ d \in Arrays(D) /\ EndsBefore(d, now)
          /\ \A x \in Int : Within(x, d) <=> Within(x, s.dest) \/ (Holds(x, this) /\ ~ AboveLeft(x, other))
      <4>1. CASE RngContains(this, other)
        <5>1. d = AppendOrExtend(s.dest, PrngDifferenceLeft(this, other))
          BY <3>1, <4>1
        <5>2. /\ d \in Arrays(D)
              /\ \A c : WellFormed(c) /\ FDisjointLeft(other, c) /\ FStartsWithOrBefore(this, c) => EndsBefore(d, c)
              /\ \A x \in Int : Within(x, d) <=> Within(x, s.dest) \/ Holds(x, PrngDifferenceLeft(this, other))
          BY <1>2, <1>3, <1>8, <5>1, AppendLeft
        <5>3. \A x \in Int : Holds(x, PrngDifferenceLeft(this, other)) <=> Holds(x, this) /\ ~ AboveLeft(x, other)
          BY <1>2, <1>3, <1>8, DifferenceLeftExact
        <5> HIDE DEF d
        <5> QED
          BY <3>2, <3>3, <5>2, <5>3
      <4>2. CASE ~ RngContains(this, other)
        <5>1. d = s.dest
          BY <3>1, <4>2 DEF AppendOrExtend
        <5>2. ~ FStartsWithOrBefore(this, other)
          BY <1>2, <1>3, <1>8, <4>2, EndsTotal DEF RngContains
        <5>3. \A x \in Int : Holds(x, this) => AboveLeft(x, other)
          BY <1>2, <1>3, <1>8, <5>2, StartsMeaning DEF Holds
        <5>4. EndsBefore(s.dest, now)
          BY <1>2, <1>3, <1>8, <3>2, <3>3, EndsBeforeStart
        <5> HIDE DEF d
        <5> QED
          BY <1>2, <5>1, <5>3, <5>4
      <4> QED
        BY <4>1, <4>2
    <3>7. now.r = this.r /\ now.ri = this.ri /\ FDisjointLeft(other, now) /\ (res # NULL => res.l = other.r)
      BY <3>2, <3>3
    <3>8. now = Current(fst, NextSnd(s, res, d))
      OBVIOUS
    <3> HIDE DEF t, d, res, now, diff
    <3> QED
      BY <1>8, <2>1, <3>4, <3>5, <3>6, <3>7, <3>8, DifferenceNextSnd DEF t
  <2> QED
    BY <2>3, <2>4
<1> QED
  BY <1>2, <1>5, <1>6, <1>7, <1>8

(* The loop of PciDifference is an iteration of its step. *)
LEMMA DifferenceLoopIs ==
    ASSUME NEW fst, NEW snd, NEW S, LoopStart \in S,
           \A s \in S : DifferenceStep(fst, snd, s) \in S
    PROVE  LET h == DifferenceLoop(fst, snd) IN
           h[0] = LoopStart /\ \A n \in Nat : h[n + 1] = DifferenceStep(fst, snd, h[n])
<1> DEFINE F == [s \in S |-> DifferenceStep(fst, snd, s)]
           Is(h) == h = [n \in Nat |-> IF n = 0 THEN LoopStart
                                       ELSE DifferenceStep(fst, snd, h[n - 1])]
<1>1. IsMap(F, S)
  BY DEF IsMap
<1>2. \E g : Iterates(g, S, F, LoopStart)
  <2> HIDE DEF F
  <2> QED
    BY <1>1, IterationExists
<1>3. PICK g : Iterates(g, S, F, LoopStart)
  BY <1>2
<1>4. Is(g)
  <2>1. ASSUME NEW n \in Nat, n # 0 PROVE g[n] = DifferenceStep(fst, snd, g[n - 1])
    <3>1. n - 1 \in Nat /\ (n - 1) + 1 = n
      BY <2>1
    <3>2. g[(n - 1) + 1] = F[g[n - 1]] /\ g[n - 1] \in S
      BY <1>3, <3>1 DEF Iterates
    <3> QED
      BY <3>1, <3>2
  <2> QED
    BY <1>3, <2>1 DEF Iterates
<1>5. DifferenceLoop(fst, snd) = CHOOSE h : Is(h)
  BY DEF DifferenceLoop
<1> DEFINE h == DifferenceLoop(fst, snd)
<1>6. Is(h)
  BY <1>4, <1>5
<1> HIDE DEF h
<1>7. h[0] = LoopStart
  BY <1>6
<1>8. ASSUME NEW n \in Nat PROVE h[n + 1] = DifferenceStep(fst, snd, h[n])
  <2>1. n + 1 \in Nat /\ n + 1 # 0 /\ (n + 1) - 1 = n
    OBVIOUS
  <2>2. h[n + 1] = DifferenceStep(fst, snd, h[(n + 1) - 1])
    BY <1>6, <2>1
  <2> QED
    BY <2>1, <2>2
<1> QED
  BY <1>7, <1>8 DEF h

(* The loop of PciDifference ends with the values of the first array that the second does not hold. *)
LEMMA DifferenceLoopExact ==
    ASSUME NEW D, NEW fst \in Arrays(D), NEW snd \in Arrays(D)
    PROVE  LET dest == DifferenceLoop(fst, snd)[Iterations(fst, snd)].dest IN
           /\ dest \in Arrays(D)
           /\ \A x \in Int : Within(x, dest) <=> Within(x, fst) /\ ~ Within(x, snd)
<1> DEFINE S == DifferenceStates(D, fst, snd)
           F == [s \in S |-> DifferenceStep(fst, snd, s)]
           m == [s \in S |-> Left(fst, snd, s)]
           k == Iterations(fst, snd)
           h == DifferenceLoop(fst, snd)
<1>1. LoopStart \in S
  <2>1. /\ LoopStart \in LoopStates(D, fst, snd) /\ LoopStart.fst = 1 /\ LoopStart.snd = 1
        /\ LoopStart.dest = <<>> /\ LoopStart.residual = NULL
    BY LoopStatesFacts DEF LoopStart
  <2> DEFINE s == LoopStart
  <2>2. Current(fst, s) = fst[1]
    BY <2>1 DEF Current
  <2>3. s.fst <= Len(fst) => CurrentOK(D, fst, snd, s)
    <3>1. s.fst <= Len(fst) => RangeOver(D, fst[1])
      BY <2>1, LoopStatesFacts
    <3>2. \A l \in 1 .. Len(snd) : ~ (l < 1)
      BY ArrayFacts
    <3>3. EndsBefore(<<>>, fst[1])
      BY DEF EndsBefore
    <3> HIDE DEF s
    <3> QED
      BY <2>1, <2>2, <3>1, <3>2, <3>3 DEF CurrentOK, s
  <2>4. ASSUME NEW x \in Int PROVE ~ Within(x, <<>>) /\ (Within(x, fst) => Rest(x, fst, s))
    <3>1. CASE 1 <= Len(fst)
      <4>1. 1 \in 1 .. Len(fst)
        BY <3>1, ArrayFacts
      <4>2. After(x, fst, 1) <=> Holds(x, fst[1]) \/ After(x, fst, 1 + 1)
        BY <4>1, AfterNext
      <4>3. After(x, fst, 1) <=> Within(x, fst)
        BY AfterEnd
      <4> QED
        BY <2>1, <2>2, <3>1, <4>2, <4>3, EmptyArray DEF Rest
    <3>2. CASE ~ (1 <= Len(fst))
      <4>1. \A i : ~ (i \in 1 .. Len(fst))
        BY <3>2, ArrayFacts
      <4> QED
        BY <4>1, EmptyArray DEF Within
    <3> QED
      BY <3>1, <3>2
  <2> HIDE DEF s
  <2> QED
    BY <2>1, <2>3, <2>4 DEF DifferenceStates, s
<1>2. F \in [S -> S]
  BY DifferenceKeeps
<1>3. m \in [S -> Nat] /\ k \in Nat /\ m[LoopStart] <= k
  <2>1. \A s \in S : Left(fst, snd, s) \in Nat
    BY LoopStatesFacts DEF DifferenceStates
  <2>2. m \in [S -> Nat]
    BY <2>1
  <2>3. m[LoopStart] = k /\ k \in Nat
    BY <1>1, LoopStatesFacts
  <2> QED
    BY <2>2, <2>3
<1>4. \A s \in S : F[s] # s => m[F[s]] < m[s]
  BY DifferenceKeeps
<1>5. h[0] = LoopStart /\ \A n \in Nat : h[n] \in S => h[n + 1] = F[h[n]]
  BY <1>1, DifferenceLoopIs, DifferenceKeeps
<1> HIDE DEF h
<1>6. h[k] \in S /\ F[h[k]] = h[k]
  <2> HIDE DEF S, F, m, k
  <2>1. IsMap(F, S) /\ IsMeasure(m, S, F) /\ Runs(h, S, F, LoopStart)
    BY <1>2, <1>3, <1>4, <1>5 DEF IsMap, IsMeasure, Runs
  <2> QED
    BY <1>1, <1>3, <2>1, LoopEnds
<1> DEFINE s == h[k]
<1>7. s \in S /\ s.fst > Len(fst)
  BY <1>6, DifferenceKeeps
<1> HIDE DEF s
<1>8. s.dest \in Arrays(D) /\ s.fst \in Nat /\ s.snd \in Nat
  <2>1. s \in LoopStates(D, fst, snd)
    BY <1>7 DEF DifferenceStates
  <2> QED
    BY <2>1, LoopStatesFacts
<1>9. \A x \in Int : ~ Rest(x, fst, s)
  <2>1. s.fst + 1 \in Nat /\ s.fst + 1 > Len(fst) /\ ~ (s.fst <= Len(fst))
    BY <1>7, <1>8, ArrayFacts
  <2> QED
    BY <2>1, AfterEnd DEF Rest
<1> QED
  BY <1>7, <1>8, <1>9 DEF DifferenceStates, s, h

(* PciDifference: the values, and NULL, that the first interval holds and the second does not
   (CConstraintInterval::PciDifference). *)
THEOREM PciDifferenceExact ==
    ASSUME NEW D, NEW p \in Pcis(D), NEW q \in Pcis(D)
    PROVE  LET t == PciDifference(p, q) IN
           /\ t \in Pcis(D) /\ t.null = (p.null /\ ~ q.null)
           /\ \A x \in Int : Within(x, t.rngs) <=> Within(x, p.rngs) /\ ~ Within(x, q.rngs)
<1>1. p.rngs \in Arrays(D) /\ q.rngs \in Arrays(D) /\ p.null \in BOOLEAN /\ q.null \in BOOLEAN
  BY DEF Pcis
<1> DEFINE dest == DifferenceLoop(p.rngs, q.rngs)[Iterations(p.rngs, q.rngs)].dest
<1>2. /\ dest \in Arrays(D)
      /\ \A x \in Int : Within(x, dest) <=> Within(x, p.rngs) /\ ~ Within(x, q.rngs)
  BY <1>1, DifferenceLoopExact
<1>3. PciDifference(p, q) = [rngs |-> dest, null |-> p.null /\ ~ q.null]
  BY DEF PciDifference, Pci
<1> HIDE DEF dest
<1> QED
  BY <1>1, <1>2, <1>3 DEF Pcis

-----------------------------------------------------------------------------
(* PciComplement. *)

(* An array of one range. *)
LEMMA OneRange ==
    ASSUME NEW D, NEW a, RangeOver(D, a)
    PROVE  <<a>> \in Arrays(D) /\ \A x : Within(x, <<a>>) <=> Holds(x, a)
<1>1. a \in RangeType
  BY WellFormedFields DEF RangeOver
<1>2. <<a>> \in Seq(RangeType) /\ Len(<<a>>) = 1 /\ <<a>>[1] = a
  BY <1>1
<1> DEFINE rs == <<a>>
<1> HIDE DEF rs
<1>3. \A k : k \in 1 .. Len(rs) <=> k = 1
  BY <1>2 DEF rs
<1>4. \A k : ~ (k \in 1 .. Len(rs) - 1)
  BY <1>2 DEF rs
<1>5. rs \in Arrays(D)
  BY <1>2, <1>3, <1>4 DEF Arrays, rs
<1>6. \A x : Within(x, rs) <=> Holds(x, a)
  BY <1>2, <1>3 DEF Within, rs
<1> QED
  BY <1>5, <1>6 DEF rs

(* The unbounded interval holds every value. *)
LEMMA UnboundedArray ==
    ASSUME NEW D, NEW null \in BOOLEAN
    PROVE  /\ PciUnbounded(null) \in Pcis(D) /\ PciUnbounded(null).null = null
           /\ PciUnbounded(null).rngs = <<Unbounded>>
           /\ \A x \in Int : Within(x, PciUnbounded(null).rngs)
<1>1. RangeOver(D, Unbounded)
  BY DEF RangeOver, WellFormed, Unbounded, Rng, RangeType
<1>2. \A x \in Int : Holds(x, Unbounded)
  <2>1. Unbounded # NULL
    BY <1>1, WellFormedFields DEF RangeOver
  <2> QED
    BY <2>1 DEF Holds, AboveLeft, BelowRight, Unbounded, Rng
<1>3. PciUnbounded(null) = [rngs |-> <<Unbounded>>, null |-> null]
  BY DEF PciUnbounded, Pci
<1>4. <<Unbounded>> \in Arrays(D) /\ \A x \in Int : Within(x, <<Unbounded>>)
  BY <1>1, <1>2, OneRange
<1> QED
  BY <1>3, <1>4 DEF Pcis

(* PciComplement: the values, and NULL, that the interval does not hold
   (CConstraintInterval::PciComplement). *)
THEOREM PciComplementExact ==
    ASSUME NEW D, NEW p \in Pcis(D)
    PROVE  LET t == PciComplement(p) IN
           /\ t \in Pcis(D) /\ t.null = ~ p.null
           /\ \A x \in Int : Within(x, t.rngs) <=> ~ Within(x, p.rngs)
<1> DEFINE u == PciUnbounded(TRUE)
<1>1. u \in Pcis(D) /\ u.null = TRUE /\ \A x \in Int : Within(x, u.rngs)
  BY UnboundedArray
<1>2. PciComplement(p) = PciDifference(u, p)
  BY DEF PciComplement
<1> HIDE DEF u
<1> DEFINE t == PciDifference(u, p)
<1>3. /\ t \in Pcis(D) /\ t.null = (u.null /\ ~ p.null)
      /\ \A x \in Int : Within(x, t.rngs) <=> Within(x, u.rngs) /\ ~ Within(x, p.rngs)
  BY <1>1, PciDifferenceExact
<1> HIDE DEF t
<1>4. t.null = ~ p.null
  BY <1>1, <1>3
<1> QED
  BY <1>1, <1>2, <1>3, <1>4 DEF t

-----------------------------------------------------------------------------
(* AND. *)

Maybe(D) == Pcis(D) \cup {NULL}

(* No interval is the NULL pointer. *)
LEMMA NullIsNoInterval == ASSUME NEW D PROVE NULL \notin Pcis(D)
<1>1. \A p \in Pcis(D) : p \in [rngs : Seq(RangeType), null : BOOLEAN]
  BY DEF Pcis, Arrays
<1> QED
  BY <1>1, IntervalAssumption

(* What an argument of AND lets through: the argument without an interval lets
   all through. *)
Passes(x, p) == p = NULL \/ Within(x, p.rngs)
PassesNull(p) == p = NULL \/ p.null

(* One step of PciIntervalFromScalarBoolAnd: two intervals are intersected, and
   an argument without an interval is passed over. *)
LEMMA AndExact ==
    ASSUME NEW D, NEW p \in Maybe(D), NEW q \in Maybe(D)
    PROVE  LET t == And(p, q) IN
           /\ t \in Maybe(D) /\ (t = NULL <=> p = NULL /\ q = NULL)
           /\ PassesNull(t) <=> PassesNull(p) /\ PassesNull(q)
           /\ \A x \in Int : Passes(x, t) <=> Passes(x, p) /\ Passes(x, q)
<1>1. CASE p # NULL /\ q # NULL
  <2> DEFINE t == PciIntersect(p, q)
  <2>1. p \in Pcis(D) /\ q \in Pcis(D)
    BY <1>1 DEF Maybe
  <2>2. /\ t \in Pcis(D) /\ t.null = (p.null /\ q.null)
        /\ \A x \in Int : Within(x, t.rngs) <=> Within(x, p.rngs) /\ Within(x, q.rngs)
    BY <2>1, PciIntersectExact
  <2>3. And(p, q) = t
    BY <1>1 DEF And
  <2> HIDE DEF t
  <2>4. t # NULL
    BY <2>2, NullIsNoInterval
  <2> QED
    BY <1>1, <2>2, <2>3, <2>4 DEF Maybe, Passes, PassesNull
<1>2. CASE p = NULL /\ q # NULL
  BY <1>2 DEF And, Passes, PassesNull
<1>3. CASE q = NULL
  BY <1>3 DEF And, Passes, PassesNull
<1> QED
  BY <1>1, <1>2, <1>3

(* The loop of PciIntervalFromScalarBoolAnd takes the arguments one by one. *)
LEMMA AndLoopIs ==
    ASSUME NEW D, NEW pcis \in Seq(Maybe(D)), pcis # <<>>
    PROVE  LET h == AndLoop(pcis) IN
           /\ h[0] = pcis[1]
           /\ \A n \in 0 .. Len(pcis) - 1 : n + 1 \in 0 .. Len(pcis) - 1 =>
                 h[n + 1] = And(h[n], pcis[n + 2])
<1> DEFINE N == Len(pcis) - 1
           S == Nat \X Maybe(D)
           Other(k) == IF k <= Len(pcis) THEN pcis[k] ELSE NULL
           F == [s \in S |-> <<s[1] + 1, And(s[2], Other(s[1] + 2))>>]
           Is(h) == h = [n \in 0 .. N |-> IF n = 0 THEN pcis[1]
                                          ELSE And(h[n - 1], pcis[n + 1])]
<1>1. Len(pcis) \in Nat /\ N \in Nat /\ 0 \in 0 .. N
  OBVIOUS
<1>2. \A k \in Nat : k > 0 => Other(k) \in Maybe(D)
  BY DEF Maybe
<1>3. IsMap(F, S)
  <2>1. ASSUME NEW s \in S PROVE F[s] \in S
    <3>1. s[1] \in Nat /\ s[2] \in Maybe(D)
      OBVIOUS
    <3>2. s[1] + 2 \in Nat /\ s[1] + 2 > 0 /\ s[1] + 1 \in Nat
      BY <3>1
    <3>3. Other(s[1] + 2) \in Maybe(D)
      BY <1>2, <3>2
    <3> HIDE DEF Other
    <3>4. And(s[2], Other(s[1] + 2)) \in Maybe(D)
      BY <3>1, <3>3, AndExact
    <3> QED
      BY <3>2, <3>4
  <2> HIDE DEF S, Other
  <2> QED
    BY <2>1 DEF IsMap
<1>4. <<0, pcis[1]>> \in S
  OBVIOUS
<1>5. PICK g : Iterates(g, S, F, <<0, pcis[1]>>)
  <2> HIDE DEF F, S
  <2> QED
    BY <1>3, <1>4, IterationExists
<1>6. \A n \in Nat : g[n] \in S /\ g[n + 1] = F[g[n]]
  BY <1>5 DEF Iterates
<1>7. \A n \in Nat : g[n][1] = n
  <2> DEFINE G == {n \in Nat : g[n][1] = n}
  <2>1. 0 \in G
    <3>1. g[0] = <<0, pcis[1]>>
      BY <1>5 DEF Iterates
    <3> QED
      BY <3>1
  <2>2. \A n \in Nat : n \in G => n + 1 \in G
    <3> SUFFICES ASSUME NEW n \in Nat, n \in G PROVE n + 1 \in G
      OBVIOUS
    <3>1. g[n + 1] = F[g[n]] /\ g[n] \in S
      BY <1>6
    <3>2. F[g[n]][1] = g[n][1] + 1
      BY <3>1
    <3> QED
      BY <3>1, <3>2
  <2>3. Nat \subseteq G
    BY <2>1, <2>2, NaturalSteps
  <2> QED
    BY <2>3
<1> DEFINE h == [n \in 0 .. N |-> g[n][2]]
<1>8. Is(h)
  <2>1. h[0] = pcis[1]
    <3>1. g[0] = <<0, pcis[1]>>
      BY <1>5 DEF Iterates
    <3>2. h[0] = g[0][2]
      BY <1>1
    <3> QED
      BY <3>1, <3>2
  <2>2. ASSUME NEW n \in 0 .. N, n # 0 PROVE h[n] = And(h[n - 1], pcis[n + 1])
    <3>1. n - 1 \in Nat /\ n - 1 \in 0 .. N /\ (n - 1) + 1 = n /\ (n - 1) + 2 = n + 1 /\ n + 1 <= Len(pcis)
      BY <1>1, <2>2
    <3>2. g[n] = F[g[n - 1]] /\ g[n - 1] \in S /\ g[n - 1][1] = n - 1
      BY <1>6, <1>7, <3>1
    <3>3. F[g[n - 1]][2] = And(g[n - 1][2], Other((n - 1) + 2))
      BY <3>2
    <3>4. Other((n - 1) + 2) = pcis[n + 1]
      BY <3>1
    <3> QED
      BY <3>1, <3>2, <3>3, <3>4
  <2> HIDE DEF N
  <2> QED
    BY <2>1, <2>2
<1>9. AndLoop(pcis) = CHOOSE f : Is(f)
  BY DEF AndLoop
<1> DEFINE f == AndLoop(pcis)
<1> HIDE DEF h
<1>10. Is(f)
  BY <1>8, <1>9
<1> HIDE DEF f
<1>11. f[0] = pcis[1]
  BY <1>1, <1>10
<1>12. ASSUME NEW n \in 0 .. N, n + 1 \in 0 .. N PROVE f[n + 1] = And(f[n], pcis[n + 2])
  <2>1. n + 1 # 0 /\ (n + 1) - 1 = n /\ (n + 1) + 1 = n + 2
    OBVIOUS
  <2>2. f[n + 1] = And(f[(n + 1) - 1], pcis[(n + 1) + 1])
    BY <1>10, <1>12, <2>1
  <2> QED
    BY <2>1, <2>2
<1> QED
  BY <1>11, <1>12 DEF f

(* PciIntervalFromScalarBoolAnd: what all the arguments hold; there is no
   interval when no argument has one
   (CConstraintInterval::PciIntervalFromScalarBoolAnd). *)
THEOREM BoolAndExact ==
    ASSUME NEW D, NEW pcis \in Seq(Maybe(D)), pcis # <<>>
    PROVE  LET t == PciIntervalFromScalarBoolAnd(pcis) IN
           /\ t \in Maybe(D) /\ (t = NULL <=> \A i \in 1 .. Len(pcis) : pcis[i] = NULL)
           /\ PassesNull(t) <=> \A i \in 1 .. Len(pcis) : PassesNull(pcis[i])
           /\ \A x \in Int : Passes(x, t) <=> \A i \in 1 .. Len(pcis) : Passes(x, pcis[i])
<1> DEFINE f == AndLoop(pcis)
           N == Len(pcis) - 1
           Upto(t, n) ==
               /\ t \in Maybe(D) /\ (t = NULL <=> \A i \in 1 .. n : pcis[i] = NULL)
               /\ PassesNull(t) <=> \A i \in 1 .. n : PassesNull(pcis[i])
               /\ \A x \in Int : Passes(x, t) <=> \A i \in 1 .. n : Passes(x, pcis[i])
           G == {n \in Nat : n <= N => Upto(f[n], n + 1)}
<1>1. /\ f[0] = pcis[1]
      /\ \A n \in 0 .. N : n + 1 \in 0 .. N => f[n + 1] = And(f[n], pcis[n + 2])
  BY AndLoopIs
<1>2. Len(pcis) \in Nat /\ N \in Nat /\ \A i \in 1 .. Len(pcis) : pcis[i] \in Maybe(D)
  OBVIOUS
<1> HIDE DEF f
<1>3. 0 \in G
  <2>1. \A i : i \in 1 .. 0 + 1 <=> i = 1
    OBVIOUS
  <2>2. pcis[1] \in Maybe(D)
    BY <1>2
  <2> QED
    BY <1>1, <2>1, <2>2
<1>4. ASSUME NEW n \in Nat, n \in G, n + 1 <= N PROVE Upto(f[n + 1], n + 2)
  <2>1. n \in 0 .. N /\ n + 1 \in 0 .. N /\ n <= N /\ n + 2 \in 1 .. Len(pcis)
    BY <1>2, <1>4
  <2>2. Upto(f[n], n + 1)
    BY <1>4, <2>1
  <2>3. f[n + 1] = And(f[n], pcis[n + 2]) /\ pcis[n + 2] \in Maybe(D)
    BY <1>1, <1>2, <2>1
  <2>4. \A i : i \in 1 .. n + 2 <=> i \in 1 .. n + 1 \/ i = n + 2
    OBVIOUS
  <2> DEFINE t == And(f[n], pcis[n + 2])
  <2>5. /\ t \in Maybe(D) /\ (t = NULL <=> f[n] = NULL /\ pcis[n + 2] = NULL)
        /\ PassesNull(t) <=> PassesNull(f[n]) /\ PassesNull(pcis[n + 2])
        /\ \A x \in Int : Passes(x, t) <=> Passes(x, f[n]) /\ Passes(x, pcis[n + 2])
    BY <2>2, <2>3, AndExact
  <2> HIDE DEF t
  <2>6. Upto(t, n + 2)
    BY <2>2, <2>4, <2>5
  <2> QED
    BY <2>3, <2>6 DEF t
<1>5. \A n \in Nat : n \in G => n + 1 \in G
  <2>1. \A n \in Nat : (n + 1) + 1 = n + 2 /\ n + 1 \in Nat
    OBVIOUS
  <2> HIDE DEF Upto, N
  <2> QED
    BY <1>4, <2>1
<1>6. N \in G
  <2> HIDE DEF G
  <2> QED
    BY <1>2, <1>3, <1>5, NaturalSteps
<1>7. Upto(f[N], Len(pcis))
  <2>1. N <= N /\ N + 1 = Len(pcis)
    BY <1>2
  <2> HIDE DEF Upto, N
  <2> QED
    BY <1>6, <2>1
<1> QED
  BY <1>7 DEF PciIntervalFromScalarBoolAnd, f

-----------------------------------------------------------------------------
(* OR. *)

(* The numbers of the pairs and of their members. *)
LEMMA Halves ==
    ASSUME NEW n \in Nat
    PROVE  /\ (n + 1) \div 2 \in Nat
           /\ 2 * ((n + 1) \div 2) \in {n, n + 1}
  OBVIOUS

(* What some interval of a sequence holds. *)
SomeHolds(x, ps) == \E i \in 1 .. Len(ps) : Within(x, ps[i].rngs)
SomeNull(ps) == \E i \in 1 .. Len(ps) : ps[i].null

(* One round of the union in pairs. *)
LEMMA NeighboursUnited ==
    ASSUME NEW D, NEW ps \in Seq(Pcis(D)), Len(ps) >= 1
    PROVE  LET us == UniteNeighbours(ps) IN
           /\ us \in Seq(Pcis(D)) /\ Len(us) >= 1
           /\ Len(ps) > 1 => Len(us) < Len(ps)
           /\ Len(ps) = 1 => us = ps
           /\ SomeNull(us) <=> SomeNull(ps)
           /\ \A x \in Int : SomeHolds(x, us) <=> SomeHolds(x, ps)
<1> DEFINE n == Len(ps)
           m == (n + 1) \div 2
           us == UniteNeighbours(ps)
<1>1. n \in Nat /\ n >= 1 /\ \A i \in 1 .. n : ps[i] \in Pcis(D)
  OBVIOUS
<1>2. m \in Nat /\ 2 * m \in {n, n + 1}
  BY <1>1, Halves
<1> HIDE DEF m
<1>3. us = [i \in 1 .. m |-> IF 2 * i <= n THEN PciUnion(ps[2 * i - 1], ps[2 * i]) ELSE ps[2 * i - 1]]
  BY DEF UniteNeighbours, m
<1> HIDE DEF us
<1>4. \A i \in 1 .. m : 2 * i - 1 \in 1 .. n /\ (2 * i <= n => 2 * i \in 1 .. n)
  BY <1>1, <1>2
<1>5. ASSUME NEW i \in 1 .. m
      PROVE  /\ us[i] \in Pcis(D)
             /\ us[i].null <=> ps[2 * i - 1].null \/ (2 * i <= n /\ ps[2 * i].null)
             /\ \A x \in Int : Within(x, us[i].rngs) <=>
                   Within(x, ps[2 * i - 1].rngs) \/ (2 * i <= n /\ Within(x, ps[2 * i].rngs))
  <2>1. 2 * i - 1 \in 1 .. n /\ ps[2 * i - 1] \in Pcis(D)
    BY <1>1, <1>4
  <2>2. CASE 2 * i <= n
    <3>1. ps[2 * i] \in Pcis(D)
      BY <1>1, <1>4, <2>2
    <3>2. us[i] = PciUnion(ps[2 * i - 1], ps[2 * i])
      BY <1>3, <2>2
    <3> DEFINE a == ps[2 * i - 1]
               b == ps[2 * i]
               t == PciUnion(a, b)
    <3>3. /\ t \in Pcis(D) /\ t.null = (a.null \/ b.null)
          /\ \A x \in Int : Within(x, t.rngs) <=> Within(x, a.rngs) \/ Within(x, b.rngs)
      BY <2>1, <3>1, PciUnionExact
    <3>4. us[i] = t
      BY <3>2
    <3> HIDE DEF t
    <3> QED
      BY <2>2, <3>3, <3>4
  <2>3. CASE ~ (2 * i <= n)
    <3>1. us[i] = ps[2 * i - 1]
      BY <1>3, <2>3
    <3> QED
      BY <2>1, <2>3, <3>1
  <2> QED
    BY <2>2, <2>3
<1>6. us \in Seq(Pcis(D)) /\ Len(us) = m
  <2>1. us \in [1 .. m -> Pcis(D)]
    BY <1>3, <1>5
  <2> QED
    BY <1>2, <2>1
<1>7. Len(us) >= 1 /\ (n > 1 => Len(us) < n)
  BY <1>1, <1>2, <1>6
<1>8. ASSUME n = 1 PROVE us = ps
  <2>1. m = 1
    BY <1>1, <1>2, <1>8
  <2>2. us[1] = ps[1]
    BY <1>3, <1>8, <2>1
  <2>3. Len(us) = Len(ps) /\ \A i \in 1 .. Len(us) : us[i] = ps[i]
    BY <1>6, <1>8, <2>1, <2>2
  <2> QED
    BY <1>6, <2>3, SeqEqual
<1>9. \A k \in 1 .. n : \E i \in 1 .. m : k = 2 * i - 1 \/ (k = 2 * i /\ 2 * i <= n)
  <2> SUFFICES ASSUME NEW k \in 1 .. n
               PROVE  \E i \in 1 .. m : k = 2 * i - 1 \/ (k = 2 * i /\ 2 * i <= n)
    OBVIOUS
  <2> DEFINE i == (k + 1) \div 2
  <2>1. i \in Nat /\ 2 * i \in {k, k + 1} /\ k \in Nat
    BY <1>1, Halves
  <2> HIDE DEF i
  <2>2. i \in 1 .. m
    BY <1>1, <1>2, <2>1
  <2> QED
    BY <1>1, <2>1, <2>2
<1>10. SomeNull(us) <=> SomeNull(ps)
  BY <1>4, <1>5, <1>6, <1>9 DEF SomeNull
<1>11. ASSUME NEW x \in Int PROVE SomeHolds(x, us) <=> SomeHolds(x, ps)
  <2> DEFINE U(i) == Within(x, us[i].rngs)
             P(i) == Within(x, ps[i].rngs)
  <2>1. \A i \in 1 .. m : U(i) <=> P(2 * i - 1) \/ (2 * i <= n /\ P(2 * i))
    BY <1>5
  <2>2. (SomeHolds(x, us) <=> \E i \in 1 .. m : U(i)) /\ (SomeHolds(x, ps) <=> \E i \in 1 .. n : P(i))
    BY <1>6 DEF SomeHolds
  <2> HIDE DEF U, P
  <2> QED
    BY <1>4, <1>9, <2>1, <2>2
<1> QED
  BY <1>6, <1>7, <1>8, <1>10, <1>11 DEF us

(* The rounds of the union in pairs are an iteration of UniteNeighbours. *)
LEMMA UnionInPairsIs ==
    ASSUME NEW ps, NEW S, ps \in S, \A s \in S : UniteNeighbours(s) \in S
    PROVE  LET h == UnionInPairs(ps) IN
           h[0] = ps /\ \A n \in Nat : h[n + 1] = UniteNeighbours(h[n])
<1> DEFINE F == [s \in S |-> UniteNeighbours(s)]
           Is(h) == h = [n \in Nat |-> IF n = 0 THEN ps ELSE UniteNeighbours(h[n - 1])]
<1>1. IsMap(F, S)
  BY DEF IsMap
<1>2. \E g : Iterates(g, S, F, ps)
  <2> HIDE DEF F
  <2> QED
    BY <1>1, IterationExists
<1>3. PICK g : Iterates(g, S, F, ps)
  BY <1>2
<1>4. Is(g)
  <2>1. ASSUME NEW n \in Nat, n # 0 PROVE g[n] = UniteNeighbours(g[n - 1])
    <3>1. n - 1 \in Nat /\ (n - 1) + 1 = n
      BY <2>1
    <3>2. g[(n - 1) + 1] = F[g[n - 1]] /\ g[n - 1] \in S
      BY <1>3, <3>1 DEF Iterates
    <3> QED
      BY <3>1, <3>2
  <2> QED
    BY <1>3, <2>1 DEF Iterates
<1>5. UnionInPairs(ps) = CHOOSE h : Is(h)
  BY DEF UnionInPairs
<1> DEFINE h == UnionInPairs(ps)
<1>6. Is(h)
  BY <1>4, <1>5
<1> HIDE DEF h
<1>7. h[0] = ps
  BY <1>6
<1>8. ASSUME NEW n \in Nat PROVE h[n + 1] = UniteNeighbours(h[n])
  <2>1. n + 1 \in Nat /\ n + 1 # 0 /\ (n + 1) - 1 = n
    OBVIOUS
  <2>2. h[n + 1] = UniteNeighbours(h[(n + 1) - 1])
    BY <1>6, <2>1
  <2> QED
    BY <2>1, <2>2
<1> QED
  BY <1>7, <1>8 DEF h

(* As many rounds as there are intervals leave one. *)
LEMMA UnionInPairsExact ==
    ASSUME NEW D, NEW ps \in Seq(Pcis(D)), ps # <<>>
    PROVE  LET t == UnionInPairs(ps)[Len(ps)][1] IN
           /\ t \in Pcis(D)
           /\ t.null <=> SomeNull(ps)
           /\ \A x \in Int : Within(x, t.rngs) <=> SomeHolds(x, ps)
<1> DEFINE S == {us \in Seq(Pcis(D)) :
                    /\ Len(us) >= 1
                    /\ SomeNull(us) <=> SomeNull(ps)
                    /\ \A x \in Int : SomeHolds(x, us) <=> SomeHolds(x, ps)}
           F == [s \in S |-> UniteNeighbours(s)]
           m == [s \in S |-> Len(s)]
           k == Len(ps)
           h == UnionInPairs(ps)
<1>1. ps \in S
  <2>1. Len(ps) >= 1
    OBVIOUS
  <2> QED
    BY <2>1
<1>2. ASSUME NEW s \in S
      PROVE  /\ UniteNeighbours(s) \in S /\ Len(s) \in Nat /\ Len(UniteNeighbours(s)) \in Nat
             /\ Len(s) > 1 => Len(UniteNeighbours(s)) < Len(s)
             /\ Len(s) = 1 => UniteNeighbours(s) = s
             /\ Len(s) = 1 \/ Len(s) > 1
  <2> DEFINE us == UniteNeighbours(s)
  <2>1. /\ us \in Seq(Pcis(D)) /\ Len(us) >= 1
        /\ Len(s) > 1 => Len(us) < Len(s)
        /\ Len(s) = 1 => us = s
        /\ SomeNull(us) <=> SomeNull(s)
        /\ \A x \in Int : SomeHolds(x, us) <=> SomeHolds(x, s)
    BY NeighboursUnited
  <2> HIDE DEF us
  <2>2. us \in S
    BY <2>1
  <2>3. Len(s) \in Nat /\ Len(us) \in Nat /\ (Len(s) = 1 \/ Len(s) > 1)
    <3>1. Len(us) \in Nat
      BY <2>1
    <3>2. Len(s) \in Nat /\ Len(s) >= 1
      OBVIOUS
    <3>3. \A j \in Nat : j >= 1 => j = 1 \/ j > 1
      OBVIOUS
    <3> HIDE DEF S
    <3> QED
      BY <3>1, <3>2, <3>3
  <2> HIDE DEF S
  <2> QED
    BY <2>1, <2>2, <2>3 DEF us
<1> HIDE DEF S
<1>3. F \in [S -> S]
  BY <1>2
<1>4. m \in [S -> Nat] /\ k \in Nat /\ m[ps] <= k
  <2>1. m \in [S -> Nat]
    BY <1>2
  <2>2. m[ps] = k /\ k \in Nat
    BY <1>1
  <2> QED
    BY <2>1, <2>2
<1>5. ASSUME NEW s \in S PROVE /\ F[s] # s => m[F[s]] < m[s]
                               /\ F[s] = s => Len(s) = 1
  <2>1. F[s] = UniteNeighbours(s) /\ F[s] \in S /\ m[s] = Len(s)
    BY <1>2
  <2>2. m[F[s]] = Len(UniteNeighbours(s))
    BY <2>1
  <2>3. Len(s) \in Nat /\ Len(UniteNeighbours(s)) \in Nat
    BY <1>2
  <2> HIDE DEF F, m
  <2>4. F[s] = s => ~ (Len(UniteNeighbours(s)) < Len(s))
    BY <2>1, <2>3
  <2> QED
    BY <1>2, <2>1, <2>2, <2>4
<1>6. h[0] = ps /\ \A n \in Nat : h[n] \in S => h[n + 1] = F[h[n]]
  <2>1. h[0] = ps /\ \A n \in Nat : h[n + 1] = UniteNeighbours(h[n])
    BY <1>1, <1>2, UnionInPairsIs
  <2> HIDE DEF h
  <2> QED
    BY <2>1
<1> HIDE DEF h
<1>7. h[k] \in S /\ F[h[k]] = h[k]
  <2>1. \A s \in S : F[s] # s => m[F[s]] < m[s]
    BY <1>5
  <2> HIDE DEF F, m, k
  <2>2. IsMap(F, S) /\ IsMeasure(m, S, F) /\ Runs(h, S, F, ps)
    BY <1>3, <1>4, <1>6, <2>1 DEF IsMap, IsMeasure, Runs
  <2> QED
    BY <1>1, <1>4, <2>2, LoopEnds
<1> DEFINE us == h[k]
<1>8. us \in S /\ Len(us) = 1
  BY <1>5, <1>7
<1> HIDE DEF us
<1>9. /\ us[1] \in Pcis(D)
      /\ \A i : i \in 1 .. Len(us) <=> i = 1
      /\ SomeNull(us) <=> SomeNull(ps)
      /\ \A x \in Int : SomeHolds(x, us) <=> SomeHolds(x, ps)
  BY <1>8 DEF S
<1>10. (SomeNull(us) <=> us[1].null) /\ \A x : SomeHolds(x, us) <=> Within(x, us[1].rngs)
  BY <1>9 DEF SomeNull, SomeHolds
<1> QED
  BY <1>9, <1>10 DEF us, h

(* PciIntervalFromScalarBoolOr: what one of the arguments holds; there is no
   interval when an argument has none
   (CConstraintInterval::PciIntervalFromScalarBoolOr). *)
THEOREM BoolOrExact ==
    ASSUME NEW D, NEW pcis \in Seq(Maybe(D)), pcis # <<>>
    PROVE  LET t == PciIntervalFromScalarBoolOr(pcis) IN
           /\ t \in Maybe(D) /\ (t = NULL <=> \E i \in 1 .. Len(pcis) : pcis[i] = NULL)
           /\ t # NULL => /\ t.null <=> \E i \in 1 .. Len(pcis) : pcis[i].null
                          /\ \A x \in Int : Within(x, t.rngs) <=>
                                \E i \in 1 .. Len(pcis) : Within(x, pcis[i].rngs)
<1>1. Range(pcis) = {pcis[i] : i \in 1 .. Len(pcis)}
  BY DEF Range
<1>2. CASE NULL \in Range(pcis)
  <2>1. PciIntervalFromScalarBoolOr(pcis) = NULL
    BY <1>2 DEF PciIntervalFromScalarBoolOr
  <2>2. \E i \in 1 .. Len(pcis) : pcis[i] = NULL
    BY <1>1, <1>2
  <2> QED
    BY <2>1, <2>2 DEF Maybe
<1>3. CASE NULL \notin Range(pcis)
  <2> DEFINE t == UnionInPairs(pcis)[Len(pcis)][1]
  <2>1. PciIntervalFromScalarBoolOr(pcis) = t
    BY <1>3 DEF PciIntervalFromScalarBoolOr
  <2>2. ~ \E i \in 1 .. Len(pcis) : pcis[i] = NULL
    BY <1>1, <1>3
  <2>3. pcis \in Seq(Pcis(D))
    <3>1. \A i \in 1 .. Len(pcis) : pcis[i] \in Pcis(D)
      BY <2>2 DEF Maybe
    <3>2. Len(pcis) \in Nat /\ pcis \in [1 .. Len(pcis) -> Maybe(D)]
      OBVIOUS
    <3>3. pcis \in [1 .. Len(pcis) -> Pcis(D)]
      BY <3>1, <3>2
    <3> QED
      BY <3>2, <3>3
  <2>4. /\ t \in Pcis(D) /\ (t.null <=> SomeNull(pcis))
        /\ \A x \in Int : Within(x, t.rngs) <=> SomeHolds(x, pcis)
    BY <2>3, UnionInPairsExact
  <2> HIDE DEF t
  <2>5. t # NULL /\ t \in Maybe(D)
    BY <2>4, NullIsNoInterval DEF Maybe
  <2> QED
    BY <2>1, <2>2, <2>4, <2>5 DEF SomeNull, SomeHolds
<1> QED
  BY <1>2, <1>3

-----------------------------------------------------------------------------
(* The leaves. *)

(* Finite sets of numbers have a greatest element. *)
LEMMA GreatestExists ==
    ASSUME NEW T, T \subseteq Int, IsFiniteSet(T), T # {}
    PROVE  \E x \in T : \A y \in T : y <= x
<1> DEFINE G == {n \in Nat : \A U \in SUBSET Int :
                    IsFiniteSet(U) /\ Cardinality(U) = n /\ U # {} => \E x \in U : \A y \in U : y <= x}
<1>1. 0 \in G
  BY FS_EmptySet
<1>2. ASSUME NEW n \in Nat, n \in G PROVE n + 1 \in G
  <2> SUFFICES ASSUME NEW U \in SUBSET Int, IsFiniteSet(U), Cardinality(U) = n + 1
               PROVE  \E x \in U : \A y \in U : y <= x
    OBVIOUS
  <2>1. U # {}
    BY FS_EmptySet
  <2>2. PICK e \in U : TRUE
    BY <2>1
  <2> DEFINE V == U \ {e}
  <2>3. IsFiniteSet(V) /\ Cardinality(V) = Cardinality(U) - 1
    BY FS_RemoveElement
  <2>4. Cardinality(V) = n /\ V \in SUBSET Int
    BY <2>3
  <2>5. CASE V = {}
    BY <2>5
  <2>6. CASE V # {}
    <3>1. PICK x \in V : \A y \in V : y <= x
      BY <1>2, <2>3, <2>4, <2>6
    <3>2. CASE e <= x
      BY <3>1, <3>2
    <3>3. CASE ~ (e <= x)
      <4>1. \A y \in V : y <= e
        BY <3>1, <3>3
      <4> QED
        BY <4>1
    <3> QED
      BY <3>2, <3>3
  <2> QED
    BY <2>5, <2>6
<1>3. Nat \subseteq G
  BY <1>1, <1>2, NaturalSteps
<1>4. Cardinality(T) \in Nat
  BY FS_CardinalityType
<1> QED
  BY <1>3, <1>4

Sorted(ds, n) == \A i \in 2 .. n : IsLessThan(ds[i - 1], ds[i])

(* A finite set of numbers can be listed in order, each number once. *)
LEMMA SortingExists ==
    ASSUME NEW T, T \subseteq Int, IsFiniteSet(T)
    PROVE  \E ds \in [1 .. Cardinality(T) -> T] : Range(ds) = T /\ Sorted(ds, Cardinality(T))
<1> DEFINE Sorts(ds, n, U) == /\ ds \in [1 .. n -> U] /\ Sorted(ds, n)
                              /\ \A y \in U : \E i \in 1 .. n : y = ds[i]
           G == {n \in Nat : \A U \in SUBSET Int :
                    IsFiniteSet(U) /\ Cardinality(U) = n => \E ds : Sorts(ds, n, U)}
<1>1. 0 \in G
  <2> SUFFICES ASSUME NEW U \in SUBSET Int, IsFiniteSet(U), Cardinality(U) = 0
               PROVE  \E ds : Sorts(ds, 0, U)
    OBVIOUS
  <2>1. U = {}
    BY FS_EmptySet
  <2> DEFINE ds == [i \in 1 .. 0 |-> 0]
  <2>2. ds \in [1 .. 0 -> U]
    OBVIOUS
  <2>3. Sorted(ds, 0)
    BY DEF Sorted
  <2> HIDE DEF ds
  <2>4. Sorts(ds, 0, U)
    BY <2>1, <2>2, <2>3
  <2> QED
    BY <2>4
<1>2. ASSUME NEW n \in Nat, n \in G PROVE n + 1 \in G
  <2> SUFFICES ASSUME NEW U \in SUBSET Int, IsFiniteSet(U), Cardinality(U) = n + 1
               PROVE  \E ds : Sorts(ds, n + 1, U)
    OBVIOUS
  <2>1. U # {}
    BY FS_EmptySet
  <2>2. PICK m \in U : \A y \in U : y <= m
    BY <2>1, GreatestExists
  <2> DEFINE V == U \ {m}
  <2>3. IsFiniteSet(V) /\ Cardinality(V) = Cardinality(U) - 1
    BY FS_RemoveElement
  <2>4. Cardinality(V) = n /\ V \in SUBSET Int
    BY <2>3
  <2>5. PICK es : Sorts(es, n, V)
    BY <1>2, <2>3, <2>4
  <2>6. \A y \in V : y < m
    BY <2>2
  <2> DEFINE ds == [i \in 1 .. n + 1 |-> IF i = n + 1 THEN m ELSE es[i]]
  <2>7. \A i \in 1 .. n + 1 : i = n + 1 \/ (i \in 1 .. n /\ i # n + 1)
    OBVIOUS
  <2>8. ds \in [1 .. n + 1 -> U]
    BY <2>5, <2>7
  <2>9. \A i \in 1 .. n : i \in 1 .. n + 1 /\ ds[i] = es[i] /\ es[i] \in V
    BY <2>5
  <2>10. n + 1 \in 1 .. n + 1 /\ ds[n + 1] = m
    OBVIOUS
  <2> HIDE DEF ds, V
  <2>11. Sorted(ds, n + 1)
    <3> SUFFICES ASSUME NEW i \in 2 .. n + 1 PROVE ds[i - 1] < ds[i]
      BY DEF Sorted, IsLessThan
    <3>1. CASE i = n + 1
      <4>1. i - 1 \in 1 .. n
        BY <3>1
      <4> QED
        BY <2>6, <2>9, <2>10, <3>1, <4>1
    <3>2. CASE i # n + 1
      <4>1. i - 1 \in 1 .. n /\ i \in 1 .. n /\ i \in 2 .. n
        BY <3>2
      <4>2. es[i - 1] < es[i]
        BY <2>5, <4>1 DEF Sorted, IsLessThan
      <4> QED
        BY <2>9, <4>1, <4>2
    <3> QED
      BY <3>1, <3>2
  <2>12. \A y \in U : \E i \in 1 .. n + 1 : y = ds[i]
    <3> SUFFICES ASSUME NEW y \in U PROVE \E i \in 1 .. n + 1 : y = ds[i]
      OBVIOUS
    <3>1. CASE y = m
      BY <2>10, <3>1
    <3>2. CASE y # m
      <4>1. y \in V
        BY <3>2 DEF V
      <4>2. PICK i \in 1 .. n : y = es[i]
        BY <2>5, <4>1
      <4> QED
        BY <2>9, <4>2
    <3> QED
      BY <3>1, <3>2
  <2>13. Sorts(ds, n + 1, U)
    BY <2>8, <2>11, <2>12
  <2> QED
    BY <2>13
<1>3. Nat \subseteq G
  <2> HIDE DEF G
  <2> QED
    BY <1>1, <1>2, NaturalSteps
<1>4. Cardinality(T) \in Nat
  BY FS_CardinalityType
<1>5. PICK ds : Sorts(ds, Cardinality(T), T)
  BY <1>3, <1>4
<1>6. Range(ds) = T
  BY <1>5 DEF Range
<1> QED
  BY <1>5, <1>6

(* In a list whose neighbours are in order all elements are. *)
LEMMA SortedOrder ==
    ASSUME NEW n \in Nat, NEW ds \in [1 .. n -> Int], Sorted(ds, n),
           NEW i \in 1 .. n, NEW j \in 1 .. n, i < j
    PROVE  ds[i] < ds[j]
<1> DEFINE G == {k \in Nat : i + 1 + k <= n => ds[i] < ds[i + 1 + k]}
<1>1. 0 \in G
  <2>1. i + 1 <= n => i + 1 \in 2 .. n /\ (i + 1) - 1 = i
    OBVIOUS
  <2> QED
    BY <2>1 DEF Sorted, IsLessThan
<1>2. ASSUME NEW k \in Nat, k \in G PROVE k + 1 \in G
  <2> SUFFICES ASSUME i + 1 + (k + 1) <= n PROVE ds[i] < ds[i + 1 + (k + 1)]
    OBVIOUS
  <2> DEFINE a == i + 1 + k
  <2>1. /\ i + 1 + (k + 1) = a + 1 /\ a + 1 \in 2 .. n /\ (a + 1) - 1 = a
        /\ a \in 1 .. n /\ a + 1 \in 1 .. n /\ a <= n
    OBVIOUS
  <2>2. ds[i] < ds[a]
    BY <1>2, <2>1
  <2>3. ds[a] < ds[a + 1]
    BY <2>1 DEF Sorted, IsLessThan
  <2>4. ds[i] \in Int /\ ds[a] \in Int /\ ds[a + 1] \in Int
    BY <2>1
  <2> HIDE DEF a
  <2> QED
    BY <2>1, <2>2, <2>3, <2>4
<1>3. Nat \subseteq G
  BY <1>1, <1>2, NaturalSteps
<1>4. j - i - 1 \in Nat /\ i + 1 + (j - i - 1) = j /\ j <= n
  OBVIOUS
<1>5. j - i - 1 \in G
  BY <1>3, <1>4
<1> QED
  BY <1>4, <1>5

(* CDatumSortedSet: the datums of the list, each once, in order. *)
LEMMA SortedSet ==
    ASSUME NEW T, T \subseteq Int, IsFiniteSet(T)
    PROVE  LET ds == CDatumSortedSet(T)
               n == Cardinality(T) IN
           /\ n \in Nat /\ ds \in [1 .. n -> T] /\ ds \in Seq(T) /\ Len(ds) = n
           /\ \A d : d \in T <=> \E i \in 1 .. n : d = ds[i]
           /\ \A i \in 1 .. n : \A j \in 1 .. n : i < j => ds[i] < ds[j]
<1> DEFINE n == Cardinality(T)
           Is(ds) == Range(ds) = T /\ \A i \in 2 .. n : IsLessThan(ds[i - 1], ds[i])
           ds == CDatumSortedSet(T)
<1>1. ds = CHOOSE f \in [1 .. n -> T] : Is(f)
  BY DEF CDatumSortedSet
<1>2. \E f \in [1 .. n -> T] : Is(f)
  BY SortingExists DEF Sorted
<1>3. ds \in [1 .. n -> T] /\ Is(ds)
  <2> HIDE DEF Is, ds
  <2> QED
    BY <1>1, <1>2
<1>4. n \in Nat
  BY FS_CardinalityType
<1> HIDE DEF n, ds
<1>5. ds \in Seq(T) /\ Len(ds) = n
  BY <1>3, <1>4
<1>6. \A d : d \in T <=> \E i \in 1 .. n : d = ds[i]
  BY <1>3 DEF Range
<1>7. ds \in [1 .. n -> Int] /\ Sorted(ds, n)
  BY <1>3 DEF Sorted
<1>8. \A i \in 1 .. n : \A j \in 1 .. n : i < j => ds[i] < ds[j]
  BY <1>4, <1>7, SortedOrder
<1> QED
  BY <1>3, <1>4, <1>5, <1>6, <1>8 DEF n, ds

Comparisons == {"Eq", "NEq", "L", "LEq", "G", "GEq"}

(* The range of a comparison (CRange::CRange). *)
LEMMA RangeOfComparison ==
    ASSUME NEW d \in Datums, NEW cmp \in Comparisons \ {"NEq"}
    PROVE  /\ RangeOver(Datums, CRange(cmp, d))
           /\ \A x \in Int : Holds(x, CRange(cmp, d)) <=> Compare(x, cmp, d)
<1> DEFINE a == CRange(cmp, d)
<1>1. d \in Int /\ d # NULL
  BY IntervalAssumption, NullAssumption
<1>2. \/ cmp = "Eq" /\ a = Rng(d, TRUE, d, TRUE)
      \/ cmp = "L" /\ a = Rng(NULL, FALSE, d, FALSE)
      \/ cmp = "LEq" /\ a = Rng(NULL, FALSE, d, TRUE)
      \/ cmp = "G" /\ a = Rng(d, FALSE, NULL, FALSE)
      \/ cmp = "GEq" /\ a = Rng(d, TRUE, NULL, FALSE)
  BY DEF CRange, Comparisons
<1> HIDE DEF a
<1>3. RangeOver(Datums, a)
  <2>1. /\ Rng(d, TRUE, d, TRUE) \in RangeType /\ Rng(NULL, FALSE, d, FALSE) \in RangeType
        /\ Rng(NULL, FALSE, d, TRUE) \in RangeType /\ Rng(d, FALSE, NULL, FALSE) \in RangeType
        /\ Rng(d, TRUE, NULL, FALSE) \in RangeType
    BY <1>1 DEF RangeType, Rng
  <2>2. a \in RangeType
    BY <1>2, <2>1
  <2>3. /\ a.l = NULL => ~ a.li
        /\ a.r = NULL => ~ a.ri
        /\ a.l # NULL /\ a.r # NULL => a.l = a.r /\ a.li /\ a.ri
        /\ a.l \in {d, NULL} /\ a.r \in {d, NULL}
    BY <1>1, <1>2 DEF Rng
  <2> QED
    BY <2>2, <2>3 DEF RangeOver, WellFormed
<1>4. a # NULL
  BY <1>3, WellFormedFields DEF RangeOver
<1>5. ASSUME NEW x \in Int PROVE Holds(x, a) <=> Compare(x, cmp, d)
  <2>1. CASE cmp = "Eq"
    BY <1>1, <1>2, <1>4, <2>1 DEF Holds, AboveLeft, BelowRight, Compare, Rng
  <2>2. CASE cmp = "L"
    BY <1>1, <1>2, <1>4, <2>2 DEF Holds, AboveLeft, BelowRight, Compare, Rng
  <2>3. CASE cmp = "LEq"
    BY <1>1, <1>2, <1>4, <2>3 DEF Holds, AboveLeft, BelowRight, Compare, Rng
  <2>4. CASE cmp = "G"
    BY <1>1, <1>2, <1>4, <2>4 DEF Holds, AboveLeft, BelowRight, Compare, Rng
  <2>5. CASE cmp = "GEq"
    BY <1>1, <1>2, <1>4, <2>5 DEF Holds, AboveLeft, BelowRight, Compare, Rng
  <2> QED
    BY <1>2, <2>1, <2>2, <2>3, <2>4, <2>5
<1> QED
  BY <1>3, <1>5 DEF a

(* All values but one. *)
LEMMA AllButOne ==
    ASSUME NEW d \in Datums
    PROVE  LET rs == <<CRange("L", d), CRange("G", d)>> IN
           rs \in Arrays(Datums) /\ \A x \in Int : Within(x, rs) <=> x # d
<1> DEFINE a == CRange("L", d)
           b == CRange("G", d)
<1>1. d \in Int /\ d # NULL
  BY IntervalAssumption, NullAssumption
<1>2. a = Rng(NULL, FALSE, d, FALSE) /\ b = Rng(d, FALSE, NULL, FALSE)
  BY DEF CRange
<1>3. RangeOver(Datums, a) /\ RangeOver(Datums, b)
  BY RangeOfComparison DEF Comparisons
<1>4. Apart(a, b)
  BY <1>1, <1>2 DEF Apart, Rng
<1> HIDE DEF a, b
<1>5. <<a>> \in Arrays(Datums) /\ (\A x : Within(x, <<a>>) <=> Holds(x, a)) /\ <<a>>[Len(<<a>>)] = a
  BY <1>3, OneRange
<1>6. Append(<<a>>, b) = <<a, b>>
  <2>1. a \in RangeType /\ b \in RangeType
    BY <1>3, WellFormedFields DEF RangeOver
  <2> DEFINE s == Append(<<a>>, b)
             t == <<a, b>>
  <2>2. s \in Seq(RangeType) /\ Len(s) = 2 /\ s[1] = a /\ s[2] = b
    BY <2>1
  <2>3. t \in Seq(RangeType) /\ Len(t) = 2 /\ t[1] = a /\ t[2] = b
    BY <2>1
  <2> HIDE DEF s, t
  <2>4. \A i \in 1 .. 2 : i = 1 \/ i = 2
    OBVIOUS
  <2>5. s = t
    BY <2>2, <2>3, <2>4, SeqEqual
  <2> QED
    BY <2>5 DEF s, t
<1>7. <<a, b>> \in Arrays(Datums) /\ \A x : Within(x, <<a, b>>) <=> Holds(x, a) \/ Holds(x, b)
  <2> DEFINE s == <<a>>
             t == Append(s, b)
  <2>1. s \in Arrays(Datums) /\ (\A x : Within(x, s) <=> Holds(x, a)) /\ s[Len(s)] = a
    BY <1>5
  <2>2. t = <<a, b>>
    BY <1>6
  <2> HIDE DEF s
  <2>3. s = <<>> \/ Apart(s[Len(s)], b)
    BY <1>4, <2>1
  <2>4. t \in Arrays(Datums) /\ \A x : Within(x, t) <=> Within(x, s) \/ Holds(x, b)
    BY <1>3, <2>1, <2>3, AppendArray, Zenon
  <2> HIDE DEF t
  <2>5. t \in Arrays(Datums) /\ \A x : Within(x, t) <=> Holds(x, a) \/ Holds(x, b)
    BY <2>1, <2>4
  <2> QED
    BY <2>2, <2>5
<1>8. \A x \in Int : Holds(x, a) \/ Holds(x, b) <=> x # d
  <2>1. a # NULL /\ b # NULL
    BY <1>3, WellFormedFields DEF RangeOver
  <2> QED
    BY <1>1, <1>2, <2>1 DEF Holds, AboveLeft, BelowRight, Rng
<1> QED
  BY <1>7, <1>8 DEF a, b

(* A comparison of the column with a constant
   (CConstraintInterval::PciIntervalFromColConstCmp). *)
LEMMA CmpInterval ==
    ASSUME NEW d \in Datums, NEW cmp \in Comparisons, NEW infer \in BOOLEAN
    PROVE  LET p == LeafInterval(CmpLeaf(cmp, d), infer) IN
           /\ p \in Pcis(Datums) /\ p.null = infer
           /\ \A x \in Int : Within(x, p.rngs) <=> Compare(x, cmp, d)
<1> DEFINE rs == PciRangeFromColConstCmp(cmp, d)
<1>1. (CHOOSE e \in {d} : TRUE) = d
  OBVIOUS
<1>2. LeafInterval(CmpLeaf(cmp, d), infer) = [rngs |-> rs, null |-> infer]
  BY <1>1 DEF LeafInterval, CmpLeaf, Leaf, Pci
<1>3. rs \in Arrays(Datums) /\ \A x \in Int : Within(x, rs) <=> Compare(x, cmp, d)
  <2>1. CASE cmp = "NEq"
    <3>1. rs = <<CRange("L", d), CRange("G", d)>>
      BY <2>1 DEF PciRangeFromColConstCmp
    <3>2. \A x \in Int : Compare(x, cmp, d) <=> x # d
      BY <2>1 DEF Compare
    <3> QED
      BY <3>1, <3>2, AllButOne
  <2>2. CASE cmp # "NEq"
    <3>1. rs = <<CRange(cmp, d)>>
      BY <2>2 DEF PciRangeFromColConstCmp, Comparisons
    <3>2. RangeOver(Datums, CRange(cmp, d)) /\ \A x \in Int : Holds(x, CRange(cmp, d)) <=> Compare(x, cmp, d)
      BY <2>2, RangeOfComparison
    <3> QED
      BY <3>1, <3>2, OneRange
  <2> QED
    BY <2>1, <2>2
<1> HIDE DEF rs
<1> QED
  BY <1>2, <1>3 DEF Pcis

(* IN: one point per datum. *)
LEMMA PointsArray ==
    ASSUME NEW S \in SUBSET Datums
    PROVE  LET ds == CDatumSortedSet(S)
               rs == [i \in 1 .. Len(ds) |-> CRange("Eq", ds[i])] IN
           /\ rs \in Arrays(Datums) /\ Len(rs) = Len(ds)
           /\ \A x \in Int : Within(x, rs) <=> x \in S
<1> DEFINE ds == CDatumSortedSet(S)
           n == Cardinality(S)
           rs == [i \in 1 .. Len(ds) |-> CRange("Eq", ds[i])]
<1>1. S \subseteq Int /\ IsFiniteSet(S)
  BY IntervalAssumption, FS_Subset
<1>2. /\ n \in Nat /\ ds \in [1 .. n -> S] /\ Len(ds) = n
      /\ \A d : d \in S <=> \E i \in 1 .. n : d = ds[i]
      /\ \A i \in 1 .. n : \A j \in 1 .. n : i < j => ds[i] < ds[j]
  BY <1>1, SortedSet
<1> HIDE DEF ds, n
<1>3. \A i \in 1 .. n : rs[i] = CRange("Eq", ds[i])
  BY <1>2
<1>4. \A d \in Datums : /\ RangeOver(Datums, CRange("Eq", d))
                        /\ \A x \in Int : Holds(x, CRange("Eq", d)) <=> x = d
                        /\ CRange("Eq", d).l = d /\ CRange("Eq", d).r = d
                        /\ CRange("Eq", d) \in RangeType
  <2> SUFFICES ASSUME NEW d \in Datums
               PROVE  /\ RangeOver(Datums, CRange("Eq", d))
                      /\ \A x \in Int : Holds(x, CRange("Eq", d)) <=> x = d
                      /\ CRange("Eq", d).l = d /\ CRange("Eq", d).r = d
                      /\ CRange("Eq", d) \in RangeType
    OBVIOUS
  <2>1. /\ RangeOver(Datums, CRange("Eq", d))
        /\ \A x \in Int : Holds(x, CRange("Eq", d)) <=> Compare(x, "Eq", d)
    BY RangeOfComparison DEF Comparisons
  <2>2. \A x \in Int : Compare(x, "Eq", d) <=> x = d
    BY DEF Compare
  <2>3. CRange("Eq", d).l = d /\ CRange("Eq", d).r = d
    BY DEF CRange, Rng
  <2>4. CRange("Eq", d) \in RangeType
    BY <2>1, WellFormedFields DEF RangeOver
  <2> QED
    BY <2>1, <2>2, <2>3, <2>4
<1>5. \A i \in 1 .. n : ds[i] \in Datums /\ ds[i] \in Int /\ ds[i] # NULL
  BY <1>1, <1>2, NullAssumption
<1>6. rs \in Seq(RangeType) /\ Len(rs) = n
  <2>1. rs \in [1 .. n -> RangeType]
    BY <1>2, <1>4, <1>5
  <2> HIDE DEF rs
  <2> QED
    BY <1>2, <2>1
<1> HIDE DEF rs
<1>7. \A k \in 1 .. n - 1 : Apart(rs[k], rs[k + 1])
  <2> SUFFICES ASSUME NEW k \in 1 .. n - 1 PROVE Apart(rs[k], rs[k + 1])
    OBVIOUS
  <2>1. k \in 1 .. n /\ k + 1 \in 1 .. n /\ k < k + 1
    BY <1>2
  <2>2. rs[k].r = ds[k] /\ rs[k + 1].l = ds[k + 1]
    BY <1>3, <1>4, <1>5, <2>1
  <2> QED
    BY <1>2, <1>5, <2>1, <2>2 DEF Apart
<1>8. rs \in Arrays(Datums)
  BY <1>3, <1>4, <1>5, <1>6, <1>7 DEF Arrays
<1>9. \A x \in Int : Within(x, rs) <=> x \in S
  BY <1>2, <1>3, <1>4, <1>5, <1>6 DEF Within
<1> QED
  BY <1>2, <1>6, <1>8, <1>9 DEF ds, rs

(* NOT IN: the open ranges before, between and after the datums. *)
LEMMA GapsArray ==
    ASSUME NEW S \in SUBSET Datums
    PROVE  LET ds == CDatumSortedSet(S)
               ends == <<NULL>> \o ds \o <<NULL>>
               rs == [i \in 1 .. Len(ds) + 1 |-> Rng(ends[i], FALSE, ends[i + 1], FALSE)] IN
           /\ rs \in Arrays(Datums) /\ Len(rs) = Len(ds) + 1
           /\ \A x \in Int : Within(x, rs) <=> x \notin S
<1> DEFINE ds == CDatumSortedSet(S)
           n == Cardinality(S)
           ends == <<NULL>> \o ds \o <<NULL>>
           rs == [i \in 1 .. Len(ds) + 1 |-> Rng(ends[i], FALSE, ends[i + 1], FALSE)]
<1>1. S \subseteq Int /\ IsFiniteSet(S)
  BY IntervalAssumption, FS_Subset
<1>2. /\ n \in Nat /\ ds \in [1 .. n -> S] /\ ds \in Seq(S) /\ Len(ds) = n
      /\ \A d : d \in S <=> \E i \in 1 .. n : d = ds[i]
      /\ \A i \in 1 .. n : \A j \in 1 .. n : i < j => ds[i] < ds[j]
  BY <1>1, SortedSet
<1>3. \A i \in 1 .. n : ds[i] \in Datums /\ ds[i] \in Int /\ ds[i] # NULL
  BY <1>1, <1>2, NullAssumption
<1>4. /\ ends[1] = NULL /\ ends[n + 2] = NULL
      /\ \A i \in 1 .. n : ends[i + 1] = ds[i]
  <2> DEFINE M == S \cup {NULL}
             s == <<NULL>>
             t == s \o ds
  <2> HIDE DEF ds
  <2>1. s \in Seq(M) /\ Len(s) = 1 /\ s[1] = NULL /\ ds \in Seq(M)
    BY <1>2
  <2> HIDE DEF s
  <2>2. /\ t \in Seq(M) /\ Len(t) = Len(s) + Len(ds)
        /\ \A i \in 1 .. Len(s) + Len(ds) : t[i] = IF i <= Len(s) THEN s[i] ELSE ds[i - Len(s)]
    BY <2>1, ConcatProperties
  <2>3. /\ Len(t) = n + 1 /\ t[1] = NULL /\ \A i \in 1 .. n : t[i + 1] = ds[i]
    <3>1. 1 \in 1 .. 1 + n /\ \A i \in 1 .. n : i + 1 \in 1 .. 1 + n /\ ~ (i + 1 <= 1) /\ (i + 1) - 1 = i
      BY <1>2
    <3> HIDE DEF t, n
    <3> QED
      BY <1>2, <2>1, <2>2, <3>1
  <2> HIDE DEF t
  <2>4. \A i \in 1 .. Len(t) + Len(s) : (t \o s)[i] = IF i <= Len(t) THEN t[i] ELSE s[i - Len(t)]
    BY <2>1, <2>2, ConcatProperties
  <2>5. ends = t \o s
    BY DEF s, t
  <2> HIDE DEF ends
  <2>6. /\ n + 2 \in 1 .. Len(t) + Len(s) /\ ~ (n + 2 <= Len(t)) /\ (n + 2) - Len(t) = 1
        /\ 1 \in 1 .. Len(t) + Len(s) /\ 1 <= Len(t)
        /\ \A i \in 1 .. n : i + 1 \in 1 .. Len(t) + Len(s) /\ i + 1 <= Len(t)
    BY <1>2, <2>1, <2>3
  <2>7. (t \o s)[n + 2] = s[1]
    BY <2>4, <2>6
  <2>8. (t \o s)[1] = t[1] /\ \A i \in 1 .. n : (t \o s)[i + 1] = t[i + 1]
    BY <2>4, <2>6
  <2> QED
    BY <2>1, <2>3, <2>5, <2>7, <2>8
<1>5. \A i \in 1 .. n + 1 : /\ i = 1 => ends[i] = NULL
                            /\ i # 1 => i - 1 \in 1 .. n /\ ends[i] = ds[i - 1]
                            /\ i = n + 1 => ends[i + 1] = NULL
                            /\ i # n + 1 => i \in 1 .. n /\ ends[i + 1] = ds[i]
  <2> HIDE DEF ds, n, ends
  <2> SUFFICES ASSUME NEW i \in 1 .. n + 1
               PROVE  /\ i = 1 => ends[i] = NULL
                      /\ i # 1 => i - 1 \in 1 .. n /\ ends[i] = ds[i - 1]
                      /\ i = n + 1 => ends[i + 1] = NULL
                      /\ i # n + 1 => i \in 1 .. n /\ ends[i + 1] = ds[i]
    OBVIOUS
  <2>1. i # 1 => i - 1 \in 1 .. n /\ (i - 1) + 1 = i
    BY <1>2
  <2>2. i # n + 1 => i \in 1 .. n
    BY <1>2
  <2>3. i = n + 1 => i + 1 = n + 2
    BY <1>2
  <2> QED
    BY <1>4, <2>1, <2>2, <2>3
<1> HIDE DEF ds, n, ends
<1>16. n \in Nat
  BY <1>2
<1> DEFINE Start(i, d) == (i = 1 /\ d = NULL) \/ (i - 1 \in 1 .. n /\ d = ds[i - 1])
           End(i, d) == (i = n + 1 /\ d = NULL) \/ (i \in 1 .. n /\ d = ds[i])
<1>6. \A i \in 1 .. n + 1 : /\ Start(i, rs[i].l) /\ End(i, rs[i].r)
                            /\ rs[i] = Rng(rs[i].l, FALSE, rs[i].r, FALSE)
                            /\ rs[i].li = FALSE /\ rs[i].ri = FALSE
  <2> SUFFICES ASSUME NEW i \in 1 .. n + 1
               PROVE  /\ Start(i, rs[i].l) /\ End(i, rs[i].r)
                      /\ rs[i] = Rng(rs[i].l, FALSE, rs[i].r, FALSE)
                      /\ rs[i].li = FALSE /\ rs[i].ri = FALSE
    OBVIOUS
  <2>1. rs[i] = Rng(ends[i], FALSE, ends[i + 1], FALSE)
    BY <1>2
  <2>2. rs[i].l = ends[i] /\ rs[i].r = ends[i + 1] /\ rs[i].li = FALSE /\ rs[i].ri = FALSE
    BY <2>1 DEF Rng
  <2> HIDE DEF rs
  <2>3. Start(i, ends[i]) /\ End(i, ends[i + 1])
    BY <1>5
  <2> HIDE DEF Start, End
  <2> QED
    BY <2>1, <2>2, <2>3
<1>7. DOMAIN rs = 1 .. n + 1
  BY <1>2
<1>8. rs = [i \in 1 .. n + 1 |-> rs[i]]
  BY <1>2
<1> HIDE DEF rs
<1>9. \A i \in 1 .. n + 1 : RangeOver(Datums, rs[i])
  <2> SUFFICES ASSUME NEW i \in 1 .. n + 1 PROVE RangeOver(Datums, rs[i])
    OBVIOUS
  <2>1. rs[i].l \in Datums \cup {NULL} /\ rs[i].r \in Datums \cup {NULL} /\ Datums \subseteq Int
    BY <1>3, <1>6, IntervalAssumption
  <2>4. \A l \in Int \cup {NULL} : \A r \in Int \cup {NULL} : Rng(l, FALSE, r, FALSE) \in RangeType
    BY DEF RangeType, Rng
  <2>5. rs[i] = Rng(rs[i].l, FALSE, rs[i].r, FALSE)
    BY <1>6
  <2>6. rs[i].l \in Int \cup {NULL} /\ rs[i].r \in Int \cup {NULL}
    BY <2>1
  <2>2. rs[i] \in RangeType
    BY <2>4, <2>5, <2>6
  <2>3. rs[i].l # NULL /\ rs[i].r # NULL => rs[i].l < rs[i].r
    <3> SUFFICES ASSUME rs[i].l # NULL, rs[i].r # NULL PROVE rs[i].l < rs[i].r
      OBVIOUS
    <3>1. Start(i, rs[i].l) /\ End(i, rs[i].r)
      BY <1>6
    <3>3. i - 1 < i
      BY <1>16
    <3>2. i - 1 \in 1 .. n /\ rs[i].l = ds[i - 1] /\ i \in 1 .. n /\ rs[i].r = ds[i]
      BY <3>1
    <3> QED
      BY <1>2, <3>2, <3>3
  <2> QED
    BY <1>6, <2>1, <2>2, <2>3 DEF RangeOver, WellFormed
<1>10. rs \in Seq(RangeType) /\ Len(rs) = n + 1
  <2>1. rs \in [1 .. n + 1 -> RangeType]
    BY <1>8, <1>9, WellFormedFields DEF RangeOver
  <2> QED
    BY <1>2, <2>1
<1>11. \A k \in 1 .. n : Apart(rs[k], rs[k + 1])
  <2> SUFFICES ASSUME NEW k \in 1 .. n PROVE Apart(rs[k], rs[k + 1])
    OBVIOUS
  <2>1. k \in 1 .. n + 1 /\ k + 1 \in 1 .. n + 1 /\ k # n + 1 /\ k + 1 # 1 /\ (k + 1) - 1 = k
    BY <1>2
  <2>2. rs[k].r = ds[k] /\ rs[k + 1].l = ds[k]
    BY <1>6, <2>1
  <2> QED
    BY <1>3, <1>6, <2>1, <2>2 DEF Apart
<1>12. rs \in Arrays(Datums)
  <2>1. (n + 1) - 1 = n
    BY <1>2
  <2> QED
    BY <1>9, <1>10, <1>11, <2>1 DEF Arrays
<1>13. \A i \in 1 .. n + 1 : rs[i] # NULL
  BY <1>9, WellFormedFields DEF RangeOver
<1>14. ASSUME NEW x \in Int, x \notin S PROVE Within(x, rs)
  <2> DEFINE T == {i \in 1 .. n + 1 : i = n + 1 \/ (i \in 1 .. n /\ x < ds[i])}
  <2>1. T \subseteq Nat /\ n + 1 \in T
    BY <1>2
  <2>2. PICK i \in T : \A j \in T : i <= j
    <3> HIDE DEF T
    <3> QED
      BY <2>1, LeastNatural
  <2>3. i \in 1 .. n + 1
    OBVIOUS
  <2>4. BelowRight(x, rs[i])
    <3>1. End(i, rs[i].r)
      BY <1>6, <2>3
    <3>2. CASE i = n + 1 /\ rs[i].r = NULL
      BY <3>2 DEF BelowRight
    <3>3. CASE i \in 1 .. n /\ rs[i].r = ds[i]
      <4>1. i # n + 1
        BY <1>16, <3>3
      <4>2. x < ds[i]
        BY <4>1
      <4> QED
        BY <3>3, <4>2 DEF BelowRight
    <3> QED
      BY <3>1, <3>2, <3>3
  <2>5. AboveLeft(x, rs[i])
    <3>1. CASE rs[i].l = NULL
      BY <3>1 DEF AboveLeft
    <3>2. CASE rs[i].l # NULL
      <4>1. i - 1 \in 1 .. n /\ rs[i].l = ds[i - 1]
        BY <1>6, <2>3, <3>2
      <4>2. i - 1 \in 1 .. n + 1 /\ ~ (i <= i - 1)
        BY <1>16, <2>3, <4>1
      <4>3. ~ (x < ds[i - 1])
        BY <2>2, <4>1, <4>2
      <4>4. x # ds[i - 1]
        BY <1>2, <1>14, <4>1
      <4> QED
        BY <1>3, <4>1, <4>3, <4>4 DEF AboveLeft
    <3> QED
      BY <3>1, <3>2
  <2> QED
    BY <1>10, <1>13, <2>3, <2>4, <2>5 DEF Within, Holds
<1>15. ASSUME NEW x \in Int, Within(x, rs) PROVE x \notin S
  <2> SUFFICES ASSUME x \in S PROVE FALSE
    OBVIOUS
  <2>1. PICK i \in 1 .. n + 1 : AboveLeft(x, rs[i]) /\ BelowRight(x, rs[i])
    BY <1>10, <1>15 DEF Within, Holds
  <2>2. PICK j \in 1 .. n : x = ds[j]
    BY <1>2
  <2>3. CASE j < i
    <3>1. i - 1 \in 1 .. n /\ rs[i].l = ds[i - 1] /\ (j < i - 1 \/ j = i - 1)
      <4>1. i # 1 /\ i - 1 \in 1 .. n /\ (j < i - 1 \/ j = i - 1)
        BY <1>16, <2>3
      <4>2. Start(i, rs[i].l)
        BY <1>6
      <4> QED
        BY <4>1, <4>2
    <3>2. ds[i - 1] < x
      BY <1>3, <1>6, <2>1, <3>1 DEF AboveLeft
    <3>3. ds[j] < ds[i - 1] \/ ds[j] = ds[i - 1]
      BY <1>2, <3>1
    <3> QED
      BY <1>3, <2>2, <3>1, <3>2, <3>3
  <2>4. CASE ~ (j < i)
    <3>1. i \in 1 .. n /\ rs[i].r = ds[i] /\ (i < j \/ i = j)
      <4>1. i # n + 1 /\ i \in 1 .. n /\ (i < j \/ i = j)
        BY <1>16, <2>4
      <4>2. End(i, rs[i].r)
        BY <1>6
      <4> QED
        BY <4>1, <4>2
    <3>2. x < ds[i]
      BY <1>3, <1>6, <2>1, <3>1 DEF BelowRight
    <3>3. ds[i] < ds[j] \/ ds[i] = ds[j]
      BY <1>2, <3>1
    <3> QED
      BY <1>3, <2>2, <3>1, <3>2, <3>3
  <2> QED
    BY <2>3, <2>4
<1> QED
  BY <1>2, <1>10, <1>12, <1>14, <1>15 DEF ds, ends, rs

(* Array comparisons are read as IN or NOT IN
   (CConstraintInterval::PcnstrIntervalFromScalarArrayCmp). *)
LEMMA ArrayCmpInterval ==
    ASSUME NEW S \in SUBSET Datums, NEW in \in BOOLEAN, NEW all, NEW null, NEW infer \in BOOLEAN
    PROVE  LET p == LeafInterval(ArrayCmpLeaf(in, all, S, null), infer) IN
           /\ p \in Pcis(Datums) /\ p.null = infer
           /\ \A x \in Int : Within(x, p.rngs) <=> (in <=> x \in S)
<1> DEFINE ds == CDatumSortedSet(S)
           ends == <<NULL>> \o ds \o <<NULL>>
           rs == [i \in 1 .. Len(ds) |-> CRange("Eq", ds[i])]
           qs == [i \in 1 .. Len(ds) + 1 |-> Rng(ends[i], FALSE, ends[i + 1], FALSE)]
           p == LeafInterval(ArrayCmpLeaf(in, all, S, null), infer)
<1>1. p = PcnstrIntervalFromScalarArrayCmp(in, S, infer)
  <2> DEFINE l == ArrayCmpLeaf(in, all, S, null)
  <2>1. l.op = "ArrayCmp" /\ l.of = S /\ (l.cmp = "Eq") = in
    BY DEF ArrayCmpLeaf, Leaf
  <2>2. p = PcnstrIntervalFromScalarArrayCmp((l.cmp = "Eq"), S, infer)
    BY <2>1 DEF LeafInterval
  <2> QED
    BY <2>1, <2>2
<1>2. PcnstrIntervalFromScalarArrayCmp(in, S, infer) =
        [rngs |-> IF in THEN rs ELSE qs, null |-> infer]
  BY DEF PcnstrIntervalFromScalarArrayCmp, Pci
<1>3. rs \in Arrays(Datums) /\ \A x \in Int : Within(x, rs) <=> x \in S
  BY PointsArray
<1>4. qs \in Arrays(Datums) /\ \A x \in Int : Within(x, qs) <=> x \notin S
  BY GapsArray
<1> HIDE DEF rs, qs, p
<1>5. CASE in
  <2>1. p = [rngs |-> rs, null |-> infer]
    BY <1>1, <1>2, <1>5
  <2>2. /\ p \in Pcis(Datums) /\ p.null = infer
        /\ \A x \in Int : Within(x, p.rngs) <=> (in <=> x \in S)
    BY <1>3, <1>5, <2>1 DEF Pcis
  <2> QED
    BY <2>2 DEF p
<1>6. CASE ~ in
  <2>1. p = [rngs |-> qs, null |-> infer]
    BY <1>1, <1>2, <1>6
  <2>2. /\ p \in Pcis(Datums) /\ p.null = infer
        /\ \A x \in Int : Within(x, p.rngs) <=> (in <=> x \in S)
    BY <1>4, <1>6, <2>1 DEF Pcis
  <2> QED
    BY <2>2 DEF p
<1> QED
  BY <1>5, <1>6

IdfLeaf(d) == Leaf("IDF", "NEq", {d}, (Points \cup {NULL}) \ {d}, {})

(* IS DISTINCT FROM a constant (CConstraintInterval::PciIntervalFromScalarIDF). *)
LEMMA IdfInterval ==
    ASSUME NEW d \in Datums, NEW infer
    PROVE  LET p == PciIntervalFromScalarIDF(d) IN
           /\ p \in Pcis(Datums) /\ p.null = TRUE
           /\ \A x \in Int : Within(x, p.rngs) <=> x # d
<1>1. d # NULL
  BY IntervalAssumption, NullAssumption
<1>2. PciIntervalFromScalarIDF(d) = [rngs |-> <<CRange("L", d), CRange("G", d)>>, null |-> TRUE]
  BY <1>1 DEF PciIntervalFromScalarIDF, PciRangeFromColConstCmp, Pci
<1> QED
  BY <1>2, AllButOne DEF Pcis

(* IS DISTINCT FROM NULL, the complement of NULL alone. *)
LEMMA IdfNullInterval ==
    LET p == PciIntervalFromScalarIDF(NULL) IN
    /\ p \in Pcis(Datums) /\ p.null = FALSE
    /\ \A x \in Int : Within(x, p.rngs)
<1> DEFINE n == Pci(<<>>, TRUE)
<1>1. n \in Pcis(Datums) /\ n.null = TRUE /\ \A x : ~ Within(x, n.rngs)
  BY EmptyArray DEF Pcis, Pci
<1>2. PciIntervalFromScalarIDF(NULL) = PciComplement(n)
  BY DEF PciIntervalFromScalarIDF
<1> HIDE DEF n
<1> DEFINE p == PciComplement(n)
<1>3. /\ p \in Pcis(Datums) /\ p.null = ~ n.null
      /\ \A x \in Int : Within(x, p.rngs) <=> ~ Within(x, n.rngs)
  BY <1>1, PciComplementExact
<1> HIDE DEF p
<1>4. p.null = FALSE
  BY <1>1, <1>3
<1> QED
  BY <1>1, <1>2, <1>3, <1>4 DEF p

QualifiesFor(leaf, infer) == leaf.true \cup (IF infer THEN leaf.unk ELSE {})

(* The interval holds the values of the set, among the points and NULL. *)
Exactly(p, S) ==
    /\ p \in Pcis(Datums) /\ (p.null <=> NULL \in S)
    /\ \A x \in Points : Within(x, p.rngs) <=> x \in S

(* The interval holds no other values than those of the set, unless it may hold
   more, and all of them, unless it may hold fewer. *)
Nearly(p, S, more, fewer) ==
    /\ p \in Pcis(Datums)
    /\ ~ more => (p.null => NULL \in S) /\ \A x \in Points : Within(x, p.rngs) => x \in S
    /\ ~ fewer => (NULL \in S => p.null) /\ \A x \in Points : x \in S => Within(x, p.rngs)

(* The points and the constants are numbers, and NULL is none of them. *)
LEMMA PointFacts ==
    /\ Points \subseteq Int /\ Datums \subseteq Points /\ Datums \subseteq Int
    /\ NULL \notin Points /\ NULL \notin Datums /\ NULL \notin Int
  BY IntervalAssumption, NullAssumption

(* An array comparison read as IN or NOT IN: the interval of an ALL holds what
   qualifies, that of an ANY nothing else, and each is exact unless the leaf is one
   of those that Misread describes. *)
LEMMA ArrayCmpNearly ==
    ASSUME NEW S \in ElementSets, NEW eq \in BOOLEAN, NEW all \in BOOLEAN, NEW null \in BOOLEAN,
           NEW infer \in BOOLEAN
    PROVE  LET l == ArrayCmpLeaf(eq, all, S, null)
               bad == Misread(eq, all, S, null, infer)
           IN  /\ l.true \subseteq Values /\ l.unk \subseteq Values
               /\ l.true \cap l.unk = {}
               /\ Nearly(LeafInterval(l, infer), QualifiesFor(l, infer), all /\ bad, ~ all /\ bad)
<1> DEFINE l == ArrayCmpLeaf(eq, all, S, null)
           q == LeafInterval(l, infer)
           Q == QualifiesFor(l, infer)
           bad == Misread(eq, all, S, null, infer)
           AnyOf(x) == \E d \in S : (x = d) = eq
           AllOf(x) == \A d \in S : (x = d) = eq
           In(x) == eq <=> x \in S
           T == {x \in Points : IF all THEN ~ null /\ AllOf(x) ELSE AnyOf(x)}
           F == {x \in Points : IF all THEN ~ AllOf(x) ELSE ~ null /\ ~ AnyOf(x)}
<1>1. /\ S \in SUBSET Datums /\ S \subseteq Points
      /\ \E d \in S : TRUE
  <2>1. S \in SUBSET Datums /\ S # {}
    BY DEF ElementSets
  <2> QED
    BY <2>1, PointFacts
<1>2. /\ q \in Pcis(Datums) /\ q.null = infer
      /\ \A x \in Points : Within(x, q.rngs) <=> In(x)
  BY <1>1, ArrayCmpInterval, PointFacts
<1>3. l.true = T /\ l.unk = Values \ (T \cup F)
  <2>1. /\ T = {x \in Points : IF all THEN ~ null /\ \A d \in S : (x = d) = eq
                                ELSE \E d \in S : (x = d) = eq}
        /\ F = {x \in Points : IF all THEN \E d \in S : (x = d) # eq
                                ELSE ~ null /\ \A d \in S : (x = d) # eq}
    OBVIOUS
  <2> HIDE DEF T, F
  <2> QED
    BY <2>1 DEF l, ArrayCmpLeaf, Leaf, Values
<1>4. (all /\ ~ bad => eq = FALSE \/ \A d \in S, e \in S : d = e) /\ (all /\ ~ bad /\ null => infer)
  BY DEF Misread
<1>5. (~ all /\ ~ bad => eq = TRUE \/ \A d \in S, e \in S : d = e) /\ (~ all /\ ~ bad /\ null => ~ infer)
  BY DEF Misread
<1>6. \A x \in Points : AllOf(x) => In(x)
  <2>1. CASE eq = TRUE
    BY <1>1, <2>1
  <2>2. CASE eq = FALSE
    BY <1>1, <2>2
  <2> QED
    BY <2>1, <2>2
<1>7. \A x \in Points : In(x) => AnyOf(x)
  <2>1. CASE eq = TRUE
    BY <1>1, <2>1
  <2>2. CASE eq = FALSE
    BY <1>1, <2>2
  <2> QED
    BY <2>1, <2>2
<1>8. all /\ ~ bad => \A x \in Points : In(x) => AllOf(x)
  <2>1. CASE eq = TRUE
    BY <1>4, <2>1
  <2>2. CASE eq = FALSE
    BY <1>4, <2>2
  <2> QED
    BY <2>1, <2>2
<1>9. ~ all /\ ~ bad => \A x \in Points : AnyOf(x) => In(x)
  <2>1. CASE eq = TRUE
    BY <1>5, <2>1
  <2>2. CASE eq = FALSE
    BY <1>5, <2>2
  <2> QED
    BY <2>1, <2>2
<1> HIDE DEF l, q, Q, bad, AnyOf, AllOf, In
<1>10. T \cap F = {} /\ T \subseteq Points /\ F \subseteq Points
  OBVIOUS
<1>11. l.true \subseteq Values /\ l.unk \subseteq Values /\ l.true \cap l.unk = {}
  BY <1>3, <1>10 DEF Values
<1>12. Q = IF infer THEN Values \ F ELSE T
  <2>1. Q = l.true \cup (IF infer THEN l.unk ELSE {})
    BY DEF Q, QualifiesFor
  <2> HIDE DEF T, F
  <2>2. T \subseteq Values /\ T \cap F = {}
    BY <1>10 DEF Values
  <2> QED
    BY <1>3, <2>1, <2>2
<1>13. NULL \in Q <=> infer
  BY <1>10, <1>12, PointFacts DEF Values
<1>14. \A x \in Points : x \in Q <=> IF infer THEN x \notin F ELSE x \in T
  BY <1>12 DEF Values
<1>15. CASE all
  <2>1. \A x \in Points : x \in Q => AllOf(x)
    BY <1>14, <1>15
  <2>2. ~ bad => \A x \in Points : AllOf(x) => x \in Q
    BY <1>4, <1>14, <1>15
  <2> HIDE DEF T, F
  <2>3. Nearly(q, Q, all /\ bad, ~ all /\ bad)
    BY <1>2, <1>6, <1>8, <1>13, <1>15, <2>1, <2>2 DEF Nearly
  <2> QED
    BY <1>11, <2>3 DEF l, q, Q, bad
<1>16. CASE ~ all
  <2>1. \A x \in Points : AnyOf(x) => x \in Q
    BY <1>14, <1>16
  <2>2. ~ bad => \A x \in Points : x \in Q => AnyOf(x)
    BY <1>5, <1>14, <1>16
  <2> HIDE DEF T, F
  <2>3. Nearly(q, Q, all /\ bad, ~ all /\ bad)
    BY <1>2, <1>7, <1>9, <1>13, <1>16, <2>1, <2>2 DEF Nearly
  <2> QED
    BY <1>11, <2>3 DEF l, q, Q, bad
<1> QED
  BY <1>15, <1>16

(* The predicates without parts have the values that their interval holds, or at
   least or at most those where they are misread
   (CConstraintInterval::PciIntervalFromScalarExpr). *)
LEMMA LeafExact ==
    ASSUME NEW leaf \in Leaves, NEW infer \in BOOLEAN
    PROVE  LET p == LeafInterval(leaf, infer) IN
           /\ leaf.true \subseteq Values /\ leaf.unk \subseteq Values
           /\ leaf.true \cap leaf.unk = {}
           /\ p = NULL \/ Nearly(p, QualifiesFor(leaf, infer), HoldsMore(leaf, infer), HoldsFewer(leaf, infer))
<1> DEFINE p == LeafInterval(leaf, infer)
           Right(l) == /\ l.true \subseteq Values /\ l.unk \subseteq Values
                       /\ l.true \cap l.unk = {}
                       /\ \/ LeafInterval(l, infer) = NULL
                          \/ Nearly(LeafInterval(l, infer), QualifiesFor(l, infer),
                                    HoldsMore(l, infer), HoldsFewer(l, infer))
<1>0. ASSUME NEW q, NEW S, Exactly(q, S), NEW more, NEW fewer PROVE Nearly(q, S, more, fewer)
  BY <1>0 DEF Exactly, Nearly
<1>1. ASSUME NEW cmp \in Comparisons, NEW d \in Datums PROVE Right(CmpLeaf(cmp, d))
  <2> DEFINE l == CmpLeaf(cmp, d)
             q == LeafInterval(l, infer)
  <2>1. /\ q \in Pcis(Datums) /\ q.null = infer
        /\ \A x \in Int : Within(x, q.rngs) <=> Compare(x, cmp, d)
    BY CmpInterval
  <2>2. l.true = {x \in Points : Compare(x, cmp, d)} /\ l.unk = {NULL}
    BY DEF CmpLeaf, Leaf
  <2> HIDE DEF l, q
  <2>3. Exactly(q, QualifiesFor(l, infer))
    <3>1. CASE infer
      BY <2>1, <2>2, <3>1, PointFacts DEF Exactly, QualifiesFor
    <3>2. CASE ~ infer
      BY <2>1, <2>2, <3>2, PointFacts DEF Exactly, QualifiesFor
    <3> QED
      BY <3>1, <3>2
  <2>4. l.true \subseteq Values /\ l.unk \subseteq Values /\ l.true \cap l.unk = {}
    BY <2>2, PointFacts DEF Values
  <2> QED
    BY <1>0, <2>3, <2>4 DEF l, q
<1>2. ASSUME NEW eq \in BOOLEAN, NEW all \in BOOLEAN, NEW S \in ElementSets, NEW null \in BOOLEAN
      PROVE  Right(ArrayCmpLeaf(eq, all, S, null))
  <2> DEFINE l == ArrayCmpLeaf(eq, all, S, null)
             q == LeafInterval(l, infer)
             Q == QualifiesFor(l, infer)
             bad == Misread(eq, all, S, null, infer)
  <2>1. /\ l.true \subseteq Values /\ l.unk \subseteq Values /\ l.true \cap l.unk = {}
        /\ Nearly(q, Q, all /\ bad, ~ all /\ bad)
    BY ArrayCmpNearly
  <2>2. all /\ bad => HoldsMore(l, infer)
    <3>1. CASE all = TRUE
      BY <3>1 DEF HoldsMore
    <3> QED
      BY <3>1
  <2>3. ~ all /\ bad => HoldsFewer(l, infer)
    <3>1. CASE all = FALSE
      BY <3>1 DEF HoldsFewer
    <3> QED
      BY <3>1
  <2> HIDE DEF l, q, Q, bad
  <2>4. Nearly(q, Q, HoldsMore(l, infer), HoldsFewer(l, infer))
    BY <2>1, <2>2, <2>3 DEF Nearly
  <2> QED
    BY <2>1, <2>4 DEF l, q, Q
<1>3. ASSUME NEW d \in Datums \cup {NULL} PROVE Right(IdfLeaf(d))
  <2> DEFINE l == IdfLeaf(d)
             q == LeafInterval(l, infer)
  <2>1. (CHOOSE e \in {d} : TRUE) = d
    OBVIOUS
  <2>2. q = PciIntervalFromScalarIDF(d)
    BY <2>1 DEF LeafInterval, IdfLeaf, Leaf
  <2>3. l.true = (Points \cup {NULL}) \ {d} /\ l.unk = {}
    BY DEF IdfLeaf, Leaf
  <2> HIDE DEF l, q
  <2>4. QualifiesFor(l, infer) = l.true
    BY <2>3 DEF QualifiesFor
  <2>5. Exactly(q, l.true)
    <3>1. CASE d = NULL
      BY <2>2, <2>3, <3>1, IdfNullInterval, PointFacts DEF Exactly
    <3>2. CASE d # NULL
      <4>1. d \in Datums
        BY <3>2
      <4> QED
        BY <2>2, <2>3, <4>1, IdfInterval, PointFacts DEF Exactly
    <3> QED
      BY <3>1, <3>2
  <2>6. l.true \subseteq Values /\ l.unk \subseteq Values /\ l.true \cap l.unk = {}
    BY <2>3 DEF Values
  <2> QED
    BY <1>0, <2>4, <2>5, <2>6 DEF l, q
<1>4. Right(NullTestLeaf)
  <2> DEFINE l == NullTestLeaf
             q == LeafInterval(l, infer)
  <2>1. q = [rngs |-> <<>>, null |-> TRUE]
    BY DEF LeafInterval, NullTestLeaf, Leaf, Pci
  <2>2. l.true = {NULL} /\ l.unk = {}
    BY DEF NullTestLeaf, Leaf
  <2> HIDE DEF l, q
  <2>3. QualifiesFor(l, infer) = {NULL}
    BY <2>2 DEF QualifiesFor
  <2>4. Exactly(q, {NULL})
    BY <2>1, EmptyArray, PointFacts DEF Exactly, Pcis
  <2>5. l.true \subseteq Values /\ l.unk \subseteq Values /\ l.true \cap l.unk = {}
    BY <2>2 DEF Values
  <2> QED
    BY <1>0, <2>3, <2>4, <2>5 DEF l, q
<1>5. ASSUME NEW value \in BOOLEAN PROVE Right(ConstLeaf(value))
  <2> DEFINE l == ConstLeaf(value)
             q == LeafInterval(l, infer)
  <2>1. q = IF value THEN PciUnbounded(TRUE) ELSE [rngs |-> <<>>, null |-> FALSE]
    BY DEF LeafInterval, ConstLeaf, Leaf, Pci
  <2>2. l.true = (IF value THEN Points \cup {NULL} ELSE {}) /\ l.unk = {}
    BY DEF ConstLeaf, Leaf
  <2> HIDE DEF l, q
  <2>3. QualifiesFor(l, infer) = l.true
    BY <2>2 DEF QualifiesFor
  <2>4. Exactly(q, l.true)
    <3>1. CASE value
      BY <2>1, <2>2, <3>1, UnboundedArray, PointFacts DEF Exactly
    <3>2. CASE ~ value
      BY <2>1, <2>2, <3>2, EmptyArray, PointFacts DEF Exactly, Pcis
    <3> QED
      BY <3>1, <3>2
  <2>5. l.true \subseteq Values /\ l.unk \subseteq Values /\ l.true \cap l.unk = {}
    BY <2>2 DEF Values
  <2> QED
    BY <1>0, <2>3, <2>4, <2>5 DEF l, q
<1>6. ASSUME NEW S \in Opaque PROVE Right(Leaf("Other", "Eq", {}, S, {NULL}))
  <2> DEFINE l == Leaf("Other", "Eq", {}, S, {NULL})
  <2>1. LeafInterval(l, infer) = NULL
    BY DEF LeafInterval, Leaf
  <2>2. l.true = S /\ l.unk = {NULL}
    BY DEF Leaf
  <2>3. S \subseteq Points
    BY IntervalAssumption
  <2> HIDE DEF l
  <2>4. l.true \subseteq Values /\ l.unk \subseteq Values /\ l.true \cap l.unk = {}
    BY <2>2, <2>3, PointFacts DEF Values
  <2> QED
    BY <2>1, <2>4 DEF l
<1>7. Right(NullConstLeaf)
  <2> DEFINE l == NullConstLeaf
             q == LeafInterval(l, infer)
  <2>1. q = [rngs |-> <<>>, null |-> FALSE]
    BY DEF LeafInterval, NullConstLeaf, Leaf, Pci
  <2>2. l.true = {} /\ l.unk = Values
    BY DEF NullConstLeaf, Leaf, Values
  <2>3. infer => HoldsFewer(l, infer)
    BY DEF HoldsFewer
  <2> HIDE DEF l, q
  <2>4. ~ infer => QualifiesFor(l, infer) = {}
    BY <2>2 DEF QualifiesFor
  <2>5. q \in Pcis(Datums) /\ ~ q.null /\ \A x : ~ Within(x, q.rngs)
    BY <2>1, EmptyArray DEF Pcis
  <2>6. Nearly(q, QualifiesFor(l, infer), HoldsMore(l, infer), HoldsFewer(l, infer))
    BY <2>3, <2>4, <2>5 DEF Nearly
  <2> QED
    BY <2>2, <2>6 DEF l, q
<1>8. \/ \E cmp \in Comparisons : \E d \in Datums : leaf = CmpLeaf(cmp, d)
      \/ \E eq \in BOOLEAN : \E all \in BOOLEAN : \E S \in ElementSets : \E null \in BOOLEAN :
            leaf = ArrayCmpLeaf(eq, all, S, null)
      \/ \E d \in Datums \cup {NULL} : leaf = IdfLeaf(d)
      \/ leaf = NullTestLeaf \/ leaf = NullConstLeaf
      \/ \E value \in BOOLEAN : leaf = ConstLeaf(value)
      \/ \E S \in Opaque : leaf = Leaf("Other", "Eq", {}, S, {NULL})
  <2>1. \/ leaf \in CmpLeaves \/ leaf \in ArrayCmpLeaves \/ leaf \in IdfLeaves \/ leaf \in OpaqueLeaves
        \/ leaf = NullTestLeaf \/ leaf = NullConstLeaf
        \/ leaf = ConstLeaf(TRUE) \/ leaf = ConstLeaf(FALSE)
    BY DEF Leaves
  <2>2. leaf \in CmpLeaves => \E cmp \in Comparisons : \E d \in Datums : leaf = CmpLeaf(cmp, d)
    BY DEF CmpLeaves, Comparisons
  <2>3. leaf \in ArrayCmpLeaves =>
           \E eq \in BOOLEAN : \E all \in BOOLEAN : \E S \in ElementSets : \E null \in BOOLEAN :
              leaf = ArrayCmpLeaf(eq, all, S, null)
    BY DEF ArrayCmpLeaves
  <2>4. leaf \in IdfLeaves => \E d \in Datums \cup {NULL} : leaf = IdfLeaf(d)
    BY Zenon DEF IdfLeaves, IdfLeaf
  <2>5. leaf \in OpaqueLeaves => \E S \in Opaque : leaf = Leaf("Other", "Eq", {}, S, {NULL})
    BY DEF OpaqueLeaves
  <2> QED
    BY <2>1, <2>2, <2>3, <2>4, <2>5
<1>9. Right(leaf)
  <2> HIDE DEF Right
  <2> QED
    BY <1>1, <1>2, <1>3, <1>4, <1>5, <1>6, <1>7, <1>8
<1> QED
  BY <1>9

-----------------------------------------------------------------------------
(* The walk. *)

(* An interval lets a value of the column through, or NULL; so does an argument
   without an interval. *)
Lets(x, p) == IF x = NULL THEN PassesNull(p) ELSE Passes(x, p)

ArgType == [pci : Maybe(Datums), infer : BOOLEAN, true : SUBSET Values,
            unk : SUBSET Values, more : BOOLEAN, fewer : BOOLEAN, lit : BOOLEAN]

(* The interval lets nothing through that does not qualify; all that does. *)
Sound(arg) == arg.pci # NULL => \A x \in Values : Lets(x, arg.pci) => x \in Qualifies(arg)
Full(arg) == arg.pci # NULL => \A x \in Values : x \in Qualifies(arg) => Lets(x, arg.pci)

(* What an evaluated argument is: its interval lets no others through than the
   values that qualify, and all of them, with the exceptions its flags tell. *)
ArgStates ==
    {arg \in ArgType :
        /\ arg.true \cap arg.unk = {}
        /\ ~ arg.more => Sound(arg)
        /\ ~ arg.fewer => Full(arg)}

(* The inductive invariant. *)
IntervalStrong == args \in Seq(ArgStates) /\ Len(args) <= MaxArgs

(* An interval that holds the values of a set, with exceptions, lets those through. *)
LEMMA NearlyLets ==
    ASSUME NEW p, NEW S, NEW more, NEW fewer, Nearly(p, S, more, fewer)
    PROVE  /\ p \in Maybe(Datums) /\ p # NULL
           /\ ~ more => \A x \in Values : Lets(x, p) => x \in S
           /\ ~ fewer => \A x \in Values : x \in S => Lets(x, p)
<1>1. p \in Pcis(Datums) /\ p # NULL
  BY NullIsNoInterval DEF Nearly
<1>2. \A x \in Values : x = NULL \/ x \in Points
  BY DEF Values
<1>3. \A x \in Points : Lets(x, p) <=> Within(x, p.rngs)
  BY <1>1, PointFacts DEF Lets, Passes
<1>4. Lets(NULL, p) <=> p.null
  BY <1>1 DEF Lets, PassesNull
<1>5. ~ more => \A x \in Values : Lets(x, p) => x \in S
  BY <1>2, <1>3, <1>4 DEF Nearly
<1>6. ~ fewer => \A x \in Values : x \in S => Lets(x, p)
  BY <1>2, <1>3, <1>4 DEF Nearly
<1> QED
  BY <1>1, <1>5, <1>6 DEF Maybe

(* EvalLeaf adds an argument that is what its flags tell. *)
LEMMA LeafArg ==
    ASSUME NEW leaf \in Leaves, NEW infer \in BOOLEAN
    PROVE  Arg(LeafInterval(leaf, infer), infer, leaf.true, leaf.unk,
               HoldsMore(leaf, infer), HoldsFewer(leaf, infer), TRUE) \in ArgStates
<1> DEFINE pci == LeafInterval(leaf, infer)
           more == HoldsMore(leaf, infer)
           fewer == HoldsFewer(leaf, infer)
           arg == Arg(pci, infer, leaf.true, leaf.unk, more, fewer, TRUE)
           Q == QualifiesFor(leaf, infer)
<1>1. /\ leaf.true \subseteq Values /\ leaf.unk \subseteq Values
      /\ leaf.true \cap leaf.unk = {}
      /\ pci = NULL \/ Nearly(pci, Q, more, fewer)
  BY LeafExact
<1>2. more \in BOOLEAN /\ fewer \in BOOLEAN
  BY DEF HoldsMore, HoldsFewer
<1> HIDE DEF pci, more, fewer
<1>3. pci \in Maybe(Datums)
  BY <1>1, NearlyLets DEF Maybe
<1>4. /\ arg \in ArgType
      /\ arg.pci = pci /\ arg.true = leaf.true /\ arg.unk = leaf.unk
      /\ arg.more = more /\ arg.fewer = fewer /\ Qualifies(arg) = Q
  BY <1>1, <1>2, <1>3 DEF Arg, ArgType, Qualifies, QualifiesFor
<1> HIDE DEF arg, Q
<1>5. ~ more => Sound(arg)
  BY <1>1, <1>4, NearlyLets DEF Sound
<1>6. ~ fewer => Full(arg)
  BY <1>1, <1>4, NearlyLets DEF Full
<1>7. arg \in ArgStates
  BY <1>1, <1>4, <1>5, <1>6 DEF ArgStates
<1> QED
  BY <1>7 DEF arg, pci, more, fewer

(* What it means to be an evaluated argument, in one place. *)
LEMMA ArgFacts ==
    ASSUME NEW arg \in ArgStates
    PROVE  /\ arg.pci \in Maybe(Datums) /\ arg.infer \in BOOLEAN
           /\ arg.more \in BOOLEAN /\ arg.fewer \in BOOLEAN /\ arg.lit \in BOOLEAN /\ arg.true \subseteq Values /\ arg.unk \subseteq Values
           /\ arg.true \cap arg.unk = {}
           /\ ~ arg.more => Sound(arg)
           /\ ~ arg.fewer => Full(arg)
           /\ arg.infer => Qualifies(arg) = arg.true \cup arg.unk
           /\ ~ arg.infer => Qualifies(arg) = arg.true
  BY DEF ArgStates, ArgType, Qualifies

(* AND lets through what all its arguments let through. *)
LEMMA AndArg ==
    ASSUME NEW n \in Nat, n >= 1, NEW ops \in [1 .. n -> ArgStates],
           \A i \in 1 .. n : ops[i].infer = ops[1].infer
    PROVE  LET true == {x \in Values : \A i \in 1 .. n : x \in ops[i].true}
               false == {x \in Values : \E i \in 1 .. n : x \in FalseFor(ops[i])}
           IN  Arg(PciIntervalFromScalarBoolAnd([i \in 1 .. n |-> ops[i].pci]),
                   ops[1].infer, true, Values \ (true \cup false),
                   \E i \in 1 .. n : ops[i].pci = NULL \/ ops[i].more,
                   \E i \in 1 .. n : ops[i].pci # NULL /\ ops[i].fewer, FALSE) \in ArgStates
<1> DEFINE true == {x \in Values : \A i \in 1 .. n : x \in ops[i].true}
           false == {x \in Values : \E i \in 1 .. n : x \in FalseFor(ops[i])}
           unk == Values \ (true \cup false)
           pcis == [i \in 1 .. n |-> ops[i].pci]
           t == PciIntervalFromScalarBoolAnd(pcis)
           more == \E i \in 1 .. n : ops[i].pci = NULL \/ ops[i].more
           fewer == \E i \in 1 .. n : ops[i].pci # NULL /\ ops[i].fewer
           infer == ops[1].infer
           arg == Arg(t, infer, true, unk, more, fewer, FALSE)
<1>1. \A i \in 1 .. n : ops[i] \in ArgStates /\ ops[i].pci \in Maybe(Datums)
  BY ArgFacts
<1>2. /\ pcis \in Seq(Maybe(Datums)) /\ pcis # <<>> /\ Len(pcis) = n
      /\ \A i \in 1 .. n : pcis[i] = ops[i].pci
  <2>1. pcis \in [1 .. n -> Maybe(Datums)]
    BY <1>1
  <2>2. \A i \in 1 .. n : pcis[i] = ops[i].pci
    OBVIOUS
  <2> HIDE DEF pcis
  <2> QED
    BY <2>1, <2>2
<1> HIDE DEF pcis
<1>3. /\ t \in Maybe(Datums)
      /\ t = NULL => \A i \in 1 .. n : ops[i].pci = NULL
      /\ \A x \in Values : Lets(x, t) <=> \A i \in 1 .. n : Lets(x, ops[i].pci)
  <2>1. /\ t \in Maybe(Datums) /\ (t = NULL <=> \A i \in 1 .. n : pcis[i] = NULL)
        /\ PassesNull(t) <=> \A i \in 1 .. n : PassesNull(pcis[i])
        /\ \A x \in Int : Passes(x, t) <=> \A i \in 1 .. n : Passes(x, pcis[i])
    BY <1>2, BoolAndExact
  <2> HIDE DEF t
  <2>2. \A x \in Values : Lets(x, t) <=> \A i \in 1 .. n : Lets(x, pcis[i])
    <3> SUFFICES ASSUME NEW x \in Values PROVE Lets(x, t) <=> \A i \in 1 .. n : Lets(x, pcis[i])
      OBVIOUS
    <3>1. CASE x = NULL
      BY <2>1, <3>1 DEF Lets
    <3>2. CASE x # NULL
      BY <2>1, <3>2, PointFacts DEF Lets, Values
    <3> QED
      BY <3>1, <3>2
  <2> QED
    BY <1>2, <2>1, <2>2
<1> HIDE DEF t
<1>4. infer \in BOOLEAN /\ 1 \in 1 .. n
  BY <1>1, ArgFacts
<1>5. more \in BOOLEAN /\ fewer \in BOOLEAN
  OBVIOUS
<1>6. true \cap unk = {} /\ true \in SUBSET Values /\ unk \in SUBSET Values
  OBVIOUS
<1> DEFINE Q == true \cup (IF infer THEN unk ELSE {})
<1>7. \A x \in Values : x \in Q <=> \A i \in 1 .. n : x \in Qualifies(ops[i])
  <2>1. CASE infer
    <3>1. \A i \in 1 .. n : Qualifies(ops[i]) = ops[i].true \cup ops[i].unk
      BY <1>1, <2>1, ArgFacts
    <3>2. \A x \in Values : x \in Q <=> x \notin false
      <4>1. \A x \in Values : x \in true => x \notin false
        BY <1>4 DEF FalseFor
      <4> HIDE DEF true, false
      <4> QED
        BY <2>1, <4>1
    <3>3. \A x \in Values : x \notin false <=> \A i \in 1 .. n : x \in ops[i].true \cup ops[i].unk
      BY DEF FalseFor
    <3> HIDE DEF Q, false
    <3> QED
      BY <3>1, <3>2, <3>3
  <2>2. CASE ~ infer
    <3>1. \A i \in 1 .. n : Qualifies(ops[i]) = ops[i].true
      BY <1>1, <2>2, ArgFacts
    <3>2. Q = true
      BY <2>2
    <3> QED
      BY <3>1, <3>2
  <2> QED
    BY <2>1, <2>2
<1> HIDE DEF true, unk, more, fewer, infer
<1>8. /\ arg \in ArgType /\ arg.pci = t /\ arg.true = true /\ arg.unk = unk
      /\ arg.more = more /\ arg.fewer = fewer /\ Qualifies(arg) = Q
  BY <1>3, <1>4, <1>5, <1>6 DEF Arg, ArgType, Qualifies
<1>9. ~ more => \A i \in 1 .. n : ops[i].pci # NULL /\ \A x \in Values : Lets(x, ops[i].pci) => x \in Qualifies(ops[i])
  BY <1>1, ArgFacts DEF more, Sound
<1>10. ~ fewer => \A i \in 1 .. n : \A x \in Values : x \in Qualifies(ops[i]) => Lets(x, ops[i].pci)
  <2>1. SUFFICES ASSUME ~ fewer, NEW i \in 1 .. n, NEW x \in Values, x \in Qualifies(ops[i])
                 PROVE  Lets(x, ops[i].pci)
    OBVIOUS
  <2>2. CASE ops[i].pci = NULL
    BY <2>2 DEF Lets, Passes, PassesNull
  <2>3. CASE ops[i].pci # NULL
    BY <1>1, <2>1, <2>3, ArgFacts DEF fewer, Full
  <2> QED
    BY <2>2, <2>3
<1> HIDE DEF arg, Q
<1>11. ~ more => Sound(arg)
  BY <1>3, <1>7, <1>8, <1>9 DEF Sound
<1>12. ~ fewer => Full(arg)
  BY <1>3, <1>7, <1>8, <1>10 DEF Full
<1>13. arg \in ArgStates
  BY <1>6, <1>8, <1>11, <1>12 DEF ArgStates
<1> QED
  BY <1>13 DEF arg, t, infer, true, unk, more, fewer, pcis

(* OR lets through what one of its arguments lets through. *)
LEMMA OrArg ==
    ASSUME NEW n \in Nat, n >= 1, NEW ops \in [1 .. n -> ArgStates],
           \A i \in 1 .. n : ops[i].infer = ops[1].infer
    PROVE  LET true == {x \in Values : \E i \in 1 .. n : x \in ops[i].true}
               false == {x \in Values : \A i \in 1 .. n : x \in FalseFor(ops[i])}
           IN  Arg(PciIntervalFromScalarBoolOr([i \in 1 .. n |-> ops[i].pci]),
                   ops[1].infer, true, Values \ (true \cup false),
                   \E i \in 1 .. n : ops[i].more,
                   \E i \in 1 .. n : ops[i].fewer, FALSE) \in ArgStates
<1> DEFINE true == {x \in Values : \E i \in 1 .. n : x \in ops[i].true}
           false == {x \in Values : \A i \in 1 .. n : x \in FalseFor(ops[i])}
           unk == Values \ (true \cup false)
           pcis == [i \in 1 .. n |-> ops[i].pci]
           t == PciIntervalFromScalarBoolOr(pcis)
           more == \E i \in 1 .. n : ops[i].more
           fewer == \E i \in 1 .. n : ops[i].fewer
           infer == ops[1].infer
           arg == Arg(t, infer, true, unk, more, fewer, FALSE)
<1>1. \A i \in 1 .. n : ops[i] \in ArgStates /\ ops[i].pci \in Maybe(Datums)
  BY ArgFacts
<1>2. /\ pcis \in Seq(Maybe(Datums)) /\ pcis # <<>> /\ Len(pcis) = n
      /\ \A i \in 1 .. n : pcis[i] = ops[i].pci
  <2>1. pcis \in [1 .. n -> Maybe(Datums)]
    BY <1>1
  <2>2. \A i \in 1 .. n : pcis[i] = ops[i].pci
    OBVIOUS
  <2> HIDE DEF pcis
  <2> QED
    BY <2>1, <2>2
<1> HIDE DEF pcis
<1>3. /\ t \in Maybe(Datums)
      /\ t = NULL <=> \E i \in 1 .. n : ops[i].pci = NULL
      /\ t # NULL => \A x \in Values : Lets(x, t) <=> \E i \in 1 .. n : Lets(x, ops[i].pci)
  <2>1. /\ t \in Maybe(Datums) /\ (t = NULL <=> \E i \in 1 .. Len(pcis) : pcis[i] = NULL)
        /\ t # NULL => /\ t.null <=> \E i \in 1 .. Len(pcis) : pcis[i].null
                       /\ \A x \in Int : Within(x, t.rngs) <=>
                             \E i \in 1 .. Len(pcis) : Within(x, pcis[i].rngs)
    BY <1>2, BoolOrExact
  <2> HIDE DEF t
  <2>2. ASSUME t # NULL, NEW x \in Values PROVE Lets(x, t) <=> \E i \in 1 .. n : Lets(x, pcis[i])
    <3>1. \A i \in 1 .. n : pcis[i] # NULL
      BY <1>2, <2>1, <2>2
    <3>2. CASE x = NULL
      BY <1>2, <2>1, <2>2, <3>1, <3>2 DEF Lets, PassesNull
    <3>3. CASE x # NULL
      BY <1>2, <2>1, <2>2, <3>1, <3>3, PointFacts DEF Lets, Values, Passes
    <3> QED
      BY <3>2, <3>3
  <2> QED
    BY <1>2, <2>1, <2>2
<1> HIDE DEF t
<1>4. infer \in BOOLEAN /\ 1 \in 1 .. n
  BY <1>1, ArgFacts
<1>5. more \in BOOLEAN /\ fewer \in BOOLEAN
  OBVIOUS
<1>6. true \cap unk = {} /\ true \in SUBSET Values /\ unk \in SUBSET Values
  OBVIOUS
<1> DEFINE Q == true \cup (IF infer THEN unk ELSE {})
<1>7. \A x \in Values : x \in Q <=> \E i \in 1 .. n : x \in Qualifies(ops[i])
  <2>1. CASE infer
    <3>1. \A i \in 1 .. n : Qualifies(ops[i]) = ops[i].true \cup ops[i].unk
      BY <1>1, <2>1, ArgFacts
    <3>2. \A x \in Values : x \in Q <=> x \notin false
      <4>1. \A x \in Values : x \in true => x \notin false
        BY <1>4 DEF FalseFor
      <4> HIDE DEF true, false
      <4> QED
        BY <2>1, <4>1
    <3>3. \A x \in Values : x \notin false <=> \E i \in 1 .. n : x \in ops[i].true \cup ops[i].unk
      BY DEF FalseFor
    <3> HIDE DEF Q, false
    <3> QED
      BY <3>1, <3>2, <3>3
  <2>2. CASE ~ infer
    <3>1. \A i \in 1 .. n : Qualifies(ops[i]) = ops[i].true
      BY <1>1, <2>2, ArgFacts
    <3>2. Q = true
      BY <2>2
    <3> QED
      BY <3>1, <3>2
  <2> QED
    BY <2>1, <2>2
<1> HIDE DEF true, unk, more, fewer, infer
<1>8. /\ arg \in ArgType /\ arg.pci = t /\ arg.true = true /\ arg.unk = unk
      /\ arg.more = more /\ arg.fewer = fewer /\ Qualifies(arg) = Q
  BY <1>3, <1>4, <1>5, <1>6 DEF Arg, ArgType, Qualifies
<1>9. ASSUME t # NULL, ~ more, NEW i \in 1 .. n
      PROVE  \A x \in Values : Lets(x, ops[i].pci) => x \in Qualifies(ops[i])
  BY <1>1, <1>3, <1>9, ArgFacts DEF more, Sound
<1>10. ASSUME t # NULL, ~ fewer, NEW i \in 1 .. n
       PROVE  \A x \in Values : x \in Qualifies(ops[i]) => Lets(x, ops[i].pci)
  BY <1>1, <1>3, <1>10, ArgFacts DEF fewer, Full
<1> HIDE DEF arg, Q
<1>11. ~ more => Sound(arg)
  BY <1>3, <1>7, <1>8, <1>9 DEF Sound
<1>12. ~ fewer => Full(arg)
  BY <1>3, <1>7, <1>8, <1>10 DEF Full
<1>13. arg \in ArgStates
  BY <1>6, <1>8, <1>11, <1>12 DEF ArgStates
<1> QED
  BY <1>13 DEF arg, t, infer, true, unk, more, fewer, pcis

(* NOT lets through what its argument, evaluated with the opposite
   infer_nulls_as, does not. *)
LEMMA NotArg ==
    ASSUME NEW a \in ArgStates
    PROVE  Arg(IF a.pci = NULL THEN NULL ELSE PciComplement(a.pci),
               ~ a.infer, FalseFor(a), a.unk, a.fewer, a.more, a.lit) \in ArgStates
<1> DEFINE t == IF a.pci = NULL THEN NULL ELSE PciComplement(a.pci)
           infer == ~ a.infer
           true == FalseFor(a)
           arg == Arg(t, infer, true, a.unk, a.fewer, a.more, a.lit)
<1>1. /\ t \in Maybe(Datums)
      /\ t = NULL <=> a.pci = NULL
      /\ t # NULL => \A x \in Values : Lets(x, t) <=> ~ Lets(x, a.pci)
  <2>1. CASE a.pci = NULL
    BY <2>1 DEF Maybe
  <2>2. CASE a.pci # NULL
    <3>1. a.pci \in Pcis(Datums)
      BY <2>2, ArgFacts DEF Maybe
    <3> DEFINE c == PciComplement(a.pci)
    <3>2. /\ c \in Pcis(Datums) /\ c.null = ~ a.pci.null
          /\ \A x \in Int : Within(x, c.rngs) <=> ~ Within(x, a.pci.rngs)
      BY <3>1, PciComplementExact
    <3>3. t = c
      BY <2>2
    <3> HIDE DEF t, c
    <3>4. c # NULL
      BY <3>2, NullIsNoInterval
    <3>5. \A x \in Values : Lets(x, c) <=> ~ Lets(x, a.pci)
      BY <2>2, <3>2, <3>4, PointFacts DEF Lets, Passes, PassesNull, Values
    <3> QED
      BY <2>2, <3>2, <3>3, <3>4, <3>5 DEF Maybe
  <2> QED
    BY <2>1, <2>2
<1>2. infer \in BOOLEAN /\ true \in SUBSET Values /\ true \cap a.unk = {}
  BY DEF FalseFor
<1> DEFINE Q == true \cup (IF infer THEN a.unk ELSE {})
<1>3. \A x \in Values : x \in Q <=> x \notin Qualifies(a)
  <2>1. CASE a.infer
    BY <2>1, ArgFacts DEF FalseFor
  <2>2. CASE ~ a.infer
    BY <2>2, ArgFacts DEF FalseFor
  <2> QED
    BY <2>1, <2>2, ArgFacts
<1> HIDE DEF t, infer, true
<1>4. /\ arg \in ArgType /\ arg.pci = t /\ arg.true = true /\ arg.unk = a.unk
      /\ arg.more = a.fewer /\ arg.fewer = a.more /\ Qualifies(arg) = Q
  BY <1>1, <1>2, ArgFacts DEF Arg, ArgType, Qualifies
<1> HIDE DEF arg, Q
<1>5. ~ a.fewer => Sound(arg)
  BY <1>1, <1>3, <1>4, ArgFacts DEF Sound, Full
<1>6. ~ a.more => Full(arg)
  BY <1>1, <1>3, <1>4, ArgFacts DEF Sound, Full
<1>7. arg \in ArgStates
  BY <1>2, <1>4, <1>5, <1>6 DEF ArgStates
<1> QED
  BY <1>7 DEF arg, t, infer, true

(* The last arguments, and what an operator puts in their place. *)
LEMMA OperandsAre ==
    ASSUME NEW S, args \in Seq(S), NEW n \in 1 .. Len(args)
    PROVE  /\ Operands(n) \in [1 .. n -> S]
           /\ \A arg \in S : Apply(n, arg) => args' \in Seq(S) /\ Len(args') <= Len(args)
<1> DEFINE m == Len(args)
           ops == SubSeq(args, m - n + 1, m)
           rest == SubSeq(args, 1, m - n)
<1>1. m \in Nat /\ n \in Nat /\ n >= 1 /\ n <= m /\ \A i \in 1 .. m : args[i] \in S
  OBVIOUS
<1> HIDE DEF m
<1>2. ops \in Seq(S) /\ Len(ops) = n
  <2>1. m - n + 1 \in Int /\ m \in Int /\ \A i \in m - n + 1 .. m : args[i] \in S
    BY <1>1
  <2>2. /\ ops \in Seq(S)
        /\ Len(ops) = IF m - n + 1 <= m THEN m - (m - n + 1) + 1 ELSE 0
    BY <2>1, SubSeqProperties
  <2>3. m - n + 1 <= m /\ m - (m - n + 1) + 1 = n
    BY <1>1
  <2> QED
    BY <2>2, <2>3
<1>3. rest \in Seq(S) /\ Len(rest) = m - n
  <2>1. 1 \in Int /\ m - n \in Int /\ \A i \in 1 .. m - n : args[i] \in S
    BY <1>1
  <2>2. /\ rest \in Seq(S)
        /\ Len(rest) = IF 1 <= m - n THEN m - n - 1 + 1 ELSE 0
    BY <2>1, SubSeqProperties
  <2>3. IF 1 <= m - n THEN m - n - 1 + 1 = m - n ELSE 0 = m - n
    BY <1>1
  <2> QED
    BY <2>2, <2>3
<1> HIDE DEF ops, rest
<1>4. ops \in [1 .. n -> S]
  BY <1>2
<1>5. ASSUME NEW arg \in S, Apply(n, arg) PROVE args' \in Seq(S) /\ Len(args') <= m
  <2>1. args' = Append(rest, arg)
    BY <1>5 DEF Apply, m, rest
  <2>2. Append(rest, arg) \in Seq(S) /\ Len(Append(rest, arg)) = Len(rest) + 1
    BY <1>3
  <2> QED
    BY <1>1, <1>3, <2>1, <2>2
<1> QED
  BY <1>4, <1>5 DEF Operands, m, ops

(* No argument is evaluated at first. *)
LEMMA StrongInit == Init => IntervalStrong
<1> SUFFICES ASSUME Init PROVE IntervalStrong
  OBVIOUS
<1>1. args = <<>> /\ <<>> \in Seq(ArgStates) /\ Len(<<>>) = 0
  BY DEF Init
<1>2. 0 <= MaxArgs
  BY IntervalAssumption
<1> QED
  BY <1>1, <1>2 DEF IntervalStrong

(* The steps of the walk keep the inductive invariant. *)
LEMMA StrongNext == IntervalStrong /\ [Next]_args => IntervalStrong'
<1> SUFFICES ASSUME IntervalStrong, [Next]_args PROVE IntervalStrong'
  OBVIOUS
<1> USE DEF IntervalStrong
<1>1. MaxArgs \in Nat /\ Len(args) \in Nat
  BY IntervalAssumption
<1>2. ASSUME EvalLeaf PROVE IntervalStrong'
  <2>1. PICK leaf \in Leaves, infer \in BOOLEAN :
           args' = Append(args, Arg(LeafInterval(leaf, infer), infer, leaf.true, leaf.unk,
                                    HoldsMore(leaf, infer), HoldsFewer(leaf, infer), TRUE))
    BY <1>2 DEF EvalLeaf
  <2> DEFINE arg == Arg(LeafInterval(leaf, infer), infer, leaf.true, leaf.unk,
                        HoldsMore(leaf, infer), HoldsFewer(leaf, infer), TRUE)
  <2>2. arg \in ArgStates
    BY LeafArg
  <2>3. args' = Append(args, arg) /\ Len(args) < MaxArgs
    BY <1>2, <2>1 DEF EvalLeaf
  <2> HIDE DEF arg
  <2>4. Append(args, arg) \in Seq(ArgStates) /\ Len(Append(args, arg)) = Len(args) + 1
    BY <2>2
  <2> QED
    BY <1>1, <2>3, <2>4
<1>3. ASSUME EvalAnd PROVE IntervalStrong'
  <2> DEFINE true(n, ops) == {x \in Values : \A i \in 1 .. n : x \in ops[i].true}
             false(n, ops) == {x \in Values : \E i \in 1 .. n : x \in FalseFor(ops[i])}
             Of(n, ops) == Arg(PciIntervalFromScalarBoolAnd([i \in 1 .. n |-> ops[i].pci]),
                               ops[1].infer, true(n, ops), Values \ (true(n, ops) \cup false(n, ops)),
                               \E i \in 1 .. n : ops[i].pci = NULL \/ ops[i].more,
                               \E i \in 1 .. n : ops[i].pci # NULL /\ ops[i].fewer, FALSE)
  <2>1. PICK n \in 2 .. Len(args) :
           /\ \A i \in 1 .. n : Operands(n)[i].infer = Operands(n)[1].infer
           /\ Apply(n, Of(n, Operands(n)))
    BY <1>3 DEF EvalAnd
  <2>2. n \in Nat /\ n >= 1 /\ n \in 1 .. Len(args)
    BY <1>1
  <2>3. Operands(n) \in [1 .. n -> ArgStates]
    BY <2>2, OperandsAre
  <2>4. Of(n, Operands(n)) \in ArgStates
    BY <2>1, <2>2, <2>3, AndArg
  <2> HIDE DEF Of
  <2>5. args' \in Seq(ArgStates) /\ Len(args') <= Len(args)
    BY <2>1, <2>2, <2>4, OperandsAre
  <2>6. Len(args') \in Nat
    BY <2>5
  <2> QED
    BY <1>1, <2>5, <2>6
<1>4. ASSUME EvalOr PROVE IntervalStrong'
  <2> DEFINE true(n, ops) == {x \in Values : \E i \in 1 .. n : x \in ops[i].true}
             false(n, ops) == {x \in Values : \A i \in 1 .. n : x \in FalseFor(ops[i])}
             Of(n, ops) == Arg(PciIntervalFromScalarBoolOr([i \in 1 .. n |-> ops[i].pci]),
                               ops[1].infer, true(n, ops), Values \ (true(n, ops) \cup false(n, ops)),
                               \E i \in 1 .. n : ops[i].more,
                               \E i \in 1 .. n : ops[i].fewer, FALSE)
  <2>1. PICK n \in 2 .. Len(args) :
           /\ \A i \in 1 .. n : Operands(n)[i].infer = Operands(n)[1].infer
           /\ Apply(n, Of(n, Operands(n)))
    BY <1>4 DEF EvalOr
  <2>2. n \in Nat /\ n >= 1 /\ n \in 1 .. Len(args)
    BY <1>1
  <2>3. Operands(n) \in [1 .. n -> ArgStates]
    BY <2>2, OperandsAre
  <2>4. Of(n, Operands(n)) \in ArgStates
    BY <2>1, <2>2, <2>3, OrArg
  <2> HIDE DEF Of
  <2>5. args' \in Seq(ArgStates) /\ Len(args') <= Len(args)
    BY <2>1, <2>2, <2>4, OperandsAre
  <2>6. Len(args') \in Nat
    BY <2>5
  <2> QED
    BY <1>1, <2>5, <2>6
<1>5. ASSUME EvalNot PROVE IntervalStrong'
  <2> DEFINE a == Last(args)
             arg == Arg(IF a.pci = NULL THEN NULL ELSE PciComplement(a.pci),
                        ~ a.infer, FalseFor(a), a.unk, a.fewer, a.more, a.lit)
  <2>1. 1 \in 1 .. Len(args) /\ Len(args) \in 1 .. Len(args)
    BY <1>1, <1>5 DEF EvalNot
  <2>2. a \in ArgStates
    BY <2>1 DEF Last
  <2>3. Apply(1, arg)
    BY <1>5 DEF EvalNot
  <2> HIDE DEF a
  <2>4. arg \in ArgStates
    BY <2>2, NotArg
  <2> HIDE DEF arg
  <2>5. args' \in Seq(ArgStates) /\ Len(args') <= Len(args)
    BY <2>1, <2>3, <2>4, OperandsAre
  <2>6. Len(args') \in Nat
    BY <2>5
  <2> QED
    BY <1>1, <2>5, <2>6
<1>6. ASSUME NextPredicate PROVE IntervalStrong'
  <2>1. args' = <<>> /\ <<>> \in Seq(ArgStates) /\ Len(<<>>) = 0
    BY <1>6 DEF NextPredicate
  <2> QED
    BY <1>1, <2>1
<1>7. CASE UNCHANGED args
  BY <1>7
<1> QED
  BY <1>2, <1>3, <1>4, <1>5, <1>6, <1>7 DEF Next

(* The inductive invariant holds throughout the walk. *)
LEMMA StrongAlways == Spec => []IntervalStrong
<1>1. Init => IntervalStrong
  BY StrongInit
<1>2. IntervalStrong /\ [Next]_args => IntervalStrong'
  BY StrongNext
<1> QED
  BY <1>1, <1>2, PTL DEF Spec

(* The arguments with an interval. *)
LEMMA IntervalsAre ==
    ASSUME IntervalStrong, NEW i \in Intervals
    PROVE  i \in 1 .. Len(args) /\ args[i] \in ArgStates /\ args[i].pci \in Pcis(Datums)
  BY ArgFacts DEF IntervalStrong, Intervals, Maybe

(* What an interval selects is what it lets through. *)
LEMMA SelectedLets ==
    ASSUME NEW p \in Pcis(Datums)
    PROVE  Selected(p) = {x \in Values : Lets(x, p)}
<1>1. p # NULL
  BY NullIsNoInterval
<1>2. Selected(p) = {x \in Points : Within(x, p.rngs)} \cup (IF p.null THEN {NULL} ELSE {})
  BY DEF Selected, Within
<1>3. CASE p.null
  BY <1>1, <1>2, <1>3, PointFacts DEF Lets, Passes, PassesNull, Values
<1>4. CASE ~ p.null
  BY <1>1, <1>2, <1>4, PointFacts DEF Lets, Passes, PassesNull, Values
<1> QED
  BY <1>3, <1>4

(* The inductive invariant implies that the intervals are exact. *)
LEMMA StrongExact == IntervalStrong => IntervalExact
<1> SUFFICES ASSUME IntervalStrong, NEW i \in Intervals
             PROVE  /\ ~ args[i].more => Selected(args[i].pci) \subseteq Qualifies(args[i])
                    /\ ~ args[i].fewer => Qualifies(args[i]) \subseteq Selected(args[i].pci)
  BY DEF IntervalExact
<1> DEFINE a == args[i]
<1>1. a \in ArgStates /\ a.pci \in Pcis(Datums)
  BY IntervalsAre
<1> HIDE DEF a
<1>2. Selected(a.pci) = {x \in Values : Lets(x, a.pci)}
  BY <1>1, SelectedLets
<1>3. Qualifies(a) \subseteq Values
  <2>1. CASE a.infer
    BY <1>1, <2>1, ArgFacts
  <2>2. CASE ~ a.infer
    BY <1>1, <2>2, ArgFacts
  <2> QED
    BY <2>1, <2>2
<1>4. a.pci # NULL
  BY <1>1, NullIsNoInterval
<1>5. /\ ~ a.more => Selected(a.pci) \subseteq Qualifies(a)
      /\ ~ a.fewer => Qualifies(a) \subseteq Selected(a.pci)
  BY <1>1, <1>2, <1>3, <1>4, ArgFacts DEF Sound, Full
<1> QED
  BY <1>5 DEF a

(* The inductive invariant implies the canonical form. *)
LEMMA StrongInv == IntervalStrong => IntervalInv
<1> SUFFICES ASSUME IntervalStrong PROVE IntervalTypeOK /\ RangesCanonical
  BY DEF IntervalInv
<1>1. \A i \in 1 .. Len(args) :
          /\ args[i].true \subseteq Values /\ args[i].unk \subseteq Values
          /\ args[i].true \cap args[i].unk = {}
          /\ {args[i].infer, args[i].more, args[i].fewer} \subseteq BOOLEAN
  BY ArgFacts DEF IntervalStrong
<1>2. \A i \in Intervals :
          /\ args[i].pci.null \in BOOLEAN
          /\ \A k \in 1 .. Len(args[i].pci.rngs) :
                /\ WellFormed(args[i].pci.rngs[k])
                /\ {args[i].pci.rngs[k].l, args[i].pci.rngs[k].r}
                      \subseteq Datums \cup {NULL}
  <2> SUFFICES ASSUME NEW p \in Pcis(Datums)
               PROVE  /\ p.null \in BOOLEAN
                      /\ \A k \in 1 .. Len(p.rngs) :
                            /\ WellFormed(p.rngs[k])
                            /\ {p.rngs[k].l, p.rngs[k].r} \subseteq Datums \cup {NULL}
    BY IntervalsAre
  <2>1. p.null \in BOOLEAN /\ p.rngs \in Arrays(Datums)
    BY DEF Pcis
  <2>2. \A k \in 1 .. Len(p.rngs) : RangeOver(Datums, p.rngs[k])
    BY <2>1, ArrayFacts
  <2> QED
    BY <2>1, <2>2 DEF RangeOver
<1>3. RangesCanonical
  <2> SUFFICES ASSUME NEW i \in Intervals, NEW k \in 1 .. Len(args[i].pci.rngs) - 1
               PROVE  Apart(args[i].pci.rngs[k], args[i].pci.rngs[k + 1])
    BY DEF RangesCanonical, Apart
  <2>1. args[i].pci.rngs \in Arrays(Datums)
    BY IntervalsAre DEF Pcis
  <2> QED
    BY <2>1, ArrayFacts
<1>4. Len(args) <= MaxArgs
  BY DEF IntervalStrong
<1> QED
  BY <1>1, <1>2, <1>3, <1>4 DEF IntervalTypeOK

(* The intervals that PciIntervalFromScalarExpr computes are arrays of well
   formed ranges in canonical form. *)
THEOREM IntervalInvariant == Spec => []IntervalInv
<1>1. IntervalStrong => IntervalInv
  BY StrongInv
<1> QED
  BY <1>1, StrongAlways, PTL

(* The interval that PciIntervalFromScalarExpr computes for a predicate holds the
   values that qualify and no others, but may hold more or fewer where AND passed
   over a conjunct or a leaf is misread, and which of the two changes at each NOT. *)
THEOREM IntervalExactness == Spec => []IntervalExact
<1>1. IntervalStrong => IntervalExact
  BY StrongExact
<1> QED
  BY <1>1, StrongAlways, PTL

-----------------------------------------------------------------------------
(* FContainsInterval. *)

(* A range over the datums holds a point. *)
LEMMA RangeHasPoint ==
    ASSUME NEW a, RangeOver(Datums, a)
    PROVE  \E x \in Points : Holds(x, a)
<1>1. /\ a # NULL /\ a.l \in Datums \cup {NULL} /\ a.r \in Datums \cup {NULL}
      /\ a.l # NULL /\ a.r # NULL => a.l < a.r \/ (a.l = a.r /\ a.li /\ a.ri)
  BY WellFormedFields DEF RangeOver
<1>2. CASE a.l = NULL /\ a.r = NULL
  BY <1>1, <1>2, PointsAssumption DEF Holds, AboveLeft, BelowRight
<1>3. CASE a.l = NULL /\ a.r # NULL
  <2>1. PICK x \in Points : x < a.r
    BY <1>1, <1>3, PointsAssumption
  <2> QED
    BY <1>1, <1>3, <2>1 DEF Holds, AboveLeft, BelowRight
<1>4. CASE a.l # NULL /\ a.r = NULL
  <2>1. PICK x \in Points : a.l < x
    BY <1>1, <1>4, PointsAssumption
  <2> QED
    BY <1>1, <1>4, <2>1 DEF Holds, AboveLeft, BelowRight
<1>5. CASE a.l # NULL /\ a.r # NULL /\ a.l < a.r
  <2>1. PICK x \in Points : a.l < x /\ x < a.r
    BY <1>1, <1>5, PointsAssumption
  <2> QED
    BY <1>1, <2>1 DEF Holds, AboveLeft, BelowRight
<1>6. CASE a.l # NULL /\ a.r # NULL /\ a.l = a.r /\ a.li /\ a.ri
  <2>1. a.l \in Points
    BY <1>1, <1>6, PointFacts
  <2> QED
    BY <1>1, <1>6, <2>1 DEF Holds, AboveLeft, BelowRight
<1> QED
  BY <1>1, <1>2, <1>3, <1>4, <1>5, <1>6

(* An array without points is empty. *)
LEMMA ArrayHasPoint ==
    ASSUME NEW rs \in Arrays(Datums)
    PROVE  rs = <<>> <=> \A x \in Points : ~ Within(x, rs)
<1>1. rs = <<>> => \A x \in Points : ~ Within(x, rs)
  BY EmptyArray
<1>2. ASSUME rs # <<>> PROVE \E x \in Points : Within(x, rs)
  <2>1. 1 \in 1 .. Len(rs) /\ RangeOver(Datums, rs[1])
    BY <1>2, ArrayFacts
  <2>2. PICK x \in Points : Holds(x, rs[1])
    BY <2>1, RangeHasPoint
  <2> QED
    BY <2>1, <2>2 DEF Within
<1> QED
  BY <1>1, <1>2

(* Between two ranges that are apart there is a point. *)
LEMMA GapHasPoint ==
    ASSUME NEW a, NEW b, RangeOver(Datums, a), RangeOver(Datums, b), Apart(a, b)
    PROVE  \E x \in Points : ~ BelowRight(x, a) /\ ~ AboveLeft(x, b)
<1>1. a.r \in Datums /\ b.l \in Datums /\ a.r # NULL /\ b.l # NULL /\ a.ri \in BOOLEAN /\ b.li \in BOOLEAN
  BY WellFormedFields DEF RangeOver, Apart
<1>2. CASE a.r < b.l
  <2>1. PICK x \in Points : a.r < x /\ x < b.l
    BY <1>1, <1>2, PointsAssumption
  <2>2. x \in Int /\ a.r \in Int /\ b.l \in Int
    BY <1>1, PointFacts
  <2>3. ~ BelowRight(x, a) /\ ~ AboveLeft(x, b)
    BY <1>1, <2>1, <2>2 DEF BelowRight, AboveLeft
  <2> QED
    BY <2>3
<1>3. CASE a.r = b.l /\ ~ a.ri /\ ~ b.li
  <2>1. a.r \in Points /\ a.r \in Int
    BY <1>1, PointFacts
  <2>2. ~ BelowRight(a.r, a) /\ ~ AboveLeft(a.r, b)
    BY <1>1, <1>3, <2>1 DEF BelowRight, AboveLeft
  <2> QED
    BY <2>1, <2>2
<1> QED
  BY <1>2, <1>3 DEF Apart

(* An array that holds all points is unbounded. *)
LEMMA AllPoints ==
    ASSUME NEW rs \in Arrays(Datums)
    PROVE  (\A x \in Points : Within(x, rs)) <=>
               Len(rs) = 1 /\ rs[1].l = NULL /\ rs[1].r = NULL
<1>1. /\ Len(rs) \in Nat /\ \A k \in 1 .. Len(rs) : RangeOver(Datums, rs[k]) /\ rs[k] # NULL
  BY ArrayFacts, WellFormedFields DEF RangeOver
<1>2. ASSUME Len(rs) = 1, rs[1].l = NULL, rs[1].r = NULL, NEW x \in Points PROVE Within(x, rs)
  <2>1. 1 \in 1 .. Len(rs)
    BY <1>2
  <2> QED
    BY <1>1, <1>2, <2>1 DEF Within, Holds, AboveLeft, BelowRight
<1>3. ASSUME \A x \in Points : Within(x, rs)
      PROVE  Len(rs) = 1 /\ rs[1].l = NULL /\ rs[1].r = NULL
  <2>1. 1 \in 1 .. Len(rs) /\ Len(rs) \in 1 .. Len(rs)
    <3>1. rs # <<>>
      BY <1>3, PointsAssumption, ArrayHasPoint
    <3> QED
      BY <3>1, ArrayFacts
  <2>2. \A x \in Points : x \in Int /\ \E k \in 1 .. Len(rs) : AboveLeft(x, rs[k]) /\ BelowRight(x, rs[k])
    BY <1>3, PointFacts DEF Within, Holds
  <2>3. rs[1].l = NULL
    <3> SUFFICES ASSUME rs[1].l # NULL PROVE FALSE
      OBVIOUS
    <3>1. rs[1].l \in Datums
      BY <1>1, <2>1 DEF RangeOver
    <3>2. PICK x \in Points : x < rs[1].l
      BY <3>1, PointsAssumption
    <3>3. rs[1].l \in Int /\ x \in Int
      BY <3>1, PointFacts
    <3>4. ~ AboveLeft(x, rs[1])
      <4> HIDE <1>1, <1>2, <1>3, <2>1, <2>2
      <4> QED
        BY <3>2, <3>3, NullAssumption DEF AboveLeft
    <3>5. PICK k \in 1 .. Len(rs) : AboveLeft(x, rs[k])
      BY <2>2
    <3>6. k = 1 \/ 1 < k
      BY <1>1
    <3> QED
      BY <2>1, <3>3, <3>4, <3>5, <3>6, ArrayOrder
  <2>4. rs[Len(rs)].r = NULL
    <3> DEFINE n == Len(rs)
    <3> SUFFICES ASSUME rs[n].r # NULL PROVE FALSE
      OBVIOUS
    <3>1. rs[n].r \in Datums
      BY <1>1, <2>1 DEF RangeOver
    <3>2. PICK x \in Points : rs[n].r < x
      BY <3>1, PointsAssumption
    <3>3. rs[n].r \in Int /\ x \in Int
      BY <3>1, PointFacts
    <3>4. ~ BelowRight(x, rs[n])
      BY <3>2, <3>3, NullAssumption DEF BelowRight
    <3>5. PICK k \in 1 .. Len(rs) : BelowRight(x, rs[k])
      BY <2>2
    <3>6. k = n \/ k < n
      BY <1>1
    <3> QED
      BY <2>1, <3>3, <3>4, <3>5, <3>6, ArrayOrder
  <2>5. Len(rs) = 1
    <3> SUFFICES ASSUME Len(rs) # 1 PROVE FALSE
      OBVIOUS
    <3>7. \A n \in Nat : n # 1 /\ 1 \in 1 .. n => 2 \in 1 .. n /\ 1 \in 1 .. n - 1 /\ 1 + 1 = 2
      OBVIOUS
    <3>1. 2 \in 1 .. Len(rs) /\ 1 \in 1 .. Len(rs) - 1 /\ 1 + 1 = 2
      BY <1>1, <2>1, <3>7, Zenon
    <3>2. Apart(rs[1], rs[2])
      BY <3>1, ArrayFacts
    <3>3. PICK x \in Points : ~ BelowRight(x, rs[1]) /\ ~ AboveLeft(x, rs[2])
      BY <1>1, <2>1, <3>1, <3>2, GapHasPoint
    <3>4. PICK k \in 1 .. Len(rs) : AboveLeft(x, rs[k]) /\ BelowRight(x, rs[k])
      BY <2>2
    <3>5. k = 1 \/ k = 2 \/ 2 < k
      BY <1>1
    <3>6. x \in Int
      BY <2>2
    <3> QED
      BY <3>1, <3>3, <3>4, <3>5, <3>6, ArrayOrder
  <2> QED
    BY <2>3, <2>4, <2>5
<1> QED
  BY <1>2, <1>3

(* FContainsInterval answers whether one interval selects what the other does
   (CConstraintInterval::FContainsInterval). *)
THEOREM ContainsIntervalExact ==
    ASSUME NEW p \in Pcis(Datums), NEW q \in Pcis(Datums)
    PROVE  FContainsInterval(p, q) <=> Selected(q) \subseteq Selected(p)
<1>1. /\ p.rngs \in Arrays(Datums) /\ p.null \in BOOLEAN
      /\ q.rngs \in Arrays(Datums) /\ q.null \in BOOLEAN
  BY DEF Pcis
<1>2. ASSUME NEW t \in Pcis(Datums)
      PROVE  IsConstraintUnbounded(t) <=> t.null /\ \A x \in Points : Within(x, t.rngs)
  <2>1. t.rngs \in Arrays(Datums)
    BY DEF Pcis
  <2> QED
    BY <2>1, AllPoints DEF IsConstraintUnbounded
<1>3. Selected(q) \subseteq Selected(p) <=>
         /\ q.null => p.null
         /\ \A x \in Points : Within(x, q.rngs) => Within(x, p.rngs)
  <2>1. \A t : Selected(t) = {x \in Points : Within(x, t.rngs)} \cup (IF t.null THEN {NULL} ELSE {})
    BY DEF Selected, Within
  <2>2. \A x : x \in Selected(q) <=> (x \in Points /\ Within(x, q.rngs)) \/ (q.null /\ x = NULL)
    BY <2>1
  <2>3. \A x : x \in Selected(p) <=> (x \in Points /\ Within(x, p.rngs)) \/ (p.null /\ x = NULL)
    BY <2>1
  <2> QED
    BY <2>2, <2>3, PointFacts
<1> DEFINE t == PciDifference(q, p)
<1>4. /\ t \in Pcis(Datums) /\ t.null = (q.null /\ ~ p.null)
      /\ \A x \in Int : Within(x, t.rngs) <=> Within(x, q.rngs) /\ ~ Within(x, p.rngs)
  BY PciDifferenceExact
<1> HIDE DEF t
<1>5. t.rngs = <<>> <=> \A x \in Points : ~ Within(x, t.rngs)
  BY <1>4, ArrayHasPoint DEF Pcis
<1>6. FContradiction(t) <=> /\ ~ (q.null /\ ~ p.null)
                            /\ \A x \in Points : ~ (Within(x, q.rngs) /\ ~ Within(x, p.rngs))
  BY <1>4, <1>5, PointFacts DEF FContradiction
<1>7. FContainsInterval(p, q) <=> \/ IsConstraintUnbounded(p)
                                  \/ /\ ~ IsConstraintUnbounded(q)
                                     /\ p.null \/ ~ q.null
                                     /\ FContradiction(t)
  BY DEF FContainsInterval, t
<1>8. CASE IsConstraintUnbounded(p)
  BY <1>2, <1>3, <1>7, <1>8
<1>9. CASE ~ IsConstraintUnbounded(p) /\ IsConstraintUnbounded(q)
  BY <1>2, <1>3, <1>7, <1>9
<1>10. CASE ~ IsConstraintUnbounded(p) /\ ~ IsConstraintUnbounded(q)
  BY <1>3, <1>6, <1>7, <1>10
<1> QED
  BY <1>8, <1>9, <1>10

(* FContainsInterval is exact for every two intervals of the arguments. *)
THEOREM ContainmentInvariant == Spec => []ContainmentExact
<1>1. IntervalStrong => ContainmentExact
  <2> SUFFICES ASSUME IntervalStrong, NEW i \in Intervals, NEW j \in Intervals
               PROVE  FContainsInterval(args[i].pci, args[j].pci)
                          <=> Selected(args[j].pci) \subseteq Selected(args[i].pci)
    BY DEF ContainmentExact
  <2>1. args[i].pci \in Pcis(Datums) /\ args[j].pci \in Pcis(Datums)
    BY IntervalsAre
  <2> QED
    BY <2>1, ContainsIntervalExact
<1> QED
  BY <1>1, StrongAlways, PTL

-----------------------------------------------------------------------------
(* Canonical form. *)

(* The range up to the start of another one is not the NULL pointer. *)
LEMMA StartsExist ==
    ASSUME NEW a, NEW b, WellFormed(a), WellFormed(b)
    PROVE  Rng(a.l, a.li, b.l, ~ b.li) # NULL
<1>1. Rng(a.l, a.li, b.l, ~ b.li) \in RangeType
  BY WellFormedFields DEF Rng, RangeType
<1> QED
  BY <1>1, NullAssumption

(* Arrays over the datums that hold the same points are equal. *)
AgreeBefore(a, b, k) == \A i \in 1 .. k - 1 : a[i] = b[i]
PointsIn(a, b) == \A x \in Points : Within(x, a) => Within(x, b)

(* A point that is in range k of the first array is not in an earlier range of
   the second. *)
LEMMA SamePlace ==
    ASSUME NEW a \in Arrays(Datums), NEW b \in Arrays(Datums), NEW k \in 1 .. Len(a),
           k - 1 <= Len(b), AgreeBefore(a, b, k), PointsIn(a, b),
           NEW x \in Points, Holds(x, a[k])
    PROVE  k <= Len(b) /\ AboveLeft(x, b[k])
<1>1. x \in Int /\ Len(a) \in Nat /\ Len(b) \in Nat
  BY PointFacts, ArrayFacts
<1>2. AboveLeft(x, a[k])
  BY DEF Holds
<1>3. PICK m \in 1 .. Len(b) : AboveLeft(x, b[m]) /\ BelowRight(x, b[m])
  BY DEF PointsIn, Within, Holds
<1>4. ~ (m < k)
  <2> SUFFICES ASSUME m < k PROVE FALSE
    OBVIOUS
  <2>1. m \in 1 .. k - 1 /\ m \in 1 .. Len(a)
    BY <1>1
  <2>2. a[m] = b[m]
    BY <2>1 DEF AgreeBefore
  <2> QED
    BY <1>1, <1>2, <1>3, <2>1, <2>2, ArrayOrder
<1>5. k \in 1 .. Len(b) /\ (m = k \/ k < m)
  BY <1>1, <1>4
<1>6. AboveLeft(x, b[k])
  BY <1>1, <1>3, <1>5, ArrayOrder
<1> QED
  BY <1>5, <1>6

(* Nor does the second array end earlier. *)
LEMMA SameLength ==
    ASSUME NEW a \in Arrays(Datums), NEW b \in Arrays(Datums), NEW k \in 1 .. Len(a),
           k - 1 <= Len(b), AgreeBefore(a, b, k), PointsIn(a, b)
    PROVE  k <= Len(b)
<1>1. RangeOver(Datums, a[k])
  BY ArrayFacts
<1>2. PICK x \in Points : Holds(x, a[k])
  BY <1>1, RangeHasPoint
<1> QED
  BY <1>2, SamePlace

(* The range of the first array does not start before that of the second. *)
LEMMA SameLeft ==
    ASSUME NEW a \in Arrays(Datums), NEW b \in Arrays(Datums), NEW k \in 1 .. Len(a),
           k \in 1 .. Len(b), AgreeBefore(a, b, k), PointsIn(a, b)
    PROVE  PrngDifferenceLeft(a[k], b[k]) = NULL
<1> SUFFICES ASSUME PrngDifferenceLeft(a[k], b[k]) # NULL PROVE FALSE
  OBVIOUS
<1> DEFINE n == PrngDifferenceLeft(a[k], b[k])
<1>1. RangeOver(Datums, a[k]) /\ RangeOver(Datums, b[k])
  BY ArrayFacts
<1>2. RangeOver(Datums, n)
  <2>1. WellFormed(n) /\ n.l = a[k].l /\ n.r \in {a[k].r, b[k].l}
    BY <1>1, DifferenceLeftEnds DEF RangeOver
  <2> HIDE DEF n
  <2> QED
    BY <1>1, <2>1 DEF RangeOver
<1>3. PICK x \in Points : Holds(x, n)
  <2> HIDE DEF n
  <2> QED
    BY <1>2, RangeHasPoint
<1>4. x \in Int
  BY PointFacts
<1>5. Holds(x, a[k]) /\ ~ AboveLeft(x, b[k])
  BY <1>1, <1>3, <1>4, DifferenceLeftExact DEF RangeOver
<1>6. k - 1 <= Len(b)
  BY ArrayFacts
<1> QED
  BY <1>5, <1>6, SamePlace

(* The range of the second array does not end after that of the first: what it
   would hold beyond it is in no range of the first. *)
LEMMA SameRight ==
    ASSUME NEW a \in Arrays(Datums), NEW b \in Arrays(Datums), NEW k \in 1 .. Len(a),
           k \in 1 .. Len(b), ~ FDisjointLeft(a[k], b[k]), PointsIn(b, a)
    PROVE  FEndsWithOrAfter(a[k], b[k])
<1> SUFFICES ASSUME ~ FEndsWithOrAfter(a[k], b[k]) PROVE FALSE
  OBVIOUS
<1> DEFINE n == PrngDifferenceRight(b[k], a[k])
<1>1. RangeOver(Datums, a[k]) /\ RangeOver(Datums, b[k])
  BY ArrayFacts
<1>2. /\ WellFormed(n) /\ n.r = b[k].r /\ n.l = a[k].r /\ n.l # NULL
      /\ n.li = ~ a[k].ri /\ FDisjointLeft(a[k], n)
  BY <1>1, DifferenceRightEnds DEF RangeOver
<1>3. \A x \in Int : Holds(x, n) => Holds(x, b[k]) /\ ~ BelowRight(x, a[k])
  BY <1>1, DifferenceRightExact DEF RangeOver
<1> HIDE DEF n
<1>4. RangeOver(Datums, n)
  BY <1>1, <1>2 DEF RangeOver
<1>5. k \in Nat /\ Len(a) \in Nat
  BY ArrayFacts
<1>6. \E x \in Points : Holds(x, n) /\ (k < Len(a) => ~ AboveLeft(x, a[k + 1]))
  <2>1. CASE ~ (k < Len(a))
    BY <1>4, <2>1, RangeHasPoint
  <2>2. CASE k < Len(a)
    <3>1. k \in 1 .. Len(a) - 1 /\ k + 1 \in 1 .. Len(a)
      BY <1>5, <2>2
    <3> DEFINE c == a[k + 1]
               g == PrngDifferenceLeft(n, c)
    <3>2. RangeOver(Datums, c) /\ Apart(a[k], c)
      BY <3>1, ArrayFacts
    <3> HIDE DEF c
    <3>3. c.l # NULL /\ (FDisjointLeft(n, c) \/ FStartsBefore(n, c))
      <4> DEFINE e == a[k]
      <4>1. WellFormed(e) /\ WellFormed(n) /\ WellFormed(c) /\ n.l = e.r /\ n.li = ~ e.ri /\ Apart(e, c)
        BY <1>1, <1>2, <3>2 DEF RangeOver
      <4> HIDE DEF e
      <4> QED
        BY <4>1, WellFormedFields, NullAssumption
        DEF Apart, FDisjointLeft, FStartsBefore, IsLessThan, IsGreaterThan, Equals
    <3>4. g # NULL
      <4>1. n # NULL /\ Rng(n.l, n.li, c.l, ~ c.li) # NULL
        BY <1>2, <3>2, WellFormedFields, StartsExist DEF RangeOver
      <4> QED
        BY <3>3, <4>1 DEF PrngDifferenceLeft
    <3>5. WellFormed(g) /\ g.l = n.l /\ g.r \in {n.r, c.l}
      BY <1>2, <3>2, <3>4, DifferenceLeftEnds DEF RangeOver
    <3>6. \A x \in Int : Holds(x, g) => Holds(x, n) /\ ~ AboveLeft(x, c)
      BY <1>2, <3>2, DifferenceLeftExact DEF RangeOver
    <3> HIDE DEF g
    <3>7. RangeOver(Datums, g)
      BY <1>4, <3>2, <3>5 DEF RangeOver
    <3>8. PICK x \in Points : Holds(x, g)
      BY <3>7, RangeHasPoint
    <3>9. Holds(x, n) /\ ~ AboveLeft(x, c)
      BY <3>6, <3>8, PointFacts
    <3> QED
      BY <3>9 DEF c
  <2> QED
    BY <2>1, <2>2
<1>7. PICK x \in Points : Holds(x, n) /\ (k < Len(a) => ~ AboveLeft(x, a[k + 1]))
  BY <1>6
<1>8. x \in Int
  BY PointFacts
<1>9. Holds(x, b[k]) /\ ~ BelowRight(x, a[k])
  BY <1>3, <1>7, <1>8
<1>10. PICK m \in 1 .. Len(a) : AboveLeft(x, a[m]) /\ BelowRight(x, a[m])
  BY <1>9 DEF PointsIn, Within, Holds
<1>11. m < k \/ m = k \/ (k + 1 \in 1 .. Len(a) /\ k < Len(a) /\ (m = k + 1 \/ k + 1 < m))
  BY <1>5
<1>12. CASE m < k
  BY <1>8, <1>9, <1>10, <1>12, ArrayOrder
<1>13. CASE m = k
  BY <1>9, <1>10, <1>13
<1>14. CASE k + 1 \in 1 .. Len(a) /\ k < Len(a) /\ (m = k + 1 \/ k + 1 < m)
  <2>1. ~ AboveLeft(x, a[k + 1])
    BY <1>7, <1>14
  <2> QED
    BY <1>8, <1>10, <1>14, <2>1, ArrayOrder
<1> QED
  BY <1>11, <1>12, <1>13, <1>14

(* Ranges with the same ends are the same. *)
LEMMA SameEnds ==
    ASSUME NEW a, NEW b, WellFormed(a), WellFormed(b),
           PrngDifferenceLeft(a, b) = NULL, PrngDifferenceLeft(b, a) = NULL
    PROVE  /\ a.l = b.l /\ a.li = b.li /\ ~ FDisjointLeft(a, b) /\ ~ FDisjointLeft(b, a)
           /\ FEndsWithOrAfter(a, b) /\ FEndsWithOrAfter(b, a) => a = b
<1>1. /\ Rng(a.l, a.li, b.l, ~ b.li) # NULL /\ Rng(b.l, b.li, a.l, ~ a.li) # NULL
      /\ a # NULL /\ b # NULL
  BY WellFormedFields, StartsExist
<1>2. /\ ~ FDisjointLeft(a, b) /\ ~ (b.l # NULL /\ FStartsBefore(a, b))
      /\ ~ FDisjointLeft(b, a) /\ ~ (a.l # NULL /\ FStartsBefore(b, a))
  BY <1>1 DEF PrngDifferenceLeft
<1>3. a.l = b.l /\ a.li = b.li
  BY <1>2, WellFormedFields, NullAssumption DEF FStartsBefore, IsLessThan, IsGreaterThan
<1>4. ASSUME FEndsWithOrAfter(a, b), FEndsWithOrAfter(b, a) PROVE a.r = b.r /\ a.ri = b.ri
  BY <1>4, WellFormedFields, NullAssumption
  DEF FEndsWithOrAfter, FEndsAfter, IsLessThan, IsGreaterThan, Equals
<1>5. /\ a = [l |-> a.l, li |-> a.li, r |-> a.r, ri |-> a.ri]
      /\ b = [l |-> b.l, li |-> b.li, r |-> b.r, ri |-> b.ri]
  BY WellFormedFields DEF RangeType
<1> QED
  BY <1>2, <1>3, <1>4, <1>5

(* Canonical form: equal sets of points have equal arrays. *)
THEOREM CanonicalForm ==
    ASSUME NEW a \in Arrays(Datums), NEW b \in Arrays(Datums),
           \A x \in Points : Within(x, a) <=> Within(x, b)
    PROVE  a = b
<1>1. PointsIn(a, b) /\ PointsIn(b, a)
  BY DEF PointsIn
<1>2. Len(a) \in Nat /\ Len(b) \in Nat
  BY ArrayFacts
<1> DEFINE Same(k) == k <= Len(a) \/ k <= Len(b) => k <= Len(a) /\ k <= Len(b) /\ a[k] = b[k]
           G == {n \in Nat : \A k \in 1 .. n : Same(k)}
<1>3. 0 \in G
  OBVIOUS
<1>4. ASSUME NEW n \in Nat, n \in G PROVE n + 1 \in G
  <2> DEFINE k == n + 1
  <2>1. k \in Nat /\ k >= 1 /\ k - 1 = n
    OBVIOUS
  <2> HIDE DEF k
  <2>2. ASSUME k <= Len(a) \/ k <= Len(b) PROVE k <= Len(a) /\ k <= Len(b) /\ a[k] = b[k]
    <3>1. k - 1 <= Len(a) /\ k - 1 <= Len(b)
      <4>1. n = 0 \/ (n \in 1 .. n /\ (n <= Len(a) \/ n <= Len(b)))
        BY <1>2, <2>1, <2>2
      <4> QED
        BY <1>2, <1>4, <2>1, <4>1
    <3>2. AgreeBefore(a, b, k) /\ AgreeBefore(b, a, k)
      <4>1. \A i \in 1 .. n : i <= Len(a)
        BY <1>2, <2>1, <3>1
      <4>2. \A i \in 1 .. n : a[i] = b[i]
        BY <1>4, <4>1
      <4> QED
        BY <2>1, <4>2 DEF AgreeBefore
    <3>3. k \in 1 .. Len(a) => k <= Len(b)
      BY <1>1, <3>1, <3>2, SameLength
    <3>4. k \in 1 .. Len(b) => k <= Len(a)
      BY <1>1, <3>1, <3>2, SameLength
    <3>5. k \in 1 .. Len(a) /\ k \in 1 .. Len(b) /\ k <= Len(a) /\ k <= Len(b)
      BY <1>2, <2>1, <2>2, <3>3, <3>4
    <3>6. PrngDifferenceLeft(a[k], b[k]) = NULL /\ PrngDifferenceLeft(b[k], a[k]) = NULL
      BY <1>1, <3>2, <3>5, SameLeft
    <3>7. WellFormed(a[k]) /\ WellFormed(b[k])
      BY <3>5, ArrayFacts
    <3>8. /\ ~ FDisjointLeft(a[k], b[k]) /\ ~ FDisjointLeft(b[k], a[k])
          /\ FEndsWithOrAfter(a[k], b[k]) /\ FEndsWithOrAfter(b[k], a[k]) => a[k] = b[k]
      BY <3>6, <3>7, SameEnds
    <3>9. FEndsWithOrAfter(a[k], b[k]) /\ FEndsWithOrAfter(b[k], a[k])
      BY <1>1, <3>5, <3>8, SameRight
    <3> QED
      BY <3>5, <3>8, <3>9
  <2>3. Same(k)
    BY <2>2
  <2>4. \A i \in 1 .. n + 1 : i \in 1 .. n \/ i = k
    BY <2>1 DEF k
  <2>5. \A i \in 1 .. n : Same(i)
    BY <1>4
  <2> HIDE DEF Same
  <2>6. n + 1 \in Nat
    OBVIOUS
  <2> QED
    BY <2>3, <2>4, <2>5, <2>6
<1>5. Nat \subseteq G
  <2> HIDE DEF G
  <2> QED
    BY <1>3, <1>4, NaturalSteps
<1>6. \A k \in Nat : k >= 1 => Same(k)
  <2>1. \A k \in Nat : k >= 1 => k \in 1 .. k
    OBVIOUS
  <2> HIDE DEF Same
  <2> QED
    BY <1>5, <2>1
<1>7. Len(a) = Len(b)
  <2>1. \A m \in Nat : \A n \in Nat :
           (\A k \in Nat : k >= 1 => (k <= m \/ k <= n => k <= m /\ k <= n)) => m = n
    <3> SUFFICES ASSUME NEW m \in Nat, NEW n \in Nat,
                        \A k \in Nat : k >= 1 => (k <= m \/ k <= n => k <= m /\ k <= n)
                 PROVE  m = n
      OBVIOUS
    <3>1. m >= 1 => m <= n
      OBVIOUS
    <3>2. n >= 1 => n <= m
      OBVIOUS
    <3> QED
      BY <3>1, <3>2
  <2> QED
    BY <1>2, <1>6, <2>1
<1>8. \A i \in 1 .. Len(a) : a[i] = b[i]
  BY <1>2, <1>6
<1>9. a \in Seq(RangeType) /\ b \in Seq(RangeType)
  BY ArrayFacts
<1> QED
  BY <1>7, <1>8, <1>9, SeqEqual

-----------------------------------------------------------------------------
(* The round trip. *)

(* The scalar expressions that are built: disjunctions of conjunctions of
   leaves that have an interval. *)
LeafShapes ==
    {CmpLeaf(cmp, d) : cmp \in Comparisons, d \in Datums}
    \cup {ArrayLeaf(in, S) : in \in BOOLEAN, S \in SUBSET Datums}
    \cup {IdfLeaf(NULL), NullTestLeaf, ConstLeaf(TRUE), ConstLeaf(FALSE)}
ScalarLeaves == {leaf \in LeafShapes : LeafInterval(leaf, FALSE) \in Pcis(Datums)}
Conjunctions == Seq(ScalarLeaves) \ {<<>>}

ConjHolds(x, ls) == \A j \in 1 .. Len(ls) : Within(x, LeafInterval(ls[j], FALSE).rngs)
ConjNull(ls) == \A j \in 1 .. Len(ls) : LeafInterval(ls[j], FALSE).null

ScalarHolds(x, s) == \E i \in 1 .. Len(s) : ConjHolds(x, s[i])
ScalarNull(s) == \E i \in 1 .. Len(s) : ConjNull(s[i])

(* The leaves that PexprConstructScalar makes have one of these shapes. *)
LEMMA ShapesAre ==
    /\ \A cmp \in Comparisons : \A d \in Datums : CmpLeaf(cmp, d) \in LeafShapes
    /\ \A in \in BOOLEAN : \A S \in SUBSET Datums : ArrayLeaf(in, S) \in LeafShapes
    /\ IdfLeaf(NULL) \in LeafShapes /\ NullTestLeaf \in LeafShapes
    /\ ConstLeaf(TRUE) \in LeafShapes /\ ConstLeaf(FALSE) \in LeafShapes
<1> DEFINE A == {CmpLeaf(cmp, d) : cmp \in Comparisons, d \in Datums}
           B == {ArrayLeaf(in, S) : in \in BOOLEAN, S \in SUBSET Datums}
<1>1. LeafShapes = A \cup B \cup {IdfLeaf(NULL), NullTestLeaf, ConstLeaf(TRUE), ConstLeaf(FALSE)}
  BY DEF LeafShapes
<1>2. \A cmp \in Comparisons : \A d \in Datums : CmpLeaf(cmp, d) \in A
  OBVIOUS
<1>3. \A in \in BOOLEAN : \A S \in SUBSET Datums : ArrayLeaf(in, S) \in B
  OBVIOUS
<1> HIDE DEF A, B
<1> QED
  BY <1>1, <1>2, <1>3

(* The interval of a conjunction of leaves. *)
LEMMA ConjunctionExact ==
    ASSUME NEW ls \in Conjunctions
    PROVE  LET t == PciIntervalFromScalarBoolAnd([j \in 1 .. Len(ls) |-> LeafInterval(ls[j], FALSE)]) IN
           /\ t \in Pcis(Datums) /\ t # NULL
           /\ t.null <=> ConjNull(ls)
           /\ \A x \in Int : Within(x, t.rngs) <=> ConjHolds(x, ls)
<1> DEFINE n == Len(ls)
           pcis == [j \in 1 .. n |-> LeafInterval(ls[j], FALSE)]
           t == PciIntervalFromScalarBoolAnd(pcis)
<1>1. n \in Nat /\ n >= 1 /\ \A j \in 1 .. n : LeafInterval(ls[j], FALSE) \in Pcis(Datums)
  <2>1. ls \in Seq(ScalarLeaves) /\ ls # <<>>
    BY DEF Conjunctions
  <2>2. n \in Nat /\ n >= 1 /\ \A j \in 1 .. n : ls[j] \in ScalarLeaves
    BY <2>1
  <2> QED
    BY <2>2 DEF ScalarLeaves
<1> HIDE DEF n
<1>2. /\ pcis \in Seq(Maybe(Datums)) /\ pcis # <<>> /\ Len(pcis) = n
      /\ \A j \in 1 .. n : pcis[j] = LeafInterval(ls[j], FALSE)
  <2>1. pcis \in [1 .. n -> Maybe(Datums)]
    <3>1. \A j \in 1 .. n : LeafInterval(ls[j], FALSE) \in Maybe(Datums)
      BY <1>1 DEF Maybe
    <3> QED
      BY <3>1
  <2>2. \A j \in 1 .. n : pcis[j] = LeafInterval(ls[j], FALSE)
    OBVIOUS
  <2> HIDE DEF pcis
  <2>3. n \in Nat /\ n >= 1
    BY <1>1
  <2>4. pcis \in Seq(Maybe(Datums)) /\ Len(pcis) = n
    BY <2>1, <2>3
  <2>5. pcis # <<>>
    BY <2>3, <2>4
  <2> QED
    BY <2>2, <2>4, <2>5
<1> HIDE DEF pcis
<1>3. /\ t \in Maybe(Datums) /\ (t = NULL <=> \A i \in 1 .. Len(pcis) : pcis[i] = NULL)
      /\ PassesNull(t) <=> \A i \in 1 .. Len(pcis) : PassesNull(pcis[i])
      /\ \A x \in Int : Passes(x, t) <=> \A i \in 1 .. Len(pcis) : Passes(x, pcis[i])
  BY <1>2, BoolAndExact
<1> HIDE DEF t
<1>4. \A j \in 1 .. n : pcis[j] # NULL /\ pcis[j] = LeafInterval(ls[j], FALSE)
  BY <1>1, <1>2, NullIsNoInterval
<1>5. 1 \in 1 .. n
  BY <1>1
<1>6. t # NULL
  BY <1>2, <1>3, <1>4, <1>5
<1>7. t.null <=> \A j \in 1 .. n : LeafInterval(ls[j], FALSE).null
  BY <1>2, <1>3, <1>4, <1>6 DEF PassesNull
<1>8. \A x \in Int : Within(x, t.rngs) <=> \A j \in 1 .. n : Within(x, LeafInterval(ls[j], FALSE).rngs)
  BY <1>2, <1>3, <1>4, <1>6 DEF Passes
<1> QED
  BY <1>3, <1>6, <1>7, <1>8 DEF Maybe, ConjNull, ConjHolds, t, pcis, n

(* The interval of a scalar expression that was built
   (CConstraintInterval::PciIntervalFromConstraint). *)
LEMMA ScalarExact ==
    ASSUME NEW s \in Seq(Conjunctions), s # <<>>
    PROVE  LET t == PciIntervalFromConstraint(s) IN
           /\ t \in Pcis(Datums) /\ (t.null <=> ScalarNull(s))
           /\ \A x \in Int : Within(x, t.rngs) <=> ScalarHolds(x, s)
<1> DEFINE n == Len(s)
           Disjunct(ls) == PciIntervalFromScalarBoolAnd(
                               [j \in 1 .. Len(ls) |-> LeafInterval(ls[j], FALSE)])
           pcis == [i \in 1 .. n |-> Disjunct(s[i])]
           t == PciIntervalFromScalarBoolOr(pcis)
<1>1. PciIntervalFromConstraint(s) = t
  BY DEF PciIntervalFromConstraint
<1>2. n \in Nat /\ n >= 1 /\ \A i \in 1 .. n : s[i] \in Conjunctions
  OBVIOUS
<1>3. \A ls \in Conjunctions : /\ Disjunct(ls) \in Pcis(Datums) /\ Disjunct(ls) # NULL
                               /\ Disjunct(ls).null <=> ConjNull(ls)
                               /\ \A x \in Int : Within(x, Disjunct(ls).rngs) <=> ConjHolds(x, ls)
  BY ConjunctionExact
<1> HIDE DEF n, Disjunct
<1>4. /\ pcis \in Seq(Maybe(Datums)) /\ pcis # <<>> /\ Len(pcis) = n
      /\ \A i \in 1 .. n : pcis[i] = Disjunct(s[i])
  <2>1. pcis \in [1 .. n -> Maybe(Datums)]
    BY <1>2, <1>3 DEF Maybe
  <2>2. \A i \in 1 .. n : pcis[i] = Disjunct(s[i])
    OBVIOUS
  <2> HIDE DEF pcis
  <2>3. n \in Nat /\ n >= 1
    BY <1>2
  <2>4. pcis \in Seq(Maybe(Datums)) /\ Len(pcis) = n
    BY <2>1, <2>3
  <2>5. pcis # <<>>
    BY <2>3, <2>4
  <2> QED
    BY <2>2, <2>4, <2>5
<1> HIDE DEF pcis
<1>5. /\ t \in Maybe(Datums) /\ (t = NULL <=> \E i \in 1 .. Len(pcis) : pcis[i] = NULL)
      /\ t # NULL => /\ t.null <=> \E i \in 1 .. Len(pcis) : pcis[i].null
                     /\ \A x \in Int : Within(x, t.rngs) <=>
                           \E i \in 1 .. Len(pcis) : Within(x, pcis[i].rngs)
  BY <1>4, BoolOrExact
<1> HIDE DEF t
<1>6. t # NULL
  BY <1>2, <1>3, <1>4, <1>5
<1>7. t.null <=> ScalarNull(s)
  BY <1>2, <1>3, <1>4, <1>5, <1>6 DEF ScalarNull, n
<1>8. \A x \in Int : Within(x, t.rngs) <=> ScalarHolds(x, s)
  BY <1>2, <1>3, <1>4, <1>5, <1>6 DEF ScalarHolds, n
<1> QED
  BY <1>1, <1>5, <1>6, <1>7, <1>8 DEF Maybe

(* A conjunction of one leaf. *)
LEMMA OneLeaf ==
    ASSUME NEW l \in ScalarLeaves
    PROVE  /\ <<l>> \in Conjunctions /\ <<l>> \in Seq(ScalarLeaves) /\ Len(<<l>>) = 1
           /\ ConjNull(<<l>>) <=> LeafInterval(l, FALSE).null
           /\ \A x : ConjHolds(x, <<l>>) <=> Within(x, LeafInterval(l, FALSE).rngs)
<1> DEFINE s == <<l>>
<1>1. s \in Seq(ScalarLeaves) /\ Len(s) = 1 /\ s[1] = l /\ s # <<>>
  OBVIOUS
<1> HIDE DEF s
<1>2. \A j : j \in 1 .. Len(s) <=> j = 1
  BY <1>1
<1> QED
  BY <1>1, <1>2 DEF ConjNull, ConjHolds, Conjunctions, s

(* A disjunction of one conjunction. *)
LEMMA OneDisjunct ==
    ASSUME NEW c \in Conjunctions
    PROVE  /\ <<c>> \in Seq(Conjunctions) /\ <<c>> # <<>>
           /\ ScalarNull(<<c>>) <=> ConjNull(c)
           /\ \A x : ScalarHolds(x, <<c>>) <=> ConjHolds(x, c)
<1> DEFINE s == <<c>>
<1>1. s \in Seq(Conjunctions) /\ Len(s) = 1 /\ s[1] = c /\ s # <<>>
  OBVIOUS
<1> HIDE DEF s
<1>2. \A j : j \in 1 .. Len(s) <=> j = 1
  BY <1>1
<1> QED
  BY <1>1, <1>2 DEF ScalarNull, ScalarHolds, s

(* The leaves that are built. *)
LEMMA LeavesBuilt ==
    /\ \A cmp \in Comparisons : \A d \in Datums :
          /\ CmpLeaf(cmp, d) \in ScalarLeaves
          /\ ~ LeafInterval(CmpLeaf(cmp, d), FALSE).null
          /\ \A x \in Int : Within(x, LeafInterval(CmpLeaf(cmp, d), FALSE).rngs) <=> Compare(x, cmp, d)
    /\ \A in \in BOOLEAN : \A S \in SUBSET Datums :
          /\ ArrayLeaf(in, S) \in ScalarLeaves
          /\ ~ LeafInterval(ArrayLeaf(in, S), FALSE).null
          /\ \A x \in Int : Within(x, LeafInterval(ArrayLeaf(in, S), FALSE).rngs) <=> (in <=> x \in S)
    /\ LET p == LeafInterval(IdfLeaf(NULL), FALSE) IN
       IdfLeaf(NULL) \in ScalarLeaves /\ ~ p.null /\ \A x \in Int : Within(x, p.rngs)
    /\ LET p == LeafInterval(NullTestLeaf, FALSE) IN
       NullTestLeaf \in ScalarLeaves /\ p.null /\ \A x \in Int : ~ Within(x, p.rngs)
    /\ LET p == LeafInterval(ConstLeaf(TRUE), FALSE) IN
       ConstLeaf(TRUE) \in ScalarLeaves /\ p.null /\ \A x \in Int : Within(x, p.rngs)
    /\ LET p == LeafInterval(ConstLeaf(FALSE), FALSE) IN
       ConstLeaf(FALSE) \in ScalarLeaves /\ ~ p.null /\ \A x \in Int : ~ Within(x, p.rngs)
<1>1. ASSUME NEW cmp \in Comparisons, NEW d \in Datums
      PROVE  /\ CmpLeaf(cmp, d) \in ScalarLeaves
             /\ ~ LeafInterval(CmpLeaf(cmp, d), FALSE).null
             /\ \A x \in Int : Within(x, LeafInterval(CmpLeaf(cmp, d), FALSE).rngs) <=> Compare(x, cmp, d)
  <2> DEFINE p == LeafInterval(CmpLeaf(cmp, d), FALSE)
  <2>1. /\ p \in Pcis(Datums) /\ p.null = FALSE
        /\ \A x \in Int : Within(x, p.rngs) <=> Compare(x, cmp, d)
    BY CmpInterval
  <2>2. CmpLeaf(cmp, d) \in ScalarLeaves
    BY <2>1, ShapesAre DEF ScalarLeaves
  <2> HIDE DEF p
  <2>3. ~ p.null
    BY <2>1
  <2> QED
    BY <2>1, <2>2, <2>3 DEF p
<1>2. ASSUME NEW in \in BOOLEAN, NEW S \in SUBSET Datums
      PROVE  /\ ArrayLeaf(in, S) \in ScalarLeaves
             /\ ~ LeafInterval(ArrayLeaf(in, S), FALSE).null
             /\ \A x \in Int : Within(x, LeafInterval(ArrayLeaf(in, S), FALSE).rngs) <=> (in <=> x \in S)
  <2> DEFINE p == LeafInterval(ArrayLeaf(in, S), FALSE)
  <2>1. /\ p \in Pcis(Datums) /\ p.null = FALSE
        /\ \A x \in Int : Within(x, p.rngs) <=> (in <=> x \in S)
    <3>1. ArrayLeaf(in, S) = ArrayCmpLeaf(in, ~ in, S, FALSE)
      BY DEF ArrayLeaf
    <3>2. \A all, null :
             LET q == LeafInterval(ArrayCmpLeaf(in, all, S, null), FALSE) IN
             /\ q \in Pcis(Datums) /\ q.null = FALSE
             /\ \A x \in Int : Within(x, q.rngs) <=> (in <=> x \in S)
      <4> TAKE all, null
      <4> DEFINE f == FALSE
      <4>1. f \in BOOLEAN
        OBVIOUS
      <4> HIDE DEF f
      <4>2. LET q == LeafInterval(ArrayCmpLeaf(in, all, S, null), f) IN
            /\ q \in Pcis(Datums) /\ q.null = f
            /\ \A x \in Int : Within(x, q.rngs) <=> (in <=> x \in S)
        BY <4>1, ArrayCmpInterval
      <4> QED
        BY <4>2 DEF f
    <3>3. LET q == LeafInterval(ArrayCmpLeaf(in, ~ in, S, FALSE), FALSE) IN
          /\ q \in Pcis(Datums) /\ q.null = FALSE
          /\ \A x \in Int : Within(x, q.rngs) <=> (in <=> x \in S)
      BY <3>2
    <3> QED
      BY <3>1, <3>3
  <2>2. ArrayLeaf(in, S) \in ScalarLeaves
    BY <2>1, ShapesAre DEF ScalarLeaves
  <2> HIDE DEF p
  <2>3. ~ p.null
    BY <2>1
  <2> QED
    BY <2>1, <2>2, <2>3 DEF p
<1>3. LET p == LeafInterval(IdfLeaf(NULL), FALSE) IN
      IdfLeaf(NULL) \in ScalarLeaves /\ ~ p.null /\ \A x \in Int : Within(x, p.rngs)
  <2> DEFINE p == LeafInterval(IdfLeaf(NULL), FALSE)
  <2>1. (CHOOSE e \in {NULL} : TRUE) = NULL
    OBVIOUS
  <2>2. p = PciIntervalFromScalarIDF(NULL)
    BY <2>1 DEF LeafInterval, IdfLeaf, Leaf
  <2>3. p \in Pcis(Datums) /\ p.null = FALSE /\ \A x \in Int : Within(x, p.rngs)
    BY <2>2, IdfNullInterval
  <2>4. IdfLeaf(NULL) \in ScalarLeaves
    BY <2>3, ShapesAre DEF ScalarLeaves
  <2> HIDE DEF p
  <2>5. ~ p.null
    BY <2>3
  <2> QED
    BY <2>3, <2>4, <2>5 DEF p
<1>4. LET p == LeafInterval(NullTestLeaf, FALSE) IN
      NullTestLeaf \in ScalarLeaves /\ p.null /\ \A x \in Int : ~ Within(x, p.rngs)
  <2> DEFINE p == LeafInterval(NullTestLeaf, FALSE)
  <2>1. p = [rngs |-> <<>>, null |-> TRUE]
    BY DEF LeafInterval, NullTestLeaf, Leaf, Pci
  <2>2. p \in Pcis(Datums) /\ p.null /\ \A x \in Int : ~ Within(x, p.rngs)
    <3> HIDE DEF p
    <3> QED
      BY <2>1, EmptyArray DEF Pcis
  <2>3. NullTestLeaf \in ScalarLeaves
    BY <2>2, ShapesAre DEF ScalarLeaves
  <2> HIDE DEF p
  <2> QED
    BY <2>2, <2>3 DEF p
<1>5. LET p == LeafInterval(ConstLeaf(TRUE), FALSE) IN
      ConstLeaf(TRUE) \in ScalarLeaves /\ p.null /\ \A x \in Int : Within(x, p.rngs)
  <2> DEFINE p == LeafInterval(ConstLeaf(TRUE), FALSE)
  <2>1. p = PciUnbounded(TRUE)
    BY DEF LeafInterval, ConstLeaf, Leaf
  <2>2. p \in Pcis(Datums) /\ p.null = TRUE /\ \A x \in Int : Within(x, p.rngs)
    BY <2>1, UnboundedArray
  <2>3. ConstLeaf(TRUE) \in ScalarLeaves
    BY <2>2, ShapesAre DEF ScalarLeaves
  <2> HIDE DEF p
  <2> QED
    BY <2>2, <2>3 DEF p
<1>6. LET p == LeafInterval(ConstLeaf(FALSE), FALSE) IN
      ConstLeaf(FALSE) \in ScalarLeaves /\ ~ p.null /\ \A x \in Int : ~ Within(x, p.rngs)
  <2> DEFINE p == LeafInterval(ConstLeaf(FALSE), FALSE)
  <2>1. p = [rngs |-> <<>>, null |-> FALSE]
    BY DEF LeafInterval, ConstLeaf, Leaf, Pci
  <2>2. p \in Pcis(Datums) /\ ~ p.null /\ \A x \in Int : ~ Within(x, p.rngs)
    <3> HIDE DEF p
    <3> QED
      BY <2>1, EmptyArray DEF Pcis
  <2>3. ConstLeaf(FALSE) \in ScalarLeaves
    BY <2>2, ShapesAre DEF ScalarLeaves
  <2> HIDE DEF p
  <2> QED
    BY <2>2, <2>3 DEF p
<1> QED
  BY <1>1, <1>2, <1>3, <1>4, <1>5, <1>6

(* The disjunct for NULL. *)
LEMMA WithNull ==
    ASSUME NEW p \in Pcis(Datums), NEW s \in Seq(Conjunctions)
    PROVE  LET t == s \o OrIsNull(p) IN
           /\ t \in Seq(Conjunctions) /\ (t # <<>> <=> s # <<>> \/ p.null)
           /\ ScalarNull(t) <=> ScalarNull(s) \/ p.null
           /\ \A x \in Int : ScalarHolds(x, t) <=> ScalarHolds(x, s)
<1> DEFINE o == OrIsNull(p)
           t == s \o o
<1>1. CASE ~ p.null
  <2>1. o = <<>>
    BY <1>1 DEF OrIsNull
  <2>2. s \o <<>> = s
    BY ConcatEmptySeq
  <2>3. t = s
    BY <2>1, <2>2
  <2> QED
    BY <1>1, <2>3
<1>2. CASE p.null
  <2>1. o = <<<<NullTestLeaf>>>>
    BY <1>2 DEF OrIsNull
  <2>2. /\ NullTestLeaf \in ScalarLeaves /\ LeafInterval(NullTestLeaf, FALSE).null
        /\ \A x \in Int : ~ Within(x, LeafInterval(NullTestLeaf, FALSE).rngs)
    BY LeavesBuilt
  <2> DEFINE c == <<NullTestLeaf>>
  <2>3. c \in Conjunctions /\ ConjNull(c) /\ \A x \in Int : ~ ConjHolds(x, c)
    BY <2>2, OneLeaf
  <2> HIDE DEF c
  <2>4. o \in Seq(Conjunctions) /\ Len(o) = 1 /\ o[1] = c
    BY <2>1, <2>3 DEF c
  <2> HIDE DEF o
  <2>11. /\ t \in Seq(Conjunctions) /\ Len(t) = Len(s) + Len(o)
         /\ \A i \in 1 .. Len(s) + Len(o) : t[i] = IF i <= Len(s) THEN s[i] ELSE o[i - Len(s)]
    BY <2>4, ConcatProperties
  <2>12. Len(s) \in Nat
    OBVIOUS
  <2>5. /\ Len(s) \in Nat /\ t \in Seq(Conjunctions) /\ Len(t) = Len(s) + 1
        /\ \A i \in 1 .. Len(s) + 1 : t[i] = IF i <= Len(s) THEN s[i] ELSE o[i - Len(s)]
    BY <2>4, <2>11, <2>12, Zenon
  <2> HIDE DEF t
  <2>6. /\ \A i : i \in 1 .. Len(t) <=> i \in 1 .. Len(s) \/ i = Len(s) + 1
        /\ \A i \in 1 .. Len(s) : i \in 1 .. Len(s) + 1 /\ i <= Len(s)
        /\ Len(s) + 1 \in 1 .. Len(s) + 1 /\ ~ (Len(s) + 1 <= Len(s)) /\ (Len(s) + 1) - Len(s) = 1
    <3>1. \A n \in Nat : /\ \A i : i \in 1 .. n + 1 <=> i \in 1 .. n \/ i = n + 1
                         /\ \A i \in 1 .. n : i \in 1 .. n + 1 /\ i <= n
                         /\ n + 1 \in 1 .. n + 1 /\ ~ (n + 1 <= n) /\ (n + 1) - n = 1
      OBVIOUS
    <3>2. Len(t) = Len(s) + 1 /\ Len(s) \in Nat
      BY <2>5
    <3> QED
      BY <3>1, <3>2, Zenon
  <2>7. t[Len(s) + 1] = c /\ \A i \in 1 .. Len(s) : t[i] = s[i]
    BY <2>4, <2>5, <2>6, Zenon
  <2>8. ScalarNull(t)
    BY <2>3, <2>6, <2>7 DEF ScalarNull
  <2>9. \A x \in Int : ScalarHolds(x, t) <=> ScalarHolds(x, s)
    BY <2>3, <2>6, <2>7 DEF ScalarHolds
  <2>10. t # <<>>
    BY <2>5
  <2> QED
    BY <1>2, <2>5, <2>8, <2>9, <2>10 DEF t, o
<1> QED
  BY <1>1, <1>2

(* A range as a conjunction of comparisons. *)
LEMMA RangeScalarExact ==
    ASSUME NEW a, RangeOver(Datums, a), a.l # NULL \/ a.r # NULL
    PROVE  LET ls == RangeScalar(a) IN
           /\ ls \in Conjunctions /\ ~ ConjNull(ls)
           /\ \A x \in Int : ConjHolds(x, ls) <=> Holds(x, a)
<1>1. /\ a # NULL /\ a.l \in Datums \cup {NULL} /\ a.r \in Datums \cup {NULL}
      /\ a.li \in BOOLEAN /\ a.ri \in BOOLEAN
      /\ a.l # NULL /\ a.r # NULL => a.l < a.r \/ (a.l = a.r /\ a.li /\ a.ri)
  BY WellFormedFields DEF RangeOver
<1> DEFINE lc == IF a.li THEN "GEq" ELSE "G"
           rc == IF a.ri THEN "LEq" ELSE "L"
           left == CmpLeaf(lc, a.l)
           right == CmpLeaf(rc, a.r)
           point == CmpLeaf("Eq", a.l)
           isPoint == a.l # NULL /\ a.r # NULL /\ Equals(a.l, a.r) /\ a.li /\ a.ri
           one == IF a.l = NULL THEN <<>> ELSE <<left>>
           two == IF a.r = NULL THEN <<>> ELSE <<right>>
           Good(ls) == /\ ls \in Conjunctions /\ ~ ConjNull(ls)
                       /\ \A x \in Int : ConjHolds(x, ls) <=> Holds(x, a)
<1>2. RangeScalar(a) = IF isPoint THEN <<point>> ELSE one \o two
  BY DEF RangeScalar
<1>3. \A x \in Int : /\ Compare(x, "GEq", a.l) <=> x >= a.l
                     /\ Compare(x, "G", a.l) <=> x > a.l
                     /\ Compare(x, "LEq", a.r) <=> x <= a.r
                     /\ Compare(x, "L", a.r) <=> x < a.r
                     /\ Compare(x, "Eq", a.l) <=> x = a.l
  BY DEF Compare
<1>4. lc \in Comparisons /\ rc \in Comparisons /\ "Eq" \in Comparisons
  BY DEF Comparisons
<1>5. a.l # NULL => /\ left \in ScalarLeaves /\ ~ LeafInterval(left, FALSE).null
                    /\ \A x \in Int : Within(x, LeafInterval(left, FALSE).rngs) <=> Compare(x, lc, a.l)
  <2> HIDE DEF lc
  <2> QED
    BY <1>1, <1>4, LeavesBuilt
<1>6. a.r # NULL => /\ right \in ScalarLeaves /\ ~ LeafInterval(right, FALSE).null
                    /\ \A x \in Int : Within(x, LeafInterval(right, FALSE).rngs) <=> Compare(x, rc, a.r)
  <2> HIDE DEF rc
  <2> QED
    BY <1>1, <1>4, LeavesBuilt
<1>7. a.l # NULL => /\ point \in ScalarLeaves /\ ~ LeafInterval(point, FALSE).null
                    /\ \A x \in Int : Within(x, LeafInterval(point, FALSE).rngs) <=> Compare(x, "Eq", a.l)
  BY <1>1, <1>4, LeavesBuilt
<1>8. a.l # NULL => \A x \in Int : Compare(x, lc, a.l) <=> AboveLeft(x, a)
  <2>1. CASE a.li
    BY <1>1, <1>3, <2>1, PointFacts DEF AboveLeft
  <2>2. CASE ~ a.li
    BY <1>1, <1>3, <2>2, PointFacts DEF AboveLeft
  <2> QED
    BY <1>1, <2>1, <2>2
<1>9. a.r # NULL => \A x \in Int : Compare(x, rc, a.r) <=> BelowRight(x, a)
  <2>1. CASE a.ri
    BY <1>1, <1>3, <2>1, PointFacts DEF BelowRight
  <2>2. CASE ~ a.ri
    BY <1>1, <1>3, <2>2, PointFacts DEF BelowRight
  <2> QED
    BY <1>1, <2>1, <2>2
<1> HIDE DEF left, right, point, lc, rc
<1>10. CASE isPoint
  <2>1. a.l = a.r /\ a.l \in Int
    BY <1>1, <1>10, PointFacts DEF Equals
  <2>2. \A x \in Int : Holds(x, a) <=> x = a.l
    BY <1>1, <1>10, <2>1 DEF Holds, AboveLeft, BelowRight
  <2>3. Good(<<point>>)
    BY <1>3, <1>7, <1>10, <2>2, OneLeaf
  <2> HIDE DEF Good
  <2>4. RangeScalar(a) = <<point>>
    BY <1>2, <1>10
  <2>5. Good(RangeScalar(a))
    BY <2>3, <2>4
  <2> QED
    BY <2>5 DEF Good
<1>11. CASE ~ isPoint
  <2>1. RangeScalar(a) = one \o two
    BY <1>2, <1>11
  <2>2. Good(one \o two)
    <3>1. CASE a.l = NULL
      <4>1. a.r # NULL /\ one = <<>> /\ two = <<right>>
        BY <3>1
      <4>2. right \in ScalarLeaves
        BY <1>6, <4>1
      <4>3. <<right>> \in Seq(ScalarLeaves)
        BY <4>2
      <4>4. <<>> \o <<right>> = <<right>>
        BY <4>3, ConcatEmptySeq
      <4>5. Good(<<right>>)
        BY <1>1, <1>6, <1>9, <3>1, <4>1, OneLeaf DEF Holds, AboveLeft
      <4>6. one \o two = <<right>>
        BY <4>1, <4>4
      <4> HIDE DEF Good, one, two
      <4> QED
        BY <4>5, <4>6
    <3>2. CASE a.r = NULL
      <4>1. a.l # NULL /\ one = <<left>> /\ two = <<>>
        BY <3>2
      <4>2. left \in ScalarLeaves
        BY <1>5, <4>1
      <4>3. <<left>> \in Seq(ScalarLeaves)
        BY <4>2
      <4>4. <<left>> \o <<>> = <<left>>
        BY <4>3, ConcatEmptySeq
      <4>5. Good(<<left>>)
        BY <1>1, <1>5, <1>8, <3>2, <4>1, OneLeaf DEF Holds, BelowRight
      <4>6. one \o two = <<left>>
        BY <4>1, <4>4
      <4> HIDE DEF Good, one, two
      <4> QED
        BY <4>5, <4>6
    <3>3. CASE a.l # NULL /\ a.r # NULL
      <4> DEFINE s == <<left>>
                 t == <<right>>
                 u == s \o t
      <4>1. left \in ScalarLeaves /\ right \in ScalarLeaves
        BY <1>5, <1>6, <3>3
      <4>2. s \in Seq(ScalarLeaves) /\ Len(s) = 1 /\ s[1] = left
        BY <4>1
      <4>3. t \in Seq(ScalarLeaves) /\ Len(t) = 1 /\ t[1] = right
        BY <4>1
      <4>4. one = s /\ two = t
        BY <3>3
      <4> HIDE DEF s, t
      <4>5. /\ u \in Seq(ScalarLeaves) /\ Len(u) = Len(s) + Len(t)
            /\ \A i \in 1 .. Len(s) + Len(t) : u[i] = IF i <= Len(s) THEN s[i] ELSE t[i - Len(s)]
        BY <4>2, <4>3, ConcatProperties
      <4> HIDE DEF u
      <4>6. Len(u) = 2 /\ u[1] = left /\ u[2] = right
        <5>1. /\ 1 \in 1 .. 1 + 1 /\ 1 <= 1 /\ 2 \in 1 .. 1 + 1 /\ ~ (2 <= 1) /\ 2 - 1 = 1 /\ 1 + 1 = 2
          OBVIOUS
        <5>2. Len(u) = 1 + 1 /\ \A i \in 1 .. 1 + 1 : u[i] = IF i <= 1 THEN s[i] ELSE t[i - 1]
          BY <4>2, <4>3, <4>5, Zenon
        <5> QED
          BY <4>2, <4>3, <5>1, <5>2
      <4>7. \A j : j \in 1 .. Len(u) <=> j = 1 \/ j = 2
        BY <4>6
      <4>8. u # <<>>
        BY <4>6
      <4>9. u \in Conjunctions
        BY <4>5, <4>8 DEF Conjunctions
      <4>10. ~ ConjNull(u)
        BY <1>5, <3>3, <4>6, <4>7 DEF ConjNull
      <4>11. \A x \in Int : ConjHolds(x, u) <=> Holds(x, a)
        BY <1>1, <1>5, <1>6, <1>8, <1>9, <3>3, <4>6, <4>7 DEF ConjHolds, Holds
      <4>12. Good(u)
        BY <4>9, <4>10, <4>11
      <4> HIDE DEF Good, one, two
      <4> QED
        BY <4>4, <4>12 DEF u
    <3> QED
      BY <3>1, <3>2, <3>3
  <2> HIDE DEF Good, one, two
  <2>3. Good(RangeScalar(a))
    BY <2>1, <2>2
  <2> QED
    BY <2>3 DEF Good
<1> QED
  BY <1>10, <1>11

(* A scalar expression stands for the interval it was built from. *)
StandsFor(s, p) ==
    /\ s \in Seq(Conjunctions) /\ s # <<>>
    /\ ScalarNull(s) <=> p.null
    /\ \A x \in Points : ScalarHolds(x, s) <=> Within(x, p.rngs)

(* The expression with IN or NOT IN stands for an interval that holds the
   datums of the list, or all but them. *)
LEMMA SetOfDatums ==
    ASSUME NEW p \in Pcis(Datums), NEW in \in BOOLEAN, NEW S \in SUBSET Datums,
           \A x \in Int : Within(x, p.rngs) <=> (in <=> x \in S)
    PROVE  StandsFor(<<<<ArrayLeaf(in, S)>>>> \o OrIsNull(p), p)
<1> DEFINE l == ArrayLeaf(in, S)
           c == <<l>>
           s == <<c>>
           t == s \o OrIsNull(p)
<1>1. /\ l \in ScalarLeaves /\ ~ LeafInterval(l, FALSE).null
      /\ \A x \in Int : Within(x, LeafInterval(l, FALSE).rngs) <=> (in <=> x \in S)
  BY LeavesBuilt
<1> HIDE DEF l
<1>2. c \in Conjunctions /\ ~ ConjNull(c) /\ \A x \in Int : ConjHolds(x, c) <=> (in <=> x \in S)
  BY <1>1, OneLeaf
<1> HIDE DEF c
<1>3. s \in Seq(Conjunctions) /\ s # <<>> /\ ~ ScalarNull(s) /\ \A x \in Int : ScalarHolds(x, s) <=> (in <=> x \in S)
  BY <1>2, OneDisjunct
<1> HIDE DEF s
<1>4. /\ t \in Seq(Conjunctions) /\ (t # <<>> <=> s # <<>> \/ p.null)
      /\ ScalarNull(t) <=> ScalarNull(s) \/ p.null
      /\ \A x \in Int : ScalarHolds(x, t) <=> ScalarHolds(x, s)
  BY <1>3, WithNull
<1> HIDE DEF t
<1>5. StandsFor(t, p)
  BY <1>3, <1>4, PointFacts DEF StandsFor
<1> QED
  BY <1>5 DEF t, s, c, l

(* The points of the array are the datums of the list. *)
LEMMA InStandsFor ==
    ASSUME NEW p \in Pcis(Datums), FConvertsToIn(p)
    PROVE  StandsFor(PexprConstructArrayScalar(p, TRUE), p)
<1> DEFINE rs == p.rngs
           n == Len(rs)
           S == {rs[i].r : i \in 1 .. n}
<1>1. rs \in Arrays(Datums)
  BY DEF Pcis
<1>2. \A i \in 1 .. n : RangeOver(Datums, rs[i]) /\ FPoint(rs[i])
  BY <1>1, ArrayFacts DEF FConvertsToIn
<1>3. \A a : RangeOver(Datums, a) /\ FPoint(a) =>
         a.r \in Datums /\ \A x \in Int : Holds(x, a) <=> x = a.r
  <2> SUFFICES ASSUME NEW a, RangeOver(Datums, a), FPoint(a)
               PROVE  a.r \in Datums /\ \A x \in Int : Holds(x, a) <=> x = a.r
    OBVIOUS
  <2>1. /\ a # NULL /\ a.li /\ a.ri /\ a.l # NULL /\ a.r # NULL
        /\ a.l \in Datums /\ a.r \in Datums
    BY WellFormedFields DEF RangeOver, FPoint
  <2>2. a.l \in Int /\ a.r \in Int
    BY <2>1, PointFacts
  <2>3. a.l = a.r
    BY <2>2 DEF FPoint, Equals
  <2> QED
    BY <2>1, <2>2, <2>3 DEF Holds, AboveLeft, BelowRight
<1>4. S \in SUBSET Datums
  BY <1>2, <1>3
<1>5. \A x \in Int : Within(x, rs) <=> x \in S
  BY <1>2, <1>3 DEF Within
<1>6. PexprConstructArrayScalar(p, TRUE) = <<<<ArrayLeaf(TRUE, S)>>>> \o OrIsNull(p)
  BY DEF PexprConstructArrayScalar
<1> HIDE DEF S
<1>7. StandsFor(<<<<ArrayLeaf(TRUE, S)>>>> \o OrIsNull(p), p)
  BY <1>4, <1>5, SetOfDatums
<1> QED
  BY <1>6, <1>7

(* The ranges of the array are all that is between the datums of the list. *)
LEMMA NotInStandsFor ==
    ASSUME NEW p \in Pcis(Datums), FConvertsToNotIn(p)
    PROVE  StandsFor(PexprConstructArrayScalar(p, FALSE), p)
<1> DEFINE rs == p.rngs
           n == Len(rs)
           S == {rs[i].r : i \in 1 .. n - 1}
<1>1. rs \in Arrays(Datums)
  BY DEF Pcis
<1>2. /\ n \in Nat
      /\ \A i \in 1 .. n : RangeOver(Datums, rs[i]) /\ rs[i] # NULL
      /\ \A i \in 1 .. n - 1 : Apart(rs[i], rs[i + 1])
  BY <1>1, ArrayFacts, WellFormedFields DEF RangeOver
<1>3. /\ n > 1 /\ rs[1].l = NULL /\ rs[n].r = NULL
      /\ \A i \in 2 .. n : /\ ~ rs[i - 1].ri /\ ~ rs[i].li
                           /\ FUpperBoundEqualsLowerBound(rs[i - 1], rs[i])
  BY DEF FConvertsToNotIn
<1>4. \A i \in 1 .. n - 1 : i \in 1 .. n /\ i + 1 \in 1 .. n /\ i + 1 \in 2 .. n /\ (i + 1) - 1 = i /\ i < i + 1
  BY <1>2
<1> HIDE DEF n, rs
<1>5. \A i \in 1 .. n - 1 : /\ rs[i].r \in Datums /\ rs[i].r \in Int /\ rs[i + 1].l = rs[i].r
                            /\ rs[i].r # NULL
                            /\ ~ rs[i].ri /\ ~ rs[i + 1].li
  <2> SUFFICES ASSUME NEW i \in 1 .. n - 1
               PROVE  /\ rs[i].r \in Datums /\ rs[i].r \in Int /\ rs[i + 1].l = rs[i].r
                      /\ rs[i].r # NULL
                      /\ ~ rs[i].ri /\ ~ rs[i + 1].li
    OBVIOUS
  <2>1. rs[i].r # NULL /\ rs[i + 1].l # NULL
    BY <1>2 DEF Apart
  <2>2. rs[i].r \in Datums /\ rs[i + 1].l \in Datums
    BY <1>2, <1>4, <2>1 DEF RangeOver
  <2>3. ~ rs[i].ri /\ ~ rs[i + 1].li /\ FUpperBoundEqualsLowerBound(rs[i], rs[i + 1])
    BY <1>3, <1>4
  <2>4. rs[i].r \in Int /\ rs[i + 1].l \in Int
    BY <2>2, PointFacts
  <2>5. rs[i + 1].l = rs[i].r
    BY <2>1, <2>3, <2>4 DEF FUpperBoundEqualsLowerBound, Equals
  <2> QED
    BY <2>1, <2>2, <2>3, <2>4, <2>5
<1>6. S \in SUBSET Datums
  BY <1>5
<1>7. ASSUME NEW x \in Int, x \in S PROVE ~ Within(x, rs)
  <2>1. PICK j \in 1 .. n - 1 : x = rs[j].r
    BY <1>7
  <2>2. ~ BelowRight(x, rs[j]) /\ ~ AboveLeft(x, rs[j + 1])
    <3>1. rs[j].r = x /\ rs[j + 1].l = x /\ x # NULL /\ ~ rs[j].ri /\ ~ rs[j + 1].li
      BY <1>5, <2>1
    <3> QED
      BY <3>1 DEF BelowRight, AboveLeft
  <2> SUFFICES ASSUME Within(x, rs) PROVE FALSE
    OBVIOUS
  <2>3. PICK m \in 1 .. n : AboveLeft(x, rs[m]) /\ BelowRight(x, rs[m])
    BY DEF Within, Holds, n
  <2>4. j \in 1 .. n /\ j + 1 \in 1 .. n
    BY <1>4
  <2>5. m < j \/ m = j \/ m = j + 1 \/ j + 1 < m
    BY <1>2
  <2>6. m < j => BelowRight(x, rs[j])
    BY <1>1, <2>3, <2>4, ArrayOrder DEF n
  <2>7. j + 1 < m => AboveLeft(x, rs[j + 1])
    BY <1>1, <2>3, <2>4, ArrayOrder DEF n
  <2> QED
    BY <2>2, <2>3, <2>5, <2>6, <2>7
<1>8. ASSUME NEW x \in Int, x \notin S PROVE Within(x, rs)
  <2> DEFINE T == {i \in 1 .. n : i = n \/ (i \in 1 .. n - 1 /\ x < rs[i].r)}
  <2>1. T \subseteq Nat /\ n \in T
    BY <1>2, <1>3
  <2>2. PICK i \in T : \A j \in T : i <= j
    <3> HIDE DEF T
    <3> QED
      BY <2>1, LeastNatural
  <2>3. i \in 1 .. n
    OBVIOUS
  <2>4. BelowRight(x, rs[i])
    <3>1. CASE i = n
      BY <1>3, <3>1 DEF BelowRight
    <3>2. CASE i \in 1 .. n - 1 /\ x < rs[i].r
      BY <3>2 DEF BelowRight
    <3> QED
      BY <3>1, <3>2
  <2>5. AboveLeft(x, rs[i])
    <3>1. CASE i = 1
      BY <1>3, <3>1 DEF AboveLeft
    <3>2. CASE i # 1
      <4>1. i - 1 \in 1 .. n - 1 /\ i - 1 \in 1 .. n /\ (i - 1) + 1 = i /\ ~ (i <= i - 1)
        BY <1>2, <2>3, <3>2
      <4>2. rs[i].l = rs[i - 1].r /\ rs[i - 1].r \in Int
        BY <1>5, <4>1
      <4>3. ~ (x < rs[i - 1].r)
        BY <2>2, <4>1
      <4>4. x # rs[i - 1].r
        BY <1>8, <4>1
      <4> QED
        BY <4>2, <4>3, <4>4 DEF AboveLeft
    <3> QED
      BY <3>1, <3>2
  <2> QED
    BY <1>2, <2>3, <2>4, <2>5 DEF Within, Holds, n
<1>9. PexprConstructArrayScalar(p, FALSE) = <<<<ArrayLeaf(FALSE, S)>>>> \o OrIsNull(p)
  BY DEF PexprConstructArrayScalar, n, rs
<1>10. \A x \in Int : Within(x, p.rngs) <=> (FALSE <=> x \in S)
  BY <1>7, <1>8 DEF rs
<1> HIDE DEF S
<1>11. StandsFor(<<<<ArrayLeaf(FALSE, S)>>>> \o OrIsNull(p), p)
  BY <1>6, <1>10, SetOfDatums
<1> QED
  BY <1>9, <1>11

(* One disjunct for every range. *)
LEMMA DisjunctionStandsFor ==
    ASSUME NEW p \in Pcis(Datums), ~ FContradiction(p)
    PROVE  StandsFor(PexprConstructDisjunctionScalar(p), p)
<1> DEFINE rs == p.rngs
           n == Len(rs)
           whole == n = 1 /\ RangeScalar(rs[1]) = <<>>
           s == [i \in 1 .. n |-> RangeScalar(rs[i])]
<1>1. rs \in Arrays(Datums) /\ p.null \in BOOLEAN
  BY DEF Pcis
<1>2. /\ n \in Nat
      /\ \A i \in 1 .. n : RangeOver(Datums, rs[i]) /\ rs[i] # NULL
  BY <1>1, ArrayFacts, WellFormedFields DEF RangeOver
<1>3. PexprConstructDisjunctionScalar(p) =
         IF whole THEN IF p.null THEN <<<<ConstLeaf(TRUE)>>>>
                       ELSE <<<<Leaf("IDF", "NEq", {NULL}, Points, {})>>>>
         ELSE s \o OrIsNull(p)
  BY DEF PexprConstructDisjunctionScalar
<1> HIDE DEF n
<1>4. CASE whole
  <2>1. 1 \in 1 .. n
    BY <1>4
  <2>2. rs[1].l = NULL /\ rs[1].r = NULL
    <3> SUFFICES ASSUME rs[1].l # NULL \/ rs[1].r # NULL PROVE FALSE
      OBVIOUS
    <3>1. RangeScalar(rs[1]) \in Conjunctions
      BY <1>2, <2>1, RangeScalarExact
    <3> QED
      BY <1>4, <3>1 DEF Conjunctions
  <2>3. \A x \in Int : Within(x, rs)
    BY <1>2, <2>1, <2>2 DEF Within, Holds, AboveLeft, BelowRight, n
  <2>4. CASE p.null
    <3> DEFINE l == ConstLeaf(TRUE)
               c == <<l>>
    <3>1. /\ l \in ScalarLeaves /\ LeafInterval(l, FALSE).null
          /\ \A x \in Int : Within(x, LeafInterval(l, FALSE).rngs)
      BY LeavesBuilt
    <3> HIDE DEF l
    <3>2. c \in Conjunctions /\ ConjNull(c) /\ \A x \in Int : ConjHolds(x, c)
      BY <3>1, OneLeaf
    <3> HIDE DEF c
    <3>3. StandsFor(<<c>>, p)
      BY <2>3, <2>4, <3>2, OneDisjunct, PointFacts DEF StandsFor
    <3> QED
      BY <1>3, <1>4, <2>4, <3>3 DEF c, l
  <2>5. CASE ~ p.null
    <3> DEFINE l == IdfLeaf(NULL)
               c == <<l>>
    <3>1. /\ l \in ScalarLeaves /\ ~ LeafInterval(l, FALSE).null
          /\ \A x \in Int : Within(x, LeafInterval(l, FALSE).rngs)
      BY LeavesBuilt
    <3>2. l = Leaf("IDF", "NEq", {NULL}, Points, {})
      <4>1. (Points \cup {NULL}) \ {NULL} = Points
        BY PointFacts
      <4> QED
        BY <4>1 DEF IdfLeaf
    <3> HIDE DEF l
    <3>3. c \in Conjunctions /\ ~ ConjNull(c) /\ \A x \in Int : ConjHolds(x, c)
      BY <3>1, OneLeaf
    <3> HIDE DEF c
    <3>4. StandsFor(<<c>>, p)
      BY <2>3, <2>5, <3>3, OneDisjunct, PointFacts DEF StandsFor
    <3>5. PexprConstructDisjunctionScalar(p) = <<c>>
      BY <1>3, <1>4, <2>5, <3>2 DEF c
    <3> QED
      BY <3>4, <3>5
  <2> QED
    BY <2>4, <2>5
<1>5. CASE ~ whole
  <2>1. \A i \in 1 .. n : rs[i].l # NULL \/ rs[i].r # NULL
    <3> SUFFICES ASSUME NEW i \in 1 .. n, rs[i].l = NULL, rs[i].r = NULL PROVE FALSE
      OBVIOUS
    <3>1. CASE n = 1
      <4>1. i = 1
        BY <3>1
      <4>2. ~ (rs[1].l # NULL) /\ ~ (rs[1].r # NULL)
        BY <4>1
      <4>3. RangeScalar(rs[1]) = <<>> \o <<>>
        BY <4>2 DEF RangeScalar
      <4>4. <<>> \o <<>> = <<>>
        BY <1>1, ConcatEmptySeq
      <4> QED
        BY <1>5, <3>1, <4>3, <4>4
    <3>2. CASE n # 1
      <4>1. i \in 1 .. n - 1 \/ (i - 1 \in 1 .. n - 1 /\ (i - 1) + 1 = i)
        BY <1>2, <3>2
      <4>2. \A k \in 1 .. n - 1 : Apart(rs[k], rs[k + 1])
        BY <1>1, ArrayFacts DEF n
      <4>3. CASE i \in 1 .. n - 1
        BY <4>2, <4>3 DEF Apart
      <4>4. CASE i - 1 \in 1 .. n - 1 /\ (i - 1) + 1 = i
        <5>1. Apart(rs[i - 1], rs[(i - 1) + 1])
          BY <4>2, <4>4
        <5> QED
          BY <4>4, <5>1 DEF Apart
      <4> QED
        BY <4>1, <4>3, <4>4
    <3> QED
      BY <3>1, <3>2
  <2>2. \A i \in 1 .. n : /\ RangeScalar(rs[i]) \in Conjunctions /\ ~ ConjNull(RangeScalar(rs[i]))
                          /\ \A x \in Int : ConjHolds(x, RangeScalar(rs[i])) <=> Holds(x, rs[i])
    BY <1>2, <2>1, RangeScalarExact
  <2>3. s \in [1 .. n -> Conjunctions] /\ \A i \in 1 .. n : s[i] = RangeScalar(rs[i])
    BY <2>2
  <2> HIDE DEF s
  <2>4. s \in Seq(Conjunctions) /\ Len(s) = n
    BY <1>2, <2>3
  <2>5. ~ ScalarNull(s)
    BY <2>2, <2>3, <2>4 DEF ScalarNull
  <2>6. \A x \in Int : ScalarHolds(x, s) <=> Within(x, rs)
    BY <2>2, <2>3, <2>4 DEF ScalarHolds, Within, n
  <2> DEFINE t == s \o OrIsNull(p)
  <2>7. /\ t \in Seq(Conjunctions) /\ (t # <<>> <=> s # <<>> \/ p.null)
        /\ ScalarNull(t) <=> ScalarNull(s) \/ p.null
        /\ \A x \in Int : ScalarHolds(x, t) <=> ScalarHolds(x, s)
    BY <2>4, WithNull
  <2> HIDE DEF t
  <2>8. s # <<>> \/ p.null
    <3>1. p.null \/ rs # <<>>
      BY DEF FContradiction
    <3>2. rs # <<>> => n # 0
      BY <1>1, ArrayFacts DEF n
    <3>3. s = <<>> => n = 0
      BY <2>4
    <3> QED
      BY <3>1, <3>2, <3>3
  <2>9. StandsFor(t, p)
    BY <2>5, <2>6, <2>7, <2>8, PointFacts DEF StandsFor
  <2>10. PexprConstructDisjunctionScalar(p) = t
    BY <1>3, <1>5 DEF t
  <2> QED
    BY <2>9, <2>10
<1> QED
  BY <1>4, <1>5

(* PexprConstructScalar: the expression stands for the interval, with and
   without array constraints. *)
LEMMA ConstructStandsFor ==
    ASSUME NEW p \in Pcis(Datums), NEW arrays \in BOOLEAN
    PROVE  StandsFor(PexprConstructScalar(p, arrays), p)
<1>1. CASE FContradiction(p)
  <2> DEFINE l == ConstLeaf(FALSE)
             c == <<l>>
  <2>1. /\ l \in ScalarLeaves /\ ~ LeafInterval(l, FALSE).null
        /\ \A x \in Int : ~ Within(x, LeafInterval(l, FALSE).rngs)
    BY LeavesBuilt
  <2> HIDE DEF l
  <2>2. c \in Conjunctions /\ ~ ConjNull(c) /\ \A x \in Int : ~ ConjHolds(x, c)
    BY <2>1, OneLeaf
  <2> HIDE DEF c
  <2>3. ~ p.null /\ \A x \in Int : ~ Within(x, p.rngs)
    BY <1>1, EmptyArray DEF FContradiction
  <2>4. StandsFor(<<c>>, p)
    BY <2>2, <2>3, OneDisjunct, PointFacts DEF StandsFor
  <2> QED
    BY <1>1, <2>4 DEF PexprConstructScalar, c, l
<1>2. CASE ~ FContradiction(p) /\ arrays /\ FConvertsToIn(p)
  BY <1>2, InStandsFor DEF PexprConstructScalar
<1>3. CASE ~ FContradiction(p) /\ ~ (arrays /\ FConvertsToIn(p)) /\ arrays /\ FConvertsToNotIn(p)
  BY <1>3, NotInStandsFor DEF PexprConstructScalar
<1>4. CASE ~ FContradiction(p) /\ ~ (arrays /\ FConvertsToIn(p)) /\ ~ (arrays /\ FConvertsToNotIn(p))
  BY <1>4, DisjunctionStandsFor DEF PexprConstructScalar
<1> QED
  BY <1>1, <1>2, <1>3, <1>4

(* The scalar expression built from an interval has that interval again
   (CConstraintInterval::PexprConstructScalar). *)
THEOREM RoundTripExact ==
    ASSUME NEW p \in Pcis(Datums), NEW arrays \in BOOLEAN
    PROVE  PciIntervalFromConstraint(PexprConstructScalar(p, arrays)) = p
<1> DEFINE s == PexprConstructScalar(p, arrays)
           t == PciIntervalFromConstraint(s)
<1>1. StandsFor(s, p)
  BY ConstructStandsFor
<1> HIDE DEF s
<1>2. /\ t \in Pcis(Datums) /\ (t.null <=> ScalarNull(s))
      /\ \A x \in Int : Within(x, t.rngs) <=> ScalarHolds(x, s)
  BY <1>1, ScalarExact DEF StandsFor
<1> HIDE DEF t
<1>3. \A x \in Points : Within(x, t.rngs) <=> Within(x, p.rngs)
  BY <1>1, <1>2, PointFacts DEF StandsFor
<1>4. t.rngs \in Arrays(Datums) /\ p.rngs \in Arrays(Datums) /\ t.null \in BOOLEAN /\ p.null \in BOOLEAN
  BY <1>2 DEF Pcis
<1>5. t.rngs = p.rngs
  BY <1>3, <1>4, CanonicalForm
<1>6. t.null = p.null
  BY <1>1, <1>2, <1>4 DEF StandsFor
<1>7. t = [rngs |-> t.rngs, null |-> t.null] /\ p = [rngs |-> p.rngs, null |-> p.null]
  BY <1>2 DEF Pcis
<1>8. t = p
  BY <1>5, <1>6, <1>7
<1> QED
  BY <1>8 DEF t, s

(* PexprConstructScalar and PciIntervalFromScalarExpr after it give back the
   interval of every argument. *)
THEOREM RoundTripInvariant == Spec => []ScalarRoundTrip
<1>1. IntervalStrong => ScalarRoundTrip
  <2> SUFFICES ASSUME IntervalStrong, NEW i \in Intervals, NEW arrays \in BOOLEAN
               PROVE  PciIntervalFromConstraint(PexprConstructScalar(args[i].pci, arrays)) = args[i].pci
    BY DEF ScalarRoundTrip
  <2>1. args[i].pci \in Pcis(Datums)
    BY IntervalsAre
  <2> QED
    BY <2>1, RoundTripExact
<1> QED
  BY <1>1, StrongAlways, PTL
================================================================================
