------------------------ MODULE DuplicateGroups_proofs ------------------------
(***************************************************************************)
(* For every query, every set of transformation results and every order of *)
(* steps: the links between duplicate groups ascend, the hash table is     *)
(* current whenever a transformation looks an expression up, and GroupMerge*)
(* leaves no marked group with expressions and merges exactly the groups   *)
(* that the marks and the expressions they share make equal; FResetStats   *)
(* leaves just the statistics that are not stale.                          *)
(*                                                                         *)
(* The first needs LinkInv only.  The next two need CurrentInv: every chain*)
(* of links ends in a group whose class still holds expressions, a pass of *)
(* GroupMerge leaves the groups it is past settled, and while exploring    *)
(* only groups with expressions get new links, so that no hash value       *)
(* changes under an expression that is in the table.                       *)
(*                                                                         *)
(* Exactness needs PairsInv too, which is about all equivalences of groups:*)
(* every congruence that has the marks has the links, and every equivalence*)
(* that has the links has the marks and accounts for each expression that  *)
(* was moved or hidden.  Having the same master is such a congruence when  *)
(* GroupMerge is done, and the least one.                                  *)
(*                                                                         *)
(* Resetting needs CallInv, which is about the calls of FResetStats on the *)
(* stack: a group that lost its statistics is not clean, that is, not in   *)
(* the largest set of groups that is closed and has nothing stale in it;   *)
(* and the groups for which a call has returned, with those on the stack,  *)
(* are closed under what FResetStats visits.                               *)
(***************************************************************************)
EXTENDS DuplicateGroups, FiniteSetTheorems, WellFoundedInduction, TLAPS
-----------------------------------------------------------------------------
(* A set of natural numbers that has an element has a least one. *)
LEMMA LeastNatural ==
    ASSUME NEW T, T \subseteq Nat, T # {}
    PROVE  \E x \in T : \A y \in T : x <= y
<1> DEFINE R == {ss \in Nat \X Nat : ss[1] < ss[2]}
<1>1. IsWellFoundedOn(R, Nat)
  BY ONLY NatLessThanWellFounded DEF OpToRel
<1>2. PICK x \in T : \A y \in T : ~ (<<y, x>> \in R)
  BY <1>1, WFMin
<1>3. ASSUME NEW y \in T  PROVE x <= y
  <2>1. x \in Nat /\ y \in Nat /\ <<y, x>> \in Nat \X Nat
    OBVIOUS
  <2>2. ~ (y < x)
    BY <1>2, <2>1
  <2> QED
    BY <2>1, <2>2
<1> QED
  BY <1>3

(* Induction over the numbers in a set. *)
LEMMA NaturalSteps ==
    ASSUME NEW G, 0 \in G, \A n \in Nat : n \in G => n + 1 \in G
    PROVE  Nat \subseteq G
<1> DEFINE T == Nat \ G
<1> SUFFICES ASSUME T # {} PROVE FALSE
  OBVIOUS
<1>1. PICK m \in T : \A y \in T : m <= y
  BY LeastNatural
<1>2. m \in Nat /\ m # 0 /\ m \notin G
  BY <1>1
<1>3. m - 1 \in Nat /\ m - 1 \notin T
  <2>1. m - 1 \in T => m <= m - 1
    BY <1>1
  <2> QED
    BY <1>2, <2>1
<1>4. m - 1 \in G
  BY <1>3
<1>5. (m - 1) + 1 \in G
  BY <1>3, <1>4
<1> QED
  BY <1>2, <1>5

(* A function on S can be iterated from every element of S. *)
IsMap(F, S) == F \in [S -> S]
Iterates(h, S, F, s) ==
    h \in [Nat -> S] /\ h[0] = s /\ \A n \in Nat : h[n + 1] = F[h[n]]

(* The iteration is defined step by step, so an initial part of it exists for
   every number of steps, and all of it. *)
LEMMA IterationExists ==
    ASSUME NEW S, NEW F, IsMap(F, S), NEW s \in S
    PROVE  \E h : Iterates(h, S, F, s)
<1>0. F \in [S -> S]
  BY DEF IsMap
<1> DEFINE Upto(n) == {h \in [Nat -> S] : h[0] = s /\ \A i \in Nat : i < n => h[i + 1] = F[h[i]]}
           G == {n \in Nat : Upto(n) # {}}
<1>1. 0 \in G
  <2> DEFINE h == [n \in Nat |-> s]
  <2>1. h \in Upto(0)
    BY <1>0
  <2> HIDE DEF Upto, h
  <2> QED
    BY <2>1
<1>2. ASSUME NEW n \in Nat, n \in G PROVE n + 1 \in G
  <2>1. PICK h \in Upto(n) : TRUE
    BY <1>2
  <2>2. h \in [Nat -> S] /\ h[0] = s /\ \A i \in Nat : i < n => h[i + 1] = F[h[i]]
    BY <2>1
  <2> DEFINE k == [i \in Nat |-> IF i = n + 1 THEN F[h[n]] ELSE h[i]]
  <2>3. k \in [Nat -> S] /\ k[0] = s
    BY <1>0, <2>2
  <2>4. ASSUME NEW i \in Nat, i < n + 1 PROVE k[i + 1] = F[k[i]]
    <3>1. k[i] = h[i] /\ i <= n
      BY <2>4
    <3>2. CASE i = n
      BY <3>1, <3>2
    <3>3. CASE i < n
      BY <2>2, <3>1, <3>3
    <3> QED
      BY <3>1, <3>2, <3>3
  <2>5. k \in Upto(n + 1)
    BY <2>3, <2>4
  <2> HIDE DEF Upto, k
  <2> QED
    BY <2>5
<1>3. \A n \in Nat : Upto(n) # {}
  BY <1>1, <1>2, NaturalSteps
<1> DEFINE pick == [n \in Nat |-> CHOOSE h \in Upto(n) : TRUE]
<1>4. \A n \in Nat : pick[n] \in Upto(n)
  BY <1>3
<1> HIDE DEF pick
<1>5. \A n \in Nat : /\ pick[n] \in [Nat -> S] /\ pick[n][0] = s
                     /\ \A i \in Nat : i < n => pick[n][i + 1] = F[pick[n][i]]
  BY <1>4
<1>6. \A i \in Nat : \A n \in Nat : i <= n => pick[n][i] = pick[i][i]
  <2> DEFINE A == {i \in Nat : \A n \in Nat, m \in Nat : i <= n /\ i <= m => pick[n][i] = pick[m][i]}
  <2>1. 0 \in A
    BY <1>5
  <2>2. ASSUME NEW i \in Nat, i \in A PROVE i + 1 \in A
    <3> SUFFICES ASSUME NEW n \in Nat, NEW m \in Nat, i + 1 <= n, i + 1 <= m
                 PROVE  pick[n][i + 1] = pick[m][i + 1]
      OBVIOUS
    <3>1. i < n /\ i < m /\ i <= n /\ i <= m
      OBVIOUS
    <3>2. pick[n][i] = pick[m][i]
      BY <2>2, <3>1
    <3> QED
      BY <1>5, <3>1, <3>2
  <2>3. Nat \subseteq A
    BY <2>1, <2>2, NaturalSteps
  <2> QED
    BY <2>3
<1> DEFINE h == [n \in Nat |-> pick[n][n]]
<1>7. h \in [Nat -> S] /\ h[0] = s
  BY <1>5
<1>8. ASSUME NEW n \in Nat PROVE h[n + 1] = F[h[n]]
  <2>1. n < n + 1 /\ n <= n + 1 /\ n + 1 \in Nat
    OBVIOUS
  <2>2. h[n + 1] = pick[n + 1][n + 1] /\ h[n] = pick[n][n]
    BY <2>1
  <2>3. pick[n + 1][n + 1] = F[pick[n + 1][n]]
    BY <1>5, <2>1
  <2>4. pick[n + 1][n] = pick[n][n]
    BY <1>6, <2>1
  <2> QED
    BY <2>2, <2>3, <2>4
<1> HIDE DEF h
<1> QED
  BY <1>7, <1>8 DEF Iterates

(* What is true of the start and kept by each iteration is true of the iterates. *)
LEMMA IterationKeeps ==
    ASSUME NEW S, NEW F \in [S -> S], NEW s \in S, NEW h,
           h[0] = s, \A n \in Nat : h[n] \in S => h[n + 1] = F[h[n]]
    PROVE  \A n \in Nat : h[n] \in S /\ h[n + 1] = F[h[n]]
<1> DEFINE G == {n \in Nat : h[n] \in S}
<1>1. 0 \in G
  OBVIOUS
<1>2. \A n \in Nat : n \in G => n + 1 \in G
  OBVIOUS
<1>3. Nat \subseteq G
  BY <1>1, <1>2, NaturalSteps
<1> QED
  BY <1>3

(* A measure that each iteration decreases bounds the number of iterations. *)
LEMMA IterationEnds ==
    ASSUME NEW S, NEW F \in [S -> S], NEW h,
           \A n \in Nat : h[n] \in S /\ h[n + 1] = F[h[n]],
           NEW m \in [S -> Nat], \A s \in S : F[s] # s => m[F[s]] < m[s],
           NEW k \in Nat, m[h[0]] <= k
    PROVE  h[k] \in S /\ F[h[k]] = h[k]
<1> DEFINE G == {n \in Nat : F[h[n]] = h[n] \/ m[h[n]] + n <= k}
<1>1. 0 \in G
  OBVIOUS
<1>2. ASSUME NEW n \in Nat, n \in G PROVE n + 1 \in G
  <2>1. h[n] \in S /\ h[n + 1] \in S /\ h[n + 1] = F[h[n]]
    OBVIOUS
  <2>2. CASE F[h[n]] = h[n]
    BY <2>1, <2>2
  <2>3. CASE F[h[n]] # h[n]
    <3>1. m[h[n]] \in Nat /\ m[h[n + 1]] \in Nat /\ m[h[n + 1]] < m[h[n]] /\ m[h[n]] + n <= k
      BY <1>2, <2>1, <2>3
    <3>2. m[h[n + 1]] + (n + 1) <= k
      BY <3>1
    <3> QED
      BY <3>2
  <2> QED
    BY <2>2, <2>3
<1>3. k \in G
  BY <1>1, <1>2, NaturalSteps
<1>4. h[k] \in S /\ F[h[k]] \in S
  OBVIOUS
<1>5. CASE m[h[k]] + k <= k
  <2>1. m[h[k]] \in Nat /\ m[F[h[k]]] \in Nat
    BY <1>4
  <2>2. ~ (m[F[h[k]]] < m[h[k]])
    BY <1>5, <2>1
  <2> QED
    BY <1>4, <2>2
<1> QED
  BY <1>3, <1>4, <1>5

(* A set that grows within a finite one until it stops. *)
LEMMA GrowthEnds ==
    ASSUME NEW U, IsFiniteSet(U), NEW S, S \subseteq SUBSET U, NEW F, IsMap(F, S),
           \A R \in S : R \subseteq F[R],
           NEW h, h[0] \in S, \A n \in Nat : h[n] \in S => h[n + 1] = F[h[n]],
           NEW K \in Nat, Cardinality(U) <= K
    PROVE  h[K] \in S /\ F[h[K]] = h[K]
<1>0. F \in [S -> S]
  BY DEF IsMap
<1>1. Cardinality(U) \in Nat
  BY FS_CardinalityType
<1>2. ASSUME NEW R \in S
      PROVE  /\ Cardinality(R) \in Nat /\ Cardinality(R) <= Cardinality(U)
             /\ F[R] # R => Cardinality(R) < Cardinality(F[R])
             /\ F[R] \in S
  <2>1. F[R] \in S /\ R \subseteq F[R] /\ R \in SUBSET U /\ F[R] \in SUBSET U
    BY <1>0
  <2>2. /\ IsFiniteSet(F[R]) /\ Cardinality(F[R]) \in Nat
    BY <2>1, FS_Subset, FS_CardinalityType
  <2>3. Cardinality(R) \in Nat /\ Cardinality(R) <= Cardinality(U)
    BY <2>1, FS_Subset, FS_CardinalityType
  <2>4. R \in SUBSET F[R]
    BY <2>1
  <2>5. Cardinality(R) <= Cardinality(F[R]) /\ (Cardinality(R) = Cardinality(F[R]) => R = F[R])
    BY <2>2, <2>4, FS_Subset
  <2> QED
    BY <2>1, <2>2, <2>3, <2>5
<1> DEFINE m == [R \in S |-> Cardinality(U) - Cardinality(R)]
<1>3. m \in [S -> Nat]
  BY <1>1, <1>2
<1>4. ASSUME NEW R \in S, F[R] # R PROVE m[F[R]] < m[R]
  <2>1. /\ Cardinality(R) \in Nat /\ Cardinality(R) < Cardinality(F[R]) /\ F[R] \in S
    BY <1>2, <1>4
  <2>2. Cardinality(F[R]) \in Nat
    BY <1>2, <2>1
  <2>3. m[F[R]] = Cardinality(U) - Cardinality(F[R]) /\ m[R] = Cardinality(U) - Cardinality(R)
    BY <2>1
  <2> QED
    BY <1>1, <2>1, <2>2, <2>3
<1>5. m[h[0]] <= K
  <2>1. Cardinality(h[0]) \in Nat /\ m[h[0]] = Cardinality(U) - Cardinality(h[0])
    BY <1>2
  <2> QED
    BY <1>1, <2>1
<1> HIDE DEF m
<1>6. \A n \in Nat : h[n] \in S /\ h[n + 1] = F[h[n]]
  BY <1>0, IterationKeeps
<1>7. \A R \in S : F[R] # R => m[F[R]] < m[R]
  BY <1>4
<1> QED
  BY ONLY <1>0, <1>3, <1>5, <1>6, <1>7, IterationEnds, K \in Nat

(* The recursive definition of the iterates of a function. *)
LEMMA RecursionExists ==
    ASSUME NEW S, NEW F, IsMap(F, S), NEW s \in S
    PROVE  \E g : /\ g \in [Nat -> S]
                  /\ g = [n \in Nat |-> IF n = 0 THEN s ELSE F[g[n - 1]]]
<1>1. PICK g : g \in [Nat -> S] /\ g[0] = s /\ \A n \in Nat : g[n + 1] = F[g[n]]
  BY IterationExists DEF Iterates
<1>2. ASSUME NEW n \in Nat, n # 0 PROVE g[n] = F[g[n - 1]]
  <2>1. n - 1 \in Nat /\ (n - 1) + 1 = n
    BY <1>2
  <2> QED
    BY <1>1, <2>1
<1>3. g = [n \in Nat |-> g[n]] /\ \A n \in Nat : g[n] = IF n = 0 THEN s ELSE F[g[n - 1]]
  BY <1>1, <1>2
<1>4. [n \in Nat |-> g[n]] = [n \in Nat |-> IF n = 0 THEN s ELSE F[g[n - 1]]]
  BY ONLY <1>3
<1> QED
  BY <1>1, <1>3, <1>4
-----------------------------------------------------------------------------

(* The shape of the memo that the argument needs. *)
ShapeInv ==
    /\ dup \in Seq(Nat)
    /\ grp \in Seq(Nat)
    /\ \A i \in DOMAIN grp : grp[i] \in 1..Len(dup)
    /\ \A g \in 1..Len(dup) : dup[g] \in 0..Len(dup)
    /\ cursor \in 0..Len(dup)
    /\ toRehash \subseteq DOMAIN grp

(* What AddDuplicateGrp and ResolveDuplicateMaster hold in their locals: the
   source of a link is below its destination, and a walk is above the group
   it resolves. *)
LocalsInv ==
    /\ pc = "link" => /\ src \in 1..Len(dup) /\ dst \in 1..Len(dup) /\ src < dst
                      /\ target = 0
    /\ pc \in {"link", "resolve"} => toResolve \in Seq(1..Len(dup))
    /\ pc = "resolve" /\ target # 0 =>
         toResolve # <<>> /\ target \in 1..Len(dup) /\ Head(toResolve) < target
    /\ ret \in {"explore", "rehash", "move"}
    /\ pc = "link" => ret # "move"
    /\ pc = "move" \/ (pc = "resolve" /\ ret = "move") => cursor # 0 /\ dup[cursor] # 0

LinkInv == ShapeInv /\ LocalsInv /\ LinksAscend

LEMMA LinkInit == Init => LinkInv
<1> SUFFICES ASSUME Init PROVE LinkInv
  OBVIOUS
<1> DEFINE n == Len(Query)
<1>1. n \in Nat
  BY QueryAssumption DEF QueryAssumption
<1> HIDE DEF n
<1>2. dup = [i \in 1..n |-> 0] /\ grp = [i \in 1..n |-> i]
  BY DEF Init, n
<1>3. dup \in Seq(Nat) /\ Len(dup) = n /\ grp \in Seq(Nat) /\ Len(grp) = n
  BY <1>1, <1>2
<1>4. ShapeInv
  BY <1>1, <1>2, <1>3 DEF Init, ShapeInv
<1>5. LocalsInv
  BY DEF Init, LocalsInv
<1>6. LinksAscend
  BY <1>2, <1>3 DEF LinksAscend, Groups
<1> QED
  BY <1>4, <1>5, <1>6 DEF LinkInv

(* MarkDuplicates of two different groups starts with ordered locals. *)
LEMMA MarkOrdered ==
    ASSUME LinkInv, NEW g \in 1..Len(dup), NEW h \in 1..Len(dup), g # h,
           NEW resume \in {"explore", "rehash"}, MarkDuplicates(g, h, resume),
           dup' = dup, cursor' = cursor
    PROVE  LocalsInv'
<1>1. Len(dup) \in Nat
  BY DEF LinkInv, ShapeInv
<1>2. <<g, h>> \in Seq(1..Len(dup))
  OBVIOUS
<1>3. src' \in 1..Len(dup) /\ dst' \in 1..Len(dup) /\ src' < dst'
  BY <1>1 DEF MarkDuplicates
<1> QED
  BY <1>2, <1>3 DEF MarkDuplicates, LocalsInv

(* Steps that leave the links, the groups of the expressions and the locals
   alone, and stay outside of the functions the locals belong to. *)
LEMMA QuietStep ==
    ASSUME LinkInv, dup' = dup, grp' = grp, ret' = ret,
           pc' \in {"explore", "merge", "rehash", "reset", "derive", "search", "raised"},
           cursor' \in 0..Len(dup), toRehash' \subseteq DOMAIN grp
    PROVE  LinkInv'
BY DEF LinkInv, ShapeInv, LocalsInv, LinksAscend, Groups

LEMMA ExploreStep == ASSUME LinkInv, Explore PROVE LinkInv'
<1>1. ASSUME NEW g \in Groups, NEW res \in Result, NEW kids \in [1..res.arity -> Groups],
             InsertXformResult(g, res, kids)
      PROVE  LinkInv'
  <2>1. UNCHANGED <<dup, cursor, toRehash>> /\ pc = "explore"
    BY <1>1 DEF InsertXformResult, mergeVars
  <2>2. CASE /\ grp' = Append(grp, g)
             /\ UNCHANGED <<pc, markVars>>
    <3>0. grp \in Seq(Nat) /\ g \in Nat /\ g \in 1..Len(dup) /\ dup \in Seq(Nat)
      BY DEF LinkInv, ShapeInv, Groups
    <3>a. grp' \in Seq(Nat) /\ Len(grp') = Len(grp) + 1 /\ grp'[Len(grp) + 1] = g
          /\ \A i \in 1..Len(grp) : grp'[i] = grp[i]
      BY <2>2, <3>0
    <3>1. grp' \in Seq(Nat) /\ DOMAIN grp \subseteq DOMAIN grp'
          /\ \A i \in DOMAIN grp' : grp'[i] \in 1..Len(dup)
      <4>1. \A i \in 1..Len(grp) : grp[i] \in 1..Len(dup)
        BY <3>0 DEF LinkInv, ShapeInv
      <4>2. Len(grp) \in Nat /\ DOMAIN grp = 1..Len(grp) /\ DOMAIN grp' = 1..(Len(grp) + 1)
        BY <3>0, <3>a
      <4>3. \A i \in 1..(Len(grp) + 1) : i \in 1..Len(grp) \/ i = Len(grp) + 1
        BY <4>2
      <4>4. \A i \in 1..(Len(grp) + 1) : grp'[i] \in 1..Len(dup)
        BY <3>0, <3>a, <4>1, <4>3
      <4> QED
        BY <3>a, <4>2, <4>4
    <3>2. ShapeInv'
      BY <2>1, <3>1 DEF LinkInv, ShapeInv
    <3> QED
      BY <2>1, <2>2, <3>2 DEF LinkInv, LocalsInv, LinksAscend, Groups, markVars
  <2>3. ASSUME NEW i \in DOMAIN grp, grp[i] # g, MarkDuplicates(g, grp[i], "explore"),
               grp' = grp
        PROVE  LinkInv'
    <3>1. LocalsInv'
      BY <2>1, <2>3, MarkOrdered DEF LinkInv, ShapeInv, Groups
    <3> QED
      BY <2>1, <2>3, <3>1 DEF LinkInv, ShapeInv, LinksAscend, Groups
  <2> QED
    BY <1>1, <2>2, <2>3 DEF InsertXformResult, PgroupInsert, Find
<1>2. ASSUME NEW g \in Groups, NEW res \in Result, NEW child \in Result,
             NEW kids \in [1..child.arity -> Groups], InsertNewGroup(g, res, child, kids)
      PROVE  LinkInv'
  <2> DEFINE n == Len(dup) + 1
  <2>1. /\ UNCHANGED <<pc, markVars, cursor, toRehash>> /\ pc = "explore"
        /\ dup' = Append(dup, 0)
        /\ grp' = grp \o <<n, g>>
    BY <1>2 DEF InsertNewGroup, mergeVars
  <2>2. /\ dup' \in Seq(Nat) /\ Len(dup') = n /\ dup'[n] = 0
        /\ \A h \in 1..Len(dup) : dup'[h] = dup[h]
    BY <2>1 DEF LinkInv, ShapeInv
  <2>3. /\ grp' \in Seq(Nat) /\ Len(grp') = Len(grp) + 2
        /\ \A i \in 1..Len(grp) : grp'[i] = grp[i]
        /\ grp'[Len(grp) + 1] = n /\ grp'[Len(grp) + 2] = g
    <3>1. n \in Nat /\ g \in Nat /\ grp \in Seq(Nat)
      BY DEF LinkInv, ShapeInv, Groups
    <3>2. <<n, g>> \in Seq(Nat)
      BY <3>1
    <3> QED
      BY <2>1, <3>1, <3>2
  <2>a. Len(dup) \in Nat /\ n = Len(dup) + 1 /\ g \in 1..Len(dup) /\ Len(grp) \in Nat
    BY DEF LinkInv, ShapeInv, Groups
  <2> HIDE DEF n
  <2>4. \A i \in 1..Len(grp') : grp'[i] \in 1..n
    <3> TAKE i \in 1..Len(grp')
    <3>1. i \in 1..Len(grp) \/ i = Len(grp) + 1 \/ i = Len(grp) + 2
      BY <2>3, <2>a
    <3>2. i \in 1..Len(grp) => grp[i] \in 1..Len(dup)
      BY DEF LinkInv, ShapeInv
    <3> QED
      BY <2>3, <2>a, <3>1, <3>2
  <2>b. \A h \in 1..n : dup'[h] \in 0..n /\ (dup'[h] = 0 \/ dup'[h] > h)
    <3> TAKE h \in 1..n
    <3>1. h \in 1..Len(dup) \/ h = n
      BY <2>a
    <3>2. h \in 1..Len(dup) => dup[h] \in 0..Len(dup) /\ (dup[h] = 0 \/ dup[h] > h)
      BY DEF LinkInv, ShapeInv, LinksAscend, Groups
    <3> QED
      BY <2>2, <2>a, <3>1, <3>2
  <2>c. toRehash' \subseteq DOMAIN grp' /\ cursor' \in 0..n
    <3>0. toRehash \subseteq DOMAIN grp /\ DOMAIN grp = 1..Len(grp)
      BY DEF LinkInv, ShapeInv
    <3>1. toRehash \subseteq 1..Len(grp) /\ DOMAIN grp' = 1..(Len(grp) + 2)
      BY <2>3, <3>0
    <3>2. cursor \in 0..Len(dup)
      BY DEF LinkInv, ShapeInv
    <3>3. toRehash' = toRehash /\ cursor' = cursor
      BY <2>1
    <3> QED
      BY ONLY <2>a, <3>1, <3>2, <3>3
  <2>5. ShapeInv'
    BY <2>2, <2>3, <2>4, <2>b, <2>c DEF ShapeInv
  <2>6. LinksAscend'
    BY <2>2, <2>b DEF LinksAscend, Groups
  <2> QED
    BY <2>1, <2>5, <2>6 DEF LinkInv, LocalsInv, markVars
<1>3. ASSUME NEW g \in Groups, PstatsRecursiveDerive(g) PROVE LinkInv'
  BY <1>3, QuietStep DEF PstatsRecursiveDerive, LinkInv, ShapeInv, markVars, mergeVars
<1> QED
  BY <1>1, <1>2, <1>3 DEF Explore

LEMMA MarkStep == ASSUME LinkInv, Mark PROVE LinkInv'
<1> USE DEF LinkInv
<1>1. CASE FollowLink
  <2>1. UNCHANGED <<pc, grp, dup, toResolve, target, ret, cursor, toRehash>> /\ pc = "link"
    BY <1>1 DEF FollowLink, exprVars, mergeVars
  <2>2. src \in 1..Len(dup) /\ dst \in 1..Len(dup) /\ src < dst
    BY <2>1 DEF LocalsInv
  <2>3. dup[src] \in 1..Len(dup) /\ dup[src] # dst
    BY <1>1, <2>2 DEF FollowLink, ShapeInv
  <2>4. src' \in 1..Len(dup) /\ dst' \in 1..Len(dup) /\ src' < dst'
    BY <1>1, <2>2, <2>3 DEF FollowLink, ShapeInv
  <2>5. ShapeInv' /\ LinksAscend'
    BY <2>1 DEF ShapeInv, LinksAscend, Groups
  <2> QED
    BY <2>1, <2>4, <2>5 DEF LocalsInv
<1>2. CASE AddLink
  <2>1. /\ UNCHANGED <<grp, src, dst, toResolve, target, ret, cursor, toRehash>>
        /\ pc = "link" /\ pc' = "resolve" /\ dup' = [dup EXCEPT ![src] = dst]
    BY <1>2 DEF AddLink, exprVars, markVars, mergeVars
  <2>2. src \in 1..Len(dup) /\ dst \in 1..Len(dup) /\ src < dst /\ target = 0
    BY <2>1 DEF LocalsInv
  <2>3. dup' \in Seq(Nat) /\ Len(dup') = Len(dup)
        /\ \A g \in 1..Len(dup) : dup'[g] = IF g = src THEN dst ELSE dup[g]
    BY <2>1, <2>2 DEF ShapeInv
  <2>4. ShapeInv'
    BY <2>1, <2>2, <2>3 DEF ShapeInv
  <2>5. LinksAscend'
    BY <2>2, <2>3 DEF LinksAscend, Groups
  <2> QED
    BY <2>1, <2>2, <2>3, <2>4, <2>5 DEF LocalsInv
<1>3. CASE ResolveStart
  <2>1. /\ UNCHANGED <<pc, grp, dup, src, dst, ret, cursor, toRehash>> /\ pc = "resolve"
        /\ toResolve # <<>> /\ target' = dup[Head(toResolve)]
        /\ toResolve' = IF dup[Head(toResolve)] = 0 THEN Tail(toResolve) ELSE toResolve
    BY <1>3 DEF ResolveStart, exprVars, mergeVars
  <2>2. toResolve \in Seq(1..Len(dup))
    BY <2>1 DEF LocalsInv
  <2>3. Head(toResolve) \in 1..Len(dup) /\ Tail(toResolve) \in Seq(1..Len(dup))
    BY <2>1, <2>2
  <2>4. dup[Head(toResolve)] = 0 \/ /\ dup[Head(toResolve)] \in 1..Len(dup)
                                    /\ Head(toResolve) < dup[Head(toResolve)]
    BY <2>3 DEF ShapeInv, LinksAscend, Groups
  <2>5. ShapeInv' /\ LinksAscend'
    BY <2>1 DEF ShapeInv, LinksAscend, Groups
  <2> QED
    BY <2>1, <2>2, <2>3, <2>4, <2>5 DEF LocalsInv
<1>4. CASE ResolveStep
  <2>1. /\ UNCHANGED <<pc, grp, dup, src, dst, toResolve, ret, cursor, toRehash>>
        /\ pc = "resolve" /\ target # 0 /\ dup[target] # 0 /\ target' = dup[target]
    BY <1>4 DEF ResolveStep, exprVars, mergeVars
  <2>2. toResolve # <<>> /\ target \in 1..Len(dup) /\ Head(toResolve) < target
        /\ toResolve \in Seq(1..Len(dup))
    BY <2>1 DEF LocalsInv
  <2>3. Head(toResolve) \in 1..Len(dup)
    BY <2>2
  <2>4. target' \in 1..Len(dup) /\ target' > target
    BY <2>1, <2>2 DEF ShapeInv, LinksAscend, Groups
  <2>5. Head(toResolve) < target'
    BY <2>2, <2>3, <2>4
  <2>6. ShapeInv' /\ LinksAscend'
    BY <2>1 DEF ShapeInv, LinksAscend, Groups
  <2> QED
    BY <2>1, <2>2, <2>4, <2>5, <2>6 DEF LocalsInv
<1>5. CASE ResolveEnd
  <2>1. /\ UNCHANGED <<pc, grp, src, dst, ret, cursor, toRehash>>
        /\ pc = "resolve" /\ target # 0 /\ target' = 0
        /\ dup' = [dup EXCEPT ![Head(toResolve)] = target]
        /\ toResolve' = Tail(toResolve)
    BY <1>5 DEF ResolveEnd, exprVars, mergeVars
  <2>2. toResolve # <<>> /\ target \in 1..Len(dup) /\ Head(toResolve) < target
        /\ toResolve \in Seq(1..Len(dup))
    BY <2>1 DEF LocalsInv
  <2>3. Head(toResolve) \in 1..Len(dup) /\ Tail(toResolve) \in Seq(1..Len(dup))
    BY <2>2
  <2>4. dup' \in Seq(Nat) /\ Len(dup') = Len(dup)
        /\ \A g \in 1..Len(dup) : dup'[g] = IF g = Head(toResolve) THEN target ELSE dup[g]
    <3> DEFINE h == Head(toResolve)
    <3>1. h \in 1..Len(dup) /\ dup' = [dup EXCEPT ![h] = target] /\ dup \in Seq(Nat)
      BY <2>1, <2>3 DEF ShapeInv
    <3> HIDE DEF h
    <3>2. dup' \in Seq(Nat) /\ Len(dup') = Len(dup)
          /\ \A g \in 1..Len(dup) : dup'[g] = IF g = h THEN target ELSE dup[g]
      BY <2>2, <3>1, SMTT(30)
    <3> QED
      BY <3>2 DEF h
  <2>5. ShapeInv'
    BY <2>1, <2>2, <2>4, SMTT(30) DEF ShapeInv
  <2>6. LinksAscend'
    BY <2>2, <2>4 DEF LinksAscend, Groups
  <2> QED
    BY <2>1, <2>2, <2>3, <2>4, <2>5, <2>6, SMTT(30) DEF LocalsInv, ShapeInv
<1>6. CASE ResolveReturn
  <2>1. /\ UNCHANGED <<grp, dup, toResolve, target, cursor, toRehash>>
        /\ pc = "resolve" /\ pc' = ret /\ ret' = "explore"
    BY <1>6 DEF ResolveReturn, exprVars, mergeVars
  <2>2. ShapeInv' /\ LinksAscend'
    BY <2>1 DEF ShapeInv, LinksAscend, Groups
  <2> QED
    BY <2>1, <2>2 DEF LocalsInv
<1> QED
  BY <1>1, <1>2, <1>3, <1>4, <1>5, <1>6 DEF Mark

LEMMA FinalizeStep == ASSUME LinkInv, Finalize PROVE LinkInv'
<1> USE DEF exprVars, markVars, mergeVars, statsVars
<1>1. CASE MergeSkip
  <2>1. /\ UNCHANGED <<dup, grp, ret, pc, toRehash>> /\ pc = "merge"
        /\ cursor # 0 /\ cursor' = cursor - 1
    BY <1>1 DEF MergeSkip
  <2>2. cursor' \in 0..Len(dup) /\ toRehash' \subseteq DOMAIN grp
    BY <2>1 DEF LinkInv, ShapeInv
  <2> QED
    BY <2>1, <2>2, QuietStep
<1>2. CASE MergeGroup
  <2>1. /\ UNCHANGED <<grp, dup, cursor, toRehash>> /\ pc' = "resolve" /\ ret' = "move"
        /\ toResolve' = <<cursor>> /\ target' = 0 /\ cursor # 0 /\ dup[cursor] # 0
    BY <1>2 DEF MergeGroup
  <2>2. toResolve' \in Seq(1..Len(dup))
    BY <2>1 DEF LinkInv, ShapeInv
  <2> QED
    BY <2>1, <2>2 DEF LinkInv, ShapeInv, LocalsInv, LinksAscend, Groups
<1>3. CASE MoveExpressions
  <2>1. /\ UNCHANGED <<dup, ret, toRehash>> /\ pc = "move" /\ pc' = "merge"
        /\ cursor' = cursor - 1
        /\ grp' = [i \in DOMAIN grp |-> IF i \in InGroup(cursor) THEN dup[cursor] ELSE grp[i]]
    BY <1>3 DEF MoveExpressions
  <2>2. cursor # 0 /\ dup[cursor] # 0
    BY <2>1 DEF LinkInv, LocalsInv
  <2>3. dup[cursor] \in 1..Len(dup) /\ cursor' \in 0..Len(dup)
    BY <2>1, <2>2 DEF LinkInv, ShapeInv
  <2>4. grp' \in Seq(Nat) /\ DOMAIN grp' = DOMAIN grp
        /\ \A i \in DOMAIN grp' : grp'[i] \in 1..Len(dup)
    <3> DEFINE N == Len(grp)
               m == dup[cursor]
    <3>1. grp \in Seq(Nat) /\ N \in Nat /\ DOMAIN grp = 1..N /\ m \in Nat
          /\ m \in 1..Len(dup) /\ \A i \in 1..N : grp[i] \in Nat /\ grp[i] \in 1..Len(dup)
      BY <2>3 DEF LinkInv, ShapeInv
    <3>2. grp' = [i \in 1..N |-> IF i \in InGroup(cursor) THEN m ELSE grp[i]]
      BY <2>1, <3>1
    <3> HIDE DEF N, m
    <3>3. grp' \in [1..N -> Nat] /\ \A i \in 1..N : grp'[i] \in 1..Len(dup)
      BY <3>1, <3>2
    <3>4. grp' \in Seq(Nat) /\ DOMAIN grp' = 1..N
      BY <3>1, <3>3
    <3> QED
      BY <3>1, <3>3, <3>4
  <2>5. ShapeInv'
    BY <2>1, <2>3, <2>4 DEF LinkInv, ShapeInv
  <2> QED
    BY <2>1, <2>5 DEF LinkInv, LocalsInv, LinksAscend, Groups
<1>4. CASE StartRehash
  BY <1>4, QuietStep DEF StartRehash, LinkInv, ShapeInv
<1>5. CASE MergeAgain
  BY <1>5, QuietStep DEF MergeAgain, LinkInv, ShapeInv
<1>6. ASSUME NEW i \in toRehash, RehashInsert(i) PROVE LinkInv'
  BY <1>6, QuietStep DEF RehashInsert, LinkInv, ShapeInv
<1>7. ASSUME NEW i \in toRehash, RehashDuplicate(i) PROVE LinkInv'
  <2>1. /\ UNCHANGED <<grp, dup, cursor>> /\ pc = "rehash" /\ toRehash' = toRehash \ {i}
    BY <1>7 DEF RehashDuplicate
  <2>2. i \in DOMAIN grp /\ grp[i] \in 1..Len(dup)
    BY DEF LinkInv, ShapeInv
  <2>3. ASSUME NEW f \in DOMAIN grp, FNewDuplicates(grp[i], grp[f]),
               MarkDuplicates(grp[i], grp[f], "rehash")
        PROVE  LinkInv'
    <3>1. grp[f] \in 1..Len(dup) /\ grp[i] # grp[f]
      BY <2>3 DEF LinkInv, ShapeInv, FNewDuplicates
    <3>2. LocalsInv'
      BY <2>1, <2>2, <2>3, <3>1, MarkOrdered
    <3> QED
      BY <2>1, <3>2 DEF LinkInv, ShapeInv, LinksAscend, Groups
  <2>4. CASE UNCHANGED <<pc, markVars>>
    BY <2>1, <2>4, QuietStep DEF LinkInv, ShapeInv
  <2> QED
    BY <1>7, <2>3, <2>4 DEF RehashDuplicate, Find
<1>8. CASE ResetStats
  BY <1>8, QuietStep DEF ResetStats, LinkInv, ShapeInv
<1>9. CASE ReturnReset
  BY <1>9, QuietStep DEF ReturnReset, LinkInv, ShapeInv
<1>10. ASSUME NEW c \in Groups, VisitChild(c) PROVE LinkInv'
  BY <1>10, QuietStep DEF VisitChild, LinkInv, ShapeInv
<1>11. CASE DeriveStats
  BY <1>11, QuietStep DEF DeriveStats, LinkInv, ShapeInv
<1> QED
  BY <1>1, <1>2, <1>3, <1>4, <1>5, <1>6, <1>7, <1>8, <1>9, <1>10, <1>11 DEF Finalize

LEMMA LinkNext == LinkInv /\ [Next]_vars => LinkInv'
<1> SUFFICES ASSUME LinkInv, [Next]_vars PROVE LinkInv'
  OBVIOUS
<1>1. CASE FinishExploration
  BY <1>1, QuietStep DEF FinishExploration, exprVars, markVars, LinkInv, ShapeInv
<1>2. CASE FinalizeSearchStage
  BY <1>2, QuietStep DEF FinalizeSearchStage, exprVars, markVars, mergeVars, LinkInv, ShapeInv
<1>3. CASE UNCHANGED vars
  BY <1>3 DEF vars, exprVars, markVars, mergeVars, LinkInv, ShapeInv, LocalsInv,
              LinksAscend, Groups
<1> QED
  BY <1>1, <1>2, <1>3, ExploreStep, MarkStep, FinalizeStep DEF Next

(* Whatever the transformations mark and whatever FRehash discovers, links go
   from smaller to larger ids: they have no cycles, the assertion of
   ResolveDuplicateMaster holds and its walk ends. *)
THEOREM DuplicateLinksAscend == Spec => []LinksAscend
<1>1. LinkInv => LinksAscend
  BY DEF LinkInv
<1> QED
  BY <1>1, LinkInit, LinkNext, PTL DEF Spec
-----------------------------------------------------------------------------
(* What GroupMerge is doing. *)
Exploring == pc = "explore" \/ (pc \in {"link", "resolve"} /\ ret = "explore")
Remarking == pc \in {"link", "resolve"} /\ ret = "rehash"
Merging == pc \in {"merge", "move"} \/ (pc = "resolve" /\ ret = "move")
Merged == pc \in {"reset", "derive", "search"} \/ (pc = "rehash" /\ ~fNewDup)

Op == {Query[i].op : i \in 1..Len(Query)} \cup {res.op : res \in Result}
GExpr == [op : Op, kids : Seq(Nat), home : Nat]
Bucket == {NoHash} \cup (Op \X Seq(Nat))

(* the groups that hold expressions *)
Live == {grp[i] : i \in (1..Len(grp)) \ hidden}

(* HashValue and Matches for links D and groups L with expressions *)
Canon(D, L, k) == IF D[k] # 0 /\ k \notin L THEN D[k] ELSE k
BucketOf(D, L, e) == <<e.op, [k \in DOMAIN e.kids |-> Canon(D, L, e.kids[k])]>>
Same(D, g, h) == g = h \/ g = D[h] \/ h = D[g] \/ (D[g] # 0 /\ D[g] = D[h])
Alike(D, e, f) ==
    e.op = f.op /\ Len(e.kids) = Len(f.kids) /\ \A k \in DOMAIN e.kids : Same(D, e.kids[k], f.kids[k])

(* Expressions are over groups of the memo.  Those that are not in the hash table
   are the duplicates and the ones FRehash still has to look at. *)
MemoInv ==
    /\ gexprs \in Seq(GExpr) /\ Len(gexprs) = Len(grp)
    /\ at \in Seq(Bucket) /\ Len(at) = Len(grp)
    /\ \A i \in 1..Len(grp) : gexprs[i].kids \in Seq(1..Len(dup))
    /\ hidden \subseteq 1..Len(grp) /\ hidden \cap toRehash = {}
    /\ \A j \in hidden \cup toRehash : at[j] = NoHash
    /\ root \in 1..Len(dup)
    /\ Remarking => fNewDup
    /\ Exploring \/ pc \in {"reset", "derive", "search"} => toRehash = {}

(* m gives every group the end of its chain of links. *)
EndsAt(D, m) ==
    /\ m \in [1..Len(D) -> 1..Len(D)]
    /\ \A g \in 1..Len(D) : m[g] >= g /\ m[g] = IF D[g] = 0 THEN g ELSE m[D[g]]

Covered(L, m, r) == \E g \in L : m[g] = r

(* Every chain that ends in a group has a group with expressions on it, but for
   the two chains that are about to be linked, of which one has. *)
ClassInv ==
    \E m \in [1..Len(dup) -> 1..Len(dup)] :
      /\ EndsAt(dup, m)
      /\ pc = "resolve" /\ target # 0 => m[Head(toResolve)] = m[target]
      /\ \A r \in 1..Len(dup) :
           dup[r] = 0 => \/ Covered(Live, m, r)
                         \/ /\ pc = "link" /\ r \in {m[src], m[dst]}
                            /\ Covered(Live, m, m[src]) \/ Covered(Live, m, m[dst])

(* A group that GroupMerge is past has moved its expressions to its master. *)
Settled(D, L, g) == D[g] # 0 => g \notin L /\ D[D[g]] = 0

PassInv ==
    /\ Merging => \A g \in 1..Len(dup) : g > cursor => Settled(dup, Live, g)
    /\ pc = "resolve" /\ ret = "move" =>
         toResolve = <<cursor>> \/ (toResolve = <<>> /\ target = 0 /\ dup[dup[cursor]] = 0)
    /\ pc = "move" => dup[dup[cursor]] = 0
    /\ Merged => dup[root] = 0 /\ \A g \in 1..Len(dup) : Settled(dup, Live, g)

(* Transformations mark groups with expressions only. *)
ExploreInv ==
    Exploring =>
      /\ \A g \in 1..Len(dup) : IF dup[g] = 0 THEN g \in Live ELSE dup[g] \in Live
      /\ pc = "link" => src \in Live /\ dst \in Live
      /\ pc \in {"link", "resolve"} => toResolve \in Seq(Live)
      /\ pc = "resolve" /\ target # 0 => target \in Live

(* the expressions in the hash table *)
InTable == (1..Len(grp)) \ (hidden \cup toRehash)

BucketsInv == Exploring \/ Merged => \A i \in InTable : at[i] = BucketOf(dup, Live, gexprs[i])
UniqueInv ==
    Merged => \A i, j \in InTable : at[i] = at[j] /\ Alike(dup, gexprs[i], gexprs[j]) => i = j

CurrentInv == LinkInv /\ MemoInv /\ ClassInv /\ PassInv /\ ExploreInv /\ BucketsInv /\ UniqueInv
-----------------------------------------------------------------------------
(* A group is empty if it is not live. *)
LEMMA EmptyIffDead == ASSUME LinkInv PROVE \A g : Empty(g) <=> g \notin Live
<1>1. DOMAIN grp = 1..Len(grp)
  BY DEF LinkInv, ShapeInv
<1> QED
  BY <1>1 DEF Empty, InGroup, Live

(* Types that follow from the invariants. *)
LEMMA Typing ==
  ASSUME LinkInv, MemoInv
  PROVE  /\ Len(dup) \in Nat /\ Len(grp) \in Nat
         /\ DOMAIN dup = 1..Len(dup) /\ DOMAIN grp = 1..Len(grp)
         /\ \A g \in 1..Len(dup) : dup[g] = 0 \/ (dup[g] \in 1..Len(dup) /\ dup[g] > g)
         /\ \A i \in 1..Len(grp) : grp[i] \in 1..Len(dup)
         /\ Live \subseteq 1..Len(dup)
         /\ toRehash \subseteq 1..Len(grp)
<1>1. /\ Len(dup) \in Nat /\ Len(grp) \in Nat /\ DOMAIN dup = 1..Len(dup) /\ DOMAIN grp = 1..Len(grp)
  BY DEF LinkInv, ShapeInv
<1>2. \A g \in 1..Len(dup) : dup[g] \in 0..Len(dup) /\ (dup[g] = 0 \/ dup[g] > g)
  BY DEF LinkInv, ShapeInv, LinksAscend, Groups
<1>3. \A g \in 1..Len(dup) : dup[g] = 0 \/ (dup[g] \in 1..Len(dup) /\ dup[g] > g)
  BY <1>1, <1>2
<1>4. \A i \in 1..Len(grp) : grp[i] \in 1..Len(dup)
  BY <1>1 DEF LinkInv, ShapeInv
<1>5. toRehash \subseteq 1..Len(grp)
  BY <1>1 DEF LinkInv, ShapeInv
<1> QED
  BY <1>1, <1>3, <1>4, <1>5 DEF Live

(* The bucket of an expression is that of HashValue. *)
LEMMA HashIsBucket ==
  ASSUME LinkInv, NEW e PROVE HashValue(e.op, e.kids) = BucketOf(dup, Live, e)
<1>1. \A k \in DOMAIN e.kids :
        (IF dup[e.kids[k]] # 0 /\ Empty(e.kids[k]) THEN dup[e.kids[k]] ELSE e.kids[k])
          = Canon(dup, Live, e.kids[k])
  BY EmptyIffDead DEF Canon
<1> QED
  BY <1>1 DEF HashValue, BucketOf

(* A lookup finds the expressions in the same bucket that match. *)
LEMMA FindIs ==
  ASSUME LinkInv, NEW e
  PROVE  Find(e.op, e.kids) = {i \in DOMAIN grp : at[i] = BucketOf(dup, Live, e) /\ Alike(dup, e, gexprs[i])}
<1>1. ASSUME NEW i PROVE Matches(e.op, e.kids, gexprs[i]) <=> Alike(dup, e, gexprs[i])
  BY DEF Matches, Alike, FDuplicateGroups, Same
<1>2. HashValue(e.op, e.kids) = BucketOf(dup, Live, e)
  BY HashIsBucket
<1> QED
  BY <1>1, <1>2 DEF Find

(* A bucket is not the mark of an expression that is in none. *)
LEMMA BucketInTable == ASSUME NEW D, NEW L, NEW e PROVE BucketOf(D, L, e) # NoHash
<1>1. Len(BucketOf(D, L, e)) = 2
  BY DEF BucketOf
<1>2. Len(NoHash) = 0
  BY DEF NoHash
<1> QED
  BY <1>1, <1>2

(* Links that differ only for groups with expressions, where a group stays empty
   or not, give the same buckets. *)
LEMMA BucketKept ==
  ASSUME NEW D, NEW L, NEW D2, NEW L2, NEW n \in Nat, NEW e, e.kids \in Seq(1..n),
         \A k \in 1..n : Canon(D, L, k) = Canon(D2, L2, k)
  PROVE  BucketOf(D, L, e) = BucketOf(D2, L2, e)
<1>1. \A s \in Seq(1..n) : \A k \in DOMAIN s : s[k] \in 1..n
  OBVIOUS
<1>2. \A k \in DOMAIN e.kids : e.kids[k] \in 1..n
  BY <1>1
<1> QED
  BY <1>2 DEF BucketOf

(* When GroupMerge is done the groups without links hold expressions. *)
LEMMA MastersLive ==
  ASSUME CurrentInv, Merged
  PROVE  \A g \in 1..Len(dup) : IF dup[g] = 0 THEN g \in Live ELSE dup[g] \in Live
<1>1. PICK m \in [1..Len(dup) -> 1..Len(dup)] :
        EndsAt(dup, m) /\ \A r \in 1..Len(dup) : dup[r] = 0 => Covered(Live, m, r)
  BY DEF CurrentInv, ClassInv, Merged
<1>2. \A g \in Live : dup[g] = 0 /\ g \in 1..Len(dup)
  BY Typing DEF CurrentInv, PassInv, Settled
<1>3. \A g \in 1..Len(dup) : dup[g] = 0 => g \in Live
  <2> SUFFICES ASSUME NEW g \in 1..Len(dup), dup[g] = 0 PROVE g \in Live
    OBVIOUS
  <2>1. PICK h \in Live : m[h] = g
    BY <1>1 DEF Covered
  <2>2. m[h] = h
    BY <1>1, <1>2 DEF EndsAt
  <2> QED
    BY <2>1, <2>2
<1>4. \A g \in 1..Len(dup) : dup[g] # 0 => dup[g] \in 1..Len(dup) /\ dup[dup[g]] = 0
  BY Typing DEF CurrentInv, PassInv, Settled
<1> QED
  BY <1>3, <1>4
-----------------------------------------------------------------------------
(* Steps that only move on to another part of GroupMerge or of the search. *)
LEMMA QuietKeeps ==
  ASSUME CurrentInv, LinkInv',
         UNCHANGED <<gexprs, grp, hidden, at, dup, root, toRehash, fNewDup, src, dst, toResolve,
                     target, ret>>,
         \/ pc' = pc /\ cursor' = cursor
         \/ pc = "explore" /\ pc' = "merge" /\ cursor' = Len(dup)
         \/ pc = "merge" /\ pc' = "merge" /\ cursor # 0 /\ dup[cursor] = 0 /\ cursor' = cursor - 1
         \/ pc = "rehash" /\ fNewDup /\ pc' = "merge" /\ cursor' = Len(dup)
         \/ pc = "rehash" /\ ~fNewDup /\ toRehash = {} /\ pc' \in {"reset", "derive"}
         \/ pc \in {"reset", "derive"} /\ pc' \in {"reset", "derive", "search"}
         \/ pc = "reset" /\ pc' = "raised"
         \/ pc = "search" /\ pc' = "explore"
  PROVE  CurrentInv'
<1>1. Live' = Live /\ InTable' = InTable
  BY DEF Live, InTable
<1>2. MemoInv'
  BY DEF CurrentInv, MemoInv, Remarking, Exploring, Merged
<1>3. ClassInv'
  <2>1. pc' = "resolve" => pc = "resolve"
    OBVIOUS
  <2>2. pc' = "link" <=> pc = "link"
    OBVIOUS
  <2> QED
    BY <1>1, <2>1, <2>2 DEF CurrentInv, ClassInv
<1>4. PassInv'
  <2>1. CASE pc = "merge" /\ pc' = "merge" /\ cursor # 0 /\ dup[cursor] = 0 /\ cursor' = cursor - 1
    <3>1. cursor \in Nat
      BY DEF CurrentInv, LinkInv, ShapeInv
    <3>2. \A g \in 1..Len(dup) : g > cursor' => g > cursor \/ g = cursor
      BY <2>1, <3>1
    <3>3. \A g \in 1..Len(dup) : g > cursor' => Settled(dup, Live, g)
      BY <2>1, <3>2 DEF CurrentInv, PassInv, Settled, Merging
    <3> QED
      BY <1>1, <2>1, <3>3 DEF PassInv, Merged
  <2>2. CASE pc' = "merge" /\ cursor' = Len(dup)
    BY <1>1, <2>2 DEF PassInv, Merged
  <2>3. CASE pc' = pc /\ cursor' = cursor
    BY <1>1, <2>3 DEF CurrentInv, PassInv, Merged, Merging
  <2>4. CASE pc' \in {"reset", "derive", "search"} /\ Merged
    BY <1>1, <2>4 DEF CurrentInv, PassInv, Merging
  <2>5. CASE pc' \in {"raised", "explore"}
    BY <2>5 DEF PassInv, Merged, Merging
  <2> QED
    BY <2>1, <2>2, <2>3, <2>4, <2>5 DEF Merged
<1>5. ExploreInv'
  <2>1. CASE pc' = pc
    BY <1>1, <2>1 DEF CurrentInv, ExploreInv, Exploring
  <2>2. CASE pc = "search" /\ pc' = "explore"
    BY <1>1, <2>2, MastersLive DEF ExploreInv, Merged
  <2>3. CASE pc' \in {"merge", "reset", "derive", "search", "raised"}
    BY <2>3 DEF ExploreInv, Exploring
  <2> QED
    BY <2>1, <2>2, <2>3
<1>6. Exploring' \/ Merged' => Exploring \/ Merged
  BY DEF Exploring, Merged
<1>7. Merged' => Merged
  BY DEF Merged
<1>8. BucketsInv' /\ UniqueInv'
  BY <1>1, <1>6, <1>7 DEF CurrentInv, BucketsInv, UniqueInv
<1> QED
  BY <1>2, <1>3, <1>4, <1>5, <1>8 DEF CurrentInv
-----------------------------------------------------------------------------
(* Sequences with one or two elements more. *)
LEMMA AppendedOne ==
  ASSUME NEW S, NEW s \in Seq(S), NEW x \in S, NEW t, t = Append(s, x), NEW n, n = Len(s)
  PROVE  t \in Seq(S) /\ Len(t) = n + 1 /\ t[n + 1] = x /\ \A i \in 1..n : t[i] = s[i]
OBVIOUS

LEMMA AppendedTwo ==
  ASSUME NEW S, NEW s \in Seq(S), NEW x \in S, NEW y \in S, NEW t, t = s \o <<x, y>>,
         NEW n, n = Len(s)
  PROVE  /\ t \in Seq(S) /\ Len(t) = n + 2 /\ t[n + 1] = x /\ t[n + 2] = y
         /\ \A i \in 1..n : t[i] = s[i]
<1>1. <<x, y>> \in Seq(S) /\ Len(<<x, y>>) = 2 /\ <<x, y>>[1] = x /\ <<x, y>>[2] = y
  OBVIOUS
<1> DEFINE z == <<x, y>>
<1> HIDE DEF z
<1>2. z \in Seq(S) /\ Len(z) = 2 /\ z[1] = x /\ z[2] = y /\ t = s \o z
  BY <1>1 DEF z
<1> QED
  BY <1>2

(* The bucket of an expression over groups of the memo. *)
LEMMA BucketType ==
  ASSUME LinkInv, MemoInv, NEW e \in GExpr, e.kids \in Seq(1..Len(dup))
  PROVE  BucketOf(dup, Live, e) \in Bucket
<1>1. \A s \in Seq(1..Len(dup)) : Len(s) \in Nat /\ DOMAIN s = 1..Len(s) /\ \A k \in DOMAIN s : s[k] \in 1..Len(dup)
  BY Typing
<1>2. Len(e.kids) \in Nat /\ DOMAIN e.kids = 1..Len(e.kids) /\ \A k \in DOMAIN e.kids : e.kids[k] \in 1..Len(dup)
  BY <1>1
<1> DEFINE c == [k \in DOMAIN e.kids |-> Canon(dup, Live, e.kids[k])]
<1>3. c \in [1..Len(e.kids) -> Nat]
  <2> SUFFICES ASSUME NEW k \in DOMAIN e.kids PROVE Canon(dup, Live, e.kids[k]) \in Nat
    BY <1>2
  <2>1. e.kids[k] \in 1..Len(dup)
    BY <1>2
  <2>2. \A j \in 1..Len(dup) : dup[j] \in Nat
    BY Typing
  <2> QED
    BY <2>1, <2>2 DEF Canon
<1>4. c \in Seq(Nat)
  BY <1>2, <1>3
<1>5. e.op \in Op
  BY DEF GExpr
<1> HIDE DEF c
<1>6. <<e.op, c>> \in Op \X Seq(Nat)
  BY <1>4, <1>5
<1> QED
  BY <1>6 DEF BucketOf, Bucket, c

(* PgroupInsert of a new expression into a group that has some. *)
LEMMA InsertKeeps ==
  ASSUME CurrentInv, LinkInv', pc = "explore",
         NEW e \in GExpr, e.kids \in Seq(1..Len(dup)), NEW g \in Live,
         gexprs' = Append(gexprs, e), grp' = Append(grp, g),
         at' = Append(at, BucketOf(dup, Live, e)),
         UNCHANGED <<pc, hidden, dup, root, toRehash, fNewDup, src, dst, toResolve, target, ret, cursor>>
  PROVE  CurrentInv'
<1> DEFINE N == Len(grp)
<1>a. LinkInv /\ MemoInv /\ N \in Nat /\ toRehash = {}
  BY Typing DEF CurrentInv, MemoInv, Exploring
<1>b. /\ grp \in Seq(Nat) /\ g \in Nat /\ gexprs \in Seq(GExpr) /\ at \in Seq(Bucket)
      /\ Len(gexprs) = N /\ Len(at) = N /\ BucketOf(dup, Live, e) \in Bucket
  BY <1>a, Typing, BucketType DEF MemoInv, LinkInv, ShapeInv
<1>1. /\ Len(grp') = N + 1 /\ grp'[N + 1] = g /\ \A i \in 1..N : grp'[i] = grp[i]
  BY <1>a, <1>b
<1>2. /\ gexprs' \in Seq(GExpr) /\ Len(gexprs') = N + 1 /\ gexprs'[N + 1] = e
      /\ \A i \in 1..N : gexprs'[i] = gexprs[i]
  <2>1. gexprs' = Append(gexprs, e) /\ e \in GExpr /\ gexprs \in Seq(GExpr) /\ N = Len(gexprs)
    BY <1>b
  <2> QED
    BY <2>1, AppendedOne
<1>3. /\ at' \in Seq(Bucket) /\ Len(at') = N + 1 /\ at'[N + 1] = BucketOf(dup, Live, e)
      /\ \A i \in 1..N : at'[i] = at[i]
  <2> DEFINE b == BucketOf(dup, Live, e)
  <2>1. at' = Append(at, b) /\ b \in Bucket
    BY <1>b
  <2> HIDE DEF b
  <2>2. /\ at' \in Seq(Bucket) /\ Len(at') = N + 1 /\ at'[N + 1] = b
        /\ \A i \in 1..N : at'[i] = at[i]
    BY <1>b, <2>1, AppendedOne
  <2> QED
    BY <2>2 DEF b
<1>4. hidden \subseteq 1..N
  BY <1>a DEF MemoInv
<1> HIDE DEF N
<1>c. \A i \in 1..(N + 1) : i \in 1..N \/ i = N + 1
  BY <1>a
<1>d. 1..N \subseteq 1..(N + 1) /\ N + 1 \in 1..(N + 1) /\ N + 1 \notin 1..N
  BY <1>a
<1>5. Live' = Live
  <2>1. Live = {grp[i] : i \in (1..N) \ hidden} /\ Live' = {grp'[i] : i \in (1..(N + 1)) \ hidden}
    BY <1>1 DEF Live, N
  <2>2. Live \subseteq Live'
    BY <1>1, <1>d, <2>1
  <2>3. Live' \subseteq Live
    BY <1>1, <1>c, <2>1
  <2> QED
    BY <2>2, <2>3
<1>6. MemoInv'
  <2>1. \A i \in 1..(N + 1) : gexprs'[i].kids \in Seq(1..Len(dup))
    BY <1>2, <1>a, <1>c DEF MemoInv, N
  <2>2. \A j \in hidden \cup toRehash : at'[j] = NoHash
    BY <1>3, <1>4, <1>a DEF MemoInv
  <2>3. hidden \subseteq 1..(N + 1)
    BY <1>4, <1>d
  <2> QED
    BY <1>1, <1>2, <1>3, <1>a, <2>1, <2>2, <2>3 DEF MemoInv, Remarking, Exploring
<1>7. ClassInv' /\ PassInv' /\ ExploreInv'
  BY <1>5 DEF CurrentInv, ClassInv, PassInv, ExploreInv, Exploring, Merging, Merged
<1>8. BucketsInv'
  <2>1. InTable' \subseteq InTable \cup {N + 1}
    BY <1>1, <1>c DEF InTable, N
  <2>2. \A i \in InTable : i \in 1..N /\ at[i] = BucketOf(dup, Live, gexprs[i])
    BY DEF CurrentInv, BucketsInv, Exploring, InTable, N
  <2>3. \A i \in InTable' : at'[i] = BucketOf(dup, Live, gexprs'[i])
    BY <1>2, <1>3, <2>1, <2>2
  <2> QED
    BY <1>5, <2>3 DEF BucketsInv
<1>9. UniqueInv'
  BY DEF UniqueInv, Merged
<1> QED
  BY <1>6, <1>7, <1>8, <1>9 DEF CurrentInv

(* InsertExpressionChildren makes a group, and PgroupInsert an expression over it. *)
LEMMA NewGroupKeeps ==
  ASSUME CurrentInv, LinkInv', pc = "explore", NEW n, n = Len(dup) + 1,
         NEW e \in GExpr, e.kids \in Seq(1..Len(dup)), NEW f \in GExpr, f.kids = <<n>>,
         NEW g \in Live,
         gexprs' = gexprs \o <<e, f>>, grp' = grp \o <<n, g>>, dup' = Append(dup, 0),
         at' = at \o <<BucketOf(dup, Live, e), <<f.op, <<n>>>>>>,
         UNCHANGED <<pc, hidden, root, toRehash, fNewDup, src, dst, toResolve, target, ret, cursor>>
  PROVE  CurrentInv'
<1> DEFINE N == Len(grp)
           b == BucketOf(dup, Live, e)
           c == <<f.op, <<n>>>>
<1>a. LinkInv /\ MemoInv /\ N \in Nat /\ toRehash = {} /\ Len(dup) \in Nat
  BY Typing DEF CurrentInv, MemoInv, Exploring
<1>b. /\ grp \in Seq(Nat) /\ g \in Nat /\ gexprs \in Seq(GExpr) /\ at \in Seq(Bucket) /\ n \in Nat
      /\ Len(gexprs) = N /\ Len(at) = N /\ b \in Bucket /\ dup \in Seq(Nat) /\ g \in 1..Len(dup)
  <2>1. b \in Bucket
    BY <1>a, BucketType
  <2>2. g \in 1..Len(dup) /\ g \in Nat
    BY <1>a, Typing
  <2> QED
    BY <1>a, <2>1, <2>2 DEF MemoInv, LinkInv, ShapeInv
<1>c. c \in Bucket
  <2>1. <<n>> \in Seq(Nat) /\ f.op \in Op
    BY <1>b DEF GExpr
  <2> QED
    BY <2>1 DEF Bucket
<1> HIDE DEF N, b, c
<1>1. /\ Len(grp') = N + 2 /\ grp'[N + 1] = n /\ grp'[N + 2] = g /\ \A i \in 1..N : grp'[i] = grp[i]
  BY <1>b, AppendedTwo, SMTT(30) DEF N
<1>2. /\ gexprs' \in Seq(GExpr) /\ Len(gexprs') = N + 2 /\ gexprs'[N + 1] = e /\ gexprs'[N + 2] = f
      /\ \A i \in 1..N : gexprs'[i] = gexprs[i]
  <2>1. gexprs \in Seq(GExpr) /\ N = Len(gexprs)
    BY <1>b
  <2> QED
    BY <2>1, AppendedTwo
<1>3. /\ at' \in Seq(Bucket) /\ Len(at') = N + 2 /\ at'[N + 1] = b /\ at'[N + 2] = c
      /\ \A i \in 1..N : at'[i] = at[i]
  <2>1. at' = at \o <<b, c>>
    BY DEF b, c
  <2>2. at \in Seq(Bucket) /\ N = Len(at) /\ b \in Bucket
    BY <1>b
  <2> QED
    BY ONLY <1>c, <2>1, <2>2, AppendedTwo
<1>4. Len(dup') = n /\ dup'[n] = 0 /\ \A h \in 1..Len(dup) : dup'[h] = dup[h]
  BY <1>a, <1>b
<1>d. /\ \A i \in 1..(N + 2) : i \in 1..N \/ i = N + 1 \/ i = N + 2
      /\ 1..N \subseteq 1..(N + 2) /\ N + 1 \in 1..(N + 2) /\ N + 2 \in 1..(N + 2)
      /\ N + 1 \notin 1..N /\ N + 2 \notin 1..N
  BY <1>a
<1>f. n = Len(dup) + 1 /\ Len(dup) \in Nat
  BY <1>a
<1>e. /\ n \notin 1..Len(dup) /\ 1..Len(dup) \subseteq 1..n /\ n \in 1..n
      /\ \A h \in 1..n : h \in 1..Len(dup) \/ h = n
  BY ONLY <1>f
<1>5. hidden \subseteq 1..N
  BY <1>a DEF MemoInv, N
<1>6. Live' = Live \cup {n}
  <2>1. Live = {grp[i] : i \in (1..N) \ hidden} /\ Live' = {grp'[i] : i \in (1..(N + 2)) \ hidden}
    BY <1>1 DEF Live, N
  <2>2. Live \cup {n} \subseteq Live'
    <3>1. N + 1 \in (1..(N + 2)) \ hidden
      BY <1>5, <1>d
    <3>2. n \in Live'
      BY <1>1, <2>1, <3>1
    <3>3. \A i \in (1..N) \ hidden : i \in (1..(N + 2)) \ hidden /\ grp[i] = grp'[i]
      BY <1>1, <1>d
    <3>4. Live \subseteq Live'
      BY <2>1, <3>3, Zenon
    <3> QED
      BY <3>2, <3>4
  <2>3. Live' \subseteq Live \cup {n}
    BY <1>1, <1>d, <2>1, ZenonT(30)
  <2> QED
    BY <2>2, <2>3
<1>7. MemoInv'
  <2>1. ASSUME NEW i \in 1..(N + 2) PROVE gexprs'[i].kids \in Seq(1..n)
    <3>1. \A s \in Seq(1..Len(dup)) : s \in Seq(1..n)
      BY <1>a, <1>e
    <3>2. <<n>> \in Seq(1..n)
      BY <1>e
    <3> QED
      BY <1>2, <1>a, <1>d, <3>1, <3>2 DEF MemoInv, N
  <2>2. \A j \in hidden \cup toRehash : at'[j] = NoHash
    BY <1>3, <1>5, <1>a DEF MemoInv
  <2>3. hidden \subseteq 1..(N + 2) /\ root' \in 1..n
    BY <1>5, <1>a, <1>d, <1>e DEF MemoInv
  <2> QED
    BY <1>1, <1>2, <1>3, <1>4, <1>a, <2>1, <2>2, <2>3 DEF MemoInv, Remarking, Exploring
<1>8. ClassInv'
  <2>1. PICK m \in [1..Len(dup) -> 1..Len(dup)] :
          EndsAt(dup, m) /\ \A r \in 1..Len(dup) : dup[r] = 0 => Covered(Live, m, r)
    BY DEF CurrentInv, ClassInv
  <2> DEFINE w == [h \in 1..n |-> IF h = n THEN n ELSE m[h]]
  <2>2. w \in [1..n -> 1..n] /\ w[n] = n /\ \A h \in 1..Len(dup) : w[h] = m[h]
    BY <1>e
  <2> HIDE DEF w
  <2>3. EndsAt(dup', w)
    <3>1. ASSUME NEW h \in 1..n PROVE w[h] = IF dup'[h] = 0 THEN h ELSE w[dup'[h]]
      <4>1. CASE h = n
        BY <1>4, <2>2, <4>1
      <4>2. CASE h \in 1..Len(dup)
        <5>1. dup'[h] = dup[h] /\ w[h] = m[h] /\ m[h] = IF dup[h] = 0 THEN h ELSE m[dup[h]]
          BY <1>4, <2>1, <2>2, <4>2 DEF EndsAt
        <5>2. dup[h] = 0 \/ dup[h] \in 1..Len(dup)
          BY <1>a, <4>2, Typing
        <5> QED
          BY <2>2, <5>1, <5>2
      <4> QED
        BY <1>e, <4>1, <4>2
    <3>2. ASSUME NEW h \in 1..n PROVE w[h] >= h
      <4>1. CASE h = n
        BY <1>b, <2>2, <4>1
      <4>2. CASE h \in 1..Len(dup)
        BY <2>1, <2>2, <4>2 DEF EndsAt
      <4> QED
        BY <1>e, <4>1, <4>2
    <3> QED
      BY <1>4, <2>2, <3>1, <3>2 DEF EndsAt
  <2>4. ASSUME NEW r \in 1..n, dup'[r] = 0 PROVE Covered(Live', w, r)
    <3>1. CASE r = n
      BY <1>6, <2>2, <3>1 DEF Covered
    <3>2. CASE r \in 1..Len(dup)
      <4>1. PICK h \in Live : m[h] = r
        BY <1>4, <2>1, <2>4, <3>2 DEF Covered
      <4>2. h \in 1..Len(dup)
        BY <1>a, Typing
      <4> QED
        BY <1>6, <2>2, <4>1, <4>2 DEF Covered
    <3> QED
      BY <1>e, <3>1, <3>2
  <2>5. pc' = "explore"
    OBVIOUS
  <2> QED
    BY <1>4, <2>2, <2>3, <2>4, <2>5 DEF ClassInv
<1>9. PassInv' /\ UniqueInv'
  BY DEF PassInv, UniqueInv, Merging, Merged
<1>10. ExploreInv'
  <2>1. \A h \in 1..Len(dup) : IF dup[h] = 0 THEN h \in Live ELSE dup[h] \in Live
    BY DEF CurrentInv, ExploreInv, Exploring
  <2>2. \A h \in 1..n : IF dup'[h] = 0 THEN h \in Live' ELSE dup'[h] \in Live'
    BY <1>4, <1>6, <1>e, <2>1
  <2> QED
    BY <1>4, <2>2 DEF ExploreInv
<1>11. BucketsInv'
  <2>1. InTable' \subseteq InTable \cup {N + 1, N + 2}
    BY <1>1, <1>d DEF InTable, N
  <2>2. \A i \in InTable : i \in 1..N /\ at[i] = BucketOf(dup, Live, gexprs[i])
    BY DEF CurrentInv, BucketsInv, Exploring, InTable, N
  <2>3. \A k \in 1..Len(dup) : Canon(dup, Live, k) = Canon(dup', Live', k)
    BY <1>4, <1>6, <1>e DEF Canon
  <2>4. ASSUME NEW x, x.kids \in Seq(1..Len(dup)) PROVE BucketOf(dup, Live, x) = BucketOf(dup', Live', x)
    BY <1>a, <2>3, <2>4, BucketKept
  <2>5. \A i \in 1..N : gexprs[i].kids \in Seq(1..Len(dup))
    BY <1>a DEF MemoInv, N
  <2>6. c = BucketOf(dup', Live', f)
    <3>1. DOMAIN f.kids = {1} /\ f.kids[1] = n
      OBVIOUS
    <3>2. Canon(dup', Live', n) = n
      BY <1>4 DEF Canon
    <3>3. [k \in DOMAIN f.kids |-> Canon(dup', Live', f.kids[k])] = <<n>>
      BY <3>1, <3>2
    <3> QED
      BY <3>3 DEF BucketOf, c
  <2>7. b = BucketOf(dup', Live', e)
    BY <2>4 DEF b
  <2>8. \A i \in InTable' : at'[i] = BucketOf(dup', Live', gexprs'[i])
    BY <1>2, <1>3, <2>1, <2>2, <2>4, <2>5, <2>6, <2>7
  <2> QED
    BY <2>8 DEF BucketsInv
<1> QED
  BY <1>7, <1>8, <1>9, <1>10, <1>11 DEF CurrentInv

(* A transformation marks two groups that have expressions. *)
LEMMA MarkExploredKeeps ==
  ASSUME CurrentInv, LinkInv', pc = "explore", NEW g \in Live, NEW h \in Live,
         MarkDuplicates(g, h, "explore"),
         UNCHANGED <<gexprs, grp, hidden, at, dup, root, toRehash, fNewDup, cursor>>
  PROVE  CurrentInv'
<1>1. Live' = Live /\ InTable' = InTable
  BY DEF Live, InTable
<1>2. /\ pc' = "link" /\ ret' = "explore" /\ toResolve' = <<g, h>> /\ target' = 0
      /\ src' \in Live /\ dst' \in Live
  BY DEF MarkDuplicates
<1>3. MemoInv'
  BY <1>2 DEF CurrentInv, MemoInv, Remarking, Exploring
<1>4. ClassInv'
  BY <1>1, <1>2 DEF CurrentInv, ClassInv
<1>5. PassInv' /\ UniqueInv'
  BY <1>2 DEF PassInv, UniqueInv, Merging, Merged
<1>6. ExploreInv'
  <2>1. <<g, h>> \in Seq(Live)
    OBVIOUS
  <2> QED
    BY <1>1, <1>2, <2>1 DEF CurrentInv, ExploreInv, Exploring
<1>7. BucketsInv'
  BY <1>1 DEF CurrentInv, BucketsInv, Exploring
<1> QED
  BY <1>3, <1>4, <1>5, <1>6, <1>7 DEF CurrentInv
-----------------------------------------------------------------------------
(* A step of AddDuplicateGrp or ResolveDuplicateMaster that follows links: the
   chains stay the same. *)
LEMMA WalkKeeps ==
  ASSUME CurrentInv, LinkInv', FollowLink \/ ResolveStart \/ ResolveStep PROVE CurrentInv'
<1> USE DEF exprVars, mergeVars
<1>1. UNCHANGED <<gexprs, grp, hidden, at, dup, root, toRehash, fNewDup, ret, cursor, pc>>
  BY DEF FollowLink, ResolveStart, ResolveStep
<1>2. Live' = Live /\ InTable' = InTable
  BY <1>1 DEF Live, InTable
<1>a. LinkInv /\ MemoInv /\ pc \in {"link", "resolve"}
  BY DEF CurrentInv, FollowLink, ResolveStart, ResolveStep
<1>b. pc = "link" => src \in 1..Len(dup) /\ dst \in 1..Len(dup)
  BY <1>a DEF LinkInv, LocalsInv
<1>c. pc = "resolve" => toResolve \in Seq(1..Len(dup))
  BY <1>a DEF LinkInv, LocalsInv
<1>3. MemoInv'
  BY <1>1, <1>a DEF MemoInv, Remarking, Exploring
<1>4. ClassInv'
  <2>1. PICK m \in [1..Len(dup) -> 1..Len(dup)] :
          /\ EndsAt(dup, m)
          /\ pc = "resolve" /\ target # 0 => m[Head(toResolve)] = m[target]
          /\ \A r \in 1..Len(dup) :
               dup[r] = 0 => \/ Covered(Live, m, r)
                             \/ /\ pc = "link" /\ r \in {m[src], m[dst]}
                                /\ Covered(Live, m, m[src]) \/ Covered(Live, m, m[dst])
    BY DEF CurrentInv, ClassInv
  <2>2. CASE FollowLink
    <3>1. m[dup[src]] = m[src]
      BY <1>b, <2>1, <2>2 DEF FollowLink, EndsAt
    <3>2. {m[src'], m[dst']} = {m[src], m[dst]} /\ ((m[src'] = m[src] /\ m[dst'] = m[dst]) \/ (m[src'] = m[dst] /\ m[dst'] = m[src]))
      BY <2>2, <3>1 DEF FollowLink
    <3>3. pc = "link" /\ pc' = "link"
      BY <1>1, <2>2 DEF FollowLink
    <3>4. \A r \in 1..Len(dup) :
             dup[r] = 0 => \/ Covered(Live, m, r)
                           \/ /\ r \in {m[src'], m[dst']}
                              /\ Covered(Live, m, m[src']) \/ Covered(Live, m, m[dst'])
      BY <2>1, <3>2
    <3> QED
      BY <1>1, <1>2, <2>1, <3>3, <3>4 DEF ClassInv
  <2>3. CASE ResolveStart
    <3>1. Head(toResolve) \in 1..Len(dup)
      BY <1>c, <2>3 DEF ResolveStart
    <3>2. target' # 0 => toResolve' = toResolve /\ m[target'] = m[Head(toResolve)]
      BY <2>1, <2>3, <3>1 DEF ResolveStart, EndsAt
    <3>3. pc' = "resolve" /\ \A r \in 1..Len(dup) : dup[r] = 0 => Covered(Live, m, r)
      BY <1>1, <2>1, <2>3 DEF ResolveStart
    <3> QED
      BY <1>1, <1>2, <2>1, <3>2, <3>3 DEF ClassInv
  <2>4. CASE ResolveStep
    <3>1. target \in 1..Len(dup)
      BY <1>a, <2>4 DEF ResolveStep, LinkInv, LocalsInv
    <3>2. toResolve' = toResolve /\ m[target'] = m[Head(toResolve)]
      BY <2>1, <2>4, <3>1 DEF ResolveStep, EndsAt
    <3>3. pc' = "resolve" /\ \A r \in 1..Len(dup) : dup[r] = 0 => Covered(Live, m, r)
      BY <1>1, <2>1, <2>4 DEF ResolveStep
    <3> QED
      BY <1>1, <1>2, <2>1, <3>2, <3>3 DEF ClassInv
  <2> QED
    BY <2>2, <2>3, <2>4
<1>5. PassInv'
  <2>1. Merging' <=> Merging
    BY <1>1 DEF Merging
  <2>2. ~Merged /\ ~Merged' /\ pc # "move" /\ pc' # "move"
    BY <1>1, <1>a DEF Merged
  <2>3. ASSUME pc = "resolve", ret = "move"
        PROVE  toResolve' = <<cursor>> \/ (toResolve' = <<>> /\ target' = 0 /\ dup[dup[cursor]] = 0)
    <3>1. CASE ResolveStart
      <4>1. toResolve = <<cursor>>
        BY <2>3, <3>1 DEF CurrentInv, PassInv, ResolveStart
      <4>2. dup[cursor] # 0 /\ Head(toResolve) = cursor
        BY <1>a, <2>3, <4>1 DEF LinkInv, LocalsInv
      <4> QED
        BY <3>1, <4>1, <4>2 DEF ResolveStart
    <3>2. CASE ResolveStep
      BY <2>3, <3>2 DEF CurrentInv, PassInv, ResolveStep
    <3>3. CASE FollowLink
      BY <2>3, <3>3 DEF FollowLink
    <3> QED
      BY <3>1, <3>2, <3>3
  <2> QED
    BY <1>1, <1>2, <2>1, <2>2, <2>3 DEF CurrentInv, PassInv
<1>6. ExploreInv'
  <2> SUFFICES ASSUME Exploring PROVE ExploreInv'
    BY <1>1 DEF Exploring, ExploreInv
  <2>1. \A g \in 1..Len(dup) : IF dup[g] = 0 THEN g \in Live ELSE dup[g] \in Live
    BY DEF CurrentInv, ExploreInv
  <2>2. toResolve \in Seq(Live)
    BY <1>a DEF CurrentInv, ExploreInv
  <2>3. CASE FollowLink
    <3>1. src \in Live /\ dst \in Live /\ pc = "link"
      BY <2>3 DEF CurrentInv, ExploreInv, FollowLink
    <3>2. src' \in Live /\ dst' \in Live
      BY <1>b, <2>1, <2>3, <3>1 DEF FollowLink
    <3> QED
      BY <1>1, <1>2, <2>1, <2>2, <2>3, <3>1, <3>2 DEF FollowLink, ExploreInv
  <2>4. CASE ResolveStart
    <3>1. Head(toResolve) \in 1..Len(dup) /\ toResolve # <<>> /\ pc = "resolve"
      BY <1>c, <2>4 DEF ResolveStart
    <3>2. toResolve' \in Seq(Live)
      BY <2>2, <2>4, <3>1 DEF ResolveStart
    <3>3. target' # 0 => target' \in Live
      BY <2>1, <2>4, <3>1 DEF ResolveStart
    <3> QED
      BY <1>1, <1>2, <2>1, <3>1, <3>2, <3>3 DEF ExploreInv
  <2>5. CASE ResolveStep
    <3>1. target \in 1..Len(dup) /\ pc = "resolve"
      BY <1>a, <2>5 DEF ResolveStep, LinkInv, LocalsInv
    <3>2. target' \in Live /\ toResolve' = toResolve
      BY <2>1, <2>5, <3>1 DEF ResolveStep
    <3> QED
      BY <1>1, <1>2, <2>1, <2>2, <3>1, <3>2 DEF ExploreInv
  <2> QED
    BY <2>3, <2>4, <2>5
<1>7. BucketsInv' /\ UniqueInv'
  BY <1>1, <1>2, <1>a DEF CurrentInv, BucketsInv, UniqueInv, Exploring, Merged
<1> QED
  BY <1>3, <1>4, <1>5, <1>6, <1>7 DEF CurrentInv

(* The links of a group with expressions may change; nothing else hashes anew. *)
LEMMA RelinkBuckets ==
  ASSUME LinkInv, MemoInv, BucketsInv, Exploring, NEW g \in Live, NEW h,
         dup' = [dup EXCEPT ![g] = h],
         UNCHANGED <<gexprs, grp, hidden, at, toRehash>>
  PROVE  BucketsInv'
<1>1. Live' = Live /\ InTable' = InTable
  BY DEF Live, InTable
<1>2. \A k \in 1..Len(dup) : Canon(dup, Live, k) = Canon(dup', Live, k)
  BY Typing DEF Canon
<1>3. ASSUME NEW i \in InTable PROVE BucketOf(dup, Live, gexprs[i]) = BucketOf(dup', Live, gexprs[i])
  <2>1. gexprs[i].kids \in Seq(1..Len(dup)) /\ Len(dup) \in Nat
    BY Typing DEF MemoInv, InTable
  <2>2. ASSUME NEW x, x.kids \in Seq(1..Len(dup)) PROVE BucketOf(dup, Live, x) = BucketOf(dup', Live, x)
    BY ONLY <1>2, <2>1, <2>2, BucketKept
  <2> QED
    BY <2>1, <2>2
<1> QED
  BY <1>1, <1>3 DEF BucketsInv

(* AddLink joins the two chains. *)
LEMMA AddLinkKeeps == ASSUME CurrentInv, LinkInv', AddLink PROVE CurrentInv'
<1> USE DEF exprVars, markVars, mergeVars
<1>1. /\ UNCHANGED <<gexprs, grp, hidden, at, root, toRehash, fNewDup, ret, cursor, src, dst, toResolve, target>>
      /\ pc = "link" /\ pc' = "resolve" /\ dup[src] \in {0, dst} /\ dup' = [dup EXCEPT ![src] = dst]
  BY DEF AddLink
<1>2. Live' = Live /\ InTable' = InTable
  BY <1>1 DEF Live, InTable
<1>a. LinkInv /\ MemoInv /\ ret # "move" /\ target = 0
  BY <1>1 DEF CurrentInv, LinkInv, LocalsInv
<1>b. src \in 1..Len(dup) /\ dst \in 1..Len(dup) /\ src < dst /\ dst # 0
  BY <1>1, <1>a DEF LinkInv, LocalsInv
<1>c. Len(dup') = Len(dup) /\ \A g \in 1..Len(dup) : dup'[g] = IF g = src THEN dst ELSE dup[g]
  BY <1>1, <1>a, <1>b DEF LinkInv, ShapeInv
<1>3. MemoInv'
  BY <1>1, <1>a, <1>c DEF MemoInv, Remarking, Exploring
<1>4. ClassInv'
  <2>1. PICK m \in [1..Len(dup) -> 1..Len(dup)] :
          /\ EndsAt(dup, m)
          /\ \A r \in 1..Len(dup) :
               dup[r] = 0 => \/ Covered(Live, m, r)
                             \/ /\ r \in {m[src], m[dst]}
                                /\ Covered(Live, m, m[src]) \/ Covered(Live, m, m[dst])
    BY DEF CurrentInv, ClassInv
  <2>2. CASE dup[src] = dst
    <3>1. \A g \in 1..Len(dup) : dup'[g] = dup[g]
      BY <1>c, <2>2
    <3>2. m[src] = m[dst]
      BY <1>b, <2>1, <2>2 DEF EndsAt
    <3>3. EndsAt(dup', m)
      BY <1>c, <2>1, <3>1 DEF EndsAt
    <3>4. \A r \in 1..Len(dup) : dup'[r] = 0 => Covered(Live, m, r)
      BY <2>1, <3>1, <3>2
    <3> QED
      BY <1>1, <1>2, <1>a, <1>c, <2>1, <3>3, <3>4 DEF ClassInv
  <2>3. CASE dup[src] = 0
    <3> DEFINE w == [g \in 1..Len(dup) |-> IF m[g] = src THEN m[dst] ELSE m[g]]
    <3>1. m[src] = src /\ m[dst] > src /\ m[dst] \in 1..Len(dup)
      <4>1. m[src] = src /\ m[dst] \in 1..Len(dup) /\ m[dst] >= dst
        BY <1>b, <2>1, <2>3 DEF EndsAt
      <4>2. Len(dup) \in Nat
        BY <1>a, Typing
      <4> QED
        BY <1>b, <4>1, <4>2
    <3>2. w \in [1..Len(dup) -> 1..Len(dup)] /\ \A g \in 1..Len(dup) : w[g] = IF m[g] = src THEN m[dst] ELSE m[g]
      BY <3>1
    <3> HIDE DEF w
    <3>3. EndsAt(dup', w)
      <4> SUFFICES ASSUME NEW g \in 1..Len(dup)
                   PROVE  w[g] >= g /\ w[g] = IF dup'[g] = 0 THEN g ELSE w[dup'[g]]
        BY <1>c, <3>2 DEF EndsAt
      <4>1. m[g] \in 1..Len(dup) /\ m[g] >= g /\ m[g] = IF dup[g] = 0 THEN g ELSE m[dup[g]]
        BY <2>1 DEF EndsAt
      <4>2. w[g] >= g
        BY <3>1, <3>2, <4>1, <1>b
      <4>3. CASE g = src
        BY <1>b, <1>c, <3>1, <3>2, <4>3
      <4>4. CASE g # src /\ dup[g] = 0
        BY <1>c, <3>2, <4>1, <4>4
      <4>5. CASE g # src /\ dup[g] # 0
        <5>1. dup[g] \in 1..Len(dup) /\ m[dup[g]] = m[g]
          BY <1>a, <4>1, <4>5, Typing
        <5> QED
          BY <1>c, <3>2, <4>2, <4>5, <5>1
      <4> QED
        BY <4>2, <4>3, <4>4, <4>5
    <3>4. ASSUME NEW r \in 1..Len(dup), dup'[r] = 0 PROVE Covered(Live, w, r)
      <4>1. r # src /\ dup[r] = 0
        BY <1>b, <1>c, <3>4
      <4>2. ASSUME NEW s, Covered(Live, m, s) PROVE \E g \in Live : m[g] = s /\ w[g] = IF s = src THEN m[dst] ELSE s
        BY <1>a, <3>2, <4>2, Typing DEF Covered
      <4>3. CASE Covered(Live, m, r)
        BY <4>1, <4>2, <4>3 DEF Covered
      <4>4. CASE r = m[dst] /\ (Covered(Live, m, m[src]) \/ Covered(Live, m, m[dst]))
        <5>1. m[dst] # src
          BY <1>b, <3>1
        <5> QED
          BY <3>1, <4>2, <4>4, <5>1 DEF Covered
      <4> QED
        BY <2>1, <3>1, <4>1, <4>3, <4>4
    <3> QED
      BY <1>1, <1>2, <1>a, <1>c, <3>2, <3>3, <3>4 DEF ClassInv
  <2> QED
    BY <1>1, <2>2, <2>3
<1>5. PassInv' /\ UniqueInv'
  BY <1>1, <1>a DEF PassInv, UniqueInv, Merging, Merged
<1>6. ExploreInv'
  <2> SUFFICES ASSUME Exploring PROVE ExploreInv'
    BY <1>1 DEF Exploring, ExploreInv
  <2>1. /\ \A g \in 1..Len(dup) : IF dup[g] = 0 THEN g \in Live ELSE dup[g] \in Live
        /\ dst \in Live /\ toResolve \in Seq(Live)
    BY <1>1 DEF CurrentInv, ExploreInv
  <2>2. \A g \in 1..Len(dup) : IF dup'[g] = 0 THEN g \in Live ELSE dup'[g] \in Live
    BY <1>b, <1>c, <2>1
  <2> QED
    BY <1>1, <1>2, <1>a, <1>c, <2>1, <2>2 DEF ExploreInv
<1>7. BucketsInv'
  <2>1. CASE Exploring
    <3>1. src \in Live
      BY <1>1, <2>1 DEF CurrentInv, ExploreInv
    <3> QED
      BY <1>1, <1>a, <2>1, <3>1, RelinkBuckets DEF CurrentInv
  <2>2. CASE ~Exploring
    BY <1>1, <2>2 DEF BucketsInv, Exploring, Merged
  <2> QED
    BY <2>1, <2>2
<1> QED
  BY <1>3, <1>4, <1>5, <1>6, <1>7 DEF CurrentInv

(* ResolveEnd shortens a chain. *)
LEMMA ResolveEndKeeps == ASSUME CurrentInv, LinkInv', ResolveEnd PROVE CurrentInv'
<1> USE DEF exprVars, markVars, mergeVars
<1> DEFINE h == Head(toResolve)
<1>1. /\ UNCHANGED <<gexprs, grp, hidden, at, root, toRehash, fNewDup, ret, cursor, src, dst, pc>>
      /\ pc = "resolve" /\ target # 0 /\ dup[target] = 0 /\ dup' = [dup EXCEPT ![h] = target]
      /\ toResolve' = Tail(toResolve) /\ target' = 0
  BY DEF ResolveEnd
<1>2. Live' = Live /\ InTable' = InTable
  BY <1>1 DEF Live, InTable
<1>a. LinkInv /\ MemoInv
  BY DEF CurrentInv
<1>b. toResolve # <<>> /\ target \in 1..Len(dup) /\ h < target /\ toResolve \in Seq(1..Len(dup))
  BY <1>1, <1>a DEF LinkInv, LocalsInv
<1>c. h \in 1..Len(dup)
  BY <1>b
<1> HIDE DEF h
<1>d. Len(dup') = Len(dup) /\ \A g \in 1..Len(dup) : dup'[g] = IF g = h THEN target ELSE dup[g]
  <2>1. dup \in Seq(Nat) /\ target \in Nat
    BY <1>a, <1>b DEF LinkInv, ShapeInv
  <2>2. ASSUME NEW s \in Seq(Nat), NEW k \in 1..Len(s), NEW x \in Nat, NEW t, t = [s EXCEPT ![k] = x]
        PROVE  Len(t) = Len(s) /\ \A g \in 1..Len(s) : t[g] = IF g = k THEN x ELSE s[g]
    BY <2>2
  <2> QED
    BY <1>1, <1>c, <2>1, <2>2
<1>3. MemoInv'
  BY <1>1, <1>a, <1>d DEF MemoInv, Remarking, Exploring
<1>4. ClassInv'
  <2>1. PICK m \in [1..Len(dup) -> 1..Len(dup)] :
          /\ EndsAt(dup, m) /\ m[h] = m[target]
          /\ \A r \in 1..Len(dup) : dup[r] = 0 => Covered(Live, m, r)
    BY <1>1 DEF CurrentInv, ClassInv, h
  <2>2. EndsAt(dup', m)
    BY <1>1, <1>b, <1>c, <1>d, <2>1 DEF EndsAt
  <2>3. \A r \in 1..Len(dup) : dup'[r] = 0 => Covered(Live, m, r)
    BY <1>1, <1>d, <2>1
  <2> QED
    BY <1>1, <1>2, <1>d, <2>1, <2>2, <2>3 DEF ClassInv
<1>5. PassInv' /\ UniqueInv'
  <2>1. UniqueInv' /\ ~Merged' /\ pc' # "move"
    BY <1>1 DEF UniqueInv, Merged
  <2>2. ASSUME ret = "move"
        PROVE  /\ toResolve' = <<>> /\ dup'[dup'[cursor]] = 0
               /\ \A g \in 1..Len(dup) : g > cursor => Settled(dup', Live, g)
    <3>1. toResolve = <<cursor>> /\ h = cursor
      BY <1>1, <1>b, <2>2 DEF CurrentInv, PassInv, h
    <3>2. toResolve' = <<>>
      BY <1>1, <3>1
    <3>3. dup'[cursor] = target /\ dup'[target] = 0
      BY <1>1, <1>b, <1>c, <1>d, <3>1
    <3>4. ASSUME NEW g \in 1..Len(dup), g > cursor PROVE Settled(dup', Live, g)
      <4>1. Settled(dup, Live, g)
        BY <1>1, <2>2, <3>4 DEF CurrentInv, PassInv, Merging
      <4>2. dup'[g] = dup[g]
        BY <1>c, <1>d, <3>1, <3>4
      <4>3. dup[g] # 0 => dup[g] \in 1..Len(dup) /\ dup[g] # cursor
        BY <1>a, <1>c, <3>1, <3>4, Typing
      <4> QED
        BY <1>d, <3>1, <4>1, <4>2, <4>3 DEF Settled
    <3> QED
      BY <3>2, <3>3, <3>4
  <2> QED
    BY <1>1, <1>2, <1>d, <2>1, <2>2 DEF PassInv, Merging
<1>6. ExploreInv'
  <2> SUFFICES ASSUME Exploring PROVE ExploreInv'
    BY <1>1 DEF Exploring, ExploreInv
  <2>1. /\ \A g \in 1..Len(dup) : IF dup[g] = 0 THEN g \in Live ELSE dup[g] \in Live
        /\ target \in Live /\ toResolve \in Seq(Live)
    BY <1>1 DEF CurrentInv, ExploreInv
  <2>2. \A g \in 1..Len(dup) : IF dup'[g] = 0 THEN g \in Live ELSE dup'[g] \in Live
    BY <1>1, <1>d, <2>1
  <2>3. Tail(toResolve) \in Seq(Live)
    BY <1>b, <2>1
  <2> QED
    BY <1>1, <1>2, <1>d, <2>2, <2>3 DEF ExploreInv
<1>7. BucketsInv'
  <2>1. CASE Exploring
    <3>1. toResolve \in Seq(Live)
      BY <1>1, <2>1 DEF CurrentInv, ExploreInv
    <3>2. h \in Live
      BY <1>b, <3>1 DEF h
    <3> QED
      BY <1>1, <1>a, <2>1, <3>2, RelinkBuckets DEF CurrentInv
  <2>2. CASE ~Exploring
    BY <1>1, <2>2 DEF BucketsInv, Exploring, Merged
  <2> QED
    BY <2>1, <2>2
<1> QED
  BY <1>3, <1>4, <1>5, <1>6, <1>7 DEF CurrentInv

(* ResolveDuplicateMaster returns to its caller. *)
LEMMA ResolveReturnKeeps == ASSUME CurrentInv, LinkInv', ResolveReturn PROVE CurrentInv'
<1> USE DEF exprVars, mergeVars
<1>1. /\ UNCHANGED <<gexprs, grp, hidden, at, dup, root, toRehash, fNewDup, cursor>>
      /\ pc = "resolve" /\ toResolve = <<>> /\ pc' = ret /\ ret' = "explore"
  BY DEF ResolveReturn
<1>2. Live' = Live /\ InTable' = InTable
  BY <1>1 DEF Live, InTable
<1>a. LinkInv /\ MemoInv /\ ret \in {"explore", "rehash", "move"} /\ (ret = "rehash" => fNewDup)
  BY <1>1 DEF CurrentInv, LinkInv, LocalsInv, MemoInv, Remarking
<1>b. ~Merged' /\ (Exploring' => Exploring) /\ ~Remarking'
  BY <1>1, <1>a DEF Merged, Exploring, Remarking
<1>3. MemoInv'
  BY <1>1, <1>a, <1>b DEF MemoInv
<1>4. ClassInv'
  BY <1>1, <1>2, <1>a DEF CurrentInv, ClassInv
<1>5. PassInv' /\ UniqueInv'
  <2>1. ret = "move" => dup[dup[cursor]] = 0
    BY <1>1 DEF CurrentInv, PassInv
  <2>2. Merging' => Merging
    BY <1>1, <1>a DEF Merging
  <2> QED
    BY <1>1, <1>2, <1>a, <1>b, <2>1, <2>2 DEF CurrentInv, PassInv, UniqueInv
<1>6. ExploreInv'
  BY <1>1, <1>2, <1>a, <1>b DEF CurrentInv, ExploreInv, Exploring
<1>7. BucketsInv'
  BY <1>1, <1>2, <1>b DEF CurrentInv, BucketsInv
<1> QED
  BY <1>3, <1>4, <1>5, <1>6, <1>7 DEF CurrentInv
-----------------------------------------------------------------------------
(* MergeGroup calls ResolveDuplicateMaster for the group it is at. *)
LEMMA MergeGroupKeeps == ASSUME CurrentInv, LinkInv', MergeGroup PROVE CurrentInv'
<1>1. /\ UNCHANGED <<gexprs, grp, hidden, at, dup, root, toRehash, fNewDup, cursor>>
      /\ pc = "merge" /\ pc' = "resolve" /\ ret' = "move" /\ toResolve' = <<cursor>> /\ target' = 0
  BY DEF MergeGroup, exprVars, mergeVars
<1>2. Live' = Live /\ InTable' = InTable
  BY <1>1 DEF Live, InTable
<1>3. MemoInv'
  BY <1>1 DEF CurrentInv, MemoInv, Remarking, Exploring
<1>4. ClassInv'
  BY <1>1, <1>2 DEF CurrentInv, ClassInv
<1>5. PassInv'
  BY <1>1, <1>2 DEF CurrentInv, PassInv, Merging, Merged
<1>6. ExploreInv' /\ BucketsInv' /\ UniqueInv'
  BY <1>1 DEF ExploreInv, BucketsInv, UniqueInv, Exploring, Merged
<1> QED
  BY <1>3, <1>4, <1>5, <1>6 DEF CurrentInv

(* The expressions of a group move to its master. *)
LEMMA MoveKeeps == ASSUME CurrentInv, LinkInv', MoveExpressions PROVE CurrentInv'
<1> DEFINE c == cursor
           d == dup[cursor]
           N == Len(grp)
<1>1. /\ UNCHANGED <<gexprs, hidden, at, dup, root, toRehash, fNewDup>>
      /\ pc = "move" /\ pc' = "merge" /\ cursor' = cursor - 1
      /\ grp' = [i \in DOMAIN grp |-> IF i \in InGroup(cursor) THEN dup[cursor] ELSE grp[i]]
  BY DEF MoveExpressions
<1>a. LinkInv /\ MemoInv /\ N \in Nat /\ Len(dup) \in Nat /\ DOMAIN grp = 1..N
  BY Typing DEF CurrentInv
<1>b. c \in 1..Len(dup) /\ d \in 1..Len(dup) /\ d # c /\ d # 0 /\ dup[d] = 0 /\ c \in Nat
  <2>1. cursor # 0 /\ dup[cursor] # 0 /\ cursor \in 0..Len(dup)
    BY <1>1, <1>a DEF LinkInv, LocalsInv, ShapeInv
  <2>2. cursor \in 1..Len(dup)
    BY <1>a, <2>1
  <2>3. dup[cursor] \in 1..Len(dup) /\ dup[cursor] > cursor
    BY <1>a, <2>1, <2>2, Typing
  <2>4. dup[dup[cursor]] = 0
    BY <1>1 DEF CurrentInv, PassInv
  <2> QED
    BY <1>a, <2>1, <2>2, <2>3, <2>4
<1>2. /\ Len(grp') = N
      /\ \A i \in 1..N : grp'[i] = IF grp[i] = c /\ i \notin hidden THEN d ELSE grp[i]
  <2>1. grp' = [i \in 1..N |-> IF grp[i] = c /\ i \notin hidden THEN d ELSE grp[i]]
    BY <1>1, <1>a DEF InGroup
  <2>2. DOMAIN grp' = 1..N /\ grp' \in Seq(Nat)
    <3>1. DOMAIN grp' = 1..N
      BY <2>1
    <3> QED
      BY <3>1 DEF LinkInv, ShapeInv
  <2>3. Len(grp') = N
    BY <1>a, <2>2
  <2> QED
    BY <2>1, <2>3
<1> HIDE DEF c, d
<1>3. /\ c \notin Live' /\ Live \ {c} \subseteq Live' /\ Live' \subseteq (Live \ {c}) \cup {d}
      /\ c \in Live => d \in Live'
  <2>1. Live = {grp[i] : i \in (1..N) \ hidden} /\ Live' = {grp'[i] : i \in (1..N) \ hidden}
    BY <1>1, <1>2 DEF Live
  <2>2. \A i \in (1..N) \ hidden : grp'[i] = IF grp[i] = c THEN d ELSE grp[i]
    BY <1>2
  <2> QED
    BY <1>b, <2>1, <2>2
<1>4. MemoInv'
  BY <1>1, <1>2, <1>a DEF MemoInv, Remarking, Exploring
<1>5. ClassInv'
  <2>1. PICK m \in [1..Len(dup) -> 1..Len(dup)] :
          EndsAt(dup, m) /\ \A r \in 1..Len(dup) : dup[r] = 0 => Covered(Live, m, r)
    BY <1>1 DEF CurrentInv, ClassInv
  <2>2. m[c] = m[d]
    BY <1>b, <2>1 DEF EndsAt, c, d
  <2>3. ASSUME NEW r \in 1..Len(dup), dup[r] = 0 PROVE Covered(Live', m, r)
    <3>1. PICK g \in Live : m[g] = r
      BY <2>1, <2>3 DEF Covered
    <3> QED
      BY <1>3, <2>2, <3>1 DEF Covered
  <2> QED
    BY <1>1, <2>1, <2>3 DEF ClassInv
<1>6. PassInv'
  <2>1. ASSUME NEW g \in 1..Len(dup), g > cursor' PROVE Settled(dup, Live', g)
    <3>1. CASE g = c
      BY <1>3, <1>b, <3>1 DEF Settled, c, d
    <3>2. CASE g > c
      <4>1. Settled(dup, Live, g)
        BY <1>1, <3>2 DEF CurrentInv, PassInv, Merging, c
      <4> QED
        BY <1>3, <1>b, <4>1 DEF Settled
    <3>3. g = c \/ g > c
      BY <1>1, <1>a, <1>b, <2>1 DEF c
    <3> QED
      BY <3>1, <3>2, <3>3
  <2> QED
    BY <1>1, <2>1 DEF PassInv, Merged
<1>7. ExploreInv' /\ BucketsInv' /\ UniqueInv'
  BY <1>1 DEF ExploreInv, BucketsInv, UniqueInv, Exploring, Merged
<1> QED
  BY <1>4, <1>5, <1>6, <1>7 DEF CurrentInv

(* FRehash empties the table. *)
LEMMA StartRehashKeeps == ASSUME CurrentInv, LinkInv', StartRehash PROVE CurrentInv'
<1>1. /\ UNCHANGED <<gexprs, grp, hidden, dup, cursor>> /\ cursor = 0
      /\ pc = "merge" /\ pc' = "rehash" /\ toRehash' = (DOMAIN grp) \ hidden /\ fNewDup' = FALSE
      /\ at' = [i \in DOMAIN at |-> NoHash]
      /\ root' = IF dup[root] # 0 THEN dup[root] ELSE root
  BY DEF StartRehash, markVars
<1>2. Live' = Live
  BY <1>1 DEF Live
<1>a. LinkInv /\ MemoInv /\ Len(grp) \in Nat /\ DOMAIN grp = 1..Len(grp) /\ Len(at) = Len(grp)
  BY Typing DEF CurrentInv, MemoInv
<1>b. DOMAIN at = 1..Len(grp)
  BY <1>a DEF MemoInv
<1>c. root \in 1..Len(dup) /\ (dup[root] # 0 => dup[root] \in 1..Len(dup))
  BY <1>a, Typing DEF MemoInv
<1>d. \A g \in 1..Len(dup) : Settled(dup, Live, g)
  <2>1. \A g \in 1..Len(dup) : g > 0
    BY <1>a, Typing
  <2> QED
    BY <1>1, <2>1 DEF CurrentInv, PassInv, Merging
<1>3. at' \in Seq(Bucket) /\ Len(at') = Len(grp) /\ \A i \in 1..Len(grp) : at'[i] = NoHash
  <2>1. at' = [i \in 1..Len(grp) |-> NoHash]
    BY <1>1, <1>b
  <2>2. NoHash \in Bucket
    BY DEF Bucket
  <2>3. at' \in [1..Len(grp) -> Bucket]
    BY <2>1, <2>2
  <2> QED
    BY <1>a, <2>1, <2>3
<1>4. MemoInv'
  BY <1>1, <1>3, <1>a, <1>c DEF MemoInv, Remarking, Exploring
<1>5. ClassInv'
  BY <1>1, <1>2 DEF CurrentInv, ClassInv
<1>6. PassInv'
  <2>1. dup[root'] = 0
    BY <1>1, <1>c, <1>d DEF Settled
  <2> QED
    BY <1>1, <1>2, <1>d, <2>1 DEF PassInv, Merging
<1>7. InTable' = {}
  BY <1>1, <1>a DEF InTable
<1>8. ExploreInv' /\ BucketsInv' /\ UniqueInv'
  BY <1>1, <1>7 DEF ExploreInv, BucketsInv, UniqueInv, Exploring
<1> QED
  BY <1>4, <1>5, <1>6, <1>8 DEF CurrentInv

(* Whether two expressions match does not depend on which of them is looked up. *)
LEMMA AlikeSymmetric ==
  ASSUME NEW D, NEW e, NEW f, e.kids \in Seq(Nat), f.kids \in Seq(Nat), Alike(D, e, f)
  PROVE  Alike(D, f, e)
<1>1. \A s \in Seq(Nat) : DOMAIN s = 1..Len(s)
  OBVIOUS
<1>2. DOMAIN e.kids = DOMAIN f.kids
  BY <1>1 DEF Alike
<1>3. \A g, h : Same(D, g, h) => Same(D, h, g)
  BY DEF Same
<1> QED
  BY <1>2, <1>3 DEF Alike

(* An expression that is not found goes into its bucket. *)
LEMMA RehashInsertKeeps ==
  ASSUME CurrentInv, LinkInv', NEW i \in toRehash, RehashInsert(i) PROVE CurrentInv'
<1> DEFINE e == gexprs[i]
           b == BucketOf(dup, Live, e)
           N == Len(grp)
<1>1. /\ UNCHANGED <<pc, gexprs, grp, hidden, dup, root, cursor, fNewDup, src, dst, toResolve, target, ret>>
      /\ pc = "rehash" /\ Find(e.op, e.kids) = {} /\ toRehash' = toRehash \ {i}
      /\ at' = [at EXCEPT ![i] = HashValue(e.op, e.kids)]
  BY DEF RehashInsert, markVars
<1>2. Live' = Live
  BY <1>1 DEF Live
<1>a. LinkInv /\ MemoInv /\ N \in Nat /\ DOMAIN grp = 1..N /\ i \in 1..N /\ i \notin hidden
  BY Typing DEF CurrentInv, MemoInv
<1>b. e \in GExpr /\ e.kids \in Seq(1..Len(dup)) /\ at \in Seq(Bucket) /\ Len(at) = N
  BY <1>a DEF MemoInv
<1>c. b \in Bucket
  BY <1>a, <1>b, BucketType
<1>d. HashValue(e.op, e.kids) = b
  BY <1>a, HashIsBucket
<1>e. ASSUME NEW j \in 1..N, at[j] = b, Alike(dup, e, gexprs[j]) PROVE FALSE
  BY <1>1, <1>a, <1>e, FindIs
<1>f. at' = [at EXCEPT ![i] = b]
  BY <1>1, <1>d
<1>g. \A j \in 1..N : gexprs[j].kids \in Seq(Nat)
  <2>1. gexprs \in Seq(GExpr) /\ Len(gexprs) = N
    BY <1>a DEF MemoInv
  <2>2. \A j \in 1..N : gexprs[j] \in GExpr
    BY ONLY <2>1
  <2>3. \A x \in GExpr : x.kids \in Seq(Nat)
    BY ONLY DEF GExpr
  <2> QED
    BY ONLY <2>2, <2>3
<1> HIDE DEF b, e
<1>3. at' \in Seq(Bucket) /\ Len(at') = N /\ \A j \in 1..N : at'[j] = IF j = i THEN b ELSE at[j]
  <2>1. ASSUME NEW S, NEW s \in Seq(S), NEW x \in S, NEW k \in 1..Len(s), NEW t, t = [s EXCEPT ![k] = x]
        PROVE  t \in Seq(S) /\ Len(t) = Len(s) /\ \A j \in 1..Len(s) : t[j] = IF j = k THEN x ELSE s[j]
    BY <2>1
  <2>2. i \in 1..Len(at)
    BY <1>a, <1>b
  <2>3. at' \in Seq(Bucket) /\ Len(at') = Len(at) /\ \A j \in 1..Len(at) : at'[j] = IF j = i THEN b ELSE at[j]
    BY ONLY <1>b, <1>c, <1>f, <2>1, <2>2
  <2> QED
    BY <1>b, <2>3
<1>4. MemoInv'
  <2>1. \A j \in hidden \cup toRehash' : j \in 1..N /\ j # i /\ at[j] = NoHash
    BY <1>1, <1>a, Typing DEF MemoInv
  <2>2. \A j \in hidden \cup toRehash' : at'[j] = NoHash
    BY <1>3, <2>1
  <2> QED
    BY <1>1, <1>3, <1>a, <2>2 DEF MemoInv, Remarking, Exploring
<1>5. ClassInv' /\ PassInv' /\ ExploreInv'
  BY <1>1, <1>2 DEF CurrentInv, ClassInv, PassInv, ExploreInv, Exploring, Merging, Merged
<1>6. InTable' = InTable \cup {i} /\ InTable \subseteq (1..N) \ {i}
  BY <1>1, <1>a DEF InTable
<1>7. BucketsInv'
  <2>1. Exploring' \/ Merged' => Merged
    BY <1>1 DEF Exploring, Merged
  <2>2. ASSUME Merged PROVE \A j \in InTable' : at'[j] = BucketOf(dup, Live, gexprs[j])
    BY <1>3, <1>6, <1>a, <2>2 DEF CurrentInv, BucketsInv, b, e
  <2> QED
    BY <1>1, <1>2, <2>1, <2>2 DEF BucketsInv
<1>8. UniqueInv'
  <2> SUFFICES ASSUME Merged, NEW j \in InTable', NEW k \in InTable', at'[j] = at'[k],
                      Alike(dup, gexprs[j], gexprs[k])
               PROVE  j = k
    BY <1>1 DEF UniqueInv, Merged
  <2>1. CASE j \in InTable /\ k \in InTable
    BY <1>3, <1>6, <2>1 DEF CurrentInv, UniqueInv
  <2>2. CASE j = i /\ k \in InTable
    BY <1>3, <1>6, <1>a, <1>e, <2>2 DEF e
  <2>3. CASE j \in InTable /\ k = i
    <3>1. Alike(dup, gexprs[k], gexprs[j])
      BY <1>6, <1>a, <1>g, <2>3, AlikeSymmetric
    <3> QED
      BY <1>3, <1>6, <1>a, <1>e, <2>3, <3>1 DEF e
  <2> QED
    BY <1>6, <2>1, <2>2, <2>3
<1> QED
  BY <1>4, <1>5, <1>7, <1>8 DEF CurrentInv

(* An expression that is found becomes a duplicate, and the two groups are marked
   unless their chains end in the same group. *)
LEMMA RehashDuplicateKeeps ==
  ASSUME CurrentInv, LinkInv', NEW i \in toRehash, RehashDuplicate(i) PROVE CurrentInv'
<1> DEFINE e == gexprs[i]
           g == grp[i]
           N == Len(grp)
<1>1. /\ UNCHANGED <<gexprs, grp, at, dup, root, cursor>> /\ pc = "rehash"
      /\ hidden' = hidden \cup {i} /\ toRehash' = toRehash \ {i}
  BY DEF RehashDuplicate
<1>2. PICK f \in Find(e.op, e.kids) :
        IF FNewDuplicates(grp[i], grp[f])
        THEN MarkDuplicates(grp[i], grp[f], "rehash") /\ fNewDup' = TRUE
        ELSE UNCHANGED <<pc, markVars, fNewDup>>
  BY DEF RehashDuplicate
<1> DEFINE h == grp[f]
<1>a. LinkInv /\ MemoInv /\ N \in Nat /\ DOMAIN grp = 1..N /\ i \in 1..N /\ i \notin hidden
  BY Typing DEF CurrentInv, MemoInv
<1>b. f \in 1..N /\ at[f] = BucketOf(dup, Live, e)
  BY <1>a, FindIs
<1>c. f \notin hidden /\ f \notin toRehash /\ f # i
  <2>1. at[f] # NoHash
    BY <1>b, BucketInTable
  <2> QED
    BY <1>a, <2>1 DEF MemoInv
<1> HIDE DEF e
<1>d. g \in Live /\ h \in Live
  BY <1>a, <1>b, <1>c DEF Live
<1>e. g \in 1..Len(dup) /\ h \in 1..Len(dup)
  BY <1>a, <1>d, Typing
<1>3. h \in Live' /\ Live \ {g} \subseteq Live' /\ Live' \subseteq Live
  <2>1. Live = {grp[k] : k \in (1..N) \ hidden} /\ Live' = {grp[k] : k \in (1..N) \ (hidden \cup {i})}
    BY <1>1 DEF Live
  <2> QED
    BY <1>b, <1>c, <2>1
<1> HIDE DEF g, h
<1>4. InTable' = InTable
  BY <1>1 DEF InTable
<1>5. PICK m \in [1..Len(dup) -> 1..Len(dup)] :
        EndsAt(dup, m) /\ \A r \in 1..Len(dup) : dup[r] = 0 => Covered(Live, m, r)
  BY <1>1 DEF CurrentInv, ClassInv
<1>6. ASSUME NEW r \in 1..Len(dup), dup[r] = 0, r # m[g] \/ m[g] = m[h] PROVE Covered(Live', m, r)
  <2>1. PICK x \in Live : m[x] = r
    BY <1>5, <1>6 DEF Covered
  <2> QED
    BY <1>3, <1>6, <2>1 DEF Covered
<1>7. /\ hidden' \subseteq 1..N /\ hidden' \cap toRehash' = {}
      /\ \A j \in hidden' \cup toRehash' : at[j] = NoHash
  BY <1>1, <1>a DEF MemoInv
<1>8. CASE FNewDuplicates(g, h)
  <2>1. MarkDuplicates(g, h, "rehash") /\ fNewDup' = TRUE
    BY <1>2, <1>8 DEF g, h
  <2>2. /\ pc' = "link" /\ ret' = "rehash" /\ target' = 0 /\ ((src' = g /\ dst' = h) \/ (src' = h /\ dst' = g))
    BY <2>1 DEF MarkDuplicates
  <2>3. MemoInv'
    BY <1>1, <1>7, <1>a, <2>1, <2>2 DEF MemoInv, Remarking, Exploring
  <2>4. ClassInv'
    <3>1. Covered(Live', m, m[h])
      BY <1>3 DEF Covered
    <3>2. {m[src'], m[dst']} = {m[g], m[h]} /\ (Covered(Live', m, m[src']) \/ Covered(Live', m, m[dst']))
      BY <2>2, <3>1
    <3>3. \A r \in 1..Len(dup) :
            dup[r] = 0 => \/ Covered(Live', m, r)
                          \/ /\ r \in {m[src'], m[dst']}
                             /\ Covered(Live', m, m[src']) \/ Covered(Live', m, m[dst'])
      BY <1>6, <3>2
    <3> QED
      BY <1>1, <1>5, <2>2, <3>3 DEF ClassInv
  <2>5. PassInv' /\ ExploreInv' /\ BucketsInv' /\ UniqueInv'
    BY <2>2 DEF PassInv, ExploreInv, BucketsInv, UniqueInv, Merging, Merged, Exploring
  <2> QED
    BY <2>3, <2>4, <2>5 DEF CurrentInv
<1>9. CASE ~FNewDuplicates(g, h)
  <2>1. UNCHANGED <<pc, src, dst, toResolve, target, ret, fNewDup>>
    BY <1>2, <1>9 DEF g, h, markVars
  <2>2. g = h \/ (dup[g] = dup[h] /\ dup[g] # 0)
    BY <1>9 DEF FNewDuplicates
  <2>3. m[g] = m[h]
    BY <1>5, <1>e, <2>2 DEF EndsAt
  <2>4. MemoInv'
    BY <1>1, <1>7, <1>a, <2>1 DEF MemoInv, Remarking, Exploring
  <2>5. ClassInv'
    BY <1>1, <1>5, <1>6, <2>1, <2>3 DEF ClassInv
  <2>6. ASSUME Merged PROVE Live' = Live
    <3>1. dup[g] = 0
      BY <1>d, <1>e, <2>6 DEF CurrentInv, PassInv, Settled
    <3>2. g = h
      BY <2>2, <3>1
    <3> QED
      BY <1>3, <3>2
  <2>7. PassInv'
    BY <1>1, <2>1, <2>6 DEF CurrentInv, PassInv, Merging, Merged
  <2>8. ExploreInv'
    BY <1>1, <2>1 DEF ExploreInv, Exploring
  <2>9. BucketsInv' /\ UniqueInv'
    BY <1>1, <1>4, <2>1, <2>6 DEF CurrentInv, BucketsInv, UniqueInv, Exploring, Merged
  <2> QED
    BY <2>4, <2>5, <2>7, <2>8, <2>9 DEF CurrentInv
<1> QED
  BY <1>8, <1>9
-----------------------------------------------------------------------------
(* The memo of a query: every group holds its expression and has no link. *)
LEMMA CurrentInit == Init => CurrentInv
<1> SUFFICES ASSUME Init PROVE CurrentInv
  OBVIOUS
<1> DEFINE n == Len(Query)
<1>1. n \in Nat /\ n # 0
  BY QueryAssumption DEF QueryAssumption
<1>2. \A i \in 1..n : Query[i].kids \in Seq(1..(i - 1)) /\ Query[i].op \in Op
  BY ChildrenAssumption DEF Op
<1>3. ASSUME NEW i \in 1..n PROVE Query[i].kids \in Seq(1..n) /\ Query[i].kids \in Seq(Nat)
  <2>1. 1..(i - 1) \subseteq 1..n /\ 1..(i - 1) \subseteq Nat
    BY <1>1
  <2>2. \A s \in Seq(1..(i - 1)) : s \in Seq(1..n) /\ s \in Seq(Nat)
    BY <2>1
  <2> QED
    BY <1>2, <2>2
<1> HIDE DEF n
<1>4. /\ dup = [i \in 1..n |-> 0] /\ grp = [i \in 1..n |-> i]
      /\ gexprs = [i \in 1..n |-> NewExpr(Query[i].op, Query[i].kids, i)]
      /\ at = [i \in 1..n |-> <<Query[i].op, Query[i].kids>>]
      /\ hidden = {} /\ toRehash = {} /\ pc = "explore" /\ root = n
  BY DEF Init, n
<1>5. Len(dup) = n /\ Len(grp) = n
  BY <1>1, <1>4
<1>6. Live = 1..n
  BY <1>4, <1>5 DEF Live
<1>7. /\ gexprs \in Seq(GExpr) /\ Len(gexprs) = n
      /\ \A i \in 1..n : gexprs[i].op = Query[i].op /\ gexprs[i].kids = Query[i].kids
  <2>1. \A i \in 1..n : NewExpr(Query[i].op, Query[i].kids, i) \in GExpr
    BY <1>1, <1>2, <1>3 DEF NewExpr, GExpr
  <2>2. gexprs \in [1..n -> GExpr]
    BY <1>4, <2>1
  <2>3. gexprs \in Seq(GExpr) /\ Len(gexprs) = n
    BY <1>1, <2>2
  <2> QED
    BY <1>4, <2>3 DEF NewExpr
<1>8. at \in Seq(Bucket) /\ Len(at) = n
  <2>1. \A i \in 1..n : <<Query[i].op, Query[i].kids>> \in Bucket
    BY <1>2, <1>3 DEF Bucket
  <2>2. at \in [1..n -> Bucket]
    BY <1>4, <2>1
  <2> QED
    BY <1>1, <2>2
<1>9. MemoInv
  BY <1>1, <1>3, <1>4, <1>5, <1>7, <1>8 DEF MemoInv, Remarking
<1>10. ClassInv
  <2> DEFINE m == [g \in 1..n |-> g]
  <2>1. m \in [1..n -> 1..n] /\ EndsAt(dup, m)
    BY <1>1, <1>4, <1>5 DEF EndsAt
  <2>2. \A r \in 1..n : Covered(Live, m, r)
    BY <1>6 DEF Covered
  <2> QED
    BY <1>4, <1>5, <2>1, <2>2 DEF ClassInv
<1>11. PassInv /\ UniqueInv
  BY <1>4 DEF PassInv, UniqueInv, Merging, Merged
<1>12. ExploreInv
  BY <1>4, <1>5, <1>6 DEF ExploreInv
<1>13. BucketsInv
  <2> SUFFICES ASSUME NEW i \in 1..n PROVE at[i] = BucketOf(dup, Live, gexprs[i])
    BY <1>5 DEF BucketsInv, InTable
  <2> DEFINE s == Query[i].kids
  <2>1. s \in Seq(1..n)
    BY <1>3
  <2> HIDE DEF s
  <2>2. \A k \in DOMAIN s : s[k] \in 1..n
    <3>1. \A t \in Seq(1..n) : \A k \in DOMAIN t : t[k] \in 1..n
      BY <1>1
    <3> QED
      BY <2>1, <3>1
  <2>3. \A k \in DOMAIN s : Canon(dup, Live, s[k]) = s[k]
    BY <1>6, <2>2 DEF Canon
  <2>4. [k \in DOMAIN s |-> Canon(dup, Live, s[k])] = s
    BY <2>1, <2>3
  <2>5. at[i] = <<Query[i].op, s>> /\ gexprs[i].op = Query[i].op /\ gexprs[i].kids = s
    BY <1>4, <1>7 DEF s
  <2> QED
    BY <2>4, <2>5 DEF BucketOf
<1> QED
  BY LinkInit, <1>9, <1>10, <1>11, <1>12, <1>13 DEF CurrentInv

(* The children of a transformation's result are a sequence of groups. *)
LEMMA ResultTyped ==
  ASSUME CurrentInv, NEW res \in Result, NEW kids \in [1..res.arity -> Groups], NEW g \in Nat
  PROVE  /\ NewExpr(res.op, kids, g) \in GExpr
         /\ NewExpr(res.op, kids, g).op = res.op /\ NewExpr(res.op, kids, g).kids = kids
         /\ kids \in Seq(1..Len(dup))
<1>1. Len(dup) \in Nat
  BY Typing DEF CurrentInv
<1>2. res.arity \in Nat
  BY ResultAssumption
<1>3. kids \in Seq(1..Len(dup)) /\ kids \in Seq(Nat)
  <2> DEFINE a == res.arity
  <2> HIDE DEF a
  <2>1. a \in Nat /\ kids \in [1..a -> 1..Len(dup)] /\ kids \in [1..a -> Nat]
    BY <1>1, <1>2 DEF a, Groups
  <2> QED
    BY <2>1
<1>4. res.op \in Op
  BY DEF Op
<1> QED
  BY <1>3, <1>4 DEF NewExpr, GExpr

(* The end of InsertXformResult. *)
LEMMA InsertXformKeeps ==
  ASSUME CurrentInv, LinkInv', NEW g \in Groups, NEW res \in Result,
         NEW kids \in [1..res.arity -> Groups], InsertXformResult(g, res, kids)
  PROVE  CurrentInv'
<1> DEFINE e == NewExpr(res.op, kids, g)
<1>a. LinkInv /\ MemoInv /\ toRehash = {} /\ pc = "explore"
  BY DEF CurrentInv, MemoInv, InsertXformResult, Exploring
<1>1. g \in Live /\ g \in Nat
  BY <1>a, EmptyIffDead DEF InsertXformResult, Groups
<1>2. e \in GExpr /\ e.op = res.op /\ e.kids = kids /\ e.kids \in Seq(1..Len(dup))
  BY <1>1, ResultTyped
<1>3. UNCHANGED <<hidden, dup, root, toRehash, fNewDup, cursor>>
  BY DEF InsertXformResult, mergeVars
<1>4. PgroupInsert(g, res.op, kids)
  BY DEF InsertXformResult
<1>5. HashValue(res.op, kids) = BucketOf(dup, Live, e)
  <2> HIDE DEF e
  <2>1. HashValue(e.op, e.kids) = BucketOf(dup, Live, e)
    BY <1>a, HashIsBucket
  <2> QED
    BY <1>2, <2>1
<1>6. CASE /\ gexprs' = Append(gexprs, NewExpr(res.op, kids, g)) /\ grp' = Append(grp, g)
           /\ at' = Append(at, HashValue(res.op, kids)) /\ UNCHANGED <<pc, markVars>>
  <2>1. UNCHANGED <<pc, src, dst, toResolve, target, ret>>
    BY <1>6 DEF markVars
  <2>2. gexprs' = Append(gexprs, e) /\ grp' = Append(grp, g) /\ at' = Append(at, BucketOf(dup, Live, e))
    BY <1>5, <1>6
  <2> HIDE DEF e
  <2> QED
    BY ONLY CurrentInv, LinkInv', <1>a, <1>1, <1>2, <1>3, <2>1, <2>2, InsertKeeps
<1>7. ASSUME NEW i \in Find(res.op, kids), MarkDuplicates(g, grp[i], "explore"),
             UNCHANGED <<gexprs, grp, at>>
      PROVE  CurrentInv'
  <2>1. i \in 1..Len(grp) /\ at[i] = BucketOf(dup, Live, e)
    BY <1>5, <1>a, Typing DEF Find
  <2>2. i \notin hidden
    BY <2>1, <1>a, BucketInTable DEF MemoInv
  <2>3. grp[i] \in Live
    BY <2>1, <2>2 DEF Live
  <2> DEFINE h == grp[i]
  <2>4. h \in Live /\ MarkDuplicates(g, h, "explore")
    BY <1>7, <2>3
  <2> HIDE DEF h
  <2> QED
    BY ONLY CurrentInv, LinkInv', <1>a, <1>1, <1>3, <1>7, <2>4, MarkExploredKeeps
<1> QED
  BY <1>4, <1>6, <1>7 DEF PgroupInsert

(* The same with a group for the child. *)
LEMMA InsertNewGroupKeeps ==
  ASSUME CurrentInv, LinkInv', NEW g \in Groups, NEW res \in Result, NEW child \in Result,
         NEW kids \in [1..child.arity -> Groups], InsertNewGroup(g, res, child, kids)
  PROVE  CurrentInv'
<1> DEFINE n == Len(dup) + 1
           e == NewExpr(child.op, kids, n)
           f == NewExpr(res.op, <<n>>, g)
<1>a. LinkInv /\ MemoInv /\ pc = "explore" /\ Len(dup) \in Nat
  BY Typing DEF CurrentInv, InsertNewGroup
<1>1. g \in Live /\ g \in Nat /\ n \in Nat
  BY <1>a, EmptyIffDead DEF InsertNewGroup, Groups
<1>2. e \in GExpr /\ e.op = child.op /\ e.kids = kids /\ e.kids \in Seq(1..Len(dup))
  BY <1>1, ResultTyped
<1>3. f \in GExpr /\ f.op = res.op /\ f.kids = <<n>>
  <2>1. res.op \in Op /\ <<n>> \in Seq(Nat)
    BY <1>1 DEF Op
  <2> QED
    BY <1>1, <2>1 DEF NewExpr, GExpr
<1>4. HashValue(child.op, kids) = BucketOf(dup, Live, e)
  <2> HIDE DEF e
  <2>1. HashValue(e.op, e.kids) = BucketOf(dup, Live, e)
    BY <1>a, HashIsBucket
  <2> QED
    BY <1>2, <2>1
<1>5. /\ gexprs' = gexprs \o <<e, f>> /\ grp' = grp \o <<n, g>> /\ dup' = Append(dup, 0)
      /\ at' = at \o <<BucketOf(dup, Live, e), <<f.op, <<n>>>>>>
  BY <1>3, <1>4 DEF InsertNewGroup
<1>6. UNCHANGED <<pc, hidden, root, toRehash, fNewDup, src, dst, toResolve, target, ret, cursor>>
  BY DEF InsertNewGroup, mergeVars, markVars
<1>7. n = Len(dup) + 1
  OBVIOUS
<1> HIDE DEF n, e, f
<1> QED
  BY ONLY CurrentInv, LinkInv', <1>a, <1>1, <1>2, <1>3, <1>5, <1>6, <1>7, NewGroupKeeps

(* The steps of the searches around GroupMerge, and of its control. *)
LEMMA ControlKeeps ==
  ASSUME CurrentInv, LinkInv',
         \/ \E g \in Groups : PstatsRecursiveDerive(g)
         \/ FinishExploration \/ MergeSkip \/ MergeAgain \/ ResetStats \/ ReturnReset
         \/ \E c \in Groups : VisitChild(c)
         \/ DeriveStats \/ FinalizeSearchStage
         \/ UNCHANGED vars
  PROVE  CurrentInv'
<1> USE DEF exprVars, markVars, mergeVars
<1>1. ASSUME NEW g \in Groups, PstatsRecursiveDerive(g) PROVE CurrentInv'
  BY <1>1, QuietKeeps DEF PstatsRecursiveDerive
<1>2. CASE FinishExploration
  BY <1>2, QuietKeeps DEF FinishExploration
<1>3. CASE MergeSkip
  BY <1>3, QuietKeeps DEF MergeSkip
<1>4. CASE MergeAgain
  BY <1>4, QuietKeeps DEF MergeAgain
<1>5. CASE ResetStats
  BY <1>5, QuietKeeps DEF ResetStats
<1>6. CASE ReturnReset
  BY <1>6, QuietKeeps DEF ReturnReset
<1>7. ASSUME NEW c \in Groups, VisitChild(c) PROVE CurrentInv'
  BY <1>7, QuietKeeps DEF VisitChild
<1>8. CASE DeriveStats
  BY <1>8, QuietKeeps DEF DeriveStats
<1>9. CASE FinalizeSearchStage
  BY <1>9, QuietKeeps DEF FinalizeSearchStage
<1>10. CASE UNCHANGED vars
  BY <1>10, QuietKeeps DEF vars
<1> QED
  BY <1>1, <1>2, <1>3, <1>4, <1>5, <1>6, <1>7, <1>8, <1>9, <1>10

LEMMA CurrentNext == CurrentInv /\ [Next]_vars => CurrentInv'
<1> SUFFICES ASSUME CurrentInv, [Next]_vars PROVE CurrentInv'
  OBVIOUS
<1>1. LinkInv'
  BY LinkNext DEF CurrentInv
<1>2. CASE Explore
  BY <1>1, <1>2, InsertXformKeeps, InsertNewGroupKeeps, ControlKeeps DEF Explore
<1>3. CASE Mark
  BY <1>1, <1>3, WalkKeeps, AddLinkKeeps, ResolveEndKeeps, ResolveReturnKeeps DEF Mark
<1>4. CASE Finalize
  BY <1>1, <1>4, MergeGroupKeeps, MoveKeeps, StartRehashKeeps, RehashInsertKeeps,
     RehashDuplicateKeeps, ControlKeeps DEF Finalize
<1>5. CASE FinishExploration \/ FinalizeSearchStage \/ UNCHANGED vars
  BY <1>1, <1>5, ControlKeeps
<1> QED
  BY <1>2, <1>3, <1>4, <1>5 DEF Next

(* What the invariant says of lookups. *)
LEMMA CurrentLookups == CurrentInv => TableCurrent
<1> SUFFICES ASSUME CurrentInv, pc \in {"explore", "reset", "derive", "search"},
                    NEW i \in DOMAIN gexprs, i \notin hidden
             PROVE  /\ at[i] = HashValue(gexprs[i].op, gexprs[i].kids)
                    /\ pc # "explore" => Find(gexprs[i].op, gexprs[i].kids) = {i}
  BY DEF TableCurrent
<1>1. /\ LinkInv /\ MemoInv /\ toRehash = {} /\ i \in 1..Len(grp)
      /\ DOMAIN grp = 1..Len(grp) /\ DOMAIN gexprs = 1..Len(grp)
  BY Typing DEF CurrentInv, MemoInv, Exploring
<1>2. \A j \in (1..Len(grp)) \ hidden : at[j] = BucketOf(dup, Live, gexprs[j])
  BY <1>1 DEF CurrentInv, BucketsInv, InTable, Exploring, Merged
<1> DEFINE e == gexprs[i]
<1> HIDE DEF e
<1>3. at[i] = BucketOf(dup, Live, e) /\ HashValue(e.op, e.kids) = BucketOf(dup, Live, e)
  BY <1>1, <1>2, HashIsBucket DEF e
<1>4. ASSUME pc # "explore" PROVE Find(e.op, e.kids) = {i}
  <2>1. Alike(dup, e, gexprs[i])
    BY DEF Alike, Same, e
  <2>2. i \in Find(e.op, e.kids)
    BY <1>1, <1>3, <2>1, FindIs
  <2>3. ASSUME NEW j \in Find(e.op, e.kids) PROVE j = i
    <3>1. j \in 1..Len(grp) /\ at[j] = BucketOf(dup, Live, e) /\ Alike(dup, e, gexprs[j])
      BY <1>1, FindIs
    <3>2. j \notin hidden
      BY <1>1, <3>1, BucketInTable DEF MemoInv
    <3>3. i \in InTable /\ j \in InTable /\ Merged /\ at[i] = at[j]
      BY <1>1, <1>3, <1>4, <3>1, <3>2 DEF InTable, Merged
    <3> QED
      BY <3>1, <3>3 DEF CurrentInv, UniqueInv, e
  <2> QED
    BY <2>2, <2>3
<1> QED
  BY <1>3, <1>4 DEF e

(* What it says of the memo after GroupMerge. *)
LEMMA CurrentMerged == CurrentInv => MergeComplete
<1> SUFFICES ASSUME CurrentInv, pc \in {"reset", "derive", "search"}
             PROVE  /\ \A g \in Groups : Empty(g) <=> dup[g] # 0
                    /\ \A g \in Groups : dup[g] # 0 => ~Empty(dup[g])
                    /\ ~Empty(root)
  BY DEF MergeComplete
<1>1. LinkInv /\ MemoInv /\ Merged
  BY DEF CurrentInv, Merged
<1>2. \A g \in 1..Len(dup) : IF dup[g] = 0 THEN g \in Live ELSE dup[g] \in Live
  BY <1>1, MastersLive
<1>3. \A g \in 1..Len(dup) : dup[g] # 0 => g \notin Live
  BY <1>1 DEF CurrentInv, PassInv, Settled
<1>4. root \in 1..Len(dup) /\ dup[root] = 0
  BY <1>1 DEF CurrentInv, PassInv, MemoInv
<1> QED
  BY <1>1, <1>2, <1>3, <1>4, EmptyIffDead DEF Groups

(* Whenever a transformation looks an expression up, every expression of a group is
   in the bucket of the hash value it has at that moment, and after GroupMerge no two
   of them match: links added while exploring leave the hash values alone, and
   the passes of GroupMerge rehash until nothing changes them. *)
THEOREM TableStaysCurrent == Spec => []TableCurrent
<1> QED
  BY CurrentInit, CurrentNext, CurrentLookups, PTL DEF Spec

(* GroupMerge leaves no marked group with expressions, no chain of links, and no
   link to a group without expressions, whatever the transformations marked and
   however many passes it took: CGroupExpression::operator[] follows one link. *)
THEOREM MergeLeavesOneGroup == Spec => []MergeComplete
<1> QED
  BY CurrentInit, CurrentNext, CurrentMerged, PTL DEF Spec

-----------------------------------------------------------------------------
(* What is merged: the argument is about all equivalences of groups. *)
IsEquivalence(R) ==
    /\ \A g \in Nat : <<g, g>> \in R
    /\ \A g \in Nat, h \in Nat : <<g, h>> \in R => <<h, g>> \in R
    /\ \A g \in Nat, h \in Nat, k \in Nat : <<g, h>> \in R /\ <<h, k>> \in R => <<g, k>> \in R
Equivalences == {R \in SUBSET (Nat \X Nat) : IsEquivalence(R)}

(* It has the links, with the one AddDuplicateGrp is about to add. *)
LinksIn(R) == \A g \in 1..Len(dup) : dup[g] # 0 => <<g, dup[g]>> \in R
LinkedIn(R) == LinksIn(R) /\ (pc = "link" => <<src, dst>> \in R)

(* It has the pairs that the transformations asserted, and is a congruence. *)
KidsIn(R, e, f) ==
    /\ e.op = f.op /\ Len(e.kids) = Len(f.kids)
    /\ \A k \in DOMAIN e.kids : <<e.kids[k], f.kids[k]>> \in R
CongruentIn(R) ==
    /\ asserted \subseteq R
    /\ \A i \in 1..Len(grp), j \in 1..Len(grp) :
          KidsIn(R, gexprs[i], gexprs[j]) => <<gexprs[i].home, gexprs[j].home>> \in R

(* It has the ways that expressions were moved; a duplicate that was hidden has a
   twin that was not. *)
HomesIn(R) == \A i \in 1..Len(grp) : <<gexprs[i].home, grp[i]>> \in R
TwinsIn(R) ==
    \A i \in hidden : \E j \in (1..Len(grp)) \ hidden :
        KidsIn(R, gexprs[i], gexprs[j]) /\ <<grp[i], grp[j]>> \in R

(* Links are made only where congruence demands it. *)
SoundInv == \A R \in Equivalences : CongruentIn(R) => LinkedIn(R)

(* What was asserted, moved or hidden is linked. *)
CompleteInv ==
    \A R \in Equivalences : LinkedIn(R) => asserted \subseteq R /\ HomesIn(R) /\ TwinsIn(R)

(* ResolveDuplicateMaster walks from the link of a group along those of others. *)
WalkInv ==
    pc = "resolve" /\ target # 0 =>
      /\ dup[Head(toResolve)] # 0
      /\ \A R \in Equivalences :
            (\A g \in 1..Len(dup) : dup[g] # 0 /\ g # Head(toResolve) => <<g, dup[g]>> \in R)
              => <<dup[Head(toResolve)], target>> \in R

AssertedInv ==
    /\ asserted \subseteq (1..Len(dup)) \X (1..Len(dup))
    /\ \A g \in Nat, h \in Nat : <<g, h>> \in asserted => <<h, g>> \in asserted

PairsInv == SoundInv /\ CompleteInv /\ WalkInv /\ AssertedInv

(* Steps that leave expressions alone and link the same groups. *)
LEMMA PairsKept ==
  ASSUME PairsInv, UNCHANGED <<gexprs, grp, hidden, asserted>>, Len(dup') = Len(dup),
         \A R \in Equivalences : LinkedIn(R)' <=> LinkedIn(R)
  PROVE  SoundInv' /\ CompleteInv' /\ AssertedInv'
<1>1. \A R \in Equivalences : (CongruentIn(R)' <=> CongruentIn(R)) /\ (HomesIn(R)' <=> HomesIn(R))
                              /\ (TwinsIn(R)' <=> TwinsIn(R))
  BY DEF CongruentIn, HomesIn, TwinsIn
<1>2. SoundInv'
  BY <1>1 DEF PairsInv, SoundInv
<1>3. CompleteInv'
  BY <1>1 DEF PairsInv, CompleteInv
<1>4. AssertedInv'
  BY DEF PairsInv, AssertedInv
<1> QED
  BY <1>2, <1>3, <1>4

(* Steps that do not mark groups. *)
LEMMA QuietPairs ==
  ASSUME PairsInv, UNCHANGED <<gexprs, grp, hidden, asserted, dup>>,
         pc # "link", pc' # "link", pc' = "resolve" => target' = 0
  PROVE  PairsInv'
<1>1. \A R \in Equivalences : LinkedIn(R)' <=> LinkedIn(R)
  BY DEF LinkedIn, LinksIn
<1>2. SoundInv' /\ CompleteInv' /\ AssertedInv'
  BY <1>1, PairsKept
<1>3. WalkInv'
  BY DEF WalkInv
<1> QED
  BY <1>2, <1>3 DEF PairsInv

(* Following a link, the pair to be linked stays in the same classes. *)
LEMMA FollowPairs ==
  ASSUME CurrentInv, PairsInv, FollowLink PROVE PairsInv'
<1>1. /\ UNCHANGED <<pc, gexprs, grp, hidden, asserted, dup, target>> /\ pc = "link"
      /\ dup[src] # 0
      /\ \/ src' = dst /\ dst' = dup[src]
         \/ src' = dup[src] /\ dst' = dst
  BY DEF FollowLink, exprVars
<1>2. src \in 1..Len(dup) /\ dst \in Nat /\ dup[src] \in Nat /\ src \in Nat
  BY <1>1, Typing DEF CurrentInv, LinkInv, LocalsInv
<1>3. ASSUME NEW R \in Equivalences PROVE LinkedIn(R)' <=> LinkedIn(R)
  <2>1. LinksIn(R)' <=> LinksIn(R)
    BY <1>1 DEF LinksIn
  <2>2. LinksIn(R) => <<src, dup[src]>> \in R
    BY <1>1, <1>2 DEF LinksIn
  <2>3. <<src, dup[src]>> \in R => (<<src', dst'>> \in R <=> <<src, dst>> \in R)
    <3>1. \A g \in Nat, h \in Nat : <<g, h>> \in R => <<h, g>> \in R
      BY DEF Equivalences, IsEquivalence
    <3>2. \A g \in Nat, h \in Nat, k \in Nat : <<g, h>> \in R /\ <<h, k>> \in R => <<g, k>> \in R
      BY DEF Equivalences, IsEquivalence
    <3> QED
      BY <1>1, <1>2, <3>1, <3>2
  <2> QED
    BY <1>1, <2>1, <2>2, <2>3 DEF LinkedIn
<1>4. SoundInv' /\ CompleteInv' /\ AssertedInv'
  BY <1>1, <1>3, PairsKept
<1>5. WalkInv'
  BY <1>1 DEF WalkInv
<1> QED
  BY <1>4, <1>5 DEF PairsInv

(* The link that is added was counted before. *)
LEMMA AddLinkPairs ==
  ASSUME CurrentInv, PairsInv, AddLink PROVE PairsInv'
<1>1. /\ UNCHANGED <<gexprs, grp, hidden, asserted, target>> /\ pc = "link" /\ pc' = "resolve"
      /\ dup[src] \in {0, dst} /\ dup' = [dup EXCEPT ![src] = dst]
  BY DEF AddLink, exprVars, markVars
<1>2. src \in 1..Len(dup) /\ DOMAIN dup = 1..Len(dup) /\ target = 0 /\ dst # 0
  BY <1>1, Typing DEF CurrentInv, LinkInv, LocalsInv
<1>3. Len(dup') = Len(dup)
  BY <1>1
<1>4. ASSUME NEW R \in Equivalences PROVE LinkedIn(R)' <=> LinkedIn(R)
  <2>1. \A g \in 1..Len(dup) : dup'[g] = IF g = src THEN dst ELSE dup[g]
    BY <1>1, <1>2
  <2> QED
    BY <1>1, <1>2, <1>3, <2>1 DEF LinkedIn, LinksIn
<1>5. SoundInv' /\ CompleteInv' /\ AssertedInv'
  BY <1>1, <1>3, <1>4, PairsKept
<1>6. WalkInv'
  BY <1>1, <1>2 DEF WalkInv
<1> QED
  BY <1>5, <1>6 DEF PairsInv

(* The walk of ResolveDuplicateMaster. *)
LEMMA WalkPairs ==
  ASSUME CurrentInv, PairsInv, ResolveStart \/ ResolveStep PROVE PairsInv'
<1>1. UNCHANGED <<pc, gexprs, grp, hidden, asserted, dup>> /\ pc = "resolve"
  BY DEF ResolveStart, ResolveStep, exprVars
<1>2. \A R \in Equivalences : LinkedIn(R)' <=> LinkedIn(R)
  BY <1>1 DEF LinkedIn, LinksIn
<1>3. SoundInv' /\ CompleteInv' /\ AssertedInv'
  BY <1>1, <1>2, PairsKept
<1>4. ASSUME ResolveStart PROVE WalkInv'
  <2>1. toResolve # <<>> /\ toResolve \in Seq(1..Len(dup))
    BY <1>1, <1>4 DEF ResolveStart, CurrentInv, LinkInv, LocalsInv
  <2>2. Head(toResolve) \in 1..Len(dup)
    BY <2>1
  <2>3. dup[Head(toResolve)] = 0 \/ dup[Head(toResolve)] \in Nat
    BY <2>2, Typing DEF CurrentInv
  <2>4. target' # 0 => toResolve' = toResolve /\ target' = dup[Head(toResolve)]
    BY <1>4 DEF ResolveStart
  <2>5. \A R \in Equivalences : \A g \in Nat : <<g, g>> \in R
    BY DEF Equivalences, IsEquivalence
  <2> QED
    BY <1>1, <2>3, <2>4, <2>5 DEF WalkInv
<1>5. ASSUME ResolveStep PROVE WalkInv'
  <2>1. /\ target # 0 /\ dup[target] # 0 /\ target' = dup[target] /\ toResolve' = toResolve
    BY <1>5 DEF ResolveStep
  <2>2. /\ toResolve \in Seq(1..Len(dup)) /\ toResolve # <<>> /\ target \in 1..Len(dup)
        /\ Head(toResolve) < target
    BY <1>1, <2>1 DEF CurrentInv, LinkInv, LocalsInv
  <2> DEFINE g == Head(toResolve)
  <2>3. g \in 1..Len(dup) /\ target \in Nat /\ g # target
    BY <2>2
  <2>4. dup[g] \in Nat /\ dup[target] \in Nat /\ dup[g] # 0
    BY <1>1, <2>1, <2>2, <2>3, Typing DEF CurrentInv, PairsInv, WalkInv
  <2> HIDE DEF g
  <2>5. ASSUME NEW R \in Equivalences,
               \A x \in 1..Len(dup) : dup[x] # 0 /\ x # g => <<x, dup[x]>> \in R
        PROVE  <<dup[g], dup[target]>> \in R
    <3>1. <<dup[g], target>> \in R
      BY <1>1, <2>1, <2>5 DEF PairsInv, WalkInv, g
    <3>2. <<target, dup[target]>> \in R
      BY <2>1, <2>2, <2>3, <2>5
    <3> QED
      BY <2>3, <2>4, <3>1, <3>2 DEF Equivalences, IsEquivalence
  <2> QED
    BY <1>1, <2>1, <2>4, <2>5 DEF WalkInv, g
<1> QED
  BY <1>3, <1>4, <1>5 DEF PairsInv

(* The link of the resolved group goes to the end of its chain. *)
LEMMA ResolveEndPairs ==
  ASSUME CurrentInv, PairsInv, ResolveEnd PROVE PairsInv'
<1> DEFINE g == Head(toResolve)
<1>1. /\ UNCHANGED <<pc, gexprs, grp, hidden, asserted>> /\ pc = "resolve" /\ target # 0
      /\ dup' = [dup EXCEPT ![g] = target] /\ target' = 0
  BY DEF ResolveEnd, exprVars
<1>2. /\ toResolve \in Seq(1..Len(dup)) /\ toResolve # <<>> /\ target \in 1..Len(dup)
  BY <1>1 DEF CurrentInv, LinkInv, LocalsInv
<1>3. g \in 1..Len(dup) /\ g \in Nat /\ target \in Nat
  BY <1>2
<1>4. dup[g] # 0 /\ dup[g] \in Nat /\ DOMAIN dup = 1..Len(dup)
  BY <1>1, <1>3, Typing DEF CurrentInv, PairsInv, WalkInv
<1>5. \A R \in Equivalences :
        (\A x \in 1..Len(dup) : dup[x] # 0 /\ x # g => <<x, dup[x]>> \in R) => <<dup[g], target>> \in R
  BY <1>1 DEF PairsInv, WalkInv
<1> HIDE DEF g
<1>6. Len(dup') = Len(dup) /\ \A x \in 1..Len(dup) : dup'[x] = IF x = g THEN target ELSE dup[x]
  BY <1>1, <1>4
<1>7. ASSUME NEW R \in Equivalences PROVE LinkedIn(R)' <=> LinkedIn(R)
  <2>1. \A x \in Nat, y \in Nat : <<x, y>> \in R => <<y, x>> \in R
    BY DEF Equivalences, IsEquivalence
  <2>2. \A x \in Nat, y \in Nat, z \in Nat : <<x, y>> \in R /\ <<y, z>> \in R => <<x, z>> \in R
    BY DEF Equivalences, IsEquivalence
  <2>3. ASSUME LinksIn(R) PROVE LinksIn(R)'
    <3>1. <<g, dup[g]>> \in R /\ <<dup[g], target>> \in R
      BY <1>3, <1>4, <1>5, <2>3 DEF LinksIn
    <3>2. <<g, target>> \in R
      BY <1>3, <1>4, <2>2, <3>1
    <3> QED
      BY <1>6, <2>3, <3>2 DEF LinksIn
  <2>4. ASSUME LinksIn(R)' PROVE LinksIn(R)
    <3>1. \A x \in 1..Len(dup) : dup'[x] # 0 => <<x, dup'[x]>> \in R
      BY <1>6, <2>4 DEF LinksIn
    <3>2. <<g, target>> \in R /\ \A x \in 1..Len(dup) : dup[x] # 0 /\ x # g => <<x, dup[x]>> \in R
      BY <1>1, <1>3, <1>6, <3>1
    <3>3. <<dup[g], target>> \in R
      BY <1>5, <3>2
    <3>4. <<g, dup[g]>> \in R
      BY <1>3, <1>4, <2>1, <2>2, <3>2, <3>3
    <3> QED
      BY <3>2, <3>4 DEF LinksIn
  <2> QED
    BY <1>1, <2>3, <2>4 DEF LinkedIn
<1>8. SoundInv' /\ CompleteInv' /\ AssertedInv'
  BY <1>1, <1>6, <1>7, PairsKept
<1>9. WalkInv'
  BY <1>1 DEF WalkInv
<1> QED
  BY <1>8, <1>9 DEF PairsInv

(* The parts of expressions. *)
LEMMA ExprTyping ==
  ASSUME CurrentInv
  PROVE  \A i \in 1..Len(grp) : gexprs[i].kids \in Seq(Nat) /\ gexprs[i].home \in Nat
<1>1. gexprs \in Seq(GExpr) /\ Len(gexprs) = Len(grp)
  BY DEF CurrentInv, MemoInv
<1>2. ASSUME NEW s \in Seq(GExpr) PROVE \A i \in 1..Len(s) : s[i] \in GExpr
  OBVIOUS
<1>3. \A i \in 1..Len(grp) : gexprs[i] \in GExpr
  BY <1>1, <1>2
<1> QED
  BY <1>3 DEF GExpr

(* An equivalence is symmetric and transitive. *)
LEMMA EquivalenceLaws ==
  ASSUME NEW R \in Equivalences
  PROVE  /\ \A g \in Nat : <<g, g>> \in R
         /\ \A g \in Nat, h \in Nat : <<g, h>> \in R => <<h, g>> \in R
         /\ \A g \in Nat, h \in Nat, k \in Nat : <<g, h>> \in R /\ <<h, k>> \in R => <<g, k>> \in R
<1> QED
  BY DEF Equivalences, IsEquivalence

(* Expressions are moved along a link. *)
LEMMA MovePairs ==
  ASSUME CurrentInv, PairsInv, MoveExpressions PROVE PairsInv'
<1> DEFINE c == cursor
           N == Len(grp)
<1>1. /\ UNCHANGED <<gexprs, hidden, asserted, dup>> /\ pc = "move" /\ pc' = "merge"
      /\ grp' = [i \in DOMAIN grp |-> IF i \in InGroup(c) THEN dup[c] ELSE grp[i]]
  BY DEF MoveExpressions
<1>2. /\ DOMAIN grp = 1..N /\ N \in Nat /\ c \in 1..Len(dup) /\ dup[c] # 0 /\ c \in Nat /\ dup[c] \in Nat
      /\ \A i \in 1..N : grp[i] \in Nat
  <2>1. c # 0 /\ dup[c] # 0 /\ c \in 0..Len(dup) /\ Len(dup) \in Nat
    BY <1>1, Typing DEF CurrentInv, LinkInv, ShapeInv, LocalsInv
  <2>2. c \in 1..Len(dup)
    BY <2>1
  <2> QED
    BY <2>1, <2>2, Typing DEF CurrentInv
<1>3. /\ Len(grp') = N /\ \A i \in 1..N : grp'[i] = grp[i] \/ (grp[i] = c /\ grp'[i] = dup[c])
  <2>1. DOMAIN grp' = 1..N
    BY <1>1, <1>2
  <2>2. Len(grp') = N
    BY <1>1, <1>2
  <2> QED
    BY <1>1, <1>2, <2>2 DEF InGroup
<1>h. \A i \in 1..N : gexprs[i].home \in Nat
  BY ExprTyping
<1> HIDE DEF N, c
<1>4. ASSUME NEW R \in Equivalences, LinkedIn(R)
      PROVE  \A i \in 1..N : grp'[i] \in Nat /\ <<grp[i], grp'[i]>> \in R /\ <<grp'[i], grp[i]>> \in R
  <2>1. <<c, dup[c]>> \in R
    BY <1>2, <1>4 DEF LinkedIn, LinksIn
  <2>2. <<dup[c], c>> \in R
    BY <1>2, <2>1 DEF Equivalences, IsEquivalence
  <2>3. \A g \in Nat : <<g, g>> \in R
    BY DEF Equivalences, IsEquivalence
  <2> QED
    BY <1>2, <1>3, <2>1, <2>2, <2>3
<1>5. \A R \in Equivalences : LinkedIn(R)' <=> LinkedIn(R)
  BY <1>1 DEF LinkedIn, LinksIn
<1>6. SoundInv'
  <2>1. \A R \in Equivalences : CongruentIn(R)' <=> CongruentIn(R)
    BY <1>1, <1>3 DEF CongruentIn, N
  <2> QED
    BY <1>5, <2>1 DEF PairsInv, SoundInv
<1>7. CompleteInv'
  <2> SUFFICES ASSUME NEW R \in Equivalences, LinkedIn(R)'
               PROVE  asserted' \subseteq R /\ HomesIn(R)' /\ TwinsIn(R)'
    BY DEF CompleteInv
  <2>1. LinkedIn(R) /\ asserted \subseteq R /\ HomesIn(R) /\ TwinsIn(R)
    BY <1>5 DEF PairsInv, CompleteInv
  <2>2. \A x \in Nat, y \in Nat, z \in Nat : <<x, y>> \in R /\ <<y, z>> \in R => <<x, z>> \in R
    BY DEF Equivalences, IsEquivalence
  <2>3. \A i \in 1..N : grp[i] \in Nat /\ grp'[i] \in Nat /\ <<grp[i], grp'[i]>> \in R /\ <<grp'[i], grp[i]>> \in R
    BY <1>2, <1>4, <2>1
  <2>4. HomesIn(R)'
    BY <1>1, <1>3, <1>h, <2>1, <2>2, <2>3 DEF HomesIn, N
  <2>5. hidden \subseteq 1..N
    BY DEF CurrentInv, MemoInv, N
  <2>6. ASSUME NEW i \in 1..N, NEW j \in 1..N, <<grp[i], grp[j]>> \in R PROVE <<grp'[i], grp'[j]>> \in R
    <3>1. <<grp'[i], grp[i]>> \in R /\ <<grp[j], grp'[j]>> \in R
      BY <2>3
    <3>2. <<grp'[i], grp[j]>> \in R
      BY <2>2, <2>3, <2>6, <3>1
    <3> QED
      BY <2>2, <2>3, <3>1, <3>2
  <2>7. TwinsIn(R)'
    BY <1>1, <1>3, <2>1, <2>5, <2>6 DEF TwinsIn, N
  <2> QED
    BY <1>1, <2>1, <2>4, <2>7
<1>8. WalkInv' /\ AssertedInv'
  BY <1>1 DEF WalkInv, AssertedInv, PairsInv
<1> QED
  BY <1>6, <1>7, <1>8 DEF PairsInv

(* Expressions that match have children in the same classes. *)
LEMMA AlikeKids ==
  ASSUME CurrentInv, NEW R \in Equivalences, LinksIn(R),
         NEW i \in 1..Len(grp), NEW j \in 1..Len(grp), Alike(dup, gexprs[i], gexprs[j])
  PROVE  KidsIn(R, gexprs[i], gexprs[j])
<1> DEFINE e == gexprs[i]
           f == gexprs[j]
<1>1. e.kids \in Seq(1..Len(dup)) /\ f.kids \in Seq(1..Len(dup))
  BY DEF CurrentInv, MemoInv
<1>2. /\ e.op = f.op /\ Len(e.kids) = Len(f.kids) /\ \A k \in DOMAIN e.kids : Same(dup, e.kids[k], f.kids[k])
  BY DEF Alike
<1> HIDE DEF e, f
<1>3. ASSUME NEW k \in DOMAIN e.kids PROVE <<e.kids[k], f.kids[k]>> \in R
  <2> DEFINE g == e.kids[k]
             h == f.kids[k]
  <2>1. g \in 1..Len(dup) /\ h \in 1..Len(dup)
    BY <1>1, <1>2, SMTT(30)
  <2>2. Same(dup, g, h)
    BY <1>2
  <2> HIDE DEF g, h
  <2>3. /\ g \in Nat /\ h \in Nat /\ g # 0 /\ h # 0
        /\ dup[g] \in Nat /\ dup[h] \in Nat
    BY <2>1, Typing DEF CurrentInv
  <2>4. (dup[g] # 0 => <<g, dup[g]>> \in R) /\ (dup[h] # 0 => <<h, dup[h]>> \in R)
    BY <2>1 DEF LinksIn
  <2>5. /\ <<g, g>> \in R /\ (<<h, dup[h]>> \in R => <<dup[h], h>> \in R)
        /\ (<<g, dup[g]>> \in R /\ <<dup[g], h>> \in R => <<g, h>> \in R)
    BY <2>3 DEF Equivalences, IsEquivalence
  <2>6. <<g, h>> \in R
    BY <2>2, <2>3, <2>4, <2>5 DEF Same
  <2> QED
    BY <2>6 DEF g, h
<1> QED
  BY <1>2, <1>3 DEF KidsIn, e, f

(* KidsIn is symmetric and transitive. *)
LEMMA KidsEquivalence ==
  ASSUME CurrentInv, NEW R \in Equivalences,
         NEW i \in 1..Len(grp), NEW j \in 1..Len(grp), NEW l \in 1..Len(grp)
  PROVE  /\ KidsIn(R, gexprs[i], gexprs[j]) => KidsIn(R, gexprs[j], gexprs[i])
         /\ KidsIn(R, gexprs[i], gexprs[j]) /\ KidsIn(R, gexprs[j], gexprs[l]) => KidsIn(R, gexprs[i], gexprs[l])
<1>1. \A x \in 1..Len(grp) : gexprs[x].kids \in Seq(Nat)
  BY ExprTyping
<1> DEFINE a == gexprs[i]
           b == gexprs[j]
           c == gexprs[l]
<1>2. a.kids \in Seq(Nat) /\ b.kids \in Seq(Nat) /\ c.kids \in Seq(Nat)
  BY <1>1
<1> HIDE DEF a, b, c
<1>3. \A x \in Nat, y \in Nat : <<x, y>> \in R => <<y, x>> \in R
  BY DEF Equivalences, IsEquivalence
<1>4. \A x \in Nat, y \in Nat, z \in Nat : <<x, y>> \in R /\ <<y, z>> \in R => <<x, z>> \in R
  BY DEF Equivalences, IsEquivalence
<1>5. \A s \in Seq(Nat), t \in Seq(Nat) : Len(s) = Len(t) => DOMAIN s = DOMAIN t /\ \A k \in DOMAIN s : s[k] \in Nat /\ t[k] \in Nat
  OBVIOUS
<1>6. ASSUME KidsIn(R, a, b) PROVE KidsIn(R, b, a)
  <2>1. DOMAIN a.kids = DOMAIN b.kids /\ \A k \in DOMAIN a.kids : a.kids[k] \in Nat /\ b.kids[k] \in Nat
    BY <1>2, <1>5, <1>6 DEF KidsIn
  <2> QED
    BY <1>3, <1>6, <2>1 DEF KidsIn
<1>7. ASSUME KidsIn(R, a, b), KidsIn(R, b, c) PROVE KidsIn(R, a, c)
  <2>1. /\ DOMAIN a.kids = DOMAIN b.kids /\ \A k \in DOMAIN a.kids : a.kids[k] \in Nat /\ b.kids[k] \in Nat
        /\ DOMAIN c.kids = DOMAIN b.kids /\ \A k \in DOMAIN b.kids : c.kids[k] \in Nat /\ b.kids[k] \in Nat
    BY <1>2, <1>5, <1>7 DEF KidsIn
  <2> QED
    BY <1>4, <1>7, <2>1 DEF KidsIn
<1> QED
  BY <1>6, <1>7 DEF a, b, c

(* FRehash hides an expression whose twin is in the table; their groups are the
   same, or linked, or marked. *)
LEMMA RehashPairs ==
  ASSUME CurrentInv, PairsInv, NEW i \in toRehash, RehashDuplicate(i) PROVE PairsInv'
<1> DEFINE e == gexprs[i]
           g == grp[i]
           N == Len(grp)
<1>1. /\ UNCHANGED <<gexprs, grp, asserted, dup>> /\ pc = "rehash"
      /\ hidden' = hidden \cup {i}
  BY DEF RehashDuplicate
<1>2. PICK f \in Find(e.op, e.kids) :
        IF FNewDuplicates(grp[i], grp[f])
        THEN MarkDuplicates(grp[i], grp[f], "rehash") /\ fNewDup' = TRUE
        ELSE UNCHANGED <<pc, markVars, fNewDup>>
  BY DEF RehashDuplicate
<1> DEFINE h == grp[f]
<1>a. LinkInv /\ MemoInv /\ N \in Nat /\ DOMAIN grp = 1..N /\ i \in 1..N /\ i \notin hidden /\ hidden \subseteq 1..N
  BY Typing DEF CurrentInv, MemoInv
<1>b. f \in 1..N /\ at[f] = BucketOf(dup, Live, e) /\ Alike(dup, e, gexprs[f])
  BY <1>a, FindIs
<1>c. f \notin hidden /\ f \notin toRehash /\ f # i
  <2>1. at[f] # NoHash
    BY <1>b, BucketInTable
  <2> QED
    BY <1>a, <2>1 DEF MemoInv
<1>d. g \in 1..Len(dup) /\ h \in 1..Len(dup) /\ g \in Nat /\ h \in Nat
  BY <1>a, <1>b, Typing
<1>e. dup[g] \in Nat /\ dup[h] \in Nat
  <2>1. \A x \in 1..Len(dup) : dup[x] \in Nat
    BY <1>a, Typing
  <2> QED
    BY <1>d, <2>1
<1>f. gexprs[i].home \in Nat /\ gexprs[f].home \in Nat
  <2>1. \A x \in 1..N : gexprs[x].home \in Nat
    BY ExprTyping
  <2> QED
    BY <1>a, <1>b, <2>1
<1>3. ASSUME NEW R \in Equivalences, LinkedIn(R) PROVE KidsIn(R, gexprs[i], gexprs[f])
  BY <1>3, <1>a, <1>b, AlikeKids DEF LinkedIn
<1>4. /\ pc' # "resolve"
      /\ \/ /\ ~ FNewDuplicates(g, h) /\ pc' = "rehash"
         \/ pc' = "link" /\ ((src' = g /\ dst' = h) \/ (src' = h /\ dst' = g))
  BY <1>1, <1>2 DEF MarkDuplicates
<1> HIDE DEF e, g, h, N
<1>5. ASSUME NEW R \in Equivalences, LinkedIn(R), <<g, h>> \in R PROVE LinkedIn(R)'
  <2>1. <<h, g>> \in R
    BY <1>5, <1>d DEF Equivalences, IsEquivalence
  <2> QED
    BY <1>1, <1>4, <1>5, <2>1 DEF LinkedIn, LinksIn
<1>6. ASSUME NEW R \in Equivalences, LinkedIn(R)' PROVE LinkedIn(R) /\ <<g, h>> \in R
  <2>1. LinkedIn(R)
    BY <1>1, <1>6 DEF LinkedIn, LinksIn
  <2>s. \A x \in Nat, y \in Nat : <<x, y>> \in R => <<y, x>> \in R
    BY EquivalenceLaws
  <2>2. CASE pc' = "link"
    <3>1. <<src', dst'>> \in R
      BY <1>6, <2>2 DEF LinkedIn
    <3>2. <<g, h>> \in R \/ <<h, g>> \in R
      BY <1>1, <1>4, <2>2, <3>1
    <3> QED
      BY <1>d, <2>1, <2>s, <3>2
  <2>3. CASE ~ FNewDuplicates(g, h)
    <3>1. g = h \/ (dup[g] = dup[h] /\ dup[g] # 0)
      BY <2>3 DEF FNewDuplicates
    <3>2. CASE g = h
      BY <1>d, <2>1, <3>2, EquivalenceLaws
    <3>3. CASE dup[g] = dup[h] /\ dup[g] # 0
      <4>1. <<g, dup[g]>> \in R /\ <<h, dup[g]>> \in R
        BY <1>d, <2>1, <3>3 DEF LinkedIn, LinksIn
      <4>2. <<dup[g], h>> \in R
        BY <1>d, <1>e, <2>s, <4>1
      <4> QED
        BY <1>d, <1>e, <2>1, <4>1, <4>2, EquivalenceLaws
    <3> QED
      BY <3>1, <3>2, <3>3
  <2> QED
    BY <1>4, <2>1, <2>2, <2>3
<1>7. SoundInv'
  <2> SUFFICES ASSUME NEW R \in Equivalences, CongruentIn(R)' PROVE LinkedIn(R)'
    BY DEF SoundInv
  <2>1. CongruentIn(R)
    BY <1>1 DEF CongruentIn
  <2>2. LinkedIn(R)
    BY <2>1 DEF PairsInv, SoundInv
  <2>3. HomesIn(R)
    BY <2>2 DEF PairsInv, CompleteInv
  <2>4. <<gexprs[i].home, gexprs[f].home>> \in R
    BY <1>3, <1>a, <1>b, <2>1, <2>2 DEF CongruentIn, N
  <2>5. <<gexprs[i].home, g>> \in R /\ <<gexprs[f].home, h>> \in R
    BY <1>a, <1>b, <2>3 DEF HomesIn, g, h, N
  <2>6. <<g, gexprs[i].home>> \in R
    BY <1>d, <1>f, <2>5 DEF Equivalences, IsEquivalence
  <2>7. <<g, gexprs[f].home>> \in R
    BY <1>d, <1>f, <2>4, <2>6 DEF Equivalences, IsEquivalence
  <2>8. <<g, h>> \in R
    BY <1>d, <1>f, <2>5, <2>7 DEF Equivalences, IsEquivalence
  <2> QED
    BY <1>5, <2>2, <2>8
<1>8. CompleteInv'
  <2> SUFFICES ASSUME NEW R \in Equivalences, LinkedIn(R)'
               PROVE  asserted' \subseteq R /\ HomesIn(R)' /\ TwinsIn(R)'
    BY DEF CompleteInv
  <2>1. LinkedIn(R) /\ <<g, h>> \in R
    BY <1>6
  <2>2. asserted \subseteq R /\ HomesIn(R) /\ TwinsIn(R)
    BY <2>1 DEF PairsInv, CompleteInv
  <2>3. KidsIn(R, gexprs[i], gexprs[f]) /\ <<grp[i], grp[f]>> \in R
    BY <1>3, <2>1 DEF g, h
  <2>4. ASSUME NEW j \in hidden'
        PROVE  \E l \in (1..N) \ hidden' : KidsIn(R, gexprs[j], gexprs[l]) /\ <<grp[j], grp[l]>> \in R
    <3>1. CASE j = i
      BY <1>1, <1>b, <1>c, <2>3, <3>1
    <3>2. CASE j \in hidden
      <4>1. PICK l \in (1..N) \ hidden : KidsIn(R, gexprs[j], gexprs[l]) /\ <<grp[j], grp[l]>> \in R
        BY <2>2, <3>2 DEF TwinsIn, N
      <4>2. CASE l # i
        BY <1>1, <4>1, <4>2
      <4>3. CASE l = i
        <5>1. KidsIn(R, gexprs[j], gexprs[f])
          BY <1>a, <1>b, <2>3, <3>2, <4>1, <4>3, KidsEquivalence DEF N
        <5>2. grp[j] \in Nat /\ grp[l] \in Nat /\ grp[f] \in Nat
          BY <1>a, <1>b, <3>2, <4>1, Typing DEF N
        <5>3. <<grp[j], grp[f]>> \in R
          BY <2>3, <4>1, <4>3, <5>2 DEF Equivalences, IsEquivalence
        <5> QED
          BY <1>1, <1>b, <1>c, <5>1, <5>3
      <4> QED
        BY <4>2, <4>3
    <3> QED
      BY <1>1, <2>4, <3>1, <3>2
  <2>5. TwinsIn(R)'
    BY <1>1, <2>4 DEF TwinsIn, N
  <2> QED
    BY <1>1, <2>2, <2>5 DEF HomesIn
<1>9. WalkInv' /\ AssertedInv'
  BY <1>1, <1>4 DEF WalkInv, AssertedInv, PairsInv
<1> QED
  BY <1>7, <1>8, <1>9 DEF PairsInv

(* A result that is already in the memo asserts that two groups are equal. *)
LEMMA AssertPairs ==
  ASSUME CurrentInv, PairsInv, pc = "explore", UNCHANGED <<gexprs, grp, hidden, dup>>,
         NEW g \in 1..Len(dup), NEW h \in 1..Len(dup), MarkDuplicates(g, h, "explore"),
         asserted' = asserted \cup {<<g, h>>, <<h, g>>}
  PROVE  PairsInv'
<1>1. pc' = "link" /\ ((src' = g /\ dst' = h) \/ (src' = h /\ dst' = g))
  BY DEF MarkDuplicates
<1>2. g \in Nat /\ h \in Nat
  OBVIOUS
<1>3. ASSUME NEW R \in Equivalences
      PROVE  /\ LinkedIn(R)' <=> LinkedIn(R) /\ <<g, h>> \in R
             /\ asserted' \subseteq R <=> asserted \subseteq R /\ <<g, h>> \in R
  <2>1. <<g, h>> \in R <=> <<h, g>> \in R
    BY <1>2, EquivalenceLaws
  <2> QED
    BY <1>1, <2>1 DEF LinkedIn, LinksIn
<1>4. SoundInv'
  <2> SUFFICES ASSUME NEW R \in Equivalences, CongruentIn(R)' PROVE LinkedIn(R)'
    BY DEF SoundInv
  <2>1. CongruentIn(R) /\ <<g, h>> \in R
    BY <1>3 DEF CongruentIn
  <2> QED
    BY <1>3, <2>1 DEF PairsInv, SoundInv
<1>5. CompleteInv'
  <2> SUFFICES ASSUME NEW R \in Equivalences, LinkedIn(R)'
               PROVE  asserted' \subseteq R /\ HomesIn(R)' /\ TwinsIn(R)'
    BY DEF CompleteInv
  <2>1. asserted \subseteq R /\ HomesIn(R) /\ TwinsIn(R)
    BY <1>3 DEF PairsInv, CompleteInv
  <2> QED
    BY <1>3, <2>1 DEF HomesIn, TwinsIn
<1>6. WalkInv' /\ AssertedInv'
  BY <1>1 DEF WalkInv, AssertedInv, PairsInv
<1> QED
  BY <1>4, <1>5, <1>6 DEF PairsInv

(* New expressions are in the groups they were made for. *)
LEMMA InsertPairs ==
  ASSUME CurrentInv, PairsInv, pc = "explore", UNCHANGED <<pc, hidden, asserted>>,
         Len(grp) <= Len(grp'), Len(grp') \in Nat,
         \A i \in 1..Len(grp) : gexprs'[i] = gexprs[i] /\ grp'[i] = grp[i],
         \A i \in 1..Len(grp') : i > Len(grp) => grp'[i] \in Nat /\ gexprs'[i].home = grp'[i],
         Len(dup) <= Len(dup'), Len(dup') \in Nat,
         \A g \in 1..Len(dup) : dup'[g] = dup[g],
         \A g \in 1..Len(dup') : g > Len(dup) => dup'[g] = 0
  PROVE  PairsInv'
<1>1. Len(grp) \in Nat /\ Len(dup) \in Nat
  BY Typing DEF CurrentInv
<1>2. /\ \A i \in 1..Len(grp) : i \in 1..Len(grp')
      /\ \A g \in 1..Len(dup) : g \in 1..Len(dup')
      /\ \A i \in 1..Len(grp') : i \in 1..Len(grp) \/ i > Len(grp)
      /\ \A g \in 1..Len(dup') : g \in 1..Len(dup) \/ g > Len(dup)
  BY <1>1
<1>3. hidden \subseteq 1..Len(grp)
  BY DEF CurrentInv, MemoInv
<1>4. ASSUME NEW R \in Equivalences PROVE LinkedIn(R)' <=> LinkedIn(R)
  BY <1>2 DEF LinkedIn, LinksIn
<1>5. SoundInv'
  <2> SUFFICES ASSUME NEW R \in Equivalences, CongruentIn(R)' PROVE LinkedIn(R)'
    BY DEF SoundInv
  <2>1. asserted \subseteq R /\ \A i \in 1..Len(grp'), j \in 1..Len(grp') :
           KidsIn(R, gexprs'[i], gexprs'[j]) => <<gexprs'[i].home, gexprs'[j].home>> \in R
    BY DEF CongruentIn
  <2>2. ASSUME NEW i \in 1..Len(grp), NEW j \in 1..Len(grp), KidsIn(R, gexprs[i], gexprs[j])
        PROVE  <<gexprs[i].home, gexprs[j].home>> \in R
    <3>1. i \in 1..Len(grp') /\ j \in 1..Len(grp') /\ gexprs'[i] = gexprs[i] /\ gexprs'[j] = gexprs[j]
      BY <1>2
    <3> QED
      BY <2>1, <2>2, <3>1
  <2>3. CongruentIn(R)
    BY <2>1, <2>2 DEF CongruentIn
  <2> QED
    BY <1>4, <2>3 DEF PairsInv, SoundInv
<1>6. CompleteInv'
  <2> SUFFICES ASSUME NEW R \in Equivalences, LinkedIn(R)'
               PROVE  asserted' \subseteq R /\ HomesIn(R)' /\ TwinsIn(R)'
    BY DEF CompleteInv
  <2>1. asserted \subseteq R /\ HomesIn(R) /\ TwinsIn(R)
    BY <1>4 DEF PairsInv, CompleteInv
  <2>2. ASSUME NEW i \in 1..Len(grp') PROVE <<gexprs'[i].home, grp'[i]>> \in R
    <3>1. CASE i \in 1..Len(grp)
      BY <2>1, <3>1 DEF HomesIn
    <3>2. CASE i > Len(grp)
      <4>1. gexprs'[i].home = grp'[i] /\ grp'[i] \in Nat
        BY <3>2
      <4> QED
        BY <4>1, EquivalenceLaws
    <3> QED
      BY <1>2, <3>1, <3>2
  <2>3. ASSUME NEW i \in hidden
        PROVE  \E j \in (1..Len(grp')) \ hidden :
                 KidsIn(R, gexprs'[i], gexprs'[j]) /\ <<grp'[i], grp'[j]>> \in R
    <3>1. PICK j \in (1..Len(grp)) \ hidden : KidsIn(R, gexprs[i], gexprs[j]) /\ <<grp[i], grp[j]>> \in R
      BY <2>1 DEF TwinsIn
    <3>2. i \in 1..Len(grp) /\ j \in (1..Len(grp')) \ hidden
      BY <1>2, <1>3
    <3>3. gexprs'[i] = gexprs[i] /\ grp'[i] = grp[i] /\ gexprs'[j] = gexprs[j] /\ grp'[j] = grp[j]
      BY <1>3
    <3> QED
      BY <3>1, <3>2, <3>3
  <2>4. HomesIn(R)' /\ TwinsIn(R)'
    BY <2>2, <2>3 DEF HomesIn, TwinsIn
  <2> QED
    BY <2>1, <2>4
<1>7. WalkInv' /\ AssertedInv'
  <2>1. 1..Len(dup) \subseteq 1..Len(dup')
    BY <1>2
  <2> QED
    BY <2>1 DEF WalkInv, AssertedInv, PairsInv
<1> QED
  BY <1>5, <1>6, <1>7 DEF PairsInv

(* A transformation: a new expression, or a mark between two groups. *)
LEMMA InsertXformPairs ==
  ASSUME CurrentInv, PairsInv, NEW g \in Groups, NEW res \in Result,
         NEW kids \in [1..res.arity -> Groups], InsertXformResult(g, res, kids)
  PROVE  PairsInv'
<1> DEFINE e == NewExpr(res.op, kids, g)
<1>a. LinkInv /\ MemoInv /\ pc = "explore" /\ g \in 1..Len(dup) /\ g \in Nat
  BY DEF CurrentInv, InsertXformResult, Groups
<1>1. UNCHANGED <<hidden, dup>> /\ PgroupInsert(g, res.op, kids)
  BY DEF InsertXformResult
<1>2. CASE /\ gexprs' = Append(gexprs, e) /\ grp' = Append(grp, g) /\ UNCHANGED <<pc, asserted>>
  <2>1. e.home = g
    BY DEF NewExpr
  <2> HIDE DEF e
  <2>2. gexprs \in Seq(GExpr) /\ Len(gexprs) = Len(grp) /\ grp \in Seq(Nat) /\ Len(grp) \in Nat /\ Len(dup) \in Nat
    BY <1>a, Typing DEF MemoInv, LinkInv, ShapeInv
  <2>3. Len(grp') = Len(grp) + 1 /\ grp'[Len(grp) + 1] = g /\ gexprs'[Len(grp) + 1] = e
    BY <1>2, <1>a, <2>2
  <2>4. \A i \in 1..Len(grp) : gexprs'[i] = gexprs[i] /\ grp'[i] = grp[i]
    BY <1>2, <1>a, <2>2
  <2>5. \A i \in 1..Len(grp') : i > Len(grp) => i = Len(grp) + 1
    BY <2>2, <2>3
  <2> QED
    BY <1>1, <1>2, <1>a, <2>1, <2>2, <2>3, <2>4, <2>5, InsertPairs
<1>3. ASSUME NEW i \in Find(res.op, kids), MarkDuplicates(g, grp[i], "explore"),
             asserted' = asserted \cup {<<g, grp[i]>>, <<grp[i], g>>}, UNCHANGED <<gexprs, grp>>
      PROVE  PairsInv'
  <2>1. i \in 1..Len(grp)
    BY <1>a, Typing DEF Find
  <2>2. grp[i] \in 1..Len(dup)
    BY <1>a, <2>1, Typing
  <2> DEFINE h == grp[i]
  <2>3. h \in 1..Len(dup) /\ MarkDuplicates(g, h, "explore") /\ asserted' = asserted \cup {<<g, h>>, <<h, g>>}
    BY <1>3, <2>2
  <2> HIDE DEF h
  <2> QED
    BY <1>1, <1>3, <1>a, <2>3, AssertPairs
<1> QED
  BY <1>1, <1>2, <1>3 DEF PgroupInsert

(* A transformation that needs a new group for the child of its result. *)
LEMMA InsertNewGroupPairs ==
  ASSUME CurrentInv, PairsInv, NEW g \in Groups, NEW res \in Result, NEW child \in Result,
         NEW kids \in [1..child.arity -> Groups], InsertNewGroup(g, res, child, kids)
  PROVE  PairsInv'
<1> DEFINE n == Len(dup) + 1
           e == NewExpr(child.op, kids, n)
           f == NewExpr(res.op, <<n>>, g)
<1>a. LinkInv /\ MemoInv /\ pc = "explore" /\ g \in Nat /\ Len(dup) \in Nat /\ n \in Nat /\ Len(grp) \in Nat
  BY Typing DEF CurrentInv, InsertNewGroup, Groups
<1>1. /\ gexprs' = gexprs \o <<e, f>> /\ grp' = grp \o <<n, g>> /\ dup' = Append(dup, 0)
      /\ UNCHANGED <<pc, hidden, asserted>>
  BY DEF InsertNewGroup
<1>2. e.home = n /\ f.home = g /\ n = Len(dup) + 1
  BY DEF NewExpr
<1> HIDE DEF e, f, n
<1>3. gexprs \in Seq(GExpr) /\ Len(gexprs) = Len(grp) /\ grp \in Seq(Nat) /\ dup \in Seq(Nat)
  BY <1>a DEF MemoInv, LinkInv, ShapeInv
<1>4. /\ Len(grp') = Len(grp) + 2 /\ grp'[Len(grp) + 1] = n /\ grp'[Len(grp) + 2] = g
      /\ \A i \in 1..Len(grp) : grp'[i] = grp[i]
  BY <1>1, <1>3, <1>a
<1>5. /\ gexprs'[Len(grp) + 1] = e /\ gexprs'[Len(grp) + 2] = f
      /\ \A i \in 1..Len(grp) : gexprs'[i] = gexprs[i]
  <2> DEFINE N == Len(gexprs)
  <2>1. gexprs \in Seq(GExpr) /\ N \in Nat /\ gexprs' = gexprs \o <<e, f>>
    BY <1>1, <1>3, <1>a
  <2>2. gexprs'[N + 1] = e /\ gexprs'[N + 2] = f /\ \A i \in 1..N : gexprs'[i] = gexprs[i]
    BY <2>1
  <2> QED
    BY <1>3, <2>2
<1>6. \A i \in 1..Len(grp') : i > Len(grp) => i = Len(grp) + 1 \/ i = Len(grp) + 2
  BY <1>4, <1>a
<1>7. \A i \in 1..Len(grp') : i > Len(grp) => grp'[i] \in Nat /\ gexprs'[i].home = grp'[i]
  BY <1>2, <1>4, <1>5, <1>6, <1>a
<1>8. /\ Len(dup') = Len(dup) + 1 /\ \A x \in 1..Len(dup) : dup'[x] = dup[x]
      /\ \A x \in 1..Len(dup') : x > Len(dup) => dup'[x] = 0
  BY <1>1, <1>3, <1>a
<1>9. /\ Len(grp) <= Len(grp') /\ Len(grp') \in Nat /\ Len(dup) <= Len(dup') /\ Len(dup') \in Nat
      /\ \A i \in 1..Len(grp) : gexprs'[i] = gexprs[i] /\ grp'[i] = grp[i]
  BY <1>4, <1>5, <1>8, <1>a
<1> QED
  BY ONLY CurrentInv, PairsInv, <1>1, <1>7, <1>8, <1>9, <1>a, InsertPairs

(* Nothing is asserted, moved or hidden at first. *)
LEMMA PairsInit == Init => PairsInv
<1> SUFFICES ASSUME Init PROVE PairsInv
  OBVIOUS
<1> DEFINE n == Len(Query)
<1>1. n \in Nat
  BY QueryAssumption DEF QueryAssumption
<1> HIDE DEF n
<1>2. /\ dup = [i \in 1..n |-> 0] /\ grp = [i \in 1..n |-> i]
      /\ gexprs = [i \in 1..n |-> NewExpr(Query[i].op, Query[i].kids, i)]
      /\ hidden = {} /\ pc = "explore" /\ asserted = {}
  BY DEF Init, n
<1>3. Len(dup) = n /\ Len(grp) = n
  BY <1>1, <1>2
<1>4. \A R \in Equivalences : LinkedIn(R)
  BY <1>2, <1>3 DEF LinkedIn, LinksIn
<1>5. \A R \in Equivalences : HomesIn(R) /\ TwinsIn(R)
  <2>1. \A i \in 1..n : gexprs[i].home = i /\ grp[i] = i
    BY <1>2 DEF NewExpr
  <2> QED
    BY <1>1, <1>2, <1>3, <2>1, EquivalenceLaws DEF HomesIn, TwinsIn
<1> QED
  BY <1>2, <1>4, <1>5 DEF PairsInv, SoundInv, CompleteInv, WalkInv, AssertedInv

(* Every step keeps links and congruence together. *)
LEMMA PairsNext == CurrentInv /\ PairsInv /\ [Next]_vars => PairsInv'
<1> SUFFICES ASSUME CurrentInv, PairsInv, [Next]_vars PROVE PairsInv'
  OBVIOUS
<1> USE DEF exprVars, markVars, mergeVars, statsVars
<1>1. CASE Explore
  <2>1. ASSUME NEW g \in Groups, PstatsRecursiveDerive(g) PROVE PairsInv'
    BY <2>1, QuietPairs DEF PstatsRecursiveDerive
  <2> QED
    BY <1>1, <2>1, InsertXformPairs, InsertNewGroupPairs DEF Explore
<1>2. CASE Mark
  <2>1. CASE ResolveReturn
    <3>1. pc' # "link" /\ pc' # "resolve" /\ pc # "link" /\ UNCHANGED <<gexprs, grp, hidden, asserted, dup>>
      BY <2>1 DEF ResolveReturn, CurrentInv, LinkInv, LocalsInv
    <3> QED
      BY <3>1, QuietPairs
  <2> QED
    BY <1>2, <2>1, FollowPairs, AddLinkPairs, WalkPairs, ResolveEndPairs DEF Mark
<1>3. CASE FinishExploration
  BY <1>3, QuietPairs DEF FinishExploration
<1>4. CASE Finalize
  <2>1. CASE MergeSkip
    BY <2>1, QuietPairs DEF MergeSkip
  <2>2. CASE MergeGroup
    BY <2>2, QuietPairs DEF MergeGroup
  <2>3. CASE StartRehash
    BY <2>3, QuietPairs DEF StartRehash
  <2>4. CASE MergeAgain
    BY <2>4, QuietPairs DEF MergeAgain
  <2>5. ASSUME NEW i \in toRehash, RehashInsert(i) PROVE PairsInv'
    BY <2>5, QuietPairs DEF RehashInsert
  <2>6. CASE ResetStats
    BY <2>6, QuietPairs DEF ResetStats
  <2>7. CASE ReturnReset
    BY <2>7, QuietPairs DEF ReturnReset
  <2>8. ASSUME NEW c \in Groups, VisitChild(c) PROVE PairsInv'
    BY <2>8, QuietPairs DEF VisitChild
  <2>9. CASE DeriveStats
    BY <2>9, QuietPairs DEF DeriveStats
  <2> QED
    BY <1>4, <2>1, <2>2, <2>3, <2>4, <2>5, <2>6, <2>7, <2>8, <2>9, MovePairs, RehashPairs DEF Finalize
<1>5. CASE FinalizeSearchStage
  BY <1>5, QuietPairs DEF FinalizeSearchStage
<1>6. CASE UNCHANGED vars
  <2>1. UNCHANGED <<pc, gexprs, grp, hidden, asserted, dup, src, dst, target, toResolve>>
    BY <1>6 DEF vars
  <2>2. \A R \in Equivalences : LinkedIn(R)' <=> LinkedIn(R)
    BY <2>1 DEF LinkedIn, LinksIn
  <2>3. SoundInv' /\ CompleteInv' /\ AssertedInv'
    BY <2>1, <2>2, PairsKept
  <2>4. WalkInv'
    BY <2>1 DEF PairsInv, WalkInv
  <2> QED
    BY <2>3, <2>4 DEF PairsInv
<1> QED
  BY <1>1, <1>2, <1>3, <1>4, <1>5, <1>6 DEF Next

GroupPairs == (1..Len(dup)) \X (1..Len(dup))

(* A round of Congruence, pair by pair. *)
RoundHas(R, g, h) ==
    \/ <<g, h>> \in R
    \/ \E k \in Nat : <<g, k>> \in R /\ <<k, h>> \in R
    \/ \E i \in 1..Len(grp), j \in 1..Len(grp) :
          KidsIn(R, gexprs[i], gexprs[j]) /\ g = gexprs[i].home /\ h = gexprs[j].home

(* CongruenceStep adds what transitivity and the expressions demand. *)
LEMMA CongruenceStepIs ==
  ASSUME CurrentInv, NEW R, R \subseteq GroupPairs, NEW g \in Nat, NEW h \in Nat
  PROVE  <<g, h>> \in CongruenceStep(R) <=> RoundHas(R, g, h)
<1>0. DOMAIN gexprs = 1..Len(grp) /\ Len(dup) \in Nat
  BY Typing DEF CurrentInv, MemoInv
<1> DEFINE T == {<<p[1][1], p[2][2]>> : p \in {q \in R \X R : q[1][2] = q[2][1]}}
           X == (1..Len(grp)) \X (1..Len(grp))
           C == {<<gexprs[p[1]].home, gexprs[p[2]].home>> :
                   p \in {q \in X :
                       /\ gexprs[q[1]].op = gexprs[q[2]].op
                       /\ Len(gexprs[q[1]].kids) = Len(gexprs[q[2]].kids)
                       /\ \A k \in DOMAIN gexprs[q[1]].kids :
                            <<gexprs[q[1]].kids[k], gexprs[q[2]].kids[k]>> \in R}}
<1>1. CongruenceStep(R) = R \cup T \cup C
  BY <1>0 DEF CongruenceStep
<1>2. <<g, h>> \in T <=> \E k \in Nat : <<g, k>> \in R /\ <<k, h>> \in R
  <2>1. ASSUME <<g, h>> \in T PROVE \E k \in Nat : <<g, k>> \in R /\ <<k, h>> \in R
    <3>1. PICK q \in R \X R : q[1][2] = q[2][1] /\ <<g, h>> = <<q[1][1], q[2][2]>>
      BY <2>1
    <3>2. q[1] \in R /\ q[2] \in R
      BY <3>1
    <3>3. /\ q[1] = <<q[1][1], q[1][2]>> /\ q[2] = <<q[2][1], q[2][2]>> /\ q[1][2] \in Nat
      BY <1>0, <3>2 DEF GroupPairs
    <3>4. g = q[1][1] /\ h = q[2][2]
      BY <3>1
    <3> QED
      BY <3>1, <3>2, <3>3, <3>4
  <2>2. ASSUME NEW k \in Nat, <<g, k>> \in R, <<k, h>> \in R PROVE <<g, h>> \in T
    <3> DEFINE q == <<<<g, k>>, <<k, h>>>>
    <3>1. q \in R \X R /\ q[1][2] = q[2][1] /\ <<g, h>> = <<q[1][1], q[2][2]>>
      BY <2>2
    <3> HIDE DEF q
    <3> QED
      BY <3>1
  <2> QED
    BY <2>1, <2>2
<1>3. <<g, h>> \in C <=>
        \E i \in 1..Len(grp), j \in 1..Len(grp) :
           KidsIn(R, gexprs[i], gexprs[j]) /\ g = gexprs[i].home /\ h = gexprs[j].home
  <2>1. ASSUME <<g, h>> \in C
        PROVE  \E i \in 1..Len(grp), j \in 1..Len(grp) :
                  KidsIn(R, gexprs[i], gexprs[j]) /\ g = gexprs[i].home /\ h = gexprs[j].home
    <3>1. PICK q \in X :
                       /\ gexprs[q[1]].op = gexprs[q[2]].op
                       /\ Len(gexprs[q[1]].kids) = Len(gexprs[q[2]].kids)
                       /\ \A k \in DOMAIN gexprs[q[1]].kids :
                            <<gexprs[q[1]].kids[k], gexprs[q[2]].kids[k]>> \in R
                       /\ <<g, h>> = <<gexprs[q[1]].home, gexprs[q[2]].home>>
      BY <2>1
    <3>2. q[1] \in 1..Len(grp) /\ q[2] \in 1..Len(grp)
      BY <3>1
    <3>3. KidsIn(R, gexprs[q[1]], gexprs[q[2]])
      BY <3>1 DEF KidsIn
    <3>4. g = gexprs[q[1]].home /\ h = gexprs[q[2]].home
      <4> DEFINE a == gexprs[q[1]].home
                 b == gexprs[q[2]].home
      <4>1. <<g, h>> = <<a, b>>
        BY <3>1
      <4> HIDE DEF a, b
      <4>2. g = a /\ h = b
        BY <4>1
      <4> QED
        BY <4>2 DEF a, b
    <3> QED
      BY <3>2, <3>3, <3>4
  <2>2. ASSUME NEW i \in 1..Len(grp), NEW j \in 1..Len(grp), KidsIn(R, gexprs[i], gexprs[j]),
               g = gexprs[i].home, h = gexprs[j].home
        PROVE  <<g, h>> \in C
    <3> DEFINE q == <<i, j>>
    <3>1. q \in X /\ q[1] = i /\ q[2] = j
      OBVIOUS
    <3>2. /\ gexprs[q[1]].op = gexprs[q[2]].op
          /\ Len(gexprs[q[1]].kids) = Len(gexprs[q[2]].kids)
          /\ \A k \in DOMAIN gexprs[q[1]].kids :
                <<gexprs[q[1]].kids[k], gexprs[q[2]].kids[k]>> \in R
      BY <2>2, <3>1 DEF KidsIn
    <3>3. <<g, h>> = <<gexprs[q[1]].home, gexprs[q[2]].home>>
      BY <2>2, <3>1
    <3> HIDE DEF q, X
    <3> QED
      BY <3>1, <3>2, <3>3
  <2> QED
    BY <2>1, <2>2
<1> HIDE DEF T, C
<1> QED
  BY <1>1, <1>2, <1>3 DEF RoundHas

(* The homes of expressions are groups: an expression is where it was made for or
   in a group of the same class. *)
HomesTyped == \A i \in 1..Len(grp) : gexprs[i].home \in 1..Len(dup)

(* A congruence on groups K bounds the rounds, which keep symmetry. *)
Rounds(K) ==
    {R \in SUBSET GroupPairs :
        /\ CongruenceStart \subseteq R /\ R \subseteq K
        /\ \A g \in Nat, h \in Nat : <<g, h>> \in R => <<h, g>> \in R}

(* Every round stays among the pairs of groups. *)
LEMMA RoundKeeps ==
  ASSUME CurrentInv, HomesTyped, NEW K \in Equivalences, CongruentIn(K), NEW R \in Rounds(K)
  PROVE  CongruenceStep(R) \in Rounds(K) /\ R \subseteq CongruenceStep(R)
<1> DEFINE T == CongruenceStep(R)
<1>0. R \subseteq GroupPairs /\ R \subseteq K /\ CongruenceStart \subseteq R /\ Len(dup) \in Nat
      /\ \A g \in Nat, h \in Nat : <<g, h>> \in R => <<h, g>> \in R
  BY Typing DEF Rounds, CurrentInv
<1>1. R \subseteq T
  BY DEF CongruenceStep
<1>2. ASSUME NEW g \in Nat, NEW h \in Nat
      PROVE  <<g, h>> \in T <=> RoundHas(R, g, h)
  BY <1>0, CongruenceStepIs
<1>3. T \subseteq Nat \X Nat
  <2>1. \A p \in R : p \in Nat \X Nat /\ p[1] \in Nat /\ p[2] \in Nat
    BY <1>0 DEF GroupPairs
  <2>2. \A i \in DOMAIN gexprs : gexprs[i].home \in Nat
    BY ExprTyping DEF CurrentInv, MemoInv
  <2>3. ASSUME NEW p \in T PROVE p \in Nat \X Nat
    <3>1. CASE p \in R
      BY <2>1, <3>1
    <3>2. ASSUME NEW q \in R \X R, p = <<q[1][1], q[2][2]>> PROVE p \in Nat \X Nat
      BY <2>1, <3>2
    <3>3. ASSUME NEW q \in (DOMAIN gexprs) \X (DOMAIN gexprs), p = <<gexprs[q[1]].home, gexprs[q[2]].home>>
          PROVE  p \in Nat \X Nat
      BY <2>2, <3>3
    <3> QED
      BY <3>1, <3>2, <3>3 DEF CongruenceStep
  <2> QED
    BY <2>3
<1> HIDE DEF T
<1>4. ASSUME NEW i \in 1..Len(grp), NEW j \in 1..Len(grp), KidsIn(R, gexprs[i], gexprs[j])
      PROVE  KidsIn(K, gexprs[i], gexprs[j]) /\ KidsIn(R, gexprs[j], gexprs[i])
  <2>1. KidsIn(K, gexprs[i], gexprs[j])
    BY <1>0, <1>4 DEF KidsIn
  <2>2. KidsIn(R, gexprs[j], gexprs[i])
    <3>1. \A s \in Seq(Nat), t \in Seq(Nat) : Len(s) = Len(t) => DOMAIN s = DOMAIN t /\ \A k \in DOMAIN s : s[k] \in Nat /\ t[k] \in Nat
      OBVIOUS
    <3> DEFINE a == gexprs[i]
               b == gexprs[j]
    <3>2. a.kids \in Seq(Nat) /\ b.kids \in Seq(Nat) /\ KidsIn(R, a, b)
      BY <1>4, ExprTyping
    <3> HIDE DEF a, b
    <3>3. DOMAIN a.kids = DOMAIN b.kids /\ \A k \in DOMAIN a.kids : a.kids[k] \in Nat /\ b.kids[k] \in Nat
      BY <3>1, <3>2 DEF KidsIn
    <3>4. KidsIn(R, b, a)
      BY <1>0, <3>2, <3>3 DEF KidsIn
    <3> QED
      BY <3>4 DEF a, b
  <2> QED
    BY <2>1, <2>2
<1>5. ASSUME NEW g \in Nat, NEW h \in Nat, <<g, h>> \in T
      PROVE  <<g, h>> \in GroupPairs /\ <<g, h>> \in K /\ <<h, g>> \in T
  <2>1. CASE <<g, h>> \in R
    BY <1>0, <1>1, <2>1
  <2>2. CASE \E k \in Nat : <<g, k>> \in R /\ <<k, h>> \in R
    <3>1. PICK k \in Nat : <<g, k>> \in R /\ <<k, h>> \in R
      BY <2>2
    <3>2. <<h, k>> \in R /\ <<k, g>> \in R
      BY <1>0, <3>1
    <3>3. <<h, g>> \in T
      BY <1>2, <3>2 DEF RoundHas
    <3>4. <<g, h>> \in K
      BY <1>0, <3>1, EquivalenceLaws
    <3>5. <<g, k>> \in GroupPairs /\ <<k, h>> \in GroupPairs
      BY <1>0, <3>1
    <3> QED
      BY <3>3, <3>4, <3>5 DEF GroupPairs
  <2>3. CASE \E i \in 1..Len(grp), j \in 1..Len(grp) :
                 KidsIn(R, gexprs[i], gexprs[j]) /\ g = gexprs[i].home /\ h = gexprs[j].home
    <3>1. PICK i \in 1..Len(grp), j \in 1..Len(grp) :
                 KidsIn(R, gexprs[i], gexprs[j]) /\ g = gexprs[i].home /\ h = gexprs[j].home
      BY <2>3
    <3>2. KidsIn(K, gexprs[i], gexprs[j]) /\ KidsIn(R, gexprs[j], gexprs[i])
      BY <1>4, <3>1
    <3>3. <<h, g>> \in T
      BY <1>2, <3>1, <3>2 DEF RoundHas
    <3>4. <<g, h>> \in K
      BY <3>1, <3>2 DEF CongruentIn
    <3> QED
      BY <3>1, <3>3, <3>4 DEF GroupPairs, HomesTyped
  <2> QED
    BY <1>2, <1>5, <2>1, <2>2, <2>3, ZenonT(30) DEF RoundHas
<1>6. T \subseteq GroupPairs /\ T \subseteq K
  <2>1. ASSUME NEW p \in T PROVE p \in GroupPairs /\ p \in K
    <3>1. p \in Nat \X Nat /\ p = <<p[1], p[2]>> /\ p[1] \in Nat /\ p[2] \in Nat
      BY <1>3
    <3> QED
      BY <1>5, <3>1
  <2> QED
    BY <2>1
<1> QED
  BY <1>0, <1>1, <1>5, <1>6 DEF Rounds, T

(* The rounds are those of the recursive definition, and the last one leaves
   nothing to add. *)
LEMMA CongruenceIs ==
  ASSUME CurrentInv, HomesTyped, NEW K \in Equivalences, CongruentIn(K), CongruenceStart \in Rounds(K)
  PROVE  Congruence \in Rounds(K) /\ CongruenceStep(Congruence) = Congruence
<1> DEFINE S == Rounds(K)
           F == [R \in S |-> CongruenceStep(R)]
           n == Len(dup)
           Is(h) == h = [i \in Nat |-> IF i = 0 THEN CongruenceStart ELSE CongruenceStep(h[i - 1])]
<1>0. n \in Nat
  BY Typing DEF CurrentInv
<1>1. F \in [S -> S] /\ \A R \in S : R \subseteq F[R]
  BY RoundKeeps
<1>2. PICK g \in [Nat -> S] : g = [i \in Nat |-> IF i = 0 THEN CongruenceStart ELSE F[g[i - 1]]]
  <2>1. IsMap(F, S)
    BY <1>1 DEF IsMap
  <2> HIDE DEF F, S
  <2> QED
    BY <2>1, RecursionExists DEF S
<1>3. Is(g)
  <2>1. ASSUME NEW i \in Nat, i # 0 PROVE F[g[i - 1]] = CongruenceStep(g[i - 1])
    <3>1. i - 1 \in Nat
      BY <2>1
    <3>2. g[i - 1] \in S
      BY <3>1
    <3> QED
      BY <3>2
  <2> HIDE DEF F
  <2>2. \A i \in Nat : (IF i = 0 THEN CongruenceStart ELSE F[g[i - 1]])
                          = (IF i = 0 THEN CongruenceStart ELSE CongruenceStep(g[i - 1]))
    BY <2>1
  <2>3. [i \in Nat |-> IF i = 0 THEN CongruenceStart ELSE F[g[i - 1]]]
          = [i \in Nat |-> IF i = 0 THEN CongruenceStart ELSE CongruenceStep(g[i - 1])]
    BY ONLY <2>2
  <2> QED
    BY <1>2, <2>3
<1>4. CongruenceRounds = CHOOSE h : Is(h)
  BY DEF CongruenceRounds
<1> DEFINE h == CongruenceRounds
<1>5. Is(h)
  BY <1>3, <1>4
<1> HIDE DEF h
<1>6. h[0] = CongruenceStart
  BY <1>5
<1>7. ASSUME NEW i \in Nat, h[i] \in S PROVE h[i + 1] = F[h[i]]
  <2>1. i + 1 \in Nat /\ i + 1 # 0 /\ (i + 1) - 1 = i
    OBVIOUS
  <2>2. h[i + 1] = CongruenceStep(h[(i + 1) - 1])
    BY <1>5, <2>1
  <2> QED
    BY <1>7, <2>1, <2>2
<1>8. IsFiniteSet(GroupPairs) /\ Cardinality(GroupPairs) = n * n
  <2> HIDE DEF n
  <2>1. IsFiniteSet(1..n) /\ Cardinality(1..n) = IF 1 > n THEN 0 ELSE n - 1 + 1
    BY <1>0, FS_Interval
  <2>2. Cardinality(1..n) = n
    BY <1>0, <2>1
  <2> DEFINE U == 1..n
  <2>3. IsFiniteSet(U) /\ Cardinality(U) = n
    BY <2>1, <2>2
  <2> HIDE DEF U
  <2>4. IsFiniteSet(U \X U) /\ Cardinality(U \X U) = Cardinality(U) * Cardinality(U)
    BY ONLY <2>3, FS_Product, Zenon
  <2>5. IsFiniteSet(U \X U) /\ Cardinality(U \X U) = n * n
    BY ONLY <2>3, <2>4, Zenon
  <2> QED
    BY ONLY <2>5, Zenon DEF GroupPairs, n, U
<1>9. n * n \in Nat /\ Cardinality(GroupPairs) <= n * n
  BY <1>0, <1>8
<1>10. S \subseteq SUBSET GroupPairs
  BY DEF Rounds
<1>11. IsMap(F, S) /\ h[0] \in S /\ \A R \in S : F[R] = CongruenceStep(R)
  BY <1>1, <1>6 DEF IsMap
<1>13. \A R \in S : R \subseteq F[R]
  BY <1>1
<1>14. \A i \in Nat : h[i] \in S => h[i + 1] = F[h[i]]
  BY <1>7
<1> DEFINE N == n * n
<1>15. N \in Nat /\ Cardinality(GroupPairs) <= N
  BY <1>9
<1>16. Congruence = h[N]
  BY DEF Congruence, h
<1> HIDE DEF S, F, N, Is, n
<1>12. h[N] \in S /\ F[h[N]] = h[N]
  BY ONLY <1>8, <1>10, <1>11, <1>13, <1>14, <1>15, GrowthEnds
<1>17. CongruenceStep(h[N]) = h[N]
  BY <1>11, <1>12
<1> QED
  BY <1>12, <1>16, <1>17 DEF S

(* Expressions were made for groups: the equivalence with the groups of the memo as
   a class has all links. *)
LEMMA HomesAreGroups == ASSUME CurrentInv, PairsInv PROVE HomesTyped
<1> DEFINE G == 1..Len(dup)
           R == {p \in Nat \X Nat : p[1] \in G <=> p[2] \in G}
<1>1. Len(dup) \in Nat /\ G \subseteq Nat
  BY Typing DEF CurrentInv
<1>2. \A g \in Nat, h \in Nat : <<g, h>> \in R <=> (g \in G <=> h \in G)
  OBVIOUS
<1>3. R \in SUBSET (Nat \X Nat)
  OBVIOUS
<1> HIDE DEF R
<1>4. R \in Equivalences
  BY <1>2, <1>3 DEF Equivalences, IsEquivalence
<1>5. LinkedIn(R)
  <2>1. \A g \in G : dup[g] = 0 \/ dup[g] \in G
    BY Typing DEF CurrentInv
  <2>2. pc = "link" => src \in G /\ dst \in G
    BY DEF CurrentInv, LinkInv, LocalsInv
  <2> QED
    BY <1>1, <1>2, <2>1, <2>2 DEF LinkedIn, LinksIn
<1>6. HomesIn(R)
  BY <1>4, <1>5 DEF PairsInv, CompleteInv
<1>7. \A i \in 1..Len(grp) : grp[i] \in G /\ gexprs[i].home \in Nat
  BY Typing, ExprTyping DEF CurrentInv
<1> HIDE DEF G
<1>8. \A i \in 1..Len(grp) : gexprs[i].home \in G
  BY <1>1, <1>2, <1>6, <1>7 DEF HomesIn
<1> QED
  BY <1>8 DEF HomesTyped, G

(* Having the same master. *)
Kernel ==
    {p \in Nat \X Nat :
        \/ p[1] = p[2]
        \/ p[1] \in 1..Len(dup) /\ p[2] \in 1..Len(dup) /\ Master(p[1]) = Master(p[2])}

Finished == pc \in {"reset", "derive", "search"}

(* Two groups are in the kernel if they have the same master. *)
LEMMA KernelIs ==
  ASSUME NEW g \in Nat, NEW h \in Nat
  PROVE  <<g, h>> \in Kernel <=>
           g = h \/ (g \in 1..Len(dup) /\ h \in 1..Len(dup) /\ Master(g) = Master(h))
<1> QED
  BY DEF Kernel

(* When GroupMerge is done, it is an equivalence that has the links. *)
LEMMA KernelLinked ==
  ASSUME CurrentInv, Finished PROVE Kernel \in Equivalences /\ LinkedIn(Kernel)
<1>0. Kernel \in SUBSET (Nat \X Nat)
  BY DEF Kernel
<1>1. \A g \in Nat : <<g, g>> \in Kernel
  BY KernelIs
<1>2. ASSUME NEW g \in Nat, NEW h \in Nat, <<g, h>> \in Kernel PROVE <<h, g>> \in Kernel
  BY <1>2, KernelIs
<1>3. ASSUME NEW g \in Nat, NEW h \in Nat, NEW k \in Nat, <<g, h>> \in Kernel, <<h, k>> \in Kernel
      PROVE  <<g, k>> \in Kernel
  BY <1>3, KernelIs
<1>4. Kernel \in Equivalences
  BY <1>0, <1>1, <1>2, <1>3 DEF Equivalences, IsEquivalence
<1>5. ASSUME NEW g \in 1..Len(dup), dup[g] # 0 PROVE <<g, dup[g]>> \in Kernel
  <2>1. dup[g] \in 1..Len(dup) /\ dup[dup[g]] = 0
    BY <1>5, Typing DEF CurrentInv, PassInv, Settled, Merged, Finished
  <2>2. g \in Nat /\ dup[g] \in Nat /\ Master(g) = dup[g] /\ Master(dup[g]) = dup[g]
    BY <1>5, <2>1 DEF Master
  <2> QED
    BY <2>1, <2>2, KernelIs
<1> QED
  BY <1>4, <1>5 DEF LinkedIn, LinksIn, Finished

(* Expressions with the same masters for children are in the same bucket and
   match: they are one if both are in the table. *)
LEMMA KernelUnique ==
  ASSUME CurrentInv, Finished,
         NEW i \in (1..Len(grp)) \ hidden, NEW j \in (1..Len(grp)) \ hidden,
         KidsIn(Kernel, gexprs[i], gexprs[j])
  PROVE  i = j
<1> DEFINE e == gexprs[i]
           f == gexprs[j]
<1>1. /\ i \in InTable /\ j \in InTable /\ Merged
      /\ e.kids \in Seq(1..Len(dup)) /\ f.kids \in Seq(1..Len(dup))
  BY DEF CurrentInv, MemoInv, InTable, Merged, Finished
<1>2. at[i] = BucketOf(dup, Live, e) /\ at[j] = BucketOf(dup, Live, f)
  BY <1>1 DEF CurrentInv, BucketsInv
<1>3. KidsIn(Kernel, e, f)
  OBVIOUS
<1> HIDE DEF e, f
<1>4. e.op = f.op /\ Len(e.kids) = Len(f.kids) /\ DOMAIN e.kids = DOMAIN f.kids
      /\ \A k \in DOMAIN e.kids : e.kids[k] \in 1..Len(dup) /\ f.kids[k] \in 1..Len(dup)
  <2>1. \A s \in Seq(1..Len(dup)), t \in Seq(1..Len(dup)) :
          Len(s) = Len(t) => DOMAIN s = DOMAIN t /\ \A k \in DOMAIN s : s[k] \in 1..Len(dup) /\ t[k] \in 1..Len(dup)
    OBVIOUS
  <2> QED
    BY <1>1, <1>3, <2>1 DEF KidsIn
<1>5. ASSUME NEW k \in DOMAIN e.kids
      PROVE  /\ Same(dup, e.kids[k], f.kids[k])
             /\ Canon(dup, Live, e.kids[k]) = Canon(dup, Live, f.kids[k])
  <2> DEFINE g == e.kids[k]
             h == f.kids[k]
  <2>1. g \in 1..Len(dup) /\ h \in 1..Len(dup) /\ <<g, h>> \in Kernel
    BY <1>3, <1>4 DEF KidsIn
  <2> HIDE DEF g, h
  <2>2. g \in Nat /\ h \in Nat
    BY <2>1
  <2>3. Master(g) = Master(h)
    BY <2>1, <2>2, KernelIs
  <2>4. /\ dup[g] # 0 => g \notin Live
        /\ dup[h] # 0 => h \notin Live
    BY <1>1, <2>1 DEF CurrentInv, PassInv, Settled
  <2>5. Same(dup, g, h) /\ Canon(dup, Live, g) = Canon(dup, Live, h)
    BY <2>3, <2>4 DEF Same, Canon, Master
  <2> QED
    BY <2>5 DEF g, h
<1>6. Alike(dup, e, f)
  BY <1>4, <1>5 DEF Alike
<1>7. BucketOf(dup, Live, e) = BucketOf(dup, Live, f)
  BY <1>4, <1>5 DEF BucketOf
<1> QED
  BY <1>1, <1>2, <1>6, <1>7 DEF CurrentInv, UniqueInv, e, f

(* Having the same master is a congruence with the asserted pairs. *)
LEMMA KernelCongruent ==
  ASSUME CurrentInv, PairsInv, Finished PROVE CongruentIn(Kernel)
<1>1. /\ Kernel \in Equivalences
      /\ asserted \subseteq Kernel /\ HomesIn(Kernel) /\ TwinsIn(Kernel)
  BY KernelLinked DEF PairsInv, CompleteInv
<1>2. hidden \subseteq 1..Len(grp) /\ \A i \in 1..Len(grp) : grp[i] \in Nat /\ gexprs[i].home \in Nat
  BY Typing, ExprTyping DEF CurrentInv, MemoInv
<1>3. ASSUME NEW i \in 1..Len(grp)
      PROVE  \E k \in (1..Len(grp)) \ hidden :
                KidsIn(Kernel, gexprs[i], gexprs[k]) /\ <<gexprs[i].home, grp[k]>> \in Kernel
  <2>1. <<gexprs[i].home, grp[i]>> \in Kernel
    BY <1>1 DEF HomesIn
  <2>2. CASE i \in hidden
    <3>1. PICK k \in (1..Len(grp)) \ hidden :
                KidsIn(Kernel, gexprs[i], gexprs[k]) /\ <<grp[i], grp[k]>> \in Kernel
      BY <1>1, <2>2 DEF TwinsIn
    <3>2. <<gexprs[i].home, grp[k]>> \in Kernel
      BY <1>1, <1>2, <2>1, <3>1, EquivalenceLaws
    <3> QED
      BY <3>1, <3>2
  <2>3. CASE i \notin hidden
    <3>1. \A k \in DOMAIN gexprs[i].kids : gexprs[i].kids[k] \in Nat
      <4>1. \A s \in Seq(Nat) : \A k \in DOMAIN s : s[k] \in Nat
        OBVIOUS
      <4>2. gexprs[i].kids \in Seq(Nat)
        BY ExprTyping
      <4> QED
        BY <4>1, <4>2
    <3>2. KidsIn(Kernel, gexprs[i], gexprs[i])
      BY <1>1, <3>1, EquivalenceLaws DEF KidsIn
    <3> QED
      BY <2>1, <2>3, <3>2
  <2> QED
    BY <2>2, <2>3
<1>4. ASSUME NEW i \in 1..Len(grp), NEW j \in 1..Len(grp), KidsIn(Kernel, gexprs[i], gexprs[j])
      PROVE  <<gexprs[i].home, gexprs[j].home>> \in Kernel
  <2>1. PICK k \in (1..Len(grp)) \ hidden :
                KidsIn(Kernel, gexprs[i], gexprs[k]) /\ <<gexprs[i].home, grp[k]>> \in Kernel
    BY <1>3
  <2>2. PICK l \in (1..Len(grp)) \ hidden :
                KidsIn(Kernel, gexprs[j], gexprs[l]) /\ <<gexprs[j].home, grp[l]>> \in Kernel
    BY <1>3
  <2>3. KidsIn(Kernel, gexprs[k], gexprs[i])
    BY <1>1, <2>1, KidsEquivalence
  <2>4. KidsIn(Kernel, gexprs[k], gexprs[j])
    BY <1>1, <1>4, <2>3, KidsEquivalence
  <2>5. KidsIn(Kernel, gexprs[k], gexprs[l])
    BY <1>1, <2>2, <2>4, KidsEquivalence
  <2>6. k = l
    BY <2>5, KernelUnique
  <2>7. <<grp[l], gexprs[j].home>> \in Kernel
    BY <1>1, <1>2, <2>2, EquivalenceLaws
  <2> QED
    BY <1>1, <1>2, <2>1, <2>6, <2>7, EquivalenceLaws
<1> QED
  BY <1>1, <1>4 DEF CongruentIn

(* Groups have the same master when GroupMerge is done just if congruence
   demands it. *)
LEMMA MergedExactly == CurrentInv /\ PairsInv => ExactDuplicates
<1> SUFFICES ASSUME CurrentInv, PairsInv, pc = "derive"
             PROVE  \A g \in Groups, h \in Groups : Master(g) = Master(h) <=> <<g, h>> \in Congruence
  BY DEF ExactDuplicates
<1> DEFINE C == Congruence
           G == 1..Len(dup)
           Id == {<<x, x>> : x \in Nat}
           E == C \cup Id
<1>0. Finished /\ HomesTyped /\ Len(dup) \in Nat /\ G \subseteq Nat
  BY HomesAreGroups, Typing DEF Finished, CurrentInv
<1>1. Kernel \in Equivalences /\ CongruentIn(Kernel) /\ LinkedIn(Kernel)
  BY <1>0, KernelLinked, KernelCongruent
<1>2. CongruenceStart \in Rounds(Kernel)
  <2>1. CongruenceStart \subseteq GroupPairs
    BY DEF CongruenceStart, GroupPairs, PairsInv, AssertedInv, Groups
  <2>2. CongruenceStart \subseteq Kernel
    <3>1. asserted \subseteq Kernel
      BY <1>1 DEF CongruentIn
    <3>2. \A g \in G : <<g, g>> \in Kernel
      BY <1>0, <1>1, EquivalenceLaws
    <3> QED
      BY <3>1, <3>2 DEF CongruenceStart, Groups
  <2>3. ASSUME NEW g \in Nat, NEW h \in Nat, <<g, h>> \in CongruenceStart PROVE <<h, g>> \in CongruenceStart
    <3>1. CASE <<g, h>> \in asserted
      BY <3>1 DEF CongruenceStart, PairsInv, AssertedInv
    <3>2. CASE <<g, h>> \in {<<x, x>> : x \in Groups}
      BY <3>2 DEF CongruenceStart
    <3> QED
      BY <2>3, <3>1, <3>2 DEF CongruenceStart
  <2> QED
    BY <2>1, <2>2, <2>3 DEF Rounds
<1>3. C \in Rounds(Kernel) /\ CongruenceStep(C) = C
  BY <1>0, <1>1, <1>2, CongruenceIs
<1> HIDE DEF C
<1>4. /\ C \subseteq GroupPairs /\ C \subseteq Kernel /\ CongruenceStart \subseteq C
      /\ \A g \in Nat, h \in Nat : <<g, h>> \in C => <<h, g>> \in C
  BY <1>3 DEF Rounds
<1>5. ASSUME NEW g \in Nat, NEW h \in Nat PROVE RoundHas(C, g, h) => <<g, h>> \in C
  BY <1>3, <1>4, CongruenceStepIs
<1>6. \A g \in Nat, h \in Nat : <<g, h>> \in E <=> <<g, h>> \in C \/ g = h
  OBVIOUS
<1>7. E \in SUBSET (Nat \X Nat)
  BY <1>0, <1>4 DEF GroupPairs
<1> HIDE DEF E
<1>8. E \in Equivalences
  <2>1. \A g \in Nat, h \in Nat, k \in Nat : <<g, h>> \in C /\ <<h, k>> \in C => <<g, k>> \in C
    BY <1>5 DEF RoundHas
  <2> QED
    BY <1>4, <1>6, <1>7, <2>1 DEF Equivalences, IsEquivalence
<1>9. CongruentIn(E)
  <2>1. asserted \subseteq E
    BY <1>4 DEF CongruenceStart, E
  <2>2. ASSUME NEW i \in 1..Len(grp), NEW j \in 1..Len(grp), KidsIn(E, gexprs[i], gexprs[j])
        PROVE  <<gexprs[i].home, gexprs[j].home>> \in E
    <3> DEFINE e == gexprs[i]
               f == gexprs[j]
    <3>1. e.kids \in Seq(G) /\ f.kids \in Seq(G) /\ KidsIn(E, e, f)
      BY <2>2 DEF CurrentInv, MemoInv
    <3> HIDE DEF e, f, G
    <3>2. \A s \in Seq(G), t \in Seq(G) :
            Len(s) = Len(t) => \A k \in DOMAIN s : s[k] \in G /\ t[k] \in G
      OBVIOUS
    <3>3. \A k \in DOMAIN e.kids : e.kids[k] \in G /\ f.kids[k] \in G
      BY <3>1, <3>2 DEF KidsIn
    <3>4. \A x \in G : <<x, x>> \in C
      BY <1>4 DEF CongruenceStart, Groups, G
    <3>5. \A k \in DOMAIN e.kids : <<e.kids[k], f.kids[k]>> \in C
      <4> SUFFICES ASSUME NEW k \in DOMAIN e.kids PROVE <<e.kids[k], f.kids[k]>> \in C
        OBVIOUS
      <4> DEFINE x == e.kids[k]
                 y == f.kids[k]
      <4>1. x \in G /\ y \in G /\ <<x, y>> \in E
        BY <3>1, <3>3 DEF KidsIn
      <4> HIDE DEF x, y
      <4>2. x \in Nat /\ y \in Nat
        BY <1>0, <4>1
      <4>3. <<x, y>> \in C
        BY <1>6, <3>4, <4>1, <4>2
      <4> QED
        BY <4>3 DEF x, y
    <3>6. KidsIn(C, e, f)
      BY <3>1, <3>5 DEF KidsIn
    <3>7. gexprs[i].home \in Nat /\ gexprs[j].home \in Nat
      BY ExprTyping
    <3>8. RoundHas(C, gexprs[i].home, gexprs[j].home)
      BY <3>6 DEF RoundHas, e, f
    <3>9. <<gexprs[i].home, gexprs[j].home>> \in C
      BY <1>5, <3>7, <3>8
    <3> QED
      BY <1>6, <3>7, <3>9
  <2> QED
    BY <2>1, <2>2 DEF CongruentIn
<1>10. LinksIn(E)
  BY <1>8, <1>9 DEF PairsInv, SoundInv, LinkedIn
<1>11. ASSUME NEW g \in G PROVE Master(g) \in G /\ <<g, Master(g)>> \in E
  <2>1. dup[g] = 0 \/ dup[g] \in G
    BY Typing DEF CurrentInv
  <2> QED
    BY <1>0, <1>6, <1>10, <2>1 DEF Master, LinksIn
<1>12. ASSUME NEW g \in G, NEW h \in G, Master(g) = Master(h) PROVE <<g, h>> \in C
  <2>1. /\ Master(g) \in Nat /\ g \in Nat /\ h \in Nat
        /\ <<g, Master(g)>> \in E /\ <<h, Master(g)>> \in E
    BY <1>0, <1>11, <1>12
  <2>2. <<g, h>> \in E
    BY <1>8, <2>1, EquivalenceLaws
  <2>3. <<g, g>> \in C
    BY <1>4 DEF CongruenceStart, Groups
  <2> QED
    BY <1>6, <2>1, <2>2, <2>3
<1>13. ASSUME NEW g \in G, NEW h \in G, <<g, h>> \in C PROVE Master(g) = Master(h)
  <2>1. <<g, h>> \in Kernel /\ g \in Nat /\ h \in Nat
    BY <1>0, <1>4, <1>13
  <2> QED
    BY <2>1, KernelIs
<1> QED
  BY <1>12, <1>13 DEF C, Groups

Places == {"explore", "link", "resolve", "merge", "move", "rehash", "reset",
           "derive", "search", "raised"}

(* The rest of the types: the walk and the flags of groups. *)
StateInv ==
    /\ pc \in Places
    /\ target \in 0..Len(dup)
    /\ newOps \cup stats \subseteq 1..Len(dup)

LEMMA StateInit == Init => StateInv
<1> SUFFICES ASSUME Init PROVE StateInv
  OBVIOUS
<1> DEFINE n == Len(Query)
<1>1. n \in Nat
  BY QueryAssumption DEF QueryAssumption
<1> HIDE DEF n
<1>2. dup = [i \in 1..n |-> 0] /\ newOps = 1..n /\ stats = {} /\ target = 0 /\ pc = "explore"
  BY DEF Init, n
<1>3. Len(dup) = n
  BY <1>1, <1>2
<1> QED
  BY <1>1, <1>2, <1>3 DEF StateInv, Places

(* Steps that leave the groups and their flags alone. *)
LEMMA QuietState ==
    ASSUME StateInv, pc' \in Places, UNCHANGED <<dup, target>>, newOps' \subseteq newOps, stats' \subseteq stats
    PROVE  StateInv'
BY DEF StateInv

(* The start of a walk. *)
LEMMA MarkState ==
    ASSUME StateInv, LinkInv, pc' \in Places, target' = 0, Len(dup') = Len(dup),
           UNCHANGED <<newOps, stats>>
    PROVE  StateInv'
BY DEF StateInv, LinkInv, ShapeInv

LEMMA InsertState ==
    ASSUME CurrentInv, StateInv, NEW g \in Groups, NEW res, NEW kids,
           InsertXformResult(g, res, kids)
    PROVE  StateInv'
<1>1. Len(dup) \in Nat /\ pc = "explore" /\ UNCHANGED <<dup, stats>>
  BY DEF CurrentInv, LinkInv, ShapeInv, InsertXformResult
<1>2. CASE newOps' = newOps \cup {g} /\ UNCHANGED <<pc, target>>
  BY <1>1, <1>2 DEF StateInv, Groups
<1>3. CASE newOps' = newOps /\ target' = 0 /\ pc' = "link"
  BY <1>1, <1>3 DEF StateInv, Places
<1> QED
  BY <1>2, <1>3 DEF InsertXformResult, PgroupInsert, MarkDuplicates, markVars

LEMMA NewGroupState ==
    ASSUME CurrentInv, StateInv, NEW g \in Groups, NEW res, NEW child, NEW kids,
           InsertNewGroup(g, res, child, kids)
    PROVE  StateInv'
<1>1. Len(dup) \in Nat /\ dup \in Seq(Nat)
  BY DEF CurrentInv, LinkInv, ShapeInv
<1>2. /\ dup' = Append(dup, 0) /\ newOps' = newOps \cup {Len(dup) + 1, g}
      /\ UNCHANGED <<pc, target, stats>>
  BY DEF InsertNewGroup, markVars
<1>3. Len(dup') = Len(dup) + 1
  BY <1>1, <1>2
<1> QED
  BY <1>1, <1>2, <1>3 DEF StateInv, Groups

LEMMA MarkWalkState == ASSUME CurrentInv, StateInv, Mark PROVE StateInv'
<1>1. /\ Len(dup) \in Nat /\ dup \in Seq(Nat) /\ LinkInv /\ MemoInv
      /\ \A g \in 1..Len(dup) : dup[g] \in 0..Len(dup)
  BY DEF CurrentInv, LinkInv, ShapeInv
<1> USE DEF exprVars, markVars, mergeVars, statsVars
<1>2. CASE FollowLink
  BY <1>2, QuietState DEF FollowLink, StateInv
<1>3. CASE AddLink
  <2>1. UNCHANGED <<target, newOps, stats>> /\ pc' = "resolve" /\ Len(dup') = Len(dup)
    BY <1>1, <1>3 DEF AddLink
  <2> QED
    BY <2>1 DEF StateInv, Places
<1>4. CASE ResolveStart
  <2>1. UNCHANGED <<dup, newOps, stats, pc>> /\ target' = dup[Head(toResolve)] /\ pc = "resolve" /\ toResolve # <<>>
    BY <1>4 DEF ResolveStart
  <2>2. toResolve \in Seq(1..Len(dup))
    BY <1>1, <2>1 DEF LinkInv, LocalsInv
  <2>3. Head(toResolve) \in 1..Len(dup)
    BY <2>1, <2>2
  <2> QED
    BY <1>1, <2>1, <2>3 DEF StateInv
<1>5. CASE ResolveStep
  <2>1. UNCHANGED <<dup, newOps, stats, pc>> /\ target' = dup[target] /\ pc = "resolve" /\ target # 0
    BY <1>5 DEF ResolveStep
  <2>2. target \in 1..Len(dup)
    BY <1>1, <2>1 DEF LinkInv, LocalsInv
  <2> QED
    BY <1>1, <2>1, <2>2 DEF StateInv
<1>6. CASE ResolveEnd
  <2>1. UNCHANGED <<pc, newOps, stats>> /\ target' = 0 /\ Len(dup') = Len(dup)
    BY <1>1, <1>6 DEF ResolveEnd
  <2> QED
    BY <1>1, <2>1, MarkState DEF StateInv
<1>7. CASE ResolveReturn
  <2>1. UNCHANGED <<dup, newOps, stats, target>> /\ pc' \in Places
    BY <1>1, <1>7 DEF ResolveReturn, LinkInv, LocalsInv, Places
  <2> QED
    BY <2>1, QuietState
<1> QED
  BY <1>2, <1>3, <1>4, <1>5, <1>6, <1>7 DEF Mark

LEMMA FinalizeState == ASSUME CurrentInv, StateInv, Finalize PROVE StateInv'
<1>1. /\ Len(dup) \in Nat /\ LinkInv /\ MemoInv
      /\ \A g \in 1..Len(dup) : dup[g] \in 0..Len(dup)
  BY DEF CurrentInv, LinkInv, ShapeInv
<1> USE DEF exprVars, markVars, mergeVars, statsVars, Places
<1>2. CASE MergeSkip \/ StartRehash \/ MergeAgain
  BY <1>2, QuietState DEF MergeSkip, StartRehash, MergeAgain, StateInv
<1>3. CASE MergeGroup
  BY <1>1, <1>3, MarkState DEF MergeGroup
<1>4. CASE MoveExpressions
  <2>1. pc' = "merge" /\ UNCHANGED <<dup, target, stats>>
        /\ newOps' \subseteq newOps \cup {dup[cursor]} /\ pc = "move"
    BY <1>4 DEF MoveExpressions
  <2>2. cursor \in 1..Len(dup) /\ dup[cursor] # 0
    BY <1>1, <2>1 DEF LinkInv, LocalsInv, ShapeInv
  <2>3. dup[cursor] \in 1..Len(dup)
    BY <1>1, <2>2
  <2> QED
    BY <2>1, <2>3 DEF StateInv
<1>5. ASSUME NEW i \in toRehash, RehashInsert(i) PROVE StateInv'
  BY <1>5, QuietState DEF RehashInsert, StateInv
<1>6. ASSUME NEW i \in toRehash, RehashDuplicate(i) PROVE StateInv'
  <2>1. UNCHANGED <<dup, newOps, stats>> /\ pc = "rehash"
        /\ (UNCHANGED <<pc, target>> \/ (pc' = "link" /\ target' = 0))
    BY <1>6 DEF RehashDuplicate, MarkDuplicates
  <2> QED
    BY <1>1, <2>1, QuietState, MarkState
<1>7. CASE ResetStats
  BY <1>7, QuietState DEF ResetStats, StateInv
<1>8. CASE ReturnReset
  <2>1. UNCHANGED <<dup, newOps, target>> /\ stats' \subseteq stats /\ pc' \in Places
    BY <1>8 DEF ReturnReset
  <2> QED
    BY <2>1, QuietState
<1>9. ASSUME NEW c \in Groups, VisitChild(c) PROVE StateInv'
  <2>1. UNCHANGED <<dup, newOps, target, stats>> /\ pc' \in Places
    BY <1>9 DEF VisitChild
  <2> QED
    BY <2>1, QuietState
<1>10. CASE DeriveStats
  BY <1>1, <1>10 DEF DeriveStats, StateInv, Groups
<1> QED
  BY <1>2, <1>3, <1>4, <1>5, <1>6, <1>7, <1>8, <1>9, <1>10 DEF Finalize

LEMMA StateNext == CurrentInv /\ StateInv /\ [Next]_vars => StateInv'
<1> SUFFICES ASSUME CurrentInv, StateInv, [Next]_vars PROVE StateInv'
  OBVIOUS
<1> USE DEF exprVars, markVars, mergeVars, statsVars, Places
<1>1. CASE Explore
  <2>1. ASSUME NEW g \in Groups, PstatsRecursiveDerive(g) PROVE StateInv'
    BY <2>1 DEF PstatsRecursiveDerive, StateInv, Groups
  <2> QED
    BY <1>1, <2>1, InsertState, NewGroupState DEF Explore
<1>2. CASE Mark
  BY <1>2, MarkWalkState
<1>3. CASE FinishExploration
  BY <1>3, QuietState DEF FinishExploration
<1>4. CASE Finalize
  BY <1>4, FinalizeState
<1>5. CASE FinalizeSearchStage
  BY <1>5, QuietState DEF FinalizeSearchStage
<1>6. CASE UNCHANGED vars
  BY <1>6 DEF vars, StateInv
<1> QED
  BY <1>1, <1>2, <1>3, <1>4, <1>5, <1>6 DEF Next

LEMMA MemoTypes == CurrentInv /\ StateInv => MemoTypeOK
<1> SUFFICES ASSUME CurrentInv, StateInv PROVE MemoTypeOK
  OBVIOUS
<1>1. /\ LinkInv /\ MemoInv
      /\ Len(dup) \in Nat /\ Len(grp) \in Nat
      /\ DOMAIN dup = 1..Len(dup) /\ DOMAIN grp = 1..Len(grp)
      /\ \A g \in 1..Len(dup) : dup[g] = 0 \/ (dup[g] \in 1..Len(dup) /\ dup[g] > g)
      /\ \A i \in 1..Len(grp) : grp[i] \in 1..Len(dup)
      /\ toRehash \subseteq 1..Len(grp)
  BY Typing DEF CurrentInv
<1>2. DOMAIN gexprs = 1..Len(grp)
  BY <1>1 DEF MemoInv
<1>3. \A s \in Seq(1..Len(dup)) : \A k \in DOMAIN s : s[k] \in 1..Len(dup)
  OBVIOUS
<1>4. \A i \in DOMAIN gexprs :
         /\ grp[i] \in Groups
         /\ \A k \in DOMAIN gexprs[i].kids : gexprs[i].kids[k] \in Groups
  BY <1>1, <1>2, <1>3 DEF MemoInv, Groups
<1>5. \A g \in Groups : dup[g] \in Groups \cup {0}
  BY <1>1 DEF Groups
<1>6. root \in Groups /\ target \in Groups \cup {0}
  BY <1>1 DEF StateInv, MemoInv, Groups
<1>7. cursor \in 0..Len(dup) /\ toRehash \subseteq DOMAIN gexprs
  BY <1>1, <1>2 DEF LinkInv, ShapeInv
<1> QED
  BY <1>4, <1>5, <1>6, <1>7 DEF MemoTypeOK, StateInv, Places, Groups

(* CMemo::GroupMerge, with the marks that CEngine::InsertXformResult made and those
   that FRehash adds pass after pass: when it is done, two groups have the same
   master just if the asserted pairs and the expressions the groups share, cascades
   through parents included, make them equal; no group with expressions is marked,
   and every link goes to a group that has some. *)
THEOREM MergeIsExact == Spec => []MergeInv
<1>1. CurrentInv /\ PairsInv /\ StateInv => MergeInv
  BY CurrentMerged, MergedExactly, MemoTypes DEF MergeInv
<1> QED
  BY <1>1, CurrentInit, CurrentNext, PairsInit, PairsNext, StateInit, StateNext, PTL DEF Spec

-----------------------------------------------------------------------------
(* Resetting statistics. *)

(* The groups FResetStats finds with statistics, sets of groups that are closed
   under the children it visits, and the groups for which it answers TRUE by
   themselves. *)
Had == {g \in Groups : {g, dup[g]} \cap before # {}}
Closed(D) == \A x \in D \cap Had : Children(x) \subseteq D
Stale == newOps \cup (Groups \ Had)

(* the groups from which none of these is reached *)
Clean == UNION {D \in SUBSET Groups : Closed(D) /\ D \cap Stale = {}}

FrameType == [grp : Groups, todo : SUBSET Groups, reset : BOOLEAN]

(* The i-th of the calls fs, when the groups st have statistics. *)
FrameOK(fs, st, i) ==
    /\ fs[i].grp \in Live \cap before
    /\ fs[i].todo \subseteq Children(fs[i].grp)
    /\ fs[i].grp \in newOps => fs[i].reset
    /\ fs[i].reset => fs[i].grp \notin Clean
    /\ i < Len(fs) => fs[i + 1].grp \in Children(fs[i].grp)
    /\ fs[i].grp \in st \/ \E j \in i..Len(fs) : fs[j].reset

(* Its children have been visited, are to be, or are being visited. *)
VisitedOK(fs, st, F, i) ==
    \A c \in Children(fs[i].grp) \ fs[i].todo :
      \/ c \in F /\ (c \in st \/ fs[i].reset)
      \/ i < Len(fs) /\ c = fs[i + 1].grp

(* F: groups for which a call has returned *)
ReturnedOK(st, F) ==
    /\ \A g \in F : g \in Live /\ (g \in before => Children(g) \subseteq F /\ (g \in st => g \in Clean))
    /\ \A g \in Live \cap before : g \in st \/ g \in F

(* What is reset had to be. *)
ResetOK(st) == st \subseteq before /\ \A g \in Live \cap before : g \in st \/ g \notin Clean

CallsOK(fs, st) ==
    /\ fs \in Seq(FrameType) /\ fs # <<>> /\ fs[1].grp = root
    /\ \A i \in 1..Len(fs) : FrameOK(fs, st, i)
    /\ \E F \in SUBSET Groups : ReturnedOK(st, F) /\ \A i \in 1..Len(fs) : VisitedOK(fs, st, F, i)

ResetInv == pc = "reset" => before \subseteq Groups /\ ResetOK(stats) /\ CallsOK(frames, stats)

(* The groups with expressions when GroupMerge is done: their children have
   expressions too, and what Pstats of them returns is their own. *)
LEMMA LiveGroups ==
    ASSUME CurrentInv, StateInv, Merged
    PROVE  /\ Live \subseteq Groups /\ root \in Live /\ 0 \notin Groups /\ stats \subseteq Groups
           /\ \A g \in Groups : Children(g) \subseteq Live
           /\ \A g \in Live : dup[g] = 0
<1>1. /\ LinkInv /\ MemoInv /\ Merged
      /\ Len(dup) \in Nat /\ Live \subseteq 1..Len(dup) /\ DOMAIN grp = 1..Len(grp) /\ Len(grp) \in Nat
  BY Typing DEF CurrentInv, Merged
<1>2. \A g \in 1..Len(dup) : IF dup[g] = 0 THEN g \in Live ELSE dup[g] \in Live
  BY <1>1, MastersLive
<1>3. \A g \in Live : dup[g] = 0
  BY <1>1 DEF CurrentInv, PassInv, Settled
<1>4. root \in Live
  BY <1>1, <1>2 DEF CurrentInv, PassInv, MemoInv
<1>5. ASSUME NEW g \in Groups PROVE Children(g) \subseteq Live
  <2>1. ASSUME NEW i \in InGroup(g), NEW k \in DOMAIN gexprs[i].kids PROVE Child(gexprs[i].kids[k]) \in Live
    <3>1. i \in 1..Len(grp)
      BY <1>1 DEF InGroup
    <3>2. gexprs[i].kids \in Seq(1..Len(dup))
      BY <1>1, <3>1 DEF MemoInv
    <3>3. gexprs[i].kids[k] \in 1..Len(dup)
      BY <3>2
    <3> QED
      BY <1>1, <1>2, <3>3, EmptyIffDead DEF Child
  <2> QED
    BY <2>1 DEF Children, Kids
<1>6. 0 \notin Groups /\ stats \subseteq Groups
  BY <1>1 DEF Groups, StateInv
<1> QED
  BY <1>1, <1>3, <1>4, <1>5, <1>6 DEF Groups

(* Clean is the largest closed set without stale groups. *)
LEMMA CleanIs ==
    ASSUME \A g \in Groups : Children(g) \subseteq Groups
    PROVE  /\ Clean \subseteq Groups /\ Clean \cap Stale = {} /\ Closed(Clean)
           /\ \A g \in Groups : g \in Had /\ g \notin newOps /\ Children(g) \subseteq Clean => g \in Clean
           /\ \A D \in SUBSET Groups : Closed(D) /\ D \cap Stale = {} => D \subseteq Clean
<1>1. Clean \subseteq Groups /\ Clean \cap Stale = {}
  BY DEF Clean
<1>2. Closed(Clean)
  <2> SUFFICES ASSUME NEW x \in Clean, x \in Had PROVE Children(x) \subseteq Clean
    BY DEF Closed
  <2>1. PICK D \in SUBSET Groups : Closed(D) /\ D \cap Stale = {} /\ x \in D
    BY DEF Clean
  <2>2. Children(x) \subseteq D
    BY <2>1 DEF Closed
  <2> QED
    BY <2>1, <2>2 DEF Clean
<1>3. \A D \in SUBSET Groups : Closed(D) /\ D \cap Stale = {} => D \subseteq Clean
  BY DEF Clean
<1>4. ASSUME NEW g \in Groups, g \in Had, g \notin newOps, Children(g) \subseteq Clean PROVE g \in Clean
  <2> DEFINE D == Clean \cup {g}
  <2>1. D \in SUBSET Groups
    BY <1>1
  <2>2. D \cap Stale = {}
    BY <1>1, <1>4 DEF Stale
  <2>3. Closed(D)
    BY <1>2, <1>4 DEF Closed
  <2>4. g \in D
    OBVIOUS
  <2> HIDE DEF D
  <2> QED
    BY <1>3, <2>1, <2>2, <2>3, <2>4
<1> QED
  BY <1>1, <1>2, <1>3, <1>4

(* The recursive definition of what is reached ends in time: it gives the least
   closed set with its start. *)
LEMMA ReachIs ==
    ASSUME CurrentInv, \A g \in Groups : Children(g) \subseteq Groups, NEW S \in SUBSET Groups, NEW V
    PROVE  /\ S \subseteq ReachVia(S, V) /\ ReachVia(S, V) \subseteq Groups
           /\ \A x \in ReachVia(S, V) \cap V : Children(x) \subseteq ReachVia(S, V)
           /\ \A D \in SUBSET Groups : S \subseteq D /\ (\A x \in D \cap V : Children(x) \subseteq D)
                                       => ReachVia(S, V) \subseteq D
<1> DEFINE n == Len(dup)
           Is(h) == h = [i \in Nat |-> IF i = 0 THEN S ELSE ReachStep(h[i - 1], V)]
           T(D) == {R \in SUBSET D : S \subseteq R}
           F(D) == [R \in T(D) |-> ReachStep(R, V)]
           Good(D) == D \in SUBSET Groups /\ S \subseteq D /\ \A x \in D \cap V : Children(x) \subseteq D
           h == ReachRounds(S, V)
<1>0. n \in Nat
  BY Typing DEF CurrentInv
<1>1. ASSUME NEW D, Good(D)
      PROVE  F(D) \in [T(D) -> T(D)] /\ S \in T(D)
             /\ \A R \in T(D) : R \subseteq F(D)[R] /\ F(D)[R] = ReachStep(R, V)
  BY <1>1 DEF ReachStep
<1>2. Good(Groups)
  OBVIOUS
<1>3. PICK g : g \in [Nat -> T(Groups)] /\ g = [i \in Nat |-> IF i = 0 THEN S ELSE F(Groups)[g[i - 1]]]
  <2>1. IsMap(F(Groups), T(Groups)) /\ S \in T(Groups)
    BY <1>1, <1>2 DEF IsMap
  <2> HIDE DEF F, T
  <2> QED
    BY <2>1, RecursionExists
<1>4. Is(g)
  <2>1. ASSUME NEW i \in Nat, i # 0 PROVE F(Groups)[g[i - 1]] = ReachStep(g[i - 1], V)
    <3>1. i - 1 \in Nat
      BY <2>1
    <3>2. g[i - 1] \in T(Groups)
      BY <1>3, <3>1
    <3> QED
      BY <1>1, <1>2, <3>2
  <2> HIDE DEF F
  <2>2. \A i \in Nat : (IF i = 0 THEN S ELSE F(Groups)[g[i - 1]]) = (IF i = 0 THEN S ELSE ReachStep(g[i - 1], V))
    BY <2>1
  <2>3. [i \in Nat |-> IF i = 0 THEN S ELSE F(Groups)[g[i - 1]]] = [i \in Nat |-> IF i = 0 THEN S ELSE ReachStep(g[i - 1], V)]
    BY ONLY <2>2
  <2> QED
    BY <1>3, <2>3
<1>5. h = CHOOSE f : Is(f)
  BY DEF ReachRounds
<1>6. Is(h)
  BY <1>4, <1>5
<1> HIDE DEF h
<1>7. h[0] = S
  BY <1>6
<1>8. ASSUME NEW i \in Nat PROVE h[i + 1] = ReachStep(h[i], V)
  <2>1. i + 1 \in Nat /\ i + 1 # 0 /\ (i + 1) - 1 = i
    OBVIOUS
  <2>2. h[i + 1] = ReachStep(h[(i + 1) - 1], V)
    BY <1>6, <2>1
  <2> QED
    BY <2>1, <2>2
<1>9. IsFiniteSet(Groups) /\ Cardinality(Groups) = n
  <2>1. IsFiniteSet(1..n) /\ Cardinality(1..n) = IF 1 > n THEN 0 ELSE n - 1 + 1
    BY <1>0, FS_Interval, SMTT(30)
  <2>2. Cardinality(1..n) = n
    <3> HIDE DEF n
    <3> QED
      BY <1>0, <2>1
  <2> QED
    BY <2>1, <2>2 DEF Groups
<1>10. ASSUME NEW D, Good(D)
       PROVE  h[n] \in T(D) /\ ReachStep(h[n], V) = h[n]
  <2>1. IsFiniteSet(D) /\ Cardinality(D) <= n
    BY <1>9, <1>10, FS_Subset
  <2>2. IsMap(F(D), T(D)) /\ h[0] \in T(D) /\ \A R \in T(D) : R \subseteq F(D)[R]
    BY <1>1, <1>7, <1>10 DEF IsMap
  <2>3. \A i \in Nat : h[i] \in T(D) => h[i + 1] = F(D)[h[i]]
    BY <1>1, <1>8, <1>10
  <2>4. T(D) \subseteq SUBSET D
    OBVIOUS
  <2>5. \A R \in T(D) : F(D)[R] = ReachStep(R, V)
    OBVIOUS
  <2> HIDE DEF T, F, n, Is, Good
  <2>6. h[n] \in T(D) /\ F(D)[h[n]] = h[n]
    BY ONLY <1>0, <2>1, <2>2, <2>3, <2>4, GrowthEnds
  <2> QED
    BY <2>5, <2>6
<1>11. ReachVia(S, V) = h[n]
  BY DEF ReachVia, h
<1>12. h[n] \in T(Groups) /\ ReachStep(h[n], V) = h[n]
  BY <1>2, <1>10
<1>13. \A x \in h[n] \cap V : Children(x) \subseteq h[n]
  BY <1>12 DEF ReachStep
<1>14. \A D \in SUBSET Groups : S \subseteq D /\ (\A x \in D \cap V : Children(x) \subseteq D) => h[n] \subseteq D
  BY <1>10
<1> QED
  BY <1>11, <1>12, <1>13, <1>14

(* So the groups from which nothing stale is reached are the clean ones. *)
LEMMA CleanReach ==
    ASSUME CurrentInv, \A g \in Groups : Children(g) \subseteq Groups, NEW g \in Groups
    PROVE  ReachVia({g}, Had) \cap Stale = {} <=> g \in Clean
<1>1. /\ {g} \subseteq ReachVia({g}, Had) /\ ReachVia({g}, Had) \subseteq Groups
      /\ \A x \in ReachVia({g}, Had) \cap Had : Children(x) \subseteq ReachVia({g}, Had)
      /\ \A D \in SUBSET Groups : {g} \subseteq D /\ (\A x \in D \cap Had : Children(x) \subseteq D)
                                  => ReachVia({g}, Had) \subseteq D
  BY ReachIs
<1>2. Closed(ReachVia({g}, Had))
  BY <1>1 DEF Closed
<1>3. g \in Clean => ReachVia({g}, Had) \subseteq Clean
  BY <1>1, CleanIs, ZenonT(30) DEF Closed
<1> QED
  BY <1>1, <1>2, <1>3, CleanIs

(* What the steps of FResetStats need of the memo, which they leave alone. *)
Walkable ==
    /\ Live \subseteq Groups /\ before \subseteq Groups
    /\ \A g \in Groups : Children(g) \subseteq Live /\ Children(g) \subseteq Groups
    /\ \A g \in Live : g \in Had <=> g \in before

(* A group with new expressions, or with a child that is not clean, is not. *)
LEMMA NotClean ==
    ASSUME Walkable, NEW g \in Live \cap before,
           g \in newOps \/ \E c \in Children(g) : c \notin Clean
    PROVE  g \notin Clean
BY CleanIs DEF Walkable, Stale, Closed

(* Neither is one that has lost its statistics, or has none. *)
LEMMA LostStats ==
    ASSUME Walkable, NEW st, ResetOK(st), NEW c \in Live, c \notin st
    PROVE  c \notin Clean
<1>1. c \notin before => c \in Stale
  BY DEF Walkable, Stale
<1> QED
  BY <1>1, CleanIs DEF Walkable, ResetOK

(* A child without statistics. *)
LEMMA VisitBare ==
    ASSUME Walkable, NEW st, ResetOK(st), NEW fs, CallsOK(fs, st), NEW c, c \in fs[Len(fs)].todo, c \notin st,
           NEW fs2 \in Seq(FrameType), Len(fs2) = Len(fs), \A i \in 1..Len(fs) : i < Len(fs) => fs2[i] = fs[i],
           fs2[Len(fs)] = [fs[Len(fs)] EXCEPT !.todo = @ \ {c}, !.reset = TRUE]
    PROVE  CallsOK(fs2, st)
<1> DEFINE n == Len(fs)
           g == fs[n].grp
<1>1. /\ fs \in Seq(FrameType) /\ n \in Nat /\ n \in 1..n /\ fs[n] \in FrameType
      /\ fs[1].grp = root /\ \A i \in 1..n : FrameOK(fs, st, i)
  BY DEF CallsOK
<1>2. PICK F \in SUBSET Groups : ReturnedOK(st, F) /\ \A i \in 1..n : VisitedOK(fs, st, F, i)
  BY DEF CallsOK
<1>3. /\ fs2[n].grp = g /\ fs2[n].todo = fs[n].todo \ {c} /\ fs2[n].reset = TRUE
      /\ \A i \in 1..n : fs2[i].grp = fs[i].grp /\ (fs[i].reset => fs2[i].reset)
  <2>1. fs2[n].grp = g /\ fs2[n].todo = fs[n].todo \ {c} /\ fs2[n].reset = TRUE
    BY <1>1 DEF FrameType
  <2>2. \A i \in 1..n : i = n \/ fs2[i] = fs[i]
    BY <1>1
  <2> HIDE DEF n
  <2> QED
    BY <2>1, <2>2
<1>4. g \in Live \cap before /\ fs[n].todo \subseteq Children(g) /\ c \in Children(g) /\ c \in Live /\ c \in Groups
  BY <1>1 DEF FrameOK, Walkable
<1>5. g \notin Clean
  BY <1>4, LostStats, NotClean
<1>6. \A i \in 1..n : FrameOK(fs2, st, i)
  <2> SUFFICES ASSUME NEW i \in 1..n PROVE FrameOK(fs2, st, i)
    OBVIOUS
  <2>1. FrameOK(fs, st, i)
    BY <1>1
  <2>2. i < n => i + 1 \in 1..n /\ fs2[i + 1].grp = fs[i + 1].grp
    BY <1>1, <1>3
  <2>3. fs2[i].grp \in st \/ \E j \in i..n : fs2[j].reset
    <3>1. fs[i].grp \in st \/ \E j \in i..n : fs[j].reset
      BY <2>1 DEF FrameOK
    <3>2. \A j \in i..n : j \in 1..n
      OBVIOUS
    <3> QED
      BY <1>3, <3>1, <3>2
  <2>4. CASE i = n
    BY <1>1, <1>3, <1>4, <1>5, <2>3, <2>4 DEF FrameOK
  <2>5. CASE i < n
    <3>1. fs2[i] = fs[i]
      BY <2>5
    <3> QED
      BY <2>1, <2>2, <2>3, <2>5, <3>1 DEF FrameOK
  <2> QED
    BY <1>1, <2>4, <2>5
<1>7. PICK F2 : F2 = F \cup {c}
  OBVIOUS
<1>8. F2 \in SUBSET Groups /\ ReturnedOK(st, F2)
  <2>1. c \in before => c \in F
    BY <1>2, <1>4 DEF ReturnedOK
  <2> QED
    BY <1>2, <1>4, <1>7, <2>1 DEF ReturnedOK
<1>9. \A i \in 1..n : VisitedOK(fs2, st, F2, i)
  <2> SUFFICES ASSUME NEW i \in 1..n PROVE VisitedOK(fs2, st, F2, i)
    OBVIOUS
  <2>1. VisitedOK(fs, st, F, i)
    BY <1>2
  <2>2. CASE i = n
    BY <1>1, <1>3, <1>7, <2>1, <2>2 DEF VisitedOK
  <2>3. CASE i < n
    <3>1. fs2[i] = fs[i] /\ i + 1 \in 1..n
      BY <1>1, <2>3
    <3>2. fs2[i + 1].grp = fs[i + 1].grp
      BY <1>3, <3>1
    <3> QED
      BY <1>7, <2>1, <3>1, <3>2 DEF VisitedOK
  <2> QED
    BY <1>1, <2>2, <2>3
<1>10. fs2 # <<>> /\ fs2[1].grp = root /\ Len(fs2) = n
  BY <1>1, <1>3
<1> HIDE DEF n
<1> QED
  BY <1>6, <1>8, <1>9, <1>10 DEF CallsOK

(* A child with statistics: FResetStats is called for it. *)
LEMMA VisitDeeper ==
    ASSUME Walkable, NEW st, ResetOK(st), NEW fs, CallsOK(fs, st), NEW c, c \in fs[Len(fs)].todo, c \in st,
           NEW fs2 \in Seq(FrameType), Len(fs2) = Len(fs) + 1, \A i \in 1..Len(fs) : i < Len(fs) => fs2[i] = fs[i],
           fs2[Len(fs)] = [fs[Len(fs)] EXCEPT !.todo = @ \ {c}], fs2[Len(fs) + 1] = Frame(c)
    PROVE  CallsOK(fs2, st)
<1> DEFINE n == Len(fs)
           g == fs[n].grp
<1>1. /\ fs \in Seq(FrameType) /\ n \in Nat /\ n \in 1..n /\ fs[n] \in FrameType
      /\ fs[1].grp = root /\ \A i \in 1..n : FrameOK(fs, st, i)
  BY DEF CallsOK
<1>2. PICK F \in SUBSET Groups : ReturnedOK(st, F) /\ \A i \in 1..n : VisitedOK(fs, st, F, i)
  BY DEF CallsOK
<1>3. /\ fs2[n].grp = g /\ fs2[n].todo = fs[n].todo \ {c} /\ fs2[n].reset = fs[n].reset
      /\ fs2[n + 1].grp = c /\ fs2[n + 1].todo = Children(c) /\ fs2[n + 1].reset = (c \in newOps)
      /\ \A i \in 1..n : fs2[i].grp = fs[i].grp /\ fs2[i].reset = fs[i].reset
  BY <1>1 DEF FrameType, Frame
<1>4. /\ g \in Live \cap before /\ fs[n].todo \subseteq Children(g)
      /\ c \in Children(g) /\ c \in Live \cap before /\ c \in Groups
  BY <1>1 DEF FrameOK, Walkable, ResetOK
<1>5. FrameOK(fs2, st, n + 1)
  <2>1. c \in newOps => c \notin Clean
    BY <1>4, NotClean
  <2>2. ~ (n + 1 < Len(fs2))
    BY <1>1
  <2> QED
    BY <1>3, <1>4, <2>1, <2>2 DEF FrameOK
<1>6. \A i \in 1..n : FrameOK(fs2, st, i)
  <2> SUFFICES ASSUME NEW i \in 1..n PROVE FrameOK(fs2, st, i)
    OBVIOUS
  <2>1. FrameOK(fs, st, i)
    BY <1>1
  <2>2. /\ i < n => i + 1 \in 1..n /\ fs2[i + 1].grp = fs[i + 1].grp
        /\ fs2[i].grp = fs[i].grp /\ fs2[i].reset = fs[i].reset
    BY <1>1, <1>3
  <2>3. fs2[i].grp \in st \/ \E j \in i..Len(fs2) : fs2[j].reset
    <3>1. fs[i].grp \in st \/ \E j \in i..n : fs[j].reset
      BY <2>1 DEF FrameOK
    <3>2. \A j \in i..n : j \in 1..n /\ j \in i..Len(fs2)
      BY <1>1
    <3> QED
      BY <1>3, <3>1, <3>2
  <2>4. fs2[i + 1].grp \in Children(fs2[i].grp)
    <3>1. CASE i = n
      BY <1>3, <1>4, <2>2, <3>1
    <3>2. CASE i < n
      BY <2>1, <2>2, <3>2 DEF FrameOK
    <3> QED
      BY <1>1, <3>1, <3>2
  <2>5. fs2[i].todo \subseteq fs[i].todo
    <3>1. CASE i = n
      BY <1>3, <3>1
    <3>2. CASE i < n
      BY <3>2
    <3> QED
      BY <1>1, <3>1, <3>2
  <2> QED
    BY <2>1, <2>2, <2>3, <2>4, <2>5 DEF FrameOK
<1>7. \A i \in 1..n : VisitedOK(fs2, st, F, i)
  <2> SUFFICES ASSUME NEW i \in 1..n PROVE VisitedOK(fs2, st, F, i)
    OBVIOUS
  <2>1. VisitedOK(fs, st, F, i)
    BY <1>2
  <2>0. i < Len(fs2)
    BY <1>1
  <2>2. CASE i = n
    BY <1>1, <1>3, <2>0, <2>1, <2>2 DEF VisitedOK
  <2>3. CASE i < n
    <3>1. fs2[i] = fs[i] /\ i + 1 \in 1..n
      BY <1>1, <2>3
    <3>2. fs2[i + 1].grp = fs[i + 1].grp
      BY <1>3, <3>1
    <3> QED
      BY <2>0, <2>1, <3>1, <3>2 DEF VisitedOK
  <2> QED
    BY <1>1, <2>2, <2>3
<1>8. VisitedOK(fs2, st, F, n + 1)
  BY <1>3 DEF VisitedOK
<1>9. fs2 # <<>> /\ fs2[1].grp = root
  BY <1>1, <1>3
<1>10. \A i \in 1..Len(fs2) : i \in 1..n \/ i = n + 1
  BY <1>1
<1> HIDE DEF n
<1> QED
  BY <1>2, <1>5, <1>6, <1>7, <1>8, <1>9, <1>10 DEF CallsOK

(* The topmost of the calls fs, for g, returns, and leaves the statistics st2. *)
Returns(fs, st, g, st2) ==
    /\ fs[Len(fs)].todo = {} /\ g = fs[Len(fs)].grp
    /\ st2 = IF fs[Len(fs)].reset THEN st \ {g} ELSE st

(* It has returned. *)
ReturnedTo(fs, st, F, g) ==
    /\ ReturnedOK(st, F) /\ g \in F
    /\ \A i \in 1..Len(fs) : i + 1 < Len(fs) => VisitedOK(fs, st, F, i)
    /\ \A i \in 1..Len(fs) : i + 1 = Len(fs) =>
         \A c \in Children(fs[i].grp) \ fs[i].todo :
           (c \in F /\ (c \in st \/ fs[i].reset)) \/ c = g

(* A call returns: if one of its children has lost its statistics or had none,
   or the group has new expressions, it loses its own; otherwise it is clean. *)
LEMMA CallReturns ==
    ASSUME Walkable, NEW st, ResetOK(st), NEW fs, CallsOK(fs, st),
           NEW g, NEW st2, Returns(fs, st, g, st2)
    PROVE  /\ ResetOK(st2) /\ g \in Live \cap before /\ g \in Groups
           /\ fs[Len(fs)].reset => g \notin Clean /\ g \notin st2
           /\ ~fs[Len(fs)].reset => g \in st
           /\ \E F \in SUBSET Groups : ReturnedTo(fs, st2, F, g)
<1> DEFINE n == Len(fs)
<1>0. fs[n].todo = {} /\ g = fs[n].grp /\ st2 = IF fs[n].reset THEN st \ {g} ELSE st
  BY DEF Returns
<1>1. /\ fs \in Seq(FrameType) /\ n \in Nat /\ n \in 1..n /\ fs[n] \in FrameType
      /\ fs[1].grp = root /\ \A i \in 1..n : FrameOK(fs, st, i)
  BY DEF CallsOK
<1>2. PICK F \in SUBSET Groups : ReturnedOK(st, F) /\ \A i \in 1..n : VisitedOK(fs, st, F, i)
  BY DEF CallsOK
<1>3. /\ g \in Live \cap before /\ g \in Groups /\ g \in Had
      /\ Children(g) \subseteq Live /\ Children(g) \subseteq Groups
  BY <1>0, <1>1 DEF FrameOK, Walkable
<1>4. \A c \in Children(g) : c \in F /\ (c \in st \/ fs[n].reset)
  BY <1>0, <1>1, <1>2 DEF VisitedOK
<1>5. fs[n].reset => g \notin Clean
  BY <1>0, <1>1 DEF FrameOK
<1>6. ~fs[n].reset => g \in st /\ g \in Clean
  <2> SUFFICES ASSUME ~fs[n].reset PROVE g \in st /\ g \in Clean
    OBVIOUS
  <2>1. g \in st
    <3>1. g \in st \/ \E j \in n..n : fs[j].reset
      BY <1>0, <1>1 DEF FrameOK
    <3>2. \A j \in n..n : j = n
      BY <1>1
    <3> QED
      BY <3>1, <3>2
  <2>2. \A c \in Children(g) : c \in F /\ c \in st
    BY <1>4
  <2>3. \A c \in Children(g) : c \in before
    BY <2>2 DEF ResetOK
  <2>4. Children(g) \subseteq Clean
    BY <1>2, <2>2, <2>3 DEF ReturnedOK
  <2>5. g \notin newOps
    BY <1>0, <1>1 DEF FrameOK
  <2> QED
    BY <1>3, <2>1, <2>4, <2>5, CleanIs DEF Walkable
<1>7. st2 \subseteq st /\ (\A x \in st : x \in st2 \/ (x = g /\ fs[n].reset)) /\ (fs[n].reset => g \notin st2)
  BY <1>0
<1>8. ResetOK(st2)
  BY <1>5, <1>7 DEF ResetOK
<1>9. PICK F2 : F2 = F \cup {g}
  OBVIOUS
<1>10. F2 \in SUBSET Groups /\ g \in F2
  BY <1>3, <1>9
<1>11. ReturnedOK(st2, F2)
  <2>1. \A x \in F2 : x \in Live /\ (x \in before => Children(x) \subseteq F2 /\ (x \in st2 => x \in Clean))
    <3>1. \A x \in F : x \in Live /\ (x \in before => Children(x) \subseteq F2 /\ (x \in st2 => x \in Clean))
      BY <1>2, <1>7, <1>9 DEF ReturnedOK
    <3>2. g \in Live /\ Children(g) \subseteq F2 /\ (g \in st2 => g \in Clean)
      BY <1>3, <1>4, <1>6, <1>7, <1>9
    <3> QED
      BY <1>9, <3>1, <3>2
  <2>2. \A x \in Live \cap before : x \in st2 \/ x \in F2
    BY <1>2, <1>7, <1>9 DEF ReturnedOK
  <2> QED
    BY <2>1, <2>2 DEF ReturnedOK
<1>12. \A c \in F : c \in st => c \in st2
  BY <1>2, <1>5, <1>7 DEF ReturnedOK, ResetOK
<1>13. ASSUME NEW i \in 1..n, i + 1 < n PROVE VisitedOK(fs, st2, F2, i)
  BY <1>2, <1>9, <1>12 DEF VisitedOK
<1>14. ASSUME NEW i \in 1..n, i + 1 = n, NEW c \in Children(fs[i].grp) \ fs[i].todo
       PROVE  (c \in F2 /\ (c \in st2 \/ fs[i].reset)) \/ c = g
  <2>1. VisitedOK(fs, st, F, i) /\ fs[i + 1].grp = g
    BY <1>0, <1>2, <1>14
  <2> QED
    BY <1>9, <1>12, <1>14, <2>1 DEF VisitedOK
<1>15. ReturnedTo(fs, st2, F2, g)
  BY <1>10, <1>11, <1>13, <1>14 DEF ReturnedTo
<1> HIDE DEF n
<1> QED
  BY <1>3, <1>5, <1>6, <1>7, <1>8, <1>10, <1>15 DEF n

(* It returns to another call. *)
LEMMA ReturnBelow ==
    ASSUME Walkable, NEW st, ResetOK(st), NEW fs, CallsOK(fs, st), Len(fs) > 1,
           NEW g, NEW st2, Returns(fs, st, g, st2),
           NEW fs2 \in Seq(FrameType), Len(fs2) = Len(fs) - 1, \A i \in 1..Len(fs2) : i < Len(fs2) => fs2[i] = fs[i],
           fs2[Len(fs2)] = [fs[Len(fs2)] EXCEPT !.reset = @ \/ fs[Len(fs)].reset]
    PROVE  CallsOK(fs2, st2)
<1> DEFINE n == Len(fs)
           m == Len(fs2)
<1>0. fs[n].todo = {} /\ g = fs[n].grp /\ (~fs[n].reset => st2 = st)
  BY DEF Returns
<1>1. /\ fs \in Seq(FrameType) /\ n \in Nat /\ n > 1 /\ m = n - 1 /\ m \in 1..n /\ m \in Nat /\ m \in 1..m /\ n \in 1..n
      /\ fs[1].grp = root /\ \A i \in 1..n : FrameOK(fs, st, i) /\ fs[i] \in FrameType
  BY DEF CallsOK
<1>2. PICK F \in SUBSET Groups : ReturnedTo(fs, st2, F, g)
  BY CallReturns
<1>3. g \in Live \cap before /\ (fs[n].reset => g \notin Clean /\ g \notin st2) /\ (~fs[n].reset => g \in st)
  BY CallReturns
<1>4. /\ \A i \in 1..m : fs2[i].grp = fs[i].grp /\ fs2[i].todo = fs[i].todo
      /\ fs2[m].reset = (fs[m].reset \/ fs[n].reset)
      /\ \A i \in 1..m : i < m => fs2[i].reset = fs[i].reset
  <2>1. fs2[m].grp = fs[m].grp /\ fs2[m].todo = fs[m].todo /\ fs2[m].reset = (fs[m].reset \/ fs[n].reset)
    BY <1>1 DEF FrameType
  <2>2. \A i \in 1..m : i = m \/ (i < m /\ fs2[i] = fs[i])
    BY <1>1
  <2>3. ASSUME NEW i \in 1..m PROVE fs2[i].grp = fs[i].grp /\ fs2[i].todo = fs[i].todo /\ (i < m => fs2[i].reset = fs[i].reset)
    <3>1. CASE i = m
      BY <1>1, <2>1, <3>1
    <3>2. CASE i < m /\ fs2[i] = fs[i]
      BY <3>2
    <3> QED
      BY <2>2, <3>1, <3>2
  <2> HIDE DEF m, n
  <2> QED
    BY <2>1, <2>3
<1>5. fs[n].grp \in Children(fs[m].grp) /\ m + 1 = n
  BY <1>1, SMTT(30) DEF FrameOK
<1>6. ASSUME NEW i \in 1..m PROVE FrameOK(fs2, st2, i)
  <2>1. FrameOK(fs, st, i) /\ i \in 1..n
    BY <1>1
  <2>2. fs2[i].reset => fs2[i].grp \notin Clean
    <3>1. CASE i < m
      BY <1>4, <2>1, <3>1 DEF FrameOK
    <3>2. CASE i = m
      <4>1. fs[n].reset => fs[m].grp \notin Clean
        BY <1>0, <1>3, <1>5, <2>1, <3>2, NotClean DEF FrameOK
      <4> QED
        BY <1>4, <2>1, <3>2, <4>1 DEF FrameOK
    <3> QED
      BY <1>1, <3>1, <3>2
  <2>3. i < m => fs2[i + 1].grp \in Children(fs2[i].grp)
    <3>1. i < m => i + 1 \in 1..m /\ i < n
      BY <1>1
    <3> QED
      BY <1>4, <2>1, <3>1 DEF FrameOK
  <2>4. fs2[i].grp \in st2 \/ \E j \in i..m : fs2[j].reset
    <3>1. fs[i].grp \in st \/ \E j \in i..n : fs[j].reset
      BY <2>1 DEF FrameOK
    <3>2. CASE fs[n].reset
      <4>1. fs2[m].reset
        BY <1>4, <3>2
      <4>2. m \in i..m
        BY <1>1
      <4> QED
        BY <4>1, <4>2
    <3>3. CASE ~fs[n].reset
      <4>1. st2 = st
        BY <1>0, <3>3
      <4>2. ASSUME NEW j \in i..n, fs[j].reset PROVE j \in i..m /\ fs2[j].reset
        <5>1. j # n
          BY <3>3, <4>2
        <5>2. j \in i..m /\ j \in 1..m
          BY <1>1, <5>1
        <5>3. j = m \/ j < m
          BY <1>1, <5>2
        <5> QED
          BY <1>4, <4>2, <5>2, <5>3
      <4> QED
        BY <1>4, <3>1, <4>1, <4>2
    <3> QED
      BY <3>2, <3>3
  <2> HIDE DEF m, n
  <2>5. fs2[i].grp \in Live \cap before /\ fs2[i].todo \subseteq Children(fs2[i].grp)
    BY <1>4, <2>1 DEF FrameOK
  <2>6. fs2[i].grp \in newOps => fs2[i].reset
    <3>1. i = m \/ i < m
      BY <1>1
    <3> QED
      BY <1>4, <2>1, <3>1 DEF FrameOK
  <2> QED
    BY <2>2, <2>3, <2>4, <2>5, <2>6 DEF FrameOK, m
<1>7. ASSUME NEW i \in 1..m PROVE VisitedOK(fs2, st2, F, i)
  <2>1. CASE i = m
    <3>1. \A c \in Children(fs[m].grp) \ fs[m].todo : (c \in F /\ (c \in st2 \/ fs[m].reset)) \/ c = g
      BY <1>1, <1>2, <1>5 DEF ReturnedTo
    <3>0. g \in F
      BY <1>2 DEF ReturnedTo
    <3>2. g \in st2 \/ fs[n].reset
      BY <1>0, <1>3
    <3> QED
      BY <3>0, <1>4, <2>1, <3>1, <3>2 DEF VisitedOK
  <2>2. CASE i < m
    <3>1. i + 1 < n /\ i \in 1..n /\ i + 1 \in 1..m
      BY <1>1, <2>2
    <3>2. VisitedOK(fs, st2, F, i)
      BY <1>2, <3>1 DEF ReturnedTo
    <3> QED
      BY <1>4, <2>2, <3>1, <3>2 DEF VisitedOK
  <2> QED
    BY <1>1, <2>1, <2>2
<1>8. fs2 # <<>> /\ fs2[1].grp = root
  BY <1>1, <1>4
<1> HIDE DEF n
<1> QED
  BY <1>2, <1>6, <1>7, <1>8 DEF CallsOK, ReturnedTo

(* The call for the root returns: everything that is reached has been visited. *)
LEMMA ReturnLast ==
    ASSUME Walkable, NEW st, ResetOK(st), NEW fs, CallsOK(fs, st), Len(fs) = 1,
           NEW g, NEW st2, Returns(fs, st, g, st2)
    PROVE  \E F \in SUBSET Groups :
             /\ root \in F /\ \A x \in F \cap Had : Children(x) \subseteq F
             /\ \A x \in F \cap Had : x \in Live /\ (x \in st2 <=> x \in Clean)
<1>1. g = root
  BY DEF CallsOK, Returns
<1>2. ResetOK(st2) /\ \E F \in SUBSET Groups : ReturnedTo(fs, st2, F, root)
  BY <1>1, CallReturns
<1>3. PICK F \in SUBSET Groups : ReturnedOK(st2, F) /\ root \in F
  BY <1>2 DEF ReturnedTo
<1>4. \A x \in F \cap Had : x \in Live /\ x \in before
  BY <1>3 DEF ReturnedOK, Walkable
<1>5. \A x \in F \cap Had : Children(x) \subseteq F /\ (x \in st2 <=> x \in Clean)
  BY <1>2, <1>3, <1>4 DEF ReturnedOK, ResetOK
<1> QED
  BY <1>3, <1>4, <1>5

(* FResetStats leaves the memo alone: nothing changes but its calls and the
   statistics. *)
memoVars == <<gexprs, grp, hidden, dup, root, newOps, before>>

LEMMA Frozen ==
    ASSUME UNCHANGED memoVars
    PROVE  /\ Groups' = Groups /\ Live' = Live /\ Had' = Had /\ Stale' = Stale /\ Clean' = Clean
           /\ \A x : Children(x)' = Children(x)
<1> USE DEF memoVars
<1>1. Groups' = Groups /\ Live' = Live
  BY DEF Groups, Live
<1>2. Had' = Had
  BY <1>1 DEF Had
<1>3. Stale' = Stale
  BY <1>1, <1>2 DEF Stale
<1>4. \A x : InGroup(x)' = InGroup(x)
  BY DEF InGroup
<1>5. \A x : Child(x)' = Child(x)
  BY <1>4 DEF Child, Empty
<1>6. \A x : Kids(x)' = Kids(x)
  BY <1>5 DEF Kids
<1>7. \A x : Children(x)' = Children(x)
  BY <1>4, <1>6 DEF Children
<1>8. \A D : Closed(D)' <=> Closed(D)
  BY <1>2, <1>7 DEF Closed
<1>9. Clean' = Clean
  BY <1>1, <1>3, <1>8 DEF Clean
<1> QED
  BY <1>1, <1>2, <1>3, <1>7, <1>9

LEMMA FrozenCalls ==
    ASSUME UNCHANGED memoVars, CallsOK(frames', stats'), ResetOK(stats')
    PROVE  CallsOK(frames, stats)' /\ ResetOK(stats)'
<1>1. /\ Groups' = Groups /\ Live' = Live /\ Clean' = Clean /\ before' = before /\ newOps' = newOps /\ root' = root
      /\ \A x : Children(x)' = Children(x)
  BY Frozen DEF memoVars
<1>2. ResetOK(stats)'
  BY <1>1 DEF ResetOK
<1>3. FrameType' = FrameType
  BY <1>1 DEF FrameType
<1>4. \A i : FrameOK(frames', stats', i) => FrameOK(frames, stats, i)'
  BY <1>1 DEF FrameOK
<1>5. \A F : ReturnedOK(stats', F) => ReturnedOK(stats, F)'
  BY <1>1 DEF ReturnedOK
<1>6. \A F, i : VisitedOK(frames', stats', F, i) => VisitedOK(frames, stats, F, i)'
  BY <1>1 DEF VisitedOK
<1> QED
  BY <1>1, <1>2, <1>3, <1>4, <1>5, <1>6 DEF CallsOK

(* The groups F are closed under what FResetStats visits, and those of them that
   had statistics keep them just if they are clean. *)
ResetOf(F, st) ==
    /\ root \in F /\ \A x \in F \cap Had : Children(x) \subseteq F
    /\ \A x \in F \cap Had : x \in Live /\ (x \in st <=> x \in Clean)

DeriveInv == pc = "derive" => before \subseteq Groups /\ \E F \in SUBSET Groups : ResetOf(F, stats)
CallInv == ResetInv /\ DeriveInv

LEMMA WalkableHere ==
    ASSUME CurrentInv, StateInv, Merged, before \subseteq Groups
    PROVE  Walkable /\ \A g \in Live : HasStats(g) <=> g \in stats
<1>1. /\ Live \subseteq Groups /\ root \in Live /\ 0 \notin Groups /\ stats \subseteq Groups
      /\ \A g \in Groups : Children(g) \subseteq Live
      /\ \A g \in Live : dup[g] = 0
  BY LiveGroups
<1> QED
  BY <1>1 DEF Walkable, Had, HasStats

(* What FResetStats leaves is what ResetExact says. *)
LEMMA ResetLeaves == CurrentInv /\ StateInv /\ CallInv => ResetExact
<1> SUFFICES ASSUME CurrentInv, StateInv, CallInv, pc = "derive" PROVE ResetExact
  BY DEF ResetExact
<1>1. before \subseteq Groups /\ Merged
  BY DEF CallInv, DeriveInv, Merged
<1>2. Walkable /\ \A g \in Live : HasStats(g) <=> g \in stats
  BY <1>1, WalkableHere
<1>3. PICK F \in SUBSET Groups : ResetOf(F, stats)
  BY DEF CallInv, DeriveInv
<1>4. \A g \in Groups : Children(g) \subseteq Groups
  BY <1>2 DEF Walkable
<1>5. root \in Groups
  BY <1>3 DEF ResetOf
<1>6. ReachVia({root}, Had) \subseteq F
  <2>1. {root} \in SUBSET Groups
    BY <1>5
  <2>2. \A D \in SUBSET Groups : {root} \subseteq D /\ (\A x \in D \cap Had : Children(x) \subseteq D)
                                 => ReachVia({root}, Had) \subseteq D
    BY <1>4, <2>1, ReachIs
  <2> QED
    BY <1>3, <2>2 DEF ResetOf
<1>7. ASSUME NEW g \in ReachVia({root}, Had) \cap Had
      PROVE  HasStats(g) <=> ReachVia({g}, Had) \cap Stale = {}
  <2>1. g \in F \cap Had /\ g \in Groups
    BY <1>6
  <2>2. ReachVia({g}, Had) \cap Stale = {} <=> g \in Clean
    BY <1>4, <2>1, CleanReach
  <2>3. g \in Live /\ (g \in stats <=> g \in Clean)
    BY <1>3, <2>1 DEF ResetOf
  <2> QED
    BY <1>2, <2>2, <2>3
<1> QED
  BY <1>7 DEF ResetExact, Had, Stale

(* The calls but the topmost, with what is appended to them. *)
LEMMA CallStack ==
    ASSUME NEW fs \in Seq(FrameType), fs # <<>>
    PROVE  /\ Len(fs) \in Nat /\ Len(fs) > 0 /\ fs[Len(fs)] \in FrameType
           /\ SubSeq(fs, 1, Len(fs) - 1) \in Seq(FrameType)
           /\ Len(SubSeq(fs, 1, Len(fs) - 1)) = Len(fs) - 1
           /\ \A i \in 1..(Len(fs) - 1) : SubSeq(fs, 1, Len(fs) - 1)[i] = fs[i]
<1>1. Len(fs) \in Nat /\ Len(fs) > 0
  OBVIOUS
<1> QED
  BY <1>1

LEMMA Appended ==
    ASSUME NEW T, NEW s \in Seq(T), NEW x \in T
    PROVE  /\ Append(s, x) \in Seq(T) /\ Len(Append(s, x)) = Len(s) + 1
           /\ \A i \in 1..Len(s) : Append(s, x)[i] = s[i]
           /\ Append(s, x)[Len(s) + 1] = x
OBVIOUS

LEMMA AppendedBoth ==
    ASSUME NEW T, NEW s \in Seq(T), NEW x \in T, NEW y \in T
    PROVE  /\ s \o <<x, y>> \in Seq(T) /\ Len(s \o <<x, y>>) = Len(s) + 2
           /\ \A i \in 1..Len(s) : (s \o <<x, y>>)[i] = s[i]
           /\ (s \o <<x, y>>)[Len(s) + 1] = x /\ (s \o <<x, y>>)[Len(s) + 2] = y
<1>1. <<x, y>> \in Seq(T) /\ Len(<<x, y>>) = 2 /\ <<x, y>>[1] = x /\ <<x, y>>[2] = y
  OBVIOUS
<1>2. PICK t \in Seq(T) : t = <<x, y>>
  BY <1>1
<1>3. s \o t \in Seq(T) /\ Len(s \o t) = Len(s) + Len(t) /\ \A i \in 1..Len(s) : (s \o t)[i] = s[i]
  OBVIOUS
<1>4. \A i \in 1..(Len(s) + Len(t)) : i > Len(s) => (s \o t)[i] = t[i - Len(s)]
  OBVIOUS
<1>5. Len(s) \in Nat /\ Len(s) + 1 - Len(s) = 1 /\ Len(s) + 2 - Len(s) = 2
  OBVIOUS
<1> QED
  BY <1>1, <1>2, <1>3, <1>4, <1>5

(* CMemo::ResetStats calls FResetStats for the root. *)
LEMMA ResetStarts == ASSUME CurrentInv, StateInv, ResetStats PROVE CallInv'
<1>1. /\ before' = stats /\ stats' = stats /\ newOps' = newOps /\ root' = root
      /\ gexprs' = gexprs /\ grp' = grp /\ hidden' = hidden /\ dup' = dup /\ Merged
  BY DEF ResetStats, exprVars, Merged
<1>2. /\ Live \subseteq Groups /\ root \in Live /\ 0 \notin Groups /\ stats \subseteq Groups
      /\ \A g \in Groups : Children(g) \subseteq Live
      /\ \A g \in Live : dup[g] = 0
  BY <1>1, LiveGroups
<1>3. Groups' = Groups /\ Live' = Live
  BY <1>1 DEF Groups, Live
<1>4. \A x : Children(x)' = Children(x)
  <2>1. \A x : InGroup(x)' = InGroup(x)
    BY <1>1 DEF InGroup
  <2>2. \A x : Child(x)' = Child(x)
    BY <1>1, <2>1 DEF Child, Empty
  <2>3. \A x : Kids(x)' = Kids(x)
    BY <1>1, <2>2 DEF Kids
  <2> QED
    BY <2>1, <2>3 DEF Children
<1>5. CASE HasStats(root)
  <2>1. pc' = "reset" /\ frames' = <<Frame(root)>>
    BY <1>5 DEF ResetStats
  <2>2. root \in stats /\ root \in Groups
    BY <1>2, <1>5 DEF HasStats
  <2>3. root \in newOps => root \notin Clean'
    BY <1>1 DEF Clean, Stale
  <2>4. PICK f : f = Frame(root)
    OBVIOUS
  <2>5. /\ f.grp = root /\ f.todo = Children(root) /\ f.reset = (root \in newOps)
        /\ f \in FrameType'
    BY <1>2, <1>3, <2>2, <2>4 DEF Frame, FrameType
  <2>6. PICK fs : fs = <<f>>
    OBVIOUS
  <2>7. fs \in Seq(FrameType') /\ fs # <<>> /\ Len(fs) = 1 /\ fs[1] = f
    BY <2>5, <2>6
  <2>8. frames' = fs
    BY <2>1, <2>4, <2>6
  <2>9. ResetOK(stats)'
    BY <1>1 DEF ResetOK
  <2>10. FrameOK(frames, stats, 1)'
    <3>1. /\ Len(frames') = 1 /\ frames'[1] = f
          /\ f.grp \in Live' \cap before' /\ f.grp \in stats' /\ f.todo = Children(root) /\ f.grp = root
          /\ f.reset = (root \in newOps') /\ (f.reset => f.grp \notin Clean')
      BY <1>1, <1>2, <1>3, <2>2, <2>3, <2>5, <2>7, <2>8
    <3>2. Children(root)' = Children(root')
      BY <1>1, <1>4
    <3>3. f.todo \subseteq (Children(frames[1].grp))'
      BY <1>1, <1>4, <3>1
    <3>4. ~(1 < Len(frames'))
      BY <3>1
    <3> QED
      BY <1>1, <3>1, <3>3, <3>4 DEF FrameOK
  <2>11. ReturnedOK(stats, {})'
    BY <1>1, <1>3 DEF ReturnedOK
  <2>12. VisitedOK(frames, stats, {}, 1)'
    BY <1>4, <2>5, <2>7, <2>8 DEF VisitedOK
  <2>13. Len(frames)' = 1 /\ \A i \in 1..1 : i = 1
    BY <2>7, <2>8
  <2>14. CallsOK(frames, stats)'
    <3>1. \A i \in 1..Len(frames') : FrameOK(frames, stats, i)'
      BY <2>10, <2>13
    <3>2. \A i \in 1..Len(frames') : VisitedOK(frames, stats, {}, i)'
      BY <2>12, <2>13
    <3>3. (frames[1].grp = root)' /\ frames' \in Seq(FrameType') /\ frames' # <<>>
      BY <1>1, <2>5, <2>7, <2>8
    <3>4. {} \in SUBSET Groups'
      OBVIOUS
    <3> QED
      BY <2>11, <3>1, <3>2, <3>3, <3>4 DEF CallsOK
  <2> QED
    BY <1>1, <1>2, <1>3, <2>1, <2>9, <2>14 DEF CallInv, ResetInv, DeriveInv
<1>6. CASE ~HasStats(root)
  <2>1. pc' = "derive"
    BY <1>6 DEF ResetStats
  <2>2. root \notin Had'
    BY <1>1, <1>6 DEF Had, HasStats
  <2>3. {root} \in SUBSET Groups'
    BY <1>2, <1>3
  <2>4. ResetOf({root}, stats)'
    BY <1>1, <2>2 DEF ResetOf
  <2> QED
    BY <1>1, <1>2, <1>3, <2>1, <2>3, <2>4 DEF CallInv, ResetInv, DeriveInv
<1> QED
  BY <1>5, <1>6

LEMMA FrameChanged ==
    ASSUME NEW f \in FrameType, NEW c
    PROVE  /\ [f EXCEPT !.todo = @ \ {c}] \in FrameType
           /\ [[f EXCEPT !.todo = @ \ {c}] EXCEPT !.reset = TRUE] \in FrameType
BY DEF FrameType

(* The next call is to one of the children of the topmost. *)
LEMMA VisitKeeps ==
    ASSUME CurrentInv, StateInv, CallInv, NEW c \in Groups, VisitChild(c)
    PROVE  CallInv'
<1> DEFINE n == Len(frames)
           rest == [Top EXCEPT !.todo = @ \ {c}]
<1>1. /\ UNCHANGED memoVars /\ stats' = stats /\ pc = "reset" /\ c \in frames[n].todo
      /\ before \subseteq Groups /\ ResetOK(stats) /\ CallsOK(frames, stats)
      /\ Merged
  BY DEF VisitChild, exprVars, memoVars, CallInv, ResetInv, Top, Merged
<1>2. Walkable /\ \A g \in Live : HasStats(g) <=> g \in stats
  BY <1>1, WalkableHere
<1>3. frames \in Seq(FrameType) /\ frames # <<>> /\ n \in 1..n /\ FrameOK(frames, stats, n)
  BY <1>1 DEF CallsOK
<1>4. c \in Live
  BY <1>1, <1>2, <1>3 DEF FrameOK, Walkable
<1>5. /\ n \in Nat /\ n > 0 /\ Top \in FrameType
      /\ Below \in Seq(FrameType) /\ Len(Below) = n - 1 /\ \A i \in 1..(n - 1) : Below[i] = frames[i]
  BY <1>3, CallStack DEF Below, Top
<1>6. rest \in FrameType /\ [rest EXCEPT !.reset = TRUE] \in FrameType /\ Frame(c) \in FrameType
  <2>1. PICK f \in FrameType : f = Top
    BY <1>5
  <2>2. /\ [f EXCEPT !.todo = @ \ {c}] \in FrameType
        /\ [[f EXCEPT !.todo = @ \ {c}] EXCEPT !.reset = TRUE] \in FrameType
    BY FrameChanged
  <2>3. Children(c) \in SUBSET Groups
    BY <1>2 DEF Walkable
  <2>4. Frame(c) \in FrameType
    BY <2>3 DEF FrameType, Frame
  <2> QED
    BY <2>1, <2>2, <2>4
<1>7. n - 1 + 1 = n /\ n - 1 + 2 = n + 1 /\ \A i \in 1..n : i < n => i \in 1..(n - 1)
  BY <1>5
<1>8. pc' = "reset" => CallsOK(frames', stats)
  <2>1. CASE ~HasStats(c) /\ frames' = Append(Below, [rest EXCEPT !.reset = TRUE])
    <3>1. PICK r \in FrameType : r = [rest EXCEPT !.reset = TRUE]
      BY <1>6
    <3>2. PICK b \in Seq(FrameType) : b = Below
      BY <1>5
    <3>3. /\ Append(b, r) \in Seq(FrameType) /\ Len(Append(b, r)) = Len(b) + 1
          /\ \A i \in 1..Len(b) : Append(b, r)[i] = b[i]
          /\ Append(b, r)[Len(b) + 1] = r
      BY Appended
    <3>4. frames' = Append(b, r)
      BY <2>1, <3>1, <3>2
    <3>5. r = [frames[n] EXCEPT !.todo = @ \ {c}, !.reset = TRUE]
      BY <3>1 DEF Top
    <3> HIDE DEF n
    <3>6. /\ frames' \in Seq(FrameType) /\ Len(frames') = n
          /\ \A i \in 1..n : i < n => frames'[i] = frames[i]
          /\ frames'[n] = r
      BY <1>5, <1>7, <3>2, <3>3, <3>4
    <3>7. c \notin stats
      BY <1>2, <1>4, <2>1
    <3> QED
      BY <1>1, <1>2, <3>5, <3>6, <3>7, VisitBare DEF n
  <2>2. CASE HasStats(c) /\ frames' = Below \o <<rest, Frame(c)>>
    <3>1. PICK r \in FrameType : r = rest
      BY <1>6
    <3>2. PICK b \in Seq(FrameType) : b = Below
      BY <1>5
    <3>0. PICK f \in FrameType : f = Frame(c)
      BY <1>6
    <3>3. /\ b \o <<r, f>> \in Seq(FrameType) /\ Len(b \o <<r, f>>) = Len(b) + 2
          /\ \A i \in 1..Len(b) : (b \o <<r, f>>)[i] = b[i]
          /\ (b \o <<r, f>>)[Len(b) + 1] = r /\ (b \o <<r, f>>)[Len(b) + 2] = f
      BY AppendedBoth
    <3>4. frames' = b \o <<r, f>>
      BY <2>2, <3>0, <3>1, <3>2
    <3>5. r = [frames[n] EXCEPT !.todo = @ \ {c}]
      BY <3>1 DEF Top
    <3> HIDE DEF n
    <3>6. /\ frames' \in Seq(FrameType) /\ Len(frames') = n + 1
          /\ \A i \in 1..n : i < n => frames'[i] = frames[i]
          /\ frames'[n] = r /\ frames'[n + 1] = Frame(c)
      BY <1>5, <1>7, <3>0, <3>2, <3>3, <3>4
    <3>7. c \in stats
      BY <1>2, <1>4, <2>2
    <3> QED
      BY <1>1, <1>2, <3>5, <3>6, <3>7, VisitDeeper DEF n
  <2> QED
    BY <2>1, <2>2 DEF VisitChild
<1>9. pc' \in {"reset", "raised"}
  BY <1>1 DEF VisitChild
<1>10. before' \subseteq Groups'
  BY <1>1 DEF memoVars, Groups
<1>11. pc' = "reset" => CallsOK(frames, stats)' /\ ResetOK(stats)'
  BY <1>1, <1>8, FrozenCalls
<1> QED
  BY <1>9, <1>10, <1>11 DEF CallInv, ResetInv, DeriveInv

(* A call returns. *)
LEMMA ReturnKeeps ==
    ASSUME CurrentInv, StateInv, CallInv, ReturnReset
    PROVE  CallInv'
<1> DEFINE n == Len(frames)
           m == n - 1
           g == frames[n].grp
<1>1. /\ UNCHANGED memoVars /\ pc = "reset"
      /\ before \subseteq Groups /\ ResetOK(stats) /\ CallsOK(frames, stats)
      /\ Merged
  BY DEF ReturnReset, exprVars, memoVars, CallInv, ResetInv, Merged
<1>2. Walkable
  BY <1>1, WalkableHere
<1>3. frames \in Seq(FrameType) /\ frames # <<>>
  BY <1>1 DEF CallsOK
<1>4. /\ n \in Nat /\ n > 0 /\ frames[n] \in FrameType
      /\ Below \in Seq(FrameType) /\ Len(Below) = m /\ \A i \in 1..m : Below[i] = frames[i]
  BY <1>3, CallStack DEF Below
<1>5. Returns(frames, stats, g, stats')
  BY DEF ReturnReset, Returns, Top
<1>6. before' \subseteq Groups'
  BY <1>1 DEF memoVars, Groups
<1>7. CASE n > 1
  <2>1. pc' = "reset"
    BY <1>7 DEF ReturnReset
  <2>2. m \in Nat /\ m > 0 /\ m \in 1..m /\ m \in 1..n
    BY <1>4, <1>7
  <2>3. Below[m] = frames[m] /\ frames[m] \in FrameType
    BY <1>3, <1>4, <2>2
  <2>4. PICK f \in FrameType : f = frames[m]
    BY <2>3
  <2>5. frames[n].reset \in BOOLEAN
    BY <1>4 DEF FrameType
  <2>6. /\ frames' \in Seq(FrameType) /\ Len(frames') = m
        /\ \A i \in 1..m : i < m => frames'[i] = frames[i]
        /\ frames'[m] = [f EXCEPT !.reset = @ \/ frames[n].reset]
    <3>1. CASE frames[n].reset
      <4>1. frames' = [Below EXCEPT ![m].reset = TRUE]
        BY <1>4, <1>7, <3>1 DEF ReturnReset, Top
      <4>2. PICK b \in Seq(FrameType) : b = Below
        BY <1>4
      <4>3. Len(b) = m /\ b[m] = f /\ \A i \in 1..m : b[i] = frames[i]
        BY <1>4, <2>3, <2>4, <4>2
      <4>4. [f EXCEPT !.reset = TRUE] = [f EXCEPT !.reset = @ \/ frames[n].reset]
        BY <2>4, <3>1
      <4>5. PICK e : e = [f EXCEPT !.reset = TRUE]
        OBVIOUS
      <4>6. e \in FrameType
        BY <4>5 DEF FrameType
      <4>7. frames' = [b EXCEPT ![m] = e]
        BY <4>1, <4>2, <4>3, <4>5
      <4> HIDE DEF m
      <4>8. /\ [b EXCEPT ![m] = e] \in Seq(FrameType) /\ Len([b EXCEPT ![m] = e]) = m
            /\ [b EXCEPT ![m] = e][m] = e
            /\ \A i \in 1..m : i < m => [b EXCEPT ![m] = e][i] = b[i]
        BY <2>2, <4>3, <4>6
      <4> QED
        BY <4>3, <4>4, <4>5, <4>7, <4>8
    <3>2. CASE ~frames[n].reset
      <4>1. frames' = Below
        BY <3>2 DEF ReturnReset, Top
      <4>2. f = [f EXCEPT !.reset = @ \/ frames[n].reset]
        BY <2>4, <3>2 DEF FrameType
      <4> QED
        BY <1>4, <2>2, <2>3, <2>4, <4>1, <4>2
    <3> QED
      BY <3>1, <3>2
  <2>7. ResetOK(stats')
    BY <1>1, <1>2, <1>5, CallReturns
  <2>8. CallsOK(frames', stats')
    <3>1. Len(frames') = Len(frames) - 1 /\ Len(frames) > 1
      BY <1>7, <2>6
    <3>2. \A i \in 1..Len(frames') : i < Len(frames') => frames'[i] = frames[i]
      BY <2>6
    <3>3. frames'[Len(frames')] = [frames[Len(frames')] EXCEPT !.reset = @ \/ frames[Len(frames)].reset]
      BY <2>4, <2>6
    <3> QED
      BY <1>1, <1>2, <1>5, <2>6, <3>1, <3>2, <3>3, ReturnBelow, SMTT(30)
  <2>9. CallsOK(frames, stats)' /\ ResetOK(stats)'
    BY <1>1, <2>7, <2>8, FrozenCalls
  <2> QED
    BY <1>6, <2>1, <2>9 DEF CallInv, ResetInv, DeriveInv
<1>8. CASE n = 1
  <2>1. pc' = "derive"
    BY <1>8 DEF ReturnReset
  <2>2. PICK F \in SUBSET Groups : ResetOf(F, stats')
    <3>1. \E F \in SUBSET Groups :
             /\ root \in F /\ \A x \in F \cap Had : Children(x) \subseteq F
             /\ \A x \in F \cap Had : x \in Live /\ (x \in stats' <=> x \in Clean)
      BY <1>1, <1>2, <1>5, <1>8, ReturnLast
    <3> QED
      BY <3>1 DEF ResetOf
  <2>3. /\ Groups' = Groups /\ Live' = Live /\ Had' = Had /\ Clean' = Clean /\ root' = root
        /\ \A x : Children(x)' = Children(x)
    BY <1>1, Frozen DEF memoVars
  <2>4. F \in SUBSET Groups' /\ ResetOf(F, stats)'
    BY <2>2, <2>3 DEF ResetOf
  <2> QED
    BY <1>6, <2>1, <2>4 DEF CallInv, ResetInv, DeriveInv
<1> QED
  BY <1>4, <1>7, <1>8

LEMMA CallInit == Init => CallInv
BY DEF Init, CallInv, ResetInv, DeriveInv

LEMMA CallNext == CurrentInv /\ StateInv /\ CallInv /\ [Next]_vars => CallInv'
<1> SUFFICES ASSUME CurrentInv, StateInv, CallInv, [Next]_vars PROVE CallInv'
  OBVIOUS
<1> USE DEF CallInv, ResetInv, DeriveInv
<1>1. CASE Explore
  <2>1. pc' \in {"explore", "link"}
    BY <1>1, ZenonT(30) DEF Explore, InsertXformResult, PgroupInsert, MarkDuplicates, InsertNewGroup,
                PstatsRecursiveDerive, markVars, exprVars, mergeVars
  <2> QED
    BY <2>1
<1>2. CASE Mark
  <2>1. pc' \in {"link", "resolve", "explore", "move", "rehash"}
    BY <1>2 DEF Mark, FollowLink, AddLink, ResolveStart, ResolveStep, ResolveEnd, ResolveReturn,
                CurrentInv, LinkInv, LocalsInv
  <2> QED
    BY <2>1
<1>3. CASE FinishExploration
  BY <1>3 DEF FinishExploration
<1>4. CASE Finalize
  <2>1. CASE MergeSkip \/ MergeGroup \/ MoveExpressions \/ StartRehash \/ MergeAgain
    BY <2>1 DEF MergeSkip, MergeGroup, MoveExpressions, StartRehash, MergeAgain
  <2>2. ASSUME NEW i \in toRehash, RehashInsert(i) \/ RehashDuplicate(i) PROVE CallInv'
    BY <2>2 DEF RehashInsert, RehashDuplicate, MarkDuplicates, markVars
  <2>3. CASE ResetStats
    BY <2>3, ResetStarts
  <2>4. CASE ReturnReset
    BY <2>4, ReturnKeeps
  <2>5. ASSUME NEW c \in Groups, VisitChild(c) PROVE CallInv'
    BY <2>5, VisitKeeps
  <2>6. CASE DeriveStats
    BY <2>6 DEF DeriveStats
  <2> QED
    BY <1>4, <2>1, <2>2, <2>3, <2>4, <2>5, <2>6 DEF Finalize
<1>5. CASE FinalizeSearchStage
  BY <1>5 DEF FinalizeSearchStage
<1>6. CASE UNCHANGED vars
  <2>1. UNCHANGED memoVars /\ frames' = frames /\ stats' = stats /\ pc' = pc
    BY <1>6 DEF vars, exprVars, statsVars, memoVars
  <2>2. /\ Groups' = Groups /\ Live' = Live /\ Had' = Had /\ Clean' = Clean /\ root' = root /\ before' = before
        /\ \A x : Children(x)' = Children(x)
    BY <2>1, Frozen DEF memoVars
  <2>3. pc = "reset" => CallsOK(frames, stats)' /\ ResetOK(stats)'
    BY <2>1, FrozenCalls
  <2>4. \A F : ResetOf(F, stats) => ResetOf(F, stats)'
    BY <2>1, <2>2 DEF ResetOf
  <2> QED
    BY <2>1, <2>2, <2>3, <2>4
<1> QED
  BY <1>1, <1>2, <1>3, <1>4, <1>5, <1>6 DEF Next

(* CMemo::ResetStats after GroupMerge, for every memo, every set of groups with new
   expressions and every depth of the stack: of the groups FResetStats reaches
   through groups with statistics, those keep them from which it reaches nothing
   that is stale.  Its early return at groups already reset, groups with several
   parents, and answers passed on through several calls change nothing. *)
THEOREM StatsResetIsExact == Spec => []ResetExact
<1> QED
  BY CurrentInit, CurrentNext, StateInit, StateNext, CallInit, CallNext, ResetLeaves, PTL DEF Spec
=============================================================================
