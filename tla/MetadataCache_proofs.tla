------------------------- MODULE MetadataCache_proofs -------------------------
(***************************************************************************)
(* Proofs about the metadata cache, for any number of metadata ids,        *)
(* objects, buckets and nested fetches: reference counts are exact,        *)
(* the hash table, its size and its clock hand stay intact, an insertion   *)
(* never finds its key taken, no optimization reads metadata that was      *)
(* outdated when it started, and an eviction leaves out no entry.          *)
(***************************************************************************)
EXTENDS MetadataCache, FiniteSetTheorems, SequenceTheorems, WellFoundedInduction, TLAPS

-----------------------------------------------------------------------------
(* Sums over finite sets.  CCache::m_cache_size is a sum that the model    *)
(* states with a fold; what the fold computes is established by taking the *)
(* smallest set for which it would compute something else.                 *)

(* A set of natural numbers that has an element has a least one. *)
LEMMA LeastNatural ==
    ASSUME NEW T, T \subseteq Nat, T # {}
    PROVE  \E x \in T : \A y \in T : x <= y
<1> DEFINE R == {ss \in Nat \X Nat : ss[1] < ss[2]}
<1>1. IsWellFoundedOn(R, Nat)
  BY ONLY NatLessThanWellFounded DEF OpToRel
<1>2. PICK x \in T : \A y \in T : ~ (<<y, x>> \in R)
  BY <1>1, WFMin
<1>3. ASSUME NEW y \in T  PROVE x <= y
  <2>1. x \in Nat /\ y \in Nat /\ <<y, x>> \in Nat \X Nat
    OBVIOUS
  <2>2. ~ (y < x)
    BY <1>2, <2>1
  <2>3. QED
    BY <2>1, <2>2
<1>4. QED
  BY <1>3

(* the element the fold takes next, its recursion, and what it computes for
   the subsets of S *)
OneOf(s) == CHOOSE x \in s : TRUE
SumStep(g, S, it) == [s \in SUBSET S |-> IF s = {} THEN 0 ELSE g[OneOf(s)] + it[s \ {OneOf(s)}]]
Sums(g, S) == CHOOSE it : it = SumStep(g, S, it)

(* SumFunction in these terms. *)
LEMMA SumUnfold == ASSUME NEW g PROVE SumFunction(g) = Sums(g, DOMAIN g)[DOMAIN g]
BY DEF SumFunction, SumFunctionOnSet, FoldFunctionOnSet, MapThenFoldSet, Sums, SumStep, OneOf

(* Subsets of a finite set, and the one without the chosen element. *)
LEMMA Smaller ==
    ASSUME NEW S, IsFiniteSet(S), NEW s \in SUBSET S
    PROVE  /\ IsFiniteSet(s) /\ Cardinality(s) \in Nat
           /\ Cardinality(s) = 0 <=> s = {}
           /\ s # {} => OneOf(s) \in s
           /\ \A x \in s : s \ {x} \in SUBSET S /\ Cardinality(s \ {x}) = Cardinality(s) - 1
<1>1. IsFiniteSet(s)
  BY FS_Subset
<1>2. Cardinality(s) \in Nat /\ (Cardinality(s) = 0 <=> s = {})
  BY <1>1, FS_CardinalityType, FS_EmptySet
<1>3. s # {} => OneOf(s) \in s
  BY DEF OneOf
<1>4. \A x \in s : Cardinality(s \ {x}) = Cardinality(s) - 1
  BY <1>1, FS_RemoveElement
<1>5. QED
  BY <1>1, <1>2, <1>3, <1>4

(* The recursion of the fold has a solution. *)
LEMMA SumsExist ==
    ASSUME NEW S, IsFiniteSet(S), NEW g \in [S -> Nat]
    PROVE  /\ Sums(g, S) \in [SUBSET S -> Nat]
           /\ \A s \in SUBSET S : Sums(g, S)[s] = IF s = {} THEN 0
                                       ELSE g[OneOf(s)] + Sums(g, S)[s \ {OneOf(s)}]
<1> DEFINE Good(F, n) == \A s \in SUBSET S : Cardinality(s) <= n => F[s] = SumStep(g, S, F)[s]
           P(n) == \E F \in [SUBSET S -> Nat] : Good(F, n)
           T == {n \in Nat : ~P(n)}
<1>1. T = {}
  <2> SUFFICES ASSUME T # {}  PROVE FALSE
    OBVIOUS
  <2>1. PICK m \in T : \A y \in T : m <= y
    BY LeastNatural
  <2>2. m \in Nat /\ ~P(m)
    BY <2>1
  <2>3. m # 0
    <3> SUFFICES ASSUME m = 0  PROVE FALSE
      OBVIOUS
    <3> DEFINE Z == [s \in SUBSET S |-> 0]
    <3>1. Z \in [SUBSET S -> Nat]
      OBVIOUS
    <3>2. Good(Z, 0)
      BY Smaller DEF SumStep
    <3>3. QED
      BY <2>2, <3>1, <3>2
  <2>4. m - 1 \in Nat /\ m - 1 \notin T
    <3>1. m - 1 \in T => m <= m - 1
      BY <2>1
    <3> HIDE DEF T, P
    <3>2. QED
      BY <2>2, <2>3, <3>1
  <2>5. PICK F \in [SUBSET S -> Nat] : Good(F, m - 1)
    BY <2>4
  <2> DEFINE G == [s \in SUBSET S |-> IF Cardinality(s) = m THEN SumStep(g, S, F)[s] ELSE F[s]]
  <2>6. \A s \in SUBSET S : SumStep(g, S, F)[s] \in Nat
    BY Smaller DEF SumStep
  <2>7. G \in [SUBSET S -> Nat]
    BY <2>6
  <2>8. Good(G, m)
    <3> SUFFICES ASSUME NEW s \in SUBSET S, Cardinality(s) <= m  PROVE G[s] = SumStep(g, S, G)[s]
      OBVIOUS
    <3>1. G[s] = SumStep(g, S, F)[s]
      BY <2>2, <2>5, Smaller
    <3>2. CASE s = {}
      BY <3>1, <3>2 DEF SumStep
    <3>3. CASE s # {}
      <4>1. s \ {OneOf(s)} \in SUBSET S /\ Cardinality(s \ {OneOf(s)}) = Cardinality(s) - 1 /\ Cardinality(s) \in Nat
        BY <3>3, Smaller
      <4>2. Cardinality(s \ {OneOf(s)}) # m
        BY <2>2, <4>1
      <4>3. G[s \ {OneOf(s)}] = F[s \ {OneOf(s)}]
        BY <4>1, <4>2
      <4> HIDE DEF G
      <4>4. QED
        BY <3>1, <3>3, <4>3 DEF SumStep
    <3>4. QED
      BY <3>2, <3>3
  <2>9. QED
    BY <2>2, <2>7, <2>8
<1>2. Cardinality(S) \in Nat /\ \A s \in SUBSET S : Cardinality(s) <= Cardinality(S)
  BY FS_CardinalityType, FS_Subset
<1>3. PICK F \in [SUBSET S -> Nat] : Good(F, Cardinality(S))
  BY <1>1, <1>2
<1>4. F = SumStep(g, S, F)
  <2>1. \A s \in SUBSET S : F[s] = SumStep(g, S, F)[s]
    BY <1>2, <1>3
  <2>2. QED
    BY <2>1 DEF SumStep
<1>5. Sums(g, S) = SumStep(g, S, Sums(g, S))
  BY <1>4 DEF Sums
<1> DEFINE H == Sums(g, S)
<1>6. \A s \in SUBSET S : H[s] = IF s = {} THEN 0 ELSE g[OneOf(s)] + H[s \ {OneOf(s)}]
  BY <1>5 DEF SumStep
<1>7. H = [s \in SUBSET S |-> H[s]]
  BY <1>5 DEF SumStep
<1> HIDE DEF H
<1>8. \A s \in SUBSET S : H[s] \in Nat
  <2> DEFINE B == {s \in SUBSET S : H[s] \notin Nat}
             U == {Cardinality(s) : s \in B}
  <2> SUFFICES ASSUME B # {}  PROVE FALSE
    OBVIOUS
  <2>1. U \subseteq Nat /\ U # {}
    BY Smaller
  <2>2. PICK n \in U : \A y \in U : n <= y
    BY <2>1, LeastNatural
  <2>3. PICK s \in B : n = Cardinality(s)
    BY <2>2
  <2>4. s # {}
    <3>1. s \in SUBSET S /\ H[s] \notin Nat
      BY <2>3
    <3>2. s = {} => H[s] = 0
      BY <1>6, <3>1
    <3>3. QED
      BY <3>1, <3>2
  <2>5. s \ {OneOf(s)} \in SUBSET S /\ Cardinality(s \ {OneOf(s)}) = Cardinality(s) - 1 /\ Cardinality(s) \in Nat /\ OneOf(s) \in S
    BY <2>4, Smaller
  <2>6. s \ {OneOf(s)} \notin B
    <3> SUFFICES ASSUME s \ {OneOf(s)} \in B  PROVE FALSE
      OBVIOUS
    <3>1. Cardinality(s \ {OneOf(s)}) \in U
      OBVIOUS
    <3>2. n <= Cardinality(s \ {OneOf(s)})
      BY <2>2, <3>1
    <3>3. QED
      BY <2>3, <2>5, <3>2
  <2>7. H[s \ {OneOf(s)}] \in Nat
    BY <2>5, <2>6
  <2>8. H[s] = g[OneOf(s)] + H[s \ {OneOf(s)}]
    BY <1>6, <2>4
  <2>9. QED
    BY <2>3, <2>5, <2>7, <2>8
<1>9. QED
  BY <1>6, <1>7, <1>8 DEF H

(* The order in which the fold takes the elements makes no difference. *)
LEMMA SumsAnyOrder ==
    ASSUME NEW S, IsFiniteSet(S), NEW g \in [S -> Nat]
    PROVE  \A s \in SUBSET S : \A x \in s : Sums(g, S)[s] = g[x] + Sums(g, S)[s \ {x}]
<1> DEFINE H == Sums(g, S)
<1>1. /\ H \in [SUBSET S -> Nat]
      /\ \A s \in SUBSET S : H[s] = IF s = {} THEN 0 ELSE g[OneOf(s)] + H[s \ {OneOf(s)}]
  BY SumsExist
<1> HIDE DEF H
<1> DEFINE B == {s \in SUBSET S : \E x \in s : H[s] # g[x] + H[s \ {x}]}
           U == {Cardinality(s) : s \in B}
<1> SUFFICES ASSUME B # {}  PROVE FALSE
  BY DEF H
<1>2. U \subseteq Nat /\ U # {}
  BY Smaller
<1>3. PICK n \in U : \A y \in U : n <= y
  BY <1>2, LeastNatural
<1>4. PICK s \in B : n = Cardinality(s)
  BY <1>3
<1>5. PICK x \in s : H[s] # g[x] + H[s \ {x}]
  BY <1>4
<1> DEFINE c == OneOf(s)
<1>6. c \in s /\ c \in S /\ x \in S /\ H[s] = g[c] + H[s \ {c}]
  BY <1>1, <1>5, Smaller
<1>7. c # x
  BY <1>5, <1>6
<1> HIDE DEF c
<1>8. \A y \in s : s \ {y} \in SUBSET S /\ Cardinality(s \ {y}) = Cardinality(s) - 1 /\ Cardinality(s) \in Nat
  BY Smaller
<1>9. \A y \in s : s \ {y} \notin B
  <2> SUFFICES ASSUME NEW y \in s, s \ {y} \in B  PROVE FALSE
    OBVIOUS
  <2>1. Cardinality(s \ {y}) \in U
    OBVIOUS
  <2>2. n <= Cardinality(s \ {y})
    BY <1>3, <2>1
  <2>3. QED
    BY <1>4, <1>8, <2>2
<1>10. H[s \ {c}] = g[x] + H[(s \ {c}) \ {x}]
  BY <1>5, <1>6, <1>7, <1>8, <1>9
<1>11. H[s \ {x}] = g[c] + H[(s \ {x}) \ {c}]
  BY <1>5, <1>6, <1>7, <1>8, <1>9
<1>12. (s \ {c}) \ {x} = (s \ {x}) \ {c} /\ (s \ {c}) \ {x} \in SUBSET S
  OBVIOUS
<1>13. g[x] \in Nat /\ g[c] \in Nat /\ H[(s \ {c}) \ {x}] \in Nat
  BY <1>1, <1>6, <1>12
<1>14. QED
  <2> DEFINE r == H[(s \ {c}) \ {x}]
  <2>1. H[s \ {c}] = g[x] + r /\ H[s \ {x}] = g[c] + r /\ r \in Nat
    BY <1>10, <1>11, <1>12, <1>13
  <2>2. H[s] = g[c] + H[s \ {c}] /\ H[s] # g[x] + H[s \ {x}]
    BY <1>5, <1>6
  <2> HIDE DEF r
  <2>3. QED
    BY <1>13, <2>1, <2>2

(* On the subsets of S a sum depends on what the function is there. *)
LEMMA SumsAgree ==
    ASSUME NEW S, NEW R, IsFiniteSet(S), S \subseteq R, IsFiniteSet(R),
           NEW g \in [S -> Nat], NEW h \in [R -> Nat], \A x \in S : h[x] = g[x]
    PROVE  \A s \in SUBSET S : Sums(h, R)[s] = Sums(g, S)[s]
<1> DEFINE H == Sums(h, R)
           G == Sums(g, S)
<1>1. \A s \in SUBSET S : G[s] = IF s = {} THEN 0 ELSE g[OneOf(s)] + G[s \ {OneOf(s)}]
  BY SumsExist
<1>2. \A s \in SUBSET S : H[s] = IF s = {} THEN 0 ELSE h[OneOf(s)] + H[s \ {OneOf(s)}]
  <2>1. \A s \in SUBSET R : H[s] = IF s = {} THEN 0 ELSE h[OneOf(s)] + H[s \ {OneOf(s)}]
    BY SumsExist
  <2>2. QED
    BY <2>1
<1> HIDE DEF H, G
<1> DEFINE B == {s \in SUBSET S : H[s] # G[s]}
           U == {Cardinality(s) : s \in B}
<1> SUFFICES ASSUME B # {}  PROVE FALSE
  BY DEF H, G
<1>3. U \subseteq Nat /\ U # {}
  BY Smaller
<1>4. PICK n \in U : \A y \in U : n <= y
  BY <1>3, LeastNatural
<1>5. PICK s \in B : n = Cardinality(s)
  BY <1>4
<1>6. s # {}
  BY <1>1, <1>2, <1>5
<1>7. s \ {OneOf(s)} \in SUBSET S /\ Cardinality(s \ {OneOf(s)}) = Cardinality(s) - 1 /\ Cardinality(s) \in Nat /\ OneOf(s) \in S
  BY <1>6, Smaller
<1>8. s \ {OneOf(s)} \notin B
  BY <1>4, <1>5, <1>7
<1>9. QED
  BY <1>1, <1>2, <1>5, <1>6, <1>7, <1>8

(* CCache::CCache starts with m_cache_size zero: the sum over no entry. *)
LEMMA SumEmpty == ASSUME NEW g \in [{} -> Nat] PROVE SumFunction(g) = 0
<1>1. IsFiniteSet({}) /\ DOMAIN g = {} /\ {} \in SUBSET {}
  BY FS_EmptySet
<1>2. QED
  BY <1>1, SumUnfold, SumsExist

(* CCache::InsertEntry adds the bytes of one entry, EvictEntriesOnePass
   subtracts them. *)
LEMMA SumInsert ==
    ASSUME NEW S, IsFiniteSet(S), NEW x, x \notin S,
           NEW g \in [S -> Nat], NEW h \in [S \cup {x} -> Nat], \A y \in S : h[y] = g[y]
    PROVE  SumFunction(h) = SumFunction(g) + h[x] /\ SumFunction(g) \in Nat
<1> DEFINE R == S \cup {x}
<1>1. IsFiniteSet(R) /\ S \in SUBSET S /\ R \in SUBSET R /\ R \ {x} = S
  BY FS_AddElement
<1>2. SumFunction(h) = Sums(h, R)[R] /\ SumFunction(g) = Sums(g, S)[S]
  BY SumUnfold
<1>3. Sums(h, R)[R] = h[x] + Sums(h, R)[R \ {x}]
  BY <1>1, SumsAnyOrder
<1>4. Sums(h, R)[S] = Sums(g, S)[S]
  BY <1>1, SumsAgree
<1>5. Sums(g, S)[S] \in Nat
  <2>1. Sums(g, S) \in [SUBSET S -> Nat]
    BY SumsExist
  <2>2. QED
    BY <1>1, <2>1
<1>6. QED
  BY <1>1, <1>2, <1>3, <1>4, <1>5

-----------------------------------------------------------------------------
(* Sequences *)

(* Min of a set of natural numbers. *)
LEMMA MinIs == ASSUME NEW S, S \subseteq Nat, S # {} PROVE Min(S) \in S /\ \A y \in S : Min(S) <= y
<1>1. \E x \in S : \A y \in S : x <= y
  BY LeastNatural
<1>2. QED
  BY <1>1 DEF Min

(* The elements of a chain or of the stack of fetches. *)
LEMMA SeqFacts ==
    ASSUME NEW T, NEW c \in Seq(T)
    PROVE  /\ Len(c) \in Nat /\ DOMAIN c = 1 .. Len(c) /\ \A i \in DOMAIN c : c[i] \in T
           /\ \A e : Contains(c, e) <=> e \in ToSet(c)
           /\ ToSet(c) \subseteq T
           /\ c = <<>> <=> ToSet(c) = {}
<1>1. Len(c) \in Nat /\ DOMAIN c = 1 .. Len(c) /\ \A i \in DOMAIN c : c[i] \in T
  OBVIOUS
<1>2. c # <<>> => 1 \in DOMAIN c
  BY <1>1
<1>3. c = <<>> => DOMAIN c = {}
  BY <1>1
<1>4. QED
  BY <1>1, <1>2, <1>3 DEF Contains, ToSet

(* Putting an element at the head, as CSyncHashtable::Insert does. *)
LEMMA PutFront ==
    ASSUME NEW T, NEW s \in Seq(T), IsInjective(s), NEW x \in T, x \notin ToSet(s)
    PROVE  /\ <<x>> \o s \in Seq(T) /\ IsInjective(<<x>> \o s)
           /\ ToSet(<<x>> \o s) = ToSet(s) \cup {x}
<1> DEFINE t == <<x>> \o s
<1>1. /\ t \in Seq(T) /\ Len(s) \in Nat /\ DOMAIN t = 1 .. Len(s) + 1 /\ DOMAIN s = 1 .. Len(s)
      /\ t[1] = x /\ \A i \in 1 .. Len(s) : t[i + 1] = s[i]
  OBVIOUS
<1>2. \A i \in DOMAIN t : i = 1 \/ (i - 1 \in DOMAIN s /\ t[i] = s[i - 1])
  <2> SUFFICES ASSUME NEW i \in DOMAIN t, i # 1  PROVE i - 1 \in DOMAIN s /\ t[i] = s[i - 1]
    OBVIOUS
  <2>1. i - 1 \in 1 .. Len(s) /\ (i - 1) + 1 = i
    BY <1>1
  <2>2. QED
    BY <1>1, <2>1
<1> HIDE DEF t
<1>3. ToSet(t) = ToSet(s) \cup {x}
  <2>1. ASSUME NEW y \in ToSet(t)  PROVE y \in ToSet(s) \cup {x}
    BY <1>1, <1>2 DEF ToSet
  <2>2. x \in ToSet(t)
    BY <1>1 DEF ToSet
  <2>3. ASSUME NEW y \in ToSet(s)  PROVE y \in ToSet(t)
    <3>1. PICK i \in DOMAIN s : y = s[i]
      BY DEF ToSet
    <3>2. i + 1 \in DOMAIN t /\ t[i + 1] = y
      BY <1>1, <3>1
    <3>3. QED
      BY <3>2 DEF ToSet
  <2>4. QED
    BY <2>1, <2>2, <2>3
<1>4. IsInjective(t)
  <2> SUFFICES ASSUME NEW i \in DOMAIN t, NEW k \in DOMAIN t, t[i] = t[k]  PROVE i = k
    BY DEF IsInjective
  <2>1. \A n \in DOMAIN s : s[n] # x
    BY DEF ToSet
  <2>2. CASE i = 1 \/ k = 1
    BY <1>1, <1>2, <2>1, <2>2
  <2>3. CASE i # 1 /\ k # 1
    <3>1. i - 1 \in DOMAIN s /\ k - 1 \in DOMAIN s /\ s[i - 1] = s[k - 1]
      BY <1>2, <2>3
    <3>2. i - 1 = k - 1
      BY <3>1 DEF IsInjective
    <3>3. QED
      BY <1>1, <3>2
  <2>4. QED
    BY <2>2, <2>3
<1>5. QED
  BY <1>1, <1>3, <1>4 DEF t

(* RemoveAt by position, as the iterator removes an element. *)
LEMMA CutAt ==
    ASSUME NEW T, NEW s \in Seq(T), NEW p \in DOMAIN s
    PROVE  /\ RemoveAt(s, p) \in Seq(T) /\ DOMAIN RemoveAt(s, p) = 1 .. Len(s) - 1
           /\ \A i \in 1 .. Len(s) - 1 : RemoveAt(s, p)[i] = IF i < p THEN s[i] ELSE s[i + 1]
<1> DEFINE t == RemoveAt(s, p)
           n == Len(s)
           a == SubSeq(s, 1, p - 1)
           b == SubSeq(s, p + 1, n)
<1>1. n \in Nat /\ DOMAIN s = 1 .. n /\ p \in 1 .. n
  OBVIOUS
<1>2. a \in Seq(T) /\ Len(a) = p - 1 /\ \A i \in 1 .. p - 1 : a[i] = s[i]
  BY <1>1
<1>3. b \in Seq(T) /\ Len(b) = n - p /\ \A i \in 1 .. n - p : b[i] = s[p + i]
  BY <1>1
<1>4. t = a \o b
  BY DEF RemoveAt
<1> HIDE DEF a, b, t, n
<1>5. t \in Seq(T) /\ Len(t) = n - 1 /\ DOMAIN t = 1 .. n - 1
  <2>1. t \in Seq(T) /\ Len(t) = Len(a) + Len(b)
    BY <1>2, <1>3, <1>4, ConcatProperties
  <2>2. Len(t) = n - 1
    BY <1>1, <1>2, <1>3, <2>1
  <2>3. QED
    BY <2>1, <2>2
<1>6. \A i \in 1 .. n - 1 : t[i] = IF i < p THEN s[i] ELSE s[i + 1]
  <2> SUFFICES ASSUME NEW i \in 1 .. n - 1  PROVE t[i] = IF i < p THEN s[i] ELSE s[i + 1]
    OBVIOUS
  <2>1. CASE i < p
    BY <1>1, <1>2, <1>3, <1>4, <2>1
  <2>2. CASE ~(i < p)
    <3>1. t[i] = b[i - (p - 1)] /\ i - (p - 1) \in 1 .. n - p /\ p + (i - (p - 1)) = i + 1
      BY <1>1, <1>2, <1>3, <1>4, <2>2
    <3>2. QED
      BY <1>3, <2>2, <3>1
  <2>3. QED
    BY <2>1, <2>2
<1>7. QED
  BY <1>5, <1>6 DEF t, n

(* The elements that are left. *)
LEMMA Cut ==
    ASSUME NEW T, NEW s \in Seq(T), IsInjective(s), NEW p \in DOMAIN s
    PROVE  /\ RemoveAt(s, p) \in Seq(T) /\ IsInjective(RemoveAt(s, p))
           /\ ToSet(RemoveAt(s, p)) = ToSet(s) \ {s[p]}
<1> DEFINE t == RemoveAt(s, p)
           n == Len(s)
<1>1. n \in Nat /\ DOMAIN s = 1 .. n /\ p \in 1 .. n
  OBVIOUS
<1>2. /\ t \in Seq(T) /\ DOMAIN t = 1 .. n - 1
      /\ \A i \in 1 .. n - 1 : t[i] = IF i < p THEN s[i] ELSE s[i + 1]
  BY CutAt
<1> HIDE DEF t, n
<1>3. \A i \in DOMAIN t : \E k \in DOMAIN s : k # p /\ t[i] = s[k] /\ k = IF i < p THEN i ELSE i + 1
  BY <1>1, <1>2
<1>4. \A k \in DOMAIN s : k # p => \E i \in DOMAIN t : t[i] = s[k]
  <2> SUFFICES ASSUME NEW k \in DOMAIN s, k # p  PROVE \E i \in DOMAIN t : t[i] = s[k]
    OBVIOUS
  <2>1. CASE k < p
    BY <1>1, <1>2, <2>1
  <2>2. CASE ~(k < p)
    <3>1. k - 1 \in 1 .. n - 1 /\ ~(k - 1 < p) /\ (k - 1) + 1 = k
      BY <1>1, <2>2
    <3>2. QED
      BY <1>2, <3>1
  <2>3. QED
    BY <2>1, <2>2
<1>5. ToSet(t) = ToSet(s) \ {s[p]}
  <2>1. \A k \in DOMAIN s : k # p => s[k] # s[p]
    BY DEF IsInjective
  <2>2. QED
    BY <1>3, <1>4, <2>1 DEF ToSet
<1>6. IsInjective(t)
  <2> SUFFICES ASSUME NEW i \in DOMAIN t, NEW j \in DOMAIN t, t[i] = t[j]  PROVE i = j
    BY DEF IsInjective
  <2>1. PICK k \in DOMAIN s : k # p /\ t[i] = s[k] /\ k = IF i < p THEN i ELSE i + 1
    BY <1>3
  <2>2. PICK l \in DOMAIN s : l # p /\ t[j] = s[l] /\ l = IF j < p THEN j ELSE j + 1
    BY <1>3
  <2>3. k = l
    BY <2>1, <2>2 DEF IsInjective
  <2>4. QED
    BY <1>1, <1>2, <2>1, <2>2, <2>3
<1>7. QED
  BY <1>2, <1>5, <1>6 DEF t

(* Exchanging neighbours, as AdvanceInvalidElement does. *)
LEMMA Swap ==
    ASSUME NEW T, NEW s \in Seq(T), IsInjective(s), NEW p \in DOMAIN s, p + 1 \in DOMAIN s,
           NEW t, t = [s EXCEPT ![p] = s[p + 1], ![p + 1] = s[p]]
    PROVE  t \in Seq(T) /\ IsInjective(t) /\ ToSet(t) = ToSet(s)
<1>1. /\ Len(s) \in Nat /\ DOMAIN s = 1 .. Len(s) /\ p \in Nat /\ DOMAIN t = DOMAIN s
      /\ t[p] = s[p + 1] /\ t[p + 1] = s[p] /\ \A i \in DOMAIN s : i # p /\ i # p + 1 => t[i] = s[i]
  OBVIOUS
<1>2. t \in Seq(T)
  <2>1. t \in [1 .. Len(s) -> T]
    BY <1>1
  <2>2. QED
    BY <1>1, <2>1
<1>3. \A i \in DOMAIN t : i = p \/ i = p + 1 \/ t[i] = s[i]
  BY <1>1
<1>4. ToSet(t) = ToSet(s)
  <2>1. \A i \in DOMAIN t : \E k \in DOMAIN s : t[i] = s[k]
    BY <1>1
  <2>2. \A k \in DOMAIN s : \E i \in DOMAIN t : s[k] = t[i]
    BY <1>1
  <2>3. \A y : (\E i \in DOMAIN t : y = t[i]) <=> (\E k \in DOMAIN s : y = s[k])
    <3> SUFFICES ASSUME NEW y  PROVE (\E i \in DOMAIN t : y = t[i]) <=> (\E k \in DOMAIN s : y = s[k])
      OBVIOUS
    <3>1. ASSUME NEW i \in DOMAIN t, y = t[i]  PROVE \E k \in DOMAIN s : y = s[k]
      BY <2>1, <3>1
    <3>2. ASSUME NEW k \in DOMAIN s, y = s[k]  PROVE \E i \in DOMAIN t : y = t[i]
      BY <2>2, <3>2
    <3>3. QED
      BY <3>1, <3>2
  <2>4. QED
    BY <2>3 DEF ToSet
<1>5. IsInjective(t)
  BY <1>1 DEF IsInjective
<1>6. QED
  BY <1>2, <1>4, <1>5

-----------------------------------------------------------------------------
(* The clock hand. *)

(* the elements of a chain: entries and, in one of them, the hand *)
Element == Object \cup {Invalid}

(* the objects of a chain *)
Entries(c) == ToSet(c) \ {Invalid}

(* a table without duplicates whose hand, if it is in it, is in chain idx *)
Table(ch, idx) ==
    /\ ch \in [BucketIdx -> Seq(Element)]
    /\ \A b \in BucketIdx : IsInjective(ch[b]) /\ (Invalid \in ToSet(ch[b]) => b = idx)

(* the table h.ch has the objects of the table ch, and the hand is at h.idx or
   has run off the table *)
SameEntries(h, ch) ==
    /\ h.idx \in 0 .. NumBuckets
    /\ Table(h.ch, h.idx)
    /\ h.idx \in BucketIdx => Invalid \in ToSet(h.ch[h.idx])
    /\ \A b \in BucketIdx : Entries(h.ch[b]) = Entries(ch[b])

(* the indices of the buckets, and the one behind the last *)
LEMMA Buckets == /\ NumBuckets \in Nat \ {0} /\ BucketIdx \subseteq Nat /\ 0 \in BucketIdx
                 /\ NumBuckets \notin BucketIdx
                 /\ \A i \in 0 .. NumBuckets : i # NumBuckets <=> i \in BucketIdx
                 /\ \A i \in 0 .. NumBuckets : i < NumBuckets <=> i \in BucketIdx
BY CacheAssumption DEF BucketIdx

(* The hand of a chain that has one is an invalid element. *)
LEMMA HandPlace ==
    ASSUME NEW c \in Seq(Element), Invalid \in ToSet(c)
    PROVE  Hand(c) \in DOMAIN c /\ c[Hand(c)] = Invalid
<1> DEFINE I == {i \in 1 .. Len(c) : c[i] = Invalid}
<1>1. I # {} /\ I \subseteq Nat /\ DOMAIN c = 1 .. Len(c)
  BY SeqFacts DEF ToSet
<1>2. Hand(c) = Min(I)
  BY <1>1 DEF Hand, SelectInSeq
<1>3. Min(I) \in I
  BY <1>1, MinIs
<1>4. QED
  BY <1>1, <1>2, <1>3

(* CSyncHashtableIter::InsertInvalidElement changes no entry. *)
LEMMA InsertHand ==
    ASSUME NEW ch, Table(ch, NumBuckets), NEW from \in 0 .. NumBuckets
    PROVE  SameEntries(InsertInvalidElement(ch, from), ch)
<1> DEFINE filled == {b \in from .. NumBuckets - 1 : ch[b] # <<>>}
           h == InsertInvalidElement(ch, from)
<1>1. \A b \in BucketIdx : Invalid \notin ToSet(ch[b]) /\ ch[b] \in Seq(Element) /\ IsInjective(ch[b])
  BY Buckets DEF Table
<1>2. CASE filled = {}
  <2>1. h = [idx |-> NumBuckets, ch |-> ch]
    BY <1>2 DEF InsertInvalidElement
  <2>2. QED
    BY <2>1, Buckets DEF SameEntries, Table
<1>3. CASE filled # {}
  <2> DEFINE m == Min(filled)
             n == [ch EXCEPT ![m] = <<Invalid>> \o @]
  <2>1. h = [idx |-> m, ch |-> n]
    BY <1>3 DEF InsertInvalidElement
  <2>2. filled \subseteq Nat /\ filled \subseteq BucketIdx
    BY Buckets DEF BucketIdx
  <2>3. m \in filled /\ m \in BucketIdx
    BY <1>3, <2>2, MinIs
  <2> HIDE DEF m, filled, h
  <2>4. /\ <<Invalid>> \o ch[m] \in Seq(Element) /\ IsInjective(<<Invalid>> \o ch[m])
        /\ ToSet(<<Invalid>> \o ch[m]) = ToSet(ch[m]) \cup {Invalid}
    BY <1>1, <2>3, PutFront DEF Element
  <2>5. \A b \in BucketIdx : n[b] = IF b = m THEN <<Invalid>> \o ch[m] ELSE ch[b]
    BY <2>3 DEF Table
  <2>6. Table(n, m) /\ Invalid \in ToSet(n[m])
    <3>1. n \in [BucketIdx -> Seq(Element)]
      BY <2>3, <2>4 DEF Table
    <3>2. QED
      BY <1>1, <2>3, <2>4, <2>5, <3>1 DEF Table
  <2>7. \A b \in BucketIdx : Entries(n[b]) = Entries(ch[b])
    BY <2>4, <2>5 DEF Entries
  <2>8. m \in 0 .. NumBuckets /\ h.idx = m /\ h.ch = n
    BY <2>1, <2>3, Buckets DEF BucketIdx
  <2> HIDE DEF n
  <2>9. QED
    BY <2>6, <2>7, <2>8 DEF SameEntries, h
<1>4. QED
  BY <1>2, <1>3

(* CSyncHashtableIter::Advance changes no entry. *)
LEMMA HandMoves ==
    ASSUME Table(chain, m_bucket_idx), m_bucket_idx \in BucketIdx,
           m_clock_hand_advanced => Invalid \in ToSet(chain[m_bucket_idx])
    PROVE  SameEntries(HandNext, chain)
<1> DEFINE i == m_bucket_idx
           c == chain[i]
<1>1. i \in 0 .. NumBuckets /\ c \in Seq(Element) /\ IsInjective(c)
  BY Buckets DEF Table, BucketIdx
<1>2. Inserted <=> Invalid \in ToSet(c)
  BY <1>1, SeqFacts DEF Inserted
<1>3. CASE m_clock_hand_advanced
  <2>1. HandNext = [idx |-> i, ch |-> chain]
    BY <1>3 DEF HandNext
  <2>2. QED
    BY <1>1, <1>3, <2>1 DEF SameEntries
<1>4. CASE ~m_clock_hand_advanced /\ ~Inserted
  <2>1. HandNext = InsertInvalidElement(chain, i)
    BY <1>4 DEF HandNext, Advance
  <2>2. Table(chain, NumBuckets)
    BY <1>2, <1>4 DEF Table
  <2>3. QED
    BY <1>1, <2>1, <2>2, InsertHand
<1>5. CASE ~m_clock_hand_advanced /\ Inserted
  <2> DEFINE p == Hand(c)
  <2>1. p \in DOMAIN c /\ c[p] = Invalid /\ DOMAIN c = 1 .. Len(c) /\ Len(c) \in Nat
    BY <1>1, <1>2, <1>5, HandPlace, SeqFacts
  <2>2. CASE p + 1 < Len(c)
    <3> DEFINE d == [c EXCEPT ![p] = c[p + 1], ![p + 1] = Invalid]
               n == [chain EXCEPT ![i] = d]
    <3>1. HandNext = [idx |-> i, ch |-> n]
      BY <1>5, <2>2 DEF HandNext, Advance
    <3>2. p + 1 \in DOMAIN c /\ d = [c EXCEPT ![p] = c[p + 1], ![p + 1] = c[p]]
      BY <2>1, <2>2
    <3>3. d \in Seq(Element) /\ IsInjective(d) /\ ToSet(d) = ToSet(c)
      BY <1>1, <2>1, <3>2, Swap
    <3> HIDE DEF d
    <3>4. n \in [BucketIdx -> Seq(Element)] /\ \A b \in BucketIdx : n[b] = IF b = i THEN d ELSE chain[b]
      BY <3>3 DEF Table
    <3> HIDE DEF n
    <3>5. Table(n, i)
      BY <3>3, <3>4 DEF Table
    <3>6. \A b \in BucketIdx : Entries(n[b]) = Entries(chain[b])
      BY <3>3, <3>4 DEF Entries
    <3>7. Invalid \in ToSet(n[i])
      BY <1>2, <1>5, <3>3, <3>4
    <3>8. QED
      BY <1>1, <3>1, <3>5, <3>6, <3>7 DEF SameEntries
  <2>3. CASE ~(p + 1 < Len(c))
    <3> DEFINE d == RemoveAt(c, p)
               n == [chain EXCEPT ![i] = d]
    <3>1. HandNext = InsertInvalidElement(n, i + 1)
      BY <1>5, <2>3 DEF HandNext, Advance
    <3>2. d \in Seq(Element) /\ IsInjective(d) /\ ToSet(d) = ToSet(c) \ {Invalid}
      BY <1>1, <2>1, Cut
    <3> HIDE DEF d
    <3>3. n \in [BucketIdx -> Seq(Element)] /\ \A b \in BucketIdx : n[b] = IF b = i THEN d ELSE chain[b]
      BY <3>2 DEF Table
    <3> HIDE DEF n
    <3>4. Table(n, NumBuckets)
      BY <3>2, <3>3 DEF Table
    <3>5. \A b \in BucketIdx : Entries(n[b]) = Entries(chain[b])
      BY <3>2, <3>3 DEF Entries
    <3>6. i + 1 \in 0 .. NumBuckets
      BY Buckets DEF BucketIdx
    <3>7. SameEntries(HandNext, n)
      BY <3>1, <3>4, <3>6, InsertHand
    <3>8. QED
      BY <3>5, <3>7 DEF SameEntries
  <2>4. QED
    BY <2>2, <2>3
<1>6. QED
  BY <1>3, <1>4, <1>5

-----------------------------------------------------------------------------
(* The inductive invariant of the cache. *)

(* Types, of the sequences too; an eviction makes ClockInit + 1 passes. *)
ShapeInv ==
    /\ CacheTypeOK
    /\ fetch \in Seq(Key)
    /\ pc = "evict" => retry <= ClockInit
    /\ \A o \in alive : key[o] \in Key

(* The table: entries are in the chain of their keys, one per key. *)
ChainInv ==
    /\ Table(chain, m_bucket_idx)
    /\ m_bucket_idx \in BucketIdx
    /\ m_clock_hand_advanced => Invalid \in ToSet(chain[m_bucket_idx])
    /\ \A b \in BucketIdx : \A o \in Entries(chain[b]) :
          o \in alive /\ key[o] \in Key \ Ctas /\ Bucket[key[o]] = b
    /\ \A o, p \in Cached : key[o] = key[p] => o = p
    /\ ~m_pcache => Cached = {}

(* The local table holds objects that exist, one per key. *)
LocalInv ==
    /\ local \subseteq alive
    /\ \A o, p \in local : key[o] = key[p] => o = p

(* no accessor yet: no optimization runs, or it is still resizing the cache *)
NoAccessor == pc = "idle" \/ (pc # "run" /\ fetched = None)

(* The cache exists while it is used.  What is being fetched is neither in the cache nor in the local table,
   until it is inserted. *)
FetchInv ==
    /\ IsInjective(fetch)
    /\ NoAccessor => local = {} /\ fetch = <<>>
    /\ pc # "idle" => m_pcache
    /\ \A k \in ToSet(fetch) :
          (\A o \in local : key[o] # k) /\ (\A o \in Cached : key[o] # k)
    /\ fetched # None =>
          /\ pc \in {"evict", "evicted"} /\ fetch # <<>>
          /\ key[fetched] = Last(fetch) /\ Last(fetch) \notin Ctas
          /\ fetched \in alive /\ fetched \notin Cached /\ fetched \notin local

(* Old objects are in the cache only as long as the change was not noticed,
   and until then a running optimization started before the change. *)
AgeInv ==
    /\ old \subseteq alive
    /\ changed /\ pc # "idle" => since
    /\ ~changed => Cached \cap old = {}
    /\ fetched \notin old
    /\ pc \in {"evict", "evicted"} /\ fetched = None => ~changed
    /\ FreshMetadata

(* The inductive invariant. *)
CacheInv ==
    ShapeInv /\ ChainInv /\ LocalInv /\ FetchInv /\ RefsMatchOwners /\ SizeExact /\ AgeInv

(* Neither NULL nor the clock hand is an object. *)
LEMMA Objects ==
    /\ Invalid \notin Object /\ None \notin Object /\ Object \subseteq Nat
    /\ IsFiniteSet(Object) /\ None \notin Element /\ None # Invalid
<1>1. IsFiniteSet(1 .. MaxObjects)
  BY FS_Interval, CacheAssumption
<1>2. QED
  BY <1>1, CacheAssumption DEF Object, Invalid, None, Element

(* Cached in terms of the entries of the chains. *)
LEMMA CachedIs ==
    ASSUME chain \in [BucketIdx -> Seq(Element)]
    PROVE  /\ Cached = {o \in Object : \E b \in BucketIdx : o \in Entries(chain[b])}
           /\ Cached = UNION {Entries(chain[b]) : b \in BucketIdx}
           /\ Cached \subseteq Object /\ IsFiniteSet(Cached)
<1>1. \A b \in BucketIdx : chain[b] \in Seq(Element)
  OBVIOUS
<1>2. \A b \in BucketIdx : \A o : Contains(chain[b], o) <=> o \in ToSet(chain[b])
  BY <1>1, SeqFacts
<1>3. \A b \in BucketIdx : Entries(chain[b]) \subseteq Object
  BY <1>1, SeqFacts DEF Entries, Element
<1>4. Cached = {o \in Object : \E b \in BucketIdx : o \in Entries(chain[b])}
  BY <1>2, Objects DEF Cached, Entries
<1>5. Cached \subseteq Object /\ IsFiniteSet(Cached)
  BY <1>4, Objects, FS_Subset
<1>6. QED
  BY <1>3, <1>4, <1>5

(* the fields of RefsMatchOwners by name *)
CachePin(o) == IF o \in Cached THEN 1 ELSE 0
LocalPin(o) == IF o \in local THEN 1 ELSE 0
FetchPin(o) == IF o = fetched THEN 1 ELSE 0

(* RefsMatchOwners by the names of its parts, before and after a step. *)
LEMMA Refs ==
    /\ RefsMatchOwners <=> \A o \in alive : refs[o] = CachePin(o) + LocalPin(o) + FetchPin(o)
    /\ RefsMatchOwners' <=> \A o \in alive' : refs'[o] = CachePin(o)' + LocalPin(o)' + FetchPin(o)'
    /\ \A o : CachePin(o) \in {0, 1} /\ LocalPin(o) \in {0, 1} /\ FetchPin(o) \in {0, 1}
BY DEF RefsMatchOwners, CachePin, LocalPin, FetchPin

(* A step that leaves the table and its objects alone. *)
LEMMA TableFrame ==
    ASSUME ChainInv, UNCHANGED table, \A o \in Cached : o \in alive' /\ key'[o] = key[o]
    PROVE  Cached' = Cached /\ ChainInv'
<1>1. Cached' = Cached
  BY DEF table, Cached
<1>2. \A b \in BucketIdx : Entries(chain[b]) \subseteq Cached
  BY CachedIs DEF ChainInv, Table
<1>3. QED
  BY <1>1, <1>2 DEF ChainInv, table

(* A step that keeps the entries and their keys keeps the size. *)
LEMMA SizeFrame ==
    ASSUME SizeExact, Cached' = Cached, \A o \in Cached : key'[o] = key[o],
           m_cache_size' = m_cache_size
    PROVE  SizeExact'
<1>1. [o \in Cached' |-> Bytes[key'[o]]] = [o \in Cached |-> Bytes[key[o]]]
  OBVIOUS
<1>2. QED
  BY <1>1 DEF SizeExact

(* A step that changes neither the local table nor objects. *)
LEMMA OwnersFrame ==
    ASSUME RefsMatchOwners, Cached' = Cached, UNCHANGED <<local, fetched, alive, refs>>
    PROVE  RefsMatchOwners'
BY DEF RefsMatchOwners
-----------------------------------------------------------------------------
(* The steps *)

(* An invalidation callback makes what exists old. *)
LEMMA CatalogChangeStep == ASSUME CacheInv, CatalogChange  PROVE CacheInv'
<1> USE DEF CacheInv
<1>1. /\ UNCHANGED <<table, objects, m_cache_size, m_cache_quota, local, fetch, fetched, pc, locals>>
      /\ changed' = TRUE /\ old' = alive /\ since' = (pc = "run") /\ pc \in {"idle", "run"}
  BY DEF CatalogChange
<1>2. UNCHANGED <<m_pcache, chain, m_bucket_idx, m_clock_hand_advanced, key, refs, counter, alive,
                  retry, freed, goal>>
  BY <1>1 DEF table, objects, locals
<1>4. Cached' = Cached /\ ChainInv'
  <2>1. Cached \subseteq alive
    BY CachedIs DEF ChainInv, Table
  <2>2. QED
    BY <1>1, <1>2, <2>1, TableFrame
<1>5. ShapeInv'
  BY <1>1, <1>2 DEF ShapeInv, CacheTypeOK
<1>6. LocalInv' /\ FetchInv'
  BY <1>1, <1>2, <1>4 DEF LocalInv, FetchInv, NoAccessor
<1>7. RefsMatchOwners' /\ SizeExact'
  BY <1>1, <1>2, <1>4, OwnersFrame, SizeFrame
<1>8. AgeInv'
  <2>1. fetched' = None /\ None \notin alive
    BY <1>1, Objects DEF FetchInv, ShapeInv, CacheTypeOK
  <2>2. FreshMetadata'
    BY <1>1 DEF FreshMetadata, FetchInv, NoAccessor
  <2>3. QED
    BY <1>1, <1>2, <2>1, <2>2 DEF AgeInv
<1>9. QED
  BY <1>4, <1>5, <1>6, <1>7, <1>8

(* What the invariant says about the sets of objects. *)
LEMMA Basics ==
    ASSUME CacheInv
    PROVE  /\ Cached \subseteq alive /\ Cached \subseteq Object /\ alive \subseteq Object
           /\ local \subseteq alive
           /\ pc \in {"idle", "run"} => fetched = None
           /\ fetched \in Object \cup {None} /\ fetched # Invalid
           /\ fetch # <<>> => Last(fetch) \in ToSet(fetch) /\ Last(fetch) \in Key
<1> USE DEF CacheInv
<1>1. Cached \subseteq alive /\ Cached \subseteq Object /\ alive \subseteq Object
  BY CachedIs DEF ChainInv, Table, ShapeInv, CacheTypeOK
<1>3. fetch # <<>> => Last(fetch) \in ToSet(fetch) /\ Last(fetch) \in Key
  <2>1. fetch \in Seq(Key)
    BY DEF ShapeInv
  <2>2. fetch # <<>> => Len(fetch) \in DOMAIN fetch
    BY <2>1
  <2>3. QED
    BY <2>1, <2>2, SeqFacts DEF Last, ToSet
<1>4. fetched \in Object \cup {None} /\ fetched # Invalid
  BY Objects DEF ShapeInv, CacheTypeOK
<1>5. QED
  BY <1>1, <1>3, <1>4 DEF LocalInv, FetchInv

(* A new cache is empty. *)
LEMMA EmptyTableStep ==
    ASSUME EmptyTable
    PROVE  /\ Cached' = {} /\ ChainInv' /\ SizeExact'
           /\ m_cache_size' \in Nat /\ m_bucket_idx' \in 0 .. NumBuckets
           /\ m_clock_hand_advanced' \in BOOLEAN
           /\ \A b \in BucketIdx : ToSet(chain'[b]) = {}
<1>1. /\ chain' = [b \in BucketIdx |-> <<>>] /\ m_bucket_idx' = 0
      /\ m_clock_hand_advanced' = FALSE /\ m_cache_size' = 0
  BY DEF EmptyTable
<1>2. <<>> \in Seq(Element) /\ ToSet(<<>>) = {} /\ IsInjective(<<>>) /\ Entries(<<>>) = {}
  BY DEF ToSet, IsInjective, Entries
<1>3. \A b \in BucketIdx : chain'[b] = <<>>
  BY <1>1
<1>4. Cached' = {}
  BY <1>2, <1>3 DEF Cached, Contains
<1>5. ChainInv'
  <2>1. Table(chain, m_bucket_idx)'
    BY <1>1, <1>2, <1>3 DEF Table
  <2>2. m_bucket_idx' \in BucketIdx
    BY <1>1, Buckets
  <2>3. \A b \in BucketIdx : Entries(chain'[b]) = {}
    BY <1>2, <1>3
  <2>4. QED
    BY <1>1, <1>4, <2>1, <2>2, <2>3 DEF ChainInv
<1>6. SizeExact'
  <2>1. SumFunction([o \in {} |-> Bytes[key'[o]]]) = 0
    BY SumEmpty
  <2>2. QED
    BY <1>1, <1>4, <2>1 DEF SizeExact
<1>7. QED
  BY <1>1, <1>2, <1>3, <1>4, <1>5, <1>6, Buckets

(* EvictEntries computes its goal and starts its passes at zero. *)
LEMMA EvictionTypes ==
    ASSUME m_cache_size \in Nat, NEW quota \in Quotas \cup {0}, EvictEntries(quota) \/ Skip
    PROVE  /\ pc' \in {"evict", "evicted"} /\ retry' \in 0 .. ClockInit + 1
           /\ freed' \in Nat /\ goal' \in Int /\ retry' <= ClockInit
<1>1. quota \in Nat
  BY CacheAssumption
<1>2. (10 * m_cache_size - 9 * quota) \div 10 \in Int
  BY <1>1
<1>3. QED
  BY <1>2, CacheAssumption DEF EvictEntries, Skip, NoEviction

(* COptTasks::OptimizeTask creates, replaces or resizes the cache before
   there is an accessor. *)
LEMMA OptimizeTaskStep ==
    ASSUME CacheInv, NEW quota \in Quotas, OptimizeTask(quota)
    PROVE  CacheInv'
<1> USE DEF CacheInv
<1>1. /\ pc = "idle"
      /\ changed' = FALSE /\ m_pcache' = TRUE /\ m_cache_quota' = quota
      /\ UNCHANGED <<local, fetch, fetched, since>>
  BY DEF OptimizeTask, NoWorker
<1>2. /\ fetched = None /\ None \notin old /\ local = {} /\ fetch = <<>>
      /\ ToSet(fetch') = {} /\ IsInjective(fetch')
  BY <1>1, Basics DEF AgeInv, FetchInv, NoAccessor, ToSet, IsInjective
<1>3. /\ pc' \in {"evict", "evicted"} /\ retry' \in 0 .. ClockInit + 1
      /\ freed' \in Nat /\ goal' \in Int /\ retry' <= ClockInit
  <2>1. EvictEntries(quota) \/ Skip
    BY DEF OptimizeTask
  <2>2. QED
    BY <2>1, EvictionTypes DEF ShapeInv, CacheTypeOK
<1>4. LocalInv' /\ FetchInv'
  BY <1>1, <1>2 DEF LocalInv, FetchInv, NoAccessor
<1>5. CASE ~m_pcache \/ changed
  <2>1. EmptyTable /\ Destroy(Cached, refs)
    BY <1>5 DEF OptimizeTask
  <2>2. /\ Cached' = {} /\ ChainInv' /\ SizeExact'
        /\ m_cache_size' \in Nat /\ m_bucket_idx' \in 0 .. NumBuckets
        /\ m_clock_hand_advanced' \in BOOLEAN
        /\ \A b \in BucketIdx : ToSet(chain'[b]) = {}
    BY <2>1, EmptyTableStep
  <2>3. /\ alive' = alive \ Cached /\ old' = old \ Cached
        /\ \A o \in Object : o \notin Cached => refs'[o] = refs[o] /\ key'[o] = key[o]
        /\ refs' \in [Object -> Nat] /\ key' \in [Object -> Key \cup {None}]
        /\ counter' \in [Object -> 0 .. ClockInit]
    BY <2>1, CacheAssumption DEF Destroy, ShapeInv, CacheTypeOK
  <2>4. ShapeInv'
    BY <1>1, <1>2, <1>3, <2>2, <2>3 DEF ShapeInv, CacheTypeOK
  <2>5. RefsMatchOwners'
    BY <1>1, <2>2, <2>3, Basics DEF RefsMatchOwners
  <2>6. AgeInv'
    BY <1>1, <1>2, <2>2, <2>3 DEF AgeInv, FreshMetadata
  <2>7. QED
    BY <1>4, <2>2, <2>4, <2>5, <2>6
<1>6. CASE m_pcache /\ ~changed
  <2>1. UNCHANGED <<chain, m_bucket_idx, m_clock_hand_advanced, objects, m_cache_size, old>>
    BY <1>6 DEF OptimizeTask
  <2>2. UNCHANGED <<table, key, refs, counter, alive>>
    BY <1>1, <1>6, <2>1 DEF table, objects
  <2>3. Cached' = Cached /\ ChainInv'
    BY <2>2, Basics, TableFrame
  <2>4. ShapeInv'
    BY <1>1, <1>2, <1>3, <2>1, <2>2 DEF ShapeInv, CacheTypeOK, table
  <2>5. RefsMatchOwners' /\ SizeExact'
    BY <1>1, <2>1, <2>2, <2>3, OwnersFrame, SizeFrame
  <2>6. AgeInv'
    BY <1>1, <1>2, <1>6, <2>1, <2>2, <2>3 DEF AgeInv, FreshMetadata
  <2>7. QED
    BY <1>4, <2>3, <2>4, <2>5, <2>6
<1>7. QED
  BY <1>5, <1>6

(* An optimization starts with an empty table. *)
LEMMA ConstructAccessorStep == ASSUME CacheInv, ConstructAccessor  PROVE CacheInv'
<1> USE DEF CacheInv
<1>1. /\ pc = "evicted" /\ fetched = None /\ pc' = "run"
      /\ retry' = 0 /\ freed' = 0 /\ goal' = 0
      /\ UNCHANGED <<table, objects, m_cache_size, m_cache_quota, local, fetch, fetched, history>>
  BY DEF ConstructAccessor, NoEviction
<1>2. UNCHANGED <<m_pcache, chain, m_bucket_idx, m_clock_hand_advanced, key, refs, counter, alive,
                  changed, old, since>>
  BY <1>1 DEF table, objects, history
<1>3. Cached' = Cached /\ ChainInv'
  BY <1>1, <1>2, Basics, TableFrame
<1>4. ~changed
  BY <1>1 DEF AgeInv
<1>5. ShapeInv'
  <2>1. 0 \in 0 .. ClockInit + 1 /\ 0 \in Nat /\ 0 \in Int
    BY CacheAssumption
  <2>2. QED
    BY <1>1, <1>2, <2>1 DEF ShapeInv, CacheTypeOK
<1>6. LocalInv' /\ FetchInv'
  BY <1>1, <1>2, <1>3 DEF LocalInv, FetchInv, NoAccessor
<1>7. RefsMatchOwners' /\ SizeExact'
  BY <1>1, <1>2, <1>3, OwnersFrame, SizeFrame
<1>8. AgeInv'
  BY <1>1, <1>2, <1>3, <1>4 DEF AgeInv, FreshMetadata
<1>9. QED
  BY <1>3, <1>5, <1>6, <1>7, <1>8

(* CSyncHashtableAccessByKey::Find answers with an entry of the key, if the
   table has one. *)
LEMMA FindFinds ==
    ASSUME CacheInv, NEW k \in Key
    PROVE  /\ Find(k) # None => Find(k) \in Cached /\ key[Find(k)] = k
           /\ Find(k) = None => \A o \in Cached : key[o] # k
<1> USE DEF CacheInv
<1> DEFINE b == Bucket[k]
           c == chain[b]
           match == {i \in DOMAIN c : c[i] # Invalid /\ key[c[i]] = k}
<1>1. b \in BucketIdx /\ c \in Seq(Element)
  BY CacheAssumption DEF ChainInv, Table, BucketIdx
<1>2. DOMAIN c = 1 .. Len(c) /\ \A i \in DOMAIN c : c[i] \in Element
  BY <1>1, SeqFacts
<1>3. Find(k) = IF match = {} THEN None ELSE c[Min(match)]
  BY DEF Find
<1>4. CASE match = {}
  <2>1. ASSUME NEW o \in Cached, key[o] = k  PROVE FALSE
    <3>1. PICK d \in BucketIdx : o \in Entries(chain[d])
      BY CachedIs DEF ChainInv, Table
    <3>2. d = b
      BY <2>1, <3>1 DEF ChainInv
    <3>3. QED
      BY <1>4, <2>1, <3>1, <3>2 DEF Entries, ToSet
  <2>2. QED
    BY <1>3, <1>4, <2>1
<1>5. CASE match # {}
  <2>1. match \subseteq Nat
    BY <1>2
  <2>2. Min(match) \in match
    BY <1>5, <2>1, MinIs
  <2>3. Find(k) \in Entries(c) /\ key[Find(k)] = k /\ Find(k) \in Element
    BY <1>2, <1>3, <1>5, <2>2 DEF Entries, ToSet
  <2>4. QED
    BY <1>1, <2>3, CachedIs, Objects DEF ChainInv, Table
<1>6. QED
  BY <1>4, <1>5

(* CMDAccessor::GetImdObj takes the reference of its local table. *)
LEMMA GetImdObjStep == ASSUME CacheInv, NEW k \in Key, GetImdObj(k)  PROVE CacheInv'
<1> USE DEF CacheInv
<1>0. PICK o : o = Find(k)
  OBVIOUS
<1>1. /\ pc = "run" /\ ~InLocal(k) /\ o # None
      /\ refs' = [refs EXCEPT ![o] = @ + 1] /\ counter' = [counter EXCEPT ![o] = ClockInit]
      /\ local' = local \cup {o}
      /\ UNCHANGED <<table, key, alive, m_cache_size, m_cache_quota, fetch, fetched, pc, locals, history>>
  BY <1>0 DEF GetImdObj, Asks
<1>2. o \in Cached /\ key[o] = k /\ o \in Object /\ o \in alive
  BY <1>0, <1>1, FindFinds, Basics
<1>3. fetched = None /\ UNCHANGED <<m_pcache, chain, m_bucket_idx, m_clock_hand_advanced,
                      retry, freed, goal, changed, old, since>>
  BY <1>1, Basics DEF table, locals, history
<1>4. Cached' = Cached /\ ChainInv'
  BY <1>1, Basics, TableFrame
<1>6. \A p \in local : key[p] # k
  BY <1>1 DEF InLocal
<1>7. ShapeInv'
  <2>1. refs' \in [Object -> Nat] /\ counter' \in [Object -> 0 .. ClockInit]
    BY <1>1, <1>2, CacheAssumption DEF ShapeInv, CacheTypeOK
  <2>2. local' \subseteq Object
    BY <1>1, <1>2 DEF ShapeInv, CacheTypeOK
  <2>3. QED
    BY <1>1, <1>3, <2>1, <2>2 DEF ShapeInv, CacheTypeOK
<1>8. LocalInv'
  BY <1>1, <1>2, <1>6 DEF LocalInv
<1>9. FetchInv'
  <2>1. k \notin ToSet(fetch)
    BY <1>2 DEF FetchInv
  <2>2. QED
    BY <1>1, <1>2, <1>3, <1>4, <2>1 DEF FetchInv, NoAccessor
<1>10. RefsMatchOwners'
  <2>1. /\ \A p : CachePin(p)' = CachePin(p) /\ FetchPin(p)' = FetchPin(p)
        /\ \A p : p # o => LocalPin(p)' = LocalPin(p)
        /\ LocalPin(o) = 0 /\ LocalPin(o)' = 1
    BY <1>1, <1>2, <1>4, <1>6 DEF CachePin, FetchPin, LocalPin
  <2>2. \A p \in alive : refs'[p] = IF p = o THEN refs[p] + 1 ELSE refs[p]
    BY <1>1, <1>2, Basics DEF ShapeInv, CacheTypeOK
  <2>3. \A p \in alive : refs[p] = CachePin(p) + LocalPin(p) + FetchPin(p)
    BY Refs
  <2>4. refs'[o] = CachePin(o)' + LocalPin(o)' + FetchPin(o)'
    BY <1>2, <2>1, <2>2, <2>3, Refs
  <2>5. \A p \in alive : p # o => refs'[p] = CachePin(p)' + LocalPin(p)' + FetchPin(p)'
    BY <2>1, <2>2, <2>3
  <2>6. QED
    BY <1>1, <2>4, <2>5, Refs
<1>11. SizeExact'
  BY <1>1, <1>4, SizeFrame
<1>12. AgeInv'
  <2>1. FreshMetadata'
    BY <1>1, <1>2, <1>3 DEF AgeInv, FreshMetadata
  <2>2. QED
    BY <1>1, <1>3, <1>4, <2>1 DEF AgeInv
<1>13. QED
  BY <1>4, <1>7, <1>8, <1>9, <1>10, <1>11, <1>12

(* A fetch begins. *)
LEMMA FetchStep == ASSUME CacheInv, NEW k \in Key, GetMDObjDXLStr(k)  PROVE CacheInv'
<1> USE DEF CacheInv
<1>1. /\ pc = "run" /\ ~InLocal(k) /\ Find(k) = None /\ ~Contains(fetch, k)
      /\ fetch' = Append(fetch, k)
      /\ UNCHANGED <<table, objects, m_cache_size, m_cache_quota, local, fetched, pc, locals, history>>
  BY DEF GetMDObjDXLStr, Asks
<1>2. fetched = None /\ UNCHANGED <<m_pcache, chain, m_bucket_idx, m_clock_hand_advanced,
                      key, refs, counter, alive, retry, freed, goal, changed, old, since>>
  BY <1>1, Basics DEF table, objects, locals, history
<1>3. Cached' = Cached /\ ChainInv'
  BY <1>1, <1>2, Basics, TableFrame
<1>4. fetch \in Seq(Key) /\ k \notin ToSet(fetch)
  BY <1>1, SeqFacts DEF ShapeInv
<1>5. fetch' \in Seq(Key) /\ IsInjective(fetch') /\ ToSet(fetch') = ToSet(fetch) \cup {k}
  <2>1. /\ fetch' \in Seq(Key) /\ Len(fetch) \in Nat /\ DOMAIN fetch' = 1 .. Len(fetch) + 1
        /\ DOMAIN fetch = 1 .. Len(fetch)
        /\ fetch'[Len(fetch) + 1] = k /\ \A i \in DOMAIN fetch : fetch'[i] = fetch[i]
    BY <1>1, <1>4
  <2>2. \A i \in DOMAIN fetch' : i \in DOMAIN fetch \/ i = Len(fetch) + 1
    BY <2>1
  <2>3. DOMAIN fetch \subseteq DOMAIN fetch' /\ Len(fetch) + 1 \in DOMAIN fetch'
    BY <2>1
  <2>4. ToSet(fetch') = ToSet(fetch) \cup {k}
    BY <2>1, <2>2, <2>3 DEF ToSet
  <2>5. IsInjective(fetch')
    BY <1>4, <2>1, <2>2 DEF FetchInv, IsInjective, ToSet
  <2>6. QED
    BY <2>1, <2>4, <2>5
<1>6. ShapeInv'
  <2>1. ToSet(fetch') \subseteq Key
    BY <1>5, SeqFacts
  <2>2. QED
    BY <1>1, <1>2, <1>5, <2>1 DEF ShapeInv, CacheTypeOK
<1>7. LocalInv'
  BY <1>1, <1>2 DEF LocalInv
<1>8. FetchInv'
  BY <1>1, <1>2, <1>3, <1>5, FindFinds DEF FetchInv, InLocal, NoAccessor
<1>9. RefsMatchOwners' /\ SizeExact'
  BY <1>1, <1>2, <1>3, OwnersFrame, SizeFrame
<1>10. AgeInv'
  BY <1>1, <1>2, <1>3 DEF AgeInv, FreshMetadata
<1>11. QED
  BY <1>3, <1>6, <1>7, <1>8, <1>9, <1>10

(* The loop of EvictEntries ends. *)
LEMMA EvictionDoneStep == ASSUME CacheInv, EvictionDone  PROVE CacheInv'
<1> USE DEF CacheInv
<1>1. /\ pc = "evict" /\ pc' = "evicted"
      /\ UNCHANGED <<table, objects, m_cache_size, m_cache_quota, local, fetch, fetched, locals, history>>
  BY DEF EvictionDone
<1>2. UNCHANGED <<m_pcache, chain, m_bucket_idx, m_clock_hand_advanced,
                  key, refs, counter, alive, retry, freed, goal, changed, old, since>>
  BY <1>1 DEF table, objects, locals, history
<1>3. Cached' = Cached /\ ChainInv'
  BY <1>1, <1>2, Basics, TableFrame
<1>4. ShapeInv' /\ LocalInv' /\ FetchInv' /\ AgeInv'
  BY <1>1, <1>2, <1>3 DEF ShapeInv, CacheTypeOK, LocalInv, FetchInv, NoAccessor, AgeInv, FreshMetadata
<1>5. RefsMatchOwners' /\ SizeExact'
  BY <1>1, <1>2, <1>3, OwnersFrame, SizeFrame
<1>6. QED
  BY <1>3, <1>4, <1>5

(* A fetch ends. *)
LEMMA FrontCut ==
    ASSUME NEW T, NEW s \in Seq(T), s # <<>>
    PROVE  /\ Front(s) \in Seq(T) /\ Len(Front(s)) = Len(s) - 1
           /\ DOMAIN Front(s) = 1 .. Len(s) - 1
           /\ \A i \in 1 .. Len(s) - 1 : Front(s)[i] = s[i]
           /\ IsInjective(s) => IsInjective(Front(s)) /\ ToSet(Front(s)) = ToSet(s) \ {Last(s)}
<1> DEFINE t == Front(s)
           n == Len(s)
<1>1. n \in Nat \ {0} /\ DOMAIN s = 1 .. n
  OBVIOUS
<1>2. t \in Seq(T) /\ Len(t) = n - 1 /\ DOMAIN t = 1 .. n - 1 /\ \A i \in 1 .. n - 1 : t[i] = s[i]
  BY <1>1 DEF Front
<1> HIDE DEF t, n
<1>3. ASSUME IsInjective(s)  PROVE IsInjective(t)
  BY <1>1, <1>2, <1>3 DEF IsInjective
<1>4. ASSUME IsInjective(s)  PROVE ToSet(t) = ToSet(s) \ {s[n]}
  <2>1. \A i \in DOMAIN t : i \in DOMAIN s /\ t[i] = s[i] /\ i # n
    BY <1>1, <1>2
  <2>2. \A i \in DOMAIN s : i = n \/ i \in DOMAIN t
    BY <1>1, <1>2
  <2>3. \A i \in DOMAIN s : s[i] = s[n] => i = n
    BY <1>1, <1>4 DEF IsInjective
  <2>4. QED
    BY <2>1, <2>2, <2>3 DEF ToSet
<1>5. QED
  BY <1>2, <1>3, <1>4 DEF t, n, Last

(* The memory pool of a new object is one that is not in use. *)
LEMMA FreshIs == ASSUME CacheInv, Object # alive  PROVE Fresh \in Object /\ Fresh \notin alive
<1>1. Object \ alive \subseteq Nat /\ Object \ alive # {}
  BY Basics, Objects
<1>2. QED
  BY <1>1, MinIs DEF Fresh

(* What the provider answered becomes an object nobody else knows. *)
LEMMA NewObjectStep ==
    ASSUME CacheInv, Object # alive, fetch # <<>>, NEW f, f = Fresh, NewObject(Last(fetch))
    PROVE  /\ f \in Object /\ f \notin alive /\ f \notin Cached /\ f \notin old /\ f \notin local
           /\ f # fetched
           /\ alive' = alive \cup {f} /\ counter' = counter /\ key'[f] = Last(fetch) /\ refs'[f] = 1
           /\ \A o \in alive : key'[o] = key[o] /\ refs'[o] = refs[o]
           /\ refs' \in [Object -> Nat] /\ key' \in [Object -> Key \cup {None}]
           /\ \A o \in alive' : key'[o] \in Key
<1> USE DEF CacheInv
<1>1. f \in Object /\ f \notin alive
  BY FreshIs
<1>2. f \notin Cached /\ f \notin old /\ f \notin local /\ f # fetched
  BY <1>1, Basics, Objects DEF AgeInv, FetchInv
<1>3. /\ alive' = alive \cup {f} /\ counter' = counter
      /\ key' = [key EXCEPT ![f] = Last(fetch)] /\ refs' = [refs EXCEPT ![f] = 1]
  BY DEF NewObject
<1>4. Last(fetch) \in Key
  BY Basics
<1>5. /\ key'[f] = Last(fetch) /\ refs'[f] = 1
      /\ \A o \in alive : key'[o] = key[o] /\ refs'[o] = refs[o]
      /\ refs' \in [Object -> Nat] /\ key' \in [Object -> Key \cup {None}]
  BY <1>1, <1>3, <1>4, Basics DEF ShapeInv, CacheTypeOK
<1>6. \A o \in alive' : key'[o] \in Key
  BY <1>3, <1>4, <1>5 DEF ShapeInv
<1>7. QED
  BY <1>1, <1>2, <1>3, <1>5, <1>6

(* CMDAccessor::GetImdObj keeps an object of a CTAS id for itself. *)
LEMMA ParseCtasStep == ASSUME CacheInv, ParseCtas  PROVE CacheInv'
<1> USE DEF CacheInv
<1>0. PICK f : f = Fresh
  OBVIOUS
<1>1. /\ pc = "run" /\ fetch # <<>> /\ Object # alive /\ NewObject(Last(fetch))
      /\ local' = local \cup {f} /\ fetch' = Front(fetch)
      /\ UNCHANGED <<table, m_cache_size, m_cache_quota, fetched, pc, locals, history>>
  BY <1>0 DEF ParseCtas
<1>2. fetched = None /\ UNCHANGED <<m_pcache, chain, m_bucket_idx, m_clock_hand_advanced,
                      retry, freed, goal, changed, old, since>>
  BY <1>1, Basics DEF FetchInv, table, locals, history
<1>3. /\ f \in Object /\ f \notin alive /\ f \notin Cached /\ f \notin old /\ f \notin local
      /\ f # fetched
      /\ alive' = alive \cup {f} /\ counter' = counter /\ key'[f] = Last(fetch) /\ refs'[f] = 1
      /\ \A o \in alive : key'[o] = key[o] /\ refs'[o] = refs[o]
      /\ refs' \in [Object -> Nat] /\ key' \in [Object -> Key \cup {None}]
      /\ \A o \in alive' : key'[o] \in Key
  BY <1>0, <1>1, NewObjectStep
<1>4. Cached' = Cached /\ ChainInv'
  BY <1>1, <1>3, Basics, TableFrame
<1>6. /\ fetch' \in Seq(Key) /\ IsInjective(fetch')
      /\ ToSet(fetch') = ToSet(fetch) \ {Last(fetch)} /\ ToSet(fetch') \subseteq Key
  BY <1>1, FrontCut, SeqFacts DEF ShapeInv, FetchInv
<1>7. \A p \in local : key[p] # Last(fetch)
  BY <1>1, Basics DEF FetchInv
<1>8. ShapeInv'
  <2>1. local' \subseteq Object
    BY <1>1, <1>3 DEF ShapeInv, CacheTypeOK
  <2>2. QED
    BY <1>1, <1>2, <1>3, <1>6, <2>1 DEF ShapeInv, CacheTypeOK
<1>9. LocalInv'
  BY <1>1, <1>2, <1>3, <1>7, Basics DEF LocalInv
<1>10. FetchInv'
  <2>1. \A k \in ToSet(fetch') :
           (\A o \in local' : key'[o] # k) /\ (\A o \in Cached' : key'[o] # k)
    BY <1>1, <1>3, <1>4, <1>6, Basics DEF FetchInv
  <2>2. QED
    BY <1>1, <1>2, <1>6, <2>1 DEF FetchInv, NoAccessor
<1>11. RefsMatchOwners'
  <2>1. /\ \A p : CachePin(p)' = CachePin(p) /\ FetchPin(p)' = FetchPin(p)
        /\ \A p : p # f => LocalPin(p)' = LocalPin(p)
        /\ CachePin(f) = 0 /\ FetchPin(f) = 0 /\ LocalPin(f)' = 1
    BY <1>1, <1>3, <1>4 DEF CachePin, FetchPin, LocalPin
  <2>2. \A p \in alive : refs[p] = CachePin(p) + LocalPin(p) + FetchPin(p)
    BY Refs
  <2>3. refs'[f] = CachePin(f)' + LocalPin(f)' + FetchPin(f)'
    BY <1>3, <2>1
  <2>4. \A p \in alive : p # f /\ refs'[p] = CachePin(p)' + LocalPin(p)' + FetchPin(p)'
    BY <1>3, <2>1, <2>2
  <2>5. QED
    BY <1>3, <2>3, <2>4, Refs
<1>12. SizeExact'
  BY <1>1, <1>3, <1>4, Basics, SizeFrame
<1>13. AgeInv'
  <2>1. FreshMetadata'
    BY <1>1, <1>2, <1>3 DEF AgeInv, FreshMetadata
  <2>2. QED
    BY <1>1, <1>2, <1>3, <1>4, <2>1 DEF AgeInv
<1>14. QED
  BY <1>4, <1>8, <1>9, <1>10, <1>11, <1>12, <1>13

(* ... and any other for the cache. *)
LEMMA ParseStep == ASSUME CacheInv, ParseDXLToIMDIdCacheObj  PROVE CacheInv'
<1> USE DEF CacheInv
<1>0. PICK f : f = Fresh
  OBVIOUS
<1>1. /\ pc = "run" /\ fetch # <<>> /\ Object # alive /\ NewObject(Last(fetch))
      /\ Last(fetch) \notin Ctas /\ fetched' = f
      /\ EvictEntries(m_cache_quota) \/ Skip
      /\ UNCHANGED <<table, m_cache_size, m_cache_quota, local, fetch, history>>
  BY <1>0 DEF ParseDXLToIMDIdCacheObj
<1>2. fetched = None /\ UNCHANGED <<m_pcache, chain, m_bucket_idx, m_clock_hand_advanced,
                                    changed, old, since>>
  BY <1>1, Basics DEF table, history
<1>3. /\ f \in Object /\ f \notin alive /\ f \notin Cached /\ f \notin old /\ f \notin local
      /\ f # fetched
      /\ alive' = alive \cup {f} /\ counter' = counter /\ key'[f] = Last(fetch) /\ refs'[f] = 1
      /\ \A o \in alive : key'[o] = key[o] /\ refs'[o] = refs[o]
      /\ refs' \in [Object -> Nat] /\ key' \in [Object -> Key \cup {None}]
      /\ \A o \in alive' : key'[o] \in Key
  BY <1>0, <1>1, NewObjectStep
<1>4. Cached' = Cached /\ ChainInv'
  BY <1>1, <1>3, Basics, TableFrame
<1>5. /\ pc' \in {"evict", "evicted"} /\ retry' \in 0 .. ClockInit + 1
      /\ freed' \in Nat /\ goal' \in Int /\ retry' <= ClockInit
  BY <1>1, EvictionTypes DEF ShapeInv, CacheTypeOK
<1>6. f # None
  BY <1>3, Objects
<1>7. ShapeInv'
  BY <1>1, <1>2, <1>3, <1>5, <1>6 DEF ShapeInv, CacheTypeOK
<1>8. LocalInv'
  BY <1>1, <1>3, Basics DEF LocalInv
<1>9. FetchInv'
  BY <1>1, <1>2, <1>3, <1>4, <1>5, <1>6, Basics DEF FetchInv, NoAccessor
<1>10. RefsMatchOwners'
  <2>1. /\ \A p : CachePin(p)' = CachePin(p) /\ LocalPin(p)' = LocalPin(p)
        /\ CachePin(f) = 0 /\ LocalPin(f) = 0 /\ FetchPin(f)' = 1
    BY <1>1, <1>3, <1>4 DEF CachePin, FetchPin, LocalPin
  <2>2. \A p \in alive : FetchPin(p) = 0 /\ FetchPin(p)' = 0
    BY <1>1, <1>2, <1>3, Basics, Objects DEF FetchPin
  <2>3. \A p \in alive : refs[p] = CachePin(p) + LocalPin(p) + FetchPin(p)
    BY Refs
  <2>4. refs'[f] = CachePin(f)' + LocalPin(f)' + FetchPin(f)'
    BY <1>3, <2>1
  <2>5. \A p \in alive : refs'[p] = CachePin(p)' + LocalPin(p)' + FetchPin(p)'
    BY <1>3, <2>1, <2>2, <2>3
  <2>6. QED
    BY <1>3, <2>4, <2>5, Refs
<1>11. SizeExact'
  BY <1>1, <1>3, <1>4, Basics, SizeFrame
<1>12. AgeInv'
  BY <1>1, <1>2, <1>3, <1>4, <1>6 DEF AgeInv, FreshMetadata
<1>13. QED
  BY <1>4, <1>7, <1>8, <1>9, <1>10, <1>11, <1>12

(* CMDAccessor::GetImdObj puts what it fetched into the cache; the key is
   never taken. *)
LEMMA InsertStep == ASSUME CacheInv, Insert  PROVE CacheInv'
<1> USE DEF CacheInv
<1>0. PICK f, k, b : f = fetched /\ k = Last(fetch) /\ b = Bucket[k]
  OBVIOUS
<1>1. /\ pc \notin {"idle", "run"} /\ fetch # <<>> /\ m_pcache /\ f # None /\ fetched # None
      /\ key[f] = k /\ k \notin Ctas /\ f \in alive /\ f \notin Cached /\ f \notin local
      /\ k \in Key /\ k \in ToSet(fetch) /\ b \in BucketIdx /\ f \in Object /\ f \notin old
  BY <1>0, Basics, CacheAssumption DEF Insert, FetchInv, AgeInv, BucketIdx
<1>2. (\A o \in local : key[o] # k) /\ (\A o \in Cached : key[o] # k)
  BY <1>1 DEF FetchInv
<1>3. ~InLocal(k) /\ Find(k) = None
  BY <1>1, <1>2, FindFinds DEF InLocal
<1>4. /\ pc' = "run" /\ fetch' = Front(fetch) /\ fetched' = None
      /\ local' = local \cup {f}
      /\ chain' = [chain EXCEPT ![b] = <<f>> \o @]
      /\ m_cache_size' = m_cache_size + Bytes[k]
      /\ refs' = [refs EXCEPT ![f] = 2] /\ counter' = [counter EXCEPT ![f] = ClockInit]
      /\ retry' = 0 /\ freed' = 0 /\ goal' = 0
      /\ UNCHANGED <<m_pcache, m_bucket_idx, m_clock_hand_advanced, m_cache_quota, changed, since,
                     key, alive, old>>
  BY <1>0, <1>1, <1>3 DEF Insert, NoEviction
<1>6. /\ fetch' \in Seq(Key) /\ IsInjective(fetch')
      /\ ToSet(fetch') = ToSet(fetch) \ {k} /\ ToSet(fetch') \subseteq Key
  BY <1>0, <1>1, <1>4, FrontCut, SeqFacts DEF ShapeInv, FetchInv
<1>7. /\ chain[b] \in Seq(Element) /\ IsInjective(chain[b]) /\ f \in Element /\ f \notin ToSet(chain[b])
      /\ chain \in [BucketIdx -> Seq(Element)] /\ f # Invalid
  BY <1>1, Objects, CachedIs DEF ChainInv, Table, Element, Entries
<1>8. /\ <<f>> \o chain[b] \in Seq(Element) /\ IsInjective(<<f>> \o chain[b])
      /\ ToSet(<<f>> \o chain[b]) = ToSet(chain[b]) \cup {f}
  BY <1>7, PutFront
<1>9. /\ chain' \in [BucketIdx -> Seq(Element)]
      /\ \A d \in BucketIdx : chain'[d] = IF d = b THEN <<f>> \o chain[b] ELSE chain[d]
  BY <1>1, <1>4, <1>7, <1>8
<1>10. \A d \in BucketIdx : /\ ToSet(chain'[d]) = IF d = b THEN ToSet(chain[d]) \cup {f} ELSE ToSet(chain[d])
                            /\ Entries(chain'[d]) = IF d = b THEN Entries(chain[d]) \cup {f} ELSE Entries(chain[d])
                            /\ IsInjective(chain'[d])
  <2> SUFFICES ASSUME NEW d \in BucketIdx
               PROVE  /\ ToSet(chain'[d]) = IF d = b THEN ToSet(chain[d]) \cup {f} ELSE ToSet(chain[d])
                      /\ Entries(chain'[d]) = IF d = b THEN Entries(chain[d]) \cup {f} ELSE Entries(chain[d])
                      /\ IsInjective(chain'[d])
    OBVIOUS
  <2>1. chain'[d] = IF d = b THEN <<f>> \o chain[b] ELSE chain[d]
    BY <1>9
  <2>2. IsInjective(chain[d])
    BY DEF ChainInv, Table
  <2>3. CASE d = b
    <3>1. ToSet(chain'[d]) = ToSet(chain[d]) \cup {f} /\ IsInjective(chain'[d])
      BY <1>8, <2>1, <2>3
    <3>2. QED
      BY <1>7, <2>3, <3>1 DEF Entries
  <2>4. CASE d # b
    <3>1. chain'[d] = chain[d]
      BY <2>1, <2>4
    <3>2. QED
      BY <2>2, <2>4, <3>1
  <2>5. QED
    BY <2>3, <2>4
<1>11. Cached' = Cached \cup {f}
  <2>1. Cached = {o \in Object : \E d \in BucketIdx : o \in Entries(chain[d])}
    BY <1>7, CachedIs
  <2>2. Cached' = {o \in Object : \E d \in BucketIdx : o \in Entries(chain'[d])}
    <3>1. \A d \in BucketIdx : \A o : Contains(chain'[d], o) <=> o \in ToSet(chain'[d])
      BY <1>9, SeqFacts
    <3>2. QED
      BY <3>1, Objects DEF Cached, Entries
  <2>3. QED
    BY <1>1, <1>10, <2>1, <2>2
<1>12. ChainInv'
  <2>1. Table(chain, m_bucket_idx)'
    <3>1. \A d \in BucketIdx : Invalid \in ToSet(chain'[d]) => Invalid \in ToSet(chain[d])
      BY <1>7, <1>10
    <3>2. \A d \in BucketIdx : Invalid \in ToSet(chain[d]) => d = m_bucket_idx
      BY DEF ChainInv, Table
    <3>3. m_bucket_idx' = m_bucket_idx
      BY <1>4
    <3>4. QED
      BY <1>9, <1>10, <3>1, <3>2, <3>3 DEF Table
  <2>2. \A d \in BucketIdx : \A o \in Entries(chain'[d]) : o \in alive /\ key[o] \in Key \ Ctas /\ Bucket[key[o]] = d
    <3>1. f \in alive /\ key[f] \in Key \ Ctas /\ Bucket[key[f]] = b
      BY <1>0, <1>1
    <3>2. \A d \in BucketIdx : \A o \in Entries(chain[d]) : o \in alive /\ key[o] \in Key \ Ctas /\ Bucket[key[o]] = d
      BY DEF ChainInv
    <3>3. \A d \in BucketIdx : \A o \in Entries(chain'[d]) : o \in Entries(chain[d]) \/ (o = f /\ d = b)
      BY <1>10
    <3>4. QED
      BY <3>1, <3>2, <3>3
  <2>3. \A o, p \in Cached' : key[o] = key[p] => o = p
    BY <1>1, <1>2, <1>11 DEF ChainInv
  <2>4. m_clock_hand_advanced => Invalid \in ToSet(chain'[m_bucket_idx])
    BY <1>10 DEF ChainInv
  <2>5. QED
    BY <1>1, <1>4, <2>1, <2>2, <2>3, <2>4 DEF ChainInv
<1>13. Bytes[k] \in Nat /\ \A o \in Cached : Bytes[key[o]] \in Nat
  BY <1>1, CacheAssumption, Basics DEF ShapeInv
<1>14. SizeExact' /\ m_cache_size' \in Nat
  <2> DEFINE g == [o \in Cached |-> Bytes[key[o]]]
             h == [o \in Cached \cup {f} |-> Bytes[key[o]]]
  <2>1. IsFiniteSet(Cached)
    BY <1>7, CachedIs
  <2>2. g \in [Cached -> Nat] /\ h \in [Cached \cup {f} -> Nat] /\ h[f] = Bytes[k] /\ \A o \in Cached : h[o] = g[o]
    BY <1>1, <1>13
  <2> HIDE DEF g, h
  <2>3. SumFunction(h) = SumFunction(g) + h[f] /\ SumFunction(g) \in Nat
    <3>1. f \notin Cached
      BY <1>1
    <3>2. QED
      BY <2>1, <2>2, <3>1, SumInsert
  <2>4. m_cache_size = SumFunction(g)
    BY DEF SizeExact, g
  <2>5. [o \in Cached' |-> Bytes[key'[o]]] = h
    BY <1>4, <1>11 DEF h
  <2>6. QED
    <3>1. m_cache_size' = SumFunction(g) + h[f] /\ h[f] \in Nat
      BY <1>4, <1>13, <2>2, <2>4
    <3>2. m_cache_size' = SumFunction(h) /\ m_cache_size' \in Nat
      BY <2>3, <3>1
    <3>3. QED
      BY <2>5, <3>2 DEF SizeExact
<1>15. ShapeInv'
  <2>1. refs' \in [Object -> Nat] /\ counter' \in [Object -> 0 .. ClockInit]
    <3>1. refs \in [Object -> Nat] /\ counter \in [Object -> 0 .. ClockInit] /\ ClockInit \in 0 .. ClockInit
      BY CacheAssumption DEF ShapeInv, CacheTypeOK
    <3>2. refs' = [refs EXCEPT ![f] = 2] /\ counter' = [counter EXCEPT ![f] = ClockInit]
      BY <1>4
    <3>3. QED
      BY <3>1, <3>2
  <2>2. local' \subseteq Object
    BY <1>1, <1>4 DEF ShapeInv, CacheTypeOK
  <2>3. \A d \in BucketIdx : ToSet(chain'[d]) \subseteq Object \cup {Invalid}
    BY <1>9, SeqFacts DEF Element
  <2>4. 0 \in 0 .. ClockInit + 1 /\ 0 \in Nat /\ 0 \in Int
    BY CacheAssumption
  <2>5. QED
    BY <1>1, <1>4, <1>6, <1>14, <2>1, <2>2, <2>3, <2>4 DEF ShapeInv, CacheTypeOK
<1>16. LocalInv'
  BY <1>0, <1>1, <1>2, <1>4 DEF LocalInv
<1>17. FetchInv'
  BY <1>0, <1>1, <1>4, <1>6, <1>11 DEF FetchInv, NoAccessor
<1>18. RefsMatchOwners'
  <2>1. CachePin(f)' = 1 /\ FetchPin(f)' = 0 /\ LocalPin(f)' = 1
    BY <1>1, <1>4, <1>11 DEF CachePin, FetchPin, LocalPin
  <2>2. \A p \in alive : p # f => CachePin(p)' = CachePin(p) /\ FetchPin(p)' = FetchPin(p) /\ LocalPin(p)' = LocalPin(p)
    BY <1>0, <1>4, <1>11, Basics, Objects DEF CachePin, FetchPin, LocalPin
  <2>3. \A p \in alive : refs[p] = CachePin(p) + LocalPin(p) + FetchPin(p)
    BY Refs
  <2>4. refs'[f] = 2 /\ \A p \in alive : p # f => refs'[p] = refs[p]
    BY <1>1, <1>4, Basics DEF ShapeInv, CacheTypeOK
  <2>5. \A p \in alive' : refs'[p] = CachePin(p)' + LocalPin(p)' + FetchPin(p)'
    <3>1. refs'[f] = CachePin(f)' + LocalPin(f)' + FetchPin(f)'
      BY <2>1, <2>4
    <3>2. \A p \in alive : p # f => refs'[p] = CachePin(p)' + LocalPin(p)' + FetchPin(p)'
      BY <2>2, <2>3, <2>4
    <3>3. QED
      BY <1>4, <3>1, <3>2
  <2>6. QED
    BY <2>5, Refs
<1>19. AgeInv'
  <2>1. FreshMetadata'
    BY <1>1, <1>4 DEF AgeInv, FreshMetadata
  <2>2. None \notin old /\ (changed => since) /\ (~changed => Cached' \cap old = {})
    BY <1>1, <1>11, Basics, Objects DEF AgeInv
  <2>3. QED
    BY <1>4, <2>1, <2>2 DEF AgeInv
<1>20. QED
  BY <1>12, <1>14, <1>15, <1>16, <1>17, <1>18, <1>19

(* What is destroyed is forgotten; the rest stays as it is. *)
LEMMA DestroyIs ==
    ASSUME ShapeInv, NEW D, NEW now \in [Object -> Nat], Destroy(D, now)
    PROVE  /\ alive' = alive \ D /\ old' = old \ D
           /\ \A o \in Object : o \notin D => refs'[o] = now[o] /\ key'[o] = key[o]
           /\ refs' \in [Object -> Nat] /\ key' \in [Object -> Key \cup {None}]
           /\ counter' \in [Object -> 0 .. ClockInit]
BY CacheAssumption DEF Destroy, ShapeInv, CacheTypeOK

(* A table with other chains has the objects that are in them. *)
LEMMA CachedNext ==
    ASSUME chain' \in [BucketIdx -> Seq(Element)]
    PROVE  /\ Cached' = {o \in Object : \E b \in BucketIdx : o \in Entries(chain'[b])}
           /\ \A b \in BucketIdx : ToSet(chain'[b]) \subseteq Object \cup {Invalid}
<1>1. \A b \in BucketIdx : \A o : Contains(chain'[b], o) <=> o \in ToSet(chain'[b])
  BY SeqFacts
<1>2. \A b \in BucketIdx : ToSet(chain'[b]) \subseteq Object \cup {Invalid}
  BY SeqFacts DEF Element
<1>3. QED
  BY <1>1, <1>2, Objects DEF Cached, Entries

(* The hand points at an entry of its chain, or at none. *)
LEMMA ValueIs ==
    ASSUME NEW c \in Seq(Element), IsInjective(c), Invalid \in ToSet(c), Value(c) # None
    PROVE  /\ Value(c) \in Entries(c)
           /\ Hand(c) + 1 \in DOMAIN c /\ c[Hand(c) + 1] = Value(c)
<1> DEFINE p == Hand(c)
<1>1. p \in DOMAIN c /\ c[p] = Invalid /\ DOMAIN c = 1 .. Len(c) /\ Len(c) \in Nat
  BY HandPlace, SeqFacts
<1>2. p < Len(c) /\ Value(c) = c[p + 1]
  BY DEF Value
<1> HIDE DEF p
<1>3. p + 1 \in DOMAIN c /\ p + 1 # p
  BY <1>1, <1>2
<1>4. c[p + 1] # Invalid
  BY <1>1, <1>3 DEF IsInjective
<1>5. QED
  BY <1>2, <1>3, <1>4 DEF Entries, ToSet, p

(* The hand moves and nothing else in the table changes. *)
LEMMA HandStep ==
    ASSUME CacheInv, NEW h, SameEntries(h, chain), h.idx \in BucketIdx,
           chain' = h.ch, m_bucket_idx' = h.idx, UNCHANGED <<m_pcache, key, alive, m_cache_size>>
    PROVE  Cached' = Cached /\ ChainInv' /\ SizeExact'
           /\ \A b \in BucketIdx : ToSet(chain'[b]) \subseteq Object \cup {Invalid}
<1> USE DEF CacheInv
<1>1. /\ Table(chain', m_bucket_idx') /\ Invalid \in ToSet(chain'[m_bucket_idx'])
      /\ \A b \in BucketIdx : Entries(chain'[b]) = Entries(chain[b])
  BY DEF SameEntries
<1>2. chain' \in [BucketIdx -> Seq(Element)] /\ chain \in [BucketIdx -> Seq(Element)]
  BY <1>1 DEF Table, ChainInv
<1>3. Cached' = Cached
  BY <1>1, <1>2, CachedNext, CachedIs
<1>4. Table(chain, m_bucket_idx)'
  BY <1>1 DEF Table
<1>5. ChainInv'
  BY <1>1, <1>3, <1>4 DEF ChainInv
<1>6. QED
  BY <1>2, <1>3, <1>5, CachedNext, SizeFrame

(* EvictEntriesOnePass removes only an entry that nobody else refers to. *)
LEMMA EvictStep == ASSUME CacheInv, EvictEntriesOnePass  PROVE CacheInv'
<1> USE DEF CacheInv
<1>0. PICK h : h = HandNext
  OBVIOUS
<1>1. PICK c, o : c = h.ch[h.idx] /\ o = Value(c)
  OBVIOUS
<1>2. /\ pc = "evict" /\ h.idx < NumBuckets /\ m_bucket_idx' = h.idx
      /\ IF o # None /\ Evictable(o)
              THEN /\ chain' = [h.ch EXCEPT ![h.idx] = RemoveAt(c, Hand(c) + 1)]
                   /\ m_clock_hand_advanced' = TRUE
                   /\ m_cache_size' = m_cache_size - Bytes[key[o]]
                   /\ freed' = freed + Bytes[key[o]]
                   /\ Destroy({o}, refs)
              ELSE /\ chain' = h.ch
                   /\ m_clock_hand_advanced' = FALSE
                   /\ counter' = IF o # None THEN CountDown(o) ELSE counter
                   /\ UNCHANGED <<m_cache_size, freed, key, refs, alive, old>>
      /\ UNCHANGED <<m_pcache, m_cache_quota, local, fetch, fetched, pc, retry, goal, changed, since>>
  BY <1>0, <1>1 DEF EvictEntriesOnePass
<1>3. SameEntries(h, chain)
  BY <1>0, HandMoves DEF ChainInv
<1>4. PICK i : i = h.idx
  OBVIOUS
<1>5. /\ i \in BucketIdx /\ i \in 0 .. NumBuckets /\ h.ch \in [BucketIdx -> Seq(Element)]
      /\ c \in Seq(Element) /\ IsInjective(c) /\ Invalid \in ToSet(c)
      /\ \A b \in BucketIdx : Entries(h.ch[b]) = Entries(chain[b])
      /\ \A b \in BucketIdx : IsInjective(h.ch[b]) /\ (Invalid \in ToSet(h.ch[b]) => b = i)
  BY <1>1, <1>2, <1>3, <1>4, Buckets DEF SameEntries, Table
<1>6. o # None => /\ o \in Entries(c) /\ o \in Cached /\ o \in alive /\ o \in Object
                  /\ key[o] \in Key /\ Bucket[key[o]] = i
                  /\ Hand(c) + 1 \in DOMAIN c /\ c[Hand(c) + 1] = o
  <2> SUFFICES ASSUME o # None
               PROVE  /\ o \in Entries(c) /\ o \in Cached /\ o \in alive /\ o \in Object
                      /\ key[o] \in Key /\ Bucket[key[o]] = i
                      /\ Hand(c) + 1 \in DOMAIN c /\ c[Hand(c) + 1] = o
    OBVIOUS
  <2>1. o \in Entries(c) /\ Hand(c) + 1 \in DOMAIN c /\ c[Hand(c) + 1] = o
    BY <1>1, <1>5, ValueIs
  <2>2. o \in Entries(chain[i])
    BY <1>1, <1>4, <1>5, <2>1
  <2>3. o \in Cached /\ o \in Object
    BY <1>5, <2>2, CachedIs DEF ChainInv, Table
  <2>4. QED
    BY <1>5, <2>1, <2>2, <2>3 DEF ChainInv
<1>7. CASE ~(o # None /\ Evictable(o))
  <2>1. /\ chain' = h.ch /\ m_clock_hand_advanced' = FALSE
        /\ counter' = IF o # None THEN CountDown(o) ELSE counter
        /\ UNCHANGED <<m_cache_size, freed, key, refs, alive, old>>
    BY <1>2, <1>7
  <2>2. /\ Cached' = Cached /\ ChainInv' /\ SizeExact'
        /\ \A b \in BucketIdx : ToSet(chain'[b]) \subseteq Object \cup {Invalid}
    BY <1>2, <1>3, <1>4, <1>5, <2>1, HandStep
  <2>3. counter' \in [Object -> 0 .. ClockInit]
    <3>1. counter \in [Object -> 0 .. ClockInit] /\ ClockInit \in Nat
      BY CacheAssumption DEF ShapeInv, CacheTypeOK
    <3>2. CASE o # None
      <4>1. counter' = [counter EXCEPT ![o] = IF counter[o] = 0 THEN 0 ELSE counter[o] - 1]
        BY <2>1, <3>2 DEF CountDown
      <4>2. counter[o] \in 0 .. ClockInit
        BY <1>6, <3>1, <3>2
      <4>3. (IF counter[o] = 0 THEN 0 ELSE counter[o] - 1) \in 0 .. ClockInit
        BY <3>1, <4>2
      <4>4. QED
        BY <3>1, <4>1, <4>3
    <3>3. QED
      BY <2>1, <3>1, <3>2
  <2>4. ShapeInv'
    BY <1>2, <1>4, <1>5, <2>1, <2>2, <2>3 DEF ShapeInv, CacheTypeOK
  <2>5. LocalInv' /\ FetchInv' /\ AgeInv'
    BY <1>2, <2>1, <2>2 DEF LocalInv, FetchInv, NoAccessor, AgeInv, FreshMetadata
  <2>6. RefsMatchOwners'
    BY <1>2, <2>1, <2>2, OwnersFrame
  <2>7. QED
    BY <2>2, <2>4, <2>5, <2>6
<1>8. CASE o # None /\ Evictable(o)
  <2>1. PICK n : n = RemoveAt(c, Hand(c) + 1)
    OBVIOUS
  <2>2. /\ chain' = [h.ch EXCEPT ![i] = n] /\ m_clock_hand_advanced' = TRUE
        /\ m_cache_size' = m_cache_size - Bytes[key[o]] /\ freed' = freed + Bytes[key[o]]
        /\ Destroy({o}, refs)
    BY <1>2, <1>4, <1>8, <2>1
  <2>3. n \in Seq(Element) /\ IsInjective(n) /\ ToSet(n) = ToSet(c) \ {o}
    BY <1>5, <1>6, <1>8, <2>1, Cut
  <2>4. o \in Cached /\ o \in alive /\ o \in Object /\ key[o] \in Key /\ Bucket[key[o]] = i /\ o # Invalid
    BY <1>6, <1>8, Objects
  <2>5. /\ chain' \in [BucketIdx -> Seq(Element)]
        /\ \A b \in BucketIdx : chain'[b] = IF b = i THEN n ELSE h.ch[b]
    BY <1>5, <2>2, <2>3
  <2>6. \A b \in BucketIdx : o \in Entries(chain[b]) => b = i
    BY <2>4 DEF ChainInv
  <2>7. \A b \in BucketIdx : /\ Entries(chain'[b]) = Entries(chain[b]) \ {o}
                             /\ IsInjective(chain'[b])
                             /\ Invalid \in ToSet(chain'[b]) <=> Invalid \in ToSet(h.ch[b])
    <3> SUFFICES ASSUME NEW b \in BucketIdx
                 PROVE  /\ Entries(chain'[b]) = Entries(chain[b]) \ {o}
                        /\ IsInjective(chain'[b])
                        /\ Invalid \in ToSet(chain'[b]) <=> Invalid \in ToSet(h.ch[b])
      OBVIOUS
    <3>1. CASE b = i
      <4>1. chain'[b] = n /\ h.ch[b] = c
        BY <1>1, <1>4, <2>5, <3>1
      <4>2. Entries(n) = Entries(c) \ {o}
        BY <2>3 DEF Entries
      <4>3. QED
        BY <1>5, <2>3, <2>4, <4>1, <4>2
    <3>2. CASE b # i
      <4>1. chain'[b] = h.ch[b]
        BY <2>5, <3>2
      <4>2. o \notin Entries(chain[b])
        BY <2>6, <3>2
      <4>3. QED
        BY <1>5, <4>1, <4>2
    <3>3. QED
      BY <3>1, <3>2
  <2>8. Cached' = Cached \ {o}
    <3>1. Cached = {p \in Object : \E b \in BucketIdx : p \in Entries(chain[b])}
      BY CachedIs DEF ChainInv, Table
    <3>2. Cached' = {p \in Object : \E b \in BucketIdx : p \in Entries(chain'[b])}
      BY <2>5, CachedNext
    <3>3. QED
      BY <2>7, <3>1, <3>2
  <2>9. /\ alive' = alive \ {o} /\ old' = old \ {o}
        /\ \A p \in Object : p # o => refs'[p] = refs[p] /\ key'[p] = key[p]
        /\ refs' \in [Object -> Nat] /\ key' \in [Object -> Key \cup {None}]
        /\ counter' \in [Object -> 0 .. ClockInit]
    <3>1. refs \in [Object -> Nat]
      BY DEF ShapeInv, CacheTypeOK
    <3>2. /\ alive' = alive \ {o} /\ old' = old \ {o}
          /\ \A p \in Object : p \notin {o} => refs'[p] = refs[p] /\ key'[p] = key[p]
          /\ refs' \in [Object -> Nat] /\ key' \in [Object -> Key \cup {None}]
          /\ counter' \in [Object -> 0 .. ClockInit]
      BY <2>2, <3>1, DestroyIs
    <3>3. QED
      BY <3>2
  <2>10. o \notin local /\ o # fetched
    <3>1. refs[o] = 1 /\ CachePin(o) = 1
      BY <1>8, <2>4 DEF Evictable, CachePin
    <3>2. refs[o] = CachePin(o) + LocalPin(o) + FetchPin(o)
      BY <2>4, Refs
    <3>3. /\ LocalPin(o) \in {0, 1} /\ (o \in local => LocalPin(o) = 1)
          /\ FetchPin(o) \in {0, 1} /\ (o = fetched => FetchPin(o) = 1)
      BY DEF LocalPin, FetchPin
    <3>4. QED
      BY <3>1, <3>2, <3>3
  <2>12. ChainInv'
    <3>1. Table(chain, m_bucket_idx)'
      BY <1>2, <1>4, <1>5, <2>5, <2>7 DEF Table
    <3>2. Invalid \in ToSet(chain'[m_bucket_idx'])
      BY <1>1, <1>2, <1>4, <1>5, <2>7
    <3>3. \A b \in BucketIdx : \A p \in Entries(chain'[b]) :
            p \in alive' /\ key'[p] \in Key \ Ctas /\ Bucket[key'[p]] = b
      <4>1. \A b \in BucketIdx : \A p \in Entries(chain[b]) :
              p \in Object /\ p \in alive /\ key[p] \in Key \ Ctas /\ Bucket[key[p]] = b
        BY Basics DEF ChainInv
      <4>2. QED
        BY <2>7, <2>9, <4>1
    <3>4. \A p, q \in Cached' : key'[p] = key'[q] => p = q
      <4>1. \A p \in Cached' : p \in Cached /\ key'[p] = key[p]
        BY <2>8, <2>9, Basics
      <4>2. QED
        BY <4>1 DEF ChainInv
    <3>5. ~m_pcache' => Cached' = {}
      BY <1>2, <2>8 DEF ChainInv
    <3>6. m_bucket_idx' \in BucketIdx
      BY <1>2, <1>4, <1>5
    <3>7. QED
      BY <3>1, <3>2, <3>3, <3>4, <3>5, <3>6 DEF ChainInv
  <2>13. SizeExact' /\ m_cache_size' \in Nat
    <3> DEFINE g == [p \in Cached \ {o} |-> Bytes[key[p]]]
               f == [p \in (Cached \ {o}) \cup {o} |-> Bytes[key[p]]]
    <3>1. IsFiniteSet(Cached \ {o})
      BY CachedIs, FS_Subset DEF ChainInv, Table
    <3>2. \A p \in Cached : Bytes[key[p]] \in Nat
      BY Basics, CacheAssumption DEF ShapeInv
    <3>3. /\ g \in [Cached \ {o} -> Nat] /\ f \in [(Cached \ {o}) \cup {o} -> Nat]
          /\ f[o] = Bytes[key[o]] /\ \A p \in Cached \ {o} : f[p] = g[p]
      BY <2>4, <3>2
    <3>4. (Cached \ {o}) \cup {o} = Cached
      BY <2>4
    <3>5. m_cache_size = SumFunction(f)
      BY <3>4 DEF SizeExact
    <3>6. [p \in Cached' |-> Bytes[key'[p]]] = g
      <4>1. \A p \in Cached \ {o} : key'[p] = key[p]
        BY <2>9, Basics
      <4>2. QED
        BY <2>8, <4>1
    <3> HIDE DEF f, g
    <3>7. SumFunction(f) = SumFunction(g) + f[o] /\ SumFunction(g) \in Nat
      <4>1. o \notin Cached \ {o}
        OBVIOUS
      <4>2. QED
        BY <3>1, <3>3, <4>1, SumInsert
    <3>8. f[o] \in Nat
      BY <2>4, <3>2, <3>3
    <3>9. m_cache_size' = SumFunction(g)
      BY <2>2, <3>3, <3>5, <3>7, <3>8
    <3>10. QED
      BY <3>6, <3>7, <3>9 DEF SizeExact
  <2>14. ShapeInv'
    <3>1. freed' \in Nat
      <4>1. freed \in Nat /\ Bytes[key[o]] \in Nat
        BY <2>4, CacheAssumption DEF ShapeInv, CacheTypeOK
      <4>2. QED
        BY <2>2, <4>1
    <3>2. \A b \in BucketIdx : ToSet(chain'[b]) \subseteq Object \cup {Invalid}
      BY <2>5, CachedNext
    <3>3. \A p \in alive' : key'[p] \in Key
      BY <2>9, Basics DEF ShapeInv
    <3>4. alive' \subseteq Object /\ old' \subseteq Object
      BY <2>9 DEF ShapeInv, CacheTypeOK
    <3>5. QED
      BY <1>2, <1>4, <1>5, <2>2, <2>9, <2>13, <3>1, <3>2, <3>3, <3>4 DEF ShapeInv, CacheTypeOK
  <2>15. \A p \in local : p \in alive' /\ key'[p] = key[p]
    BY <2>9, <2>10, Basics
  <2>16. LocalInv'
    BY <1>2, <2>15 DEF LocalInv
  <2>17. FetchInv'
    <3>1. \A p \in Cached' : p \in Cached /\ key'[p] = key[p]
      BY <2>8, <2>9, Basics
    <3>2. \A q \in ToSet(fetch) : (\A p \in local : key'[p] # q) /\ (\A p \in Cached' : key'[p] # q)
      BY <2>15, <3>1 DEF FetchInv
    <3>3. fetched # None => fetched \in alive' /\ key'[fetched] = key[fetched] /\ fetched \notin Cached'
      BY <2>8, <2>9, <2>10, Basics DEF FetchInv
    <3>4. QED
      BY <1>2, <3>2, <3>3 DEF FetchInv, NoAccessor
  <2>18. RefsMatchOwners'
    <3>1. \A p \in alive' : p # o /\ p \in alive /\ refs'[p] = refs[p]
      BY <2>9, Basics
    <3>2. \A p \in alive' : CachePin(p)' = CachePin(p) /\ LocalPin(p)' = LocalPin(p) /\ FetchPin(p)' = FetchPin(p)
      BY <1>2, <2>8, <3>1 DEF CachePin, LocalPin, FetchPin
    <3>3. \A p \in alive : refs[p] = CachePin(p) + LocalPin(p) + FetchPin(p)
      BY Refs
    <3>4. \A p \in alive' : refs'[p] = CachePin(p)' + LocalPin(p)' + FetchPin(p)'
      BY <3>1, <3>2, <3>3
    <3>5. QED
      BY <3>4, Refs
  <2>19. AgeInv'
    BY <1>2, <2>8, <2>9 DEF AgeInv, FreshMetadata
  <2>20. QED
    BY <2>12, <2>13, <2>14, <2>16, <2>17, <2>18, <2>19
<1>9. QED
  BY <1>7, <1>8

(* The hand has left the table and starts over. *)
LEMMA RewindStep == ASSUME CacheInv, Rewind  PROVE CacheInv'
<1> USE DEF CacheInv
<1>0. PICK h : h = HandNext
  OBVIOUS
<1>1. /\ pc = "evict" /\ h.idx = NumBuckets /\ chain' = h.ch /\ m_bucket_idx' = 0 /\ retry' = retry + 1
      /\ pc' \in {"evict", "evicted"} /\ (pc' = "evict" => retry' < ClockInit + 1)
      /\ UNCHANGED <<m_pcache, m_clock_hand_advanced, objects, m_cache_size, m_cache_quota,
                     local, fetch, fetched, freed, goal, history>>
  BY <1>0 DEF Rewind
<1>2. UNCHANGED <<key, refs, counter, alive, changed, old, since>>
  BY <1>1 DEF objects, history
<1>3. SameEntries(h, chain)
  BY <1>0, HandMoves DEF ChainInv
<1>4. ~m_clock_hand_advanced
  <2> SUFFICES ASSUME m_clock_hand_advanced  PROVE FALSE
    BY DEF ShapeInv, CacheTypeOK
  <2>1. h = [idx |-> m_bucket_idx, ch |-> chain]
    BY <1>0 DEF HandNext
  <2>2. NumBuckets \in BucketIdx
    BY <1>1, <2>1 DEF ChainInv
  <2>3. QED
    BY <2>2, Buckets
<1>5. /\ chain' \in [BucketIdx -> Seq(Element)] /\ \A b \in BucketIdx : IsInjective(chain'[b])
      /\ \A b \in BucketIdx : Invalid \notin ToSet(chain'[b])
      /\ \A b \in BucketIdx : Entries(chain'[b]) = Entries(chain[b])
  BY <1>1, <1>3, Buckets DEF SameEntries, Table
<1>6. Cached' = Cached
  <2>1. Cached = {p \in Object : \E b \in BucketIdx : p \in Entries(chain[b])}
    BY CachedIs DEF ChainInv, Table
  <2>2. Cached' = {p \in Object : \E b \in BucketIdx : p \in Entries(chain'[b])}
    BY <1>5, CachedNext
  <2>3. QED
    BY <1>5, <2>1, <2>2
<1>7. ChainInv'
  <2>1. Table(chain, m_bucket_idx)' /\ m_bucket_idx' \in BucketIdx
    BY <1>1, <1>5, Buckets DEF Table
  <2>2. QED
    BY <1>1, <1>2, <1>4, <1>5, <1>6, <2>1 DEF ChainInv
<1>8. ShapeInv'
  <2>1. retry' \in 0 .. ClockInit + 1 /\ (pc' = "evict" => retry' <= ClockInit)
    BY <1>1, CacheAssumption DEF ShapeInv, CacheTypeOK
  <2>2. m_bucket_idx' \in 0 .. NumBuckets
    BY <1>1, Buckets
  <2>3. \A b \in BucketIdx : ToSet(chain'[b]) \subseteq Object \cup {Invalid}
    BY <1>5, CachedNext
  <2>4. QED
    BY <1>1, <1>2, <2>1, <2>2, <2>3 DEF ShapeInv, CacheTypeOK
<1>9. LocalInv' /\ FetchInv' /\ AgeInv'
  BY <1>1, <1>2, <1>6 DEF LocalInv, FetchInv, NoAccessor, AgeInv, FreshMetadata
<1>10. RefsMatchOwners' /\ SizeExact'
  BY <1>1, <1>2, <1>6, OwnersFrame, SizeFrame
<1>11. QED
  BY <1>7, <1>8, <1>9, <1>10

(* The accessor goes away, then the cache if it is shut down. *)
LEMMA DestroyAccessorStep ==
    ASSUME CacheInv, pc = "run", NEW shutdown \in BOOLEAN,
           DestroyAccessor(shutdown), fetch' = <<>>,
           UNCHANGED <<m_cache_quota, fetched, locals, changed>>
    PROVE  CacheInv'
<1> USE DEF CacheInv
<1>0. PICK now : now = [o \in Object |-> IF o \in local THEN refs[o] - 1 ELSE refs[o]]
  OBVIOUS
<1>1. PICK D : D = {o \in local : now[o] = 0} \cup (IF shutdown THEN Cached ELSE {})
  OBVIOUS
<1>2. /\ local' = {} /\ since' = FALSE /\ pc' = "idle" /\ Destroy(D, now)
      /\ IF shutdown THEN m_pcache' = FALSE /\ EmptyTable ELSE UNCHANGED <<table, m_cache_size>>
  BY <1>0, <1>1 DEF DestroyAccessor
<1>3. /\ local \subseteq alive /\ alive \subseteq Object /\ fetched = None
      /\ Cached \subseteq alive /\ refs \in [Object -> Nat]
      /\ UNCHANGED <<retry, freed, goal>> /\ m_pcache /\ None \notin alive
  BY Basics, Objects DEF ShapeInv, CacheTypeOK, locals, FetchInv
(* what remains of a count is the entry *)
<1>4. \A o \in alive : now[o] = CachePin(o)
  <2> SUFFICES ASSUME NEW o \in alive  PROVE now[o] = CachePin(o)
    OBVIOUS
  <2>1. refs[o] = CachePin(o) + LocalPin(o) + FetchPin(o) /\ CachePin(o) \in {0, 1}
    BY Refs
  <2>2. FetchPin(o) = 0 /\ LocalPin(o) = IF o \in local THEN 1 ELSE 0
    BY <1>3 DEF FetchPin, LocalPin
  <2>3. now[o] = IF o \in local THEN refs[o] - 1 ELSE refs[o]
    BY <1>0, <1>3
  <2>4. QED
    BY <2>1, <2>2, <2>3
<1>5. now \in [Object -> Nat]
  <2>1. \A o \in alive : now[o] \in Nat
    BY <1>4 DEF CachePin
  <2>2. \A o \in Object : o \notin local => now[o] = refs[o]
    BY <1>0
  <2>3. now = [o \in Object |-> now[o]]
    BY <1>0
  <2>4. QED
    BY <1>3, <2>1, <2>2, <2>3
<1>6. \A o \in local : now[o] = 0 => o \notin Cached
  BY <1>3, <1>4 DEF CachePin
<1>7. /\ alive' = alive \ D /\ old' = old \ D
      /\ \A o \in Object : o \notin D => refs'[o] = now[o] /\ key'[o] = key[o]
      /\ refs' \in [Object -> Nat] /\ key' \in [Object -> Key \cup {None}]
      /\ counter' \in [Object -> 0 .. ClockInit]
  BY <1>2, <1>5, DestroyIs
<1>8. /\ Cached' = IF shutdown THEN {} ELSE Cached
      /\ ChainInv' /\ SizeExact' /\ m_cache_size' \in Nat /\ m_bucket_idx' \in 0 .. NumBuckets
      /\ m_clock_hand_advanced' \in BOOLEAN /\ m_pcache' = ~shutdown
      /\ \A b \in BucketIdx : ToSet(chain'[b]) \subseteq Object \cup {Invalid}
  <2>1. CASE shutdown
    BY <1>2, <2>1, EmptyTableStep
  <2>2. CASE ~shutdown
    <3>1. UNCHANGED <<table, m_cache_size>> /\ UNCHANGED <<m_pcache, chain, m_bucket_idx, m_clock_hand_advanced>>
      BY <1>2, <2>2 DEF table
    <3>2. \A o \in Cached : o \in alive' /\ key'[o] = key[o]
      BY <1>1, <1>3, <1>6, <1>7, <2>2
    <3>3. Cached' = Cached /\ ChainInv'
      BY <3>1, <3>2, TableFrame
    <3>4. SizeExact'
      BY <3>1, <3>2, <3>3, SizeFrame
    <3>5. QED
      BY <1>3, <2>2, <3>1, <3>3, <3>4 DEF ShapeInv, CacheTypeOK
  <2>3. QED
    BY <2>1, <2>2
<1>9. ShapeInv'
  <2>1. ToSet(fetch') \subseteq Key /\ fetch' \in Seq(Key)
    BY DEF ToSet
  <2>2. \A o \in alive' : key'[o] \in Key
    BY <1>3, <1>7 DEF ShapeInv
  <2>3. alive' \subseteq Object /\ old' \subseteq Object
    BY <1>3, <1>7 DEF ShapeInv, CacheTypeOK
  <2>4. QED
    BY <1>2, <1>3, <1>7, <1>8, <2>1, <2>2, <2>3 DEF ShapeInv, CacheTypeOK
<1>10. LocalInv' /\ FetchInv'
  <2>1. ToSet(fetch') = {} /\ IsInjective(fetch')
    BY DEF ToSet, IsInjective
  <2>2. QED
    BY <1>2, <1>3, <2>1 DEF LocalInv, FetchInv, NoAccessor
<1>11. RefsMatchOwners'
  <2> SUFFICES ASSUME NEW p \in alive'
               PROVE  refs'[p] = CachePin(p)' + LocalPin(p)' + FetchPin(p)'
    BY Refs
  <2>1. p \in alive /\ p \in Object /\ p \notin D /\ p # None
    BY <1>3, <1>7
  <2>2. refs'[p] = CachePin(p)
    BY <1>4, <1>7, <2>1
  <2>3. FetchPin(p)' = 0 /\ LocalPin(p)' = 0 /\ CachePin(p)' = CachePin(p) /\ CachePin(p) \in Nat
    BY <1>1, <1>2, <1>3, <1>8, <2>1 DEF FetchPin, LocalPin, CachePin
  <2>4. QED
    BY <2>2, <2>3
<1>12. AgeInv'
  BY <1>2, <1>3, <1>7, <1>8 DEF AgeInv, FreshMetadata
<1>13. QED
  BY <1>8, <1>9, <1>10, <1>11, <1>12

(* Before the first optimization there is no cache. *)
LEMMA InitStep == ASSUME Init  PROVE CacheInv
<1>1. /\ m_pcache = FALSE /\ chain = [b \in BucketIdx |-> <<>>]
      /\ key \in [Object -> {None}] /\ refs = [o \in Object |-> 0] /\ counter = [o \in Object |-> 0]
      /\ alive = {} /\ m_cache_size = 0 /\ m_cache_quota = 0
      /\ m_bucket_idx = 0 /\ m_clock_hand_advanced = FALSE
      /\ local = {} /\ fetch = <<>> /\ fetched = None /\ pc = "idle"
      /\ retry = 0 /\ freed = 0 /\ goal = 0 /\ changed = TRUE /\ old = {} /\ since = FALSE
  BY DEF Init
<1>2. /\ <<>> \in Seq(Element) /\ <<>> \in Seq(Key)
      /\ ToSet(<<>>) = {} /\ IsInjective(<<>>) /\ Entries(<<>>) = {} /\ Len(<<>>) = 0 /\ DOMAIN <<>> = {}
  BY DEF ToSet, IsInjective, Entries
<1>3. \A b \in BucketIdx : chain[b] = <<>>
  BY <1>1
<1>4. chain \in [BucketIdx -> Seq(Element)]
  BY <1>1, <1>2
<1>5. Cached = {}
  BY <1>2, <1>3, <1>4, CachedIs
<1>6. ChainInv
  <2>1. Table(chain, m_bucket_idx)
    BY <1>2, <1>3, <1>4 DEF Table
  <2>2. QED
    BY <1>1, <1>2, <1>3, <1>5, <2>1, Buckets DEF ChainInv
<1>7. SizeExact
  <2>1. SumFunction([o \in {} |-> Bytes[key[o]]]) = 0
    BY SumEmpty
  <2>2. QED
    BY <1>1, <1>5, <2>1 DEF SizeExact
<1>8. ShapeInv
  <2>1. 0 \in 0 .. ClockInit + 1 /\ 0 \in 0 .. ClockInit /\ 0 \in 0 .. NumBuckets /\ 0 \in Nat /\ 0 \in Int
    BY CacheAssumption
  <2>2. \A b \in BucketIdx : ToSet(chain[b]) \subseteq Object \cup {Invalid}
    BY <1>2, <1>3
  <2>3. QED
    BY <1>1, <1>2, <2>1, <2>2 DEF ShapeInv, CacheTypeOK
<1>9. LocalInv /\ FetchInv
  BY <1>1, <1>2 DEF LocalInv, FetchInv, NoAccessor
<1>10. RefsMatchOwners
  BY <1>1 DEF RefsMatchOwners
<1>11. AgeInv
  BY <1>1, <1>5 DEF AgeInv, FreshMetadata, None
<1>12. QED
  BY <1>6, <1>7, <1>8, <1>9, <1>10, <1>11 DEF CacheInv

(* Nothing happens. *)
LEMMA StutterStep == ASSUME CacheInv, UNCHANGED vars  PROVE CacheInv'
<1> USE DEF CacheInv
<1>1. /\ UNCHANGED <<table, objects, locals, history>>
      /\ UNCHANGED <<m_pcache, chain, m_bucket_idx, m_clock_hand_advanced, key, refs, counter, alive,
                     m_cache_size, m_cache_quota, local, fetch, fetched, pc, retry, freed, goal, changed, old, since>>
  BY DEF vars, table, objects, locals, history
<1>2. Cached' = Cached /\ ChainInv'
  BY <1>1, Basics, TableFrame
<1>3. ShapeInv' /\ LocalInv' /\ FetchInv' /\ AgeInv'
  BY <1>1, <1>2 DEF ShapeInv, CacheTypeOK, LocalInv, FetchInv, NoAccessor, AgeInv, FreshMetadata
<1>4. RefsMatchOwners' /\ SizeExact'
  BY <1>1, <1>2, OwnersFrame, SizeFrame
<1>5. QED
  BY <1>2, <1>3, <1>4

(* The invariant holds for CCache, CMDCache and CMDAccessor together. *)
THEOREM CacheInductive == CacheSpec => []CacheInv
<1>1. Init => CacheInv
  BY InitStep
<1>2. CacheInv /\ [Next]_vars => CacheInv'
  <2> SUFFICES ASSUME CacheInv, [Next]_vars  PROVE CacheInv'
    OBVIOUS
  <2>1. CASE CatalogChange
    BY <2>1, CatalogChangeStep
  <2>2. ASSUME NEW quota \in Quotas, OptimizeTask(quota)  PROVE CacheInv'
    BY <2>2, OptimizeTaskStep
  <2>3. CASE ConstructAccessor
    BY <2>3, ConstructAccessorStep
  <2>4. ASSUME NEW k \in Key, GetImdObj(k) \/ GetMDObjDXLStr(k)  PROVE CacheInv'
    BY <2>4, GetImdObjStep, FetchStep
  <2>5. CASE ParseCtas
    BY <2>5, ParseCtasStep
  <2>6. CASE ParseDXLToIMDIdCacheObj
    BY <2>6, ParseStep
  <2>7. CASE Insert
    BY <2>7, InsertStep
  <2>8. CASE EvictEntriesOnePass
    BY <2>8, EvictStep
  <2>9. CASE Rewind
    BY <2>9, RewindStep
  <2>10. CASE EvictionDone
    BY <2>10, EvictionDoneStep
  <2>11. ASSUME NEW caching \in BOOLEAN, EndOptimization(caching)  PROVE CacheInv'
    <3>1. /\ pc = "run" /\ fetch = <<>> /\ DestroyAccessor(~caching)
          /\ UNCHANGED <<m_cache_quota, fetch, fetched, locals, changed>>
      BY <2>11 DEF EndOptimization
    <3>2. fetch' = <<>> /\ UNCHANGED <<m_cache_quota, fetched, locals, changed>>
      BY <3>1
    <3>3. (~caching) \in BOOLEAN
      OBVIOUS
    <3>4. QED
      BY <3>1, <3>2, <3>3, DestroyAccessorStep
  <2>12. CASE RaiseException
    <3>1. /\ pc = "run" /\ DestroyAccessor(TRUE) /\ fetch' = <<>>
          /\ UNCHANGED <<m_cache_quota, fetched, locals, changed>>
      BY <2>12 DEF RaiseException
    <3>2. QED
      BY <3>1, DestroyAccessorStep
  <2>13. CASE UNCHANGED vars
    BY <2>13, StutterStep
  <2>14. QED
    BY <2>1, <2>2, <2>3, <2>4, <2>5, <2>6, <2>7, <2>8, <2>9, <2>10, <2>11, <2>12, <2>13 DEF Next
<1>3. QED
  BY <1>1, <1>2, PTL DEF CacheSpec

(* At most one place of a chain without duplicates is the hand. *)
LEMMA OneHand ==
    ASSUME NEW c \in Seq(Element), IsInjective(c)
    PROVE  /\ Cardinality({p \in DOMAIN c : c[p] = Invalid}) <= 1
           /\ Invalid \notin ToSet(c) => Cardinality({p \in DOMAIN c : c[p] = Invalid}) = 0
<1>0. PICK S : S = {p \in DOMAIN c : c[p] = Invalid}
  OBVIOUS
<1>1. /\ Cardinality(S) = 0 \/ Cardinality(S) = 1
      /\ Invalid \notin ToSet(c) => Cardinality(S) = 0
  <2>1. CASE S = {}
    <3>1. Cardinality({}) = 0
      BY FS_EmptySet
    <3>2. Cardinality(S) = 0
      BY <2>1, <3>1
    <3>3. QED
      BY <3>2
  <2>2. CASE S # {}
    <3>1. PICK p : p \in S
      BY <2>2
    <3>2. S = {p}
      BY <1>0, <3>1 DEF IsInjective
    <3>3. Cardinality({p}) = 1
      BY FS_Singleton
    <3>4. Invalid \in ToSet(c)
      BY <1>0, <3>1 DEF ToSet
    <3>5. Cardinality(S) = 1
      BY <3>2, <3>3
    <3>6. QED
      BY <3>4, <3>5
  <2>3. QED
    BY <2>1, <2>2
<1>2. Cardinality(S) <= 1
  <2> DEFINE n == Cardinality(S)
  <2>1. n = 0 \/ n = 1
    BY <1>1
  <2> HIDE DEF n
  <2>2. n <= 1
    BY <2>1
  <2>3. QED
    BY <2>2 DEF n
<1>3. QED
  BY <1>0, <1>1, <1>2

(* What the invariant implies. *)
LEMMA Consequences ==
    CacheInv => CountsInv /\ TableInv /\ FreshMetadata
<1> SUFFICES ASSUME CacheInv  PROVE CountsInv /\ TableInv /\ FreshMetadata
  OBVIOUS
<1> USE DEF CacheInv
<1>1. UsedIsAlive
  BY Basics DEF UsedIsAlive, FetchInv
<1>2. CountsInv
  BY <1>1 DEF CountsInv, ShapeInv
<1>3. UniqueObjects
  <2>1. \A o \in Cached : key[o] \notin Ctas
    <3>1. Cached = UNION {Entries(chain[b]) : b \in BucketIdx}
      BY CachedIs DEF ChainInv, Table
    <3>2. QED
      BY <3>1 DEF ChainInv
  <2>2. QED
    BY <2>1 DEF UniqueObjects, ChainInv, LocalInv
<1>4. HandValid
  <2>1. \A b \in BucketIdx : Cardinality({p \in DOMAIN chain[b] : chain[b][p] = Invalid})
                               <= IF b = m_bucket_idx THEN 1 ELSE 0
    <3> SUFFICES ASSUME NEW b \in BucketIdx
                 PROVE  Cardinality({p \in DOMAIN chain[b] : chain[b][p] = Invalid})
                          <= IF b = m_bucket_idx THEN 1 ELSE 0
      OBVIOUS
    <3>1. chain[b] \in Seq(Element) /\ IsInjective(chain[b]) /\ (Invalid \in ToSet(chain[b]) => b = m_bucket_idx)
      BY DEF ChainInv, Table
    <3>2. /\ Cardinality({p \in DOMAIN chain[b] : chain[b][p] = Invalid}) <= 1
          /\ Invalid \notin ToSet(chain[b]) => Cardinality({p \in DOMAIN chain[b] : chain[b][p] = Invalid}) = 0
      BY <3>1, OneHand
    <3>3. QED
      BY <3>1, <3>2
  <2>2. m_clock_hand_advanced => Inserted
    <3>1. chain[m_bucket_idx] \in Seq(Element)
      BY DEF ChainInv, Table
    <3>2. QED
      BY <3>1, SeqFacts DEF ChainInv, Inserted
  <2>3. QED
    BY <2>1, <2>2 DEF HandValid, ChainInv
<1>5. QED
  BY <1>2, <1>3, <1>4 DEF TableInv, AgeInv

(* CCacheEntry reference counts are exact: what the optimization or the cache
   uses exists, and each count is the number of its owners. *)
THEOREM CountsAreExact == CacheSpec => []CountsInv
BY CacheInductive, Consequences, PTL

(* The hash table of CCache: m_cache_size is the size of its entries, it has
   one entry per key, and the clock hand is where Advance expects it. *)
THEOREM TableStaysIntact == CacheSpec => []TableInv
BY CacheInductive, Consequences, PTL

(* MDCacheNeedsReset and COptTasks::OptimizeTask: no optimization has an
   object from before a change that had happened when it started. *)
THEOREM MetadataIsFresh == CacheSpec => []FreshMetadata
BY CacheInductive, Consequences, PTL

(* When GetImdObj gets to its insertion, the key is free. *)
Vacant == pc = "evicted" /\ fetched # None => Find(key[fetched]) = None /\ ~InLocal(key[fetched])

(* CCache::InsertEntry never finds the key taken, and CMDAccessor never has
   it in its local table by then, whatever nested fetches and evictions
   happened since the lookup. *)
THEOREM InsertNeverCollides == CacheSpec => []Vacant
<1>1. CacheInv => Vacant
  <2> SUFFICES ASSUME CacheInv, pc = "evicted", fetched # None
               PROVE  Find(key[fetched]) = None /\ ~InLocal(key[fetched])
    BY DEF Vacant
  <2>0. PICK k : k = key[fetched]
    OBVIOUS
  <2>1. k \in ToSet(fetch) /\ k \in Key
    BY <2>0, Basics DEF CacheInv, FetchInv
  <2>2. (\A o \in local : key[o] # k) /\ (\A o \in Cached : key[o] # k)
    BY <2>1 DEF CacheInv, FetchInv
  <2>3. Find(k) = None /\ ~InLocal(k)
    BY <2>1, <2>2, FindFinds DEF InLocal
  <2>4. QED
    BY <2>0, <2>3
<1>2. QED
  BY <1>1, CacheInductive, PTL

-----------------------------------------------------------------------------
(* Evictions are thorough. *)

(* an entry o of bucket b is behind a hand in bucket idx, or at most slack
   places before it *)
Seen(ch, idx, slack, b, o) ==
    \/ b < idx
    \/ b = idx /\ \E p, q \in DOMAIN ch[b] : ch[b][p] = Invalid /\ ch[b][q] = o /\ q <= p + slack

(* the entry the hand points at has been looked at unless the hand got there
   by a removal *)
Slack == IF m_clock_hand_advanced THEN 0 ELSE 1

(* o was looked at in this pass of EvictEntriesOnePass *)
Passed(o) == Seen(chain, m_bucket_idx, Slack, Bucket[key[o]], o)

(* Each pass takes one from the counter of an entry, the current one if the
   hand is past it. *)
CountedDown(o) == counter[o] = 0 \/ counter[o] + retry <= ClockInit + (IF Passed(o) THEN 0 ELSE 1)

ThoroughInv ==
    /\ pc = "evict" => \A o \in Cached : CountedDown(o)
    /\ EvictionThorough

(* A hand that has just been put into the table has seen only the chains it
   skipped, and these are empty. *)
LEMMA InsertedHandSees ==
    ASSUME NEW ch, Table(ch, NumBuckets), NEW from \in 0 .. NumBuckets,
           NEW h, h = InsertInvalidElement(ch, from),
           NEW b \in BucketIdx, NEW o \in Object, o \in ToSet(ch[b]), Seen(h.ch, h.idx, 0, b, o)
    PROVE  b < from
<1> DEFINE filled == {d \in from .. NumBuckets - 1 : ch[d] # <<>>}
<1>1. NumBuckets \in Nat /\ from \in Nat /\ b \in Nat /\ b \in 0 .. NumBuckets - 1
  BY Buckets DEF BucketIdx
<1>2. ch[b] \in Seq(Element) /\ ch[b] # <<>>
  <2>1. ch[b] \in Seq(Element)
    BY DEF Table
  <2>2. QED
    BY <2>1, SeqFacts
<1>3. CASE filled = {}
  <2>1. b \notin filled
    BY <1>3
  <2>2. QED
    BY <1>1, <1>2, <2>1
<1>4. CASE filled # {}
  <2> DEFINE m == Min(filled)
             n == [ch EXCEPT ![m] = <<Invalid>> \o @]
  <2>1. h = [idx |-> m, ch |-> n]
    BY <1>4 DEF InsertInvalidElement
  <2>2. filled \subseteq Nat
    BY <1>1
  <2>3. m \in filled /\ \A d \in filled : m <= d
    BY <1>4, <2>2, MinIs
  <2> HIDE DEF m
  <2>4. m \in from .. NumBuckets - 1 /\ m \in BucketIdx
    BY <1>1, <2>3 DEF BucketIdx
  <2>5. CASE b < m
    <3>1. b \notin filled
      BY <1>1, <2>3, <2>4, <2>5
    <3>2. QED
      BY <1>1, <1>2, <3>1
  <2>6. CASE ~(b < m)
    <3>1. b = m /\ \E p, q \in DOMAIN n[b] : n[b][p] = Invalid /\ n[b][q] = o /\ q <= p + 0
      BY <2>1, <2>6 DEF Seen
    <3>2. n[b] = <<Invalid>> \o ch[b]
      BY <2>4, <3>1 DEF Table
    <3>3. PICK c : c = ch[b]
      OBVIOUS
    <3>4. PICK p, q \in DOMAIN (<<Invalid>> \o c) :
            (<<Invalid>> \o c)[p] = Invalid /\ (<<Invalid>> \o c)[q] = o /\ q <= p + 0
      BY <3>1, <3>2, <3>3
    <3> HIDE DEF n, filled
    <3>5. c \in Seq(Element) /\ Invalid \notin ToSet(c)
      <4>1. b # NumBuckets
        BY <1>1
      <4>2. QED
        BY <1>2, <3>3, <4>1 DEF Table
    <3>6. /\ Len(c) \in Nat /\ DOMAIN c = 1 .. Len(c) /\ DOMAIN (<<Invalid>> \o c) = 1 .. Len(c) + 1
          /\ (<<Invalid>> \o c)[1] = Invalid /\ \A i \in 1 .. Len(c) : (<<Invalid>> \o c)[i + 1] = c[i]
      BY <3>5
    <3>7. p = 1
      <4> SUFFICES ASSUME p # 1  PROVE FALSE
        OBVIOUS
      <4>1. p - 1 \in 1 .. Len(c) /\ (p - 1) + 1 = p
        BY <3>4, <3>6
      <4>2. c[p - 1] = Invalid
        BY <3>4, <3>6, <4>1
      <4>3. QED
        BY <3>5, <3>6, <4>1, <4>2 DEF ToSet
    <3>8. q = 1
      BY <3>4, <3>6, <3>7
    <3>9. o = Invalid
      BY <3>4, <3>6, <3>8
    <3>10. QED
      BY <3>9, Objects
  <2>7. QED
    BY <2>5, <2>6
<1>5. QED
  BY <1>3, <1>4

(* Moving the hand lets it pass no entry that was not looked at. *)
LEMMA AdvanceSees ==
    ASSUME ChainInv, NEW h, h = HandNext, NEW b \in BucketIdx, NEW o \in Entries(chain[b]),
           Seen(h.ch, h.idx, 0, b, o)
    PROVE  Seen(chain, m_bucket_idx, Slack, b, o)
<1>0. PICK i : i = m_bucket_idx
  OBVIOUS
<1>1. PICK c : c = chain[i]
  OBVIOUS
<1>2. /\ i \in BucketIdx /\ i \in Nat /\ b \in Nat /\ i \in 0 .. NumBuckets /\ i + 1 \in 0 .. NumBuckets
      /\ c \in Seq(Element) /\ IsInjective(c) /\ Table(chain, i)
      /\ \A d \in BucketIdx : chain[d] \in Seq(Element) /\ IsInjective(chain[d]) /\ (Invalid \in ToSet(chain[d]) => d = i)
  BY <1>0, <1>1, Buckets DEF ChainInv, Table, BucketIdx
<1>3. o \in ToSet(chain[b]) /\ o # Invalid /\ o \in Object
  BY <1>2, SeqFacts DEF Entries, Element
<1>4. Inserted <=> Invalid \in ToSet(c)
  BY <1>0, <1>1, <1>2, SeqFacts DEF Inserted
<1>5. CASE m_clock_hand_advanced
  <2>1. h = [idx |-> i, ch |-> chain] /\ Slack = 0
    BY <1>0, <1>5 DEF HandNext, Slack
  <2>2. QED
    BY <1>0, <2>1
<1>6. CASE ~m_clock_hand_advanced /\ ~Inserted
  <2>1. h = InsertInvalidElement(chain, i)
    BY <1>0, <1>6 DEF HandNext, Advance
  <2>2. Table(chain, NumBuckets)
    BY <1>1, <1>2, <1>4, <1>6 DEF Table
  <2>3. b < i
    BY <1>2, <1>3, <2>1, <2>2, InsertedHandSees
  <2>4. QED
    BY <1>0, <2>3 DEF Seen
<1>7. CASE ~m_clock_hand_advanced /\ Inserted
  <2>0. PICK p : p = Hand(c)
    OBVIOUS
  <2>1. p \in DOMAIN c /\ c[p] = Invalid /\ DOMAIN c = 1 .. Len(c) /\ Len(c) \in Nat /\ Slack = 1
    BY <1>2, <1>4, <1>7, <2>0, HandPlace, SeqFacts DEF Slack
  <2>2. CASE p + 1 < Len(c)
    <3>0. PICK d : d = [c EXCEPT ![p] = c[p + 1], ![p + 1] = Invalid]
      OBVIOUS
    <3>1. h.idx = i /\ h.ch = [chain EXCEPT ![i] = d]
      BY <1>0, <1>1, <1>2, <1>7, <2>0, <2>2, <3>0 DEF HandNext, Advance
    <3>2. CASE b < i
      BY <1>0, <3>2 DEF Seen
    <3>3. CASE ~(b < i)
      <4>1. b = i /\ h.ch[b] = d
        BY <1>2, <3>1, <3>3 DEF Seen, Table
      <4>2. PICK r, q \in DOMAIN d : d[r] = Invalid /\ d[q] = o /\ q <= r + 0
        BY <3>1, <3>3, <4>1 DEF Seen
      <4>3. /\ DOMAIN d = DOMAIN c /\ p + 1 \in DOMAIN c
            /\ d[p] = c[p + 1] /\ d[p + 1] = Invalid /\ \A k \in DOMAIN c : k # p /\ k # p + 1 => d[k] = c[k]
        BY <2>1, <2>2, <3>0
      <4>4. \A k \in DOMAIN c : c[k] = Invalid => k = p
        BY <1>2, <2>1 DEF IsInjective
      <4>5. r = p + 1
        <5>1. c[p + 1] # Invalid
          BY <2>1, <4>3, <4>4
        <5>2. QED
          BY <4>2, <4>3, <4>4, <5>1
      <4>6. q <= p + 1 /\ q # p + 1
        BY <1>3, <2>1, <4>2, <4>3, <4>5
      <4>7. \E k \in DOMAIN c : c[k] = o /\ k <= p + 1
        <5>1. CASE q = p
          BY <2>1, <4>2, <4>3, <5>1
        <5>2. CASE q # p
          <6>1. c[q] = o /\ q \in DOMAIN c
            BY <4>2, <4>3, <4>6, <5>2
          <6>2. QED
            BY <4>6, <6>1
        <5>3. QED
          BY <5>1, <5>2
      <4>8. QED
        BY <1>0, <1>1, <2>1, <4>1, <4>7 DEF Seen
    <3>4. QED
      BY <3>2, <3>3
  <2>3. CASE ~(p + 1 < Len(c))
    <3> DEFINE d == RemoveAt(c, p)
               n == [chain EXCEPT ![i] = d]
    <3>1. h = InsertInvalidElement(n, i + 1)
      BY <1>0, <1>1, <1>2, <1>7, <2>0, <2>3 DEF HandNext, Advance
    <3>2. d \in Seq(Element) /\ IsInjective(d) /\ ToSet(d) = ToSet(c) \ {Invalid}
      BY <1>2, <2>1, Cut
    <3> HIDE DEF d
    <3>3. n \in [BucketIdx -> Seq(Element)] /\ \A e \in BucketIdx : n[e] = IF e = i THEN d ELSE chain[e]
      BY <1>2, <3>2 DEF Table
    <3> HIDE DEF n
    <3>4. Table(n, NumBuckets)
      BY <1>2, <3>2, <3>3 DEF Table
    <3>5. o \in ToSet(n[b])
      BY <1>1, <1>3, <3>2, <3>3
    <3>6. b < i + 1
      BY <1>2, <1>3, <3>1, <3>4, <3>5, InsertedHandSees
    <3>7. CASE b = i
      <4>1. PICK q \in DOMAIN c : c[q] = o
        BY <1>1, <1>3, <3>7 DEF ToSet
      <4>2. q <= p + 1
        BY <2>1, <2>3, <4>1
      <4>3. QED
        BY <1>0, <1>1, <2>1, <3>7, <4>1, <4>2 DEF Seen
    <3>8. CASE b # i
      <4>1. b < i
        BY <1>2, <3>6, <3>8
      <4>2. QED
        BY <1>0, <4>1 DEF Seen
    <3>9. QED
      BY <3>7, <3>8
  <2>4. QED
    BY <2>2, <2>3
<1>8. QED
  BY <1>5, <1>6, <1>7

(* A pass looks at one entry more: if it cannot be removed its counter goes
   down by one. *)
LEMMA EvictThorough ==
    ASSUME CacheInv, ThoroughInv, EvictEntriesOnePass  PROVE ThoroughInv'
<1> USE DEF CacheInv
<1>0. PICK h : h = HandNext
  OBVIOUS
<1>1. PICK i, c, o : i = h.idx /\ c = h.ch[i] /\ o = Value(c)
  OBVIOUS
<1>2. /\ pc = "evict" /\ i < NumBuckets /\ m_bucket_idx' = i /\ pc' = "evict" /\ retry' = retry
      /\ IF o # None /\ Evictable(o)
              THEN /\ chain' = [h.ch EXCEPT ![i] = RemoveAt(c, Hand(c) + 1)]
                   /\ m_clock_hand_advanced' = TRUE
                   /\ Destroy({o}, refs)
              ELSE /\ chain' = h.ch
                   /\ m_clock_hand_advanced' = FALSE
                   /\ counter' = IF o # None THEN CountDown(o) ELSE counter
                   /\ UNCHANGED <<key, refs, alive, old>>
  BY <1>0, <1>1 DEF EvictEntriesOnePass
<1>3. SameEntries(h, chain)
  BY <1>0, HandMoves DEF ChainInv
<1>4. /\ i \in BucketIdx /\ h.ch \in [BucketIdx -> Seq(Element)]
      /\ c \in Seq(Element) /\ IsInjective(c) /\ Invalid \in ToSet(c)
      /\ \A b \in BucketIdx : Entries(h.ch[b]) = Entries(chain[b])
  BY <1>1, <1>2, <1>3, Buckets DEF SameEntries, Table
<1>5. /\ Hand(c) \in DOMAIN c /\ c[Hand(c)] = Invalid /\ DOMAIN c = 1 .. Len(c) /\ Len(c) \in Nat
      /\ \A p \in DOMAIN c : c[p] = Invalid => p = Hand(c)
  BY <1>4, HandPlace, SeqFacts DEF IsInjective
<1>6. CacheInv'
  BY EvictStep
<1>7. chain' \in [BucketIdx -> Seq(Element)] /\ chain \in [BucketIdx -> Seq(Element)]
  BY <1>6 DEF ChainInv, Table
<1>8. counter \in [Object -> 0 .. ClockInit] /\ ClockInit \in Nat /\ retry \in Nat /\ retry <= ClockInit
  BY <1>2, CacheAssumption DEF ShapeInv, CacheTypeOK
<1>9. ASSUME NEW x \in Cached'  PROVE CountedDown(x)'
  <2>0. PICK b : b = Bucket[key'[x]]
    OBVIOUS
  <2>1. x \in Object /\ b \in BucketIdx /\ x \in Entries(chain'[b]) /\ x # Invalid
    <3>1. x \in Object /\ \E d \in BucketIdx : x \in Entries(chain'[d])
      BY <1>7, CachedNext
    <3>2. QED
      BY <2>0, <3>1, <1>6, Objects DEF ChainInv
  <2>2. CASE o # None /\ Evictable(o)
    <3>0. PICK n : n = RemoveAt(c, Hand(c) + 1)
      OBVIOUS
    <3>1. /\ chain' = [h.ch EXCEPT ![i] = n] /\ m_clock_hand_advanced' = TRUE /\ Destroy({o}, refs)
      BY <1>2, <2>2, <3>0
    <3>2. o \in Entries(c) /\ Hand(c) + 1 \in DOMAIN c /\ c[Hand(c) + 1] = o
      BY <1>1, <1>4, <2>2, ValueIs
    <3>3. n \in Seq(Element) /\ IsInjective(n) /\ ToSet(n) = ToSet(c) \ {o}
      BY <1>4, <3>0, <3>2, Cut
    <3>4. /\ DOMAIN n = 1 .. Len(c) - 1
          /\ \A k \in 1 .. Len(c) - 1 : n[k] = IF k < Hand(c) + 1 THEN c[k] ELSE c[k + 1]
      BY <1>4, <3>0, <3>2, CutAt
    <3>5. \A d \in BucketIdx : chain'[d] = IF d = i THEN n ELSE h.ch[d]
      BY <1>4, <3>1, <3>3
    <3>6. x \in Entries(chain[b]) /\ x # o
      <4>1. CASE b = i
        <5>1. x \in ToSet(c) /\ x # o
          BY <2>1, <3>3, <3>5, <4>1 DEF Entries
        <5>2. x \in Entries(h.ch[b])
          BY <1>1, <2>1, <4>1, <5>1 DEF Entries
        <5>3. QED
          BY <1>4, <2>1, <5>1, <5>2
      <4>2. CASE b # i
        <5>1. x \in Entries(chain[b])
          BY <1>4, <2>1, <3>5, <4>2
        <5>2. o \in Entries(chain[i])
          BY <1>1, <1>4, <3>2
        <5>3. x # o
          <6>1. \A d \in BucketIdx : \A y \in Entries(chain[d]) : Bucket[key[y]] = d
            BY DEF ChainInv
          <6>2. Bucket[key[x]] = b /\ Bucket[key[o]] = i
            BY <1>4, <2>1, <5>1, <5>2, <6>1
          <6>3. QED
            BY <4>2, <6>2
        <5>4. QED
          BY <5>1, <5>3
      <4>3. QED
        BY <4>1, <4>2
    <3>7. key'[x] = key[x] /\ counter'[x] = counter[x]
      BY <2>1, <3>1, <3>6 DEF Destroy
    <3>8. x \in Cached /\ counter[x] \in 0 .. ClockInit
      BY <1>7, <1>8, <2>1, <3>6, CachedIs
    <3>9. Passed(x)' => Passed(x)
      <4> SUFFICES ASSUME Seen(chain', i, 0, b, x)  PROVE Seen(chain, m_bucket_idx, Slack, b, x)
        BY <1>2, <2>0, <3>1, <3>7 DEF Passed, Slack
      <4>1. Seen(h.ch, i, 0, b, x)
        <5>1. CASE b < i
          BY <5>1 DEF Seen
        <5>2. CASE ~(b < i)
          <6>1. b = i /\ chain'[b] = n /\ h.ch[b] = c
            BY <1>1, <1>4, <3>5, <5>2 DEF Seen
          <6>2. PICK p, q \in DOMAIN n : n[p] = Invalid /\ n[q] = x /\ q <= p + 0
            BY <5>2, <6>1 DEF Seen
          <6>3. p = Hand(c)
            <7>1. CASE p < Hand(c) + 1
              BY <1>5, <3>4, <6>2, <7>1
            <7>2. CASE ~(p < Hand(c) + 1)
              <8>1. c[p + 1] = Invalid /\ p + 1 \in DOMAIN c
                BY <1>5, <3>4, <6>2, <7>2
              <8>2. QED
                BY <1>5, <3>4, <6>2, <7>2, <8>1
            <7>3. QED
              BY <7>1, <7>2
          <6>4. q \in DOMAIN c /\ c[q] = x /\ q <= Hand(c) + 0
            BY <1>5, <3>4, <6>2, <6>3
          <6>5. QED
            BY <1>5, <6>1, <6>4 DEF Seen
        <5>3. QED
          BY <5>1, <5>2
      <4>2. QED
        BY <1>0, <1>1, <2>1, <3>6, <4>1, AdvanceSees
    <3>10. CountedDown(x)
      BY <1>2, <3>8 DEF ThoroughInv
    <3>11. QED
      <4>1. counter'[x] = counter[x] /\ retry' = retry
        BY <1>2, <3>7
      <4>2. CASE Passed(x)'
        BY <3>9, <3>10, <4>1, <4>2 DEF CountedDown
      <4>3. CASE ~Passed(x)'
        <5>1. counter[x] = 0 \/ counter[x] + retry <= ClockInit + 1
          BY <1>8, <3>8, <3>10 DEF CountedDown
        <5>2. QED
          BY <4>1, <4>3, <5>1 DEF CountedDown
      <4>4. QED
        BY <4>2, <4>3
  <2>3. CASE ~(o # None /\ Evictable(o))
    <3>1. /\ chain' = h.ch /\ m_clock_hand_advanced' = FALSE /\ key' = key
          /\ counter' = IF o # None THEN CountDown(o) ELSE counter
      BY <1>2, <2>3
    <3>2. x \in Entries(chain[b]) /\ b = Bucket[key[x]]
      BY <1>4, <2>0, <2>1, <3>1
    <3>3. x \in Cached /\ counter[x] \in 0 .. ClockInit
      BY <1>7, <1>8, <2>1, <3>2, CachedIs
    <3>4. CountedDown(x)
      BY <1>2, <3>3 DEF ThoroughInv
    <3>5. counter'[x] = IF x = o /\ counter[x] # 0 THEN counter[x] - 1 ELSE counter[x]
      <4>1. CASE o = None
        <5>1. x # o
          BY <2>1, <4>1, Objects
        <5>2. QED
          BY <3>1, <4>1, <5>1
      <4>2. CASE o # None
        <5>1. counter' = [counter EXCEPT ![o] = IF counter[o] = 0 THEN 0 ELSE counter[o] - 1]
          BY <3>1, <4>2 DEF CountDown
        <5>2. QED
          BY <1>8, <2>1, <5>1
      <4>3. QED
        BY <4>1, <4>2
    <3>6. Passed(x)' => Passed(x) \/ x = o
      <4> SUFFICES ASSUME Seen(h.ch, i, 1, b, x), x # o  PROVE Seen(chain, m_bucket_idx, Slack, b, x)
        BY <1>2, <2>0, <3>1, <3>2 DEF Passed, Slack
      <4>1. Seen(h.ch, i, 0, b, x)
        <5>1. CASE b < i
          BY <5>1 DEF Seen
        <5>2. CASE ~(b < i)
          <6>1. b = i /\ h.ch[b] = c
            BY <1>1, <5>2 DEF Seen
          <6>2. PICK p, q \in DOMAIN c : c[p] = Invalid /\ c[q] = x /\ q <= p + 1
            BY <5>2, <6>1 DEF Seen
          <6>3. p = Hand(c)
            BY <1>5, <6>2
          <6>4. q # Hand(c) + 1
            <7> SUFFICES ASSUME q = Hand(c) + 1  PROVE FALSE
              OBVIOUS
            <7>1. Hand(c) < Len(c)
              BY <1>5, <6>2
            <7>2. o = c[Hand(c) + 1]
              BY <1>1, <7>1 DEF Value
            <7>3. QED
              BY <6>2, <7>2
          <6>5. q <= p + 0
            BY <1>5, <6>2, <6>3, <6>4
          <6>6. QED
            BY <6>1, <6>2, <6>5 DEF Seen
        <5>3. QED
          BY <5>1, <5>2
      <4>2. QED
        BY <1>0, <1>1, <2>1, <3>2, <4>1, AdvanceSees
    <3>7. retry' = retry
      BY <1>2
    <3>8. CASE counter[x] = 0
      <4>1. counter'[x] = 0
        BY <3>5, <3>8
      <4>2. QED
        BY <4>1 DEF CountedDown
    <3>9. CASE counter[x] # 0
      <4>1. counter[x] + retry <= ClockInit + (IF Passed(x) THEN 0 ELSE 1)
        BY <3>4, <3>9 DEF CountedDown
      <4>2. CASE x = o
        <5>1. counter'[x] = counter[x] - 1 /\ counter[x] + retry <= ClockInit + 1
          BY <1>8, <3>3, <3>5, <3>9, <4>1, <4>2
        <5>2. counter'[x] + retry' <= ClockInit + 0 /\ counter'[x] + retry' <= ClockInit + 1
          BY <1>8, <3>3, <3>7, <5>1
        <5>3. QED
          BY <5>2 DEF CountedDown
      <4>3. CASE x # o
        <5>1. counter'[x] = counter[x]
          BY <3>5, <4>3
        <5>2. CASE Passed(x)'
          BY <3>6, <3>7, <4>1, <4>3, <5>1, <5>2 DEF CountedDown
        <5>3. CASE ~Passed(x)'
          <6>1. counter[x] + retry <= ClockInit + 1
            BY <1>8, <3>3, <4>1
          <6>2. QED
            BY <3>7, <5>1, <5>3, <6>1 DEF CountedDown
        <5>4. QED
          BY <5>2, <5>3
      <4>4. QED
        BY <4>2, <4>3
    <3>10. QED
      BY <3>8, <3>9
  <2>4. QED
    BY <2>2, <2>3
<1>10. QED
  BY <1>2, <1>9 DEF ThoroughInv, EvictionThorough

(* When the hand has left the table it has passed every entry. *)
LEMMA RewindThorough ==
    ASSUME CacheInv, ThoroughInv, Rewind  PROVE ThoroughInv'
<1> USE DEF CacheInv
<1>0. PICK h : h = HandNext
  OBVIOUS
<1>1. /\ pc = "evict" /\ h.idx = NumBuckets /\ chain' = h.ch /\ m_bucket_idx' = 0 /\ retry' = retry + 1
      /\ pc' = IF retry' < ClockInit + 1 THEN "evict" ELSE "evicted"
      /\ UNCHANGED <<key, counter>>
  BY <1>0 DEF Rewind, objects
<1>2. SameEntries(h, chain)
  BY <1>0, HandMoves DEF ChainInv
<1>3. /\ chain' \in [BucketIdx -> Seq(Element)] /\ chain \in [BucketIdx -> Seq(Element)]
      /\ \A b \in BucketIdx : Invalid \notin ToSet(chain'[b])
      /\ \A b \in BucketIdx : Entries(chain'[b]) = Entries(chain[b])
  BY <1>1, <1>2, Buckets DEF SameEntries, Table, ChainInv
<1>4. counter \in [Object -> 0 .. ClockInit] /\ ClockInit \in Nat /\ retry \in Nat /\ retry <= ClockInit
  BY <1>1, CacheAssumption DEF ShapeInv, CacheTypeOK
<1>5. ASSUME NEW x \in Cached'
      PROVE  /\ ~Passed(x)'
             /\ counter'[x] \in Nat /\ (counter'[x] = 0 \/ counter'[x] + retry' <= ClockInit + 1)
  <2>0. PICK b : b = Bucket[key[x]]
    OBVIOUS
  <2>1. x \in Object /\ b \in BucketIdx /\ b \in Nat /\ x \in Entries(chain[b])
    <3>1. x \in Object /\ \E d \in BucketIdx : x \in Entries(chain'[d])
      BY <1>3, CachedNext
    <3>2. QED
      BY <1>3, <2>0, <3>1, Buckets DEF ChainInv
  <2>2. x \in Cached /\ counter[x] \in 0 .. ClockInit
    BY <1>3, <1>4, <2>1, CachedIs
  <2>3. Passed(x)
    <3>1. b < h.idx
      BY <1>1, <2>1, Buckets DEF BucketIdx
    <3>2. Seen(h.ch, h.idx, 0, b, x)
      BY <3>1 DEF Seen
    <3>3. QED
      BY <1>0, <2>0, <2>1, <3>2, AdvanceSees DEF Passed
  <2>4. counter[x] = 0 \/ counter[x] + retry <= ClockInit
    <3>1. counter[x] = 0 \/ counter[x] + retry <= ClockInit + 0
      BY <1>1, <2>2, <2>3 DEF ThoroughInv, CountedDown
    <3>2. QED
      BY <1>4, <3>1
  <2>5. ~Passed(x)'
    <3> SUFFICES ASSUME Seen(chain', 0, Slack', b, x)  PROVE FALSE
      BY <1>1, <2>0 DEF Passed
    <3>1. \E p \in DOMAIN chain'[b] : chain'[b][p] = Invalid
      BY <2>1 DEF Seen
    <3>2. QED
      BY <1>3, <2>1, <3>1 DEF ToSet
  <2>6. QED
    BY <1>1, <1>4, <2>2, <2>4, <2>5
<1>6. pc' = "evict" => \A x \in Cached' : CountedDown(x)'
  BY <1>5 DEF CountedDown
<1>7. pc' = "evicted" => \A x \in Cached' : counter'[x] = 0
  <2> SUFFICES ASSUME pc' = "evicted", NEW x \in Cached'  PROVE counter'[x] = 0
    OBVIOUS
  <2>1. retry' = ClockInit + 1
    BY <1>1, <1>4
  <2>2. QED
    BY <1>4, <1>5, <2>1
<1>8. QED
  BY <1>6, <1>7 DEF ThoroughInv, EvictionThorough

(* An eviction starts with its first pass, and no counter exceeds the initial
   value. *)
LEMMA EvictionStarts ==
    ASSUME CacheInv', EvictEntries(m_cache_quota') \/ Skip  PROVE ThoroughInv'
<1>1. CASE EvictEntries(m_cache_quota')
  <2>1. pc' = "evict" /\ retry' = 0
    BY <1>1 DEF EvictEntries
  <2>2. \A x \in Cached' : counter'[x] \in 0 .. ClockInit
    <3>1. counter' \in [Object -> 0 .. ClockInit]
      BY DEF CacheInv, ShapeInv, CacheTypeOK
    <3>2. \A x \in Cached' : x \in Object
      BY DEF Cached
    <3>3. QED
      BY <3>1, <3>2
  <2>3. \A x \in Cached' : counter'[x] + retry' <= ClockInit + 0 /\ counter'[x] + retry' <= ClockInit + 1
    BY <2>1, <2>2, CacheAssumption
  <2>4. QED
    BY <2>1, <2>3 DEF ThoroughInv, CountedDown, EvictionThorough
<1>2. CASE Skip
  <2>1. pc' = "evicted" /\ freed' = 0 /\ goal' = 0
    BY <1>2 DEF Skip, NoEviction
  <2>2. QED
    BY <2>1 DEF ThoroughInv, EvictionThorough
<1>3. QED
  BY <1>1, <1>2

(* CCache::EvictEntries: if it ends without having freed enough, no entry is
   left whose counter is not zero: every entry was looked at in each pass but
   the first, which may start anywhere. *)
THEOREM EvictionsAreThorough == CacheSpec => []EvictionThorough
<1>1. Init => ThoroughInv
  BY DEF Init, ThoroughInv, EvictionThorough
<1>2. CacheInv /\ CacheInv' /\ ThoroughInv /\ [Next]_vars => ThoroughInv'
  <2> SUFFICES ASSUME CacheInv, CacheInv', ThoroughInv, [Next]_vars  PROVE ThoroughInv'
    OBVIOUS
  <2>1. CASE EvictEntriesOnePass
    BY <2>1, EvictThorough
  <2>2. CASE Rewind
    BY <2>2, RewindThorough
  <2>3. ASSUME NEW quota \in Quotas, OptimizeTask(quota)  PROVE ThoroughInv'
    <3>1. EvictEntries(m_cache_quota') \/ Skip
      BY <2>3 DEF OptimizeTask
    <3>2. QED
      BY <3>1, EvictionStarts
  <2>4. CASE ParseDXLToIMDIdCacheObj
    <3>1. EvictEntries(m_cache_quota') \/ Skip
      BY <2>4 DEF ParseDXLToIMDIdCacheObj
    <3>2. QED
      BY <3>1, EvictionStarts
  <2>5. CASE EvictionDone
    <3>1. pc' = "evicted" /\ freed' = freed /\ goal' = goal /\ freed >= goal
      BY <2>5 DEF EvictionDone, locals
    <3>2. freed \in Nat /\ goal \in Int
      BY DEF CacheInv, ShapeInv, CacheTypeOK
    <3>3. ~(freed' < goal')
      BY <3>1, <3>2
    <3>4. QED
      BY <3>1, <3>3 DEF ThoroughInv, EvictionThorough
  <2>6. CASE UNCHANGED vars
    <3>1. UNCHANGED <<chain, key, counter, m_bucket_idx, m_clock_hand_advanced, pc, retry, freed, goal>>
      BY <2>6 DEF vars, table, objects, locals
    <3>2. QED
      BY <3>1 DEF ThoroughInv, CountedDown, Passed, Slack, EvictionThorough, Cached
  <2>7. CASE pc' \in {"idle", "run"}
    BY <2>7 DEF ThoroughInv, EvictionThorough
  <2>8. \/ pc' \in {"idle", "run"} \/ EvictEntriesOnePass \/ Rewind \/ EvictionDone \/ ParseDXLToIMDIdCacheObj
        \/ (\E quota \in Quotas : OptimizeTask(quota)) \/ UNCHANGED vars
    BY DEF Next, CatalogChange, ConstructAccessor, GetImdObj, GetMDObjDXLStr, ParseCtas, Insert,
           EndOptimization, RaiseException, DestroyAccessor, Asks
  <2>9. QED
    BY <2>1, <2>2, <2>3, <2>4, <2>5, <2>6, <2>7, <2>8
<1>3. ThoroughInv => EvictionThorough
  BY DEF ThoroughInv
<1>4. QED
  BY <1>1, <1>2, <1>3, CacheInductive, PTL DEF CacheSpec
===============================================================================
