------------------------- MODULE SearchJobs_proofs -------------------------
(***************************************************************************)
(* Proofs about the jobs of the search, for any memo, any tables of        *)
(* transformations, requests and enforcers and any number of job objects:  *)
(* the state machines use the scheduler as its contract asks, so that the  *)
(* search implements the scheduler; every job in use is well formed; a     *)
(* group is explored only together with all that is below it; and the best *)
(* plans cost what their children cost now.                                *)
(***************************************************************************)
EXTENDS SearchJobs, JobScheduler_proofs, SequenceTheorems

-----------------------------------------------------------------------------
(* h appends the lists f[s[1]], ..., f[s[m]], one after the other. *)
Appends(h, s, f, B, m) ==
    /\ h \in [0..m -> Seq(B)] /\ h[0] = <<>>
    /\ \A n \in 1..m : h[n] = h[n - 1] \o f[s[n]]
HasPrefix(s, f, B, m) == \E h : Appends(h, s, f, B, m)

(* The concatenations of the first m lists exist, for every m. *)
LEMMA CollectedPrefix ==
    ASSUME NEW A, NEW B, NEW s \in Seq(A), NEW f \in [A -> Seq(B)], NEW m \in 0..Len(s)
    PROVE  HasPrefix(s, f, B, m)
<1> DEFINE P(k) == \E h \in [0..k -> Seq(B)] :
                      h[0] = <<>> /\ \A n \in 1..k : h[n] = h[n - 1] \o f[s[n]]
<1>1. Len(s) \in Nat /\ DOMAIN s = 1..Len(s)
  OBVIOUS
<1>2. P(0)
  <2> DEFINE g == [i \in 0..0 |-> <<>>]
  <2>1. g \in [0..0 -> Seq(B)] /\ g[0] = <<>> /\ \A n \in 1..0 : FALSE
    BY EmptyList
  <2> HIDE DEF g
  <2>2. \A n \in 1..0 : g[n] = g[n - 1] \o f[s[n]]
    BY <2>1
  <2> QED
    BY <2>1, <2>2
<1>3. ASSUME NEW k \in Nat, k < Len(s), P(k) PROVE P(k + 1)
  <2>1. PICK h \in [0..k -> Seq(B)] :
               h[0] = <<>> /\ \A n \in 1..k : h[n] = h[n - 1] \o f[s[n]]
    BY <1>3
  <2> DEFINE g == [i \in 0..(k + 1) |-> IF i <= k THEN h[i] ELSE h[k] \o f[s[k + 1]]]
  <2>a. k + 1 \in DOMAIN s /\ k \in 0..k
    BY <1>1, <1>3
  <2>b. s[k + 1] \in A
    BY <2>a
  <2>2. f[s[k + 1]] \in Seq(B) /\ h[k] \in Seq(B)
    BY <2>a, <2>b
  <2>3. h[k] \o f[s[k + 1]] \in Seq(B)
    BY <2>2
  <2>4. g \in [0..(k + 1) -> Seq(B)]
    BY <2>3, <1>3
  <2>5. g[0] = <<>>
    BY <2>1, <1>3
  <2>6. ASSUME NEW n \in 1..(k + 1) PROVE g[n] = g[n - 1] \o f[s[n]]
    <3>1. CASE n <= k
      <4>1. n \in 1..k /\ n - 1 <= k /\ n - 1 \in 0..(k + 1) /\ n \in 0..(k + 1)
        BY <3>1, <1>3
      <4>2. g[n] = h[n] /\ g[n - 1] = h[n - 1]
        BY <4>1, <3>1
      <4> QED
        BY <4>1, <4>2, <2>1
    <3>2. CASE ~(n <= k)
      <4>1. n = k + 1 /\ n - 1 = k /\ k \in 0..(k + 1) /\ k + 1 \in 0..(k + 1) /\ k <= k /\ ~(k + 1 <= k)
        BY <3>2, <1>3
      <4>2. g[k + 1] = h[k] \o f[s[k + 1]] /\ g[k] = h[k]
        BY <4>1
      <4> QED
        BY <4>1, <4>2
    <3> QED
      BY <3>1, <3>2
  <2> QED
    BY <2>4, <2>5, <2>6
<1> HIDE DEF P
<1>4. ASSUME ~P(m) PROVE FALSE
  <2> DEFINE T == {k \in Nat : k <= Len(s) /\ ~P(k)}
  <2>a. m \in Nat /\ m <= Len(s)
    BY <1>1
  <2>1. T \subseteq Nat /\ T # {}
    BY <2>a, <1>4
  <2>2. PICK x \in T : \A y \in T : x <= y
    BY <2>1, LeastNatural
  <2>3. x # 0
    BY <1>2
  <2>4. x - 1 \in Nat /\ x - 1 < Len(s) /\ (x - 1) + 1 = x /\ x - 1 \notin T
    BY <2>2, <2>3, <1>1
  <2>5. P(x - 1)
    BY <2>4
  <2>6. P((x - 1) + 1)
    BY <2>4, <2>5, <1>3
  <2> QED
    BY <2>4, <2>6
<1>5. P(m) => HasPrefix(s, f, B, m)
  BY DEF P, HasPrefix, Appends
<1> QED
  BY <1>4, <1>5

(* Collected satisfies its recursion: each value appends one more list. *)
LEMMA CollectedIs ==
    ASSUME NEW A, NEW B, NEW s \in Seq(A), NEW f \in [A -> Seq(B)]
    PROVE  Appends(Collected(s, f), s, f, B, Len(s))
<1> DEFINE m == Len(s)
           Is(h) == h = [n \in 0..m |-> IF n = 0 THEN <<>> ELSE h[n - 1] \o f[s[n]]]
<1>1. m \in Nat /\ m \in 0..m
  OBVIOUS
<1>2. PICK h : Appends(h, s, f, B, m)
  <2>1. HasPrefix(s, f, B, Len(s))
    BY CollectedPrefix, <1>1
  <2> QED
    BY <2>1 DEF HasPrefix
<1>2a. /\ h \in [0..m -> Seq(B)] /\ h[0] = <<>>
      /\ \A n \in 1..m : h[n] = h[n - 1] \o f[s[n]]
  BY <1>2 DEF Appends
<1> HIDE DEF m
<1>3. \A n \in 0..m : h[n] = IF n = 0 THEN <<>> ELSE h[n - 1] \o f[s[n]]
  <2>1. ASSUME NEW n \in 0..m PROVE h[n] = IF n = 0 THEN <<>> ELSE h[n - 1] \o f[s[n]]
    <3>1. n = 0 \/ n \in 1..m
      BY <1>1
    <3> QED
      BY <3>1, <1>2a
  <2> QED
    BY <2>1
<1>4. h = [n \in 0..m |-> h[n]]
  BY <1>2a
<1>5. Is(h)
  <2>1. [n \in 0..m |-> h[n]] = [n \in 0..m |-> IF n = 0 THEN <<>> ELSE h[n - 1] \o f[s[n]]]
    BY ONLY <1>3
  <2> QED
    BY <1>4, <2>1
<1>6. Collected(s, f) = CHOOSE r : Is(r)
  BY Zenon DEF Collected, m
<1> DEFINE r == Collected(s, f)
<1>7. Is(r)
  BY <1>5, <1>6
<1> HIDE DEF r
<1>8. DOMAIN r = 0..m /\ r[0] = <<>> /\ \A n \in 1..m : r[n] = r[n - 1] \o f[s[n]]
  <2>1. DOMAIN r = 0..m /\ r[0] = <<>>
    BY <1>7, <1>1
  <2>2. ASSUME NEW n \in 1..m PROVE r[n] = r[n - 1] \o f[s[n]]
    <3>1. n \in 0..m /\ n # 0
      BY <1>1
    <3> QED
      BY <3>1, <1>7
  <2> QED
    BY <2>1, <2>2
<1>9. \A n \in 0..m : r[n] = h[n]
  <2> DEFINE T == {n \in 0..m : r[n] # h[n]}
  <2>1. ASSUME T # {} PROVE FALSE
    <3>0. T \subseteq Nat
      BY <1>1
    <3>1. PICK x \in T : \A y \in T : x <= y
      <4> HIDE DEF T
      <4> QED
        BY <2>1, <3>0, LeastNatural, Zenon
    <3>2. x # 0
      BY <1>8, <1>2a
    <3>3. x \in 1..m /\ x - 1 \in 0..m /\ x - 1 \notin T
      BY <3>1, <3>2, <1>1
    <3>4. r[x - 1] = h[x - 1]
      BY <3>3
    <3>5. r[x] = h[x]
      BY <3>4, <3>3, <1>8, <1>2a
    <3> QED
      BY <3>5
  <2> QED
    BY <2>1
<1>10. r = h
  <2>1. r = [n \in 0..m |-> r[n]]
    BY <1>7
  <2> QED
    BY <2>1, <1>4, <1>9
<1> QED
  BY <1>2, <1>10 DEF r, m

(* Induction up to m. *)
LEMMA UpTo ==
    ASSUME NEW m \in Nat, NEW T, T \subseteq Nat, 0 \in T, \A k \in T : k < m => k + 1 \in T
    PROVE  m \in T
<1> SUFFICES ASSUME m \notin T PROVE FALSE
  OBVIOUS
<1> DEFINE U == {k \in Nat : k <= m /\ k \notin T}
<1>1. U \subseteq Nat /\ U # {}
  OBVIOUS
<1>2. PICK x \in U : \A y \in U : x <= y
  <2> HIDE DEF U
  <2> QED
    BY <1>1, LeastNatural, Zenon
<1>3. x # 0 /\ x \in Nat /\ x <= m /\ x \notin T
  OBVIOUS
<1>4. x - 1 \in Nat /\ x - 1 < m /\ (x - 1) + 1 = x
  BY <1>3
<1>5. x - 1 \notin U
  BY <1>2, <1>4
<1> QED
  BY <1>3, <1>4, <1>5

(* The lists of the elements of s hold what Collect puts together. *)
LEMMA CollectIs ==
    ASSUME NEW A, NEW B, NEW s \in Seq(A), NEW f \in [A -> Seq(B)]
    PROVE  /\ Collect(s, f) \in Seq(B)
           /\ \A x \in Range(Collect(s, f)) : \E a \in Range(s) : x \in Range(f[a])
<1> DEFINE m == Len(s)
           h == Collected(s, f)
           T == {k \in Nat : k <= m =>
                    \A x \in Range(h[k]) : \E a \in Range(s) : x \in Range(f[a])}
<1>1. m \in Nat /\ DOMAIN s = 1..m
  OBVIOUS
<1>2. Appends(h, s, f, B, m)
  BY CollectedIs
<1> HIDE DEF h
<1>3. 0 \in T
  <2>1. h[0] = <<>>
    BY <1>2 DEF Appends
  <2>2. Range(h[0]) = {}
    BY <2>1, EmptyList
  <2> QED
    BY <2>2
<1>4. ASSUME NEW k \in T, k < m PROVE k + 1 \in T
  <2>1. k \in Nat /\ k + 1 \in 1..m /\ (k + 1) - 1 = k /\ k \in 0..m /\ k + 1 \in 0..m /\ k <= m
    BY <1>4, <1>1
  <2> DEFINE a == s[k + 1]
  <2>2. a \in Range(s) /\ a \in A
    BY <2>1, <1>1 DEF Range
  <2>3. h[k + 1] = h[k] \o f[a] /\ h[k] \in Seq(B) /\ h[k + 1] \in Seq(B)
    BY <2>1, <1>2 DEF Appends
  <2>4. f[a] \in Seq(B)
    BY <2>2
  <2>5. \A u, v \in Seq(B) : Range(u \o v) \subseteq Range(u) \cup Range(v)
    <3>1. SUFFICES ASSUME NEW u \in Seq(B), NEW v \in Seq(B), NEW i \in DOMAIN (u \o v)
                   PROVE  (u \o v)[i] \in Range(u) \cup Range(v)
      BY DEF Range
    <3>2. CASE i <= Len(u)
      <4>1. i \in DOMAIN u /\ (u \o v)[i] = u[i]
        BY <3>2
      <4> QED
        BY <4>1 DEF Range
    <3>3. CASE ~(i <= Len(u))
      <4>1. i - Len(u) \in DOMAIN v /\ (u \o v)[i] = v[i - Len(u)]
        BY <3>3
      <4> QED
        BY <4>1 DEF Range
    <3> QED
      BY <3>2, <3>3
  <2> HIDE DEF a
  <2>6. Range(h[k + 1]) \subseteq Range(h[k]) \cup Range(f[a])
    BY <2>3, <2>4, <2>5
  <2>7. \A x \in Range(h[k]) : \E b \in Range(s) : x \in Range(f[b])
    BY <2>1
  <2>8. \A x \in Range(h[k + 1]) : \E b \in Range(s) : x \in Range(f[b])
    BY <2>2, <2>6, <2>7
  <2> QED
    BY <2>8, <2>1
<1>5. m \in T
  <2>1. T \subseteq Nat
    OBVIOUS
  <2> HIDE DEF T, m
  <2> QED
    BY <1>1, <1>3, <1>4, <2>1, UpTo
<1>6. Collect(s, f) = h[m]
  BY DEF Collect, h
<1>7. h[m] \in Seq(B)
  BY <1>1, <1>2 DEF Appends
<1> QED
  BY <1>1, <1>5, <1>6, <1>7

(* The part of list s that is in T, in its order. *)
KeepFacts(s, T, A, k) ==
    /\ k \in Seq(A) /\ Range(k) = Range(s) \cap T
    /\ Distinct(s) => Distinct(k)
    /\ k # <<>> => \E i \in DOMAIN s : /\ Last(k) = s[i] /\ s[i] \in T
                                       /\ \A n \in DOMAIN s : n > i => s[n] \notin T

(* A list with one more element behind it. *)
LEMMA AppendOne ==
    ASSUME NEW A, NEW s \in Seq(A), NEW x \in A
    PROVE  /\ s \o <<x>> \in Seq(A) /\ Last(s \o <<x>>) = x
           /\ Range(s \o <<x>>) = Range(s) \cup {x}
           /\ Distinct(s) /\ x \notin Range(s) => Distinct(s \o <<x>>)
           /\ s \o <<>> = s
<1>1. s \o <<x>> = Append(s, x)
  OBVIOUS
<1>2. Last(Append(s, x)) = x
  BY DEF Last
<1>3. s \o <<>> = s
  OBVIOUS
<1>4. /\ Append(s, x) \in Seq(A) /\ Range(Append(s, x)) = Range(s) \cup {x}
      /\ Distinct(s) /\ x \notin Range(s) => Distinct(Append(s, x))
  BY RangeAppend
<1> QED
  BY ONLY <1>1, <1>2, <1>3, <1>4

(* Keep selects exactly the elements in T, in order, and ends with the last of them. *)
LEMMA KeepIs ==
    ASSUME NEW A, NEW s \in Seq(A), NEW T
    PROVE  KeepFacts(s, T, A, Keep(s, T))
<1> DEFINE m == Len(s)
           R == Range(s)
           f == [x \in R |-> IF x \in T THEN <<x>> ELSE <<>>]
           h == Collected(s, f)
           P(k) == /\ Range(h[k]) = {s[i] : i \in 1..k} \cap T
                   /\ Distinct(s) => Distinct(h[k])
                   /\ h[k] # <<>> => \E i \in 1..k : /\ Last(h[k]) = s[i] /\ s[i] \in T
                                                     /\ \A n \in 1..k : n > i => s[n] \notin T
           U == {k \in Nat : k <= m => P(k)}
<1>1. m \in Nat /\ DOMAIN s = 1..m
  OBVIOUS
<1>2. s \in Seq(R) /\ R \subseteq A
  BY <1>1 DEF Range
<1>3. f \in [R -> Seq(R)]
  BY EmptyList
<1>4. Appends(h, s, f, R, m)
  <2> HIDE DEF f, R
  <2> QED
    BY CollectedIs, <1>2, <1>3
<1>f. \A x \in R : f[x] = IF x \in T THEN <<x>> ELSE <<>>
  OBVIOUS
<1> HIDE DEF h, f
<1>5. P(0)
  <2>1. h[0] = <<>>
    BY <1>4 DEF Appends
  <2>2. {s[i] : i \in 1..0} = {}
    OBVIOUS
  <2>3. Range(h[0]) = {} /\ Distinct(h[0])
    BY <2>1, EmptyList
  <2> QED
    BY <2>1, <2>2, <2>3
<1>6. ASSUME NEW k \in Nat, k < m, P(k) PROVE P(k + 1)
  <2>1. k + 1 \in 1..m /\ (k + 1) - 1 = k /\ k \in 0..m /\ k + 1 \in 0..m
    BY <1>6, <1>1
  <2> DEFINE a == s[k + 1]
  <2>2. a \in R
    BY <2>1, <1>1 DEF Range
  <2>3. h[k + 1] = h[k] \o f[a] /\ h[k] \in Seq(R)
    BY <2>1, <1>4 DEF Appends
  <2>4. {s[i] : i \in 1..(k + 1)} = {s[i] : i \in 1..k} \cup {a}
    <3>1. 1..(k + 1) = (1..k) \cup {k + 1}
      OBVIOUS
    <3> QED
      BY <3>1
  <2>5. CASE a \in T
    <3>1. h[k + 1] = h[k] \o <<a>>
      BY <2>2, <2>3, <2>5, <1>f
    <3> DEFINE g == h[k + 1]
    <3>2. /\ Last(g) = a /\ Range(g) = Range(h[k]) \cup {a}
          /\ Distinct(h[k]) /\ a \notin Range(h[k]) => Distinct(g)
      BY <3>1, <2>2, <2>3, AppendOne
    <3>3. Distinct(s) => a \notin {s[i] : i \in 1..k}
      <4>1. ASSUME Distinct(s), NEW i \in 1..k, s[i] = a PROVE FALSE
        <5>1. i \in DOMAIN s /\ k + 1 \in DOMAIN s /\ i # k + 1
          BY <2>1, <1>1
        <5> QED
          BY <5>1, <4>1 DEF Distinct
      <4> QED
        BY <4>1
    <3>4. Range(g) = {s[i] : i \in 1..(k + 1)} \cap T
      BY <3>2, <2>4, <2>5, <1>6
    <3>5. Distinct(s) => Distinct(g)
      BY <3>2, <3>3, <1>6
    <3>6. k + 1 \in 1..(k + 1) /\ ~(\E n \in 1..(k + 1) : n > k + 1)
      OBVIOUS
    <3> QED
      BY <3>2, <3>4, <3>5, <3>6, <2>5
  <2>6. CASE a \notin T
    <3>a. f[a] = <<>>
      BY <2>2, <2>6, <1>f
    <3>b. \A u \in Seq(R) : u \o <<>> = u
      OBVIOUS
    <3>1. h[k + 1] = h[k]
      BY <2>3, <3>a, <3>b
    <3>2. Range(h[k + 1]) = {s[i] : i \in 1..(k + 1)} \cap T
      BY <3>1, <2>4, <2>6, <1>6
    <3>3. ASSUME h[k + 1] # <<>>
          PROVE  \E i \in 1..(k + 1) : /\ Last(h[k + 1]) = s[i] /\ s[i] \in T
                                       /\ \A n \in 1..(k + 1) : n > i => s[n] \notin T
      <4>1. PICK i \in 1..k : /\ Last(h[k]) = s[i] /\ s[i] \in T
                              /\ \A n \in 1..k : n > i => s[n] \notin T
        BY <3>1, <3>3, <1>6
      <4>2. \A n \in 1..(k + 1) : n \in 1..k \/ n = k + 1
        OBVIOUS
      <4>3. i \in 1..(k + 1)
        OBVIOUS
      <4> QED
        BY <4>1, <4>2, <4>3, <3>1, <2>6
    <3> QED
      BY <3>1, <3>2, <3>3, <1>6
  <2> QED
    BY <2>5, <2>6
<1>7. m \in U
  <2> HIDE DEF P
  <2>1. U \subseteq Nat /\ 0 \in U
    BY <1>5
  <2>2. ASSUME NEW k \in U, k < m PROVE k + 1 \in U
    <3>1. k \in Nat /\ k <= m
      BY <1>1, <2>2
    <3> QED
      BY <1>6, <2>2, <3>1
  <2> HIDE DEF U, m
  <2> QED
    BY <1>1, <2>1, <2>2, UpTo
<1>8. P(m)
  BY <1>7, <1>1
<1>9. Keep(s, T) = h[m]
  BY Zenon DEF Keep, Collect, h, f, R, m
<1>10. h[m] \in Seq(A)
  <2>1. h[m] \in Seq(R)
    BY <1>1, <1>4 DEF Appends
  <2>2. \A t \in Seq(R) : t \in Seq(A)
    BY <1>2
  <2> QED
    BY <2>1, <2>2
<1>11. Range(s) = {s[i] : i \in 1..m}
  BY <1>1 DEF Range
<1> HIDE DEF m, R
<1> QED
  BY <1>1, <1>8, <1>9, <1>10, <1>11 DEF KeepFacts

(* The cursor of a group job stands on an expression of the list, or before it. *)
AfterFacts(s, last, A, n) ==
    /\ n \in Seq(A) /\ Range(n) \subseteq Range(s)
    /\ Distinct(s) => Distinct(n)
    /\ last = None => n = s
    /\ \A i \in DOMAIN s : Distinct(s) /\ s[i] = last /\ last # None =>
          /\ \A k \in DOMAIN n : i + k \in DOMAIN s /\ n[k] = s[i + k]
          /\ \A k \in DOMAIN s : k > i => s[k] \in Range(n)

(* After gives the part of the list behind the cursor, all of it without a cursor. *)
LEMMA AfterIs ==
    ASSUME NEW A, NEW s \in Seq(A), NEW last, last = None \/ last \in Range(s)
    PROVE  AfterFacts(s, last, A, After(s, last))
<1> DEFINE n == After(s, last)
<1>1. DOMAIN s = 1..Len(s) /\ Len(s) \in Nat /\ \A i \in 1..Len(s) : s[i] \in A
  OBVIOUS
<1>2. CASE last = None
  <2>1. n = s
    BY <1>2 DEF After
  <2> QED
    BY <2>1, <1>2 DEF AfterFacts
<1>3. CASE last # None
  <2> DEFINE i == CHOOSE i \in DOMAIN s : s[i] = last
  <2>1. i \in DOMAIN s /\ s[i] = last
    BY <1>3 DEF Range
  <2>2. n = SubSeq(s, i + 1, Len(s))
    BY <1>3 DEF After
  <2> HIDE DEF i
  <2>3. i \in 1..Len(s)
    BY <2>1, <1>1
  <2> DEFINE t == SubSeq(s, i + 1, Len(s))
  <2>4. /\ t \in Seq(A) /\ DOMAIN t = 1..(Len(s) - i)
        /\ \A k \in 1..(Len(s) - i) : t[k] = s[i + k]
    <3>1. i \in Nat /\ i <= Len(s) /\ i + 1 \in Int /\ Len(s) \in Int
      BY <2>3, <1>1
    <3>2. \A k \in (i + 1)..Len(s) : s[k] \in A
      BY <3>1, <1>1
    <3> DEFINE l == Len(s)
    <3>3. /\ t \in Seq(A) /\ Len(t) = IF i + 1 <= l THEN l - (i + 1) + 1 ELSE 0
          /\ \A k \in 1..(l - (i + 1) + 1) : t[k] = s[i + 1 + k - 1]
      <4> HIDE DEF l
      <4>1. t = SubSeq(s, i + 1, l) /\ i + 1 \in Int /\ l \in Int /\ \A k \in (i + 1)..l : s[k] \in A
        BY <3>1, <3>2 DEF l
      <4> HIDE DEF t
      <4> QED
        BY ONLY <4>1, SubSeqProperties
    <3> HIDE DEF t, l
    <3>4. Len(t) = l - i /\ l - (i + 1) + 1 = l - i
      BY <3>1, <3>3 DEF l
    <3>5. DOMAIN t = 1..(l - i)
      BY <3>3, <3>4
    <3>6. \A k \in 1..(l - i) : i + 1 + k - 1 = i + k
      BY <3>1 DEF l
    <3> QED
      BY <3>3, <3>4, <3>5, <3>6 DEF l
  <2> HIDE DEF t
  <2>5. \A k \in DOMAIN t : i + k \in DOMAIN s /\ t[k] = s[i + k]
    BY <2>3, <2>4, <1>1, SMTT(30)
  <2>6. Range(t) \subseteq Range(s)
    BY <2>5 DEF Range
  <2>7. Distinct(s) => Distinct(t)
    <3>1. SUFFICES ASSUME Distinct(s), NEW k \in DOMAIN t, NEW l \in DOMAIN t, t[k] = t[l]
                   PROVE  k = l
      BY DEF Distinct
    <3>2. i + k = i + l
      BY <3>1, <2>5 DEF Distinct
    <3> QED
      BY <3>2, <2>3, <2>4
  <2>8. ASSUME NEW m \in DOMAIN s, Distinct(s), s[m] = last
        PROVE  /\ \A k \in DOMAIN t : m + k \in DOMAIN s /\ t[k] = s[m + k]
               /\ \A k \in DOMAIN s : k > m => s[k] \in Range(t)
    <3>1. m = i
      BY <2>1, <2>8 DEF Distinct
    <3>2. ASSUME NEW k \in DOMAIN s, k > i PROVE s[k] \in Range(t)
      <4>1. k - i \in DOMAIN t /\ i + (k - i) = k
        BY <3>2, <2>3, <2>4, <1>1
      <4>2. t[k - i] = s[k]
        BY <4>1, <2>5
      <4> QED
        BY <4>1, <4>2 DEF Range
    <3> QED
      BY <3>1, <3>2, <2>5
  <2> QED
    BY <2>2, <2>4, <2>6, <2>7, <2>8, <1>3 DEF AfterFacts, t
<1> QED
  BY <1>2, <1>3

(* What FScheduleGroupExpressions schedules: the expressions of T behind the
   cursor; it moves the cursor to the last of them. *)
NewFacts(s, last, T, A, new) ==
    /\ new \in Seq(A) /\ Range(new) \subseteq Range(s) \cap T
    /\ new # <<>> => /\ Last(new) \in Range(s) \cap T
                     /\ \E i \in DOMAIN s :
                           /\ s[i] = Last(new)
                           /\ \A k \in DOMAIN s : k > i => s[k] \notin T
                           /\ \A k \in DOMAIN s : s[k] = last => k < i
    /\ \A k \in DOMAIN s : s[k] \in T =>
          \/ s[k] \in Range(new)
          \/ last # None /\ \E m \in DOMAIN s : s[m] = last /\ k <= m

(* The unfinished expressions behind the cursor: their last one is the new cursor,
   and a pass that finds none has seen the rest of the list. *)
LEMMA NewIs ==
    ASSUME NEW A, None \notin A, NEW s \in Seq(A), Distinct(s), NEW last, NEW T,
           last = None \/ last \in Range(s)
    PROVE  NewFacts(s, last, T, A, Keep(After(s, last), T))
<1> DEFINE n == After(s, last)
           new == Keep(n, T)
<1>1. DOMAIN s = 1..Len(s) /\ Len(s) \in Nat /\ \A i \in 1..Len(s) : s[i] \in A
  OBVIOUS
<1>2. AfterFacts(s, last, A, n)
  BY AfterIs
<1>3. n \in Seq(A) /\ Range(n) \subseteq Range(s)
  BY <1>2 DEF AfterFacts
<1>4. KeepFacts(n, T, A, new)
  BY <1>3, KeepIs
<1> HIDE DEF n, new
<1>5. new \in Seq(A) /\ Range(new) = Range(n) \cap T /\ Range(new) \subseteq Range(s) \cap T
  BY <1>3, <1>4 DEF KeepFacts
<1>6. \A k \in DOMAIN n : k \in Nat \ {0}
  BY <1>3
<1>7. ASSUME NEW k \in DOMAIN s, s[k] \in T
      PROVE  \/ s[k] \in Range(new)
             \/ last # None /\ \E m \in DOMAIN s : s[m] = last /\ k <= m
  <2>1. CASE last = None
    <3>1. s[k] \in Range(n)
      BY <2>1, <1>2 DEF AfterFacts, Range
    <3> QED
      BY <3>1, <1>5, <1>7
  <2>2. CASE last # None
    <3>1. PICK m \in DOMAIN s : s[m] = last
      BY <2>2 DEF Range
    <3>2. k > m => s[k] \in Range(n)
      BY <3>1, <2>2, <1>2 DEF AfterFacts
    <3>3. k > m \/ k <= m
      BY <1>1
    <3> QED
      BY <3>1, <3>2, <3>3, <2>2, <1>5, <1>7
  <2> QED
    BY <2>1, <2>2
<1>8. ASSUME new # <<>>
      PROVE  /\ Last(new) \in Range(s) \cap T
             /\ \E i \in DOMAIN s :
                   /\ s[i] = Last(new)
                   /\ \A k \in DOMAIN s : k > i => s[k] \notin T
                   /\ \A k \in DOMAIN s : s[k] = last => k < i
  <2>1. PICK p \in DOMAIN n : /\ Last(new) = n[p] /\ n[p] \in T
                              /\ \A k \in DOMAIN n : k > p => n[k] \notin T
    BY <1>4, <1>8 DEF KeepFacts
  <2>2. Last(new) \in Range(s) \cap T
    BY <2>1, <1>3 DEF Range
  <2>3. CASE last = None
    <3>1. n = s
      BY <2>3, <1>2 DEF AfterFacts
    <3>2. \A k \in DOMAIN s : s[k] # last
      BY <2>3, <1>1
    <3> QED
      BY <2>1, <2>2, <3>1, <3>2
  <2>4. CASE last # None
    <3>1. PICK m \in DOMAIN s : s[m] = last
      BY <2>4 DEF Range
    <3>2. \A k \in DOMAIN n : m + k \in DOMAIN s /\ n[k] = s[m + k]
      BY <3>1, <2>4, <1>2 DEF AfterFacts
    <3>3. m + p \in DOMAIN s /\ s[m + p] = Last(new) /\ p \in Nat \ {0} /\ m \in Nat
      BY <3>2, <2>1, <1>6, <1>1
    <3>4. ASSUME NEW k \in DOMAIN s, k > m + p PROVE s[k] \notin T
      <4>1. SUFFICES ASSUME s[k] \in T PROVE FALSE
        OBVIOUS
      <4>2. k \in Nat /\ k > m
        BY <3>3, <3>4, <1>1
      <4>3. s[k] \in Range(n)
        BY <4>2, <3>1, <2>4, <1>2 DEF AfterFacts
      <4>4. PICK l \in DOMAIN n : n[l] = s[k]
        BY <4>3 DEF Range
      <4>5. m + l \in DOMAIN s /\ s[m + l] = s[k] /\ l \in Nat
        BY <4>4, <3>2, <1>6
      <4>6. m + l = k
        BY <4>5 DEF Distinct
      <4>7. l > p
        BY <4>5, <4>6, <4>2, <3>3, <3>4
      <4> QED
        BY <4>1, <4>4, <4>7, <2>1
    <3>5. ASSUME NEW k \in DOMAIN s, s[k] = last PROVE k < m + p
      <4>1. k = m
        BY <3>1, <3>5 DEF Distinct
      <4> QED
        BY <4>1, <3>3
    <3> QED
      BY <2>2, <3>3, <3>4, <3>5
  <2> QED
    BY <2>3, <2>4
<1> QED
  BY <1>5, <1>7, <1>8 DEF NewFacts, new, n

(* Appending a list of new elements. *)
LEMMA JoinIs ==
    ASSUME NEW A, NEW s \in Seq(A), NEW t \in Seq(A)
    PROVE  /\ s \o t \in Seq(A) /\ Range(s \o t) = Range(s) \cup Range(t)
           /\ DOMAIN s \subseteq DOMAIN (s \o t) /\ \A i \in DOMAIN s : (s \o t)[i] = s[i]
           /\ Distinct(s) /\ Distinct(t) /\ Range(s) \cap Range(t) = {} => Distinct(s \o t)
           /\ \A i \in DOMAIN (s \o t) : i \in DOMAIN s \/ (s \o t)[i] \in Range(t)
<1> DEFINE u == s \o t
           a == Len(s)
           b == Len(t)
<1>1. /\ a \in Nat /\ b \in Nat /\ DOMAIN s = 1..a /\ DOMAIN t = 1..b /\ DOMAIN u = 1..(a + b)
      /\ u \in Seq(A)
      /\ \A i \in 1..a : u[i] = s[i]
      /\ \A i \in 1..(a + b) : i > a => u[i] = t[i - a]
      /\ \A i \in 1..b : u[i + a] = t[i]
  OBVIOUS
<1> HIDE DEF u, a, b
<1>2. \A i \in 1..(a + b) : i \in 1..a \/ (i > a /\ i - a \in 1..b)
  BY <1>1
<1>3. \A i \in 1..b : i + a \in 1..(a + b)
  BY <1>1
<1>4. 1..a \subseteq 1..(a + b)
  BY <1>1
<1>5. \A i \in DOMAIN u : i \in DOMAIN s \/ u[i] \in Range(t)
  BY <1>1, <1>2 DEF Range
<1>6. Range(u) = Range(s) \cup Range(t)
  <2>1. \A x \in Range(u) : x \in Range(s) \cup Range(t)
    BY <1>1, <1>2 DEF Range
  <2>2. \A x \in Range(s) : x \in Range(u)
    BY <1>1, <1>4 DEF Range
  <2>3. ASSUME NEW i \in 1..b PROVE t[i] \in Range(u)
    <3>1. i + a \in DOMAIN u /\ u[i + a] = t[i]
      BY <1>1, <1>3
    <3> QED
      BY <3>1 DEF Range
  <2>4. \A x \in Range(t) : x \in Range(u)
    BY <1>1, <2>3 DEF Range
  <2> QED
    BY <2>1, <2>2, <2>4
<1>7. ASSUME Distinct(s), Distinct(t), Range(s) \cap Range(t) = {} PROVE Distinct(u)
  <2>1. SUFFICES ASSUME NEW i \in DOMAIN u, NEW k \in DOMAIN u, u[i] = u[k] PROVE i = k
    BY DEF Distinct
  <2>2. CASE i \in 1..a /\ k \in 1..a
    BY <2>1, <2>2, <1>1, <1>7 DEF Distinct
  <2>3. CASE i \in 1..a /\ k \notin 1..a
    <3>1. u[i] \in Range(s) /\ u[k] \in Range(t)
      BY <2>3, <1>1, <1>2 DEF Range
    <3> QED
      BY <3>1, <2>1, <1>7
  <2>4. CASE i \notin 1..a /\ k \in 1..a
    <3>1. u[k] \in Range(s) /\ u[i] \in Range(t)
      BY <2>4, <1>1, <1>2 DEF Range
    <3> QED
      BY <3>1, <2>1, <1>7
  <2>5. CASE i \notin 1..a /\ k \notin 1..a
    <3>1. i > a /\ k > a /\ i - a \in 1..b /\ k - a \in 1..b
      BY <2>5, <1>1, <1>2
    <3>2. t[i - a] = t[k - a]
      BY <3>1, <2>1, <1>1
    <3>3. i - a = k - a
      BY <3>1, <3>2, <1>1, <1>7 DEF Distinct
    <3> QED
      BY <3>1, <3>3, <1>1
  <2> QED
    BY <2>2, <2>3, <2>4, <2>5
<1> QED
  BY <1>1, <1>4, <1>5, <1>6, <1>7 DEF u

(* CEngine::InsertXformResult only appends new expressions to the groups. *)
InsertFacts(memo, origin, es, new) ==
    /\ new \in [Group -> Seq(GExpr)]
    /\ \A g \in Group :
          /\ DOMAIN memo[g] \subseteq DOMAIN new[g]
          /\ \A i \in DOMAIN memo[g] : new[g][i] = memo[g][i]
          /\ Range(memo[g]) \subseteq Range(new[g])
          /\ \A x \in Range(new[g]) \ Range(memo[g]) : x \in Range(es) /\ GroupOf[x] = g
          /\ \A i \in DOMAIN new[g] : i \in DOMAIN memo[g] \/ new[g][i] \in Range(new[g]) \ Range(memo[g])
          /\ Distinct(memo[g]) /\ Distinct(es) => Distinct(new[g])
          /\ g # origin /\ memo[g] # <<>> => new[g] = memo[g]
          /\ memo[g] # <<>> => new[g] # <<>>

(* CEngine::InsertXformResult: lists only grow, by new expressions of their group. *)
LEMMA InsertIs ==
    ASSUME NEW memo \in [Group -> Seq(GExpr)], NEW origin, NEW es \in Seq(GExpr)
    PROVE  InsertFacts(memo, origin, es, Insert(memo, origin, es))
<1> DEFINE new == Insert(memo, origin, es)
           T(g) == {e \in GExpr : GroupOf[e] = g} \ Range(memo[g])
           k(g) == Keep(es, T(g))
<1>1. \A g \in Group : new[g] = IF g = origin \/ memo[g] = <<>> THEN memo[g] \o k(g) ELSE memo[g]
  BY Zenon DEF Insert
<1>2. DOMAIN new = Group /\ new = [g \in Group |-> new[g]]
  BY Zenon DEF Insert
<1> HIDE DEF new
<1>3. \A g \in Group : /\ k(g) \in Seq(GExpr) /\ Range(k(g)) = Range(es) \cap T(g)
                       /\ Distinct(es) => Distinct(k(g))
  <2> SUFFICES ASSUME NEW g \in Group
               PROVE  /\ k(g) \in Seq(GExpr) /\ Range(k(g)) = Range(es) \cap T(g)
                      /\ Distinct(es) => Distinct(k(g))
    OBVIOUS
  <2> DEFINE t == T(g)
  <2>1. KeepFacts(es, t, GExpr, Keep(es, t))
    <3> HIDE DEF t
    <3> QED
      BY KeepIs
  <2> QED
    BY <2>1 DEF KeepFacts
<1> HIDE DEF k
<1>4. ASSUME NEW g \in Group
      PROVE  /\ new[g] \in Seq(GExpr)
             /\ DOMAIN memo[g] \subseteq DOMAIN new[g]
             /\ \A i \in DOMAIN memo[g] : new[g][i] = memo[g][i]
             /\ Range(memo[g]) \subseteq Range(new[g])
             /\ \A x \in Range(new[g]) \ Range(memo[g]) : x \in Range(es) /\ GroupOf[x] = g
             /\ \A i \in DOMAIN new[g] : i \in DOMAIN memo[g] \/ new[g][i] \in Range(new[g]) \ Range(memo[g])
             /\ Distinct(memo[g]) /\ Distinct(es) => Distinct(new[g])
             /\ g # origin /\ memo[g] # <<>> => new[g] = memo[g]
             /\ memo[g] # <<>> => new[g] # <<>>
  <2>1. memo[g] \in Seq(GExpr)
    OBVIOUS
  <2>2. CASE ~(g = origin \/ memo[g] = <<>>)
    <3>1. new[g] = memo[g]
      BY <2>2, <1>1
    <3> QED
      BY <3>1, <2>1
  <2>3. CASE g = origin \/ memo[g] = <<>>
    <3>1. new[g] = memo[g] \o k(g)
      BY <2>3, <1>1
    <3> DEFINE s == memo[g]
               t == k(g)
    <3>2. s \in Seq(GExpr) /\ t \in Seq(GExpr) /\ Range(t) = Range(es) \cap T(g)
          /\ (Distinct(es) => Distinct(t))
      BY <2>1, <1>3
    <3>3. s # <<>> => new[g] # <<>>
      <4> SUFFICES ASSUME s # <<>>, s \o t = <<>> PROVE FALSE
        BY <3>1
      <4> HIDE DEF s, t
      <4>1. Len(s \o t) = Len(s) + Len(t) /\ Len(s) \in Nat /\ Len(t) \in Nat /\ Len(s) # 0 /\ Len(<<>>) = 0
        BY <3>2
      <4> QED
        BY <4>1
    <3> HIDE DEF s, t
    <3>4. /\ s \o t \in Seq(GExpr) /\ Range(s \o t) = Range(s) \cup Range(t)
          /\ DOMAIN s \subseteq DOMAIN (s \o t) /\ \A i \in DOMAIN s : (s \o t)[i] = s[i]
          /\ Distinct(s) /\ Distinct(t) /\ Range(s) \cap Range(t) = {} => Distinct(s \o t)
          /\ \A i \in DOMAIN (s \o t) : i \in DOMAIN s \/ (s \o t)[i] \in Range(t)
      BY <3>2, JoinIs
    <3>5. Range(s) \cap Range(t) = {}
      BY <3>2 DEF s
    <3>6. \A x \in Range(t) : x \in Range(es) /\ GroupOf[x] = g
      BY <3>2
    <3>7. \A x \in Range(t) : x \in Range(s \o t) \ Range(s)
      BY <3>4, <3>5
    <3>8. new[g] = s \o t /\ s = memo[g]
      BY <3>1 DEF s, t
    <3> QED
      BY <2>3, <3>2, <3>3, <3>4, <3>5, <3>6, <3>7, <3>8
  <2> QED
    BY <2>2, <2>3
<1>5. new \in [Group -> Seq(GExpr)]
  BY <1>2, <1>4
<1> QED
  BY <1>4, <1>5 DEF InsertFacts, new

(* ResumeParent leaves every job but the completed one in use. *)
LEMMA ResumeFrees ==
    ASSUME IInv, NEW j \in Live, NEW r, ResumeParent(j, r)
    PROVE  Live' = Live \ {j}
<1>1. ejs \in [Job -> EJobState] /\ j \in Job /\ None \notin Job
  BY JobAssumption DEF IInv, TypeOK, Live
<1>2. parent[j] # None => parent[j] \in Live
  BY LiveParents
<1>3. \/ ejs' = [ejs EXCEPT ![j] = "Free"]
      \/ parent[j] # None /\ ejs' = [ejs EXCEPT ![parent[j]] = "Waiting", ![j] = "Free"]
  BY DEF ResumeParent
<1>4. Live \subseteq Job
  BY DEF Live
<1> QED
  BY <1>1, <1>2, <1>3, <1>4 DEF Live

(* What the scheduler's own steps do to the jobs. *)
LEMMA LoopFacts ==
    ASSUME IInv, ListOK, LoopStep
    PROVE  /\ UNCHANGED <<parent, pjq, fCompleted, created, stage>>
           /\ Live' \subseteq Live
           /\ pc \in {"retrieve", "execute", "notify", "post"}
           /\ pc' = "body" => pc = "execute" /\ cur' = cur /\ Children(cur) = {} /\ Live' = Live
           /\ \A j \in Live \ Live' :
                 \/ pc = "post" /\ result /\ j = cur
                 \/ pc = "notify" /\ pjq[cur] # None /\ j \in Range(queued[pjq[cur]])
<1>0. TypeOK /\ Live \subseteq Job /\ QueueInv /\ CurInv
  BY DEF IInv, Live
<1>a. pc \notin {"idle", "retrieve"} => /\ cur \in Job /\ cur # None /\ cur \in Live /\ ejs[cur] = "Running"
                                        /\ pjq[cur] \in Queue \cup {None}
  BY CurIsRunning
<1>1. CASE Pop
  <2>1. PICK j \in waiting : Retrieve(j)
    BY <1>1, PopOne
  <2>2. j \in Live
    BY <2>1 DEF IInv, ListInv, Live
  <2> QED
    BY <2>1, <2>2, <1>0 DEF Retrieve, Live, queueVars, TypeOK
<1>2. CASE Return \/ ExecuteUnqueued \/ ExecuteMain \/ ExecuteQueued \/ ExecuteCompleted \/ NotifyDone
  <2>1. /\ UNCHANGED <<parent, pjq, fCompleted, created, stage, ejs>>
        /\ pc \in {"retrieve", "execute", "notify", "post"}
        /\ pc' = "body" => pc = "execute" /\ cur' = cur
    BY <1>2 DEF Return, ExecuteUnqueued, ExecuteMain, ExecuteQueued, ExecuteCompleted,
       NotifyDone, BeginBody, queueVars, jobVars
  <2>2. pc = "execute" => Children(cur) = {}
    BY <1>0, <1>a DEF CurInv
  <2> QED
    BY <2>1, <2>2 DEF Live
<1>3. CASE PostRunnable \/ PostSuspended
  <2>1. /\ UNCHANGED <<parent, pjq, fCompleted, created, stage>>
        /\ pc = "post" /\ pc' # "body" /\ Live' = Live
    BY <1>3, <1>a, <1>0 DEF PostRunnable, PostSuspended, Live, TypeOK, queueVars
  <2> QED
    BY <2>1
<1>4. CASE PostCompleted
  <2>1. /\ UNCHANGED <<parent, pjq, fCompleted, created, stage>>
        /\ pc = "post" /\ pc' # "body" /\ result
        /\ ResumeParent(cur, [refs EXCEPT ![cur] = @ - 1])
    BY <1>4 DEF PostCompleted, queueVars
  <2>2. Live' = Live \ {cur}
    BY <2>1, <1>a, ResumeFrees
  <2> QED
    BY <2>1, <2>2
<1>5. CASE NotifyOne
  <2> DEFINE j == Head(queued[pjq[cur]])
  <2>1. /\ UNCHANGED <<parent, pjq, fCompleted, created, stage>>
        /\ pc = "notify" /\ pc' # "body" /\ queued[pjq[cur]] # <<>>
    BY <1>5 DEF NotifyOne, loopVars
  <2>2. pjq[cur] # None /\ pjq[cur] \in Queue
    BY <2>1, <1>a, <1>0 DEF CurInv
  <2>3. j \in Range(queued[pjq[cur]]) /\ j \in Live
    BY <2>1, <2>2, <1>0, RangeEmpty DEF TypeOK, QueueInv
  <2>4. Live' = Live \ {j} \/ ejs' = ejs
    <3>1. (\E r : ResumeParent(j, r)) \/ ejs' = ejs
      BY <1>5 DEF NotifyOne
    <3> HIDE DEF j
    <3> QED
      BY <3>1, <2>3, ResumeFrees
  <2> HIDE DEF j
  <2>5. Live' = Live \ {j} \/ Live' = Live
    BY <2>4 DEF Live
  <2> QED
    BY <2>1, <2>2, <2>3, <2>5
<1> QED
  BY <1>1, <1>2, <1>3, <1>4, <1>5 DEF LoopStep

(* What the variables of the search range over. *)
Est == {"Initialized", "ExploringChildren", "ChildrenExplored", "SelfExplored",
        "ImplementingChildren", "ChildrenImplemented", "SelfImplemented",
        "OptimizingChildren", "DampingOptimizationLevel", "ChildrenOptimized",
        "EnfdPropsChecked", "SelfOptimized"}
Phase == {"Exploration", "Implementation"}
Task == [ejt : Ejt \cup {"None"}, g : Group \cup Phase \cup {None}, e : GExpr \cup {None},
         c : Ctx \cup {None}, n : Nat, origin : GExpr \cup {None}, cte : Ctx \cup {None}]
Jsm == [est : Est, last : GExpr \cup {None}, eol : 0..1, fKids : BOOLEAN, fXforms : BOOLEAN,
        ctxs : Seq(Ctx), child : Nat \ {0}, fCTE : BOOLEAN]
Plan == [e : GExpr \cup {None}, ctxs : Seq(Ctx), cost : Nat]

TypeInv ==
    /\ task \in [Job -> Task] /\ jsm \in [Job -> Jsm]
    /\ todo \in Seq(Task)
    /\ run \in {"go", "stay", "final"}
    /\ gexprs \in [Group -> Seq(GExpr)]
    /\ gstate \in [Group -> Unexplored..Implemented]
    /\ estate \in [GExpr -> Unexplored..Implemented]
    /\ poc \in [Stages -> [Ctx -> Unoptimized..Optimized]]
    /\ best \in [Stages -> [Ctx -> Plan]]
    /\ timedOut \in BOOLEAN

(* Groups hold their own expressions, each once, over groups that hold some. *)
MemoInv ==
    /\ gexprs[Root] # <<>>
    /\ \A g \in Group :
          /\ Distinct(gexprs[g])
          /\ \A e \in Range(gexprs[g]) : GroupOf[e] = g
          /\ \A e \in Range(gexprs[g]) : \A k \in Range(Kids[e]) : gexprs[k] # <<>>

(* The plans of a context are plans for its group. *)
PlanInv ==
    \A s \in Stages, c \in Ctx : best[s][c] # NoPlan =>
        best[s][c].e \in GExpr /\ GroupOf[best[s][c].e] = CtxGroup[c]

(* When the scheduler is outside of the job, or the job has not just called others, it
   has none to hand over; between stages everything is reset. *)
ControlInv ==
    /\ pc # "body" => run = "go" /\ todo = <<>>
    /\ pc = "body" /\ run # "stay" => todo = <<>> /\ Children(cur) = {}
    /\ stage \in Nat /\ stage <= MaxStages
    /\ Live # {} => stage < MaxStages
    /\ created = 0 => Live = {} /\ \A q \in Queue : ~fCompleted[q]

InMemoExpr(e) == e \in GExpr /\ e \in Range(gexprs[GroupOf[e]])

(* What a job is about is in the memo. *)
TaskOK(t) ==
    /\ t.ejt \in Ejt
    /\ t.ejt \in {"GroupExploration", "GroupImplementation"} => t.g \in Group /\ gexprs[t.g] # <<>>
    /\ t.ejt \in {"GroupExpressionExploration", "GroupExpressionImplementation"} =>
          t.e \in Logical /\ InMemoExpr(t.e)
    /\ t.ejt = "Transformation" =>
          /\ t.g \in Phase /\ t.e \in Logical /\ InMemoExpr(t.e)
          /\ t.n \in DOMAIN Xform[stage][t.g][t.e]
    /\ t.ejt = "GroupOptimization" =>
          t.c \in Ctx /\ t.g = CtxGroup[t.c] /\ gexprs[t.g] # <<>>
    /\ t.ejt = "GroupExpressionOptimization" =>
          /\ t.e \notin Logical /\ InMemoExpr(t.e) /\ t.c \in Ctx /\ CtxGroup[t.c] = GroupOf[t.e]
          /\ t.n \in DOMAIN Request[t.e][t.c]
          /\ t.cte # None => t.cte \in Ctx /\ 1 \in DOMAIN Kids[t.e] /\ CtxGroup[t.cte] = Kids[t.e][1]

(* The cursor of a job stands on an expression of the group of its task t. *)
CursorOK(t, s) == s.last # None => t.g \in Group /\ s.last \in Range(gexprs[t.g])

JobsInv ==
    \A j \in Live : TaskOK(task[j]) /\ pjq[j] = QueueOf(task[j]) /\ CursorOK(task[j], jsm[j])

TodoInv == \A i \in DOMAIN todo : TaskOK(todo[i])

SearchIInv == TypeInv /\ MemoInv /\ PlanInv /\ ControlInv /\ JobsInv /\ TodoInv

(* The inductive invariant of the scheduler. *)
SchedInv == IInv /\ ListOK /\ DfsInv
-----------------------------------------------------------------------------
(* The records of a job that has not been initialized, and the fields of records. *)
LEMMA TaskTypes ==
    /\ NoTask \in Task /\ NewJsm \in Jsm /\ NoPlan \in Plan
    /\ \A t \in Task :
          /\ t.ejt \in Ejt \cup {"None"} /\ t.g \in Group \cup Phase \cup {None}
          /\ t.e \in GExpr \cup {None} /\ t.c \in Ctx \cup {None} /\ t.n \in Nat
          /\ t.origin \in GExpr \cup {None} /\ t.cte \in Ctx \cup {None}
    /\ \A s \in Jsm :
          /\ s.est \in Est /\ s.last \in GExpr \cup {None} /\ s.eol \in 0..1
          /\ s.fKids \in BOOLEAN /\ s.fXforms \in BOOLEAN /\ s.ctxs \in Seq(Ctx)
          /\ s.child \in Nat \ {0} /\ s.fCTE \in BOOLEAN
    /\ \A p \in Plan : p.e \in GExpr \cup {None} /\ p.ctxs \in Seq(Ctx) /\ p.cost \in Nat
BY EmptyList DEF Task, Jsm, Plan, NoTask, NewJsm, NoPlan, Est

(* The ScheduleJob functions. *)
LEMMA NewTasks ==
    /\ \A ejt \in Ejt : \A g \in Group :
          LET t == GroupJob(ejt, g) IN t \in Task /\ t.ejt = ejt /\ t.g = g /\ t.e = None /\ t.c = None
    /\ \A ejt \in Ejt : \A e \in GExpr :
          LET t == GExprJob(ejt, e) IN t \in Task /\ t.ejt = ejt /\ t.e = e /\ t.g = None /\ t.c = None
    /\ \A ph \in Phase : \A e \in GExpr : \A n \in Nat :
          LET t == XformJob(ph, e, n)
          IN  t \in Task /\ t.ejt = "Transformation" /\ t.e = e /\ t.n = n /\ t.g = ph /\ t.c = None
    /\ \A c \in Ctx : \A o \in GExpr \cup {None} :
          LET t == GroupOptimization(c, o)
          IN  t \in Task /\ t.ejt = "GroupOptimization" /\ t.c = c /\ t.g = CtxGroup[c]
              /\ t.origin = o /\ t.e = None
    /\ \A e \in GExpr : \A c \in Ctx : \A n \in Nat : \A x \in Ctx \cup {None} :
          LET t == GExprOptimization(e, c, n, x)
          IN  t \in Task /\ t.ejt = "GroupExpressionOptimization" /\ t.e = e /\ t.c = c
              /\ t.n = n /\ t.cte = x /\ t.g = None
<1>1. /\ "Transformation" \in Ejt /\ "GroupOptimization" \in Ejt
      /\ "GroupExpressionOptimization" \in Ejt
  BY DEF Ejt
<1>2. \A c \in Ctx : CtxGroup[c] \in Group
  BY SearchAssumption
<1>u. \A t \in Task : /\ \A x \in Ejt : [t EXCEPT !.ejt = x] \in Task
                      /\ \A x \in GExpr : [t EXCEPT !.e = x] \in Task
                      /\ \A x \in Ctx : [t EXCEPT !.c = x] \in Task
                      /\ \A x \in Nat : [t EXCEPT !.n = x] \in Task
                      /\ \A x \in Phase : [t EXCEPT !.g = x] \in Task
                      /\ \A x \in Ctx \cup {None} : [t EXCEPT !.cte = x] \in Task
  BY DEF Task
<1>3. \A ejt \in Ejt : \A g \in Group :
          LET t == GroupJob(ejt, g) IN t \in Task /\ t.ejt = ejt /\ t.g = g /\ t.e = None /\ t.c = None
  BY DEF GroupJob, NoTask, Task
<1>4. \A ejt \in Ejt : \A e \in GExpr :
          LET t == GExprJob(ejt, e) IN t \in Task /\ t.ejt = ejt /\ t.e = e /\ t.g = None /\ t.c = None
  BY DEF GExprJob, NoTask, Task
<1>5. \A ph \in Phase : \A e \in GExpr : \A n \in Nat :
          LET t == XformJob(ph, e, n)
          IN  t \in Task /\ t.ejt = "Transformation" /\ t.e = e /\ t.n = n /\ t.g = ph /\ t.c = None
  <2> TAKE ph \in Phase
  <2> TAKE e \in GExpr
  <2> TAKE n \in Nat
  <2> DEFINE t1 == [NoTask EXCEPT !.ejt = "Transformation"]
             t2 == [t1 EXCEPT !.e = e]
             t3 == [t2 EXCEPT !.n = n]
             t4 == [t3 EXCEPT !.g = ph]
  <2>1. t1 \in Task
    BY <1>1, <1>u, TaskTypes
  <2>2. t2 \in Task
    BY <1>u, <2>1
  <2>3. t3 \in Task
    BY <1>u, <2>2
  <2>4. t4 \in Task
    BY <1>u, <2>3
  <2>5. XformJob(ph, e, n) = t4
    BY Zenon DEF XformJob
  <2>6. /\ t4.ejt = "Transformation" /\ t4.e = e /\ t4.n = n /\ t4.g = ph /\ t4.c = None
    BY DEF NoTask
  <2> QED
    BY <2>4, <2>5, <2>6
<1>6. \A c \in Ctx : \A o \in GExpr \cup {None} :
          LET t == GroupOptimization(c, o)
          IN  t \in Task /\ t.ejt = "GroupOptimization" /\ t.c = c /\ t.g = CtxGroup[c]
              /\ t.origin = o /\ t.e = None
  BY <1>1, <1>2 DEF GroupOptimization, NoTask, Task
<1>7. \A e \in GExpr : \A c \in Ctx : \A n \in Nat : \A x \in Ctx \cup {None} :
          LET t == GExprOptimization(e, c, n, x)
          IN  t \in Task /\ t.ejt = "GroupExpressionOptimization" /\ t.e = e /\ t.c = c
              /\ t.n = n /\ t.cte = x /\ t.g = None
  <2> TAKE e \in GExpr
  <2> TAKE c \in Ctx
  <2> TAKE n \in Nat
  <2> TAKE x \in Ctx \cup {None}
  <2> DEFINE t1 == [NoTask EXCEPT !.ejt = "GroupExpressionOptimization"]
             t2 == [t1 EXCEPT !.e = e]
             t3 == [t2 EXCEPT !.c = c]
             t4 == [t3 EXCEPT !.n = n]
             t5 == [t4 EXCEPT !.cte = x]
  <2>1. t1 \in Task
    BY <1>1, <1>u, TaskTypes
  <2>2. t2 \in Task
    BY <1>u, <2>1
  <2>3. t3 \in Task
    BY <1>u, <2>2
  <2>4. t4 \in Task
    BY <1>u, <2>3
  <2>5. t5 \in Task
    BY <1>u, <2>4
  <2>6. GExprOptimization(e, c, n, x) = t5
    BY Zenon DEF GExprOptimization
  <2>7. /\ t5.ejt = "GroupExpressionOptimization" /\ t5.e = e /\ t5.c = c
        /\ t5.n = n /\ t5.cte = x /\ t5.g = None
    BY DEF NoTask
  <2> QED
    BY <2>5, <2>6, <2>7
<1> QED
  BY <1>3, <1>4, <1>5, <1>6, <1>7, Zenon

(* Updates of a job's bookkeeping: all other fields stay. *)
SameExcept(r, s, fields) ==
    /\ r \in Jsm
    /\ "est" \notin fields => r.est = s.est
    /\ "last" \notin fields => r.last = s.last
    /\ "eol" \notin fields => r.eol = s.eol
    /\ "fKids" \notin fields => r.fKids = s.fKids
    /\ "fXforms" \notin fields => r.fXforms = s.fXforms
    /\ "ctxs" \notin fields => r.ctxs = s.ctxs
    /\ "child" \notin fields => r.child = s.child
    /\ "fCTE" \notin fields => r.fCTE = s.fCTE

(* CJobStateMachine::FRun changes the state only. *)
LEMMA StateEst ==
    \A s \in Jsm : \A est \in Est :
       [s EXCEPT !.est = est].est = est /\ SameExcept([s EXCEPT !.est = est], s, {"est"})
BY DEF SameExcept, Jsm

(* The cursor moves. *)
LEMMA StateLast ==
    \A s \in Jsm : \A x \in GExpr \cup {None} :
       [s EXCEPT !.last = x].last = x /\ SameExcept([s EXCEPT !.last = x], s, {"last"})
BY DEF SameExcept, Jsm

(* The children are marked as scheduled. *)
LEMMA StateKids ==
    \A s \in Jsm : [s EXCEPT !.fKids = TRUE].fKids /\ SameExcept([s EXCEPT !.fKids = TRUE], s, {"fKids"})
BY DEF SameExcept, Jsm

(* The transformations are marked as scheduled. *)
LEMMA StateXforms ==
    \A s \in Jsm : /\ [s EXCEPT !.fXforms = TRUE].fXforms
                   /\ SameExcept([s EXCEPT !.fXforms = TRUE], s, {"fXforms"})
BY DEF SameExcept, Jsm

(* The CTE optimization is marked as scheduled. *)
LEMMA StateCTE ==
    \A s \in Jsm : [s EXCEPT !.fCTE = TRUE].fCTE /\ SameExcept([s EXCEPT !.fCTE = TRUE], s, {"fCTE"})
BY DEF SameExcept, Jsm

(* The optimization level is set. *)
LEMMA StateEol ==
    \A s \in Jsm : \A n \in 0..1 :
       [s EXCEPT !.eol = n].eol = n /\ SameExcept([s EXCEPT !.eol = n], s, {"eol"})
BY DEF SameExcept, Jsm

(* CJobGroupOptimization: the level is damped and the cursor reset. *)
LEMMA StateDamp ==
    \A s \in Jsm : s.eol > 0 =>
       LET r == [s EXCEPT !.eol = s.eol - 1, !.last = None]
       IN  r.last = None /\ SameExcept(r, s, {"eol", "last"})
<1>1. \A s \in Jsm : s.eol > 0 => s.eol - 1 \in 0..1
  BY DEF Jsm
<1>2. \A s \in Jsm : \A n \in 0..1 :
         LET r == [s EXCEPT !.eol = n, !.last = None]
         IN  r.last = None /\ SameExcept(r, s, {"eol", "last"})
  BY DEF SameExcept, Jsm
<1> QED
  BY <1>1, <1>2, Zenon

(* A scalar child is passed. *)
LEMMA StateChild ==
    \A s \in Jsm :
       LET r == [s EXCEPT !.child = s.child + 1]
       IN  r.child = s.child + 1 /\ SameExcept(r, s, {"child"})
BY DEF SameExcept, Jsm

(* A child is optimized under a context, which the job keeps. *)
LEMMA StateCtxs ==
    \A s \in Jsm : \A c \in Ctx :
       LET r == [s EXCEPT !.child = s.child + 1, !.ctxs = Append(s.ctxs, c)]
       IN  r.child = s.child + 1 /\ r.ctxs = Append(s.ctxs, c) /\ SameExcept(r, s, {"child", "ctxs"})
<1> TAKE s \in Jsm
<1> TAKE c \in Ctx
<1> DEFINE x == Append(s.ctxs, c)
           m == s.child + 1
<1>1. s.ctxs \in Seq(Ctx) /\ s.child \in Nat \ {0}
  BY DEF Jsm
<1>2. x \in Seq(Ctx) /\ m \in Nat \ {0}
  BY <1>1
<1>3. \A y \in Seq(Ctx) : \A k \in Nat \ {0} :
         LET r == [s EXCEPT !.child = k, !.ctxs = y]
         IN  r.child = k /\ r.ctxs = y /\ SameExcept(r, s, {"child", "ctxs"})
  BY DEF SameExcept, Jsm
<1>4. LET r == [s EXCEPT !.child = m, !.ctxs = x]
      IN  r.child = m /\ r.ctxs = x /\ SameExcept(r, s, {"child", "ctxs"})
  <2> HIDE DEF x, m
  <2> QED
    BY ONLY <1>2, <1>3, Zenon
<1> QED
  BY <1>4, Zenon

(* A job's queue is one of the memo, or none. *)
LEMMA TaskQueue == \A t \in Task : TaskOK(t) => QueueOf(t) \in Queue \cup {None}
<1> SUFFICES ASSUME NEW t \in Task, TaskOK(t) PROVE QueueOf(t) \in Queue \cup {None}
  OBVIOUS
<1>1. /\ \A g \in Group : <<"Exploration", g>> \in Queue /\ <<"Implementation", g>> \in Queue
      /\ \A c \in Ctx : <<"Optimization", c>> \in Queue
  BY SearchAssumption
<1> QED
  BY <1>1 DEF TaskOK, QueueOf

(* The memo only grows. *)
Grows == \A g \in Group : /\ Range(gexprs[g]) \subseteq Range(gexprs'[g])
                          /\ gexprs[g] # <<>> => gexprs'[g] # <<>>

(* What a job was initialized with stays valid while the memo grows in a stage. *)
LEMMA TaskStays ==
    ASSUME stage' = stage, Grows
    PROVE  /\ \A t \in Task : TaskOK(t) => TaskOK(t)'
           /\ \A t \in Task, s \in Jsm : CursorOK(t, s) => CursorOK(t, s)'
<1>1. ASSUME NEW t \in Task, TaskOK(t) PROVE TaskOK(t)'
  <2>1. \A e : InMemoExpr(e) => InMemoExpr(e)'
    BY SearchAssumption DEF InMemoExpr, Grows
  <2>2. \A c \in Ctx : CtxGroup[c] \in Group
    BY SearchAssumption
  <2> QED
    BY <1>1, <2>1, <2>2 DEF TaskOK, Grows
<1>2. ASSUME NEW t \in Task, NEW s \in Jsm, CursorOK(t, s) PROVE CursorOK(t, s)'
  BY <1>2 DEF CursorOK, Grows
<1> QED
  BY <1>1, <1>2

(* A memo that stays as it is grows. *)
LEMMA GrowsRefl == ASSUME gexprs' = gexprs PROVE Grows
BY DEF Grows

(* The invariant holds when CEngine::Optimize starts. *)
LEMMA SearchInitInv == SearchInit => SearchIInv
<1> SUFFICES ASSUME SearchInit PROVE SearchIInv
  OBVIOUS
<1> USE DEF SearchInit, LifoInit, Init
<1>1. Live = {} /\ todo = <<>> /\ pc = "idle" /\ stage = 0 /\ MaxStages \in Nat
  BY JobAssumption DEF Live
<1>2. TypeInv
  <2>1. /\ task \in [Job -> Task] /\ jsm \in [Job -> Jsm]
    BY TaskTypes
  <2>2. /\ todo \in Seq(Task) /\ run \in {"go", "stay", "final"} /\ timedOut \in BOOLEAN
    BY EmptyList
  <2>3. gexprs \in [Group -> Seq(GExpr)]
    BY SeedAssumption
  <2>4. /\ gstate \in [Group -> Unexplored..Implemented]
        /\ estate \in [GExpr -> Unexplored..Implemented]
        /\ poc \in [Stages -> [Ctx -> Unoptimized..Optimized]]
    BY DEF Unexplored, Implemented, Unoptimized, Optimized
  <2>5. best \in [Stages -> [Ctx -> Plan]]
    <3>1. [c \in Ctx |-> NoPlan] \in [Ctx -> Plan]
      BY TaskTypes
    <3> QED
      BY <3>1
  <2> QED
    BY <2>1, <2>2, <2>3, <2>4, <2>5 DEF TypeInv
<1>3. MemoInv
  BY SeedAssumption, SearchAssumption DEF MemoInv
<1>4. PlanInv
  BY DEF PlanInv
<1>5. ControlInv /\ JobsInv /\ TodoInv
  BY <1>1 DEF ControlInv, JobsInv, TodoInv
<1> QED
  BY <1>2, <1>3, <1>4, <1>5 DEF SearchIInv

(* PjCreate hands out an object that is free. *)
LEMMA FreeIs ==
    ASSUME HasFreeJob
    PROVE  FreeJob \in Job /\ ejs[FreeJob] = "Free" /\ FreeJob \notin Live
BY DEF HasFreeJob, FreeJob, Live

(* The job that optimizes the root group is well formed. *)
LEMMA MainTask ==
    LET main == GroupOptimization(RootCtx, None)
    IN  /\ main \in Task /\ QueueOf(main) = <<"Optimization", RootCtx>> /\ QueueOf(main) \in Queue
        /\ main.ejt = "GroupOptimization" /\ main.g = Root /\ main.c = RootCtx
        /\ gexprs[Root] # <<>> => TaskOK(main)
<1> DEFINE main == GroupOptimization(RootCtx, None)
<1>1. main \in Task /\ main.ejt = "GroupOptimization" /\ main.g = Root /\ main.c = RootCtx /\ RootCtx \in Ctx
  BY NewTasks, SearchAssumption
<1> HIDE DEF main
<1>2. QueueOf(main) = <<"Optimization", RootCtx>>
  BY <1>1 DEF QueueOf
<1>3. <<"Optimization", RootCtx>> \in Queue
  BY <1>1, SearchAssumption
<1>4. gexprs[Root] # <<>> => TaskOK(main)
  BY <1>1, SearchAssumption DEF TaskOK, Ejt
<1> QED
  BY <1>1, <1>2, <1>3, <1>4 DEF main

(* A job that the scheduler creates for task t. *)
LEMMA CreateStep ==
    ASSUME SearchIInv, NEW j \in Job, j \notin Live, NEW t \in Task, TaskOK(t), NEW p, NEW lvl,
           Create(j, QueueOf(t), p, lvl), IInv, Enlist(j, t),
           UNCHANGED <<gexprs, stage>>
    PROVE  /\ Live' = Live \cup {j} /\ JobsInv' /\ task' \in [Job -> Task] /\ jsm' \in [Job -> Jsm]
           /\ created' # 0 /\ task'[j] = t /\ jsm'[j] = NewJsm
           /\ \A k \in Job \ {j} : task'[k] = task[k] /\ jsm'[k] = jsm[k] /\ pjq'[k] = pjq[k]
                                   /\ parent'[k] = parent[k]
           /\ pjq'[j] = QueueOf(t) /\ parent'[j] = p
<1>1. /\ ejs \in [Job -> EJobState] /\ pjq \in [Job -> Queue \cup {None}] /\ created \in Nat
      /\ task \in [Job -> Task] /\ jsm \in [Job -> Jsm] /\ parent \in [Job -> Job \cup {None}]
  BY DEF IInv, TypeOK, SearchIInv, TypeInv
<1>2. Live' = Live \cup {j} /\ created' # 0
  BY <1>1 DEF Create, Live
<1>3. /\ task' \in [Job -> Task] /\ jsm' \in [Job -> Jsm] /\ task'[j] = t /\ jsm'[j] = NewJsm
      /\ \A k \in Job \ {j} : task'[k] = task[k] /\ jsm'[k] = jsm[k] /\ pjq'[k] = pjq[k]
                              /\ parent'[k] = parent[k]
      /\ pjq'[j] = QueueOf(t) /\ parent'[j] = p
  BY <1>1, TaskTypes DEF Create, Enlist
<1>4. ASSUME NEW k \in Live' PROVE TaskOK(task[k])' /\ pjq'[k] = QueueOf(task'[k]) /\ CursorOK(task[k], jsm[k])'
  <2>1. \A u \in Task : TaskOK(u) => TaskOK(u)'
    BY GrowsRefl, TaskStays
  <2>2. \A u \in Task, s \in Jsm : CursorOK(u, s) => CursorOK(u, s)'
    BY GrowsRefl, TaskStays
  <2>3. CASE k = j
    <3>1. TaskOK(t)'
      BY <2>1
    <3>2. CursorOK(task[k], jsm[k])'
      BY <2>3, <1>3 DEF CursorOK, NewJsm
    <3>3. TaskOK(task[k])'
      BY <2>3, <3>1, <1>3 DEF TaskOK, InMemoExpr
    <3> QED
      BY <3>2, <3>3, <2>3, <1>3
  <2>4. CASE k # j
    <3>1. k \in Live /\ k \in Job \ {j}
      BY <2>4, <1>2 DEF Live
    <3>2. TaskOK(task[k]) /\ pjq[k] = QueueOf(task[k]) /\ CursorOK(task[k], jsm[k])
      BY <3>1 DEF SearchIInv, JobsInv
    <3>3. task[k] \in Task /\ jsm[k] \in Jsm /\ task'[k] = task[k] /\ jsm'[k] = jsm[k] /\ pjq'[k] = pjq[k]
      BY <3>1, <1>1, <1>3
    <3>4. TaskOK(task[k])'
      <4>1. \A u : u = task'[k] /\ TaskOK(u)' => TaskOK(task[k])'
        BY DEF TaskOK, InMemoExpr
      <4> QED
        BY <4>1, <2>1, <3>2, <3>3
    <3>5. CursorOK(task[k], jsm[k])'
      BY <3>2, <3>3 DEF CursorOK
    <3> QED
      BY <3>2, <3>3, <3>4, <3>5
  <2> QED
    BY <2>3, <2>4
<1>5. JobsInv'
  BY <1>4 DEF JobsInv
<1> QED
  BY <1>2, <1>3, <1>5

(* Steps outside of a job's own action: no variable of the memo, of the plans or
   of a job that stays alive changes. *)
LEMMA JobsStay ==
    ASSUME SearchIInv, UNCHANGED <<task, gexprs, stage, pjq>>, Live' \subseteq Live,
           \A k \in Live' : jsm'[k].last = jsm[k].last
    PROVE  JobsInv'
<1>1. SUFFICES ASSUME NEW k \in Live'
               PROVE  TaskOK(task[k])' /\ pjq'[k] = QueueOf(task'[k]) /\ CursorOK(task[k], jsm[k])'
  BY DEF JobsInv
<1>2. TaskOK(task[k]) /\ pjq[k] = QueueOf(task[k]) /\ CursorOK(task[k], jsm[k])
  BY <1>1 DEF SearchIInv, JobsInv
<1> QED
  BY <1>2 DEF TaskOK, InMemoExpr, CursorOK

(* A step of CScheduler::ExecuteJobs outside of the job keeps the invariant. *)
LEMMA LoopKeeps == ASSUME SchedInv, SearchIInv, LoopStep, UNCHANGED searchVars PROVE SearchIInv'
<1> USE DEF searchVars, bodyVars, memoVars, planVars
<1>1. /\ UNCHANGED <<parent, pjq, fCompleted, created, stage>>
      /\ Live' \subseteq Live
      /\ pc \in {"retrieve", "execute", "notify", "post"}
      /\ pc' = "body" => pc = "execute" /\ cur' = cur /\ Children(cur) = {} /\ Live' = Live
  BY LoopFacts DEF SchedInv
<1>2. TypeInv' /\ MemoInv' /\ PlanInv' /\ TodoInv'
  BY <1>1 DEF SearchIInv, TypeInv, MemoInv, PlanInv, TodoInv, TaskOK, InMemoExpr
<1>3. ControlInv'
  <2>1. run = "go" /\ todo = <<>>
    BY <1>1 DEF SearchIInv, ControlInv
  <2>2. pc' = "body" => Children(cur)' = {}
    BY <1>1 DEF Children
  <2> QED
    BY <1>1, <2>1, <2>2 DEF SearchIInv, ControlInv
<1>4. JobsInv'
  BY <1>1, JobsStay
<1> QED
  BY <1>2, <1>3, <1>4 DEF SearchIInv

(* The timeout of the stage keeps the invariant. *)
LEMMA TimeOutKeeps == ASSUME SearchIInv, TimeOut PROVE SearchIInv'
<1> USE DEF TimeOut, lifoVars, vars, jobVars, queueVars, loopVars, bodyVars, memoVars, planVars
<1>1. Live' = Live /\ UNCHANGED <<task, jsm, gexprs, stage, pjq, parent>>
  BY DEF Live
<1>2. TypeInv' /\ MemoInv' /\ PlanInv' /\ TodoInv'
  BY DEF SearchIInv, TypeInv, MemoInv, PlanInv, TodoInv, TaskOK, InMemoExpr
<1>3. ControlInv'
  BY <1>1 DEF SearchIInv, ControlInv, Children
<1>4. JobsInv'
  BY <1>1, JobsStay
<1> QED
  BY <1>2, <1>3, <1>4 DEF SearchIInv

(* The end of a stage keeps the invariant: no job is in use. *)
LEMMA FinalizeKeeps ==
    ASSUME SchedInv, SearchIInv, FinalizeStage
    PROVE  SearchIInv' /\ Live' = {} /\ Live = {}
<1> USE DEF FinalizeStage, FinalizeSearchStage, jobVars, loopVars, bodyVars
<1>1. Live = {}
  <2>1. CASE Cycle
    <3>1. PICK j \in Live : Parked(j)
      BY <2>1 DEF Cycle
    <3>2. pjq[j] \in Queue /\ j \in Range(queued[pjq[j]]) /\ queued[pjq[j]] = <<>>
      BY <3>1 DEF Parked, SchedInv, IInv, TypeOK, Live
    <3> QED
      BY <3>2, EmptyList
  <2>2. CASE \E d \in [Job -> Nat] : Dfs(d)
    BY <2>2 DEF Dfs, FreshInv
  <2> QED
    BY <2>1, <2>2 DEF SchedInv, DfsInv
<1>2. Live' = {}
  BY <1>1 DEF Live
<1>3. run = "go" /\ todo = <<>>
  BY DEF SearchIInv, ControlInv
<1>4. TypeInv'
  <2>1. /\ gstate' \in [Group -> Unexplored..Implemented]
        /\ estate' \in [GExpr -> Unexplored..Implemented]
    BY DEF Unexplored, Implemented
  <2> QED
    BY <2>1 DEF SearchIInv, TypeInv
<1>5. MemoInv' /\ PlanInv' /\ TodoInv' /\ JobsInv'
  BY <1>2, <1>3 DEF SearchIInv, MemoInv, PlanInv, TodoInv, JobsInv
<1>6. ControlInv'
  <2>1. stage' \in Nat /\ stage' <= MaxStages
    BY JobAssumption DEF SearchIInv, ControlInv
  <2> QED
    BY <1>2, <1>3, <2>1 DEF ControlInv
<1> QED
  BY <1>1, <1>2, <1>4, <1>5, <1>6 DEF SearchIInv

(* The start of a stage keeps the invariant. *)
LEMMA OptimizeKeeps == ASSUME SchedInv, SearchIInv, OptimizeStage PROVE SearchIInv'
<1> DEFINE main == GroupOptimization(RootCtx, None)
           j == FreeJob
           q == QueueOf(main)
<1> USE DEF memoVars, planVars
<1>1. /\ stage < MaxStages /\ ScheduleMainJob(j, q) /\ Enlist(j, main) /\ timedOut' = FALSE /\ HasFreeJob
      /\ UNCHANGED <<todo, run, gexprs, gstate, estate, poc, best>>
  BY DEF OptimizeStage
<1>2. j \in Job /\ j \notin Live
  BY <1>1, FreeIs
<1>3. main \in Task /\ TaskOK(main)
  BY MainTask DEF SearchIInv, MemoInv
<1> HIDE DEF main, j
<1>4. Create(j, QueueOf(main), None, Level[q]) /\ pc = "idle" /\ pc' = "retrieve" /\ UNCHANGED <<queueVars, cur, stage>>
  BY <1>1 DEF ScheduleMainJob
<1>5. /\ Live' = Live \cup {j} /\ JobsInv' /\ task' \in [Job -> Task] /\ jsm' \in [Job -> Jsm]
      /\ created' # 0
  BY <1>1, <1>2, <1>3, <1>4, CreateStep DEF SchedInv
<1>6. TypeInv' /\ MemoInv' /\ PlanInv'
  BY <1>1, <1>5 DEF SearchIInv, TypeInv, MemoInv, PlanInv
<1>7. todo' = <<>> /\ run' = "go"
  BY <1>1, <1>4 DEF SearchIInv, ControlInv
<1>8. TodoInv' /\ ControlInv'
  BY <1>1, <1>4, <1>5, <1>7 DEF TodoInv, ControlInv, SearchIInv
<1> QED
  BY <1>5, <1>6, <1>8 DEF SearchIInv

(* The tail of a list of tasks. *)
LEMMA TailIs == \A s \in Seq(Task) : s # <<>> =>
                   /\ Tail(s) \in Seq(Task) /\ Head(s) = s[1] /\ 1 \in DOMAIN s /\ Head(s) \in Task
                   /\ \A i \in DOMAIN Tail(s) : i + 1 \in DOMAIN s /\ Tail(s)[i] = s[i + 1]
OBVIOUS

(* CScheduler::Add keeps the invariant. *)
LEMMA AddKeeps ==
    ASSUME SchedInv, SearchIInv, AddJob, AddChild(FreeJob, QueueOf(Head(todo)))
    PROVE  SearchIInv'
<1> DEFINE t == Head(todo)
           j == FreeJob
           q == QueueOf(t)
<1> USE DEF memoVars, planVars
<1>1. /\ AddChild(j, q) /\ Enlist(j, t) /\ HasFreeJob /\ todo # <<>> /\ todo' = Tail(todo)
      /\ UNCHANGED <<run, gexprs, gstate, estate, poc, best, timedOut>>
  BY DEF AddJob
<1>2. j \in Job /\ j \notin Live
  BY <1>1, FreeIs
<1>3. todo \in Seq(Task)
  BY DEF SearchIInv, TypeInv
<1>4. t \in Task /\ TaskOK(t) /\ todo' \in Seq(Task) /\ \A i \in DOMAIN todo' : i + 1 \in DOMAIN todo /\ todo'[i] = todo[i + 1]
  BY <1>1, <1>3, TailIs DEF SearchIInv, TodoInv
<1> HIDE DEF t, j
<1>5. (\E lvl : Create(j, QueueOf(t), cur, lvl)) /\ pc = "body" /\ pc' = "body" /\ UNCHANGED <<queueVars, cur, stage>>
  BY <1>1 DEF AddChild, loopVars
<1>6. /\ Live' = Live \cup {j} /\ JobsInv' /\ task' \in [Job -> Task] /\ jsm' \in [Job -> Jsm]
      /\ created' # 0
  BY <1>1, <1>2, <1>4, <1>5, CreateStep DEF SchedInv
<1>7. TypeInv' /\ MemoInv' /\ PlanInv'
  BY <1>1, <1>4, <1>6 DEF SearchIInv, TypeInv, MemoInv, PlanInv
<1>8. TodoInv'
  BY <1>1, <1>4, <1>5 DEF SearchIInv, TodoInv, TaskOK, InMemoExpr
<1>9. run' = "stay"
  BY <1>1, <1>5 DEF SearchIInv, ControlInv, TypeInv
<1>10. cur \in Live
  BY <1>5, CurIsRunning DEF SchedInv
<1>11. ControlInv'
  BY <1>1, <1>5, <1>6, <1>9, <1>10 DEF SearchIInv, ControlInv
<1> QED
  BY <1>6, <1>7, <1>8, <1>11 DEF SearchIInv

(* The return of FRun keeps the invariant. *)
LEMMA BodyEnds == ASSUME SchedInv, SearchIInv, Suspend \/ Complete PROVE SearchIInv'
<1> USE DEF memoVars, planVars, jobVars
<1>1. /\ todo = <<>> /\ run' = "go" /\ UNCHANGED <<task, jsm, todo, gexprs, gstate, estate, poc, best, timedOut>>
      /\ UNCHANGED <<ejs, parent, pjq, created, stage>> /\ pc = "body" /\ pc' # "body"
  BY DEF Suspend, Complete, BodySuspends, BodyCompletes, queueVars
<1>2. Live' = Live
  BY <1>1 DEF Live
<1>3. created # 0
  <2>1. cur \in Live
    BY <1>1, CurIsRunning DEF SchedInv
  <2> QED
    BY <2>1 DEF SearchIInv, ControlInv
<1>4. TypeInv' /\ MemoInv' /\ PlanInv'
  BY <1>1 DEF SearchIInv, TypeInv, MemoInv, PlanInv
<1>5. TodoInv'
  BY <1>1 DEF TodoInv
<1>6. ControlInv'
  BY <1>1, <1>2, <1>3 DEF SearchIInv, ControlInv
<1>7. JobsInv'
  BY <1>1, <1>2, JobsStay
<1> QED
  BY <1>4, <1>5, <1>6, <1>7 DEF SearchIInv

(* Where the executing job stands. *)
LEMMA AtBody ==
    ASSUME SchedInv, SearchIInv, pc = "body"
    PROVE  /\ cur \in Live /\ cur \in Job /\ task[cur] \in Task /\ jsm[cur] \in Jsm
           /\ TaskOK(task[cur]) /\ CursorOK(task[cur], jsm[cur]) /\ pjq[cur] = QueueOf(task[cur])
           /\ stage \in Stages /\ created # 0
<1>1. cur \in Live /\ cur \in Job
  BY CurIsRunning DEF SchedInv
<1>2. task[cur] \in Task /\ jsm[cur] \in Jsm
  BY <1>1 DEF SearchIInv, TypeInv
<1>3. stage \in Stages /\ created # 0
  BY <1>1, JobAssumption DEF SearchIInv, ControlInv, Stages
<1> QED
  BY <1>1, <1>2, <1>3 DEF SearchIInv, JobsInv

(* A bookkeeping that is not changed. *)
LEMMA SameState == ASSUME SearchIInv, NEW j \in Job PROVE jsm = [jsm EXCEPT ![j] = jsm[j]]
BY DEF SearchIInv, TypeInv

(* A list made from another one. *)
LEMMA MapIs ==
    ASSUME NEW A, NEW s \in Seq(A), NEW h, h = [i \in DOMAIN s |-> h[i]],
           NEW B, \A i \in DOMAIN s : h[i] \in B
    PROVE  h \in Seq(B) /\ DOMAIN h = DOMAIN s
<1>1. Len(s) \in Nat /\ DOMAIN s = 1..Len(s)
  OBVIOUS
<1>2. h \in [1..Len(s) -> B]
  BY <1>1
<1> QED
  BY <1>1, <1>2

(* An action of the state machine keeps the invariant if its own bookkeeping, its
   effect on the memo and the plans, and the jobs it adds are well formed. *)
LEMMA ActionKeeps ==
    ASSUME SchedInv, SearchIInv, NEW ejt, NEW est, InState(ejt, est),
           NEW me \in Jsm, jsm' = [jsm EXCEPT ![cur] = me],
           me.last # None => task[cur].g \in Group /\ me.last \in Range(gexprs'[task[cur].g]),
           gexprs' \in [Group -> Seq(GExpr)], Grows, MemoInv',
           gstate' \in [Group -> Unexplored..Implemented],
           estate' \in [GExpr -> Unexplored..Implemented],
           poc' \in [Stages -> [Ctx -> Unoptimized..Optimized]],
           best' \in [Stages -> [Ctx -> Plan]], PlanInv',
           run' \in {"go", "stay", "final"}, run' # "stay" => todo' = <<>>,
           todo' \in Seq(Task), TodoInv'
    PROVE  SearchIInv'
<1>1. /\ UNCHANGED <<ejs, parent, pjq, created, stage, cur, pc, fCompleted, task, timedOut>>
      /\ pc = "body" /\ todo = <<>> /\ run = "go"
  BY DEF InState, lifoVars, vars, jobVars, queueVars, loopVars
<1>2. Live' = Live /\ Children(cur)' = Children(cur)
  BY <1>1 DEF Live, Children
<1>3. /\ cur \in Job /\ jsm \in [Job -> Jsm] /\ task \in [Job -> Task]
  BY <1>1, AtBody DEF SearchIInv, TypeInv
<1>4. TypeInv'
  BY <1>1, <1>3 DEF SearchIInv, TypeInv
<1>5. ControlInv'
  BY <1>1, <1>2 DEF SearchIInv, ControlInv
<1>6. JobsInv'
  <2>1. SUFFICES ASSUME NEW k \in Live'
                 PROVE  TaskOK(task[k])' /\ pjq'[k] = QueueOf(task'[k]) /\ CursorOK(task[k], jsm[k])'
    BY DEF JobsInv
  <2>2. k \in Live /\ k \in Job
    BY <1>2 DEF Live
  <2>3. TaskOK(task[k]) /\ pjq[k] = QueueOf(task[k]) /\ CursorOK(task[k], jsm[k]) /\ task[k] \in Task /\ jsm[k] \in Jsm
    BY <2>2, <1>3 DEF SearchIInv, JobsInv
  <2>4. /\ \A t \in Task : TaskOK(t) => TaskOK(t)'
        /\ \A t \in Task, s \in Jsm : CursorOK(t, s) => CursorOK(t, s)'
    BY <1>1, TaskStays
  <2>5. TaskOK(task[k])'
    <3>1. \A u : u = task'[k] /\ TaskOK(u)' => TaskOK(task[k])'
      BY DEF TaskOK, InMemoExpr
    <3> QED
      BY <3>1, <2>3, <2>4, <1>1
  <2>6. CursorOK(task[k], jsm[k])'
    <3>1. CASE k = cur
      BY <3>1, <1>1, <1>3 DEF CursorOK
    <3>2. CASE k # cur
      <4>1. jsm'[k] = jsm[k] /\ task'[k] = task[k]
        BY <3>2, <1>1, <1>3, <2>2
      <4>2. \A u, s : u = task'[k] /\ s = jsm'[k] /\ CursorOK(u, s)' => CursorOK(task[k], jsm[k])'
        BY DEF CursorOK
      <4> QED
        BY <4>1, <4>2, <2>3, <2>4
    <3> QED
      BY <3>1, <3>2
  <2> QED
    BY <2>3, <2>5, <2>6, <1>1
<1> QED
  BY <1>4, <1>5, <1>6 DEF SearchIInv

(* An action that leaves the lists of the memo and the plans alone. *)
LEMMA BookKeeps ==
    ASSUME SchedInv, SearchIInv, NEW ejt, NEW est, InState(ejt, est),
           NEW me \in Jsm, jsm' = [jsm EXCEPT ![cur] = me],
           me.last # None => task[cur].g \in Group /\ me.last \in Range(gexprs[task[cur].g]),
           UNCHANGED <<gexprs, best>>,
           gstate' \in [Group -> Unexplored..Implemented],
           estate' \in [GExpr -> Unexplored..Implemented],
           poc' \in [Stages -> [Ctx -> Unoptimized..Optimized]],
           run' \in {"go", "stay", "final"}, run' # "stay" => todo' = <<>>,
           todo' \in Seq(Task), \A i \in DOMAIN todo' : TaskOK(todo'[i])
    PROVE  SearchIInv'
<1>1. /\ gexprs' \in [Group -> Seq(GExpr)] /\ best' \in [Stages -> [Ctx -> Plan]]
  BY DEF SearchIInv, TypeInv
<1>2. MemoInv' /\ PlanInv'
  BY DEF SearchIInv, MemoInv, PlanInv
<1>3. TodoInv'
  BY DEF InState, lifoVars, vars, TodoInv, TaskOK, InMemoExpr
<1>4. me.last # None => task[cur].g \in Group /\ me.last \in Range(gexprs'[task[cur].g])
  OBVIOUS
<1> QED
  BY <1>1, <1>2, <1>3, <1>4, GrowsRefl, ActionKeeps

(* The job moves to another state, or finishes. *)
LEMMA MoveKeeps ==
    ASSUME SchedInv, SearchIInv, NEW ejt, NEW est, InState(ejt, est),
           NEW to \in Est, Move(jsm[cur], to) \/ Finish, UNCHANGED <<gexprs, best>>,
           gstate' \in [Group -> Unexplored..Implemented],
           estate' \in [GExpr -> Unexplored..Implemented],
           poc' \in [Stages -> [Ctx -> Unoptimized..Optimized]]
    PROVE  SearchIInv'
<1>1. pc = "body" /\ todo = <<>>
  BY DEF InState
<1>2. todo' = <<>> /\ todo' \in Seq(Task) /\ \A i \in DOMAIN todo' : TaskOK(todo'[i])
  <2>1. todo' = <<>> /\ DOMAIN <<>> = {}
    BY <1>1 DEF Move, Finish
  <2> QED
    BY <2>1, EmptyList
<1>a. cur \in Job /\ jsm[cur] \in Jsm /\ CursorOK(task[cur], jsm[cur])
  BY <1>1, AtBody
<1>3. CASE Move(jsm[cur], to)
  <2> DEFINE me == [jsm[cur] EXCEPT !.est = to]
  <2>1. me \in Jsm /\ me.last = jsm[cur].last
    BY <1>a, StateEst DEF SameExcept
  <2>2. jsm' = [jsm EXCEPT ![cur] = me] /\ run' = "go"
    BY <1>3 DEF Move
  <2>3. me.last # None => task[cur].g \in Group /\ me.last \in Range(gexprs[task[cur].g])
    BY <2>1, <1>a DEF CursorOK
  <2> HIDE DEF me
  <2> QED
    BY <1>2, <2>1, <2>2, <2>3, BookKeeps
<1>4. CASE Finish
  <2> DEFINE me == jsm[cur]
  <2>1. jsm' = [jsm EXCEPT ![cur] = me] /\ run' = "final"
    BY <1>4, <1>a, SameState DEF Finish
  <2>3. me.last # None => task[cur].g \in Group /\ me.last \in Range(gexprs[task[cur].g])
    BY <1>a DEF CursorOK
  <2>4. me \in Jsm
    BY <1>a
  <2> HIDE DEF me
  <2> QED
    BY <1>2, <2>1, <2>3, <2>4, BookKeeps
<1> QED
  BY <1>3, <1>4

(* The job is suspended until the jobs it calls are done. *)
LEMMA StayKeeps ==
    ASSUME SchedInv, SearchIInv, NEW ejt, NEW est, InState(ejt, est),
           NEW me \in Jsm, Stay(me, todo'), UNCHANGED <<gexprs, best>>,
           me.last # None => task[cur].g \in Group /\ me.last \in Range(gexprs[task[cur].g]),
           gstate' \in [Group -> Unexplored..Implemented],
           estate' \in [GExpr -> Unexplored..Implemented],
           poc' \in [Stages -> [Ctx -> Unoptimized..Optimized]],
           todo' \in Seq(Task), \A i \in DOMAIN todo' : TaskOK(todo'[i])
    PROVE  SearchIInv'
BY BookKeeps DEF Stay

(* What is known of a state of the search. *)
LEMMA States ==
    ASSUME SearchIInv
    PROVE  /\ gstate \in [Group -> Unexplored..Implemented]
           /\ estate \in [GExpr -> Unexplored..Implemented]
           /\ poc \in [Stages -> [Ctx -> Unoptimized..Optimized]]
           /\ best \in [Stages -> [Ctx -> Plan]] /\ gexprs \in [Group -> Seq(GExpr)]
           /\ \A st \in Unexplored..Implemented :
                 /\ \A g : [gstate EXCEPT ![g] = st] \in [Group -> Unexplored..Implemented]
                 /\ \A e : [estate EXCEPT ![e] = st] \in [GExpr -> Unexplored..Implemented]
           /\ \A st \in Unoptimized..Optimized : \A c :
                 [poc EXCEPT ![stage][c] = st] \in [Stages -> [Ctx -> Unoptimized..Optimized]]
           /\ {Unexplored, Exploring, Explored, Implementing, Implemented} \subseteq Unexplored..Implemented
           /\ {Unoptimized, Optimizing, Optimized} \subseteq Unoptimized..Optimized
<1>1. /\ gstate \in [Group -> Unexplored..Implemented]
      /\ estate \in [GExpr -> Unexplored..Implemented]
      /\ poc \in [Stages -> [Ctx -> Unoptimized..Optimized]]
      /\ best \in [Stages -> [Ctx -> Plan]] /\ gexprs \in [Group -> Seq(GExpr)]
  BY DEF SearchIInv, TypeInv
<1>2. /\ {Unexplored, Exploring, Explored, Implementing, Implemented} \subseteq Unexplored..Implemented
      /\ {Unoptimized, Optimizing, Optimized} \subseteq Unoptimized..Optimized
  BY DEF Unexplored, Exploring, Explored, Implementing, Implemented, Unoptimized, Optimizing, Optimized
<1>3. ASSUME NEW st \in Unoptimized..Optimized, NEW c
      PROVE  [poc EXCEPT ![stage][c] = st] \in [Stages -> [Ctx -> Unoptimized..Optimized]]
  BY <1>1
<1> QED
  BY <1>1, <1>2, <1>3

(* The list of jobs of FScheduleGroupExpressions on T. *)
LEMMA GroupCalls ==
    ASSUME SchedInv, SearchIInv, pc = "body",
           task[cur].ejt \in {"GroupExploration", "GroupImplementation", "GroupOptimization"},
           NEW T, NEW new, new = Keep(After(gexprs[task[cur].g], jsm[cur].last), T)
    PROVE  /\ task[cur].g \in Group /\ gexprs[task[cur].g] \in Seq(GExpr) /\ new \in Seq(GExpr)
           /\ NewFacts(gexprs[task[cur].g], jsm[cur].last, T, GExpr, new)
           /\ \A e \in Range(new) : e \in T /\ e \in Range(gexprs[task[cur].g]) /\ InMemoExpr(e)
           /\ new # <<>> => Last(new) \in Range(gexprs[task[cur].g]) /\ Last(new) \in GExpr
<1> DEFINE t == task[cur]
           s == gexprs[t.g]
           last == jsm[cur].last
<1>1. t \in Task /\ TaskOK(t) /\ CursorOK(t, jsm[cur]) /\ jsm[cur] \in Jsm
  BY AtBody
<1>2. t.g \in Group
  BY <1>1, SearchAssumption DEF TaskOK
<1>3. s \in Seq(GExpr) /\ Distinct(s) /\ \A e \in Range(s) : GroupOf[e] = t.g
  BY <1>2 DEF SearchIInv, TypeInv, MemoInv
<1>4. last = None \/ last \in Range(s)
  BY <1>1 DEF CursorOK
<1>5. None \notin GExpr
  BY SearchAssumption
<1>6. NewFacts(s, last, T, GExpr, new)
  <2> HIDE DEF s, last
  <2>1. new = Keep(After(s, last), T)
    BY DEF s, last
  <2> QED
    BY <1>3, <1>4, <1>5, <2>1, NewIs
<1>7. new \in Seq(GExpr) /\ Range(new) \subseteq Range(s) \cap T /\ (new # <<>> => Last(new) \in Range(s))
  BY <1>6 DEF NewFacts
<1>8. \A e \in Range(s) : e \in GExpr
  BY <1>3 DEF Range
<1> QED
  BY <1>2, <1>3, <1>6, <1>7, <1>8 DEF InMemoExpr

(* The jobs that explore or implement group expressions. *)
LEMMA ExprJobs ==
    ASSUME SearchIInv, NEW s \in Seq(GExpr), \A e \in Range(s) : e \in Logical /\ InMemoExpr(e),
           NEW ejt \in {"GroupExpressionExploration", "GroupExpressionImplementation"},
           todo' = [i \in DOMAIN s |-> GExprJob(ejt, s[i])]
    PROVE  todo' \in Seq(Task) /\ \A i \in DOMAIN todo' : TaskOK(todo'[i])
<1> DEFINE h == [i \in DOMAIN s |-> GExprJob(ejt, s[i])]
<1>1. ASSUME NEW i \in DOMAIN s PROVE h[i] \in Task /\ TaskOK(h[i])
  <2>1. s[i] \in GExpr /\ s[i] \in Logical /\ InMemoExpr(s[i])
    BY DEF Range
  <2> DEFINE t == GExprJob(ejt, s[i])
  <2>2. t \in Task /\ t.ejt = ejt /\ t.e = s[i]
    BY <2>1, NewTasks DEF Ejt
  <2> HIDE DEF t
  <2>3. TaskOK(t)
    BY <2>1, <2>2 DEF TaskOK, Ejt
  <2> QED
    BY <2>2, <2>3 DEF t
<1>2. h \in Seq(Task) /\ DOMAIN h = DOMAIN s
  <2>1. h = [i \in DOMAIN s |-> h[i]]
    OBVIOUS
  <2> HIDE DEF h
  <2> QED
    BY <1>1, <2>1, MapIs
<1>3. todo' = h
  OBVIOUS
<1> HIDE DEF h
<1> QED
  BY <1>1, <1>2, <1>3

(* The jobs that explore or implement the children of a group expression. *)
LEMMA ChildJobs ==
    ASSUME SearchIInv, NEW e, InMemoExpr(e),
           NEW ejt \in {"GroupExploration", "GroupImplementation"},
           todo' = [i \in DOMAIN Kids[e] |-> GroupJob(ejt, Kids[e][i])]
    PROVE  todo' \in Seq(Task) /\ \A i \in DOMAIN todo' : TaskOK(todo'[i])
<1> DEFINE h == [i \in DOMAIN Kids[e] |-> GroupJob(ejt, Kids[e][i])]
<1>0. e \in GExpr /\ GroupOf[e] \in Group /\ Kids[e] \in Seq(Group) /\ e \in Range(gexprs[GroupOf[e]])
  BY SearchAssumption DEF InMemoExpr
<1>1. ASSUME NEW i \in DOMAIN Kids[e] PROVE h[i] \in Task /\ TaskOK(h[i])
  <2> DEFINE k == Kids[e][i]
  <2>1. k \in Group /\ gexprs[k] # <<>>
    BY <1>0 DEF Range, SearchIInv, MemoInv
  <2> DEFINE t == GroupJob(ejt, k)
  <2>2. t \in Task /\ t.ejt = ejt /\ t.g = k
    BY <2>1, NewTasks DEF Ejt
  <2> HIDE DEF t, k
  <2>3. TaskOK(t)
    BY <2>1, <2>2 DEF TaskOK, Ejt
  <2> QED
    BY <2>2, <2>3 DEF t, k
<1>2. h \in Seq(Task) /\ DOMAIN h = DOMAIN Kids[e]
  <2>1. h = [i \in DOMAIN Kids[e] |-> h[i]]
    OBVIOUS
  <2> HIDE DEF h
  <2> QED
    BY <1>0, <1>1, <2>1, MapIs
<1>3. todo' = h
  OBVIOUS
<1> HIDE DEF h
<1> QED
  BY <1>1, <1>2, <1>3

(* The transformation jobs of a group expression. *)
LEMMA XformJobs ==
    ASSUME SearchIInv, stage \in Stages, NEW e \in Logical, InMemoExpr(e), NEW ph \in Phase,
           todo' = [n \in DOMAIN Xform[stage][ph][e] |-> XformJob(ph, e, n)]
    PROVE  todo' \in Seq(Task) /\ \A i \in DOMAIN todo' : TaskOK(todo'[i])
<1> DEFINE x == Xform[stage][ph][e]
           h == [n \in DOMAIN x |-> XformJob(ph, e, n)]
<1>0. e \in GExpr /\ x \in Seq(SUBSET Seq(GExpr))
  BY ResultAssumption DEF InMemoExpr, Phase, Stages
<1>1. ASSUME NEW i \in DOMAIN x PROVE h[i] \in Task /\ TaskOK(h[i])
  <2>1. i \in Nat
    BY <1>0
  <2> DEFINE t == XformJob(ph, e, i)
  <2>2. t \in Task /\ t.ejt = "Transformation" /\ t.e = e /\ t.n = i /\ t.g = ph
    BY <1>0, <2>1, NewTasks
  <2> HIDE DEF t
  <2>3. TaskOK(t)
    BY <2>2 DEF TaskOK, Ejt
  <2> QED
    BY <2>2, <2>3 DEF t
<1>2. h \in Seq(Task) /\ DOMAIN h = DOMAIN x
  <2>1. h = [i \in DOMAIN x |-> h[i]]
    OBVIOUS
  <2> HIDE DEF h, x
  <2> QED
    BY <1>0, <1>1, <2>1, MapIs
<1>3. todo' = h
  OBVIOUS
<1> HIDE DEF h, x
<1> QED
  BY <1>1, <1>2, <1>3

(* A list of one job. *)
LEMMA OneJob ==
    ASSUME NEW t \in Task, TaskOK(t), todo' = <<t>>
    PROVE  todo' \in Seq(Task) /\ \A i \in DOMAIN todo' : TaskOK(todo'[i])
<1>1. <<t>> \in Seq(Task) /\ DOMAIN <<t>> = {1} /\ <<t>>[1] = t
  OBVIOUS
<1> QED
  BY <1>1

(* CJobGroupExploration::EevtStartExploration. *)
LEMMA StartExplorationKeeps == ASSUME SchedInv, SearchIInv, EevtStartExploration PROVE SearchIInv'
<1> USE DEF planVars
<1>1. /\ InState("GroupExploration", "Initialized") /\ Move(jsm[cur], "ExploringChildren")
      /\ gstate' = [gstate EXCEPT ![task[cur].g] = Exploring]
      /\ UNCHANGED <<gexprs, estate, poc, best>>
  BY DEF EevtStartExploration, Me, My
<1>2. "ExploringChildren" \in Est /\ Exploring \in Unexplored..Implemented
  BY States DEF Est
<1>3. /\ gstate' \in [Group -> Unexplored..Implemented]
      /\ estate' \in [GExpr -> Unexplored..Implemented]
      /\ poc' \in [Stages -> [Ctx -> Unoptimized..Optimized]]
  BY <1>1, <1>2, States
<1> QED
  BY <1>1, <1>2, <1>3, MoveKeeps

(* CJobGroupImplementation::EevtStartImplementation. *)
LEMMA StartImplementationKeeps ==
    ASSUME SchedInv, SearchIInv, EevtStartImplementation
    PROVE  SearchIInv'
<1> USE DEF planVars
<1> DEFINE t == task[cur]
           s == jsm[cur]
<1>1. /\ InState("GroupImplementation", "Initialized")
      /\ UNCHANGED <<gexprs, estate, poc, best>> /\ pc = "body" /\ t.ejt = "GroupImplementation"
  BY DEF EevtStartImplementation, Me, My, InState
<1>2. t \in Task /\ s \in Jsm /\ TaskOK(t) /\ CursorOK(t, s)
  BY <1>1, AtBody
<1>3. CASE gstate[t.g] < Explored
  <2> DEFINE u == GroupJob("GroupExploration", t.g)
  <2>1. Stay(s, todo') /\ todo' = <<u>> /\ gstate' = gstate
    BY <1>3 DEF EevtStartImplementation, Me, My, Stay
  <2>2. t.g \in Group /\ gexprs[t.g] # <<>>
    BY <1>1, <1>2 DEF TaskOK
  <2>3. u \in Task /\ u.ejt = "GroupExploration" /\ u.g = t.g
    BY <2>2, NewTasks DEF Ejt
  <2> HIDE DEF u
  <2>4. TaskOK(u)
    BY <2>2, <2>3 DEF TaskOK, Ejt
  <2>5. todo' \in Seq(Task) /\ \A i \in DOMAIN todo' : TaskOK(todo'[i])
    BY <2>1, <2>3, <2>4, OneJob
  <2>6. s.last # None => t.g \in Group /\ s.last \in Range(gexprs[t.g])
    BY <1>2 DEF CursorOK
  <2>7. /\ gstate' \in [Group -> Unexplored..Implemented]
        /\ estate' \in [GExpr -> Unexplored..Implemented]
        /\ poc' \in [Stages -> [Ctx -> Unoptimized..Optimized]]
    BY <1>1, <2>1, States
  <2> QED
    BY <1>1, <1>2, <2>1, <2>5, <2>6, <2>7, StayKeeps
<1>4. CASE ~(gstate[t.g] < Explored)
  <2>1. gstate' = [gstate EXCEPT ![t.g] = Implementing] /\ Move(s, "ImplementingChildren")
    BY <1>4 DEF EevtStartImplementation, Me, My
  <2>2. "ImplementingChildren" \in Est /\ Implementing \in Unexplored..Implemented
    BY States DEF Est
  <2>3. /\ gstate' \in [Group -> Unexplored..Implemented]
        /\ estate' \in [GExpr -> Unexplored..Implemented]
        /\ poc' \in [Stages -> [Ctx -> Unoptimized..Optimized]]
    BY <1>1, <2>1, <2>2, States
  <2> QED
    BY <1>1, <2>1, <2>2, <2>3, MoveKeeps
<1> QED
  BY <1>3, <1>4

(* CJobGroupExploration::EevtExploreChildren. *)
LEMMA ExploreGroupKeeps == ASSUME SchedInv, SearchIInv, EevtExploreGroup PROVE SearchIInv'
<1> USE DEF planVars
<1> DEFINE t == task[cur]
           s == jsm[cur]
           T == {e \in Logical : estate[e] < Explored}
           new == Keep(After(gexprs[t.g], s.last), T)
<1>1. /\ InState("GroupExploration", "ExploringChildren")
      /\ UNCHANGED <<gexprs, estate, poc, best>> /\ pc = "body" /\ t.ejt = "GroupExploration"
  BY DEF EevtExploreGroup, Me, My, InState
<1>2. s \in Jsm
  BY <1>1, AtBody
<1>3. /\ t.g \in Group /\ new \in Seq(GExpr)
      /\ \A e \in Range(new) : e \in T /\ InMemoExpr(e)
      /\ new # <<>> => Last(new) \in Range(gexprs[t.g]) /\ Last(new) \in GExpr
  <2> DEFINE N == T
             m == new
  <2>1. m = Keep(After(gexprs[t.g], s.last), N)
    OBVIOUS
  <2> HIDE DEF N, m
  <2>2. /\ t.g \in Group /\ m \in Seq(GExpr)
        /\ \A e \in Range(m) : e \in N /\ InMemoExpr(e)
        /\ m # <<>> => Last(m) \in Range(gexprs[t.g]) /\ Last(m) \in GExpr
    BY <1>1, <2>1, GroupCalls
  <2> QED
    BY <2>2 DEF N, m
<1>4. \A e \in T : e \in Logical
  OBVIOUS
<1>5. \/ /\ new # <<>> /\ gstate' = gstate
         /\ Stay([s EXCEPT !.last = Last(new)], [i \in DOMAIN new |-> GExprJob("GroupExpressionExploration", new[i])])
      \/ gstate' = [gstate EXCEPT ![t.g] = Explored] /\ Finish
  BY Zenon DEF EevtExploreGroup, Me, My
<1> HIDE DEF T, new
<1>6. CASE gstate' = [gstate EXCEPT ![t.g] = Explored] /\ Finish
  <2>1. /\ gstate' \in [Group -> Unexplored..Implemented]
        /\ estate' \in [GExpr -> Unexplored..Implemented]
        /\ poc' \in [Stages -> [Ctx -> Unoptimized..Optimized]]
    BY <1>1, <1>6, States
  <2>2. "Initialized" \in Est
    BY DEF Est
  <2> QED
    BY <1>1, <1>6, <2>1, <2>2, MoveKeeps
<1>7. CASE /\ new # <<>> /\ gstate' = gstate
           /\ Stay([s EXCEPT !.last = Last(new)], [i \in DOMAIN new |-> GExprJob("GroupExpressionExploration", new[i])])
  <2> DEFINE me == [s EXCEPT !.last = Last(new)]
  <2>1. me \in Jsm /\ me.last = Last(new) /\ me.last \in Range(gexprs[t.g])
    BY <1>2, <1>3, <1>7, StateLast DEF SameExcept
  <2>2. Stay(me, todo') /\ todo' = [i \in DOMAIN new |-> GExprJob("GroupExpressionExploration", new[i])]
    BY <1>7 DEF Stay
  <2>3. todo' \in Seq(Task) /\ \A i \in DOMAIN todo' : TaskOK(todo'[i])
    BY <1>3, <1>4, <2>2, ExprJobs
  <2>4. /\ gstate' \in [Group -> Unexplored..Implemented]
        /\ estate' \in [GExpr -> Unexplored..Implemented]
        /\ poc' \in [Stages -> [Ctx -> Unoptimized..Optimized]]
    BY <1>1, <1>7, States
  <2> HIDE DEF me
  <2> QED
    BY <1>1, <1>3, <2>1, <2>2, <2>3, <2>4, StayKeeps
<1> QED
  BY <1>5, <1>6, <1>7

(* CJobGroupImplementation::EevtImplementChildren. *)
LEMMA ImplementGroupKeeps == ASSUME SchedInv, SearchIInv, EevtImplementGroup PROVE SearchIInv'
<1> USE DEF planVars
<1> DEFINE t == task[cur]
           s == jsm[cur]
           T == {e \in Due(Implemented) : estate[e] < Implemented}
           new == Keep(After(gexprs[t.g], s.last), T)
<1>1. /\ InState("GroupImplementation", "ImplementingChildren")
      /\ UNCHANGED <<gexprs, estate, poc, best>> /\ pc = "body" /\ t.ejt = "GroupImplementation"
  BY DEF EevtImplementGroup, Me, My, InState
<1>2. s \in Jsm
  BY <1>1, AtBody
<1>3. /\ t.g \in Group /\ new \in Seq(GExpr)
      /\ \A e \in Range(new) : e \in T /\ InMemoExpr(e)
      /\ new # <<>> => Last(new) \in Range(gexprs[t.g]) /\ Last(new) \in GExpr
  <2> DEFINE N == T
             m == new
  <2>1. m = Keep(After(gexprs[t.g], s.last), N)
    OBVIOUS
  <2> HIDE DEF N, m
  <2>2. /\ t.g \in Group /\ m \in Seq(GExpr)
        /\ \A e \in Range(m) : e \in N /\ InMemoExpr(e)
        /\ m # <<>> => Last(m) \in Range(gexprs[t.g]) /\ Last(m) \in GExpr
    BY <1>1, <2>1, GroupCalls
  <2> QED
    BY <2>2 DEF N, m
<1>4. \A e \in T : e \in Logical
  BY DEF Due
<1>5. \/ /\ new # <<>> /\ gstate' = gstate
         /\ Stay([s EXCEPT !.last = Last(new)], [i \in DOMAIN new |-> GExprJob("GroupExpressionImplementation", new[i])])
      \/ gstate' = [gstate EXCEPT ![t.g] = Implemented] /\ Finish
  BY Zenon DEF EevtImplementGroup, Me, My
<1> HIDE DEF T, new
<1>6. CASE gstate' = [gstate EXCEPT ![t.g] = Implemented] /\ Finish
  <2>1. /\ gstate' \in [Group -> Unexplored..Implemented]
        /\ estate' \in [GExpr -> Unexplored..Implemented]
        /\ poc' \in [Stages -> [Ctx -> Unoptimized..Optimized]]
    BY <1>1, <1>6, States
  <2>2. "Initialized" \in Est
    BY DEF Est
  <2> QED
    BY <1>1, <1>6, <2>1, <2>2, MoveKeeps
<1>7. CASE /\ new # <<>> /\ gstate' = gstate
           /\ Stay([s EXCEPT !.last = Last(new)], [i \in DOMAIN new |-> GExprJob("GroupExpressionImplementation", new[i])])
  <2> DEFINE me == [s EXCEPT !.last = Last(new)]
  <2>1. me \in Jsm /\ me.last = Last(new) /\ me.last \in Range(gexprs[t.g])
    BY <1>2, <1>3, <1>7, StateLast DEF SameExcept
  <2>2. Stay(me, todo') /\ todo' = [i \in DOMAIN new |-> GExprJob("GroupExpressionImplementation", new[i])]
    BY <1>7 DEF Stay
  <2>3. todo' \in Seq(Task) /\ \A i \in DOMAIN todo' : TaskOK(todo'[i])
    BY <1>3, <1>4, <2>2, ExprJobs
  <2>4. /\ gstate' \in [Group -> Unexplored..Implemented]
        /\ estate' \in [GExpr -> Unexplored..Implemented]
        /\ poc' \in [Stages -> [Ctx -> Unoptimized..Optimized]]
    BY <1>1, <1>7, States
  <2> HIDE DEF me
  <2> QED
    BY <1>1, <1>3, <2>1, <2>2, <2>3, <2>4, StayKeeps
<1> QED
  BY <1>5, <1>6, <1>7

(* CJobGroupExpressionExploration::EevtExploreChildren. *)
LEMMA ExploreChildrenKeeps == ASSUME SchedInv, SearchIInv, EevtExploreChildren PROVE SearchIInv'
<1> USE DEF planVars
<1> DEFINE t == task[cur]
           s == jsm[cur]
<1>1. /\ InState("GroupExpressionExploration", "Initialized")
      /\ UNCHANGED <<gexprs, gstate, poc, best>> /\ pc = "body" /\ t.ejt = "GroupExpressionExploration"
  BY DEF EevtExploreChildren, Me, My, InState
<1>2. s \in Jsm /\ t \in Task /\ TaskOK(t) /\ CursorOK(t, s)
  BY <1>1, AtBody
<1>3. InMemoExpr(t.e)
  BY <1>1, <1>2 DEF TaskOK
<1>4. CASE s.fKids
  <2>1. Move(s, "ChildrenExplored") /\ estate' = estate
    BY <1>4 DEF EevtExploreChildren, Me, My
  <2>2. "ChildrenExplored" \in Est
    BY DEF Est
  <2>3. /\ gstate' \in [Group -> Unexplored..Implemented]
        /\ estate' \in [GExpr -> Unexplored..Implemented]
        /\ poc' \in [Stages -> [Ctx -> Unoptimized..Optimized]]
    BY <1>1, <2>1, States
  <2> QED
    BY <1>1, <2>1, <2>2, <2>3, MoveKeeps
<1>5. CASE ~s.fKids
  <2> DEFINE me == [s EXCEPT !.fKids = TRUE]
  <2>1. /\ Stay(me, todo') /\ todo' = [i \in DOMAIN Kids[t.e] |-> GroupJob("GroupExploration", Kids[t.e][i])]
        /\ estate' = [estate EXCEPT ![t.e] = Exploring]
    BY <1>5 DEF EevtExploreChildren, Me, My, Stay
  <2>2. me \in Jsm /\ me.last = s.last
    BY <1>2, StateKids DEF SameExcept
  <2>3. todo' \in Seq(Task) /\ \A i \in DOMAIN todo' : TaskOK(todo'[i])
    BY <1>3, <2>1, ChildJobs
  <2>4. /\ gstate' \in [Group -> Unexplored..Implemented]
        /\ estate' \in [GExpr -> Unexplored..Implemented]
        /\ poc' \in [Stages -> [Ctx -> Unoptimized..Optimized]]
    BY <1>1, <2>1, States
  <2>5. me.last # None => t.g \in Group /\ me.last \in Range(gexprs[t.g])
    BY <1>2, <2>2 DEF CursorOK
  <2> HIDE DEF me
  <2> QED
    BY <1>1, <2>1, <2>2, <2>3, <2>4, <2>5, StayKeeps
<1> QED
  BY <1>4, <1>5

(* CJobGroupExpressionImplementation::EevtImplementChildren. *)
LEMMA ImplementChildrenKeeps == ASSUME SchedInv, SearchIInv, EevtImplementChildren PROVE SearchIInv'
<1> USE DEF planVars
<1> DEFINE t == task[cur]
           s == jsm[cur]
<1>1. /\ InState("GroupExpressionImplementation", "Initialized")
      /\ UNCHANGED <<gexprs, gstate, poc, best>> /\ pc = "body" /\ t.ejt = "GroupExpressionImplementation"
  BY DEF EevtImplementChildren, Me, My, InState
<1>2. s \in Jsm /\ t \in Task /\ TaskOK(t) /\ CursorOK(t, s)
  BY <1>1, AtBody
<1>3. InMemoExpr(t.e)
  BY <1>1, <1>2 DEF TaskOK
<1>4. CASE s.fKids
  <2>1. Move(s, "ChildrenImplemented") /\ estate' = estate
    BY <1>4 DEF EevtImplementChildren, Me, My
  <2>2. "ChildrenImplemented" \in Est
    BY DEF Est
  <2>3. /\ gstate' \in [Group -> Unexplored..Implemented]
        /\ estate' \in [GExpr -> Unexplored..Implemented]
        /\ poc' \in [Stages -> [Ctx -> Unoptimized..Optimized]]
    BY <1>1, <2>1, States
  <2> QED
    BY <1>1, <2>1, <2>2, <2>3, MoveKeeps
<1>5. CASE ~s.fKids
  <2> DEFINE me == [s EXCEPT !.fKids = TRUE]
  <2>1. /\ Stay(me, todo') /\ todo' = [i \in DOMAIN Kids[t.e] |-> GroupJob("GroupImplementation", Kids[t.e][i])]
        /\ estate' = [estate EXCEPT ![t.e] = Implementing]
    BY <1>5 DEF EevtImplementChildren, Me, My, Stay
  <2>2. me \in Jsm /\ me.last = s.last
    BY <1>2, StateKids DEF SameExcept
  <2>3. todo' \in Seq(Task) /\ \A i \in DOMAIN todo' : TaskOK(todo'[i])
    BY <1>3, <2>1, ChildJobs
  <2>4. /\ gstate' \in [Group -> Unexplored..Implemented]
        /\ estate' \in [GExpr -> Unexplored..Implemented]
        /\ poc' \in [Stages -> [Ctx -> Unoptimized..Optimized]]
    BY <1>1, <2>1, States
  <2>5. me.last # None => t.g \in Group /\ me.last \in Range(gexprs[t.g])
    BY <1>2, <2>2 DEF CursorOK
  <2> HIDE DEF me
  <2> QED
    BY <1>1, <2>1, <2>2, <2>3, <2>4, <2>5, StayKeeps
<1> QED
  BY <1>4, <1>5

(* CJobGroupExpressionExploration::EevtExploreSelf. *)
LEMMA ExploreSelfKeeps == ASSUME SchedInv, SearchIInv, EevtExploreSelf PROVE SearchIInv'
<1> USE DEF planVars, memoVars
<1> DEFINE t == task[cur]
           s == jsm[cur]
<1>1. /\ InState("GroupExpressionExploration", "ChildrenExplored")
      /\ UNCHANGED <<gexprs, gstate, estate, poc, best>> /\ pc = "body" /\ t.ejt = "GroupExpressionExploration"
  BY DEF EevtExploreSelf, ScheduleXforms, Me, My, InState
<1>2. s \in Jsm /\ t \in Task /\ TaskOK(t) /\ CursorOK(t, s) /\ stage \in Stages
  BY <1>1, AtBody
<1>3. t.e \in Logical /\ InMemoExpr(t.e) /\ "Exploration" \in Phase
  BY <1>1, <1>2 DEF TaskOK, Phase
<1>6. /\ gstate' \in [Group -> Unexplored..Implemented]
      /\ estate' \in [GExpr -> Unexplored..Implemented]
      /\ poc' \in [Stages -> [Ctx -> Unoptimized..Optimized]]
  BY <1>1, States
<1>4. CASE s.fXforms
  <2>1. Move(s, "SelfExplored")
    BY <1>4 DEF EevtExploreSelf, ScheduleXforms, Me, My
  <2>2. "SelfExplored" \in Est
    BY DEF Est
  <2> QED
    BY <1>1, <1>6, <2>1, <2>2, MoveKeeps
<1>5. CASE ~s.fXforms
  <2> DEFINE me == [s EXCEPT !.fXforms = TRUE]
  <2>1. /\ Stay(me, todo')
        /\ todo' = [n \in DOMAIN Xform[stage]["Exploration"][t.e] |-> XformJob("Exploration", t.e, n)]
    BY <1>5 DEF EevtExploreSelf, ScheduleXforms, Me, My, Stay
  <2>2. me \in Jsm /\ me.last = s.last
    BY <1>2, StateXforms DEF SameExcept
  <2>3. todo' \in Seq(Task) /\ \A i \in DOMAIN todo' : TaskOK(todo'[i])
    BY <1>2, <1>3, <2>1, XformJobs
  <2>5. me.last # None => t.g \in Group /\ me.last \in Range(gexprs[t.g])
    BY <1>2, <2>2 DEF CursorOK
  <2> HIDE DEF me
  <2> QED
    BY <1>1, <1>6, <2>1, <2>2, <2>3, <2>5, StayKeeps
<1> QED
  BY <1>4, <1>5

(* CJobGroupExpressionImplementation::EevtImplementSelf. *)
LEMMA ImplementSelfKeeps == ASSUME SchedInv, SearchIInv, EevtImplementSelf PROVE SearchIInv'
<1> USE DEF planVars, memoVars
<1> DEFINE t == task[cur]
           s == jsm[cur]
<1>1. /\ InState("GroupExpressionImplementation", "ChildrenImplemented")
      /\ UNCHANGED <<gexprs, gstate, estate, poc, best>> /\ pc = "body" /\ t.ejt = "GroupExpressionImplementation"
  BY DEF EevtImplementSelf, ScheduleXforms, Me, My, InState
<1>2. s \in Jsm /\ t \in Task /\ TaskOK(t) /\ CursorOK(t, s) /\ stage \in Stages
  BY <1>1, AtBody
<1>3. t.e \in Logical /\ InMemoExpr(t.e) /\ "Implementation" \in Phase
  BY <1>1, <1>2 DEF TaskOK, Phase
<1>6. /\ gstate' \in [Group -> Unexplored..Implemented]
      /\ estate' \in [GExpr -> Unexplored..Implemented]
      /\ poc' \in [Stages -> [Ctx -> Unoptimized..Optimized]]
  BY <1>1, States
<1>4. CASE s.fXforms
  <2>1. Move(s, "SelfImplemented")
    BY <1>4 DEF EevtImplementSelf, ScheduleXforms, Me, My
  <2>2. "SelfImplemented" \in Est
    BY DEF Est
  <2> QED
    BY <1>1, <1>6, <2>1, <2>2, MoveKeeps
<1>5. CASE ~s.fXforms
  <2> DEFINE me == [s EXCEPT !.fXforms = TRUE]
  <2>1. /\ Stay(me, todo')
        /\ todo' = [n \in DOMAIN Xform[stage]["Implementation"][t.e] |-> XformJob("Implementation", t.e, n)]
    BY <1>5 DEF EevtImplementSelf, ScheduleXforms, Me, My, Stay
  <2>2. me \in Jsm /\ me.last = s.last
    BY <1>2, StateXforms DEF SameExcept
  <2>3. todo' \in Seq(Task) /\ \A i \in DOMAIN todo' : TaskOK(todo'[i])
    BY <1>2, <1>3, <2>1, XformJobs
  <2>5. me.last # None => t.g \in Group /\ me.last \in Range(gexprs[t.g])
    BY <1>2, <2>2 DEF CursorOK
  <2> HIDE DEF me
  <2> QED
    BY <1>1, <1>6, <2>1, <2>2, <2>3, <2>5, StayKeeps
<1> QED
  BY <1>4, <1>5

(* CJobGroupExpressionExploration::EevtFinalize. *)
LEMMA FinalizeExplorationKeeps ==
    ASSUME SchedInv, SearchIInv, EevtFinalizeExploration
    PROVE  SearchIInv'
<1> USE DEF planVars
<1>1. /\ InState("GroupExpressionExploration", "SelfExplored") /\ Finish
      /\ estate' = [estate EXCEPT ![task[cur].e] = Explored]
      /\ UNCHANGED <<gexprs, gstate, poc, best>>
  BY DEF EevtFinalizeExploration, Me
<1>2. "Initialized" \in Est
  BY DEF Est
<1>3. /\ gstate' \in [Group -> Unexplored..Implemented]
      /\ estate' \in [GExpr -> Unexplored..Implemented]
      /\ poc' \in [Stages -> [Ctx -> Unoptimized..Optimized]]
  BY <1>1, States
<1> QED
  BY <1>1, <1>2, <1>3, MoveKeeps

(* CJobGroupExpressionImplementation::EevtFinalize. *)
LEMMA FinalizeImplementationKeeps ==
    ASSUME SchedInv, SearchIInv, EevtFinalizeImplementation
    PROVE  SearchIInv'
<1> USE DEF planVars
<1>1. /\ InState("GroupExpressionImplementation", "SelfImplemented") /\ Finish
      /\ estate' = [estate EXCEPT ![task[cur].e] = Implemented]
      /\ UNCHANGED <<gexprs, gstate, poc, best>>
  BY DEF EevtFinalizeImplementation, Me
<1>2. "Initialized" \in Est
  BY DEF Est
<1>3. /\ gstate' \in [Group -> Unexplored..Implemented]
      /\ estate' \in [GExpr -> Unexplored..Implemented]
      /\ poc' \in [Stages -> [Ctx -> Unoptimized..Optimized]]
  BY <1>1, States
<1> QED
  BY <1>1, <1>2, <1>3, MoveKeeps

(* The sums of the numbers of s. *)
Adds(h, s, m) ==
    /\ h \in [0..m -> Nat] /\ h[0] = 0
    /\ \A n \in 1..m : h[n] = h[n - 1] + s[n]
HasSums(s, m) == \E h : Adds(h, s, m)

(* The sums of the first m numbers exist, for every m. *)
LEMMA TotalsPrefix ==
    ASSUME NEW s \in Seq(Nat), NEW m \in 0..Len(s)
    PROVE  HasSums(s, m)
<1> DEFINE T == {k \in Nat : k <= Len(s) => HasSums(s, k)}
<1>1. Len(s) \in Nat /\ DOMAIN s = 1..Len(s) /\ m \in Nat /\ m <= Len(s)
  OBVIOUS
<1>2. HasSums(s, 0)
  <2> DEFINE g == [i \in 0..0 |-> 0]
  <2>1. g \in [0..0 -> Nat] /\ g[0] = 0 /\ \A n \in 1..0 : FALSE
    OBVIOUS
  <2> HIDE DEF g
  <2>2. \A n \in 1..0 : g[n] = g[n - 1] + s[n]
    BY <2>1
  <2>3. Adds(g, s, 0)
    BY <2>1, <2>2 DEF Adds
  <2> QED
    BY <2>3 DEF HasSums
<1>3. ASSUME NEW k \in Nat, k < Len(s), HasSums(s, k) PROVE HasSums(s, k + 1)
  <2>1. PICK h : Adds(h, s, k)
    BY <1>3 DEF HasSums
  <2>2. h \in [0..k -> Nat] /\ h[0] = 0 /\ \A n \in 1..k : h[n] = h[n - 1] + s[n]
    BY <2>1 DEF Adds
  <2> DEFINE g == [i \in 0..(k + 1) |-> IF i <= k THEN h[i] ELSE h[k] + s[k + 1]]
  <2>3. s[k + 1] \in Nat /\ h[k] \in Nat
    BY <1>1, <1>3, <2>2
  <2>4. g \in [0..(k + 1) -> Nat]
    BY <2>2, <2>3, SMTT(30)
  <2>5. g[0] = 0
    BY <2>2
  <2>6. ASSUME NEW n \in 1..(k + 1) PROVE g[n] = g[n - 1] + s[n]
    <3>1. CASE n <= k
      <4>1. n \in 1..k /\ n - 1 <= k /\ n - 1 \in 0..(k + 1) /\ n \in 0..(k + 1)
        BY <3>1
      <4>2. g[n] = h[n] /\ g[n - 1] = h[n - 1]
        BY <4>1
      <4> QED
        BY <4>1, <4>2, <2>2
    <3>2. CASE ~(n <= k)
      <4>1. n = k + 1 /\ n - 1 = k /\ k \in 0..(k + 1) /\ k + 1 \in 0..(k + 1) /\ ~(k + 1 <= k)
        BY <3>2
      <4>2. g[k + 1] = h[k] + s[k + 1] /\ g[k] = h[k]
        BY <4>1
      <4> QED
        BY <4>1, <4>2
    <3> QED
      BY <3>1, <3>2
  <2> HIDE DEF g
  <2>7. Adds(g, s, k + 1)
    BY <2>4, <2>5, <2>6 DEF Adds
  <2> QED
    BY <2>7 DEF HasSums
<1>4. T \subseteq Nat /\ 0 \in T
  BY <1>2
<1>5. ASSUME NEW k \in T, k < m PROVE k + 1 \in T
  <2>1. k \in Nat /\ k < Len(s) /\ k <= Len(s)
    BY <1>1, <1>5
  <2> QED
    BY <1>3, <2>1
<1>6. m \in T
  <2> HIDE DEF T
  <2> QED
    BY <1>1, <1>4, <1>5, UpTo
<1> QED
  BY <1>1, <1>6

(* Totals satisfies its recursion: each value adds one more number. *)
LEMMA TotalsIs ==
    ASSUME NEW s \in Seq(Nat)
    PROVE  Adds(Totals(s), s, Len(s))
<1> DEFINE m == Len(s)
           Is(h) == h = [n \in 0..m |-> IF n = 0 THEN 0 ELSE h[n - 1] + s[n]]
<1>1. m \in Nat /\ m \in 0..m
  OBVIOUS
<1>2. PICK h : Adds(h, s, m)
  <2>1. HasSums(s, Len(s))
    BY TotalsPrefix, <1>1
  <2> QED
    BY <2>1 DEF HasSums
<1>2a. /\ h \in [0..m -> Nat] /\ h[0] = 0
       /\ \A n \in 1..m : h[n] = h[n - 1] + s[n]
  BY <1>2 DEF Adds
<1> HIDE DEF m
<1>3. \A n \in 0..m : h[n] = IF n = 0 THEN 0 ELSE h[n - 1] + s[n]
  <2>1. ASSUME NEW n \in 0..m PROVE h[n] = IF n = 0 THEN 0 ELSE h[n - 1] + s[n]
    <3>1. n = 0 \/ n \in 1..m
      BY <1>1
    <3> QED
      BY <3>1, <1>2a
  <2> QED
    BY <2>1
<1>4. h = [n \in 0..m |-> h[n]]
  BY <1>2a
<1>5. Is(h)
  <2>1. [n \in 0..m |-> h[n]] = [n \in 0..m |-> IF n = 0 THEN 0 ELSE h[n - 1] + s[n]]
    BY ONLY <1>3
  <2> QED
    BY <1>4, <2>1
<1>6. Totals(s) = CHOOSE r : Is(r)
  BY Zenon DEF Totals, m
<1> DEFINE r == Totals(s)
<1>7. Is(r)
  BY <1>5, <1>6
<1> HIDE DEF r
<1>8. DOMAIN r = 0..m /\ r[0] = 0 /\ \A n \in 1..m : r[n] = r[n - 1] + s[n]
  <2>1. DOMAIN r = 0..m /\ r[0] = 0
    BY <1>7, <1>1
  <2>2. ASSUME NEW n \in 1..m PROVE r[n] = r[n - 1] + s[n]
    <3>1. n \in 0..m /\ n # 0
      BY <1>1
    <3> QED
      BY <3>1, <1>7
  <2> QED
    BY <2>1, <2>2
<1>9. \A n \in 0..m : r[n] = h[n]
  <2> DEFINE T == {n \in Nat : n <= m => r[n] = h[n]}
  <2>1. T \subseteq Nat /\ 0 \in T
    BY <1>8, <1>2a
  <2>2. ASSUME NEW k \in T, k < m PROVE k + 1 \in T
    <3>1. k \in Nat /\ k <= m /\ k + 1 \in 1..m /\ (k + 1) - 1 = k
      BY <2>2, <1>1
    <3>2. r[k] = h[k]
      BY <3>1
    <3>3. r[k + 1] = h[k + 1]
      BY <3>1, <3>2, <1>8, <1>2a
    <3> QED
      BY <3>1, <3>3
  <2>3. ASSUME NEW n \in 0..m PROVE n \in T
    <3>1. n \in Nat /\ \A k \in T : k < n => k + 1 \in T
      BY <2>2, <1>1
    <3> HIDE DEF T
    <3> QED
      BY <3>1, <2>1, UpTo
  <2> QED
    BY <2>3
<1>10. r = h
  <2>1. r = [n \in 0..m |-> r[n]]
    BY <1>7
  <2> QED
    BY <2>1, <1>4, <1>9
<1> QED
  BY <1>2, <1>10 DEF r, m

(* Sums of naturals are naturals and grow with their terms. *)
LEMMA TotalIs ==
    ASSUME NEW s \in Seq(Nat)
    PROVE  /\ Total(s) \in Nat
           /\ \A t \in Seq(Nat) : DOMAIN t = DOMAIN s /\ (\A i \in DOMAIN s : t[i] <= s[i])
                                     => Total(t) <= Total(s)
<1>1. Adds(Totals(s), s, Len(s)) /\ Len(s) \in Nat
  BY TotalsIs
<1>2. Total(s) \in Nat
  BY <1>1 DEF Adds, Total
<1>3. ASSUME NEW t \in Seq(Nat), DOMAIN t = DOMAIN s, \A i \in DOMAIN s : t[i] <= s[i]
      PROVE  Total(t) <= Total(s)
  <2> DEFINE m == Len(s)
             a == Totals(s)
             b == Totals(t)
             T == {n \in Nat : n <= m => b[n] <= a[n]}
  <2>1. m \in Nat /\ Len(t) = m /\ DOMAIN s = 1..m
    BY <1>3
  <2>2. Adds(b, t, m)
    BY <2>1, TotalsIs
  <2>3. /\ a \in [0..m -> Nat] /\ a[0] = 0 /\ \A n \in 1..m : a[n] = a[n - 1] + s[n]
        /\ b \in [0..m -> Nat] /\ b[0] = 0 /\ \A n \in 1..m : b[n] = b[n - 1] + t[n]
    BY <1>1, <2>2 DEF Adds
  <2>a. \A n \in 1..m : s[n] \in Nat /\ t[n] \in Nat /\ t[n] <= s[n]
    <3>1. \A u \in Seq(Nat) : \A n \in DOMAIN u : u[n] \in Nat
      OBVIOUS
    <3>2. \A n \in 1..m : n \in DOMAIN s /\ n \in DOMAIN t
      BY <2>1, <1>3
    <3> QED
      BY <3>1, <3>2, <1>3
  <2> HIDE DEF a, b, m
  <2>4. T \subseteq Nat /\ 0 \in T
    BY <2>3
  <2>5. ASSUME NEW k \in T, k < m PROVE k + 1 \in T
    <3>1. k \in Nat /\ k <= m /\ k + 1 \in 1..m /\ (k + 1) - 1 = k /\ k \in 0..m
      BY <2>5, <2>1
    <3>2. b[k] <= a[k] /\ a[k] \in Nat /\ b[k] \in Nat
      BY <3>1, <2>3
    <3>3. b[k + 1] = b[k] + t[k + 1] /\ a[k + 1] = a[k] + s[k + 1]
      BY <3>1, <2>3
    <3>4. b[k + 1] <= a[k + 1]
      <4>1. s[k + 1] \in Nat /\ t[k + 1] \in Nat /\ t[k + 1] <= s[k + 1]
        BY <3>1, <2>a
      <4> HIDE DEF T
      <4> QED
        BY <3>2, <3>3, <4>1, SMTT(30)
    <3> QED
      BY <3>1, <3>4
  <2>6. m \in T
    <3> HIDE DEF T
    <3> QED
      BY <2>1, <2>4, <2>5, UpTo
  <2>7. b[m] <= a[m]
    BY <2>1, <2>6
  <2> QED
    BY <2>1, <2>7 DEF Total, a, b, m
<1> QED
  BY <1>2, <1>3

(* CGroup::PocLookupBest *)
LookupFacts(c) ==
    /\ PocLookupBest(c) \in Plan
    /\ (PocLookupBest(c) = NoPlan) <=> (\A s \in Stages : best[s][c] = NoPlan)
    /\ \A s \in Stages : best[s][c] # NoPlan => PocLookupBest(c).cost <= best[s][c].cost
    /\ PocLookupBest(c) # NoPlan => \E s \in Stages : PocLookupBest(c) = best[s][c]

(* CGroup::PocLookupBest finds a cheapest plan, or none if there is none. *)
LEMMA LookupIs ==
    ASSUME best \in [Stages -> [Ctx -> Plan]], NEW c \in Ctx
    PROVE  LookupFacts(c)
<1> DEFINE found == {best[s][c] : s \in Stages} \ {NoPlan}
           p == PocLookupBest(c)
<1>1. found \subseteq Plan
  OBVIOUS
<1>2. CASE found = {}
  <2>1. p = NoPlan
    BY <1>2 DEF PocLookupBest
  <2> QED
    BY <2>1, <1>2, TaskTypes DEF LookupFacts
<1>3. CASE found # {}
  <2>1. p = CHOOSE q \in found : \A r \in found : q.cost <= r.cost
    BY <1>3 DEF PocLookupBest
  <2> HIDE DEF found
  <2> DEFINE costs == {q.cost : q \in found}
  <2>2. costs \subseteq Nat /\ costs # {}
    BY <1>1, <1>3, TaskTypes
  <2>3. PICK x \in costs : \A y \in costs : x <= y
    BY <2>2, LeastNatural
  <2>4. \E q \in found : \A r \in found : q.cost <= r.cost
    BY <2>3
  <2>5. p \in found /\ \A r \in found : p.cost <= r.cost
    BY <2>1, <2>4
  <2> QED
    BY <2>5, <1>1 DEF LookupFacts, found
<1> QED
  BY <1>2, <1>3

(* The cost of a plan is a number. *)
LEMMA CostIs ==
    ASSUME best \in [Stages -> [Ctx -> Plan]], NEW e \in GExpr, NEW s \in Seq(Ctx)
    PROVE  PlanCost(e, s) \in Nat
<1> DEFINE t == [i \in DOMAIN s |-> PocLookupBest(s[i]).cost]
<1>1. \A i \in DOMAIN s : s[i] \in Ctx
  OBVIOUS
<1>2. \A i \in DOMAIN s : t[i] \in Nat
  BY <1>1, LookupIs, TaskTypes DEF LookupFacts
<1>3. t = [i \in DOMAIN s |-> t[i]]
  OBVIOUS
<1>4. PlanCost(e, s) = LocalCost[e] + Total(t)
  BY DEF PlanCost
<1> HIDE DEF t
<1>5. t \in Seq(Nat)
  BY <1>2, <1>3, MapIs
<1>6. Total(t) \in Nat /\ LocalCost[e] \in Nat
  BY <1>5, TotalIs, SearchAssumption
<1> QED
  BY <1>4, <1>6

(* CEngine::InsertXformResult keeps the memo well formed. *)
LEMMA InsertKeeps ==
    ASSUME SearchIInv, NEW o, NEW es \in Seq(GExpr), Distinct(es),
           gexprs' = Insert(gexprs, o, es), InMemo(gexprs', es)
    PROVE  gexprs' \in [Group -> Seq(GExpr)] /\ Grows /\ MemoInv'
<1>1. gexprs \in [Group -> Seq(GExpr)] /\ MemoInv /\ Root \in Group
  BY SearchAssumption DEF SearchIInv, TypeInv
<1>2. InsertFacts(gexprs, o, es, gexprs')
  BY <1>1, InsertIs
<1>3. gexprs' \in [Group -> Seq(GExpr)] /\ Grows
  BY <1>2 DEF InsertFacts, Grows
<1>4. ASSUME NEW g \in Group
      PROVE  /\ Distinct(gexprs'[g])
             /\ \A e \in Range(gexprs'[g]) : GroupOf[e] = g
             /\ \A e \in Range(gexprs'[g]) : \A k \in Range(Kids[e]) : gexprs'[k] # <<>>
  <2>1. Distinct(gexprs'[g])
    BY <1>1, <1>2 DEF InsertFacts, MemoInv
  <2>2. ASSUME NEW e \in Range(gexprs'[g])
        PROVE  GroupOf[e] = g /\ \A k \in Range(Kids[e]) : gexprs'[k] # <<>>
    <3>1. CASE e \in Range(gexprs[g])
      <4>1. GroupOf[e] = g /\ \A k \in Range(Kids[e]) : gexprs[k] # <<>>
        BY <3>1, <1>1 DEF MemoInv
      <4>2. e \in GExpr
        BY <3>1, <1>1 DEF Range
      <4>3. \A k \in Range(Kids[e]) : k \in Group
        <5>1. Kids[e] \in Seq(Group)
          BY <4>2, SearchAssumption
        <5> QED
          BY <5>1 DEF Range
      <4> QED
        BY <4>1, <4>3, <1>3 DEF Grows
    <3>2. CASE e \notin Range(gexprs[g])
      <4>1. e \in Range(es) /\ GroupOf[e] = g
        BY <3>2, <1>2 DEF InsertFacts
      <4> QED
        BY <4>1 DEF InMemo
    <3> QED
      BY <3>1, <3>2
  <2> QED
    BY <2>1, <2>2
<1>5. gexprs'[Root] # <<>>
  BY <1>1, <1>3 DEF Grows, MemoInv
<1> QED
  BY <1>3, <1>4, <1>5 DEF MemoInv

(* CJobTransformation::EevtTransform. *)
LEMMA TransformKeeps == ASSUME SchedInv, SearchIInv, EevtTransform PROVE SearchIInv'
<1> USE DEF planVars
<1> DEFINE t == task[cur]
           s == jsm[cur]
<1>1. /\ InState("Transformation", "Initialized") /\ Finish
      /\ UNCHANGED <<gstate, estate, poc, best>> /\ pc = "body" /\ t.ejt = "Transformation" /\ todo = <<>>
  BY DEF EevtTransform, Me, InState
<1>2. PICK es \in Xform[stage][t.g][t.e][t.n] :
               gexprs' = Insert(gexprs, GroupOf[t.e], es) /\ InMemo(gexprs', es)
  BY DEF EevtTransform, Me
<1>3. s \in Jsm /\ t \in Task /\ TaskOK(t) /\ CursorOK(t, s) /\ stage \in Stages /\ cur \in Job
  BY <1>1, AtBody
<1>4. t.g \in Phase /\ t.e \in GExpr /\ t.n \in DOMAIN Xform[stage][t.g][t.e]
  BY <1>1, <1>3 DEF TaskOK, InMemoExpr
<1>5. es \in Seq(GExpr) /\ Distinct(es)
  <2>1. Xform[stage][t.g][t.e] \in Seq(SUBSET Seq(GExpr))
    BY <1>3, <1>4, ResultAssumption DEF Phase, Stages
  <2>2. Xform[stage][t.g][t.e][t.n] \in SUBSET Seq(GExpr)
    BY <2>1, <1>4
  <2>3. Distinct(es)
    BY <1>2, <1>3, <1>4, ResultAssumption DEF Phase, Stages
  <2> QED
    BY <2>2, <2>3, <1>2
<1>6. gexprs' \in [Group -> Seq(GExpr)] /\ Grows /\ MemoInv'
  BY <1>2, <1>5, InsertKeeps
<1>7. todo' = <<>> /\ run' = "final" /\ jsm' = [jsm EXCEPT ![cur] = s]
  BY <1>1, <1>3, SameState DEF Finish
<1>8. todo' \in Seq(Task) /\ TodoInv'
  BY <1>7, EmptyList DEF TodoInv
<1>9. PlanInv'
  BY <1>1 DEF SearchIInv, PlanInv
<1>10. s.last # None => t.g \in Group /\ s.last \in Range(gexprs'[t.g])
  BY <1>3, <1>6 DEF CursorOK, Grows
<1>11. /\ gstate' \in [Group -> Unexplored..Implemented]
       /\ estate' \in [GExpr -> Unexplored..Implemented]
       /\ poc' \in [Stages -> [Ctx -> Unoptimized..Optimized]]
       /\ best' \in [Stages -> [Ctx -> Plan]]
  BY <1>1, States
<1> HIDE DEF s
<1> QED
  BY <1>1, <1>3, <1>6, <1>7, <1>8, <1>9, <1>10, <1>11, ActionKeeps

(* CJobGroupExpressionOptimization::EevtAddEnforcers. *)
LEMMA AddEnforcersKeeps == ASSUME SchedInv, SearchIInv, EevtAddEnforcers PROVE SearchIInv'
<1> USE DEF planVars
<1> DEFINE t == task[cur]
           s == jsm[cur]
           es == Enforcers[t.e][t.c]
<1>1. /\ InState("GroupExpressionOptimization", "ChildrenOptimized")
      /\ UNCHANGED <<gstate, estate, poc, best>> /\ pc = "body" /\ todo = <<>>
      /\ t.ejt = "GroupExpressionOptimization"
  BY DEF EevtAddEnforcers, Me, InState
<1>2. s \in Jsm /\ t \in Task /\ TaskOK(t) /\ CursorOK(t, s) /\ cur \in Job
  BY <1>1, AtBody
<1>3. \/ gexprs' = gexprs /\ Finish
      \/ gexprs' = Insert(gexprs, GroupOf[t.e], es) /\ (Move(s, "EnfdPropsChecked") \/ Finish)
  BY DEF EevtAddEnforcers, Me, My
<1>4. /\ t.e \in GExpr /\ t.e \in Range(gexprs[GroupOf[t.e]]) /\ t.c \in Ctx /\ GroupOf[t.e] \in Group
  BY <1>1, <1>2, SearchAssumption DEF TaskOK, InMemoExpr
<1>5. es \in Seq(GExpr) /\ Distinct(es) /\ \A x \in Range(es) : Range(Kids[x]) = {GroupOf[t.e]}
  <2>1. es \in Seq(GExpr \ Logical)
    BY <1>4, ResultAssumption
  <2>2. \A u \in Seq(GExpr \ Logical) : u \in Seq(GExpr)
    OBVIOUS
  <2>3. Distinct(es) /\ \A x \in Range(es) : Range(Kids[x]) = {GroupOf[t.e]}
    <3>1. \A e \in GExpr, c \in Ctx :
             /\ Distinct(Enforcers[e][c])
             /\ \A x \in Range(Enforcers[e][c]) : Range(Kids[x]) = {GroupOf[e]}
      BY ResultAssumption, Zenon
    <3> QED
      BY <1>4, <3>1, Zenon
  <2> HIDE DEF es
  <2> QED
    BY <2>1, <2>2, <2>3
<1>6. CASE gexprs' = gexprs /\ Finish
  <2>1. "Initialized" \in Est
    BY DEF Est
  <2>2. /\ gstate' \in [Group -> Unexplored..Implemented]
        /\ estate' \in [GExpr -> Unexplored..Implemented]
        /\ poc' \in [Stages -> [Ctx -> Unoptimized..Optimized]]
    BY <1>1, States
  <2> QED
    BY <1>1, <1>6, <2>1, <2>2, MoveKeeps
<1>7. CASE gexprs' = Insert(gexprs, GroupOf[t.e], es) /\ (Move(s, "EnfdPropsChecked") \/ Finish)
  <2>1. gexprs[GroupOf[t.e]] # <<>> /\ gexprs \in [Group -> Seq(GExpr)]
    BY <1>4, EmptyList DEF SearchIInv, TypeInv
  <2>2. InMemo(gexprs', es)
    <3>1. InsertFacts(gexprs, GroupOf[t.e], es, gexprs')
      BY <1>5, <1>7, <2>1, InsertIs
    <3>2. gexprs'[GroupOf[t.e]] # <<>>
      BY <3>1, <2>1, <1>4 DEF InsertFacts
    <3> QED
      BY <3>2, <1>5 DEF InMemo
  <2>3. gexprs' \in [Group -> Seq(GExpr)] /\ Grows /\ MemoInv'
    BY <1>5, <1>7, <2>2, InsertKeeps
  <2>4. PICK me \in Jsm : me.last = s.last /\ jsm' = [jsm EXCEPT ![cur] = me]
    <3>1. "EnfdPropsChecked" \in Est
      BY DEF Est
    <3>2. jsm = [jsm EXCEPT ![cur] = s]
      BY <1>2, SameState
    <3> DEFINE m1 == [s EXCEPT !.est = "EnfdPropsChecked"]
    <3>3. m1 \in Jsm /\ m1.last = s.last
      BY <3>1, <1>2, StateEst DEF SameExcept
    <3>4. jsm' = [jsm EXCEPT ![cur] = m1] \/ jsm' = [jsm EXCEPT ![cur] = s]
      BY <1>7, <3>2 DEF Move, Finish
    <3> HIDE DEF m1, s
    <3> QED
      BY <3>3, <3>4, <1>2
  <2>5. todo' = <<>> /\ run' \in {"go", "final"}
    BY <1>7, <1>1 DEF Move, Finish
  <2>6. todo' \in Seq(Task) /\ TodoInv'
    BY <2>5, EmptyList DEF TodoInv
  <2>7. PlanInv'
    BY <1>1 DEF SearchIInv, PlanInv
  <2>8. me.last # None => t.g \in Group /\ me.last \in Range(gexprs'[t.g])
    BY <1>2, <2>3, <2>4 DEF CursorOK, Grows
  <2>9. /\ gstate' \in [Group -> Unexplored..Implemented]
       /\ estate' \in [GExpr -> Unexplored..Implemented]
       /\ poc' \in [Stages -> [Ctx -> Unoptimized..Optimized]]
       /\ best' \in [Stages -> [Ctx -> Plan]]
    BY <1>1, States
  <2> QED
    BY <1>1, <2>3, <2>4, <2>5, <2>6, <2>7, <2>8, <2>9, ActionKeeps
<1> QED
  BY <1>3, <1>6, <1>7

(* CJobGroupExpressionOptimization::EevtInitialize and EevtFinalize. *)
LEMMA InitializeKeeps ==
    ASSUME SchedInv, SearchIInv, EevtInitialize \/ EevtFinalize
    PROVE  SearchIInv'
<1> USE DEF planVars, memoVars
<1>1. UNCHANGED <<gexprs, gstate, estate, poc, best>>
  BY DEF EevtInitialize, EevtFinalize
<1>2. /\ gstate' \in [Group -> Unexplored..Implemented]
      /\ estate' \in [GExpr -> Unexplored..Implemented]
      /\ poc' \in [Stages -> [Ctx -> Unoptimized..Optimized]]
  BY <1>1, States
<1>3. "OptimizingChildren" \in Est
  BY DEF Est
<1>4. CASE EevtInitialize
  <2>1. InState("GroupExpressionOptimization", "Initialized") /\ (Move(jsm[cur], "OptimizingChildren") \/ Finish)
    BY <1>4 DEF EevtInitialize, My
  <2> QED
    BY <1>1, <1>2, <1>3, <2>1, MoveKeeps
<1>5. CASE EevtFinalize
  <2>1. InState("GroupExpressionOptimization", "SelfOptimized") /\ Finish
    BY <1>5 DEF EevtFinalize
  <2> QED
    BY <1>1, <1>2, <1>3, <2>1, MoveKeeps
<1> QED
  BY <1>4, <1>5

(* CGroup::EolMax *)
LEMMA EolMaxIs ==
    ASSUME NEW g \in Group, gexprs[g] \in Seq(GExpr)
    PROVE  EolMax(g) \in 0..1
<1> DEFINE S == {Eol[e] : e \in Range(gexprs[g])} \cup {0}
<1>1. \A e \in Range(gexprs[g]) : Eol[e] \in 0..1
  BY SearchAssumption DEF Range
<1>2. S \subseteq 0..1 /\ 0 \in S
  BY <1>1
<1> HIDE DEF S
<1>3. \E x \in S : \A y \in S : x >= y
  <2>1. CASE 1 \in S
    BY <1>2, <2>1
  <2>2. CASE 1 \notin S
    BY <1>2, <2>2
  <2> QED
    BY <2>1, <2>2
<1>4. Max(S) \in S
  BY <1>3 DEF Max
<1>5. EolMax(g) = Max(S)
  BY DEF EolMax, S
<1> QED
  BY <1>2, <1>4, <1>5

(* The job moves to another state with bookkeeping m. *)
LEMMA MoveWithKeeps ==
    ASSUME SchedInv, SearchIInv, NEW ejt, NEW est, InState(ejt, est),
           NEW m \in Jsm, NEW to \in Est, Move(m, to), UNCHANGED <<gexprs, best>>,
           m.last # None => task[cur].g \in Group /\ m.last \in Range(gexprs[task[cur].g]),
           gstate' \in [Group -> Unexplored..Implemented],
           estate' \in [GExpr -> Unexplored..Implemented],
           poc' \in [Stages -> [Ctx -> Unoptimized..Optimized]]
    PROVE  SearchIInv'
<1> DEFINE me == [m EXCEPT !.est = to]
<1>1. me \in Jsm /\ me.last = m.last
  BY StateEst DEF SameExcept
<1>2. jsm' = [jsm EXCEPT ![cur] = me] /\ run' = "go" /\ todo' = <<>>
  BY DEF Move, InState
<1>3. todo' \in Seq(Task) /\ \A i \in DOMAIN todo' : TaskOK(todo'[i])
  <2>1. DOMAIN <<>> = {}
    OBVIOUS
  <2> QED
    BY <1>2, <2>1, EmptyList
<1> HIDE DEF me
<1> QED
  BY <1>1, <1>2, <1>3, BookKeeps

(* CJobGroupOptimization::EevtStartOptimization. *)
LEMMA StartOptimizationKeeps == ASSUME SchedInv, SearchIInv, EevtStartOptimization PROVE SearchIInv'
<1> USE DEF memoVars
<1> DEFINE t == task[cur]
           s == jsm[cur]
<1>1. /\ InState("GroupOptimization", "Initialized")
      /\ UNCHANGED <<gexprs, gstate, estate, best>> /\ pc = "body" /\ t.ejt = "GroupOptimization"
  BY DEF EevtStartOptimization, Me, My, InState
<1>2. t \in Task /\ s \in Jsm /\ TaskOK(t) /\ CursorOK(t, s)
  BY <1>1, AtBody
<1>3. t.c \in Ctx /\ t.g = CtxGroup[t.c] /\ t.g \in Group /\ gexprs[t.g] # <<>> /\ gexprs[t.g] \in Seq(GExpr)
  BY <1>1, <1>2, States, SearchAssumption DEF TaskOK
<1>4. CASE gstate[t.g] < Implemented
  <2> DEFINE u == GroupJob("GroupImplementation", t.g)
  <2>1. Stay(s, todo') /\ todo' = <<u>> /\ poc' = poc
    BY <1>4 DEF EevtStartOptimization, Me, My, Stay
  <2>3. u \in Task /\ u.ejt = "GroupImplementation" /\ u.g = t.g
    BY <1>3, NewTasks DEF Ejt
  <2> HIDE DEF u
  <2>4. TaskOK(u)
    BY <1>3, <2>3 DEF TaskOK, Ejt
  <2>5. todo' \in Seq(Task) /\ \A i \in DOMAIN todo' : TaskOK(todo'[i])
    BY <2>1, <2>3, <2>4, OneJob
  <2>6. s.last # None => t.g \in Group /\ s.last \in Range(gexprs[t.g])
    BY <1>2 DEF CursorOK
  <2>7. /\ gstate' \in [Group -> Unexplored..Implemented]
        /\ estate' \in [GExpr -> Unexplored..Implemented]
        /\ poc' \in [Stages -> [Ctx -> Unoptimized..Optimized]]
    BY <1>1, <2>1, States
  <2> QED
    BY <1>1, <1>2, <2>1, <2>5, <2>6, <2>7, StayKeeps
<1>5. CASE ~(gstate[t.g] < Implemented)
  <2> DEFINE m == [s EXCEPT !.eol = EolMax(t.g)]
  <2>1. poc' = [poc EXCEPT ![stage][t.c] = Optimizing] /\ Move(m, "OptimizingChildren")
    BY <1>5 DEF EevtStartOptimization, Me, My
  <2>2. EolMax(t.g) \in 0..1
    BY <1>3, EolMaxIs
  <2>3. m \in Jsm /\ m.last = s.last
    BY <1>2, <2>2, StateEol DEF SameExcept
  <2>4. "OptimizingChildren" \in Est /\ Optimizing \in Unoptimized..Optimized
    BY States DEF Est
  <2>5. /\ gstate' \in [Group -> Unexplored..Implemented]
        /\ estate' \in [GExpr -> Unexplored..Implemented]
        /\ poc' \in [Stages -> [Ctx -> Unoptimized..Optimized]]
    BY <1>1, <2>1, <2>4, States
  <2>6. m.last # None => t.g \in Group /\ m.last \in Range(gexprs[t.g])
    BY <1>2, <2>3 DEF CursorOK
  <2> HIDE DEF m
  <2> QED
    BY <1>1, <2>1, <2>3, <2>4, <2>5, <2>6, MoveWithKeeps
<1> QED
  BY <1>4, <1>5

(* CJobGroupOptimization::EevtCompleteOptimization. *)
LEMMA CompleteOptimizationKeeps ==
    ASSUME SchedInv, SearchIInv, EevtCompleteOptimization PROVE SearchIInv'
<1> USE DEF memoVars
<1> DEFINE t == task[cur]
           s == jsm[cur]
           m == [s EXCEPT !.eol = s.eol - 1, !.last = None]
<1>1. /\ InState("GroupOptimization", "DampingOptimizationLevel")
      /\ UNCHANGED <<gexprs, gstate, estate, best>> /\ pc = "body"
  BY DEF EevtCompleteOptimization, InState
<1>2. s \in Jsm
  BY <1>1, AtBody
<1>3. \/ s.eol > 0 /\ Move(m, "OptimizingChildren") /\ poc' = poc
      \/ poc' = [poc EXCEPT ![stage][t.c] = Optimized] /\ Finish
  BY DEF EevtCompleteOptimization, Me, My
<1>4. "OptimizingChildren" \in Est /\ Optimized \in Unoptimized..Optimized
  BY States DEF Est
<1>5. /\ gstate' \in [Group -> Unexplored..Implemented]
      /\ estate' \in [GExpr -> Unexplored..Implemented]
      /\ poc' \in [Stages -> [Ctx -> Unoptimized..Optimized]]
  <2>1. poc' = poc \/ poc' = [poc EXCEPT ![stage][t.c] = Optimized]
    BY <1>3
  <2>2. [poc EXCEPT ![stage][t.c] = Optimized] \in [Stages -> [Ctx -> Unoptimized..Optimized]]
    BY <1>4, States
  <2>3. poc' \in [Stages -> [Ctx -> Unoptimized..Optimized]]
    BY <2>1, <2>2, States
  <2> QED
    BY <1>1, <2>3, States
<1>6. CASE s.eol > 0 /\ Move(m, "OptimizingChildren") /\ poc' = poc
  <2>1. m \in Jsm /\ m.last = None
    BY <1>2, <1>6, StateDamp DEF SameExcept
  <2> HIDE DEF m
  <2> QED
    BY <1>1, <1>4, <1>5, <1>6, <2>1, MoveWithKeeps
<1>7. CASE poc' = [poc EXCEPT ![stage][t.c] = Optimized] /\ Finish
  BY <1>1, <1>4, <1>5, <1>7, MoveKeeps
<1> QED
  BY <1>3, <1>6, <1>7

(* The jobs of FScheduleGroupExpressions for the requests of the expressions of s. *)
LEMMA RequestJobs ==
    ASSUME SearchIInv, NEW c \in Ctx, NEW s \in Seq(GExpr),
           \A e \in Range(s) : e \notin Logical /\ InMemoExpr(e) /\ GroupOf[e] = CtxGroup[c],
           NEW jobs, jobs = [e \in GExpr |-> [n \in DOMAIN Request[e][c] |-> GExprOptimization(e, c, n, None)]],
           todo' = Collect(s, jobs)
    PROVE  todo' \in Seq(Task) /\ \A i \in DOMAIN todo' : TaskOK(todo'[i])
<1>1. ASSUME NEW e \in GExpr, NEW n \in DOMAIN Request[e][c]
      PROVE  /\ n \in Nat /\ jobs[e][n] = GExprOptimization(e, c, n, None) /\ jobs[e][n] \in Task
             /\ e \notin Logical /\ InMemoExpr(e) /\ GroupOf[e] = CtxGroup[c] => TaskOK(jobs[e][n])
  <2>1. n \in Nat
    BY RequestAssumption
  <2>2. jobs[e][n] = GExprOptimization(e, c, n, None)
    OBVIOUS
  <2> DEFINE t == GExprOptimization(e, c, n, None)
  <2>3. t \in Task /\ t.ejt = "GroupExpressionOptimization" /\ t.e = e /\ t.c = c /\ t.n = n /\ t.cte = None
    BY <2>1, NewTasks
  <2> HIDE DEF t
  <2>4. e \notin Logical /\ InMemoExpr(e) /\ GroupOf[e] = CtxGroup[c] => TaskOK(t)
    BY <2>3 DEF TaskOK, Ejt
  <2> QED
    BY <2>1, <2>2, <2>3, <2>4 DEF t
<1>2. ASSUME NEW e \in GExpr PROVE jobs[e] \in Seq(Task) /\ DOMAIN jobs[e] = DOMAIN Request[e][c]
  <2>1. Request[e][c] \in Seq(Seq(Ctx \cup {None}))
    BY RequestAssumption
  <2> DEFINE h == jobs[e]
             r == Request[e][c]
  <2>2. h = [n \in DOMAIN r |-> h[n]]
    OBVIOUS
  <2>3. \A n \in DOMAIN r : h[n] \in Task
    BY <1>1
  <2> HIDE DEF h, r
  <2>4. h \in Seq(Task) /\ DOMAIN h = DOMAIN r
    <3>1. r \in Seq(Seq(Ctx \cup {None}))
      BY <2>1 DEF r
    <3> QED
      BY <3>1, <2>2, <2>3, MapIs
  <2> QED
    BY <2>4 DEF h, r
<1>3. jobs \in [GExpr -> Seq(Task)]
  BY <1>2
<1>4. /\ todo' \in Seq(Task)
      /\ \A x \in Range(todo') : \E e \in Range(s) : x \in Range(jobs[e])
  BY <1>3, CollectIs, ZenonT(30)
<1>5. ASSUME NEW i \in DOMAIN todo' PROVE TaskOK(todo'[i])
  <2>0. todo'[i] \in Range(todo')
    BY DEF Range
  <2>1. PICK e \in Range(s) : todo'[i] \in Range(jobs[e])
    BY <1>4, <2>0
  <2>2. e \in GExpr /\ e \notin Logical /\ InMemoExpr(e) /\ GroupOf[e] = CtxGroup[c]
    BY DEF InMemoExpr
  <2>3. PICK n \in DOMAIN Request[e][c] : todo'[i] = jobs[e][n]
    BY <1>2, <2>1, <2>2 DEF Range
  <2> QED
    BY <1>1, <2>2, <2>3
<1> QED
  BY <1>4, <1>5

(* CJobGroupOptimization::EevtOptimizeChildren. *)
LEMMA OptimizeGroupKeeps == ASSUME SchedInv, SearchIInv, EevtOptimizeGroup PROVE SearchIInv'
<1> USE DEF memoVars, planVars
<1> DEFINE t == task[cur]
           s == jsm[cur]
           new == Keep(After(gexprs[t.g], s.last), GExpr \ Logical)
           C == {e \in GExpr : FOptimizeChild(t.origin, e, s.eol)}
           opt == Keep(new, C)
           jobs == [e \in GExpr |-> [n \in DOMAIN Request[e][t.c] |-> GExprOptimization(e, t.c, n, None)]]
<1>1. /\ InState("GroupOptimization", "OptimizingChildren")
      /\ UNCHANGED <<gexprs, gstate, estate, poc, best>> /\ pc = "body" /\ t.ejt = "GroupOptimization"
  BY DEF EevtOptimizeGroup, Me, My, InState
<1>2. s \in Jsm /\ t \in Task /\ TaskOK(t) /\ CursorOK(t, s)
  BY <1>1, AtBody
<1>3. t.c \in Ctx /\ t.g = CtxGroup[t.c]
  BY <1>1, <1>2 DEF TaskOK
<1>4. /\ t.g \in Group /\ new \in Seq(GExpr)
      /\ \A e \in Range(new) : e \in GExpr \ Logical /\ InMemoExpr(e) /\ e \in Range(gexprs[t.g])
      /\ new # <<>> => Last(new) \in Range(gexprs[t.g]) /\ Last(new) \in GExpr
  <2> DEFINE m == new
             N == GExpr \ Logical
  <2>1. m = Keep(After(gexprs[t.g], s.last), N)
    OBVIOUS
  <2> HIDE DEF m, N
  <2>2. /\ t.g \in Group /\ m \in Seq(GExpr)
        /\ \A e \in Range(m) : e \in N /\ InMemoExpr(e) /\ e \in Range(gexprs[t.g])
        /\ m # <<>> => Last(m) \in Range(gexprs[t.g]) /\ Last(m) \in GExpr
    BY <1>1, <2>1, GroupCalls
  <2> QED
    BY <2>2 DEF m, N
<1>5. \/ new # <<>> /\ Stay([s EXCEPT !.last = Last(new)], Collect(opt, jobs))
      \/ Move(s, "DampingOptimizationLevel")
  BY Zenon DEF EevtOptimizeGroup, Me, My
<1>6. /\ gstate' \in [Group -> Unexplored..Implemented]
      /\ estate' \in [GExpr -> Unexplored..Implemented]
      /\ poc' \in [Stages -> [Ctx -> Unoptimized..Optimized]]
  BY <1>1, States
<1> HIDE DEF new, C
<1>7. CASE Move(s, "DampingOptimizationLevel")
  <2>1. "DampingOptimizationLevel" \in Est
    BY DEF Est
  <2> QED
    BY <1>1, <1>6, <1>7, <2>1, MoveKeeps
<1>8. CASE new # <<>> /\ Stay([s EXCEPT !.last = Last(new)], Collect(opt, jobs))
  <2> DEFINE me == [s EXCEPT !.last = Last(new)]
  <2>1. me \in Jsm /\ me.last = Last(new) /\ me.last \in Range(gexprs[t.g])
    BY <1>2, <1>4, <1>8, StateLast DEF SameExcept
  <2>2. Stay(me, todo') /\ todo' = Collect(opt, jobs)
    BY <1>8 DEF Stay
  <2>3. KeepFacts(new, C, GExpr, opt)
    BY <1>4, KeepIs
  <2>4. opt \in Seq(GExpr) /\ Range(opt) \subseteq Range(new)
    BY <2>3 DEF KeepFacts
  <2>5. \A e \in Range(opt) : e \notin Logical /\ InMemoExpr(e) /\ GroupOf[e] = CtxGroup[t.c]
    BY <1>3, <1>4, <2>4 DEF SearchIInv, MemoInv
  <2> HIDE DEF opt
  <2> DEFINE jj == jobs
  <2>6. jj = [e \in GExpr |-> [n \in DOMAIN Request[e][t.c] |-> GExprOptimization(e, t.c, n, None)]]
    OBVIOUS
  <2>7. todo' = Collect(opt, jj)
    BY <2>2
  <2> HIDE DEF jj, jobs
  <2>8. todo' \in Seq(Task) /\ \A i \in DOMAIN todo' : TaskOK(todo'[i])
    BY <1>3, <2>4, <2>5, <2>6, <2>7, RequestJobs
  <2> HIDE DEF me
  <2> QED
    BY <1>1, <1>4, <1>6, <2>1, <2>2, <2>8, StayKeeps
<1> QED
  BY <1>5, <1>7, <1>8

(* CJobGroupExpressionOptimization::EevtOptimizeChildren. *)
LEMMA OptimizeChildrenKeeps == ASSUME SchedInv, SearchIInv, EevtOptimizeChildren PROVE SearchIInv'
<1> USE DEF memoVars, planVars
<1> DEFINE t == task[cur]
           s == jsm[cur]
           i == s.child
           x == IF i = 1 /\ t.cte # None THEN t.cte ELSE Request[t.e][t.c][t.n][i]
           m == [s EXCEPT !.child = i + 1]
           n == [s EXCEPT !.child = i + 1, !.ctxs = Append(s.ctxs, x)]
           u == GroupOptimization(x, t.e)
<1>1. /\ InState("GroupExpressionOptimization", "OptimizingChildren")
      /\ UNCHANGED <<gexprs, gstate, estate, poc, best>> /\ pc = "body"
      /\ t.ejt = "GroupExpressionOptimization"
  BY DEF EevtOptimizeChildren, Me, My, InState
<1>2. s \in Jsm /\ t \in Task /\ TaskOK(t) /\ CursorOK(t, s)
  BY <1>1, AtBody
<1>3. /\ t.e \in GExpr /\ t.e \notin Logical /\ InMemoExpr(t.e) /\ t.c \in Ctx
      /\ t.n \in DOMAIN Request[t.e][t.c] /\ Kids[t.e] \in Seq(Group) /\ i \in Nat \ {0}
      /\ t.cte # None => t.cte \in Ctx /\ 1 \in DOMAIN Kids[t.e] /\ CtxGroup[t.cte] = Kids[t.e][1]
  BY <1>1, <1>2, SearchAssumption DEF TaskOK, InMemoExpr, Jsm
<1>4. x = ChildContext(i)
  BY DEF ChildContext, Me
<1>5. \/ Move(s, "ChildrenOptimized") \/ Finish
      \/ Stay(m, <<>>)
      \/ i <= Len(Kids[t.e]) /\ Kids[t.e][i] \notin ScalarGroup /\ Stay(n, <<u>>)
  <2> HIDE DEF x
  <2>1. i <= Len(Kids[t.e]) <=> ~(i > Len(Kids[t.e]))
    BY <1>3
  <2> QED
    BY <1>4, <2>1 DEF EevtOptimizeChildren, Me, My
<1>6. /\ gstate' \in [Group -> Unexplored..Implemented]
      /\ estate' \in [GExpr -> Unexplored..Implemented]
      /\ poc' \in [Stages -> [Ctx -> Unoptimized..Optimized]]
  BY <1>1, States
<1>7. s.last # None => t.g \in Group /\ s.last \in Range(gexprs[t.g])
  BY <1>2 DEF CursorOK
<1>8. CASE Move(s, "ChildrenOptimized") \/ Finish
  <2>1. "ChildrenOptimized" \in Est
    BY DEF Est
  <2> QED
    BY <1>1, <1>6, <1>8, <2>1, MoveKeeps
<1>9. CASE Stay(m, <<>>)
  <2>1. m \in Jsm /\ m.last = s.last
    BY <1>2, StateChild DEF SameExcept
  <2>2. todo' = <<>> /\ DOMAIN <<>> = {} /\ <<>> \in Seq(Task)
    BY <1>9, EmptyList DEF Stay
  <2>3. todo' \in Seq(Task) /\ \A k \in DOMAIN todo' : TaskOK(todo'[k])
    BY <2>2
  <2>4. Stay(m, todo')
    BY <1>9, <2>2
  <2> HIDE DEF m
  <2> QED
    BY <1>1, <1>6, <1>7, <2>1, <2>3, <2>4, StayKeeps
<1>10. CASE i <= Len(Kids[t.e]) /\ Kids[t.e][i] \notin ScalarGroup /\ Stay(n, <<u>>)
  <2>1. i \in DOMAIN Kids[t.e] /\ Kids[t.e][i] \in Group /\ Kids[t.e][i] \in Range(Kids[t.e])
    <3>1. \A k \in Seq(Group) : \A h \in Nat \ {0} :
             h <= Len(k) => h \in DOMAIN k /\ k[h] \in Group /\ k[h] \in Range(k)
      BY DEF Range
    <3> QED
      BY <1>3, <1>10, <3>1
  <2>2. x \in Ctx /\ CtxGroup[x] = Kids[t.e][i]
    <3>1. CASE i = 1 /\ t.cte # None
      BY <3>1, <1>3
    <3>2. CASE ~(i = 1 /\ t.cte # None)
      <4>1. x = Request[t.e][t.c][t.n][i]
        BY <3>2
      <4>2. \A e \in GExpr \ Logical, c \in Ctx :
              \A k \in DOMAIN Request[e][c] : \A h \in DOMAIN Kids[e] :
                Kids[e][h] \notin ScalarGroup =>
                 /\ h \in DOMAIN Request[e][c][k] /\ Request[e][c][k][h] \in Ctx
                 /\ CtxGroup[Request[e][c][k][h]] = Kids[e][h]
        BY RequestAssumption, Zenon
      <4>3. Request[t.e][t.c][t.n][i] \in Ctx /\ CtxGroup[Request[t.e][t.c][t.n][i]] = Kids[t.e][i]
        <5>1. t.e \in GExpr \ Logical
          BY <1>3
        <5>2. \A k \in DOMAIN Request[t.e][t.c] : \A h \in DOMAIN Kids[t.e] :
                Kids[t.e][h] \notin ScalarGroup =>
                 /\ h \in DOMAIN Request[t.e][t.c][k] /\ Request[t.e][t.c][k][h] \in Ctx
                 /\ CtxGroup[Request[t.e][t.c][k][h]] = Kids[t.e][h]
          BY <1>3, <4>2, <5>1, Zenon
        <5> HIDE DEF i
        <5> QED
          BY <1>3, <1>10, <2>1, <5>2, Zenon
      <4> QED
        BY <4>1, <4>3
    <3> QED
      BY <3>1, <3>2
  <2> HIDE DEF x
  <2>3. n \in Jsm /\ n.last = s.last
    BY <1>2, <2>2, StateCtxs DEF SameExcept
  <2>4. u \in Task /\ u.ejt = "GroupOptimization" /\ u.c = x /\ u.g = CtxGroup[x]
    BY <1>3, <2>2, NewTasks
  <2>5. gexprs[CtxGroup[x]] # <<>>
    <3>1. \A k \in Range(Kids[t.e]) : gexprs[k] # <<>>
      BY <1>3, SearchAssumption DEF SearchIInv, MemoInv, InMemoExpr
    <3> QED
      BY <3>1, <2>1, <2>2
  <2> HIDE DEF u, n
  <2>6. TaskOK(u)
    BY <2>2, <2>4, <2>5 DEF TaskOK, Ejt
  <2>7. Stay(n, todo') /\ todo' = <<u>>
    BY <1>10 DEF Stay
  <2>8. todo' \in Seq(Task) /\ \A k \in DOMAIN todo' : TaskOK(todo'[k])
    BY <2>4, <2>6, <2>7, OneJob
  <2> QED
    BY <1>1, <1>6, <1>7, <2>3, <2>7, <2>8, StayKeeps
<1> QED
  BY <1>5, <1>8, <1>9, <1>10

(* A plan is a record of the type of plans. *)
LEMMA NewPlan ==
    \A e \in GExpr : \A s \in Seq(Ctx) : \A k \in Nat :
       LET p == [e |-> e, ctxs |-> s, cost |-> k] IN p \in Plan /\ p.e = e /\ p.ctxs = s /\ p.cost = k
BY DEF Plan

(* The job that optimizes a CTE sequence again. *)
LEMMA CTEKeeps ==
    ASSUME SearchIInv, NEW t, t = task[cur], t \in Task, TaskOK(t),
           t.ejt = "GroupExpressionOptimization", NEW p \in Plan,
           p.e \in GExpr, GroupOf[p.e] = CtxGroup[t.c], CTEJob(p) # <<>>, todo' = CTEJob(p)
    PROVE  todo' \in Seq(Task) /\ \A i \in DOMAIN todo' : TaskOK(todo'[i])
<1> DEFINE x == CTECtx[p.e]
           u == GExprOptimization(t.e, t.c, t.n, x)
<1>1. /\ t.e \in CTESequence /\ p.e \in CTESequence /\ x # None /\ todo' = <<u>>
  BY Zenon DEF CTEJob, Me
<1>2. /\ t.e \in GExpr /\ t.e \notin Logical /\ InMemoExpr(t.e) /\ t.c \in Ctx /\ CtxGroup[t.c] = GroupOf[t.e]
      /\ t.n \in DOMAIN Request[t.e][t.c] /\ t.n \in Nat
  BY DEF TaskOK, InMemoExpr, Task
<1>3. x \in Ctx
  BY <1>1, RequestAssumption
<1>4. 1 \in DOMAIN Kids[t.e] /\ CtxGroup[x] = Kids[t.e][1]
  BY <1>1, <1>2, RequestAssumption
<1> HIDE DEF x
<1>5. /\ u \in Task /\ u.ejt = "GroupExpressionOptimization" /\ u.e = t.e /\ u.c = t.c
      /\ u.n = t.n /\ u.cte = x
  BY <1>2, <1>3, NewTasks
<1> HIDE DEF u
<1>6. TaskOK(u)
  BY <1>2, <1>3, <1>4, <1>5 DEF TaskOK, Ejt
<1> QED
  BY <1>1, <1>5, <1>6, OneJob

(* CJobGroupExpressionOptimization::EevtOptimizeSelf. *)
LEMMA OptimizeSelfKeeps == ASSUME SchedInv, SearchIInv, EevtOptimizeSelf PROVE SearchIInv'
<1> USE DEF memoVars
<1> DEFINE t == task[cur]
           s == jsm[cur]
           cost == PlanCost(t.e, s.ctxs)
           plan == [e |-> t.e, ctxs |-> s.ctxs, cost |-> cost]
           old == best[stage][t.c]
           new == IF old = NoPlan \/ plan.cost < old.cost THEN plan ELSE old
           m == [s EXCEPT !.fCTE = TRUE]
<1>1. /\ InState("GroupExpressionOptimization", "EnfdPropsChecked")
      /\ UNCHANGED <<gexprs, gstate, estate, poc>> /\ pc = "body" /\ todo = <<>>
      /\ t.ejt = "GroupExpressionOptimization"
  BY DEF EevtOptimizeSelf, Me, My, InState
<1>2. s \in Jsm /\ t \in Task /\ TaskOK(t) /\ CursorOK(t, s) /\ stage \in Stages /\ cur \in Job
  BY <1>1, AtBody
<1>3. t.e \in GExpr /\ t.c \in Ctx /\ CtxGroup[t.c] = GroupOf[t.e] /\ s.ctxs \in Seq(Ctx)
  BY <1>1, <1>2 DEF TaskOK, InMemoExpr, Jsm
<1>4. /\ gstate' \in [Group -> Unexplored..Implemented]
      /\ estate' \in [GExpr -> Unexplored..Implemented]
      /\ poc' \in [Stages -> [Ctx -> Unoptimized..Optimized]]
  BY <1>1, States
<1>5. s.last # None => t.g \in Group /\ s.last \in Range(gexprs[t.g])
  BY <1>2 DEF CursorOK
<1>6. "SelfOptimized" \in Est
  BY DEF Est
<1>7. \/ UNCHANGED best /\ (Move(s, "SelfOptimized") \/ Finish)
      \/ /\ best' = [best EXCEPT ![stage][t.c] = new]
         /\ \/ CTEJob(new) # <<>> /\ Stay(m, CTEJob(new))
            \/ Move(s, "SelfOptimized")
  <2> HIDE DEF m
  <2>1. CASE s.fCTE
    BY <2>1 DEF EevtOptimizeSelf, Me, My
  <2>2. CASE ~s.fCTE /\ \E p \in costed : p.e = t.e /\ p.c = t.c /\ p.ctxs = s.ctxs
    BY <2>2 DEF EevtOptimizeSelf, Me, My
  <2>3. CASE ~s.fCTE /\ ~\E p \in costed : p.e = t.e /\ p.c = t.c /\ p.ctxs = s.ctxs
    BY <2>3, Zenon DEF EevtOptimizeSelf, Me, My, m
  <2> QED
    BY <2>1, <2>2, <2>3
<1>8. CASE UNCHANGED best /\ (Move(s, "SelfOptimized") \/ Finish)
  BY <1>1, <1>4, <1>6, <1>8, MoveKeeps
<1>9. CASE /\ best' = [best EXCEPT ![stage][t.c] = new]
           /\ \/ CTEJob(new) # <<>> /\ Stay(m, CTEJob(new))
              \/ Move(s, "SelfOptimized")
  <2>1. best \in [Stages -> [Ctx -> Plan]] /\ old \in Plan
    BY <1>2, <1>3, States
  <2>2. cost \in Nat
    BY <1>3, <2>1, CostIs
  <2> HIDE DEF cost
  <2>3. plan \in Plan /\ plan.e = t.e
    BY <1>3, <2>2, NewPlan
  <2>4. new \in Plan /\ new.e \in GExpr /\ GroupOf[new.e] = CtxGroup[t.c]
    <3>1. CASE new = plan
      BY <3>1, <2>3, <1>3
    <3>2. CASE new = old /\ old # NoPlan
      BY <3>2, <2>1, <1>2, <1>3 DEF SearchIInv, PlanInv
    <3> QED
      BY <3>1, <3>2
  <2> HIDE DEF plan, new
  <2>5. best' \in [Stages -> [Ctx -> Plan]]
    BY <1>9, <2>1, <2>4
  <2>6. PlanInv'
    <3>1. SUFFICES ASSUME NEW k \in Stages, NEW c \in Ctx, best'[k][c] # NoPlan
                   PROVE  best'[k][c].e \in GExpr /\ GroupOf[best'[k][c].e] = CtxGroup[c]
      BY DEF PlanInv
    <3>2. best'[k][c] = IF k = stage /\ c = t.c THEN new ELSE best[k][c]
      BY <1>9, <2>1
    <3> QED
      BY <3>1, <3>2, <2>4 DEF SearchIInv, PlanInv
  <2>7. MemoInv' /\ gexprs' \in [Group -> Seq(GExpr)] /\ Grows
    BY <1>1, GrowsRefl DEF SearchIInv, MemoInv, TypeInv
  <2>8. PICK me \in Jsm : me.last = s.last /\ jsm' = [jsm EXCEPT ![cur] = me]
    <3> DEFINE m1 == [s EXCEPT !.est = "SelfOptimized"]
    <3>1. m1 \in Jsm /\ m1.last = s.last
      BY <1>2, <1>6, StateEst DEF SameExcept
    <3>2. m \in Jsm /\ m.last = s.last
      BY <1>2, StateCTE DEF SameExcept
    <3>3. jsm' = [jsm EXCEPT ![cur] = m1] \/ jsm' = [jsm EXCEPT ![cur] = m]
      BY <1>9 DEF Move, Stay
    <3> HIDE DEF m1, m
    <3> QED
      BY <3>1, <3>2, <3>3
  <2>9. /\ run' \in {"go", "stay", "final"} /\ (run' # "stay" => todo' = <<>>)
        /\ todo' \in Seq(Task) /\ TodoInv'
    <3>1. CASE Move(s, "SelfOptimized")
      <4>1. todo' = <<>> /\ run' = "go"
        BY <3>1, <1>1 DEF Move
      <4> QED
        BY <4>1, EmptyList DEF TodoInv
    <3>2. CASE CTEJob(new) # <<>> /\ Stay(m, CTEJob(new))
      <4>1. todo' = CTEJob(new) /\ run' = "stay"
        BY <3>2 DEF Stay
      <4>2. todo' \in Seq(Task) /\ \A i \in DOMAIN todo' : TaskOK(todo'[i])
        <5> DEFINE tt == task[cur]
                   p == new
        <5>1. tt = task[cur] /\ tt \in Task /\ TaskOK(tt) /\ tt.ejt = "GroupExpressionOptimization"
              /\ p \in Plan /\ p.e \in GExpr /\ GroupOf[p.e] = CtxGroup[tt.c] /\ CTEJob(p) # <<>> /\ todo' = CTEJob(p)
          BY <1>1, <1>2, <2>4, <3>2, <4>1
        <5> HIDE DEF tt, p
        <5> QED
          BY <5>1, CTEKeeps
      <4>3. TodoInv'
        BY <1>1, <4>2 DEF TodoInv, TaskOK, InMemoExpr, InState, lifoVars, vars
      <4> QED
        BY <4>1, <4>2, <4>3
    <3> QED
      BY <1>9, <3>1, <3>2
  <2>10. me.last # None => t.g \in Group /\ me.last \in Range(gexprs'[t.g])
    BY <1>1, <1>5, <2>8
  <2> QED
    BY <1>1, <1>4, <2>5, <2>6, <2>7, <2>8, <2>9, <2>10, ActionKeeps
<1> QED
  BY <1>7, <1>8, <1>9

(* Every action of a job's state machine keeps the invariant. *)
LEMMA ActionsKeep == ASSUME SchedInv, SearchIInv, Action PROVE SearchIInv'
BY StartExplorationKeeps, ExploreGroupKeeps, ExploreChildrenKeeps, ExploreSelfKeeps,
   FinalizeExplorationKeeps, TransformKeeps, StartImplementationKeeps, ImplementGroupKeeps,
   ImplementChildrenKeeps, ImplementSelfKeeps, FinalizeImplementationKeeps,
   StartOptimizationKeeps, OptimizeGroupKeeps, CompleteOptimizationKeeps, InitializeKeeps,
   OptimizeChildrenKeeps, AddEnforcersKeeps, OptimizeSelfKeeps DEF Action

(* Each action runs in one state of one kind of job. *)
LEMMA ActionState == ASSUME Action PROVE \E ejt, est : InState(ejt, est)
<1> SUFFICES ASSUME \A ejt, est : ~InState(ejt, est) PROVE FALSE
  OBVIOUS
<1> QED
  BY DEF Action, EevtStartExploration, EevtExploreGroup,
    EevtExploreChildren, EevtExploreSelf, EevtFinalizeExploration,
    EevtTransform, EevtStartImplementation, EevtImplementGroup,
    EevtImplementChildren, EevtImplementSelf, EevtFinalizeImplementation,
    EevtStartOptimization, EevtOptimizeGroup, EevtCompleteOptimization,
    EevtInitialize, EevtOptimizeChildren, EevtAddEnforcers,
    EevtOptimizeSelf, EevtFinalize

(* The job that an action adds. *)
LEMMA AddedJob ==
    ASSUME SearchIInv, AddJob
    PROVE  /\ FreeJob \in Job /\ QueueOf(Head(todo)) \in Queue \cup {None}
           /\ AddChild(FreeJob, QueueOf(Head(todo))) /\ Push
<1>1. todo # <<>> /\ HasFreeJob /\ AddChild(FreeJob, QueueOf(Head(todo))) /\ Push
  BY DEF AddJob
<1>2. todo \in Seq(Task) /\ TodoInv
  BY DEF SearchIInv, TypeInv
<1>3. Head(todo) \in Task /\ TaskOK(Head(todo))
  BY <1>1, <1>2, TailIs DEF TodoInv
<1> QED
  BY <1>1, <1>3, FreeIs, TaskQueue

(* Steps of the search are steps of the scheduler. *)
LEMMA SearchLifo ==
    ASSUME SearchIInv, [SearchNext]_allVars
    PROVE  [LifoNext]_lifoVars
<1>1. CASE OptimizeStage
  <2> DEFINE main == GroupOptimization(RootCtx, None)
  <2>1. ScheduleMainJob(FreeJob, QueueOf(main)) /\ Push /\ HasFreeJob
    BY <1>1 DEF OptimizeStage
  <2>2. QueueOf(main) \in Queue /\ FreeJob \in Job
    BY <2>1, FreeIs, MainTask
  <2> HIDE DEF main
  <2> QED
    BY <2>1, <2>2 DEF LifoNext
<1>2. CASE FinalizeStage
  BY <1>2 DEF FinalizeStage, LifoNext
<1>3. CASE TimeOut
  BY <1>3 DEF TimeOut
<1>4. CASE LoopStep
  BY <1>4 DEF LifoNext
<1>5. CASE Action
  BY <1>5, ActionState DEF InState
<1>6. CASE AddJob
  BY <1>6, AddedJob DEF LifoNext
<1>7. CASE Suspend
  BY <1>7 DEF Suspend, LifoNext
<1>8. CASE Complete
  BY <1>8 DEF Complete, LifoNext
<1>9. CASE UNCHANGED allVars
  BY <1>9 DEF allVars
<1> QED
  BY <1>1, <1>2, <1>3, <1>4, <1>5, <1>6, <1>7, <1>8, <1>9 DEF SearchNext

(* A stuttering step keeps the invariant. *)
LEMMA StutterKeeps == ASSUME SearchIInv, UNCHANGED allVars PROVE SearchIInv'
<1> USE DEF allVars, lifoVars, vars, jobVars, queueVars, loopVars, searchVars, bodyVars, memoVars, planVars
<1>1. Live' = Live /\ UNCHANGED <<task, jsm, gexprs, stage, pjq>>
  BY DEF Live
<1>2. TypeInv' /\ MemoInv' /\ PlanInv' /\ TodoInv'
  BY DEF SearchIInv, TypeInv, MemoInv, PlanInv, TodoInv, TaskOK, InMemoExpr
<1>3. ControlInv'
  BY <1>1 DEF SearchIInv, ControlInv, Children
<1>4. JobsInv'
  BY <1>1, JobsStay
<1> QED
  BY <1>2, <1>3, <1>4 DEF SearchIInv

(* Every step of the search keeps the invariant. *)
LEMMA SearchStep == ASSUME SchedInv, SearchIInv, [SearchNext]_allVars PROVE SearchIInv'
<1>1. CASE OptimizeStage
  BY <1>1, OptimizeKeeps
<1>2. CASE FinalizeStage
  BY <1>2, FinalizeKeeps
<1>3. CASE TimeOut
  BY <1>3, TimeOutKeeps
<1>4. CASE LoopStep /\ UNCHANGED searchVars
  BY <1>4, LoopKeeps
<1>5. CASE Action
  BY <1>5, ActionsKeep
<1>6. CASE AddJob
  BY <1>6, AddedJob, AddKeeps
<1>7. CASE Suspend \/ Complete
  BY <1>7, BodyEnds
<1>8. CASE UNCHANGED allVars
  BY <1>8, StutterKeeps
<1> QED
  BY <1>1, <1>2, <1>3, <1>4, <1>5, <1>6, <1>7, <1>8 DEF SearchNext

(* The invariant of the scheduler and that of the search hold together. *)
LEMMA SearchInvariant == SearchSpec => [](SchedInv /\ SearchIInv)
<1>1. SearchInit => SchedInv /\ SearchIInv
  <2>1. SearchInit => LifoInit
    BY DEF SearchInit
  <2>2. LifoInit => SchedInv
    BY InitIInv, DfsInit DEF SchedInv, LifoInit, Init, ListOK, Distinct, Range
  <2> QED
    BY <2>1, <2>2, SearchInitInv
<1>2. SchedInv /\ SearchIInv /\ [SearchNext]_allVars => (SchedInv /\ SearchIInv)'
  <2> SUFFICES ASSUME SchedInv, SearchIInv, [SearchNext]_allVars PROVE SchedInv' /\ SearchIInv'
    OBVIOUS
  <2>1. SearchIInv' /\ [LifoNext]_lifoVars
    BY SearchStep, SearchLifo
  <2>2. SchedInv'
    BY <2>1, LifoStep, StepIInv, ListStep, DfsStep DEF SchedInv
  <2> QED
    BY <2>1, <2>2
<1> QED
  BY <1>1, <1>2, PTL DEF SearchSpec

(* The search runs on the scheduler as it is specified: each of its steps is a step
   of JobScheduler, so what is proved of the scheduler holds of the search. *)
THEOREM SearchImplementsScheduler == SearchSpec => LifoSpec
<1>1. SearchInit => LifoInit
  BY DEF SearchInit
<1>2. SchedInv /\ SearchIInv /\ [SearchNext]_allVars => [LifoNext]_lifoVars
  BY SearchLifo
<1> QED
  BY <1>1, <1>2, SearchInvariant, PTL DEF SearchSpec, LifoSpec

(* The jobs of the search are well formed and keep the contract that the scheduler
   relies on. *)
THEOREM SearchKeepsContract == SearchSpec => []SearchInv
<1>1. SchedInv /\ SearchIInv => SearchInv
  <2> SUFFICES ASSUME SchedInv, SearchIInv PROVE SearchTypeOK /\ ContractHolds
    BY DEF SearchInv
  <2>1. LifoTypeOK
    BY DEF SchedInv, LifoTypeOK, ListOK, IInv, Distinct
  <2>2. ASSUME NEW j \in Live
        PROVE  /\ task[j].ejt \in Ejt
               /\ jsm[j].last # None =>
                    task[j].g \in Group /\ jsm[j].last \in Range(gexprs[task[j].g])
               /\ jsm[j].ctxs \in Seq(Ctx)
               /\ pjq[j] = QueueOf(task[j])
    <3>1. TaskOK(task[j]) /\ pjq[j] = QueueOf(task[j]) /\ CursorOK(task[j], jsm[j]) /\ jsm[j] \in Jsm
      BY DEF SearchIInv, JobsInv, TypeInv, Live
    <3> QED
      BY <3>1 DEF TaskOK, CursorOK, Jsm
  <2>3. \A g \in Group : \A e \in Range(gexprs[g]) : GroupOf[e] = g
    BY DEF SearchIInv, MemoInv
  <2>4. SearchTypeOK
    BY <2>1, <2>2, <2>3 DEF SearchTypeOK, SearchIInv, TypeInv
  <2>5. ContractHolds
    BY DEF ContractHolds, SearchIInv, ControlInv
  <2> QED
    BY <2>4, <2>5
<1> QED
  BY <1>1, SearchInvariant, PTL

(* What jobs are about. *)
Thing == Group \cup GExpr \cup Ctx

(* What a job of type ejt on x has achieved when it completes, if it is needed at all. *)
Done(ejt, x) ==
    /\ ejt = "GroupExploration" => gstate[x] >= Explored
    /\ ejt = "GroupImplementation" => gstate[x] >= Implemented
    /\ ejt = "GroupExpressionExploration" => estate[x] >= Explored
    /\ ejt = "GroupExpressionImplementation" => estate[x] >= Implemented \/ x \in Circular[stage]
    /\ ejt = "GroupOptimization" => poc[stage][x] = Optimized

(* Task t is a job of type ejt on x. *)
IsJob(t, ejt, x) ==
    /\ t.ejt = ejt
    /\ ejt \in {"GroupExploration", "GroupImplementation"} => t.g = x
    /\ ejt \in {"GroupExpressionExploration", "GroupExpressionImplementation"} => t.e = x
    /\ ejt = "GroupOptimization" => t.c = x

(* The logical expressions of list s up to the cursor. *)
Passed(s, last) == {e \in Logical : \E i \in DOMAIN s, k \in DOMAIN s : i <= k /\ s[i] = e /\ s[k] = last}

(* The jobs that a job with task t and bookkeeping s has called and needs. *)
Awaits(t, s, ejt, x) ==
    \/ /\ t.ejt = "GroupExploration" /\ ejt = "GroupExpressionExploration"
       /\ s.last # None /\ x \in Passed(gexprs[t.g], s.last)
    \/ /\ t.ejt = "GroupImplementation" /\ ejt = "GroupExpressionImplementation"
       /\ s.last # None /\ x \in Passed(gexprs[t.g], s.last)
    \/ /\ t.ejt = "GroupExpressionExploration" /\ ejt = "GroupExploration"
       /\ s.fKids /\ x \in Range(Kids[t.e])
    \/ /\ t.ejt = "GroupExpressionImplementation" /\ ejt = "GroupImplementation"
       /\ s.fKids /\ x \in Range(Kids[t.e])
    \/ /\ t.ejt = "GroupExpressionOptimization" /\ ejt = "GroupOptimization"
       /\ x \in Range(s.ctxs)

(* They are done, or the job is about to call them, or they are its children. *)
AwaitInv ==
    ~timedOut => \A j \in Live, ejt \in Ejt, x \in Thing :
        Awaits(task[j], jsm[j], ejt, x) =>
            \/ Done(ejt, x)
            \/ j = cur /\ pc = "body" /\ \E i \in DOMAIN todo : IsJob(todo[i], ejt, x)
            \/ \E c \in Children(j) : IsJob(task[c], ejt, x)

(* What the caller of a job of task k works on. *)
Caller(p, k) ==
    /\ k.ejt = "GroupExpressionExploration" => p.ejt = "GroupExploration" /\ p.g = GroupOf[k.e]
    /\ k.ejt = "Transformation" /\ k.g = "Exploration" =>
          p.ejt = "GroupExpressionExploration" /\ p.e = k.e
    /\ k.ejt = "GroupExpressionImplementation" =>
          p.ejt = "GroupImplementation" /\ p.g = GroupOf[k.e]
    /\ k.ejt = "GroupExpressionOptimization" =>
          p.c = k.c /\ IF k.cte = None THEN p.ejt = "GroupOptimization"
                       ELSE p.ejt = "GroupExpressionOptimization" /\ p.cte = None
CallInv ==
    /\ \A j \in Live : IF parent[j] = None THEN task[j].ejt = "GroupOptimization"
                       ELSE Caller(task[parent[j]], task[j])
    /\ \A i \in DOMAIN todo : Caller(task[cur], todo[i])

(* A job with a queue that has started its operation is the main job of its queue. *)
OwnerInv ==
    \A j \in Live : pjq[j] # None /\ (jsm[j] # NewJsm \/ Children(j) # {}) =>
        owner[pjq[j]] = j /\ (Children(j) # {} => ~fCompleted[pjq[j]])

(* How far a job is. *)
ProgressOK(t, s) ==
    /\ t.ejt = "GroupImplementation" /\ (s.est # "Initialized" \/ s.last # None) =>
          gstate[t.g] >= Implementing
    /\ t.ejt \in {"GroupExpressionExploration", "GroupExpressionImplementation"} =>
          s.est = "Initialized" \/ s.fKids
ImplementsExplored(t) ==
    t.ejt = "GroupExpressionImplementation" => gstate[GroupOf[t.e]] >= Implementing
ProgressInv ==
    /\ \A j \in Live : ProgressOK(task[j], jsm[j]) /\ ImplementsExplored(task[j])
    /\ \A i \in DOMAIN todo : ImplementsExplored(todo[i])

(* The executing job has reached the final state of its operation on queue q. *)
Final(ejt, x) == pc = "body" /\ run = "final" /\ IsJob(task[cur], ejt, x)
DoneInv ==
    /\ \A ejt \in Ejt, x \in Thing : Final(ejt, x) => Done(ejt, x)
    /\ pc = "post" /\ result /\ pjq[cur] = None /\ ~timedOut =>
          \A ejt \in Ejt, x \in Thing : IsJob(task[cur], ejt, x) => Done(ejt, x)
    /\ ~timedOut =>
          /\ \A g \in Group : fCompleted[<<"Exploration", g>>] => gstate[g] >= Explored
          /\ \A g \in Group : fCompleted[<<"Implementation", g>>] => gstate[g] >= Implemented
          /\ \A c \in Ctx : fCompleted[<<"Optimization", c>>] => poc[stage][c] = Optimized
    /\ \A g \in Group : gstate[g] >= Explored =>
          fCompleted[<<"Exploration", g>>] \/ Final("GroupExploration", g)
    /\ \A g \in Group : gstate[g] >= Implemented =>
          fCompleted[<<"Implementation", g>>] \/ Final("GroupImplementation", g)
    /\ stage < MaxStages => \A c \in Ctx : poc[stage][c] = Optimized =>
          fCompleted[<<"Optimization", c>>] \/ Final("GroupOptimization", c)

(* What a group waits for depends on the stage only; to be explored, it waits for all. *)
LEMMA DueFacts ==
    /\ Due(Explored) = Logical /\ \A st : Due(st) \subseteq Logical
    /\ stage' = stage => \A st : Due(st)' = Due(st)
<1>1. Explored # Implemented
  BY DEF Explored, Implemented
<1> QED
  BY <1>1 DEF Due, ContainsCircularDependencies

(* Children first: of groups under explored expressions, of expressions in explored groups. *)
ClosedInv ==
    /\ \A e \in GExpr, st \in {Explored, Implemented} : estate[e] >= st =>
          \A k \in Range(Kids[e]) : gstate[k] >= st
    /\ \A g \in Group, st \in {Explored, Implemented} : gstate[g] >= st =>
          \A e \in Range(gexprs[g]) \cap Due(st) : estate[e] >= st
    /\ \A g \in Group : gexprs[g] = <<>> => gstate[g] = Unexplored

(* The stages to come have neither optimized contexts nor plans. *)
FutureInv ==
    \A s \in Stages, c \in Ctx : s > stage => poc[s][c] = Unoptimized /\ best[s][c] = NoPlan

HistoryInv == AwaitInv /\ CallInv /\ OwnerInv /\ ProgressInv /\ DoneInv /\ ClosedInv /\ FutureInv

(* The contexts under a plan, or under an expression that is about to be costed, have plans. *)
PlannedInv ==
    /\ \A s \in Stages, c \in Ctx : best[s][c] # NoPlan =>
          \A i \in DOMAIN best[s][c].ctxs : PocLookupBest(best[s][c].ctxs[i]) # NoPlan
    /\ \A j \in Live : task[j].ejt = "GroupExpressionOptimization" /\ jsm[j].est = "EnfdPropsChecked" =>
          \A i \in DOMAIN jsm[j].ctxs : PocLookupBest(jsm[j].ctxs[i]) # NoPlan
-----------------------------------------------------------------------------
(* The main job of a queue stays, and a job without a queue completes in its own action. *)
LEMMA LoopOwners ==
    ASSUME IInv, ListOK, LoopStep
    PROVE  /\ \A q \in Queue, j \in Job : owner[q] = j => owner'[q] = j
           /\ pc' = "post" /\ result' => cur' = cur /\ pjq[cur] # None
<1>0. TypeOK /\ QueueInv /\ CurInv /\ None \notin Job
  BY JobAssumption DEF IInv
<1>a. pc \notin {"idle", "retrieve"} => /\ cur \in Job /\ cur # None /\ cur \in Live
                                        /\ pjq[cur] \in Queue \cup {None}
  BY CurIsRunning DEF IInv
<1>1. CASE Pop
  <2>1. PICK j \in waiting : Retrieve(j)
    BY <1>1, PopOne
  <2> QED
    BY <2>1 DEF Retrieve, queueVars
<1>2. CASE Return \/ ExecuteUnqueued \/ ExecuteQueued \/ ExecuteCompleted
  BY <1>2 DEF Return, ExecuteUnqueued, ExecuteQueued, ExecuteCompleted, BeginBody, queueVars, jobVars
<1>3. CASE ExecuteMain
  <2>1. pc = "execute" /\ pjq[cur] \in Queue /\ pc' = "body" /\ ~fCompleted[pjq[cur]]
    BY <1>3, <1>a DEF ExecuteMain, BeginBody
  <2>2. \/ owner' = owner
        \/ owner' = [owner EXCEPT ![pjq[cur]] = cur] /\ queued[pjq[cur]] = <<>>
    BY <1>3 DEF ExecuteMain
  <2>3. queued[pjq[cur]] = <<>> => owner[pjq[cur]] = None
    BY <1>0, <2>1 DEF QueueInv
  <2> QED
    BY <1>0, <2>1, <2>2, <2>3 DEF TypeOK
<1>4. CASE NotifyDone
  BY <1>4, <1>0, <1>a DEF NotifyDone, queueVars, CurInv
<1>5. CASE PostRunnable \/ PostSuspended \/ PostCompleted \/ NotifyOne
  BY <1>5 DEF PostRunnable, PostSuspended, PostCompleted, NotifyOne, queueVars, loopVars
<1> QED
  BY <1>1, <1>2, <1>3, <1>4, <1>5 DEF LoopStep

(* What a completed queue tells. *)
LEMMA QueueDone ==
    ASSUME DoneInv, ~timedOut, NEW t \in Task, TaskOK(t), QueueOf(t) # None, fCompleted[QueueOf(t)],
           NEW ejt, NEW x, IsJob(t, ejt, x)
    PROVE  Done(ejt, x)
<1>1. /\ \A g \in Group : fCompleted[<<"Exploration", g>>] => gstate[g] >= Explored
      /\ \A g \in Group : fCompleted[<<"Implementation", g>>] => gstate[g] >= Implemented
      /\ \A c \in Ctx : fCompleted[<<"Optimization", c>>] => poc[stage][c] = Optimized
  BY DEF DoneInv
<1>2. t.ejt = ejt /\ ejt \in {"GroupExploration", "GroupImplementation", "GroupOptimization"}
  BY DEF IsJob, QueueOf, TaskOK
<1>3. CASE ejt = "GroupExploration"
  <2>1. QueueOf(t) = <<"Exploration", x>> /\ x \in Group
    BY <1>2, <1>3 DEF IsJob, QueueOf, TaskOK
  <2> QED
    BY <1>1, <1>3, <2>1 DEF Done
<1>4. CASE ejt = "GroupImplementation"
  <2>1. QueueOf(t) = <<"Implementation", x>> /\ x \in Group
    BY <1>2, <1>4 DEF IsJob, QueueOf, TaskOK
  <2> QED
    BY <1>1, <1>4, <2>1 DEF Done
<1>5. CASE ejt = "GroupOptimization"
  <2>1. QueueOf(t) = <<"Optimization", x>> /\ x \in Ctx
    BY <1>2, <1>5 DEF IsJob, QueueOf, TaskOK
  <2> QED
    BY <1>1, <1>5, <2>1 DEF Done
<1> QED
  BY <1>2, <1>3, <1>4, <1>5

(* A job is released only when it has achieved its goal. *)
LEMMA FreedDone ==
    ASSUME SchedInv, SearchIInv, DoneInv, ~timedOut, LoopStep,
           NEW c \in Live, c \notin Live', NEW ejt \in Ejt, NEW x \in Thing, IsJob(task[c], ejt, x)
    PROVE  Done(ejt, x)
<1>1. \/ pc = "post" /\ result /\ c = cur
      \/ pc = "notify" /\ pjq[cur] # None /\ c \in Range(queued[pjq[cur]])
  BY LoopFacts DEF SchedInv
<1>2. /\ task[c] \in Task /\ TaskOK(task[c]) /\ pjq[c] = QueueOf(task[c]) /\ CurInv /\ QueueInv
      /\ cur \in Job /\ pjq[cur] \in Queue \cup {None}
  BY <1>1, CurIsRunning DEF SearchIInv, TypeInv, JobsInv, Live, SchedInv, IInv, TypeOK
<1>3. CASE c = cur /\ pc = "post" /\ result /\ pjq[cur] = None
  BY <1>3 DEF DoneInv
<1>4. CASE pjq[c] # None /\ fCompleted[pjq[c]]
  BY <1>2, <1>4, QueueDone
<1>5. c = cur /\ pc = "post" /\ result /\ pjq[cur] # None => fCompleted[pjq[c]]
  BY <1>2 DEF CurInv
<1>6. pc = "notify" /\ pjq[cur] # None /\ c \in Range(queued[pjq[cur]]) => pjq[c] # None /\ fCompleted[pjq[c]]
  BY <1>2 DEF CurInv, QueueInv
<1> QED
  BY <1>1, <1>3, <1>4, <1>5, <1>6

(* The scheduler's own steps keep the history. *)
LEMMA LoopHistory ==
    ASSUME SchedInv, SearchIInv, HistoryInv, LoopStep, UNCHANGED searchVars
    PROVE  HistoryInv'
<1> USE DEF searchVars, bodyVars, memoVars, planVars
<1>1. /\ UNCHANGED <<parent, pjq, fCompleted, created, stage>>
      /\ Live' \subseteq Live
      /\ pc \in {"retrieve", "execute", "notify", "post"}
      /\ pc' = "body" => pc = "execute" /\ cur' = cur /\ Children(cur) = {} /\ Live' = Live
  BY LoopFacts DEF SchedInv
<1>2. /\ \A q \in Queue, j \in Job : owner[q] = j => owner'[q] = j
      /\ pc' = "post" /\ result' => cur' = cur /\ pjq[cur] # None
  BY LoopOwners DEF SchedInv
<1>3. \A j : Children(j)' \subseteq Children(j)
  BY <1>1 DEF Children
<1>4. run = "go" /\ todo = <<>>
  BY <1>1 DEF SearchIInv, ControlInv
<1>5. AwaitInv'
  <2>1. SUFFICES ASSUME ~timedOut, NEW j \in Live', NEW ejt \in Ejt, NEW x \in Thing,
                        Awaits(task[j], jsm[j], ejt, x)'
                 PROVE  Done(ejt, x)' \/ \E c \in Children(j)' : IsJob(task[c], ejt, x)'
    BY DEF AwaitInv
  <2>2. Done(ejt, x) \/ \E c \in Children(j) : IsJob(task[c], ejt, x)
    <3>1. Awaits(task[j], jsm[j], ejt, x)
      BY <2>1 DEF Awaits
    <3> QED
      BY <3>1, <2>1, <1>1 DEF HistoryInv, AwaitInv
  <2>3. Done(ejt, x) => Done(ejt, x)'
    BY <1>1 DEF Done
  <2>4. ASSUME NEW c \in Children(j), IsJob(task[c], ejt, x)
        PROVE  Done(ejt, x)' \/ \E b \in Children(j)' : IsJob(task[b], ejt, x)'
    <3>1. c \in Live /\ parent[c] = j
      BY DEF Children
    <3>2. CASE c \in Live'
      <4>1. c \in Children(j)'
        BY <3>1, <3>2, <1>1 DEF Children
      <4>2. IsJob(task[c], ejt, x)'
        BY <2>4 DEF IsJob
      <4> QED
        BY <4>1, <4>2
    <3>3. CASE c \notin Live'
      BY <3>1, <3>3, <2>1, <2>3, <2>4, FreedDone DEF HistoryInv
    <3> QED
      BY <3>2, <3>3
  <2> QED
    BY <2>2, <2>3, <2>4
<1>6. CallInv'
  <2>1. \A j \in Live' : IF parent[j] = None THEN task[j].ejt = "GroupOptimization"
                         ELSE Caller(task[parent[j]], task[j])
    BY <1>1 DEF HistoryInv, CallInv
  <2>2. DOMAIN todo' = {}
    BY <1>4
  <2> QED
    BY <2>1, <2>2, <1>1 DEF CallInv, Caller
<1>7. OwnerInv'
  <2>1. SUFFICES ASSUME NEW j \in Live', pjq[j] # None, jsm[j] # NewJsm \/ Children(j)' # {}
                 PROVE  owner'[pjq[j]] = j /\ (Children(j)' # {} => ~fCompleted[pjq[j]])
    BY <1>1 DEF OwnerInv
  <2>2. j \in Live /\ j \in Job /\ pjq[j] \in Queue
    BY <2>1, <1>1 DEF Live, SchedInv, IInv, TypeOK
  <2>3. owner[pjq[j]] = j /\ (Children(j) # {} => ~fCompleted[pjq[j]])
    BY <2>1, <2>2, <1>3 DEF HistoryInv, OwnerInv
  <2> QED
    BY <2>2, <2>3, <1>2, <1>3
<1>8. ProgressInv'
  <2>1. DOMAIN todo' = {}
    BY <1>4
  <2> QED
    BY <2>1, <1>1 DEF HistoryInv, ProgressInv, ProgressOK, ImplementsExplored
<1>9. DoneInv'
  <2>1. \A ejt, x : ~Final(ejt, x) /\ ~Final(ejt, x)'
    BY <1>1, <1>4 DEF Final
  <2>2. ~(pc' = "post" /\ result' /\ pjq'[cur'] = None)
    BY <1>1, <1>2
  <2> QED
    BY <2>1, <2>2, <1>1 DEF HistoryInv, DoneInv
<1>10. ClosedInv' /\ FutureInv'
  BY <1>1, DueFacts DEF HistoryInv, ClosedInv, FutureInv
<1> QED
  BY <1>5, <1>6, <1>7, <1>8, <1>9, <1>10 DEF HistoryInv

(* Nothing that the history speaks of changes. *)
LEMMA QuietHistory ==
    ASSUME HistoryInv,
           UNCHANGED <<task, jsm, todo, run, gexprs, gstate, estate, poc, best, ejs, parent, pjq,
                       owner, fCompleted, cur, pc, result, stage>>,
           timedOut' = timedOut \/ timedOut'
    PROVE  HistoryInv'
<1>1. Live' = Live /\ \A j : Children(j)' = Children(j)
  BY DEF Live, Children
<1>2. AwaitInv'
  BY <1>1 DEF HistoryInv, AwaitInv, Awaits, Done, IsJob
<1>3. CallInv' /\ OwnerInv' /\ ProgressInv'
  BY <1>1 DEF HistoryInv, CallInv, Caller, OwnerInv, ProgressInv, ProgressOK, ImplementsExplored
<1>4. DoneInv'
  BY <1>1 DEF HistoryInv, DoneInv, Final, Done, IsJob
<1>5. ClosedInv' /\ FutureInv'
  BY <1>1, DueFacts DEF HistoryInv, ClosedInv, FutureInv
<1> QED
  BY <1>2, <1>3, <1>4, <1>5 DEF HistoryInv

(* The timeout of the stage keeps the history. *)
LEMMA TimeOutHistory == ASSUME HistoryInv, TimeOut PROVE HistoryInv'
<1>1. /\ UNCHANGED <<task, jsm, todo, run, gexprs, gstate, estate, poc, best, ejs, parent, pjq,
                     owner, fCompleted, cur, pc, result, stage>>
      /\ timedOut'
  BY DEF TimeOut, lifoVars, vars, jobVars, queueVars, loopVars, bodyVars, memoVars, planVars
<1> QED
  BY <1>1, QuietHistory

(* A stuttering step keeps the history. *)
LEMMA StutterHistory == ASSUME HistoryInv, UNCHANGED allVars PROVE HistoryInv'
<1>1. /\ UNCHANGED <<task, jsm, todo, run, gexprs, gstate, estate, poc, best, ejs, parent, pjq,
                     owner, fCompleted, cur, pc, result, stage>>
      /\ timedOut' = timedOut
  BY DEF allVars, searchVars, lifoVars, vars, jobVars, queueVars, loopVars, bodyVars, memoVars, planVars
<1> QED
  BY <1>1, QuietHistory

(* A job that has just been created awaits nothing. *)
LEMMA NewAwaits == \A t, ejt, x : ~Awaits(t, NewJsm, ejt, x)
<1>1. NewJsm.last = None /\ ~NewJsm.fKids /\ NewJsm.ctxs = <<>> /\ Range(<<>>) = {}
  BY EmptyList DEF NewJsm
<1> QED
  BY <1>1 DEF Awaits

(* The start of a stage keeps the history. *)
LEMMA OptimizeHistory == ASSUME SchedInv, SearchIInv, HistoryInv, OptimizeStage PROVE HistoryInv'
<1> DEFINE main == GroupOptimization(RootCtx, None)
           j == FreeJob
           q == QueueOf(main)
<1> USE DEF memoVars, planVars
<1>1. /\ stage < MaxStages /\ ScheduleMainJob(j, q) /\ Enlist(j, main) /\ timedOut' = FALSE /\ HasFreeJob
      /\ UNCHANGED <<todo, run, gexprs, gstate, estate, poc, best>>
  BY DEF OptimizeStage
<1>2. j \in Job /\ j \notin Live
  BY <1>1, FreeIs
<1>3. main \in Task /\ TaskOK(main) /\ main.ejt = "GroupOptimization"
  BY MainTask DEF SearchIInv, MemoInv
<1> HIDE DEF main, j
<1>4. /\ Create(j, QueueOf(main), None, Level[q]) /\ pc = "idle" /\ pc' = "retrieve" /\ created = 0
      /\ UNCHANGED <<owner, fCompleted, cur, stage>>
  BY <1>1 DEF ScheduleMainJob, queueVars
<1>5. Live = {} /\ (\A p \in Queue : ~fCompleted[p]) /\ todo = <<>> /\ run = "go"
  BY <1>4 DEF SearchIInv, ControlInv
<1>6. /\ Live' = {j} /\ task'[j] = main /\ jsm'[j] = NewJsm /\ parent'[j] = None
  BY <1>1, <1>2, <1>3, <1>4, <1>5, CreateStep DEF SchedInv
<1>7. \A k : Children(k)' \subseteq {} \/ k = None
  BY <1>6 DEF Children
<1>8. j # None
  BY <1>2, JobAssumption
<1>9. AwaitInv'
  <2>1. SUFFICES ASSUME NEW k \in Live', NEW ejt \in Ejt, NEW x \in Thing, Awaits(task[k], jsm[k], ejt, x)'
                 PROVE  FALSE
    BY DEF AwaitInv
  <2>2. jsm'[k] = NewJsm
    BY <1>6
  <2>3. \A t, s : s = NewJsm' => ~Awaits(t, s, ejt, x)'
    <3>1. NewJsm.last = None /\ ~NewJsm.fKids /\ NewJsm.ctxs = <<>> /\ Range(<<>>) = {}
      BY EmptyList DEF NewJsm
    <3> QED
      BY <3>1 DEF Awaits
  <2> QED
    BY <2>1, <2>2, <2>3 DEF Awaits
<1>10. CallInv'
  <2>1. DOMAIN todo' = {}
    BY <1>1, <1>5
  <2> QED
    BY <2>1, <1>3, <1>6 DEF CallInv
<1>11. OwnerInv'
  BY <1>6, <1>7, <1>8 DEF OwnerInv
<1>12. ProgressInv'
  <2>1. DOMAIN todo' = {}
    BY <1>1, <1>5
  <2>2. SUFFICES ASSUME NEW k \in Live' PROVE ProgressOK(task[k], jsm[k])' /\ ImplementsExplored(task[k])'
    BY <2>1 DEF ProgressInv
  <2>3. task'[k].ejt = "GroupOptimization"
    BY <1>3, <1>6
  <2> QED
    BY <2>3 DEF ProgressOK, ImplementsExplored
<1>13. DoneInv'
  <2>1. \A ejt, x : ~Final(ejt, x) /\ ~Final(ejt, x)'
    BY <1>4 DEF Final
  <2>2. /\ \A g \in Group : <<"Exploration", g>> \in Queue /\ <<"Implementation", g>> \in Queue
        /\ \A c \in Ctx : <<"Optimization", c>> \in Queue
    BY SearchAssumption
  <2> QED
    BY <2>1, <2>2, <1>1, <1>4, <1>5 DEF HistoryInv, DoneInv
<1>14. ClosedInv' /\ FutureInv'
  BY <1>1, <1>4, DueFacts DEF HistoryInv, ClosedInv, FutureInv
<1> QED
  BY <1>9, <1>10, <1>11, <1>12, <1>13, <1>14 DEF HistoryInv

(* The end of a stage, which resets the states of the groups, keeps the history. *)
LEMMA FinalizeHistory == ASSUME SchedInv, SearchIInv, HistoryInv, FinalizeStage PROVE HistoryInv'
<1> USE DEF FinalizeStage, FinalizeSearchStage, jobVars, loopVars, bodyVars
<1>1. Live' = {} /\ todo' = <<>> /\ pc' = "idle" /\ stage' = stage + 1 /\ stage \in Nat
  BY FinalizeKeeps DEF SearchIInv, ControlInv
<1>2. AwaitInv' /\ CallInv' /\ OwnerInv' /\ ProgressInv'
  <2>1. DOMAIN todo' = {}
    BY <1>1
  <2> QED
    BY <1>1, <2>1 DEF AwaitInv, CallInv, OwnerInv, ProgressInv
<1>3. Explored > 0 /\ Implemented > 0 /\ Unexplored = 0
  BY DEF Explored, Implemented, Unexplored
<1>4. ClosedInv'
  <2>1. \A st \in {Explored, Implemented} : ~(Unexplored >= st)
    BY DEF Explored, Implemented, Unexplored
  <2>2. /\ \A g \in Group : gstate'[g] = Unexplored
        /\ \A e \in GExpr : estate'[e] = Unexplored
    OBVIOUS
  <2> HIDE DEF FinalizeStage, FinalizeSearchStage
  <2> QED
    BY <2>1, <2>2 DEF ClosedInv
<1>5. FutureInv'
  BY <1>1 DEF HistoryInv, FutureInv, Stages
<1>6. DoneInv'
  <2>1. \A ejt, x : ~Final(ejt, x)'
    BY <1>1 DEF Final
  <2>2. /\ \A g \in Group : <<"Exploration", g>> \in Queue /\ <<"Implementation", g>> \in Queue
        /\ \A c \in Ctx : <<"Optimization", c>> \in Queue
    BY SearchAssumption
  <2>3. \A q \in Queue : ~fCompleted'[q]
    OBVIOUS
  <2>4. \A g \in Group : ~(gstate'[g] >= Explored) /\ ~(gstate'[g] >= Implemented)
    BY DEF Explored, Implemented, Unexplored
  <2>5. stage' < MaxStages => \A c \in Ctx : poc'[stage'][c] # Optimized
    <3>1. stage' < MaxStages => stage' \in Stages /\ stage' > stage
      BY <1>1, JobAssumption DEF Stages
    <3>2. \A s \in Stages, c \in Ctx : s > stage => poc[s][c] = Unoptimized
      BY DEF HistoryInv, FutureInv
    <3> QED
      BY <3>1, <3>2 DEF Unoptimized, Optimized
  <2> HIDE DEF FinalizeStage, FinalizeSearchStage
  <2> QED
    BY <1>1, <2>1, <2>2, <2>3, <2>4, <2>5 DEF DoneInv
<1> QED
  BY <1>2, <1>4, <1>5, <1>6 DEF HistoryInv

(* A child that is created joins the children of the executing job. *)
LEMMA AddHistory ==
    ASSUME SchedInv, SearchIInv, HistoryInv, AddJob, AddChild(FreeJob, QueueOf(Head(todo)))
    PROVE  HistoryInv'
<1>0. PICK t, j : t = Head(todo) /\ j = FreeJob
  OBVIOUS
<1> DEFINE q == QueueOf(t)
<1> USE DEF memoVars, planVars
<1>1. /\ AddChild(j, q) /\ Enlist(j, t) /\ HasFreeJob /\ todo # <<>> /\ todo' = Tail(todo)
      /\ UNCHANGED <<run, gexprs, gstate, estate, poc, best, timedOut>>
  BY <1>0 DEF AddJob
<1>2. j \in Job /\ j \notin Live
  BY <1>0, <1>1, FreeIs
<1>3. todo \in Seq(Task)
  BY DEF SearchIInv, TypeInv
<1>4. /\ t \in Task /\ TaskOK(t) /\ 1 \in DOMAIN todo /\ t = todo[1]
      /\ \A i \in DOMAIN todo' : i + 1 \in DOMAIN todo /\ todo'[i] = todo[i + 1]
      /\ \A i \in DOMAIN todo : i = 1 \/ (i - 1 \in DOMAIN todo' /\ todo'[i - 1] = todo[i])
  <2>1. t \in Task /\ TaskOK(t) /\ \A i \in DOMAIN todo' : i + 1 \in DOMAIN todo /\ todo'[i] = todo[i + 1]
    BY <1>0, <1>1, <1>3, TailIs DEF SearchIInv, TodoInv
  <2>2. 1 \in DOMAIN todo /\ t = todo[1]
    BY <1>0, <1>1, <1>3
  <2>3. \A s \in Seq(Task) : s # <<>> =>
           \A i \in DOMAIN s : i = 1 \/ (i - 1 \in DOMAIN Tail(s) /\ Tail(s)[i - 1] = s[i])
    OBVIOUS
  <2> QED
    BY <1>1, <1>3, <2>1, <2>2, <2>3
<1>5. /\ \E lvl : Create(j, QueueOf(t), cur, lvl)
      /\ pc = "body" /\ pc' = "body" /\ UNCHANGED <<queueVars, cur, result, stage>>
  BY <1>1 DEF AddChild, loopVars
<1>6. /\ Live' = Live \cup {j} /\ task'[j] = t /\ jsm'[j] = NewJsm
      /\ \A k \in Job \ {j} : task'[k] = task[k] /\ jsm'[k] = jsm[k] /\ pjq'[k] = pjq[k]
                              /\ parent'[k] = parent[k]
      /\ parent'[j] = cur
  BY <1>1, <1>2, <1>4, <1>5, CreateStep DEF SchedInv
<1>7. /\ cur \in Live /\ cur # j /\ cur \in Job /\ j # None
      /\ pjq[cur] # None => owner[pjq[cur]] = cur /\ ~fCompleted[pjq[cur]]
  BY <1>2, <1>5, AtBody, JobAssumption DEF SchedInv, IInv, CurInv, Live
<1>8. \A k \in Live : k \in Job \ {j} /\ (parent[k] # None => parent[k] \in Live /\ parent[k] # j)
  BY <1>2, LiveParents DEF Live, SchedInv
<1>9. /\ Children(j)' = {}
      /\ \A k \in Live : k = cur => Children(k)' = Children(k) \cup {j}
      /\ \A k \in Live : k # cur => Children(k)' = Children(k)
  <2>1. \A k : Children(k)' = {c \in Live \cup {j} : parent'[c] = k}
    BY <1>6 DEF Children
  <2>2. \A k \in Live : parent[k] # j
    BY <1>2, <1>7, <1>8
  <2>3. \A k \in Live : parent'[k] = parent[k]
    BY <1>6, <1>8
  <2>4. Children(j)' = {}
    BY <1>6, <1>7, <2>1, <2>2, <2>3
  <2>5. \A k \in Live : k # cur => Children(k)' = Children(k)
    BY <1>6, <2>1, <2>3 DEF Children
  <2>7. \A k \in Live : k = cur => Children(k)' = Children(k) \cup {j}
    BY <1>6, <2>1, <2>3 DEF Children
  <2> QED
    BY <2>4, <2>5, <2>7
<1>10. AwaitInv'
  <2>1. SUFFICES ASSUME ~timedOut, NEW k \in Live', NEW ejt \in Ejt, NEW x \in Thing,
                        Awaits(task[k], jsm[k], ejt, x)'
                 PROVE  \/ Done(ejt, x)'
                        \/ k = cur /\ \E i \in DOMAIN todo' : IsJob(todo'[i], ejt, x)
                        \/ \E c \in Children(k)' : IsJob(task'[c], ejt, x)
    BY <1>1, <1>5 DEF AwaitInv, IsJob
  <2>2. k # j
    <3>1. \A a, s : s = NewJsm' => ~Awaits(a, s, ejt, x)'
      <4>1. NewJsm.last = None /\ ~NewJsm.fKids /\ NewJsm.ctxs = <<>> /\ Range(<<>>) = {}
        BY EmptyList DEF NewJsm
      <4> QED
        BY <4>1 DEF Awaits
    <3> QED
      BY <1>6, <2>1, <3>1 DEF Awaits
  <2>3. k \in Live /\ Awaits(task[k], jsm[k], ejt, x)
    BY <1>1, <1>6, <1>8, <2>1, <2>2 DEF Awaits
  <2>4. \/ Done(ejt, x)
        \/ k = cur /\ \E i \in DOMAIN todo : IsJob(todo[i], ejt, x)
        \/ \E c \in Children(k) : IsJob(task[c], ejt, x)
    BY <1>1, <2>1, <2>3 DEF HistoryInv, AwaitInv
  <2>5. Done(ejt, x) => Done(ejt, x)'
    BY <1>1, <1>5 DEF Done
  <2>6. ASSUME NEW i \in DOMAIN todo, IsJob(todo[i], ejt, x), k = cur
        PROVE  (\E n \in DOMAIN todo' : IsJob(todo'[n], ejt, x)) \/ (\E c \in Children(k)' : IsJob(task'[c], ejt, x))
    <3>1. CASE i = 1
      <4>1. j \in Children(k)' /\ task'[j] = todo[i]
        BY <1>4, <1>6, <1>9, <2>3, <2>6, <3>1
      <4> QED
        BY <2>6, <4>1
    <3>2. CASE i - 1 \in DOMAIN todo' /\ todo'[i - 1] = todo[i]
      BY <2>6, <3>2
    <3> QED
      BY <1>4, <3>1, <3>2
  <2>7. ASSUME NEW c \in Children(k), IsJob(task[c], ejt, x)
        PROVE  \E b \in Children(k)' : IsJob(task'[b], ejt, x)
    <3>1. c \in Live
      BY DEF Children
    <3>2. c \in Children(k)' /\ task'[c] = task[c]
      BY <1>6, <1>8, <1>9, <2>3, <3>1
    <3> QED
      BY <2>7, <3>2
  <2> QED
    BY <2>4, <2>5, <2>6, <2>7
<1>11. CallInv'
  <2>1. \A i \in DOMAIN todo : Caller(task[cur], todo[i])
    BY DEF HistoryInv, CallInv
  <2>2. task'[cur] = task[cur] /\ cur' = cur
    BY <1>5, <1>6, <1>7
  <2>3. \A i \in DOMAIN todo' : Caller(task[cur], todo[i])'
    BY <1>4, <2>1, <2>2 DEF Caller
  <2>4. ASSUME NEW k \in Live'
        PROVE  IF parent'[k] = None THEN task'[k].ejt = "GroupOptimization"
               ELSE Caller(task'[parent'[k]], task'[k])
    <3>1. CASE k = j
      <4>1. parent'[k] = cur /\ cur # None /\ task'[k] = t /\ Caller(task[cur], t)
        BY <1>2, <1>4, <1>6, <1>7, <2>1, <3>1, JobAssumption
      <4> QED
        BY <2>2, <4>1
    <3>2. CASE k \in Live
      <4>1. IF parent[k] = None THEN task[k].ejt = "GroupOptimization" ELSE Caller(task[parent[k]], task[k])
        BY <3>2 DEF HistoryInv, CallInv
      <4>2. task'[k] = task[k] /\ parent'[k] = parent[k] /\ (parent[k] # None => task'[parent[k]] = task[parent[k]])
        BY <1>6, <1>8, <3>2
      <4> QED
        BY <4>1, <4>2
    <3> QED
      BY <1>6, <3>1, <3>2
  <2> QED
    BY <2>3, <2>4 DEF CallInv, Caller
<1>12. OwnerInv'
  <2>1. SUFFICES ASSUME NEW k \in Live', pjq'[k] # None, jsm'[k] # NewJsm \/ Children(k)' # {}
                 PROVE  owner[pjq'[k]] = k /\ (Children(k)' # {} => ~fCompleted[pjq'[k]])
    BY <1>5 DEF OwnerInv, queueVars
  <2>2. k # j
    BY <1>6, <1>9, <2>1
  <2>3. k \in Live /\ pjq'[k] = pjq[k] /\ jsm'[k] = jsm[k]
    BY <1>6, <1>8, <2>2
  <2>4. CASE k = cur
    BY <1>7, <2>1, <2>3, <2>4
  <2>5. CASE k # cur
    BY <1>9, <2>1, <2>3, <2>5 DEF HistoryInv, OwnerInv
  <2> QED
    BY <2>4, <2>5
<1>13. ProgressInv'
  <2>1. /\ \A i \in DOMAIN todo : ImplementsExplored(todo[i])
        /\ \A k \in Live : ProgressOK(task[k], jsm[k]) /\ ImplementsExplored(task[k])
    BY DEF HistoryInv, ProgressInv
  <2>2. \A i \in DOMAIN todo' : ImplementsExplored(todo[i])'
    BY <1>1, <1>4, <2>1 DEF ImplementsExplored
  <2>3. ASSUME NEW k \in Live' PROVE ProgressOK(task[k], jsm[k])' /\ ImplementsExplored(task[k])'
    <3>1. CASE k = j
      <4>1. task'[k] = todo[1] /\ jsm'[k] = NewJsm /\ NewJsm.est = "Initialized" /\ NewJsm.last = None
        BY <1>4, <1>6, <3>1 DEF NewJsm
      <4>2. ImplementsExplored(todo[1])
        BY <1>4, <2>1
      <4> QED
        BY <1>1, <4>1, <4>2 DEF ProgressOK, ImplementsExplored
    <3>2. CASE k \in Live
      <4>1. task'[k] = task[k] /\ jsm'[k] = jsm[k]
        BY <1>6, <1>8, <3>2
      <4> QED
        BY <1>1, <2>1, <3>2, <4>1 DEF ProgressOK, ImplementsExplored
    <3> QED
      BY <1>6, <3>1, <3>2
  <2> QED
    BY <2>2, <2>3 DEF ProgressInv
<1>14. DoneInv'
  <2>1. task'[cur] = task[cur] /\ cur' = cur
    BY <1>5, <1>6, <1>7
  <2>2. \A ejt, x : Final(ejt, x)' = Final(ejt, x)
    BY <1>1, <1>5, <2>1 DEF Final, IsJob
  <2> QED
    BY <1>1, <1>5, <2>2 DEF HistoryInv, DoneInv, Done, queueVars
<1>15. ClosedInv' /\ FutureInv'
  BY <1>1, <1>5, DueFacts DEF HistoryInv, ClosedInv, FutureInv
<1> QED
  BY <1>10, <1>11, <1>12, <1>13, <1>14, <1>15 DEF HistoryInv

(* FRun returns: the job goes to sleep, or its queue learns that it is done. *)
LEMMA EndsHistory == ASSUME SchedInv, SearchIInv, HistoryInv, Suspend \/ Complete PROVE HistoryInv'
<1> USE DEF memoVars, planVars, jobVars
<1>1. /\ todo = <<>> /\ run' = "go" /\ UNCHANGED <<task, jsm, todo, gexprs, gstate, estate, poc, best, timedOut>>
      /\ UNCHANGED <<ejs, parent, pjq, owner, cur, stage>> /\ pc = "body" /\ pc' # "body"
  BY DEF Suspend, Complete, BodySuspends, BodyCompletes, queueVars
<1>2. /\ cur \in Live /\ cur \in Job /\ TaskOK(task[cur]) /\ task[cur] \in Task
      /\ pjq[cur] = QueueOf(task[cur]) /\ pjq[cur] \in Queue \cup {None}
      /\ pjq[cur] # None => owner[pjq[cur]] = cur
      /\ fCompleted \in [Queue -> BOOLEAN]
  BY <1>1, AtBody DEF SchedInv, IInv, CurInv, TypeOK
<1>3. \/ /\ run = "stay" /\ pc' = "post" /\ ~result' /\ fCompleted' = fCompleted
      \/ /\ (run = "final" \/ timedOut) /\ run # "stay" /\ pjq[cur] = None /\ fCompleted' = fCompleted
         /\ pc' = "post"
      \/ /\ (run = "final" \/ timedOut) /\ run # "stay" /\ pjq[cur] # None
         /\ fCompleted' = [fCompleted EXCEPT ![pjq[cur]] = TRUE]
         /\ pc' = "notify"
  BY DEF Suspend, Complete, BodySuspends, BodyCompletes, queueVars
<1>4. Live' = Live /\ (\A k : Children(k)' = Children(k)) /\ (run # "stay" => Children(cur) = {})
  BY <1>1 DEF Live, Children, SearchIInv, ControlInv
<1>5. DOMAIN todo = {}
  BY <1>1
<1>6. AwaitInv'
  BY <1>1, <1>4, <1>5 DEF HistoryInv, AwaitInv, Awaits, Done, IsJob
<1>7. CallInv' /\ ProgressInv'
  BY <1>1, <1>4, <1>5 DEF HistoryInv, CallInv, Caller, ProgressInv, ProgressOK, ImplementsExplored
<1>8. OwnerInv'
  <2>1. SUFFICES ASSUME NEW k \in Live, pjq[k] # None, jsm[k] # NewJsm \/ Children(k) # {}
                 PROVE  owner[pjq[k]] = k /\ (Children(k) # {} => ~fCompleted'[pjq[k]])
    BY <1>1, <1>4 DEF OwnerInv
  <2>2. owner[pjq[k]] = k /\ (Children(k) # {} => ~fCompleted[pjq[k]]) /\ pjq[k] \in Queue
    BY <2>1 DEF HistoryInv, OwnerInv, SchedInv, IInv, TypeOK, Live
  <2>3. CASE fCompleted' = fCompleted
    BY <2>2, <2>3
  <2>4. CASE fCompleted' = [fCompleted EXCEPT ![pjq[cur]] = TRUE] /\ run # "stay" /\ pjq[cur] # None
    <3>1. pjq[k] = pjq[cur] => Children(k) = {}
      BY <1>2, <1>4, <2>2, <2>4
    <3> QED
      BY <1>2, <2>2, <2>4, <3>1
  <2> QED
    BY <1>3, <2>3, <2>4
<1>9. DoneInv'
  <2>1. \A ejt, x : ~Final(ejt, x)'
    BY <1>1 DEF Final
  <2>2. /\ \A g \in Group : <<"Exploration", g>> \in Queue /\ <<"Implementation", g>> \in Queue
        /\ \A c \in Ctx : <<"Optimization", c>> \in Queue
    BY SearchAssumption
  <2>3. \A q \in Queue : fCompleted'[q] <=> fCompleted[q] \/ (q = pjq[cur] /\ pjq[cur] # None /\ run # "stay")
    BY <1>2, <1>3
  <2>4. ASSUME ~timedOut, run # "stay" PROVE run = "final" /\ \A ejt \in Ejt, x \in Thing : IsJob(task[cur], ejt, x) => Done(ejt, x)
    BY <1>1, <1>3, <2>4 DEF HistoryInv, DoneInv, Final
  <2>5. pc' = "post" /\ result' /\ pjq[cur] = None /\ ~timedOut =>
          \A ejt \in Ejt, x \in Thing : IsJob(task[cur], ejt, x) => Done(ejt, x)
    BY <1>3, <2>4
  <2>6. ASSUME ~timedOut
        PROVE  /\ \A g \in Group : fCompleted'[<<"Exploration", g>>] => gstate[g] >= Explored
               /\ \A g \in Group : fCompleted'[<<"Implementation", g>>] => gstate[g] >= Implemented
               /\ \A c \in Ctx : fCompleted'[<<"Optimization", c>>] => poc[stage][c] = Optimized
    <3>1. ASSUME NEW g \in Group, fCompleted'[<<"Exploration", g>>] PROVE gstate[g] >= Explored
      <4>1. CASE fCompleted[<<"Exploration", g>>]
        BY <2>6, <4>1 DEF HistoryInv, DoneInv
      <4>2. CASE <<"Exploration", g>> = pjq[cur] /\ pjq[cur] # None /\ run # "stay"
        <5>1. IsJob(task[cur], "GroupExploration", g)
          BY <1>2, <4>2 DEF IsJob, QueueOf
        <5> QED
          BY <2>4, <2>6, <4>2, <5>1 DEF Done, Thing, Ejt
      <4> QED
        BY <2>2, <2>3, <3>1, <4>1, <4>2
    <3>2. ASSUME NEW g \in Group, fCompleted'[<<"Implementation", g>>] PROVE gstate[g] >= Implemented
      <4>1. CASE fCompleted[<<"Implementation", g>>]
        BY <2>6, <4>1 DEF HistoryInv, DoneInv
      <4>2. CASE <<"Implementation", g>> = pjq[cur] /\ pjq[cur] # None /\ run # "stay"
        <5>1. IsJob(task[cur], "GroupImplementation", g)
          BY <1>2, <4>2 DEF IsJob, QueueOf
        <5> QED
          BY <2>4, <2>6, <4>2, <5>1 DEF Done, Thing, Ejt
      <4> QED
        BY <2>2, <2>3, <3>2, <4>1, <4>2
    <3>3. ASSUME NEW c \in Ctx, fCompleted'[<<"Optimization", c>>] PROVE poc[stage][c] = Optimized
      <4>1. CASE fCompleted[<<"Optimization", c>>]
        BY <2>6, <4>1 DEF HistoryInv, DoneInv
      <4>2. CASE <<"Optimization", c>> = pjq[cur] /\ pjq[cur] # None /\ run # "stay"
        <5>1. IsJob(task[cur], "GroupOptimization", c)
          BY <1>2, <4>2 DEF IsJob, QueueOf
        <5> QED
          BY <2>4, <2>6, <4>2, <5>1 DEF Done, Thing, Ejt
      <4> QED
        BY <2>2, <2>3, <3>3, <4>1, <4>2
    <3> QED
      BY <3>1, <3>2, <3>3
  <2>7. \A ejt, x : Final(ejt, x) => run # "stay" /\ IsJob(task[cur], ejt, x)
    BY DEF Final
  <2>8. \A g \in Group : gstate[g] >= Explored => fCompleted'[<<"Exploration", g>>]
    <3> TAKE g \in Group
    <3>1. IsJob(task[cur], "GroupExploration", g) => pjq[cur] = <<"Exploration", g>> /\ pjq[cur] # None
      BY <1>2, <2>2, JobAssumption DEF IsJob, QueueOf
    <3> QED
      BY <2>2, <2>3, <2>7, <3>1 DEF HistoryInv, DoneInv
  <2>9. \A g \in Group : gstate[g] >= Implemented => fCompleted'[<<"Implementation", g>>]
    <3> TAKE g \in Group
    <3>1. IsJob(task[cur], "GroupImplementation", g) => pjq[cur] = <<"Implementation", g>> /\ pjq[cur] # None
      BY <1>2, <2>2, JobAssumption DEF IsJob, QueueOf
    <3> QED
      BY <2>2, <2>3, <2>7, <3>1 DEF HistoryInv, DoneInv
  <2>10. stage < MaxStages => \A c \in Ctx : poc[stage][c] = Optimized => fCompleted'[<<"Optimization", c>>]
    <3>1. SUFFICES ASSUME stage < MaxStages, NEW c \in Ctx, poc[stage][c] = Optimized PROVE fCompleted'[<<"Optimization", c>>]
      OBVIOUS
    <3>2. IsJob(task[cur], "GroupOptimization", c) => pjq[cur] = <<"Optimization", c>> /\ pjq[cur] # None
      BY <1>2, <2>2, JobAssumption DEF IsJob, QueueOf
    <3> QED
      BY <2>2, <2>3, <2>7, <3>1, <3>2 DEF HistoryInv, DoneInv
  <2> QED
    BY <1>1, <2>1, <2>5, <2>6, <2>8, <2>9, <2>10 DEF DoneInv, Done, IsJob
<1>10. ClosedInv' /\ FutureInv'
  BY <1>1, DueFacts DEF HistoryInv, ClosedInv, FutureInv
<1> QED
  BY <1>6, <1>7, <1>8, <1>9, <1>10 DEF HistoryInv

(* While the operation of a queue is not completed, its goal is not reached. *)
LEMMA NotDone ==
    ASSUME SchedInv, SearchIInv, HistoryInv, NEW j \in Live, pjq[j] # None, ~fCompleted[pjq[j]],
           run # "final", NEW ejt, NEW x, IsJob(task[j], ejt, x)
    PROVE  ~Done(ejt, x)
<1>1. /\ TaskOK(task[j]) /\ pjq[j] = QueueOf(task[j]) /\ stage < MaxStages
  BY DEF SearchIInv, JobsInv, ControlInv
<1>2. \A e, y : ~Final(e, y)
  BY DEF Final
<1>3. /\ \A g \in Group : gstate[g] >= Explored => fCompleted[<<"Exploration", g>>]
      /\ \A g \in Group : gstate[g] >= Implemented => fCompleted[<<"Implementation", g>>]
      /\ \A c \in Ctx : poc[stage][c] = Optimized => fCompleted[<<"Optimization", c>>]
  BY <1>1, <1>2 DEF HistoryInv, DoneInv
<1>4. \/ ejt = "GroupExploration" /\ x \in Group /\ pjq[j] = <<"Exploration", x>>
      \/ ejt = "GroupImplementation" /\ x \in Group /\ pjq[j] = <<"Implementation", x>>
      \/ ejt = "GroupOptimization" /\ x \in Ctx /\ pjq[j] = <<"Optimization", x>>
  BY <1>1 DEF IsJob, QueueOf, TaskOK
<1> QED
  BY <1>3, <1>4 DEF Done

(* The executing job has not reached its goal yet, nor has its parent. *)
LEMMA StillOpen ==
    ASSUME SchedInv, SearchIInv, HistoryInv, pc = "body", run = "go", NEW ejt, NEW x
    PROVE  /\ pjq[cur] # None /\ IsJob(task[cur], ejt, x) => ~Done(ejt, x)
           /\ parent[cur] # None =>
                 /\ parent[cur] \in Live /\ cur \in Children(parent[cur])
                 /\ Caller(task[parent[cur]], task[cur])
                 /\ pjq[parent[cur]] # None =>
                       /\ owner[pjq[parent[cur]]] = parent[cur]
                       /\ IsJob(task[parent[cur]], ejt, x) => ~Done(ejt, x)
<1>1. cur \in Live /\ cur \in Job
  BY AtBody
<1>2. pjq[cur] # None => ~fCompleted[pjq[cur]]
  BY <1>1 DEF SchedInv, IInv, CurInv
<1>3. pjq[cur] # None /\ IsJob(task[cur], ejt, x) => ~Done(ejt, x)
  BY <1>1, <1>2, NotDone
<1>4. ASSUME parent[cur] # None
      PROVE  /\ parent[cur] \in Live /\ cur \in Children(parent[cur])
             /\ Caller(task[parent[cur]], task[cur])
             /\ pjq[parent[cur]] # None =>
                   /\ owner[pjq[parent[cur]]] = parent[cur]
                   /\ IsJob(task[parent[cur]], ejt, x) => ~Done(ejt, x)
  <2>1. parent[cur] \in Live /\ cur \in Children(parent[cur])
    BY <1>1, <1>4, LiveParents DEF SchedInv, Children
  <2>2. Caller(task[parent[cur]], task[cur])
    BY <1>1, <1>4 DEF HistoryInv, CallInv
  <2>3. pjq[parent[cur]] # None => owner[pjq[parent[cur]]] = parent[cur] /\ ~fCompleted[pjq[parent[cur]]]
    BY <2>1 DEF HistoryInv, OwnerInv
  <2> QED
    BY <2>1, <2>2, <2>3, NotDone
<1> QED
  BY <1>3, <1>4

(* What an expression job runs under: the job of its group, which is not done. *)
LEMMA GroupOfExpr ==
    ASSUME SchedInv, SearchIInv, HistoryInv, pc = "body", run = "go"
    PROVE  /\ task[cur].ejt = "GroupExpressionExploration" =>
                 /\ GroupOf[task[cur].e] \in Group /\ task[cur].e \in Range(gexprs[GroupOf[task[cur].e]])
                 /\ gstate[GroupOf[task[cur].e]] < Explored
                 /\ \A j \in Live : /\ task[j].ejt = "GroupExploration" /\ jsm[j] # NewJsm
                                    /\ task[j].g = GroupOf[task[cur].e]
                                    => cur \in Children(j)
           /\ task[cur].ejt = "GroupExpressionImplementation" =>
                 /\ GroupOf[task[cur].e] \in Group /\ task[cur].e \in Range(gexprs[GroupOf[task[cur].e]])
                 /\ gstate[GroupOf[task[cur].e]] < Implemented
                 /\ \A j \in Live : /\ task[j].ejt = "GroupImplementation" /\ jsm[j] # NewJsm
                                    /\ task[j].g = GroupOf[task[cur].e]
                                    => cur \in Children(j)
<1>1. cur \in Live /\ cur \in Job /\ TaskOK(task[cur])
  BY AtBody
<1>2. task[cur].ejt # "GroupOptimization" => parent[cur] # None
  BY <1>1 DEF HistoryInv, CallInv
<1>3. \A j \in Live : pjq[j] = QueueOf(task[j])
  BY DEF SearchIInv, JobsInv
<1>4. \A j \in Live : pjq[j] # None /\ jsm[j] # NewJsm => owner[pjq[j]] = j
  BY DEF HistoryInv, OwnerInv
<1>5. gstate \in [Group -> Unexplored..Implemented]
  BY DEF SearchIInv, TypeInv
<1>q. /\ \A g \in Group : <<"Exploration", g>> \in Queue /\ <<"Implementation", g>> \in Queue
      /\ None \notin Queue
  BY SearchAssumption, JobAssumption
<1>6. ASSUME task[cur].ejt = "GroupExpressionExploration"
      PROVE  /\ GroupOf[task[cur].e] \in Group /\ task[cur].e \in Range(gexprs[GroupOf[task[cur].e]])
             /\ gstate[GroupOf[task[cur].e]] < Explored
             /\ \A j \in Live : /\ task[j].ejt = "GroupExploration" /\ jsm[j] # NewJsm
                                /\ task[j].g = GroupOf[task[cur].e]
                                => cur \in Children(j)
  <2> DEFINE p == parent[cur]
             g == GroupOf[task[cur].e]
  <2>1. g \in Group /\ task[cur].e \in Range(gexprs[g])
    BY <1>1, <1>6, SearchAssumption DEF TaskOK, InMemoExpr
  <2>2. p \in Live /\ cur \in Children(p) /\ Caller(task[p], task[cur])
    BY <1>2, <1>6, StillOpen
  <2>3. task[p].ejt = "GroupExploration" /\ task[p].g = g
    BY <1>6, <2>2 DEF Caller
  <2>4. pjq[p] = <<"Exploration", g>> /\ pjq[p] # None
    BY <1>3, <1>q, <2>1, <2>2, <2>3 DEF QueueOf
  <2>5. owner[pjq[p]] = p /\ ~Done("GroupExploration", g)
    <3>1. p # None /\ IsJob(task[p], "GroupExploration", g)
      BY <1>2, <1>6, <2>3 DEF IsJob
    <3> QED
      BY <2>4, <3>1, StillOpen
  <2>6. gstate[g] < Explored
    BY <1>5, <2>1, <2>5 DEF Done, Explored, Unexplored, Implemented
  <2>7. ASSUME NEW j \in Live, task[j].ejt = "GroupExploration", jsm[j] # NewJsm, task[j].g = g
        PROVE  cur \in Children(j)
    <3>1. pjq[j] = <<"Exploration", g>>
      BY <1>3, <2>7 DEF QueueOf
    <3> QED
      BY <1>4, <2>2, <2>4, <2>5, <2>7, <3>1
  <2> QED
    BY <2>1, <2>6, <2>7
<1>7. ASSUME task[cur].ejt = "GroupExpressionImplementation"
      PROVE  /\ GroupOf[task[cur].e] \in Group /\ task[cur].e \in Range(gexprs[GroupOf[task[cur].e]])
             /\ gstate[GroupOf[task[cur].e]] < Implemented
             /\ \A j \in Live : /\ task[j].ejt = "GroupImplementation" /\ jsm[j] # NewJsm
                                /\ task[j].g = GroupOf[task[cur].e]
                                => cur \in Children(j)
  <2> DEFINE p == parent[cur]
             g == GroupOf[task[cur].e]
  <2>1. g \in Group /\ task[cur].e \in Range(gexprs[g])
    BY <1>1, <1>7, SearchAssumption DEF TaskOK, InMemoExpr
  <2>2. p \in Live /\ cur \in Children(p) /\ Caller(task[p], task[cur])
    BY <1>2, <1>7, StillOpen
  <2>3. task[p].ejt = "GroupImplementation" /\ task[p].g = g
    BY <1>7, <2>2 DEF Caller
  <2>4. pjq[p] = <<"Implementation", g>> /\ pjq[p] # None
    BY <1>3, <1>q, <2>1, <2>2, <2>3 DEF QueueOf
  <2>5. owner[pjq[p]] = p /\ ~Done("GroupImplementation", g)
    <3>1. p # None /\ IsJob(task[p], "GroupImplementation", g)
      BY <1>2, <1>7, <2>3 DEF IsJob
    <3> QED
      BY <2>4, <3>1, StillOpen
  <2>6. gstate[g] < Implemented
    BY <1>5, <2>1, <2>5 DEF Done, Explored, Unexplored, Implemented
  <2>7. ASSUME NEW j \in Live, task[j].ejt = "GroupImplementation", jsm[j] # NewJsm, task[j].g = g
        PROVE  cur \in Children(j)
    <3>1. pjq[j] = <<"Implementation", g>>
      BY <1>3, <2>7 DEF QueueOf
    <3> QED
      BY <1>4, <2>2, <2>4, <2>5, <2>7, <3>1
  <2> QED
    BY <2>1, <2>6, <2>7
<1> QED
  BY <1>6, <1>7

(* What is added behind a list does not change what the cursor has passed. *)
LEMMA PassedStays ==
    ASSUME NEW s, NEW t, \A i \in DOMAIN s : i \in DOMAIN t /\ t[i] = s[i],
           DOMAIN s \subseteq Nat, DOMAIN t \subseteq Nat,
           \A i \in DOMAIN t, k \in DOMAIN s : i <= k => i \in DOMAIN s,
           Distinct(t), NEW last \in Range(s)
    PROVE  Passed(t, last) = Passed(s, last)
BY DEF Passed, Distinct, Range

(* The memo goes on: lists grow at their ends, and no state that counts is lost. *)
MemoGoesOn ==
    /\ \A g \in Group : \A i \in DOMAIN gexprs[g] : i \in DOMAIN gexprs'[g] /\ gexprs'[g][i] = gexprs[g][i]
    /\ \A g \in Group, st \in {Explored, Implementing, Implemented} : gstate[g] >= st => gstate'[g] >= st
    /\ \A c \in Ctx : poc[stage][c] = Optimized => poc'[stage][c] = Optimized
    /\ \A s \in Stages, c \in Ctx : s # stage => poc'[s][c] = poc[s][c] /\ best'[s][c] = best[s][c]

(* Only the executing job changes the state of its expression. *)
OwnExpr ==
    \A e \in GExpr : estate'[e] # estate[e] =>
        /\ task[cur].e = e
        /\ \/ task[cur].ejt = "GroupExpressionExploration"
           \/ task[cur].ejt = "GroupExpressionImplementation" /\ estate'[e] >= Explored

(* The job has reached the final state. *)
Reached(ejt, x) == run' = "final" /\ IsJob(task[cur], ejt, x)

(* Goals of groups are reached by their own jobs only, and by these in the end. *)
OwnGoal ==
    /\ \A ejt \in Ejt, x \in Thing : Reached(ejt, x) => Done(ejt, x)'
    /\ \A g \in Group : gstate'[g] >= Explored => gstate[g] >= Explored \/ Reached("GroupExploration", g)
    /\ \A g \in Group : gstate'[g] >= Implemented =>
          gstate[g] >= Implemented \/ Reached("GroupImplementation", g)
    /\ \A c \in Ctx : poc'[stage][c] = Optimized =>
          poc[stage][c] = Optimized \/ Reached("GroupOptimization", c)

(* The other jobs lose nothing of what they await. *)
LEMMA OthersAwait ==
    ASSUME SchedInv, SearchIInv, HistoryInv, pc = "body", run = "go", stage' = stage,
           MemoGoesOn, OwnExpr, MemoInv', gexprs' \in [Group -> Seq(GExpr)],
           NEW j \in Live, NEW ejt \in Ejt, NEW x \in Thing, j # cur \/ Children(cur) = {},
           Awaits(task[j], jsm[j], ejt, x), Done(ejt, x)
    PROVE  Done(ejt, x)' \/ \E c \in Children(j) : IsJob(task[c], ejt, x)
<1>1. /\ task[j] \in Task /\ jsm[j] \in Jsm /\ TaskOK(task[j]) /\ CursorOK(task[j], jsm[j])
      /\ gexprs \in [Group -> Seq(GExpr)] /\ MemoInv /\ stage \in Stages
  BY AtBody DEF SearchIInv, TypeInv, JobsInv, Live
<1>2. CASE ejt \in {"GroupExploration", "GroupImplementation", "GroupOptimization"}
  <2>1. ejt \in {"GroupExploration", "GroupImplementation"} => x \in Group
    <3>1. \A e \in GExpr : Range(Kids[e]) \subseteq Group
      <4>1. \A e \in GExpr : Kids[e] \in Seq(Group)
        BY SearchAssumption
      <4> QED
        BY <4>1 DEF Range
    <3> QED
      BY <1>1, <3>1, SearchAssumption DEF Awaits, TaskOK
  <2>2. ejt = "GroupOptimization" => x \in Ctx
    BY <1>1 DEF Awaits, Jsm, Range
  <2> QED
    BY <1>2, <2>1, <2>2 DEF Done, MemoGoesOn
<1>3. CASE ejt = "GroupExpressionExploration"
  <2>1. /\ task[j].ejt = "GroupExploration" /\ jsm[j].last # None /\ x \in Passed(gexprs[task[j].g], jsm[j].last)
        /\ task[j].g \in Group
    BY <1>1, <1>3 DEF Awaits, TaskOK
  <2>2. x \in GExpr /\ x \in Range(gexprs[task[j].g]) /\ GroupOf[x] = task[j].g
    <3>1. x \in Range(gexprs[task[j].g])
      BY <2>1 DEF Passed, Range
    <3> QED
      BY <1>1, <2>1, <3>1 DEF MemoInv, Range
  <2>3. jsm[j] # NewJsm
    BY <2>1 DEF NewJsm
  <2>4. CASE estate'[x] = estate[x] \/ estate'[x] >= Explored
    BY <1>3, <2>4 DEF Done
  <2>5. CASE estate'[x] # estate[x] /\ task[cur].ejt = "GroupExpressionExploration" /\ task[cur].e = x
    <3>1. cur \in Children(j)
      BY <2>1, <2>2, <2>3, <2>5, GroupOfExpr
    <3>2. IsJob(task[cur], ejt, x)
      BY <1>3, <2>5 DEF IsJob
    <3> QED
      BY <3>1, <3>2
  <2> QED
    BY <2>2, <2>4, <2>5 DEF OwnExpr
<1>4. CASE ejt = "GroupExpressionImplementation"
  <2>1. /\ task[j].ejt = "GroupImplementation" /\ jsm[j].last # None /\ x \in Passed(gexprs[task[j].g], jsm[j].last)
        /\ task[j].g \in Group
    BY <1>1, <1>4 DEF Awaits, TaskOK
  <2>2. x \in GExpr /\ x \in Range(gexprs[task[j].g]) /\ GroupOf[x] = task[j].g
    <3>1. x \in Range(gexprs[task[j].g])
      BY <2>1 DEF Passed, Range
    <3> QED
      BY <1>1, <2>1, <3>1 DEF MemoInv, Range
  <2>3. jsm[j] # NewJsm
    BY <2>1 DEF NewJsm
  <2>4. CASE estate'[x] = estate[x]
    BY <1>4, <2>4 DEF Done
  <2>5. CASE task[cur].ejt = "GroupExpressionImplementation" /\ task[cur].e = x
    <3>1. cur \in Children(j)
      BY <2>1, <2>2, <2>3, <2>5, GroupOfExpr
    <3>2. IsJob(task[cur], ejt, x)
      BY <1>4, <2>5 DEF IsJob
    <3> QED
      BY <3>1, <3>2
  <2>6. CASE task[cur].ejt = "GroupExpressionExploration" /\ task[cur].e = x
    <3>1. gstate[GroupOf[x]] >= Implementing
      BY <2>1, <2>2 DEF HistoryInv, ProgressInv, ProgressOK
    <3>2. gstate[GroupOf[x]] < Explored
      BY <2>6, GroupOfExpr
    <3>3. gstate[GroupOf[x]] \in Unexplored..Implemented
      BY <2>1, <2>2 DEF SearchIInv, TypeInv
    <3> QED
      BY <3>1, <3>2, <3>3 DEF Unexplored, Explored, Implementing, Implemented
  <2> QED
    BY <2>2, <2>4, <2>5, <2>6 DEF OwnExpr
<1>5. CASE ejt \notin {"GroupExploration", "GroupImplementation", "GroupOptimization",
                       "GroupExpressionExploration", "GroupExpressionImplementation"}
  BY <1>5 DEF Done
<1> QED
  BY <1>2, <1>3, <1>4, <1>5

(* An action keeps the history, if the memo goes on, the job calls whom it is going to
   wait for, and goals are reached with all that belongs to them. *)
LEMMA ActionHistory ==
    ASSUME SchedInv, SearchIInv, HistoryInv, NEW ejt0, NEW est, InState(ejt0, est), SearchIInv',
           NEW me, jsm' = [jsm EXCEPT ![cur] = me],
           MemoGoesOn, OwnExpr, OwnGoal, ClosedInv',
           \A ejt \in Ejt, x \in Thing : Awaits(task[cur], me, ejt, x)' =>
               \/ Awaits(task[cur], jsm[cur], ejt, x) \/ Done(ejt, x)'
               \/ \E i \in DOMAIN todo' : IsJob(todo'[i], ejt, x),
           \A i \in DOMAIN todo' : Caller(task[cur], todo'[i]) /\ ImplementsExplored(todo[i])',
           ProgressOK(task[cur], me)'
    PROVE  HistoryInv'
<1>1. /\ UNCHANGED <<ejs, parent, pjq, owner, fCompleted, stage, cur, pc, task, timedOut>>
      /\ pc = "body" /\ todo = <<>> /\ run = "go" /\ ~timedOut
  BY DEF InState, lifoVars, vars, jobVars, queueVars, loopVars
<1>2. Live' = Live /\ (\A k : Children(k)' = Children(k)) /\ Children(cur) = {} /\ DOMAIN todo = {}
  BY <1>1 DEF Live, Children, SearchIInv, ControlInv
<1>3. /\ cur \in Live /\ cur \in Job /\ jsm \in [Job -> Jsm] /\ task \in [Job -> Task] /\ stage \in Stages
      /\ pjq[cur] # None => owner[pjq[cur]] = cur
      /\ gexprs' \in [Group -> Seq(GExpr)] /\ MemoInv' /\ gexprs \in [Group -> Seq(GExpr)]
  BY <1>1, AtBody DEF SearchIInv, TypeInv, SchedInv, IInv, CurInv
<1>4. jsm'[cur] = me /\ \A j \in Live : j # cur => jsm'[j] = jsm[j]
  BY <1>3 DEF Live
<1>5. AwaitInv'
  <2>1. SUFFICES ASSUME NEW j \in Live, NEW ejt \in Ejt, NEW x \in Thing, Awaits(task[j], jsm[j], ejt, x)'
                 PROVE  \/ Done(ejt, x)'
                        \/ j = cur /\ \E i \in DOMAIN todo' : IsJob(todo'[i], ejt, x)
                        \/ \E c \in Children(j) : IsJob(task[c], ejt, x)
    BY <1>1, <1>2 DEF AwaitInv, IsJob
  <2>2. Awaits(task[j], jsm[j], ejt, x) =>
           Done(ejt, x)' \/ \E c \in Children(j) : IsJob(task[c], ejt, x)
    <3>1. Awaits(task[j], jsm[j], ejt, x) => Done(ejt, x) \/ \E c \in Children(j) : IsJob(task[c], ejt, x)
      BY <1>1, <1>2, <2>1 DEF HistoryInv, AwaitInv
    <3> QED
      BY <1>1, <1>2, <1>3, <2>1, <3>1, OthersAwait
  <2>3. CASE j = cur
    <3>1. \A s : s = jsm'[j] => (Awaits(task[cur], s, ejt, x)' =>
            \/ Awaits(task[cur], jsm[cur], ejt, x) \/ Done(ejt, x)'
            \/ \E i \in DOMAIN todo' : IsJob(todo'[i], ejt, x))
      BY <1>4, <2>1, <2>3
    <3>2. Awaits(task[cur], jsm[cur], ejt, x) \/ Done(ejt, x)' \/ \E i \in DOMAIN todo' : IsJob(todo'[i], ejt, x)
      BY <1>1, <2>1, <2>3, <3>1 DEF Awaits
    <3> QED
      BY <2>2, <2>3, <3>2
  <2>4. CASE j # cur
    <3>1. /\ jsm'[j] = jsm[j] /\ task[j] \in Task /\ TaskOK(task[j]) /\ CursorOK(task[j], jsm[j])
      BY <1>3, <1>4, <2>4 DEF SearchIInv, JobsInv, Live
    <3>2. ASSUME task[j].ejt \in {"GroupExploration", "GroupImplementation"}, jsm[j].last # None
          PROVE  Passed(gexprs'[task[j].g], jsm[j].last) = Passed(gexprs[task[j].g], jsm[j].last)
      <4> DEFINE g == task[j].g
                 s == gexprs[g]
                 t == gexprs'[g]
      <4>1. g \in Group /\ jsm[j].last \in Range(s)
        BY <3>1, <3>2 DEF CursorOK
      <4>2. Distinct(t)
        BY <1>3, <4>1 DEF MemoInv, Distinct
      <4>3. \A i \in DOMAIN s : i \in DOMAIN t /\ t[i] = s[i]
        BY <4>1 DEF MemoGoesOn
      <4>4. s \in Seq(GExpr) /\ t \in Seq(GExpr)
        BY <1>3, <4>1
      <4>5. /\ DOMAIN s \subseteq Nat /\ DOMAIN t \subseteq Nat
            /\ \A i \in DOMAIN t, k \in DOMAIN s : i <= k => i \in DOMAIN s
        <5> HIDE DEF s, t
        <5>1. DOMAIN s = 1..Len(s) /\ DOMAIN t = 1..Len(t) /\ Len(s) \in Nat /\ Len(t) \in Nat
          BY <4>4
        <5> QED
          BY <5>1
      <4> HIDE DEF s, t
      <4> QED
        BY <4>1, <4>2, <4>3, <4>5, PassedStays DEF s, t
    <3>3. Awaits(task[j], jsm[j], ejt, x)
      <4>1. task'[j] = task[j]
        BY <1>1
      <4> QED
        BY <2>1, <3>1, <3>2, <4>1 DEF Awaits
    <3> QED
      BY <2>2, <3>3
  <2> QED
    BY <2>3, <2>4
<1>6. CallInv'
  BY <1>1, <1>2 DEF HistoryInv, CallInv, Caller
<1>7. OwnerInv'
  <2>1. SUFFICES ASSUME NEW k \in Live, pjq[k] # None, jsm'[k] # NewJsm \/ Children(k) # {}
                 PROVE  owner[pjq[k]] = k /\ (Children(k) # {} => ~fCompleted[pjq[k]])
    BY <1>1, <1>2 DEF OwnerInv
  <2>2. CASE k = cur
    BY <1>2, <1>3, <2>1, <2>2
  <2>3. CASE k # cur
    BY <1>4, <2>1, <2>3 DEF HistoryInv, OwnerInv
  <2> QED
    BY <2>2, <2>3
<1>8. ProgressInv'
  <2>1. \A g \in Group : gstate[g] >= Implementing => gstate'[g] >= Implementing
    BY DEF MemoGoesOn
  <2>2. \A j \in Live : TaskOK(task[j]) /\ ProgressOK(task[j], jsm[j]) /\ ImplementsExplored(task[j])
    BY DEF SearchIInv, JobsInv, HistoryInv, ProgressInv
  <2>3. ASSUME NEW j \in Live PROVE ImplementsExplored(task[j])'
    <3>1. task[j].ejt = "GroupExpressionImplementation" => GroupOf[task[j].e] \in Group
      BY <2>2, SearchAssumption DEF TaskOK, InMemoExpr
    <3> QED
      BY <1>1, <2>1, <2>2, <3>1 DEF ImplementsExplored
  <2>4. ASSUME NEW j \in Live PROVE ProgressOK(task[j], jsm[j])'
    <3>1. CASE j = cur
      <4>1. \A s : s = jsm'[j] => ProgressOK(task[cur], s)'
        BY <1>4, <3>1
      <4> QED
        BY <1>1, <3>1, <4>1 DEF ProgressOK
    <3>2. CASE j # cur
      <4>1. jsm'[j] = jsm[j] /\ (task[j].ejt = "GroupImplementation" => task[j].g \in Group)
        BY <1>4, <2>2, <3>2 DEF TaskOK
      <4> QED
        BY <1>1, <2>1, <2>2, <4>1 DEF ProgressOK
    <3> QED
      BY <3>1, <3>2
  <2>5. \A i \in DOMAIN todo' : ImplementsExplored(todo[i])'
    OBVIOUS
  <2> QED
    BY <1>2, <2>3, <2>4, <2>5 DEF ProgressInv
<1>9. DoneInv'
  <2>1. \A ejt, x : Final(ejt, x)' <=> Reached(ejt, x)
    BY <1>1 DEF Final, Reached, IsJob
  <2>2. \A ejt, x : ~Final(ejt, x)
    BY <1>1 DEF Final
  <2>3. stage < MaxStages
    BY <1>3 DEF SearchIInv, ControlInv
  <2>4. /\ \A g \in Group : fCompleted[<<"Exploration", g>>] <=> gstate[g] >= Explored
        /\ \A g \in Group : fCompleted[<<"Implementation", g>>] <=> gstate[g] >= Implemented
        /\ \A c \in Ctx : fCompleted[<<"Optimization", c>>] <=> poc[stage][c] = Optimized
    <3>1. fCompleted \in [Queue -> BOOLEAN]
      BY DEF SchedInv, IInv, TypeOK
    <3>2. /\ \A g \in Group : <<"Exploration", g>> \in Queue /\ <<"Implementation", g>> \in Queue
          /\ \A c \in Ctx : <<"Optimization", c>> \in Queue
      BY SearchAssumption
    <3> QED
      BY <1>1, <2>2, <2>3, <3>1, <3>2 DEF HistoryInv, DoneInv
  <2>5. /\ \A g \in Group : gstate[g] >= Explored => gstate'[g] >= Explored
        /\ \A g \in Group : gstate[g] >= Implemented => gstate'[g] >= Implemented
        /\ \A c \in Ctx : poc[stage][c] = Optimized => poc'[stage][c] = Optimized
    BY DEF MemoGoesOn
  <2> QED
    BY <1>1, <2>1, <2>4, <2>5 DEF DoneInv, OwnGoal
<1>10. FutureInv'
  <2>1. \A s \in Stages : s > stage => s # stage
    BY <1>3, JobAssumption DEF Stages
  <2> QED
    BY <1>1, <2>1 DEF HistoryInv, FutureInv, MemoGoesOn
<1> QED
  BY <1>5, <1>6, <1>7, <1>8, <1>9, <1>10 DEF HistoryInv

(* Bookkeeping m makes job t wait for no more than s does. *)
SameAwaits(t, m, s) ==
    /\ t.ejt \in {"GroupExploration", "GroupImplementation"} => m.last = s.last
    /\ t.ejt \in {"GroupExpressionExploration", "GroupExpressionImplementation"} => m.fKids = s.fKids
    /\ t.ejt = "GroupExpressionOptimization" => m.ctxs = s.ctxs

(* An action that changes no state of the memo. *)
LEMMA QuietAction ==
    ASSUME SchedInv, SearchIInv, HistoryInv, NEW ejt0, NEW est, InState(ejt0, est), SearchIInv',
           NEW me, jsm' = [jsm EXCEPT ![cur] = me],
           UNCHANGED <<gexprs, gstate, estate, poc>>,
           \A s \in Stages, c \in Ctx : s # stage => best'[s][c] = best[s][c],
           run' = "final" => ejt0 \in {"Transformation", "GroupExpressionOptimization"},
           \A ejt \in Ejt, x \in Thing : Awaits(task[cur], me, ejt, x)' =>
               \/ Awaits(task[cur], jsm[cur], ejt, x) \/ Done(ejt, x)'
               \/ \E i \in DOMAIN todo' : IsJob(todo'[i], ejt, x),
           \A i \in DOMAIN todo' : Caller(task[cur], todo'[i]) /\ ImplementsExplored(todo[i])',
           ProgressOK(task[cur], me)'
    PROVE  HistoryInv'
<1>1. stage' = stage /\ task[cur].ejt = ejt0
  BY DEF InState, lifoVars, vars, loopVars, Me
<1>2. MemoGoesOn
  BY DEF MemoGoesOn
<1>3. OwnExpr
  BY DEF OwnExpr
<1>4. OwnGoal
  <2>1. \A ejt, x : Reached(ejt, x) => Done(ejt, x)'
    BY <1>1 DEF Reached, IsJob, Done
  <2> QED
    BY <1>1, <2>1 DEF OwnGoal
<1>5. ClosedInv'
  BY <1>1, DueFacts DEF ClosedInv, HistoryInv
<1> QED
  BY <1>2, <1>3, <1>4, <1>5, ActionHistory

(* An action that changes no state of the memo and calls no job that it waits for. *)
LEMMA QuietCall ==
    ASSUME SchedInv, SearchIInv, HistoryInv, NEW ejt0, NEW est, InState(ejt0, est), SearchIInv',
           NEW me, jsm' = [jsm EXCEPT ![cur] = me],
           UNCHANGED <<gexprs, gstate, estate, poc>>,
           \A s \in Stages, c \in Ctx : s # stage => best'[s][c] = best[s][c],
           run' = "final" => ejt0 \in {"Transformation", "GroupExpressionOptimization"},
           \A i \in DOMAIN todo' : Caller(task[cur], todo'[i]) /\ ImplementsExplored(todo[i])',
           SameAwaits(task[cur], me, jsm[cur]), ProgressOK(task[cur], me)'
    PROVE  HistoryInv'
<1>1. task' = task /\ cur' = cur
  BY DEF InState, lifoVars, vars, loopVars
<1>2. \A ejt \in Ejt, x \in Thing : Awaits(task[cur], me, ejt, x)' => Awaits(task[cur], jsm[cur], ejt, x)
  BY <1>1 DEF Awaits, SameAwaits
<1> QED
  BY <1>2, QuietAction

(* An action that changes no state of the memo and calls no job. *)
LEMMA QuietMove ==
    ASSUME SchedInv, SearchIInv, HistoryInv, NEW ejt0, NEW est, InState(ejt0, est), SearchIInv',
           NEW me, jsm' = [jsm EXCEPT ![cur] = me], todo' = <<>>,
           UNCHANGED <<gexprs, gstate, estate, poc>>,
           \A s \in Stages, c \in Ctx : s # stage => best'[s][c] = best[s][c],
           run' = "final" => ejt0 \in {"Transformation", "GroupExpressionOptimization"},
           SameAwaits(task[cur], me, jsm[cur]), ProgressOK(task[cur], me)'
    PROVE  HistoryInv'
<1>1. DOMAIN todo' = {}
  OBVIOUS
<1> QED
  BY <1>1, QuietCall

(* The bookkeeping of a job that moves on or finishes. *)
LEMMA MovedOn ==
    ASSUME SchedInv, SearchIInv, NEW ejt, NEW est, InState(ejt, est),
           NEW s \in Jsm, NEW to \in Est, Move(s, to) \/ (Finish /\ s = jsm[cur])
    PROVE  \E me \in Jsm : /\ jsm' = [jsm EXCEPT ![cur] = me] /\ SameExcept(me, s, {"est"})
                           /\ todo' = <<>> /\ run' \in {"go", "final"}
                           /\ run' = "go" => me.est = to
                           /\ run' = "final" => me = s
<1>1. cur \in Job /\ todo = <<>>
  BY AtBody DEF InState
<1>2. CASE Move(s, to)
  <2> DEFINE me == [s EXCEPT !.est = to]
  <2>1. jsm' = [jsm EXCEPT ![cur] = me] /\ run' = "go" /\ todo' = <<>>
    BY <1>1, <1>2 DEF Move
  <2>2. SameExcept(me, s, {"est"}) /\ me.est = to
    BY StateEst
  <2>3. me \in Jsm
    BY <2>2 DEF SameExcept
  <2> QED
    BY <2>1, <2>2, <2>3
<1>3. CASE Finish /\ s = jsm[cur]
  <2>1. jsm' = [jsm EXCEPT ![cur] = s] /\ todo' = <<>> /\ run' = "final"
    BY <1>1, <1>3, SameState DEF Finish
  <2>2. SameExcept(s, s, {"est"})
    BY DEF SameExcept
  <2> QED
    BY <2>1, <2>2
<1> QED
  BY <1>2, <1>3

(* CJobGroupExpressionOptimization::EevtInitialize and EevtFinalize. *)
LEMMA InitializeHistory ==
    ASSUME SchedInv, SearchIInv, HistoryInv, EevtInitialize \/ EevtFinalize, SearchIInv'
    PROVE  HistoryInv'
<1> DEFINE ejt0 == "GroupExpressionOptimization"
<1>1. PICK est : InState(ejt0, est)
  BY DEF EevtInitialize, EevtFinalize
<1>2. /\ Move(jsm[cur], "OptimizingChildren") \/ Finish
      /\ UNCHANGED <<gexprs, gstate, estate, poc, best, task>> /\ task[cur].ejt = ejt0
  BY <1>1 DEF EevtInitialize, EevtFinalize, memoVars, planVars, My, InState, Me
<1>3. "OptimizingChildren" \in Est /\ jsm[cur] \in Jsm
  BY <1>1, AtBody DEF Est, InState
<1>4. PICK me \in Jsm : /\ jsm' = [jsm EXCEPT ![cur] = me] /\ SameExcept(me, jsm[cur], {"est"})
                        /\ todo' = <<>>
  BY <1>1, <1>2, <1>3, MovedOn
<1>5. SameAwaits(task[cur], me, jsm[cur]) /\ ProgressOK(task[cur], me)'
  <2>1. cur' = cur
    BY <1>1 DEF InState, lifoVars, vars, loopVars
  <2> QED
    BY <1>2, <1>4, <2>1 DEF SameAwaits, SameExcept, ProgressOK
<1> HIDE DEF ejt0
<1> QED
  BY <1>1, <1>2, <1>4, <1>5, QuietMove DEF ejt0

(* ScheduleApplicableTransformations *)
LEMMA XformsHistory ==
    ASSUME SchedInv, SearchIInv, HistoryInv, SearchIInv', NEW ejt0, NEW est, InState(ejt0, est),
           NEW ph \in Phase, NEW to \in Est, ScheduleXforms(ph, to), est # "Initialized",
           \/ ejt0 = "GroupExpressionExploration" /\ ph = "Exploration"
           \/ ejt0 = "GroupExpressionImplementation" /\ ph = "Implementation"
    PROVE  HistoryInv'
<1>1. /\ UNCHANGED <<gexprs, gstate, estate, poc, best, task, cur, stage>>
      /\ task[cur].ejt = ejt0 /\ jsm[cur].est = est
      /\ pc = "body"
  BY DEF ScheduleXforms, InState, Me, My, memoVars, planVars, lifoVars, vars, loopVars
<1>2. jsm[cur] \in Jsm /\ cur \in Live /\ TaskOK(task[cur])
  BY <1>1, AtBody
<1>3. jsm[cur].fKids
  BY <1>1, <1>2 DEF HistoryInv, ProgressInv, ProgressOK
<1>4. CASE Move(jsm[cur], to)
  <2>1. PICK me \in Jsm : /\ jsm' = [jsm EXCEPT ![cur] = me] /\ SameExcept(me, jsm[cur], {"est"})
                          /\ todo' = <<>>
    BY <1>2, <1>4, MovedOn
  <2>2. SameAwaits(task[cur], me, jsm[cur]) /\ ProgressOK(task[cur], me)'
    BY <1>1, <1>3, <2>1 DEF SameAwaits, SameExcept, ProgressOK
  <2>3. run' = "go"
    BY <1>4 DEF Move
  <2> QED
    BY <1>1, <2>1, <2>2, <2>3, QuietMove
<1>5. CASE Stay([jsm[cur] EXCEPT !.fXforms = TRUE],
                [n \in DOMAIN Xform[stage][ph][task[cur].e] |-> XformJob(ph, task[cur].e, n)])
  <2> DEFINE e == task[cur].e
  <2>0. PICK me : me = [jsm[cur] EXCEPT !.fXforms = TRUE]
    OBVIOUS
  <2>1. /\ jsm' = [jsm EXCEPT ![cur] = me] /\ run' = "stay"
        /\ todo' = [n \in DOMAIN Xform[stage][ph][e] |-> XformJob(ph, e, n)]
    BY <1>5, <2>0 DEF Stay
  <2>2. SameExcept(me, jsm[cur], {"fXforms"})
    BY <1>2, <2>0, StateXforms
  <2>3. e \in GExpr /\ stage \in Stages
    BY <1>1, <1>2, AtBody, SearchAssumption DEF TaskOK
  <2>4. DOMAIN Xform[stage][ph][e] \subseteq Nat
    BY <2>3, ResultAssumption DEF Phase, Stages
  <2>5. ASSUME NEW i \in DOMAIN todo'
        PROVE  Caller(task[cur], todo'[i]) /\ ImplementsExplored(todo[i])'
    <3>1. i \in Nat /\ todo'[i] = XformJob(ph, e, i)
      BY <2>1, <2>4, <2>5
    <3>2. todo'[i].ejt = "Transformation" /\ todo'[i].e = e /\ todo'[i].g = ph
      BY <2>3, <3>1, NewTasks
    <3> HIDE DEF e
    <3>3. Caller(task[cur], todo'[i])
      BY <1>1, <3>2 DEF Caller, e
    <3> QED
      BY <3>2, <3>3 DEF ImplementsExplored
  <2>6. SameAwaits(task[cur], me, jsm[cur]) /\ ProgressOK(task[cur], me)'
    BY <1>1, <1>3, <2>2 DEF SameAwaits, SameExcept, ProgressOK
  <2> HIDE DEF e
  <2> QED
    BY <1>1, <2>1, <2>5, <2>6, QuietCall
<1> QED
  BY <1>4, <1>5 DEF ScheduleXforms, My, Me

(* CJobGroupOptimization::EevtOptimizeChildren: its jobs are for its own context. *)
LEMMA OptimizeGroupHistory ==
    ASSUME SchedInv, SearchIInv, HistoryInv, EevtOptimizeGroup, SearchIInv'
    PROVE  HistoryInv'
<1> USE DEF memoVars, planVars
<1> DEFINE t == task[cur]
           s == jsm[cur]
           new == Keep(After(gexprs[t.g], s.last), GExpr \ Logical)
           C == {e \in GExpr : FOptimizeChild(t.origin, e, s.eol)}
           opt == Keep(new, C)
           jobs == [e \in GExpr |-> [n \in DOMAIN Request[e][t.c] |-> GExprOptimization(e, t.c, n, None)]]
<1>1. /\ InState("GroupOptimization", "OptimizingChildren")
      /\ UNCHANGED <<gexprs, gstate, estate, poc, best, task, cur>> /\ pc = "body" /\ t.ejt = "GroupOptimization"
  BY DEF EevtOptimizeGroup, Me, My, InState, lifoVars, vars, loopVars
<1>2. s \in Jsm /\ t \in Task /\ TaskOK(t) /\ CursorOK(t, s) /\ t.c \in Ctx
  BY <1>1, AtBody DEF TaskOK
<1>3. \/ new # <<>> /\ Stay([s EXCEPT !.last = Last(new)], Collect(opt, jobs))
      \/ Move(s, "DampingOptimizationLevel")
  BY Zenon DEF EevtOptimizeGroup, Me, My
<1>4. \A me : SameAwaits(t, me, s) /\ ProgressOK(t, me)'
  BY <1>1 DEF SameAwaits, ProgressOK
<1>5. CASE Move(s, "DampingOptimizationLevel")
  <2>1. "DampingOptimizationLevel" \in Est
    BY DEF Est
  <2>2. PICK me \in Jsm : jsm' = [jsm EXCEPT ![cur] = me] /\ todo' = <<>>
    <3> HIDE DEF new, opt, jobs, C
    <3> QED
      BY <1>1, <1>2, <1>5, <2>1, MovedOn
  <2>3. run' # "final"
    BY <1>5 DEF Move
  <2> HIDE DEF new, opt, jobs, C
  <2> QED
    BY <1>1, <1>4, <2>2, <2>3, QuietMove
<1>6. CASE new # <<>> /\ Stay([s EXCEPT !.last = Last(new)], Collect(opt, jobs))
  <2>1. PICK me : jsm' = [jsm EXCEPT ![cur] = me] /\ run' = "stay" /\ todo' = Collect(opt, jobs)
    BY <1>6 DEF Stay
  <2>2. /\ opt \in Seq(GExpr) /\ Range(opt) \subseteq GExpr /\ Range(opt) \subseteq Range(new)
        /\ \A e \in Range(new) : e \notin Logical /\ InMemoExpr(e) /\ GroupOf[e] = CtxGroup[t.c]
    <3> DEFINE N == GExpr \ Logical
               m == new
               k == opt
    <3>1. m = Keep(After(gexprs[t.g], s.last), N) /\ k = Keep(m, C)
      OBVIOUS
    <3> HIDE DEF N, m, k, C
    <3>2. t.g \in Group /\ m \in Seq(GExpr) /\ \A e \in Range(m) : e \in N /\ InMemoExpr(e) /\ e \in Range(gexprs[t.g])
      BY <1>1, <3>1, GroupCalls
    <3>3. KeepFacts(m, C, GExpr, k)
      BY <3>1, <3>2, KeepIs
    <3>4. k \in Seq(GExpr) /\ Range(k) \subseteq GExpr /\ Range(k) \subseteq Range(m)
      BY <3>3 DEF KeepFacts, Range
    <3>5. t.g = CtxGroup[t.c] /\ \A e \in Range(gexprs[t.g]) : GroupOf[e] = t.g
      BY <1>1, <1>2, <3>2 DEF TaskOK, SearchIInv, MemoInv
    <3>6. \A e \in Range(m) : e \notin Logical /\ InMemoExpr(e) /\ GroupOf[e] = CtxGroup[t.c]
      BY <3>2, <3>5 DEF N
    <3> QED
      BY <3>4, <3>6 DEF m, k
  <2>3. \A e \in GExpr : jobs[e] \in Seq(Task) /\ \A n \in DOMAIN jobs[e] : jobs[e][n].ejt = "GroupExpressionOptimization" /\ jobs[e][n].c = t.c /\ jobs[e][n].cte = None
    <3>1. SUFFICES ASSUME NEW e \in GExpr
                   PROVE  jobs[e] \in Seq(Task) /\ \A n \in DOMAIN jobs[e] : jobs[e][n].ejt = "GroupExpressionOptimization" /\ jobs[e][n].c = t.c /\ jobs[e][n].cte = None
      OBVIOUS
    <3> DEFINE r == Request[e][t.c]
               h == jobs[e]
    <3>2. r \in Seq(Seq(Ctx \cup {None})) /\ DOMAIN r \subseteq Nat
      BY <1>2, RequestAssumption
    <3>3. h = [n \in DOMAIN r |-> GExprOptimization(e, t.c, n, None)]
      OBVIOUS
    <3> HIDE DEF r, h
    <3>4. \A n \in DOMAIN r : h[n] \in Task /\ h[n].ejt = "GroupExpressionOptimization" /\ h[n].c = t.c /\ h[n].cte = None
      BY <1>2, <3>2, <3>3, NewTasks
    <3>5. h \in Seq(Task) /\ DOMAIN h = DOMAIN r
      BY <3>2, <3>3, <3>4, MapIs
    <3>6. h \in Seq(Task) /\ \A n \in DOMAIN h : h[n].ejt = "GroupExpressionOptimization" /\ h[n].c = t.c /\ h[n].cte = None
      BY <3>4, <3>5
    <3> QED
      BY <3>6 DEF h
  <2>4. jobs \in [GExpr -> Seq(Task)]
    BY <2>3
  <2> HIDE DEF jobs, opt, new, C
  <2>5. todo' \in Seq(Task) /\ \A x \in Range(todo') : \E e \in Range(opt) : x \in Range(jobs[e])
    BY <2>1, <2>2, <2>4, CollectIs
  <2>6. ASSUME NEW i \in DOMAIN todo'
        PROVE  Caller(t, todo'[i]) /\ ImplementsExplored(todo[i])'
    <3>1. todo'[i] \in Range(todo')
      BY DEF Range
    <3>2. PICK e \in Range(opt) : todo'[i] \in Range(jobs[e])
      BY <2>5, <3>1
    <3>3. todo'[i].ejt = "GroupExpressionOptimization" /\ todo'[i].c = t.c /\ todo'[i].cte = None
      BY <2>2, <2>3, <3>2 DEF Range
    <3> QED
      BY <1>1, <3>3 DEF Caller, ImplementsExplored
  <2> QED
    BY <1>1, <1>4, <2>1, <2>6, QuietCall
<1> QED
  BY <1>3, <1>5, <1>6

(* CJobGroupExpressionOptimization::EevtOptimizeChildren: the job waits for the
   contexts it keeps. *)
LEMMA OptimizeChildrenHistory ==
    ASSUME SchedInv, SearchIInv, HistoryInv, EevtOptimizeChildren, SearchIInv'
    PROVE  HistoryInv'
<1> USE DEF memoVars, planVars
<1> DEFINE t == task[cur]
           s == jsm[cur]
           i == s.child
           x == ChildContext(i)
<1>1. /\ InState("GroupExpressionOptimization", "OptimizingChildren")
      /\ UNCHANGED <<gexprs, gstate, estate, poc, best, task, cur>> /\ pc = "body"
      /\ t.ejt = "GroupExpressionOptimization"
  BY DEF EevtOptimizeChildren, Me, My, InState, lifoVars, vars, loopVars
<1>2. s \in Jsm /\ s.ctxs \in Seq(Ctx)
  BY <1>1, AtBody, TaskTypes
<1>3. \/ Move(s, "ChildrenOptimized") \/ Finish
      \/ Stay([s EXCEPT !.child = i + 1], <<>>)
      \/ Stay([s EXCEPT !.child = i + 1, !.ctxs = Append(s.ctxs, x)], <<GroupOptimization(x, t.e)>>)
  BY DEF EevtOptimizeChildren, Me, My
<1>4. \A me : ProgressOK(t, me)'
  BY <1>1 DEF ProgressOK
<1> HIDE DEF x
<1>5. CASE Move(s, "ChildrenOptimized") \/ Finish
  <2>1. "ChildrenOptimized" \in Est
    BY DEF Est
  <2>2. PICK me \in Jsm : jsm' = [jsm EXCEPT ![cur] = me] /\ todo' = <<>> /\ SameExcept(me, s, {"est"})
    BY <1>1, <1>2, <1>5, <2>1, MovedOn
  <2>3. SameAwaits(t, me, s)
    BY <2>2 DEF SameAwaits, SameExcept
  <2> QED
    BY <1>1, <1>4, <2>2, <2>3, QuietMove
<1>6. CASE Stay([s EXCEPT !.child = i + 1], <<>>)
  <2>1. PICK me : me = [s EXCEPT !.child = i + 1] /\ jsm' = [jsm EXCEPT ![cur] = me] /\ run' = "stay" /\ todo' = <<>>
    BY <1>6 DEF Stay
  <2>2. SameExcept(me, s, {"child"})
    BY <1>2, <2>1, StateChild
  <2>3. SameAwaits(t, me, s)
    BY <2>2 DEF SameAwaits, SameExcept
  <2> QED
    BY <1>1, <1>4, <2>1, <2>3, QuietMove
<1>7. CASE Stay([s EXCEPT !.child = i + 1, !.ctxs = Append(s.ctxs, x)], <<GroupOptimization(x, t.e)>>)
  <2>1. PICK me, y : /\ me = [s EXCEPT !.child = i + 1, !.ctxs = Append(s.ctxs, y)] /\ y = x
                     /\ jsm' = [jsm EXCEPT ![cur] = me] /\ run' = "stay"
                     /\ todo' = <<GroupOptimization(y, t.e)>>
    BY <1>7 DEF Stay
  <2>2. me.ctxs = Append(s.ctxs, y)
    BY <1>2, <2>1 DEF Jsm
  <2>3. 1 \in DOMAIN todo' /\ (\A k \in DOMAIN todo' : k = 1)
        /\ todo'[1].ejt = "GroupOptimization" /\ todo'[1].c = y
    <3>1. PICK u : u = GroupOptimization(y, t.e)
      OBVIOUS
    <3>2. u.ejt = "GroupOptimization" /\ u.c = y
      BY <3>1 DEF GroupOptimization, NoTask
    <3>3. todo' = <<u>> /\ DOMAIN <<u>> = {1} /\ <<u>>[1] = u
      BY <2>1, <3>1
    <3> QED
      BY <3>2, <3>3
  <2>4. y \in Ctx
    BY <2>3 DEF SearchIInv, TodoInv, TaskOK
  <2>5. Range(Append(s.ctxs, y)) \subseteq Range(s.ctxs) \cup {y}
    BY <1>2, <2>4 DEF Range
  <2>6. \A k \in DOMAIN todo' : Caller(t, todo'[k]) /\ ImplementsExplored(todo[k])'
    BY <2>3 DEF Caller, ImplementsExplored
  <2>7. IsJob(todo'[1], "GroupOptimization", y)
    BY <2>3 DEF IsJob
  <2>8. ASSUME NEW ejt \in Ejt, NEW z \in Thing, Awaits(t, me, ejt, z)'
        PROVE  Awaits(t, s, ejt, z) \/ \E k \in DOMAIN todo' : IsJob(todo'[k], ejt, z)
    <3>1. ejt = "GroupOptimization" /\ z \in Range(me.ctxs)
      BY <1>1, <2>8 DEF Awaits
    <3>2. CASE z = y
      BY <2>3, <2>7, <3>1, <3>2
    <3>3. CASE z \in Range(s.ctxs)
      BY <1>1, <3>1, <3>3 DEF Awaits
    <3> QED
      BY <2>2, <2>5, <3>1, <3>2, <3>3
  <2> QED
    BY <1>1, <1>4, <2>1, <2>6, <2>8, QuietAction
<1> QED
  BY <1>3, <1>5, <1>6, <1>7

(* CJobGroupExpressionOptimization::EevtOptimizeSelf: one plan of this stage changes. *)
LEMMA OptimizeSelfHistory ==
    ASSUME SchedInv, SearchIInv, HistoryInv, EevtOptimizeSelf, SearchIInv'
    PROVE  HistoryInv'
<1> USE DEF memoVars
<1> DEFINE t == task[cur]
           s == jsm[cur]
           plan == [e |-> t.e, ctxs |-> s.ctxs, cost |-> PlanCost(t.e, s.ctxs)]
           old == best[stage][t.c]
           new == IF old = NoPlan \/ plan.cost < old.cost THEN plan ELSE old
           m == [s EXCEPT !.fCTE = TRUE]
<1>1. /\ InState("GroupExpressionOptimization", "EnfdPropsChecked")
      /\ UNCHANGED <<gexprs, gstate, estate, poc, task, cur>> /\ pc = "body" /\ todo = <<>>
      /\ t.ejt = "GroupExpressionOptimization"
  BY DEF EevtOptimizeSelf, Me, My, InState, lifoVars, vars, loopVars
<1>2. s \in Jsm /\ t \in Task /\ TaskOK(t) /\ stage \in Stages /\ best \in [Stages -> [Ctx -> Plan]]
  BY <1>1, AtBody, States
<1>3. \/ UNCHANGED best /\ (Move(s, "SelfOptimized") \/ Finish)
      \/ /\ best' = [best EXCEPT ![stage][t.c] = new]
         /\ \/ CTEJob(new) # <<>> /\ Stay(m, CTEJob(new))
            \/ Move(s, "SelfOptimized")
  <2> HIDE DEF m
  <2>1. CASE s.fCTE
    BY <2>1 DEF EevtOptimizeSelf, Me, My
  <2>2. CASE ~s.fCTE /\ \E p \in costed : p.e = t.e /\ p.c = t.c /\ p.ctxs = s.ctxs
    BY <2>2 DEF EevtOptimizeSelf, Me, My
  <2>3. CASE ~s.fCTE /\ ~\E p \in costed : p.e = t.e /\ p.c = t.c /\ p.ctxs = s.ctxs
    BY <2>3, Zenon DEF EevtOptimizeSelf, Me, My, m
  <2> QED
    BY <2>1, <2>2, <2>3
<1> HIDE DEF new
<1>4. \A k \in Stages, c \in Ctx : k # stage => best'[k][c] = best[k][c]
  BY <1>2, <1>3
<1>5. \A me : ProgressOK(t, me)'
  BY <1>1 DEF ProgressOK
<1>6. CASE Move(s, "SelfOptimized") \/ Finish
  <2>1. "SelfOptimized" \in Est
    BY DEF Est
  <2>2. PICK me \in Jsm : jsm' = [jsm EXCEPT ![cur] = me] /\ todo' = <<>> /\ SameExcept(me, s, {"est"})
    BY <1>1, <1>2, <1>6, <2>1, MovedOn
  <2>3. SameAwaits(t, me, s)
    BY <2>2 DEF SameAwaits, SameExcept
  <2> QED
    BY <1>1, <1>4, <1>5, <2>2, <2>3, QuietMove
<1>7. CASE CTEJob(new) # <<>> /\ Stay(m, CTEJob(new))
  <2>1. PICK me : me = m /\ jsm' = [jsm EXCEPT ![cur] = me] /\ run' = "stay" /\ todo' = CTEJob(new)
    BY <1>7 DEF Stay
  <2>2. SameExcept(me, s, {"fCTE"})
    BY <1>2, <2>1, StateCTE
  <2>3. SameAwaits(t, me, s)
    BY <2>2 DEF SameAwaits, SameExcept
  <2>4. /\ t.cte = None /\ CTECtx[new.e] # None
        /\ todo' = <<GExprOptimization(t.e, t.c, t.n, CTECtx[new.e])>>
    BY <1>7, <2>1, Zenon DEF CTEJob, Me
  <2>5. \A k \in DOMAIN todo' : todo'[k].ejt = "GroupExpressionOptimization"
                                 /\ todo'[k].c = t.c /\ todo'[k].cte # None
    <3>1. PICK y : y # None /\ y = CTECtx[new.e]
      BY <2>4
    <3>2. PICK u : u = GExprOptimization(t.e, t.c, t.n, y)
      OBVIOUS
    <3>3. u.ejt = "GroupExpressionOptimization" /\ u.c = t.c /\ u.cte = y
      BY <3>2 DEF GExprOptimization, NoTask
    <3>4. todo' = <<u>> /\ DOMAIN <<u>> = {1} /\ <<u>>[1] = u
      BY <2>4, <3>1, <3>2
    <3> QED
      BY <3>1, <3>3, <3>4
  <2>6. \A k \in DOMAIN todo' : Caller(t, todo'[k]) /\ ImplementsExplored(todo[k])'
    BY <1>1, <2>4, <2>5 DEF Caller, ImplementsExplored
  <2> QED
    BY <1>1, <1>4, <1>5, <2>1, <2>3, <2>6, QuietCall
<1> QED
  BY <1>3, <1>6, <1>7

(* CContextOptimization::SetState by the job that optimizes the context. *)
LEMMA ContextState ==
    ASSUME SchedInv, SearchIInv, HistoryInv, NEW est, InState("GroupOptimization", est), SearchIInv',
           NEW me, jsm' = [jsm EXCEPT ![cur] = me], todo' = <<>>,
           UNCHANGED <<gexprs, gstate, estate, best>>,
           NEW st, poc' = [poc EXCEPT ![stage][task[cur].c] = st],
           IF run' = "final" THEN st = Optimized ELSE st = Optimizing
    PROVE  HistoryInv'
<1>1. UNCHANGED <<task, cur, stage>> /\ task[cur].ejt = "GroupOptimization" /\ pc = "body" /\ run = "go"
  BY DEF InState, lifoVars, vars, loopVars, Me
<1>2. /\ task[cur].c \in Ctx /\ stage \in Stages /\ pjq[cur] # None
      /\ poc \in [Stages -> [Ctx -> Unoptimized..Optimized]]
  <2>1. TaskOK(task[cur]) /\ pjq[cur] = QueueOf(task[cur]) /\ stage \in Stages
    BY <1>1, AtBody
  <2>2. None \notin Queue /\ \A c \in Ctx : <<"Optimization", c>> \in Queue
    BY SearchAssumption, JobAssumption
  <2> QED
    BY <1>1, <2>1, <2>2, States DEF TaskOK, QueueOf
<1>3. poc[stage][task[cur].c] # Optimized
  <2>1. IsJob(task[cur], "GroupOptimization", task[cur].c)
    BY <1>1 DEF IsJob
  <2>2. ~Done("GroupOptimization", task[cur].c)
    BY <1>1, <1>2, <2>1, StillOpen
  <2> QED
    BY <2>2 DEF Done
<1>4. \A s \in Stages, c \in Ctx : poc'[s][c] = IF s = stage /\ c = task[cur].c THEN st ELSE poc[s][c]
  BY <1>2
<1>5. MemoGoesOn
  BY <1>2, <1>3, <1>4 DEF MemoGoesOn
<1>6. OwnExpr
  BY DEF OwnExpr
<1>7. OwnGoal
  <2>1. ASSUME NEW ejt, NEW x, Reached(ejt, x) PROVE Done(ejt, x)'
    <3>1. ejt = "GroupOptimization" /\ x = task[cur].c /\ run' = "final"
      BY <1>1, <2>1 DEF Reached, IsJob
    <3> QED
      BY <1>1, <1>2, <1>4, <3>1 DEF Done
  <2>2. \A c \in Ctx : poc'[stage][c] = Optimized =>
          poc[stage][c] = Optimized \/ Reached("GroupOptimization", c)
    BY <1>1, <1>2, <1>4 DEF Reached, IsJob, Optimizing, Optimized
  <2> QED
    BY <2>1, <2>2 DEF OwnGoal
<1>8. ClosedInv'
  BY <1>1, DueFacts DEF ClosedInv, HistoryInv
<1>9. /\ \A ejt \in Ejt, x \in Thing : ~Awaits(task[cur], me, ejt, x)'
      /\ ProgressOK(task[cur], me)' /\ DOMAIN todo' = {}
  BY <1>1 DEF Awaits, ProgressOK
<1> QED
  BY <1>5, <1>6, <1>7, <1>8, <1>9, ActionHistory

(* CJobGroupOptimization::EevtStartOptimization. *)
LEMMA StartOptimizationHistory ==
    ASSUME SchedInv, SearchIInv, HistoryInv, EevtStartOptimization, SearchIInv'
    PROVE  HistoryInv'
<1> USE DEF memoVars
<1> DEFINE t == task[cur]
           s == jsm[cur]
<1>1. /\ InState("GroupOptimization", "Initialized")
      /\ UNCHANGED <<gexprs, gstate, estate, best, task, cur>> /\ pc = "body" /\ todo = <<>>
      /\ t.ejt = "GroupOptimization"
  BY DEF EevtStartOptimization, Me, My, InState, lifoVars, vars, loopVars
<1>2. cur \in Job /\ TaskOK(t)
  BY <1>1, AtBody
<1>3. CASE gstate[t.g] < Implemented
  <2>1. Stay(s, <<GroupJob("GroupImplementation", t.g)>>) /\ poc' = poc
    BY <1>3 DEF EevtStartOptimization, Me, My
  <2>2. /\ jsm' = [jsm EXCEPT ![cur] = s] /\ run' = "stay"
        /\ todo' = <<GroupJob("GroupImplementation", t.g)>>
    BY <2>1 DEF Stay
  <2>3. \A k \in DOMAIN todo' : todo'[k].ejt = "GroupImplementation"
    <3>1. PICK u : u = GroupJob("GroupImplementation", t.g)
      OBVIOUS
    <3>2. u.ejt = "GroupImplementation"
      BY <3>1 DEF GroupJob, NoTask
    <3>3. todo' = <<u>> /\ DOMAIN <<u>> = {1} /\ <<u>>[1] = u
      BY <2>2, <3>1
    <3> QED
      BY <3>2, <3>3
  <2>4. \A k \in DOMAIN todo' : Caller(t, todo'[k]) /\ ImplementsExplored(todo[k])'
    BY <2>3 DEF Caller, ImplementsExplored
  <2>5. PICK me : me = s
    OBVIOUS
  <2>6. SameAwaits(t, me, s) /\ ProgressOK(t, me)'
    BY <1>1, <2>5 DEF SameAwaits, ProgressOK
  <2> QED
    BY <1>1, <2>1, <2>2, <2>4, <2>5, <2>6, QuietCall
<1>4. CASE ~(gstate[t.g] < Implemented)
  <2>1. poc' = [poc EXCEPT ![stage][t.c] = Optimizing] /\ Move([s EXCEPT !.eol = EolMax(t.g)], "OptimizingChildren")
    BY <1>4 DEF EevtStartOptimization, Me, My
  <2>2. PICK me : jsm' = [jsm EXCEPT ![cur] = me] /\ todo' = <<>> /\ run' = "go"
    BY <1>1, <2>1 DEF Move
  <2> QED
    BY <1>1, <2>1, <2>2, ContextState
<1> QED
  BY <1>3, <1>4

(* CJobGroupOptimization::EevtCompleteOptimization. *)
LEMMA CompleteOptimizationHistory ==
    ASSUME SchedInv, SearchIInv, HistoryInv, EevtCompleteOptimization, SearchIInv'
    PROVE  HistoryInv'
<1> USE DEF memoVars
<1> DEFINE t == task[cur]
           s == jsm[cur]
<1>1. /\ InState("GroupOptimization", "DampingOptimizationLevel")
      /\ UNCHANGED <<gexprs, gstate, estate, best, task, cur>> /\ pc = "body" /\ todo = <<>>
      /\ t.ejt = "GroupOptimization"
  BY DEF EevtCompleteOptimization, Me, My, InState, lifoVars, vars, loopVars
<1>2. cur \in Job
  BY <1>1, AtBody
<1>3. CASE s.eol > 0
  <2>1. Move([s EXCEPT !.eol = s.eol - 1, !.last = None], "OptimizingChildren") /\ poc' = poc
    BY <1>3 DEF EevtCompleteOptimization, My
  <2>2. PICK me : jsm' = [jsm EXCEPT ![cur] = me] /\ todo' = <<>> /\ run' = "go"
    BY <1>1, <2>1 DEF Move
  <2>3. SameAwaits(t, me, s) /\ ProgressOK(t, me)'
    BY <1>1 DEF SameAwaits, ProgressOK
  <2> QED
    BY <1>1, <2>1, <2>2, <2>3, QuietMove
<1>4. CASE ~(s.eol > 0)
  <2>1. poc' = [poc EXCEPT ![stage][t.c] = Optimized] /\ Finish
    BY <1>4 DEF EevtCompleteOptimization, My, Me
  <2>2. PICK me : jsm' = [jsm EXCEPT ![cur] = me] /\ todo' = <<>> /\ run' = "final"
    BY <1>1, <1>2, <2>1, SameState DEF Finish
  <2> QED
    BY <1>1, <2>1, <2>2, ContextState
<1> QED
  BY <1>3, <1>4

(* When a job runs its next action, what it has waited for is done. *)
LEMMA AwaitedDone ==
    ASSUME SchedInv, SearchIInv, HistoryInv, NEW ejt0, NEW est, InState(ejt0, est),
           NEW ejt \in Ejt, NEW x \in Thing, Awaits(task[cur], jsm[cur], ejt, x)
    PROVE  Done(ejt, x)
<1>1. cur \in Live /\ ~timedOut /\ DOMAIN todo = {} /\ Children(cur) = {}
  BY AtBody DEF InState, SearchIInv, ControlInv
<1> QED
  BY <1>1 DEF HistoryInv, AwaitInv

(* The expression that the executing job works on, and its state. *)
LEMMA ExprState ==
    ASSUME SchedInv, SearchIInv, HistoryInv, NEW ejt0, NEW est, InState(ejt0, est), SearchIInv',
           NEW me, jsm' = [jsm EXCEPT ![cur] = me], UNCHANGED <<gexprs, gstate, poc, best>>,
           NEW st \in Unexplored..Implemented, estate' = [estate EXCEPT ![task[cur].e] = st],
           \/ ejt0 = "GroupExpressionExploration" /\ (run' = "final" => st >= Explored)
           \/ ejt0 = "GroupExpressionImplementation" /\ st >= Explored /\ (run' = "final" => st >= Implemented),
           \A s \in {Explored, Implemented} : st >= s => \A k \in Range(Kids[task[cur].e]) : gstate[k] >= s,
           \A ejt \in Ejt, x \in Thing : Awaits(task[cur], me, ejt, x)' =>
               \/ Awaits(task[cur], jsm[cur], ejt, x) \/ Done(ejt, x)'
               \/ \E i \in DOMAIN todo' : IsJob(todo'[i], ejt, x),
           \A i \in DOMAIN todo' : Caller(task[cur], todo'[i]) /\ ImplementsExplored(todo[i])',
           ProgressOK(task[cur], me)'
    PROVE  HistoryInv'
<1> DEFINE t == task[cur]
<1>1. UNCHANGED <<task, cur, stage>> /\ t.ejt = ejt0 /\ pc = "body" /\ run = "go"
  BY DEF InState, lifoVars, vars, loopVars, Me
<1>2. /\ t.e \in GExpr /\ t.e \in Logical /\ estate \in [GExpr -> Unexplored..Implemented]
      /\ gstate \in [Group -> Unexplored..Implemented] /\ MemoInv
  <2>1. TaskOK(t)
    BY <1>1, AtBody
  <2> QED
    BY <1>1, <2>1, States DEF TaskOK, InMemoExpr, SearchIInv
<1>3. \A e \in GExpr : estate'[e] = IF e = t.e THEN st ELSE estate[e]
  BY <1>2
<1>4. MemoGoesOn
  BY DEF MemoGoesOn
<1>5. OwnExpr
  BY <1>1, <1>3 DEF OwnExpr
<1>6. OwnGoal
  <2>1. ASSUME NEW ejt, NEW x, Reached(ejt, x) PROVE Done(ejt, x)'
    <3>1. ejt = ejt0 /\ x = t.e /\ run' = "final"
      BY <1>1, <2>1 DEF Reached, IsJob
    <3> QED
      BY <1>1, <1>2, <1>3, <3>1 DEF Done
  <2> QED
    BY <2>1 DEF OwnGoal
<1>7. ClosedInv'
  <2>1. ASSUME NEW e \in GExpr, NEW s \in {Explored, Implemented}, estate'[e] >= s, NEW k \in Range(Kids[e])
        PROVE  gstate'[k] >= s
    BY <1>3, <2>1 DEF HistoryInv, ClosedInv
  <2>2. ASSUME NEW g \in Group, NEW s \in {Explored, Implemented}, gstate[g] >= s,
               NEW e \in Range(gexprs[g]) \cap Due(s)
        PROVE  estate'[e] >= s
    <3>1. e \in GExpr /\ GroupOf[e] = g /\ estate[e] >= s
      BY <1>2, <2>2, SearchAssumption, DueFacts DEF MemoInv, HistoryInv, ClosedInv
    <3>2. CASE e # t.e
      BY <1>3, <3>1, <3>2
    <3>3. CASE e = t.e
      <4>1. CASE ejt0 = "GroupExpressionExploration"
        <5>1. gstate[g] < Explored
          BY <1>1, <3>1, <3>3, <4>1, GroupOfExpr
        <5> QED
          BY <1>2, <2>2, <5>1 DEF Explored, Implemented, Unexplored
      <4>2. CASE ejt0 = "GroupExpressionImplementation"
        <5>1. gstate[g] < Implemented /\ st >= Explored
          BY <1>1, <3>1, <3>3, <4>2, GroupOfExpr
        <5>2. s = Explored
          BY <1>2, <2>2, <5>1 DEF Explored, Implemented, Unexplored
        <5> QED
          BY <1>3, <3>1, <3>3, <5>1, <5>2
      <4> QED
        BY <4>1, <4>2
    <3> QED
      BY <3>2, <3>3
  <2>3. \A g \in Group : gexprs'[g] = <<>> => gstate'[g] = Unexplored
    BY DEF HistoryInv, ClosedInv
  <2> QED
    BY <1>1, <2>1, <2>2, <2>3, DueFacts DEF ClosedInv
<1> HIDE DEF t
<1> QED
  BY <1>4, <1>5, <1>6, <1>7, ActionHistory

(* EevtFinalize of the jobs on expressions: the child groups they waited for are done. *)
LEMMA FinalizeExprHistory ==
    ASSUME SchedInv, SearchIInv, HistoryInv, EevtFinalizeExploration \/ EevtFinalizeImplementation, SearchIInv'
    PROVE  HistoryInv'
<1> USE DEF planVars
<1> DEFINE t == task[cur]
           s == jsm[cur]
<1>1. PICK ejt0, kids, est, st :
         /\ InState(ejt0, est) /\ est # "Initialized"
         /\ \/ ejt0 = "GroupExpressionExploration" /\ kids = "GroupExploration" /\ st = Explored
            \/ ejt0 = "GroupExpressionImplementation" /\ kids = "GroupImplementation" /\ st = Implemented
         /\ estate' = [estate EXCEPT ![t.e] = st] /\ Finish
         /\ UNCHANGED <<gexprs, gstate, poc, best>>
  <2>1. CASE EevtFinalizeExploration
    BY <2>1 DEF EevtFinalizeExploration, Me
  <2>2. CASE EevtFinalizeImplementation
    BY <2>2 DEF EevtFinalizeImplementation, Me
  <2> QED
    BY <2>1, <2>2
<1>2. UNCHANGED <<task, cur>> /\ t.ejt = ejt0 /\ pc = "body" /\ s.est = est /\ todo = <<>>
  BY <1>1 DEF InState, lifoVars, vars, loopVars, Me, My
<1>3. cur \in Live /\ cur \in Job /\ s \in Jsm /\ TaskOK(t) /\ t.e \in GExpr
  <2>1. cur \in Live /\ cur \in Job /\ s \in Jsm /\ TaskOK(t)
    BY <1>2, AtBody
  <2> QED
    BY <1>1, <1>2, <2>1 DEF TaskOK, InMemoExpr
<1>4. s.fKids
  BY <1>1, <1>2, <1>3 DEF HistoryInv, ProgressInv, ProgressOK
<1>5. Range(Kids[t.e]) \subseteq Group
  <2>1. Kids[t.e] \in Seq(Group)
    BY <1>3, SearchAssumption
  <2> QED
    BY <2>1 DEF Range
<1>6. \A k \in Range(Kids[t.e]) : gstate[k] >= st
  <2>1. SUFFICES ASSUME NEW k \in Range(Kids[t.e]) PROVE gstate[k] >= st
    OBVIOUS
  <2>2. kids \in Ejt /\ k \in Thing
    BY <1>1, <1>5 DEF Ejt, Thing
  <2>3. Awaits(t, s, kids, k)
    BY <1>1, <1>2, <1>4 DEF Awaits
  <2>4. Done(kids, k)
    BY <1>1, <2>2, <2>3, AwaitedDone
  <2> QED
    BY <1>1, <2>4 DEF Done
<1>7. \A a \in {Explored, Implemented} : st >= a => \A k \in Range(Kids[t.e]) : gstate[k] >= a
  <2>1. gstate \in [Group -> Unexplored..Implemented]
    BY States
  <2>2. \A k \in Range(Kids[t.e]) : gstate[k] \in Int /\ gstate[k] >= st
    <3>1. \A k \in Group : gstate[k] \in Int
      BY <2>1 DEF Unexplored, Implemented
    <3> QED
      BY <1>5, <1>6, <3>1
  <2>3. st \in Int
    BY <1>1 DEF Explored, Implemented
  <2>4. \A a \in {Explored, Implemented}, n \in Int : a \in Int /\ (st >= a /\ n >= st => n >= a)
    BY <2>3 DEF Explored, Implemented
  <2> QED
    BY <2>2, <2>4
<1>8. PICK me : me = s
  OBVIOUS
<1>9. jsm' = [jsm EXCEPT ![cur] = me] /\ run' = "final" /\ DOMAIN todo' = {}
  BY <1>1, <1>2, <1>3, <1>8, SameState DEF Finish
<1>10. ProgressOK(t, me)' /\ \A ejt, x : Awaits(t, me, ejt, x)' => Awaits(t, s, ejt, x)
  BY <1>1, <1>2, <1>4, <1>8 DEF ProgressOK, Awaits
<1>11. st \in Unexplored..Implemented /\ st >= Explored
  BY <1>1 DEF Unexplored, Explored, Implemented
<1>12. /\ estate' = [estate EXCEPT ![task[cur].e] = st] /\ UNCHANGED <<gexprs, gstate, poc, best>>
       /\ InState(ejt0, est)
       /\ \/ ejt0 = "GroupExpressionExploration" /\ (run' = "final" => st >= Explored)
          \/ ejt0 = "GroupExpressionImplementation" /\ st >= Explored /\ (run' = "final" => st >= Implemented)
  BY <1>1, <1>11 DEF Explored, Implemented
<1>13. \A ejt \in Ejt, x \in Thing : Awaits(task[cur], me, ejt, x)' => Awaits(task[cur], jsm[cur], ejt, x)
  BY <1>10
<1>14. /\ \A a \in {Explored, Implemented} : st >= a => \A k \in Range(Kids[task[cur].e]) : gstate[k] >= a
       /\ ProgressOK(task[cur], me)'
  BY <1>7, <1>10
<1> HIDE DEF t, s
<1> QED
  BY <1>9, <1>11, <1>12, <1>13, <1>14, ExprState

(* The jobs on the children of a group expression, which the job waits for. *)
LEMMA ChildrenHistory ==
    ASSUME SchedInv, SearchIInv, HistoryInv, NEW ejt0, NEW est, InState(ejt0, est), SearchIInv',
           NEW kids, NEW st \in Unexplored..Implemented,
           \/ ejt0 = "GroupExpressionExploration" /\ kids = "GroupExploration" /\ st = Exploring
           \/ ejt0 = "GroupExpressionImplementation" /\ kids = "GroupImplementation" /\ st = Implementing,
           estate' = [estate EXCEPT ![task[cur].e] = st], UNCHANGED <<gexprs, gstate, poc, best>>,
           Stay([jsm[cur] EXCEPT !.fKids = TRUE],
                [i \in DOMAIN Kids[task[cur].e] |-> GroupJob(kids, Kids[task[cur].e][i])])
    PROVE  HistoryInv'
<1> DEFINE t == task[cur]
           s == jsm[cur]
           e == t.e
<1>1. UNCHANGED <<task, cur>> /\ t.ejt = ejt0 /\ pc = "body"
  BY DEF InState, lifoVars, vars, loopVars, Me
<1>2. cur \in Live /\ s \in Jsm /\ TaskOK(t) /\ e \in GExpr /\ e \in Logical /\ InMemoExpr(e)
  BY <1>1, AtBody DEF TaskOK, InMemoExpr
<1>3. PICK me : me = [s EXCEPT !.fKids = TRUE]
  OBVIOUS
<1>4. /\ jsm' = [jsm EXCEPT ![cur] = me] /\ run' = "stay"
      /\ todo' = [i \in DOMAIN Kids[e] |-> GroupJob(kids, Kids[e][i])]
  BY <1>3 DEF Stay
<1>5. me.fKids
  BY <1>2, <1>3, StateKids
<1>6. ProgressOK(task[cur], me)'
  BY <1>1, <1>5 DEF ProgressOK
<1>7. \A i \in DOMAIN todo' : todo'[i].ejt = kids /\ todo'[i].g = Kids[e][i]
  BY <1>4 DEF GroupJob, NoTask
<1>8. \A i \in DOMAIN todo' : Caller(task[cur], todo'[i]) /\ ImplementsExplored(todo[i])'
  BY <1>7 DEF Caller, ImplementsExplored
<1>9. ASSUME NEW ejt \in Ejt, NEW x \in Thing, Awaits(task[cur], me, ejt, x)'
      PROVE  \E i \in DOMAIN todo' : IsJob(todo'[i], ejt, x)
  <2>1. ejt = kids /\ x \in Range(Kids[e])
    BY <1>1, <1>9 DEF Awaits
  <2>2. PICK i \in DOMAIN Kids[e] : x = Kids[e][i]
    BY <2>1 DEF Range
  <2>3. i \in DOMAIN todo' /\ IsJob(todo'[i], ejt, x)
    BY <1>4, <1>7, <2>1, <2>2 DEF IsJob
  <2> QED
    BY <2>3
<1>10. \A a \in {Explored, Implemented} : st >= a => \A k \in Range(Kids[e]) : gstate[k] >= a
  <2>1. SUFFICES ASSUME NEW a \in {Explored, Implemented}, st >= a
                 PROVE  \A k \in Range(Kids[e]) : gstate[k] >= a
    OBVIOUS
  <2>2. a = Explored /\ ejt0 = "GroupExpressionImplementation"
    BY <2>1 DEF Exploring, Implementing, Explored, Implemented
  <2>3. GroupOf[e] \in Group /\ e \in Range(gexprs[GroupOf[e]]) \cap Logical
    BY <1>2, SearchAssumption DEF InMemoExpr
  <2>4. gstate[GroupOf[e]] >= Implementing
    BY <1>1, <1>2, <2>2 DEF HistoryInv, ProgressInv, ImplementsExplored
  <2>5. gstate[GroupOf[e]] >= Explored
    <3>1. gstate \in [Group -> Unexplored..Implemented]
      BY States
    <3>2. gstate[GroupOf[e]] \in Int
      BY <2>3, <3>1 DEF Unexplored, Implemented
    <3> QED
      BY <2>4, <3>2 DEF Implementing, Explored
  <2>6. estate[e] >= Explored
    BY <2>3, <2>5, DueFacts DEF HistoryInv, ClosedInv
  <2> QED
    BY <1>2, <2>2, <2>6 DEF HistoryInv, ClosedInv
<1>11. \/ ejt0 = "GroupExpressionExploration" /\ (run' = "final" => st >= Explored)
       \/ ejt0 = "GroupExpressionImplementation" /\ st >= Explored /\ (run' = "final" => st >= Implemented)
  BY <1>4 DEF Implementing, Explored
<1> HIDE DEF s
<1> QED
  BY <1>4, <1>6, <1>8, <1>9, <1>10, <1>11, ExprState

(* EevtExploreChildren and EevtImplementChildren of the jobs on expressions. *)
LEMMA ExprChildrenHistory ==
    ASSUME SchedInv, SearchIInv, HistoryInv, EevtExploreChildren \/ EevtImplementChildren, SearchIInv'
    PROVE  HistoryInv'
<1> USE DEF planVars
<1> DEFINE t == task[cur]
           s == jsm[cur]
<1>1. PICK ejt0, kids, st, to :
         /\ InState(ejt0, "Initialized") /\ to \in Est
         /\ \/ ejt0 = "GroupExpressionExploration" /\ kids = "GroupExploration" /\ st = Exploring
            \/ ejt0 = "GroupExpressionImplementation" /\ kids = "GroupImplementation" /\ st = Implementing
         /\ UNCHANGED <<gexprs, gstate, poc, best>>
         /\ IF ~s.fKids
            THEN /\ estate' = [estate EXCEPT ![t.e] = st]
                 /\ Stay([s EXCEPT !.fKids = TRUE], [i \in DOMAIN Kids[t.e] |-> GroupJob(kids, Kids[t.e][i])])
            ELSE Move(s, to) /\ UNCHANGED estate
  <2>0. "ChildrenExplored" \in Est /\ "ChildrenImplemented" \in Est
    BY DEF Est
  <2>1. CASE EevtExploreChildren
    BY <2>0, <2>1, Zenon DEF EevtExploreChildren, Me, My
  <2>2. CASE EevtImplementChildren
    BY <2>0, <2>2, Zenon DEF EevtImplementChildren, Me, My
  <2> QED
    BY <2>1, <2>2
<1>2. UNCHANGED <<task, cur>> /\ t.ejt = ejt0 /\ pc = "body"
  BY <1>1 DEF InState, lifoVars, vars, loopVars, Me
<1>3. s \in Jsm
  BY <1>2, AtBody
<1>4. CASE s.fKids
  <2>1. Move(s, to) /\ UNCHANGED estate
    BY <1>1, <1>4
  <2>2. PICK me \in Jsm : jsm' = [jsm EXCEPT ![cur] = me] /\ todo' = <<>> /\ SameExcept(me, s, {"est"})
    BY <1>1, <1>3, <2>1, MovedOn
  <2>3. run' = "go"
    BY <2>1 DEF Move
  <2>4. SameAwaits(t, me, s) /\ ProgressOK(t, me)'
    BY <1>1, <1>2, <1>4, <2>2 DEF SameAwaits, SameExcept, ProgressOK
  <2> QED
    BY <1>1, <2>1, <2>2, <2>3, <2>4, QuietMove
<1>5. CASE ~s.fKids
  <2>1. /\ estate' = [estate EXCEPT ![t.e] = st]
        /\ Stay([s EXCEPT !.fKids = TRUE], [i \in DOMAIN Kids[t.e] |-> GroupJob(kids, Kids[t.e][i])])
    BY <1>1, <1>5
  <2>2. st \in Unexplored..Implemented
    BY <1>1, States
  <2> QED
    BY <1>1, <2>1, <2>2, ChildrenHistory
<1> QED
  BY <1>4, <1>5

(* The jobs of a group and the state of the group. *)
LEMMA GroupState ==
    ASSUME SchedInv, SearchIInv, HistoryInv, NEW ejt0, NEW est, InState(ejt0, est), SearchIInv',
           NEW me, jsm' = [jsm EXCEPT ![cur] = me], todo' = <<>>, UNCHANGED <<gexprs, estate, poc, best>>,
           NEW st, gstate' = [gstate EXCEPT ![task[cur].g] = st],
           \/ ejt0 = "GroupExploration" /\ st = IF run' = "final" THEN Explored ELSE Exploring
           \/ /\ ejt0 = "GroupImplementation" /\ gstate[task[cur].g] >= Explored
              /\ st = IF run' = "final" THEN Implemented ELSE Implementing,
           \A s \in {Explored, Implemented} : st >= s =>
               \A e \in Range(gexprs[task[cur].g]) \cap Due(s) : estate[e] >= s,
           me.last = jsm[cur].last
    PROVE  HistoryInv'
<1> DEFINE t == task[cur]
<1>1. UNCHANGED <<task, cur, stage>> /\ t.ejt = ejt0 /\ pc = "body" /\ run = "go"
  BY DEF InState, lifoVars, vars, loopVars, Me
<1>2. /\ t.g \in Group /\ gexprs[t.g] # <<>> /\ pjq[cur] # None
      /\ gstate \in [Group -> Unexplored..Implemented]
  <2>1. TaskOK(t) /\ pjq[cur] = QueueOf(t)
    BY <1>1, AtBody
  <2>2. None \notin Queue /\ \A g \in Group : <<"Exploration", g>> \in Queue /\ <<"Implementation", g>> \in Queue
    BY SearchAssumption, JobAssumption
  <2> QED
    BY <1>1, <2>1, <2>2, States DEF TaskOK, QueueOf
<1>3. \A g \in Group : gstate'[g] = IF g = t.g THEN st ELSE gstate[g]
  BY <1>2
<1>4. gstate[t.g] \in Unexplored..Implemented /\ st \in Unexplored..Implemented
  BY <1>2, States
<1>5. /\ ejt0 = "GroupExploration" => gstate[t.g] < Explored
      /\ ejt0 = "GroupImplementation" => gstate[t.g] < Implemented
  <2>1. IsJob(t, ejt0, t.g)
    BY <1>1 DEF IsJob
  <2>2. ~Done(ejt0, t.g)
    BY <1>1, <1>2, <2>1, StillOpen
  <2> QED
    BY <1>4, <2>2 DEF Done, Unexplored, Explored, Implemented
<1>6. gstate[t.g] <= st
  BY <1>4, <1>5 DEF Unexplored, Exploring, Explored, Implementing, Implemented
<1>7. MemoGoesOn
  <2>1. ASSUME NEW g \in Group, NEW a \in {Explored, Implementing, Implemented}, gstate[g] >= a
        PROVE  gstate'[g] >= a
    BY <1>3, <1>4, <1>6, <2>1 DEF Unexplored, Explored, Implementing, Implemented
  <2> QED
    BY <2>1 DEF MemoGoesOn
<1>8. OwnExpr
  BY DEF OwnExpr
<1>9. OwnGoal
  <2>1. ASSUME NEW ejt, NEW x, Reached(ejt, x) PROVE Done(ejt, x)'
    <3>1. ejt = ejt0 /\ x = t.g /\ run' = "final"
      BY <1>1, <2>1 DEF Reached, IsJob
    <3> QED
      BY <1>1, <1>2, <1>3, <3>1 DEF Done, Explored, Implemented
  <2>2. ASSUME NEW g \in Group, gstate'[g] >= Explored
        PROVE  gstate[g] >= Explored \/ Reached("GroupExploration", g)
    BY <1>1, <1>3, <2>2 DEF Reached, IsJob, Exploring, Explored, Implementing, Implemented
  <2>3. ASSUME NEW g \in Group, gstate'[g] >= Implemented
        PROVE  gstate[g] >= Implemented \/ Reached("GroupImplementation", g)
    BY <1>1, <1>3, <2>3 DEF Reached, IsJob, Exploring, Explored, Implementing, Implemented
  <2> QED
    BY <2>1, <2>2, <2>3 DEF OwnGoal
<1>10. ClosedInv'
  <2>1. ASSUME NEW e \in GExpr, NEW s \in {Explored, Implemented}, estate[e] >= s, NEW k \in Range(Kids[e])
        PROVE  gstate'[k] >= s
    <3>1. gstate[k] >= s
      BY <2>1 DEF HistoryInv, ClosedInv
    <3>2. k \in Group
      <4>1. Kids[e] \in Seq(Group)
        BY SearchAssumption
      <4> QED
        BY <4>1 DEF Range
    <3> QED
      BY <1>7, <3>1, <3>2 DEF MemoGoesOn
  <2>2. ASSUME NEW g \in Group, NEW s \in {Explored, Implemented}, gstate'[g] >= s,
               NEW e \in Range(gexprs[g]) \cap Due(s)
        PROVE  estate[e] >= s
    BY <1>3, <2>2 DEF HistoryInv, ClosedInv
  <2>3. ASSUME NEW g \in Group, gexprs[g] = <<>> PROVE gstate'[g] = Unexplored
    BY <1>2, <1>3, <2>3 DEF HistoryInv, ClosedInv
  <2> QED
    BY <1>1, <2>1, <2>2, <2>3, DueFacts DEF ClosedInv
<1>11. ProgressOK(t, me)'
  BY <1>1, <1>2, <1>3 DEF ProgressOK, Implementing, Implemented
<1>12. DOMAIN todo' = {} /\ \A ejt, x : Awaits(t, me, ejt, x)' => Awaits(t, jsm[cur], ejt, x)
  BY <1>1 DEF Awaits
<1>13. /\ ProgressOK(task[cur], me)'
       /\ \A ejt, x : Awaits(task[cur], me, ejt, x)' => Awaits(task[cur], jsm[cur], ejt, x)
  BY <1>11, <1>12
<1> HIDE DEF t
<1> QED
  BY <1>7, <1>8, <1>9, <1>10, <1>12, <1>13, ActionHistory

(* CJobGroupExploration::EevtStartExploration. *)
LEMMA StartExplorationHistory ==
    ASSUME SchedInv, SearchIInv, HistoryInv, EevtStartExploration, SearchIInv'
    PROVE  HistoryInv'
<1> USE DEF planVars
<1>1. /\ InState("GroupExploration", "Initialized") /\ Move(jsm[cur], "ExploringChildren")
      /\ gstate' = [gstate EXCEPT ![task[cur].g] = Exploring]
      /\ UNCHANGED <<gexprs, estate, poc, best>>
  BY DEF EevtStartExploration, Me, My
<1>2. "ExploringChildren" \in Est /\ jsm[cur] \in Jsm
  BY <1>1, AtBody DEF Est, InState
<1>3. PICK me \in Jsm : jsm' = [jsm EXCEPT ![cur] = me] /\ todo' = <<>> /\ SameExcept(me, jsm[cur], {"est"})
  BY <1>1, <1>2, MovedOn
<1>4. run' = "go"
  BY <1>1 DEF Move
<1>5. me.last = jsm[cur].last
  BY <1>3 DEF SameExcept
<1>6. \A s \in {Explored, Implemented} : ~(Exploring >= s)
  BY DEF Exploring, Explored, Implemented
<1> QED
  BY <1>1, <1>3, <1>4, <1>5, <1>6, GroupState

(* CJobGroupImplementation::EevtStartImplementation: the group is explored first. *)
LEMMA StartImplementationHistory ==
    ASSUME SchedInv, SearchIInv, HistoryInv, EevtStartImplementation, SearchIInv'
    PROVE  HistoryInv'
<1> USE DEF planVars
<1> DEFINE t == task[cur]
           s == jsm[cur]
<1>1. /\ InState("GroupImplementation", "Initialized")
      /\ UNCHANGED <<gexprs, estate, poc, best, task, cur>> /\ pc = "body" /\ t.ejt = "GroupImplementation"
      /\ s.est = "Initialized"
  BY DEF EevtStartImplementation, Me, My, InState, lifoVars, vars, loopVars
<1>2. cur \in Job /\ cur \in Live /\ TaskOK(t) /\ s \in Jsm
  BY <1>1, AtBody
<1>3. CASE gstate[t.g] < Explored
  <2>1. Stay(s, <<GroupJob("GroupExploration", t.g)>>) /\ gstate' = gstate
    BY <1>3 DEF EevtStartImplementation, Me, My
  <2>2. /\ jsm' = [jsm EXCEPT ![cur] = s] /\ run' = "stay"
        /\ todo' = <<GroupJob("GroupExploration", t.g)>>
    BY <2>1 DEF Stay
  <2>3. \A k \in DOMAIN todo' : todo'[k].ejt = "GroupExploration"
    <3>1. PICK u : u = GroupJob("GroupExploration", t.g)
      OBVIOUS
    <3>2. u.ejt = "GroupExploration"
      BY <3>1 DEF GroupJob, NoTask
    <3>3. todo' = <<u>> /\ DOMAIN <<u>> = {1} /\ <<u>>[1] = u
      BY <2>2, <3>1
    <3> QED
      BY <3>2, <3>3
  <2>4. \A k \in DOMAIN todo' : Caller(t, todo'[k]) /\ ImplementsExplored(todo[k])'
    BY <2>3 DEF Caller, ImplementsExplored
  <2>5. PICK me : me = s
    OBVIOUS
  <2>6. SameAwaits(t, me, s) /\ ProgressOK(t, me)'
    BY <1>1, <1>2, <2>1, <2>5 DEF SameAwaits, ProgressOK, HistoryInv, ProgressInv
  <2> QED
    BY <1>1, <2>1, <2>2, <2>4, <2>5, <2>6, QuietCall
<1>4. CASE ~(gstate[t.g] < Explored)
  <2>1. gstate' = [gstate EXCEPT ![t.g] = Implementing] /\ Move(s, "ImplementingChildren")
    BY <1>4 DEF EevtStartImplementation, Me, My
  <2>2. "ImplementingChildren" \in Est
    BY DEF Est
  <2>3. PICK me \in Jsm : jsm' = [jsm EXCEPT ![cur] = me] /\ todo' = <<>> /\ SameExcept(me, jsm[cur], {"est"})
    BY <1>1, <1>2, <2>1, <2>2, MovedOn
  <2>4. run' = "go"
    BY <2>1 DEF Move
  <2>5. me.last = jsm[cur].last
    BY <2>3 DEF SameExcept
  <2>6. t.g \in Group /\ gstate[t.g] >= Explored
    <3>1. t.g \in Group /\ gstate \in [Group -> Unexplored..Implemented]
      BY <1>1, <1>2, States DEF TaskOK
    <3>2. gstate[t.g] \in Int
      BY <3>1 DEF Unexplored, Implemented
    <3> QED
      BY <1>4, <3>1, <3>2 DEF Explored
  <2>7. \A a \in {Explored, Implemented} : Implementing >= a =>
           \A e \in Range(gexprs[t.g]) \cap Due(a) : estate[e] >= a
    <3>1. \A e \in Range(gexprs[t.g]) \cap Due(Explored) : estate[e] >= Explored
      BY <2>6 DEF HistoryInv, ClosedInv
    <3> QED
      BY <3>1 DEF Implementing, Implemented
  <2> HIDE DEF s
  <2> QED
    BY <1>1, <2>1, <2>3, <2>4, <2>5, <2>6, <2>7, GroupState
<1> QED
  BY <1>3, <1>4

(* A pass of FScheduleGroupExpressions: what the cursor passes is behind it, scheduled, or
   done already; a pass that schedules nothing has found all expressions done. *)
LEMMA GroupPass ==
    ASSUME SchedInv, SearchIInv, pc = "body",
           task[cur].ejt \in {"GroupExploration", "GroupImplementation"},
           NEW T, NEW new, new = Keep(After(gexprs[task[cur].g], jsm[cur].last), T \cap Logical)
    PROVE  /\ \A x \in Passed(gexprs[task[cur].g], Last(new)) : new # <<>> =>
                 \/ jsm[cur].last # None /\ x \in Passed(gexprs[task[cur].g], jsm[cur].last)
                 \/ x \in Range(new) \/ x \notin T
           /\ new = <<>> => \A x \in Range(gexprs[task[cur].g]) \cap Logical :
                 \/ jsm[cur].last # None /\ x \in Passed(gexprs[task[cur].g], jsm[cur].last)
                 \/ x \notin T
<1> DEFINE l == gexprs[task[cur].g]
           last == jsm[cur].last
           N == T \cap Logical
<1>1. NewFacts(l, last, N, GExpr, new)
  <2> HIDE DEF N
  <2>1. new = Keep(After(gexprs[task[cur].g], jsm[cur].last), N)
    BY DEF N
  <2> QED
    BY <2>1, GroupCalls
<1>2. \A k \in DOMAIN l : l[k] \in N => \/ l[k] \in Range(new)
                                        \/ last # None /\ \E m \in DOMAIN l : l[m] = last /\ k <= m
  BY <1>1 DEF NewFacts
<1> HIDE DEF l
<1>3. ASSUME NEW x \in Range(l), x \in Logical
      PROVE  \/ last # None /\ x \in Passed(l, last)
             \/ x \in Range(new) \/ x \notin T
  <2>1. PICK k \in DOMAIN l : l[k] = x
    BY <1>3 DEF Range
  <2> QED
    BY <1>2, <1>3, <2>1 DEF Passed
<1>4. \A y : Passed(l, y) \subseteq Range(l) \cap Logical
  BY DEF Passed, Range
<1>5. new = <<>> => Range(new) = {}
  BY DEF Range
<1> QED
  BY <1>3, <1>4, <1>5 DEF l

(* EevtExploreChildren and EevtImplementChildren of the jobs on groups. *)
LEMMA GroupPassHistory ==
    ASSUME SchedInv, SearchIInv, HistoryInv, SearchIInv',
           NEW ejt0, NEW st, NEW kind, NEW est, InState(ejt0, est),
           \/ ejt0 = "GroupExploration" /\ st = Explored /\ kind = "GroupExpressionExploration"
           \/ /\ ejt0 = "GroupImplementation" /\ st = Implemented /\ kind = "GroupExpressionImplementation"
              /\ est # "Initialized",
           NEW new, new = Keep(After(gexprs[task[cur].g], jsm[cur].last), {e \in Due(st) : estate[e] < st}),
           \/ /\ new # <<>> /\ gstate' = gstate
              /\ Stay([jsm[cur] EXCEPT !.last = Last(new)], [i \in DOMAIN new |-> GExprJob(kind, new[i])])
           \/ new = <<>> /\ gstate' = [gstate EXCEPT ![task[cur].g] = st] /\ Finish,
           UNCHANGED <<gexprs, estate, poc, best>>
    PROVE  HistoryInv'
<1> DEFINE t == task[cur]
           s == jsm[cur]
           T == {e \in GExpr : estate[e] < st /\ ~(st = Implemented /\ e \in Circular[stage])}
<1>1. UNCHANGED <<task, cur, stage>> /\ t.ejt = ejt0 /\ pc = "body" /\ run = "go" /\ s.est = est /\ todo = <<>>
  BY DEF InState, lifoVars, vars, loopVars, Me, My
<1>2. /\ cur \in Live /\ cur \in Job /\ t.g \in Group /\ s \in Jsm /\ CursorOK(t, s)
      /\ estate \in [GExpr -> Unexplored..Implemented] /\ gstate \in [Group -> Unexplored..Implemented]
  BY <1>1, AtBody, States DEF TaskOK
<1>3. new = Keep(After(gexprs[t.g], s.last), T \cap Logical)
  <2>1. T \cap Logical = {e \in Due(st) : estate[e] < st}
    BY SearchAssumption DEF Due, ContainsCircularDependencies
  <2> QED
    BY <2>1
<1> HIDE DEF T
<1>4. /\ \A x \in Passed(gexprs[t.g], Last(new)) : new # <<>> =>
            \/ s.last # None /\ x \in Passed(gexprs[t.g], s.last)
            \/ x \in Range(new) \/ x \notin T
      /\ new = <<>> => \A x \in Range(gexprs[t.g]) \cap Logical :
            \/ s.last # None /\ x \in Passed(gexprs[t.g], s.last)
            \/ x \notin T
  BY <1>1, <1>3, GroupPass
<1>5. \A x \in GExpr : x \notin T => Done(kind, x)
  <2>1. SUFFICES ASSUME NEW x \in GExpr, x \notin T PROVE Done(kind, x)
    OBVIOUS
  <2>2. estate[x] \in Int /\ st \in Int
    BY <1>2 DEF Unexplored, Explored, Implemented
  <2>3. estate[x] >= st \/ (st = Implemented /\ x \in Circular[stage])
    BY <2>1, <2>2 DEF T
  <2>4. CASE kind = "GroupExpressionExploration"
    <3>1. st = Explored /\ st # Implemented
      BY <2>4 DEF Explored, Implemented
    <3> QED
      BY <2>3, <2>4, <3>1 DEF Done
  <2>5. CASE kind = "GroupExpressionImplementation"
    <3>1. st = Implemented
      BY <2>5
    <3> QED
      BY <2>3, <2>5, <3>1 DEF Done
  <2> QED
    BY <2>4, <2>5
<1>6. gstate[t.g] >= Implementing \/ ejt0 = "GroupExploration"
  BY <1>1, <1>2 DEF HistoryInv, ProgressInv, ProgressOK
<1>7. \A x \in Range(gexprs[t.g]) \cap Logical : x \in GExpr
  BY SearchAssumption
<1>8. CASE new = <<>> /\ gstate' = [gstate EXCEPT ![t.g] = st] /\ Finish
  <2>1. \A x \in Range(gexprs[t.g]) \cap Due(st) : estate[x] >= st
    <3>1. SUFFICES ASSUME NEW x \in Range(gexprs[t.g]) \cap Due(st) PROVE estate[x] >= st
      OBVIOUS
    <3>0. x \in Logical /\ (st = Implemented => x \notin Circular[stage])
      BY <3>1 DEF Due, ContainsCircularDependencies
    <3>2. CASE s.last # None /\ x \in Passed(gexprs[t.g], s.last)
      <4>1. Awaits(t, s, kind, x) /\ kind \in Ejt /\ x \in Thing
        BY <1>1, <1>7, <3>0, <3>1, <3>2 DEF Awaits, Ejt, Thing
      <4>2. Done(kind, x)
        BY <4>1, AwaitedDone
      <4> QED
        BY <3>0, <4>2 DEF Done
    <3>3. CASE x \notin T
      BY <1>5, <1>7, <3>0, <3>1, <3>3 DEF Done
    <3> QED
      BY <1>4, <1>8, <3>0, <3>1, <3>2, <3>3
  <2>2. \A a \in {Explored, Implemented} : st >= a =>
           \A e \in Range(gexprs[t.g]) \cap Due(a) : estate[e] >= a
    <3>1. SUFFICES ASSUME NEW a \in {Explored, Implemented}, st >= a
                   PROVE  \A e \in Range(gexprs[t.g]) \cap Due(a) : estate[e] >= a
      OBVIOUS
    <3>2. CASE a = st
      BY <2>1, <3>2
    <3>3. CASE a # st
      <4>1. a = Explored /\ ejt0 = "GroupImplementation"
        BY <3>1, <3>3 DEF Explored, Implemented
      <4>2. gstate[t.g] \in Int
        BY <1>2 DEF Unexplored, Implemented
      <4>3. gstate[t.g] >= Explored
        BY <1>6, <4>1, <4>2 DEF Implementing, Explored
      <4> QED
        BY <1>2, <4>1, <4>3 DEF HistoryInv, ClosedInv
    <3> QED
      BY <3>2, <3>3
  <2>3. PICK me : me = s
    OBVIOUS
  <2>4. jsm' = [jsm EXCEPT ![cur] = me] /\ todo' = <<>> /\ run' = "final"
    BY <1>1, <1>2, <1>8, <2>3, SameState DEF Finish
  <2>5. \/ ejt0 = "GroupExploration" /\ st = IF run' = "final" THEN Explored ELSE Exploring
        \/ /\ ejt0 = "GroupImplementation" /\ gstate[t.g] >= Explored
           /\ st = IF run' = "final" THEN Implemented ELSE Implementing
    <3>1. gstate[t.g] \in Int
      BY <1>2 DEF Unexplored, Implemented
    <3> QED
      BY <1>6, <2>4, <3>1 DEF Implementing, Explored
  <2> HIDE DEF T
  <2> QED
    BY <1>8, <2>2, <2>3, <2>4, <2>5, GroupState, ZenonT(30)
<1>9. CASE /\ new # <<>> /\ gstate' = gstate
           /\ Stay([s EXCEPT !.last = Last(new)], [i \in DOMAIN new |-> GExprJob(kind, new[i])])
  <2>1. PICK me : me = [s EXCEPT !.last = Last(new)]
    OBVIOUS
  <2>2. jsm' = [jsm EXCEPT ![cur] = me] /\ run' = "stay" /\ todo' = [i \in DOMAIN new |-> GExprJob(kind, new[i])]
    BY <1>9, <2>1 DEF Stay
  <2>3. me.last = Last(new) /\ me.est = s.est
    BY <1>2, <2>1 DEF Jsm
  <2>4. /\ \A i \in DOMAIN todo' : todo'[i].ejt = kind /\ todo'[i].e = new[i] /\ i \in DOMAIN new
        /\ DOMAIN todo' = DOMAIN new
    BY <2>2 DEF GExprJob, NoTask
  <2>5. \A i \in DOMAIN new : GroupOf[new[i]] = t.g
    <3>1. \A e \in Range(new) : e \in Range(gexprs[t.g])
      <4>1. PICK N : N = T \cap Logical
        OBVIOUS
      <4> QED
        BY <1>1, <1>3, <4>1, GroupCalls
    <3>2. \A e \in Range(gexprs[t.g]) : GroupOf[e] = t.g
      BY <1>2 DEF SearchIInv, MemoInv
    <3> QED
      BY <3>1, <3>2 DEF Range
  <2>6. \A i \in DOMAIN todo' : Caller(t, todo'[i]) /\ ImplementsExplored(todo[i])'
    BY <1>1, <1>6, <1>9, <2>4, <2>5, SMTT(30) DEF Caller, ImplementsExplored
  <2>7. ProgressOK(t, me)'
    BY <1>1, <1>6, <1>9 DEF ProgressOK
  <2>8. ASSUME NEW ejt \in Ejt, NEW x \in Thing, Awaits(t, me, ejt, x)'
        PROVE  \/ Awaits(t, s, ejt, x) \/ Done(ejt, x)'
               \/ \E i \in DOMAIN todo' : IsJob(todo'[i], ejt, x)
    <3>1. ejt = kind /\ x \in Passed(gexprs[t.g], Last(new))
      BY <1>1, <2>3, <2>8 DEF Awaits
    <3>2. CASE s.last # None /\ x \in Passed(gexprs[t.g], s.last)
      BY <1>1, <3>1, <3>2 DEF Awaits
    <3>3. CASE x \in Range(new)
      <4>1. PICK i \in DOMAIN new : new[i] = x
        BY <3>3 DEF Range
      <4>2. i \in DOMAIN todo' /\ IsJob(todo'[i], ejt, x)
        BY <2>4, <3>1, <4>1 DEF IsJob
      <4> QED
        BY <4>2
    <3>4. CASE x \notin T
      <4>1. x \in GExpr
        BY <3>1, SearchAssumption DEF Passed
      <4>2. Done(kind, x)
        BY <1>5, <3>4, <4>1
      <4>3. Done(kind, x)'
        BY <1>1, <1>9, <4>2 DEF Done
      <4> QED
        BY <3>1, <4>3
    <3> QED
      BY <1>4, <1>9, <3>1, <3>2, <3>3, <3>4
  <2>9. run' # "final"
    BY <2>2
  <2> HIDE DEF s
  <2> QED
    BY <1>9, <2>2, <2>6, <2>7, <2>8, <2>9, QuietAction DEF s
<1> QED
  BY <1>8, <1>9

(* CJobGroupExploration::EevtExploreChildren. *)
LEMMA ExploreGroupHistory ==
    ASSUME SchedInv, SearchIInv, HistoryInv, EevtExploreGroup, SearchIInv'
    PROVE  HistoryInv'
<1> DEFINE N == Keep(After(gexprs[task[cur].g], jsm[cur].last), {e \in Logical : estate[e] < Explored})
<1>1. PICK new : new = N
  OBVIOUS
<1>2. InState("GroupExploration", "ExploringChildren") /\ UNCHANGED <<gexprs, estate, poc, best>>
  BY DEF EevtExploreGroup, planVars
<1>3. \/ /\ N # <<>> /\ gstate' = gstate
         /\ Stay([jsm[cur] EXCEPT !.last = Last(N)], [i \in DOMAIN N |-> GExprJob("GroupExpressionExploration", N[i])])
      \/ N = <<>> /\ gstate' = [gstate EXCEPT ![task[cur].g] = Explored] /\ Finish
  BY Zenon DEF EevtExploreGroup, Me, My
<1>4. \/ /\ new # <<>> /\ gstate' = gstate
         /\ Stay([jsm[cur] EXCEPT !.last = Last(new)], [i \in DOMAIN new |-> GExprJob("GroupExpressionExploration", new[i])])
      \/ new = <<>> /\ gstate' = [gstate EXCEPT ![task[cur].g] = Explored] /\ Finish
  BY <1>1, <1>3, Zenon
<1>5. new = Keep(After(gexprs[task[cur].g], jsm[cur].last), {e \in Due(Explored) : estate[e] < Explored})
  BY <1>1, DueFacts
<1> HIDE DEF N
<1> QED
  BY <1>2, <1>4, <1>5, GroupPassHistory

(* CJobGroupImplementation::EevtImplementChildren. *)
LEMMA ImplementGroupHistory ==
    ASSUME SchedInv, SearchIInv, HistoryInv, EevtImplementGroup, SearchIInv'
    PROVE  HistoryInv'
<1> DEFINE N == Keep(After(gexprs[task[cur].g], jsm[cur].last), {e \in Due(Implemented) : estate[e] < Implemented})
<1>1. PICK new : new = N
  OBVIOUS
<1>2. InState("GroupImplementation", "ImplementingChildren") /\ UNCHANGED <<gexprs, estate, poc, best>>
  BY DEF EevtImplementGroup, planVars
<1>3. \/ /\ N # <<>> /\ gstate' = gstate
         /\ Stay([jsm[cur] EXCEPT !.last = Last(N)], [i \in DOMAIN N |-> GExprJob("GroupExpressionImplementation", N[i])])
      \/ N = <<>> /\ gstate' = [gstate EXCEPT ![task[cur].g] = Implemented] /\ Finish
  BY Zenon DEF EevtImplementGroup, Me, My
<1>4. \/ /\ new # <<>> /\ gstate' = gstate
         /\ Stay([jsm[cur] EXCEPT !.last = Last(new)], [i \in DOMAIN new |-> GExprJob("GroupExpressionImplementation", new[i])])
      \/ new = <<>> /\ gstate' = [gstate EXCEPT ![task[cur].g] = Implemented] /\ Finish
  BY <1>1, <1>3, Zenon
<1>5. new = Keep(After(gexprs[task[cur].g], jsm[cur].last), {e \in Due(Implemented) : estate[e] < Implemented})
  BY <1>1
<1> HIDE DEF N
<1> QED
  BY <1>2, <1>4, <1>5, GroupPassHistory

(* CEngine::InsertXformResult: no logical expression comes into an explored group. *)
LEMMA InsertHistory ==
    ASSUME SchedInv, SearchIInv, HistoryInv, NEW ejt0, NEW est, InState(ejt0, est), SearchIInv',
           ejt0 \in {"Transformation", "GroupExpressionOptimization"},
           NEW me, jsm' = [jsm EXCEPT ![cur] = me], todo' = <<>>, UNCHANGED <<gstate, estate, poc, best>>,
           NEW o \in Group, NEW es \in Seq(GExpr), gexprs' = Insert(gexprs, o, es),
           gstate[o] < Explored \/ \A x \in Range(es) : GroupOf[x] = o => x \notin Logical,
           SameAwaits(task[cur], me, jsm[cur])
    PROVE  HistoryInv'
<1>1. UNCHANGED <<task, cur, stage>> /\ task[cur].ejt = ejt0
  BY DEF InState, lifoVars, vars, loopVars, Me
<1>2. /\ gexprs \in [Group -> Seq(GExpr)] /\ gstate \in [Group -> Unexplored..Implemented]
      /\ InsertFacts(gexprs, o, es, gexprs')
  BY States, InsertIs
<1>3. MemoGoesOn
  BY <1>2 DEF MemoGoesOn, InsertFacts
<1>4. OwnExpr
  BY DEF OwnExpr
<1>5. OwnGoal
  <2>1. \A ejt, x : Reached(ejt, x) => Done(ejt, x)'
    BY <1>1 DEF Reached, IsJob, Done
  <2> QED
    BY <2>1 DEF OwnGoal
<1>6. ClosedInv'
  <2>1. ASSUME NEW g \in Group, NEW s \in {Explored, Implemented}, gstate[g] >= s,
               NEW e \in Range(gexprs'[g]) \cap Due(s)
        PROVE  estate[e] >= s
    <3>1. CASE e \in Range(gexprs[g])
      BY <2>1, <3>1 DEF HistoryInv, ClosedInv
    <3>2. CASE e \notin Range(gexprs[g])
      <4>1. e \in Range(es) /\ GroupOf[e] = g
        BY <1>2, <3>2 DEF InsertFacts
      <4>2. gstate[g] \in Int /\ gstate[g] # Unexplored /\ ~(gstate[g] < Explored)
        <5>1. gstate[g] \in Int
          <6>1. gstate \in [Group -> Unexplored..Implemented]
            BY States
          <6> QED
            BY <6>1 DEF Unexplored, Implemented
        <5> QED
          BY <2>1, <5>1 DEF Unexplored, Explored, Implemented
      <4>3. g # o
        <5>1. e \in Logical
          BY <2>1 DEF Due
        <5> QED
          BY <4>1, <4>2, <5>1
      <4>4. gexprs[g] # <<>>
        BY <4>2 DEF HistoryInv, ClosedInv
      <4> QED
        BY <1>2, <2>1, <3>2, <4>3, <4>4 DEF InsertFacts
    <3> QED
      BY <3>1, <3>2
  <2>2. \A g \in Group : gexprs'[g] = <<>> => gstate[g] = Unexplored
    BY <1>2 DEF InsertFacts, HistoryInv, ClosedInv
  <2> QED
    BY <1>1, <2>1, <2>2, DueFacts DEF HistoryInv, ClosedInv
<1>7. \A ejt \in Ejt, x \in Thing : Awaits(task[cur], me, ejt, x)' => Awaits(task[cur], jsm[cur], ejt, x)
  BY <1>1 DEF Awaits, SameAwaits
<1>8. ProgressOK(task[cur], me)' /\ DOMAIN todo' = {}
  BY <1>1 DEF ProgressOK
<1> QED
  BY <1>3, <1>4, <1>5, <1>6, <1>7, <1>8, ActionHistory

(* CJobTransformation::EevtTransform: the job of the group of an expression that is
   transformed for exploration is not done. *)
LEMMA TransformHistory ==
    ASSUME SchedInv, SearchIInv, HistoryInv, EevtTransform, SearchIInv'
    PROVE  HistoryInv'
<1> USE DEF planVars
<1> DEFINE t == task[cur]
           s == jsm[cur]
<1>1. /\ InState("Transformation", "Initialized") /\ Finish
      /\ UNCHANGED <<gstate, estate, poc, best, task, cur>> /\ pc = "body" /\ run = "go"
      /\ t.ejt = "Transformation" /\ todo = <<>>
  BY DEF EevtTransform, Me, InState, lifoVars, vars, loopVars
<1>2. PICK es \in Xform[stage][t.g][t.e][t.n] : gexprs' = Insert(gexprs, GroupOf[t.e], es)
  BY DEF EevtTransform, Me
<1>3. s \in Jsm /\ TaskOK(t) /\ stage \in Stages /\ cur \in Job /\ cur \in Live
  BY <1>1, AtBody
<1>4. t.g \in Phase /\ t.e \in GExpr /\ t.n \in DOMAIN Xform[stage][t.g][t.e]
  BY <1>1, <1>3 DEF TaskOK, InMemoExpr
<1>5. es \in Seq(GExpr) /\ (t.g = "Implementation" => \A x \in Range(es) : GroupOf[x] = GroupOf[t.e] => x \notin Logical)
  <2>1. Xform[stage][t.g][t.e] \in Seq(SUBSET Seq(GExpr))
    BY <1>3, <1>4, ResultAssumption DEF Phase, Stages
  <2>2. Xform[stage][t.g][t.e][t.n] \in SUBSET Seq(GExpr)
    BY <2>1, <1>4
  <2>3. t.g = "Implementation" => \A x \in Range(es) : GroupOf[x] = GroupOf[t.e] => x \notin Logical
    BY <1>2, <1>3, <1>4, ResultAssumption DEF Phase, Stages
  <2> QED
    BY <2>2, <2>3, <1>2
<1>6. t.g = "Exploration" => gstate[GroupOf[t.e]] < Explored
  <2>1. SUFFICES ASSUME t.g = "Exploration" PROVE gstate[GroupOf[t.e]] < Explored
    OBVIOUS
  <2> DEFINE p == parent[cur]
             r == parent[p]
  <2>2. p # None
    BY <1>1, <1>3 DEF HistoryInv, CallInv
  <2>3. p \in Live /\ task[p].ejt = "GroupExpressionExploration" /\ task[p].e = t.e
    BY <1>1, <2>1, <2>2, StillOpen DEF Caller
  <2>4. r # None
    BY <2>3 DEF HistoryInv, CallInv
  <2>5. r \in Live /\ p \in Children(r)
    BY <2>3, <2>4, LiveParents DEF SchedInv, Children
  <2>6. task[r].ejt = "GroupExploration" /\ task[r].g = GroupOf[t.e]
    BY <2>3, <2>4 DEF HistoryInv, CallInv, Caller
  <2>7. /\ pjq[r] = <<"Exploration", GroupOf[t.e]>> /\ pjq[r] # None /\ GroupOf[t.e] \in Group
    <3>1. pjq[r] = QueueOf(task[r])
      BY <2>5 DEF SearchIInv, JobsInv
    <3>2. GroupOf[t.e] \in Group
      BY <1>4, SearchAssumption
    <3>3. None \notin Queue /\ \A g \in Group : <<"Exploration", g>> \in Queue
      BY SearchAssumption, JobAssumption
    <3> QED
      BY <2>6, <3>1, <3>2, <3>3 DEF QueueOf
  <2>8. ~fCompleted[pjq[r]]
    BY <2>5, <2>7 DEF HistoryInv, OwnerInv
  <2>9. ~Done("GroupExploration", GroupOf[t.e])
    <3>1. IsJob(task[r], "GroupExploration", GroupOf[t.e])
      BY <2>6 DEF IsJob
    <3> QED
      BY <1>1, <2>5, <2>7, <2>8, <3>1, NotDone
  <2>10. gstate[GroupOf[t.e]] \in Int
    <3>1. gstate \in [Group -> Unexplored..Implemented]
      BY States
    <3> QED
      BY <2>7, <3>1 DEF Unexplored, Implemented
  <2> QED
    BY <2>9, <2>10 DEF Done, Explored
<1>7. gstate[GroupOf[t.e]] < Explored \/ \A x \in Range(es) : GroupOf[x] = GroupOf[t.e] => x \notin Logical
  BY <1>4, <1>5, <1>6 DEF Phase
<1>8. PICK me : me = s
  OBVIOUS
<1>9. todo' = <<>> /\ run' = "final" /\ jsm' = [jsm EXCEPT ![cur] = me]
  BY <1>1, <1>3, <1>8, SameState DEF Finish
<1>10. SameAwaits(t, me, s) /\ GroupOf[t.e] \in Group
  BY <1>4, <1>8, SearchAssumption DEF SameAwaits
<1> QED
  BY <1>1, <1>2, <1>5, <1>7, <1>9, <1>10, InsertHistory

(* CJobGroupExpressionOptimization::EevtAddEnforcers. *)
LEMMA AddEnforcersHistory ==
    ASSUME SchedInv, SearchIInv, HistoryInv, EevtAddEnforcers, SearchIInv'
    PROVE  HistoryInv'
<1> USE DEF planVars
<1> DEFINE t == task[cur]
           s == jsm[cur]
           es == Enforcers[t.e][t.c]
<1>1. /\ InState("GroupExpressionOptimization", "ChildrenOptimized")
      /\ UNCHANGED <<gstate, estate, poc, best, task, cur>> /\ pc = "body" /\ todo = <<>>
      /\ t.ejt = "GroupExpressionOptimization"
  BY DEF EevtAddEnforcers, Me, InState, lifoVars, vars, loopVars
<1>2. s \in Jsm /\ TaskOK(t) /\ cur \in Job
  BY <1>1, AtBody
<1>3. \/ gexprs' = gexprs /\ Finish
      \/ gexprs' = Insert(gexprs, GroupOf[t.e], es) /\ (Move(s, "EnfdPropsChecked") \/ Finish)
  BY DEF EevtAddEnforcers, Me, My
<1>4. t.e \in GExpr /\ t.c \in Ctx /\ GroupOf[t.e] \in Group
  BY <1>1, <1>2, SearchAssumption DEF TaskOK, InMemoExpr
<1>5. PICK x : x = es
  OBVIOUS
<1>6. x \in Seq(GExpr) /\ \A y \in Range(x) : y \notin Logical
  <2>1. x \in Seq(GExpr \ Logical)
    BY <1>4, <1>5, ResultAssumption
  <2> QED
    BY <2>1 DEF Range
<1> HIDE DEF es
<1>7. "EnfdPropsChecked" \in Est
  BY DEF Est
<1>8. PICK me \in Jsm : /\ jsm' = [jsm EXCEPT ![cur] = me] /\ SameExcept(me, s, {"est"})
                        /\ todo' = <<>>
  <2> HIDE DEF s
  <2>1. Move(s, "EnfdPropsChecked") \/ (Finish /\ s = jsm[cur])
    BY <1>3 DEF s
  <2> QED
    BY <1>1, <1>2, <1>7, <2>1, MovedOn
<1>9. SameAwaits(t, me, s) /\ ProgressOK(t, me)'
  BY <1>1, <1>8 DEF SameAwaits, SameExcept, ProgressOK
<1>10. CASE gexprs' = gexprs
  BY <1>1, <1>8, <1>9, <1>10, QuietMove
<1>11. CASE gexprs' = Insert(gexprs, GroupOf[t.e], es)
  BY <1>1, <1>4, <1>5, <1>6, <1>8, <1>9, <1>11, InsertHistory
<1> QED
  BY <1>3, <1>10, <1>11

(* Every action of a job's state machine keeps the history. *)
LEMMA ActionsHistory ==
    ASSUME SchedInv, SearchIInv, HistoryInv, Action, SearchIInv'
    PROVE  HistoryInv'
<1>1. CASE EevtExploreSelf
  <2>1. InState("GroupExpressionExploration", "ChildrenExplored") /\ ScheduleXforms("Exploration", "SelfExplored")
    BY <1>1 DEF EevtExploreSelf
  <2>2. "SelfExplored" \in Est /\ "Exploration" \in Phase
    BY DEF Est, Phase
  <2> QED
    BY <2>1, <2>2, XformsHistory
<1>2. CASE EevtImplementSelf
  <2>1. InState("GroupExpressionImplementation", "ChildrenImplemented") /\ ScheduleXforms("Implementation", "SelfImplemented")
    BY <1>2 DEF EevtImplementSelf
  <2>2. "SelfImplemented" \in Est /\ "Implementation" \in Phase
    BY DEF Est, Phase
  <2> QED
    BY <2>1, <2>2, XformsHistory
<1> QED
  BY <1>1, <1>2, StartExplorationHistory, ExploreGroupHistory, ExprChildrenHistory, FinalizeExprHistory,
     TransformHistory, StartImplementationHistory, ImplementGroupHistory, StartOptimizationHistory,
     OptimizeGroupHistory, CompleteOptimizationHistory, InitializeHistory, OptimizeChildrenHistory,
     AddEnforcersHistory, OptimizeSelfHistory DEF Action

(* The history when CEngine::Optimize starts. *)
LEMMA SearchInitHistory == SearchInit => HistoryInv
<1> SUFFICES ASSUME SearchInit PROVE HistoryInv
  OBVIOUS
<1>1. /\ pc = "idle" /\ Live = {} /\ todo = <<>> /\ stage = 0
      /\ fCompleted = [q \in Queue |-> FALSE]
      /\ gstate = [g \in Group |-> Unexplored] /\ estate = [e \in GExpr |-> Unexplored]
      /\ poc = [s \in Stages |-> [c \in Ctx |-> Unoptimized]]
      /\ best = [s \in Stages |-> [c \in Ctx |-> NoPlan]]
  BY DEF SearchInit, LifoInit, Init, Live
<1>2. AwaitInv /\ CallInv /\ OwnerInv /\ ProgressInv
  BY <1>1 DEF AwaitInv, CallInv, OwnerInv, ProgressInv
<1>3. DoneInv
  <2>1. \A q \in Queue : ~fCompleted[q]
    BY <1>1
  <2>2. /\ \A g \in Group : <<"Exploration", g>> \in Queue /\ <<"Implementation", g>> \in Queue
        /\ \A c \in Ctx : <<"Optimization", c>> \in Queue
    BY SearchAssumption
  <2>3. \A ejt, x : ~Final(ejt, x)
    BY <1>1 DEF Final
  <2>4. \A g \in Group : ~(gstate[g] >= Explored) /\ ~(gstate[g] >= Implemented)
    BY <1>1 DEF Unexplored, Explored, Implemented
  <2>5. stage < MaxStages => \A c \in Ctx : poc[stage][c] # Optimized
    <3>1. stage < MaxStages => stage \in Stages
      BY <1>1, JobAssumption DEF Stages
    <3> QED
      BY <1>1, <3>1 DEF Unoptimized, Optimized
  <2> QED
    BY <1>1, <2>1, <2>2, <2>3, <2>4, <2>5 DEF DoneInv
<1>4. ClosedInv
  BY <1>1 DEF ClosedInv, Unexplored, Explored, Implemented
<1>5. FutureInv
  BY <1>1 DEF FutureInv
<1> QED
  BY <1>2, <1>3, <1>4, <1>5 DEF HistoryInv

(* Every step of the search keeps the history. *)
LEMMA HistoryStep ==
    ASSUME SchedInv, SearchIInv, HistoryInv, [SearchNext]_allVars
    PROVE  HistoryInv'
<1>0. SearchIInv'
  BY SearchStep
<1>1. CASE OptimizeStage
  BY <1>1, OptimizeHistory
<1>2. CASE FinalizeStage
  BY <1>2, FinalizeHistory
<1>3. CASE TimeOut
  BY <1>3, TimeOutHistory
<1>4. CASE LoopStep /\ UNCHANGED searchVars
  BY <1>4, LoopHistory
<1>5. CASE Action
  BY <1>0, <1>5, ActionsHistory
<1>6. CASE AddJob
  BY <1>6, AddedJob, AddHistory
<1>7. CASE Suspend \/ Complete
  BY <1>7, EndsHistory
<1>8. CASE UNCHANGED allVars
  BY <1>8, StutterHistory
<1> QED
  BY <1>1, <1>2, <1>3, <1>4, <1>5, <1>6, <1>7, <1>8 DEF SearchNext

(* The history holds throughout the search. *)
LEMMA HistoryHolds == SearchSpec => []HistoryInv
<1>1. SearchInit => HistoryInv
  BY SearchInitHistory
<1>2. SchedInv /\ SearchIInv /\ HistoryInv /\ [SearchNext]_allVars => HistoryInv'
  BY HistoryStep
<1> QED
  BY <1>1, <1>2, SearchInvariant, PTL DEF SearchSpec

(* A group is explored, or implemented, only when all its logical expressions and, under
   them, all child groups are, but for expressions with circular dependencies, which need
   not be implemented: a job marks its group when a pass over the list schedules nothing,
   and the jobs it has scheduled before have reached their goals by then. *)
THEOREM ExplorationIsClosed == SearchSpec => []ExploredClosed
<1>1. SearchIInv /\ HistoryInv => ExploredClosed
  <2>1. SUFFICES ASSUME SearchIInv, HistoryInv, NEW g \in Group, NEW st \in {Explored, Implemented},
                        gstate[g] >= st, NEW e \in Range(gexprs[g]) \cap Due(st)
                 PROVE  /\ estate[e] >= st
                        /\ \A i \in DOMAIN Kids[e] : gstate[Kids[e][i]] >= st
    BY DEF ExploredClosed
  <2>2. estate[e] >= st
    BY <2>1 DEF HistoryInv, ClosedInv
  <2>3. e \in GExpr
    BY SearchAssumption, DueFacts
  <2>4. \A k \in Range(Kids[e]) : gstate[k] >= st
    BY <2>2, <2>3, <2>1 DEF HistoryInv, ClosedInv
  <2> QED
    BY <2>2, <2>4 DEF Range
<1> QED
  BY <1>1, SearchInvariant, HistoryHolds, PTL

(* CGroup::PocLookupBest, for all contexts. *)
LEMMA LookupAll ==
    best \in [Stages -> [Ctx -> Plan]] => \A c \in Ctx : LookupFacts(c)
BY LookupIs

(* The same after a step. *)
LEMMA LookupNext ==
    (best \in [Stages -> [Ctx -> Plan]] => \A c \in Ctx : LookupFacts(c))'
BY LookupAll, PTL

(* The plans of context c do not get worse. *)
Improves(c) ==
    \A s \in Stages : best[s][c] # NoPlan => best'[s][c] # NoPlan /\ best'[s][c].cost <= best[s][c].cost

(* Then neither does the best one. *)
LEMMA LookupImproves ==
    ASSUME best \in [Stages -> [Ctx -> Plan]], best' \in [Stages -> [Ctx -> Plan]], NEW c \in Ctx,
           Improves(c), PocLookupBest(c) # NoPlan
    PROVE  /\ PocLookupBest(c)' # NoPlan
           /\ PocLookupBest(c).cost \in Nat /\ (PocLookupBest(c).cost)' \in Nat
           /\ (PocLookupBest(c).cost)' <= PocLookupBest(c).cost
           /\ (\A s \in Stages : best'[s][c] = best[s][c]) =>
                 (PocLookupBest(c).cost)' = PocLookupBest(c).cost
<1>1. LookupFacts(c) /\ LookupFacts(c)'
  BY LookupIs, LookupNext
<1>2. PICK p, q : p = PocLookupBest(c) /\ q = PocLookupBest(c)'
  OBVIOUS
<1>3. /\ p \in Plan /\ q \in Plan /\ p # NoPlan
      /\ \A s \in Stages : best[s][c] # NoPlan => p.cost <= best[s][c].cost
      /\ \A s \in Stages : best'[s][c] # NoPlan => q.cost <= best'[s][c].cost
      /\ \E s \in Stages : p = best[s][c]
      /\ q # NoPlan => \E s \in Stages : q = best'[s][c]
      /\ q = NoPlan => \A s \in Stages : best'[s][c] = NoPlan
  BY <1>1, <1>2 DEF LookupFacts
<1>4. p.cost \in Nat /\ q.cost \in Nat
  BY <1>3, TaskTypes
<1>5. \A s \in Stages : best[s][c].cost \in Nat /\ best'[s][c].cost \in Nat
  BY TaskTypes
<1>6. q # NoPlan /\ q.cost <= p.cost
  BY <1>3, <1>4, <1>5 DEF Improves
<1>7. (\A s \in Stages : best'[s][c] = best[s][c]) => q.cost = p.cost
  <2>1. SUFFICES ASSUME \A s \in Stages : best'[s][c] = best[s][c] PROVE q.cost = p.cost
    OBVIOUS
  <2>2. PICK s \in Stages : q = best'[s][c]
    BY <1>3, <1>6
  <2>3. p.cost <= q.cost
    BY <1>3, <1>6, <2>1, <2>2
  <2>4. q.cost <= p.cost
    BY <1>6
  <2>5. \A m, n \in Nat : m <= n /\ n <= m => n = m
    OBVIOUS
  <2> QED
    BY <1>4, <2>3, <2>4, <2>5
<1> QED
  BY <1>2, <1>4, <1>6, <1>7

(* The cost of a plan over contexts whose plans do not get worse. *)
LEMMA CostsCompare ==
    ASSUME best \in [Stages -> [Ctx -> Plan]], best' \in [Stages -> [Ctx -> Plan]],
           NEW e \in GExpr, NEW s \in Seq(Ctx),
           \A i \in DOMAIN s : Improves(s[i]) /\ PocLookupBest(s[i]) # NoPlan
    PROVE  /\ PlanCost(e, s) \in Nat /\ PlanCost(e, s)' \in Nat
           /\ PlanCost(e, s)' <= PlanCost(e, s)
           /\ (\A i \in DOMAIN s, k \in Stages : best'[k][s[i]] = best[k][s[i]]) =>
                 PlanCost(e, s)' = PlanCost(e, s)
<1>1. PICK u, v : /\ u = [i \in DOMAIN s |-> PocLookupBest(s[i]).cost]
                  /\ v = [i \in DOMAIN s |-> (PocLookupBest(s[i]).cost)']
  OBVIOUS
<1>2. PlanCost(e, s) = LocalCost[e] + Total(u) /\ PlanCost(e, s)' = LocalCost[e] + Total(v)
  BY <1>1 DEF PlanCost
<1>3. \A i \in DOMAIN s : u[i] \in Nat /\ v[i] \in Nat /\ v[i] <= u[i]
  BY <1>1, LookupImproves
<1>4. (\A i \in DOMAIN s, k \in Stages : best'[k][s[i]] = best[k][s[i]]) =>
         \A i \in DOMAIN s : u[i] = v[i]
  BY <1>1, LookupImproves
<1>5. u = [i \in DOMAIN s |-> u[i]] /\ v = [i \in DOMAIN s |-> v[i]]
  BY <1>1
<1>6. u \in Seq(Nat) /\ v \in Seq(Nat) /\ DOMAIN u = DOMAIN s /\ DOMAIN v = DOMAIN s
  BY <1>3, <1>5, MapIs
<1>7. Total(u) \in Nat /\ Total(v) \in Nat /\ Total(v) <= Total(u) /\ LocalCost[e] \in Nat
  BY <1>3, <1>6, TotalIs, SearchAssumption
<1>8. (\A i \in DOMAIN s : u[i] = v[i]) => u = v
  BY <1>5
<1> QED
  BY <1>2, <1>4, <1>7, <1>8

(* Plans and their costs. *)
CostInv == CostsCurrent /\ PlannedInv

(* The jobs that are about to be costed keep contexts with plans. *)
CostedJobs ==
    \A j \in Live' : task'[j].ejt = "GroupExpressionOptimization" /\ jsm'[j].est = "EnfdPropsChecked" =>
        \/ /\ j \in Live /\ task[j].ejt = "GroupExpressionOptimization" /\ jsm[j].est = "EnfdPropsChecked"
           /\ jsm'[j].ctxs = jsm[j].ctxs
        \/ \A i \in DOMAIN jsm'[j].ctxs : PocLookupBest(jsm'[j].ctxs[i]) # NoPlan

(* A plan of stage s over finished children. *)
PlanOK(p, s) ==
    /\ p.e \in GExpr /\ p.ctxs \in Seq(Ctx) /\ p.cost \in Nat
    /\ \A i \in DOMAIN p.ctxs : poc[s][p.ctxs[i]] = Optimized /\ PocLookupBest(p.ctxs[i]) # NoPlan
    /\ p.cost >= PlanCost(p.e, p.ctxs)
    /\ s = stage => p.cost = PlanCost(p.e, p.ctxs)

(* All plans are. *)
LEMMA PlansOK ==
    ASSUME SearchIInv, CostInv, NEW s \in Stages, NEW c \in Ctx, NEW p, p = best[s][c], p # NoPlan
    PROVE  PlanOK(p, s)
<1>1. best \in [Stages -> [Ctx -> Plan]]
  BY States
<1>2. p \in Plan /\ p.e \in GExpr
  BY <1>1 DEF SearchIInv, PlanInv
<1>3. p.ctxs \in Seq(Ctx) /\ p.cost \in Nat
  BY <1>2, TaskTypes
<1>4. /\ \A i \in DOMAIN p.ctxs : PocLookupBest(p.ctxs[i]) # NoPlan
      /\ \A i \in DOMAIN p.ctxs : poc[s][p.ctxs[i]] = Optimized
      /\ p.cost >= PlanCost(p.e, p.ctxs)
      /\ s = stage => p.cost = PlanCost(p.e, p.ctxs)
  BY DEF CostInv, PlannedInv, CostsCurrent
<1> QED
  BY <1>2, <1>3, <1>4 DEF PlanOK

(* A plan stays what it is while the plans below it do not get worse. *)
LEMMA PlanStaysOK ==
    ASSUME best \in [Stages -> [Ctx -> Plan]], best' \in [Stages -> [Ctx -> Plan]],
           NEW p, NEW s \in Stages, PlanOK(p, s), \A c \in Ctx : Improves(c),
           \A c \in Ctx : poc[s][c] = Optimized => poc'[s][c] = Optimized,
           s = stage' => s = stage
               /\ \A i \in DOMAIN p.ctxs, k \in Stages : best'[k][p.ctxs[i]] = best[k][p.ctxs[i]]
    PROVE  PlanOK(p, s)'
<1>1. /\ p.e \in GExpr /\ p.ctxs \in Seq(Ctx) /\ p.cost \in Nat
      /\ \A i \in DOMAIN p.ctxs : poc[s][p.ctxs[i]] = Optimized /\ PocLookupBest(p.ctxs[i]) # NoPlan
      /\ p.cost >= PlanCost(p.e, p.ctxs)
      /\ s = stage => p.cost = PlanCost(p.e, p.ctxs)
  BY DEF PlanOK
<1>2. \A i \in DOMAIN p.ctxs : p.ctxs[i] \in Ctx
  BY <1>1
<1>3. \A i \in DOMAIN p.ctxs : poc'[s][p.ctxs[i]] = Optimized /\ PocLookupBest(p.ctxs[i])' # NoPlan
  BY <1>1, <1>2, LookupImproves
<1>4. /\ PlanCost(p.e, p.ctxs) \in Nat /\ PlanCost(p.e, p.ctxs)' \in Nat
      /\ PlanCost(p.e, p.ctxs)' <= PlanCost(p.e, p.ctxs)
      /\ (\A i \in DOMAIN p.ctxs, k \in Stages : best'[k][p.ctxs[i]] = best[k][p.ctxs[i]]) =>
            PlanCost(p.e, p.ctxs)' = PlanCost(p.e, p.ctxs)
  BY <1>1, <1>2, CostsCompare
<1>5. PICK m, n : m = PlanCost(p.e, p.ctxs) /\ n = PlanCost(p.e, p.ctxs)'
  OBVIOUS
<1>6. p.cost >= n /\ (s = stage' => p.cost = n)
  <2>1. m \in Nat /\ n \in Nat /\ n <= m /\ p.cost \in Nat /\ p.cost >= m
    BY <1>1, <1>4, <1>5
  <2>2. \A k \in Nat : k >= m => k >= n
    BY <2>1
  <2>3. s = stage' => n = m /\ p.cost = m
    BY <1>1, <1>4, <1>5
  <2> QED
    BY <2>1, <2>2, <2>3
<1> QED
  BY <1>1, <1>3, <1>5, <1>6 DEF PlanOK

(* When all plans are in order after a step and none has got worse. *)
LEMMA CostsKept ==
    ASSUME SearchIInv, SearchIInv', CostInv, CostedJobs, \A c \in Ctx : Improves(c),
           \A s \in Stages, c \in Ctx : \A p : p = best'[s][c] /\ p # NoPlan => PlanOK(p, s)'
    PROVE  CostInv'
<1>1. best \in [Stages -> [Ctx -> Plan]] /\ best' \in [Stages -> [Ctx -> Plan]]
  BY States DEF SearchIInv, TypeInv
<1>4. CostsCurrent'
  <2>1. SUFFICES ASSUME NEW s \in Stages, NEW c \in Ctx, best'[s][c] # NoPlan
                 PROVE  /\ \A i \in DOMAIN best'[s][c].ctxs : poc'[s][best'[s][c].ctxs[i]] = Optimized
                        /\ best'[s][c].cost >= PlanCost(best[s][c].e, best[s][c].ctxs)'
                        /\ s = stage' => best'[s][c].cost = PlanCost(best[s][c].e, best[s][c].ctxs)'
    BY DEF CostsCurrent
  <2>2. PICK p : p = best'[s][c]
    OBVIOUS
  <2>3. PlanOK(p, s)'
    BY <2>1, <2>2
  <2>4. PlanCost(best[s][c].e, best[s][c].ctxs)' = PlanCost(p.e, p.ctxs)'
    <3>1. \A k, l : k = best'[s][c].e /\ l = best'[s][c].ctxs =>
             PlanCost(best[s][c].e, best[s][c].ctxs)' = PlanCost(k, l)'
      BY DEF PlanCost
    <3> QED
      BY <2>2, <3>1
  <2> QED
    BY <2>2, <2>3, <2>4 DEF PlanOK
<1>5. PlannedInv'
  <2>1. ASSUME NEW s \in Stages, NEW c \in Ctx, best'[s][c] # NoPlan,
               NEW i \in DOMAIN best'[s][c].ctxs
        PROVE  PocLookupBest(best[s][c].ctxs[i])' # NoPlan
    <3>1. PICK p, d : p = best'[s][c] /\ d = p.ctxs[i]
      OBVIOUS
    <3>2. PocLookupBest(d)' # NoPlan
      BY <2>1, <3>1 DEF PlanOK
    <3>3. \A k : k = best'[s][c].ctxs[i] => PocLookupBest(best[s][c].ctxs[i])' = PocLookupBest(k)'
      OBVIOUS
    <3> QED
      BY <3>1, <3>2, <3>3
  <2>2. ASSUME NEW j \in Live', task'[j].ejt = "GroupExpressionOptimization", jsm'[j].est = "EnfdPropsChecked",
               NEW i \in DOMAIN jsm'[j].ctxs
        PROVE  PocLookupBest(jsm[j].ctxs[i])' # NoPlan
    <3>1. PICK d : d = jsm'[j].ctxs[i]
      OBVIOUS
    <3>2. PocLookupBest(d) # NoPlan
      BY <2>2, <3>1 DEF CostedJobs, CostInv, PlannedInv
    <3>3. d \in Ctx
      <4>1. jsm'[j] \in Jsm
        BY <2>2 DEF SearchIInv, TypeInv, Live
      <4>2. jsm'[j].ctxs \in Seq(Ctx)
        BY <4>1, TaskTypes
      <4> QED
        BY <2>2, <3>1, <4>2
    <3>4. PocLookupBest(d)' # NoPlan
      BY <1>1, <3>2, <3>3, LookupImproves
    <3>5. \A k : k = jsm'[j].ctxs[i] => PocLookupBest(jsm[j].ctxs[i])' = PocLookupBest(k)'
      OBVIOUS
    <3> QED
      BY <3>1, <3>4, <3>5
  <2> QED
    BY <2>1, <2>2 DEF PlannedInv
<1> QED
  BY <1>4, <1>5 DEF CostInv

(* A step that leaves the plans alone. *)
LEMMA PlansStay ==
    ASSUME SearchIInv, SearchIInv', FutureInv, CostInv, best' = best, CostedJobs,
           \A s \in Stages, c \in Ctx : poc[s][c] = Optimized => poc'[s][c] = Optimized,
           stage' = stage \/ stage' = stage + 1
    PROVE  CostInv'
<1>1. best \in [Stages -> [Ctx -> Plan]] /\ best' \in [Stages -> [Ctx -> Plan]] /\ stage \in Nat
  BY States DEF SearchIInv, ControlInv
<1>2. \A c \in Ctx : Improves(c)
  BY <1>1, TaskTypes DEF Improves
<1>3. ASSUME NEW s \in Stages, NEW c \in Ctx, NEW p, p = best'[s][c], p # NoPlan
      PROVE  PlanOK(p, s)'
  <2>1. PlanOK(p, s)
    BY <1>3, PlansOK
  <2>2. s = stage' => s = stage
    <3>1. s = stage + 1 => s > stage
      BY <1>1
    <3>2. ~(s > stage)
      BY <1>3 DEF FutureInv
    <3> QED
      BY <3>1, <3>2
  <2> QED
    BY <1>1, <1>2, <2>1, <2>2, PlanStaysOK
<1> QED
  BY <1>2, <1>3, CostsKept

(* The context that an expression is optimized for is not optimized yet: the job of the
   context waits for the job of the expression, or for the CTE sequence it belongs to. *)
LEMMA ContextOpen ==
    ASSUME SchedInv, SearchIInv, HistoryInv, pc = "body", run = "go",
           task[cur].ejt = "GroupExpressionOptimization"
    PROVE  poc[stage][task[cur].c] # Optimized
<1> DEFINE t == task[cur]
           p == parent[cur]
           r == parent[p]
<1>1. cur \in Live /\ TaskOK(t) /\ t.c \in Ctx
  <2>1. cur \in Live /\ TaskOK(t)
    BY AtBody
  <2> QED
    BY <2>1 DEF TaskOK
<1>2. p # None
  BY <1>1 DEF HistoryInv, CallInv
<1>3. p \in Live /\ cur \in Children(p) /\ task[p].c = t.c
      /\ IF t.cte = None THEN task[p].ejt = "GroupOptimization"
         ELSE task[p].ejt = "GroupExpressionOptimization" /\ task[p].cte = None
  BY <1>2, StillOpen DEF Caller
<1>4. PICK o \in Live : task[o].ejt = "GroupOptimization" /\ task[o].c = t.c /\ Children(o) # {}
  <2>1. CASE t.cte = None
    BY <1>3, <2>1
  <2>2. CASE t.cte # None
    <3>1. r # None
      BY <1>3, <2>2 DEF HistoryInv, CallInv
    <3>2. r \in Live /\ p \in Children(r)
      BY <1>3, <3>1, LiveParents DEF SchedInv, Children
    <3>3. task[r].ejt = "GroupOptimization" /\ task[r].c = t.c
      BY <1>3, <2>2, <3>1 DEF HistoryInv, CallInv, Caller
    <3> QED
      BY <3>2, <3>3
  <2> QED
    BY <2>1, <2>2
<1>5. pjq[o] # None
  <2>1. pjq[o] = <<"Optimization", t.c>>
    BY <1>4 DEF SearchIInv, JobsInv, QueueOf
  <2>2. None \notin Queue /\ <<"Optimization", t.c>> \in Queue
    BY <1>1, SearchAssumption, JobAssumption
  <2> QED
    BY <2>1, <2>2
<1>6. ~fCompleted[pjq[o]]
  BY <1>4, <1>5 DEF HistoryInv, OwnerInv
<1>7. IsJob(task[o], "GroupOptimization", t.c)
  BY <1>4 DEF IsJob
<1>8. ~Done("GroupOptimization", t.c)
  BY <1>5, <1>6, <1>7, NotDone
<1> QED
  BY <1>8 DEF Done

(* The actions of the other jobs leave the plans alone. *)
LEMMA OtherActions ==
    ASSUME SchedInv, SearchIInv, HistoryInv, Action,
           ~(EevtInitialize \/ EevtOptimizeChildren \/ EevtAddEnforcers \/ EevtOptimizeSelf \/ EevtFinalize)
    PROVE  /\ best' = best /\ task[cur].ejt # "GroupExpressionOptimization"
           /\ \A j \in Job : j # cur => jsm'[j] = jsm[j]
           /\ poc' = poc \/ EevtStartOptimization \/ EevtCompleteOptimization
<1> USE DEF planVars, memoVars
<1>0. jsm \in [Job -> Jsm] /\ \A ejt, est : InState(ejt, est) => task[cur].ejt = ejt
  BY DEF SearchIInv, TypeInv, InState, Me
<1>1. \A m, k, est : Stay(m, k) \/ Move(m, est) \/ Finish => \A j \in Job : j # cur => jsm'[j] = jsm[j]
  BY <1>0 DEF Stay, Move, Finish
<1>2. CASE EevtStartExploration
  BY <1>0, <1>1, <1>2 DEF EevtStartExploration
<1>3. CASE EevtExploreGroup
  <2>1. best' = best /\ poc' = poc /\ task[cur].ejt = "GroupExploration"
    BY <1>0, <1>3 DEF EevtExploreGroup
  <2>2. \E m, k : Stay(m, k) \/ Finish
    BY <1>3, Zenon DEF EevtExploreGroup
  <2> QED
    BY <1>1, <2>1, <2>2
<1>4. CASE EevtExploreChildren
  <2>1. best' = best /\ poc' = poc /\ task[cur].ejt = "GroupExpressionExploration"
    BY <1>0, <1>4 DEF EevtExploreChildren
  <2>2. \E m, k, est : Stay(m, k) \/ Move(m, est)
    BY <1>4, Zenon DEF EevtExploreChildren
  <2> QED
    BY <1>1, <2>1, <2>2
<1>5. CASE EevtExploreSelf
  <2>1. best' = best /\ poc' = poc /\ task[cur].ejt = "GroupExpressionExploration"
    BY <1>0, <1>5 DEF EevtExploreSelf, ScheduleXforms
  <2>2. \E m, k, est : Stay(m, k) \/ Move(m, est)
    BY <1>5, Zenon DEF EevtExploreSelf, ScheduleXforms
  <2> QED
    BY <1>1, <2>1, <2>2
<1>6. CASE EevtFinalizeExploration \/ EevtTransform \/ EevtFinalizeImplementation
  BY <1>0, <1>1, <1>6 DEF EevtFinalizeExploration, EevtTransform, EevtFinalizeImplementation
<1>7. CASE EevtStartImplementation
  <2>1. best' = best /\ poc' = poc /\ task[cur].ejt = "GroupImplementation"
    BY <1>0, <1>7 DEF EevtStartImplementation
  <2>2. \E m, k, est : Stay(m, k) \/ Move(m, est)
    BY <1>7, Zenon DEF EevtStartImplementation
  <2> QED
    BY <1>1, <2>1, <2>2
<1>8. CASE EevtImplementGroup
  <2>1. best' = best /\ poc' = poc /\ task[cur].ejt = "GroupImplementation"
    BY <1>0, <1>8 DEF EevtImplementGroup
  <2>2. \E m, k : Stay(m, k) \/ Finish
    BY <1>8, Zenon DEF EevtImplementGroup
  <2> QED
    BY <1>1, <2>1, <2>2
<1>9. CASE EevtImplementChildren
  <2>1. best' = best /\ poc' = poc /\ task[cur].ejt = "GroupExpressionImplementation"
    BY <1>0, <1>9 DEF EevtImplementChildren
  <2>2. \E m, k, est : Stay(m, k) \/ Move(m, est)
    BY <1>9, Zenon DEF EevtImplementChildren
  <2> QED
    BY <1>1, <2>1, <2>2
<1>10. CASE EevtImplementSelf
  <2>1. best' = best /\ poc' = poc /\ task[cur].ejt = "GroupExpressionImplementation"
    BY <1>0, <1>10 DEF EevtImplementSelf, ScheduleXforms
  <2>2. \E m, k, est : Stay(m, k) \/ Move(m, est)
    BY <1>10, Zenon DEF EevtImplementSelf, ScheduleXforms
  <2> QED
    BY <1>1, <2>1, <2>2
<1>11. CASE EevtStartOptimization
  <2>1. best' = best /\ task[cur].ejt = "GroupOptimization"
    BY <1>0, <1>11 DEF EevtStartOptimization
  <2>2. \E m, k, est : Stay(m, k) \/ Move(m, est)
    BY <1>11, Zenon DEF EevtStartOptimization
  <2> QED
    BY <1>1, <1>11, <2>1, <2>2
<1>12. CASE EevtOptimizeGroup
  <2>1. best' = best /\ poc' = poc /\ task[cur].ejt = "GroupOptimization"
    BY <1>0, <1>12 DEF EevtOptimizeGroup
  <2>2. \E m, k, est : Stay(m, k) \/ Move(m, est)
    BY <1>12, Zenon DEF EevtOptimizeGroup
  <2> QED
    BY <1>1, <2>1, <2>2
<1>13. CASE EevtCompleteOptimization
  <2>1. best' = best /\ task[cur].ejt = "GroupOptimization"
    BY <1>0, <1>13 DEF EevtCompleteOptimization
  <2>2. \E m, est : Move(m, est) \/ Finish
    BY <1>13, Zenon DEF EevtCompleteOptimization
  <2> QED
    BY <1>1, <1>13, <2>1, <2>2
<1> QED
  BY <1>2, <1>3, <1>4, <1>5, <1>6, <1>7, <1>8, <1>9, <1>10, <1>11, <1>12, <1>13 DEF Action

(* An action that changes the bookkeeping of its own job only. *)
LEMMA JobCosted ==
    ASSUME SchedInv, SearchIInv, NEW ejt, NEW est, InState(ejt, est),
           \A j \in Job : j # cur => jsm'[j] = jsm[j],
           ejt = "GroupExpressionOptimization" /\ jsm'[cur].est = "EnfdPropsChecked" =>
               \A i \in DOMAIN jsm'[cur].ctxs : PocLookupBest(jsm'[cur].ctxs[i]) # NoPlan
    PROVE  CostedJobs /\ stage' = stage
<1>1. UNCHANGED <<task, cur, ejs, stage>> /\ task[cur].ejt = ejt
  BY DEF InState, lifoVars, vars, loopVars, jobVars, Me
<1>2. Live' = Live /\ Live \subseteq Job
  BY <1>1 DEF Live
<1> QED
  BY <1>1, <1>2 DEF CostedJobs

(* The jobs of groups and of logical expressions. *)
LEMMA OtherCosts ==
    ASSUME SchedInv, SearchIInv, HistoryInv, CostInv, SearchIInv', Action,
           ~(EevtInitialize \/ EevtOptimizeChildren \/ EevtAddEnforcers \/ EevtOptimizeSelf \/ EevtFinalize)
    PROVE  CostInv'
<1>1. /\ best' = best /\ task[cur].ejt # "GroupExpressionOptimization"
      /\ \A j \in Job : j # cur => jsm'[j] = jsm[j]
      /\ poc' = poc \/ EevtStartOptimization \/ EevtCompleteOptimization
  BY OtherActions
<1>2. PICK ejt, est : InState(ejt, est)
  BY ActionState
<1>3. task[cur].ejt = ejt /\ pc = "body" /\ run = "go"
  BY <1>2 DEF InState, Me
<1>4. CostedJobs /\ stage' = stage
  BY <1>1, <1>2, <1>3, JobCosted
<1>5. \A s \in Stages, c \in Ctx : poc[s][c] = Optimized => poc'[s][c] = Optimized
  <2>1. poc \in [Stages -> [Ctx -> Unoptimized..Optimized]]
    BY States
  <2>2. CASE EevtCompleteOptimization
    <3>1. poc' = poc \/ poc' = [poc EXCEPT ![stage][task[cur].c] = Optimized]
      BY <2>2 DEF EevtCompleteOptimization, Me
    <3> QED
      BY <2>1, <3>1
  <2>3. CASE EevtStartOptimization
    <3>1. poc' = poc \/ poc' = [poc EXCEPT ![stage][task[cur].c] = Optimizing]
      BY <2>3 DEF EevtStartOptimization, Me
    <3>2. poc[stage][task[cur].c] # Optimized
      <4>1. ejt = "GroupOptimization" /\ TaskOK(task[cur]) /\ pjq[cur] = QueueOf(task[cur])
        <5>1. InState("GroupOptimization", "Initialized")
          BY <2>3 DEF EevtStartOptimization
        <5>2. task[cur].ejt = "GroupOptimization"
          BY <5>1 DEF InState, Me
        <5> QED
          BY <1>3, <5>2, AtBody
      <4>2. IsJob(task[cur], "GroupOptimization", task[cur].c)
        BY <1>3, <4>1 DEF IsJob
      <4>3. pjq[cur] # None
        <5>1. None \notin Queue /\ \A c \in Ctx : <<"Optimization", c>> \in Queue
          BY SearchAssumption, JobAssumption
        <5> QED
          BY <1>3, <4>1, <5>1 DEF TaskOK, QueueOf
      <4>4. ~Done("GroupOptimization", task[cur].c)
        BY <1>3, <4>2, <4>3, StillOpen
      <4> QED
        BY <4>4 DEF Done
    <3> QED
      BY <2>1, <3>1, <3>2
  <2> QED
    BY <1>1, <2>2, <2>3
<1> QED
  BY <1>1, <1>4, <1>5, PlansStay DEF HistoryInv

(* The job of a physical expression, up to its costing and after it. *)
LEMMA ExprCosts ==
    ASSUME SchedInv, SearchIInv, HistoryInv, CostInv, SearchIInv',
           EevtInitialize \/ EevtOptimizeChildren \/ EevtAddEnforcers \/ EevtFinalize
    PROVE  CostInv'
<1> DEFINE s == jsm[cur]
           ejt == "GroupExpressionOptimization"
<1> USE DEF memoVars, planVars
<1>1. PICK est : InState(ejt, est) /\ est # "EnfdPropsChecked"
  BY DEF EevtInitialize, EevtOptimizeChildren, EevtAddEnforcers, EevtFinalize
<1>2. best' = best /\ poc' = poc
  BY DEF EevtInitialize, EevtOptimizeChildren, EevtAddEnforcers, EevtFinalize
<1>3. s \in Jsm /\ cur \in Job /\ jsm \in [Job -> Jsm] /\ s.est # "EnfdPropsChecked"
  <2>1. s.est = est
    BY <1>1 DEF InState, My
  <2> QED
    BY <1>1, <2>1, AtBody DEF InState, SearchIInv, TypeInv
<1>4. \/ \E to \in Est : to # "EnfdPropsChecked" /\ Move(s, to)
      \/ Finish
      \/ Move(s, "EnfdPropsChecked") /\ \A i \in DOMAIN s.ctxs : PocLookupBest(s.ctxs[i]) # NoPlan
      \/ \E m, k : m.est = s.est /\ Stay(m, k)
  <2>1. CASE EevtInitialize
    <3>1. Move(s, "OptimizingChildren") \/ Finish
      BY <2>1 DEF EevtInitialize, My
    <3> QED
      BY <3>1 DEF Est
  <2>2. CASE EevtOptimizeChildren
    <3> DEFINE x == ChildContext(s.child)
    <3>1. \/ Move(s, "ChildrenOptimized") \/ Finish
          \/ Stay([s EXCEPT !.child = s.child + 1], <<>>)
          \/ Stay([s EXCEPT !.child = s.child + 1, !.ctxs = Append(s.ctxs, x)],
                  <<GroupOptimization(x, task[cur].e)>>)
      BY <2>2 DEF EevtOptimizeChildren, Me, My
    <3> HIDE DEF x
    <3>2. \A a, b : [s EXCEPT !.child = a].est = s.est /\ [s EXCEPT !.child = a, !.ctxs = b].est = s.est
      BY <1>3 DEF Jsm
    <3>3. CASE Move(s, "ChildrenOptimized")
      BY <3>3 DEF Est
    <3>4. CASE Stay([s EXCEPT !.child = s.child + 1], <<>>)
      BY <3>2, <3>4
    <3>5. CASE Stay([s EXCEPT !.child = s.child + 1, !.ctxs = Append(s.ctxs, x)],
                    <<GroupOptimization(x, task[cur].e)>>)
      BY <3>2, <3>5
    <3> QED
      BY <3>1, <3>3, <3>4, <3>5
  <2>3. CASE EevtAddEnforcers
    BY <2>3 DEF EevtAddEnforcers, Me, My
  <2>4. CASE EevtFinalize
    BY <2>4 DEF EevtFinalize
  <2> QED
    BY <2>1, <2>2, <2>3, <2>4
<1>5. /\ \A j \in Job : j # cur => jsm'[j] = jsm[j]
      /\ jsm'[cur].est = "EnfdPropsChecked" =>
            \A i \in DOMAIN jsm'[cur].ctxs : PocLookupBest(jsm'[cur].ctxs[i]) # NoPlan
  <2>1. \A to \in Est : [s EXCEPT !.est = to].est = to /\ [s EXCEPT !.est = to].ctxs = s.ctxs
    BY <1>3 DEF Jsm
  <2>2. "EnfdPropsChecked" \in Est
    BY DEF Est
  <2>3. ASSUME NEW to \in Est, Move(s, to),
               to = "EnfdPropsChecked" => \A i \in DOMAIN s.ctxs : PocLookupBest(s.ctxs[i]) # NoPlan
        PROVE  /\ \A j \in Job : j # cur => jsm'[j] = jsm[j]
               /\ jsm'[cur].est = "EnfdPropsChecked" =>
                     \A i \in DOMAIN jsm'[cur].ctxs : PocLookupBest(jsm'[cur].ctxs[i]) # NoPlan
    <3>1. PICK m : m = [s EXCEPT !.est = to]
      OBVIOUS
    <3>2. jsm' = [jsm EXCEPT ![cur] = m] /\ m.est = to /\ m.ctxs = s.ctxs
      BY <2>1, <2>3, <3>1 DEF Move
    <3>3. jsm'[cur] = m /\ \A j \in Job : j # cur => jsm'[j] = jsm[j]
      BY <1>3, <3>2
    <3> QED
      BY <2>3, <3>2, <3>3
  <2>4. CASE Finish
    BY <1>3, <2>4 DEF Finish
  <2>5. ASSUME NEW m, NEW k, m.est = s.est, Stay(m, k)
        PROVE  jsm'[cur].est # "EnfdPropsChecked" /\ \A j \in Job : j # cur => jsm'[j] = jsm[j]
    BY <1>3, <2>5 DEF Stay
  <2> QED
    BY <1>4, <2>2, <2>3, <2>4, <2>5
<1>6. CostedJobs /\ stage' = stage
  BY <1>1, <1>5, JobCosted
<1> QED
  BY <1>2, <1>6, PlansStay DEF HistoryInv

(* CJobGroupExpressionOptimization::EevtOptimizeSelf: the plan is costed over children that
   are optimized, so what it replaces is not below another plan of the stage. *)
LEMMA OptimizeSelfCosts ==
    ASSUME SchedInv, SearchIInv, HistoryInv, CostInv, SearchIInv', EevtOptimizeSelf
    PROVE  CostInv'
<1> USE DEF memoVars
<1> DEFINE t == task[cur]
           s == jsm[cur]
           plan == [e |-> t.e, ctxs |-> s.ctxs, cost |-> PlanCost(t.e, s.ctxs)]
           old == best[stage][t.c]
           new == IF old = NoPlan \/ plan.cost < old.cost THEN plan ELSE old
           m == [s EXCEPT !.fCTE = TRUE]
<1>1. /\ InState("GroupExpressionOptimization", "EnfdPropsChecked")
      /\ UNCHANGED <<poc, task, cur, stage>> /\ pc = "body" /\ run = "go"
      /\ t.ejt = "GroupExpressionOptimization" /\ s.est = "EnfdPropsChecked"
  BY DEF EevtOptimizeSelf, Me, My, InState, lifoVars, vars, loopVars
<1>2. /\ s \in Jsm /\ TaskOK(t) /\ stage \in Stages /\ cur \in Job /\ cur \in Live
      /\ best \in [Stages -> [Ctx -> Plan]] /\ jsm \in [Job -> Jsm]
  BY <1>1, AtBody, States DEF SearchIInv, TypeInv
<1>3. t.e \in GExpr /\ t.c \in Ctx /\ s.ctxs \in Seq(Ctx)
  BY <1>1, <1>2, TaskTypes DEF TaskOK, InMemoExpr
<1>4. \/ UNCHANGED best /\ (Move(s, "SelfOptimized") \/ Finish)
      \/ /\ best' = [best EXCEPT ![stage][t.c] = new]
         /\ Stay(m, CTEJob(new)) \/ Move(s, "SelfOptimized")
  <2> HIDE DEF m
  <2>1. CASE s.fCTE
    BY <2>1 DEF EevtOptimizeSelf, Me, My
  <2>2. CASE ~s.fCTE /\ \E p \in costed : p.e = t.e /\ p.c = t.c /\ p.ctxs = s.ctxs
    BY <2>2 DEF EevtOptimizeSelf, Me, My
  <2>3. CASE ~s.fCTE /\ ~\E p \in costed : p.e = t.e /\ p.c = t.c /\ p.ctxs = s.ctxs
    BY <2>3, Zenon DEF EevtOptimizeSelf, Me, My, m
  <2> QED
    BY <2>1, <2>2, <2>3
<1>5. /\ \A i \in DOMAIN s.ctxs : s.ctxs[i] \in Ctx /\ PocLookupBest(s.ctxs[i]) # NoPlan
      /\ \A i \in DOMAIN s.ctxs : poc[stage][s.ctxs[i]] = Optimized
  <2>1. \A i \in DOMAIN s.ctxs : s.ctxs[i] \in Ctx /\ PocLookupBest(s.ctxs[i]) # NoPlan
    BY <1>1, <1>2, <1>3 DEF CostInv, PlannedInv
  <2>2. ASSUME NEW i \in DOMAIN s.ctxs PROVE poc[stage][s.ctxs[i]] = Optimized
    <3>1. s.ctxs[i] \in Thing /\ "GroupOptimization" \in Ejt
      BY <2>1 DEF Thing, Ejt
    <3>2. Awaits(t, s, "GroupOptimization", s.ctxs[i])
      BY <1>1 DEF Awaits, Range
    <3>3. Done("GroupOptimization", s.ctxs[i])
      BY <1>1, <3>1, <3>2, AwaitedDone
    <3> QED
      BY <3>3 DEF Done
  <2> QED
    BY <2>1, <2>2
<1>6. poc[stage][t.c] # Optimized
  BY <1>1, ContextOpen
<1>7. \A j \in Job : j # cur => jsm'[j] = jsm[j]
  BY <1>2, <1>4 DEF Stay, Move, Finish
<1>8. /\ jsm'[cur].est = "EnfdPropsChecked" => jsm'[cur].ctxs = s.ctxs
  <2>1. m.ctxs = s.ctxs
    BY <1>2 DEF Jsm
  <2>2. [s EXCEPT !.est = "SelfOptimized"].est = "SelfOptimized"
    BY <1>2 DEF Jsm
  <2>3. CASE Move(s, "SelfOptimized")
    <3>1. jsm'[cur] = [s EXCEPT !.est = "SelfOptimized"]
      BY <1>2, <2>3 DEF Move
    <3> QED
      BY <2>2, <3>1
  <2>4. CASE Finish
    BY <2>4 DEF Finish
  <2>5. ASSUME NEW k, Stay(m, k) PROVE jsm'[cur].ctxs = s.ctxs
    <3> HIDE DEF m
    <3>1. jsm'[cur] = m
      BY <1>2, <2>5 DEF Stay
    <3> QED
      BY <2>1, <3>1
  <2> HIDE DEF m, new
  <2> QED
    BY <1>4, <2>3, <2>4, <2>5
<1>9. CostedJobs
  <2>1. \A i \in DOMAIN s.ctxs : PocLookupBest(s.ctxs[i]) # NoPlan
    BY <1>5
  <2> QED
    BY <1>1, <1>7, <1>8, <2>1, JobCosted
<1>10. CASE best' = best
  BY <1>1, <1>9, <1>10, PlansStay DEF HistoryInv
<1>11. CASE best' = [best EXCEPT ![stage][t.c] = new]
  <2>1. PlanCost(t.e, s.ctxs) \in Nat
    BY <1>2, <1>3, CostIs
  <2>2. PICK p : p = plan
    OBVIOUS
  <2>3. p.e = t.e /\ p.ctxs = s.ctxs /\ p.cost = PlanCost(t.e, s.ctxs)
    BY <2>2
  <2>4. PlanOK(p, stage)
    BY <1>3, <1>5, <2>1, <2>3 DEF PlanOK
  <2>5. p # NoPlan /\ p \in Plan
    BY <1>3, <2>1, <2>2, <2>3, SearchAssumption DEF NoPlan, Plan
  <2>6. PICK q : q = new
    OBVIOUS
  <2>7. /\ q = IF old = NoPlan \/ p.cost < old.cost THEN p ELSE old
        /\ best' = [best EXCEPT ![stage][t.c] = q]
    BY <1>11, <2>2, <2>6
  <2> HIDE DEF new, plan
  <2>8. /\ old \in Plan /\ q \in Plan /\ q # NoPlan
        /\ old # NoPlan => q.cost <= old.cost
    <3>1. old \in Plan
      BY <1>2, <1>3
    <3>2. old.cost \in Nat /\ p.cost \in Nat
      BY <2>5, <3>1, TaskTypes
    <3>3. CASE q = p /\ (old = NoPlan \/ p.cost < old.cost)
      BY <2>5, <3>1, <3>2, <3>3
    <3>4. CASE q = old /\ old # NoPlan
      BY <3>1, <3>2, <3>4
    <3> QED
      BY <2>7, <3>3, <3>4
  <2>9. PlanOK(q, stage)
    <3>1. CASE q = p
      BY <2>4, <3>1
    <3>2. CASE q = old
      BY <1>2, <1>3, <2>8, <3>2, PlansOK
    <3> QED
      BY <2>7, <3>1, <3>2
  <2>10. \A k \in Stages, c \in Ctx : best'[k][c] = IF k = stage /\ c = t.c THEN q ELSE best[k][c]
    BY <1>2, <1>3, <2>7
  <2>11. \A c \in Ctx : Improves(c)
    <3>1. ASSUME NEW c \in Ctx, NEW k \in Stages, best[k][c] # NoPlan
          PROVE  best'[k][c] # NoPlan /\ best'[k][c].cost <= best[k][c].cost
      <4>1. CASE k = stage /\ c = t.c
        BY <2>8, <2>10, <3>1, <4>1
      <4>2. CASE ~(k = stage /\ c = t.c)
        <5>1. best'[k][c] = best[k][c] /\ best[k][c].cost \in Nat
          BY <1>2, <2>10, <4>2, TaskTypes
        <5> QED
          BY <3>1, <5>1
      <4> QED
        BY <4>1, <4>2
    <3> QED
      BY <3>1 DEF Improves
  <2>12. best' \in [Stages -> [Ctx -> Plan]]
    BY DEF SearchIInv, TypeInv
  <2>13. ASSUME NEW k \in Stages, NEW c \in Ctx, NEW r, r = best'[k][c], r # NoPlan
         PROVE  PlanOK(r, k)'
    <3>1. PlanOK(r, k)
      <4>1. CASE k = stage /\ c = t.c
        BY <2>9, <2>10, <2>13, <4>1
      <4>2. CASE ~(k = stage /\ c = t.c)
        BY <2>10, <2>13, <4>2, PlansOK
      <4> QED
        BY <4>1, <4>2
    <3>2. k = stage' => k = stage
              /\ \A i \in DOMAIN r.ctxs, l \in Stages : best'[l][r.ctxs[i]] = best[l][r.ctxs[i]]
      <4>1. SUFFICES ASSUME k = stage, NEW i \in DOMAIN r.ctxs, NEW l \in Stages
                     PROVE  best'[l][r.ctxs[i]] = best[l][r.ctxs[i]]
        BY <1>1
      <4>2. r.ctxs[i] \in Ctx /\ poc[stage][r.ctxs[i]] = Optimized
        BY <3>1, <4>1 DEF PlanOK
      <4>3. r.ctxs[i] # t.c
        BY <1>6, <4>2
      <4> QED
        BY <2>10, <4>2, <4>3
    <3>3. \A d \in Ctx : poc[k][d] = Optimized => poc'[k][d] = Optimized
      BY <1>1
    <3> QED
      BY <1>2, <2>11, <2>12, <3>1, <3>2, <3>3, PlanStaysOK
  <2> QED
    BY <1>9, <2>11, <2>13, CostsKept
<1> QED
  BY <1>4, <1>10, <1>11

(* A job that has been created has not been run. *)
LEMMA CreatedCosts ==
    ASSUME SchedInv, SearchIInv, HistoryInv, CostInv, SearchIInv', OptimizeStage \/ AddJob
    PROVE  CostInv'
<1> USE DEF memoVars, planVars
<1>1. /\ UNCHANGED <<best, poc, stage>>
      /\ \E t : Enlist(FreeJob, t)
      /\ ejs' = [ejs EXCEPT ![FreeJob] = "Waiting"] /\ HasFreeJob
  BY AddedJob DEF OptimizeStage, AddJob, ScheduleMainJob, AddChild, Create, loopVars
<1>2. FreeJob \in Job /\ FreeJob \notin Live
  BY <1>1, FreeIs
<1>3. /\ jsm'[FreeJob] = NewJsm
      /\ \A j \in Job : j # FreeJob => jsm'[j] = jsm[j] /\ task'[j] = task[j]
  BY <1>1, <1>2 DEF Enlist, SearchIInv, TypeInv
<1>4. \A j \in Live' : j = FreeJob \/ j \in Live
  BY <1>1, <1>2 DEF Live, SchedInv, IInv, TypeOK
<1>5. CostedJobs
  <2>1. SUFFICES ASSUME NEW j \in Live', task'[j].ejt = "GroupExpressionOptimization",
                        jsm'[j].est = "EnfdPropsChecked"
                 PROVE  /\ j \in Live /\ task[j].ejt = "GroupExpressionOptimization"
                        /\ jsm[j].est = "EnfdPropsChecked" /\ jsm'[j].ctxs = jsm[j].ctxs
    BY DEF CostedJobs
  <2>2. j # FreeJob
    BY <1>3, <2>1 DEF NewJsm
  <2> QED
    BY <1>3, <1>4, <2>1, <2>2 DEF Live
<1> QED
  BY <1>1, <1>5, PlansStay DEF HistoryInv

(* The scheduler's own steps, the end of an action and of a stage. *)
LEMMA QuietCosts ==
    ASSUME SchedInv, SearchIInv, HistoryInv, CostInv, SearchIInv',
           \/ FinalizeStage \/ TimeOut \/ Suspend \/ Complete
           \/ LoopStep /\ UNCHANGED searchVars
           \/ UNCHANGED allVars
    PROVE  CostInv'
<1> USE DEF memoVars, planVars, bodyVars, searchVars
<1>1. UNCHANGED <<best, poc, task, jsm>>
  BY DEF FinalizeStage, TimeOut, Suspend, Complete, allVars
<1>2. (stage' = stage \/ stage' = stage + 1) /\ Live' \subseteq Live
  <2>1. CASE LoopStep
    BY <2>1, LoopFacts DEF SchedInv
  <2>2. CASE FinalizeStage
    BY <2>2, FinalizeKeeps DEF FinalizeStage, FinalizeSearchStage
  <2>3. CASE TimeOut \/ Suspend \/ Complete \/ UNCHANGED allVars
    <3>1. ejs' = ejs /\ stage' = stage
      BY <2>3 DEF TimeOut, Suspend, Complete, BodySuspends, BodyCompletes, jobVars, allVars, lifoVars, vars, loopVars
    <3> QED
      BY <3>1 DEF Live
  <2> QED
    BY <2>1, <2>2, <2>3
<1>3. CostedJobs
  BY <1>1, <1>2 DEF CostedJobs
<1> QED
  BY <1>1, <1>2, <1>3, PlansStay DEF HistoryInv

(* Every step of the search keeps the plans in order. *)
LEMMA CostStep ==
    ASSUME SchedInv, SearchIInv, HistoryInv, CostInv, [SearchNext]_allVars
    PROVE  CostInv'
<1>1. SearchIInv'
  BY SearchStep
<1>2. CASE OptimizeStage \/ AddJob
  BY <1>1, <1>2, CreatedCosts
<1>3. CASE \/ FinalizeStage \/ TimeOut \/ Suspend \/ Complete
           \/ LoopStep /\ UNCHANGED searchVars
           \/ UNCHANGED allVars
  BY <1>1, <1>3, QuietCosts
<1>4. CASE Action
  BY <1>1, <1>4, OtherCosts, ExprCosts, OptimizeSelfCosts
<1> QED
  BY <1>2, <1>3, <1>4 DEF SearchNext

(* There are no plans when CEngine::Optimize starts. *)
LEMMA SearchInitCosts == SearchInit => CostInv
<1> SUFFICES ASSUME SearchInit PROVE CostInv
  OBVIOUS
<1>1. Live = {} /\ best = [s \in Stages |-> [c \in Ctx |-> NoPlan]]
  BY DEF SearchInit, LifoInit, Init, Live
<1> QED
  BY <1>1 DEF CostInv, CostsCurrent, PlannedInv

(* A plan is costed over contexts that its stage has optimized, and what it cost then is what
   its children cost now, or more if it is of an earlier stage (CJobGroupExpressionOptimization,
   COptimizationContext): the best plan of a context is not replaced any more when an
   expression above it is costed. *)
THEOREM PlansAreCurrent == SearchSpec => []CostsCurrent
<1>1. SearchInit => CostInv
  BY SearchInitCosts
<1>2. SchedInv /\ SearchIInv /\ HistoryInv /\ CostInv /\ [SearchNext]_allVars => CostInv'
  BY CostStep
<1>3. CostInv => CostsCurrent
  BY DEF CostInv
<1> QED
  BY <1>1, <1>2, <1>3, SearchInvariant, HistoryHolds, PTL DEF SearchSpec
=============================================================================
