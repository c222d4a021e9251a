----------------------- MODULE EngineEnforcement_proofs -----------------------
(***************************************************************************)
(* Without outer references the enforcers of a group cannot wait for each  *)
(* other: every enforcer asks for a context of a lower rank, whatever the  *)
(* engines and the flags of the transitions between them are.  If moreover *)
(* transitions keep rewindability, and nobody asks for mark and restore    *)
(* across one, what is accepted as a plan of a context delivers it and     *)
(* stands on a final plan.                                                 *)
(***************************************************************************)
EXTENDS EngineEnforcement, FiniteSetTheorems, SequenceTheorems, TLAPS

(* What a context asks for, the strongest demand first. *)
Rank(c) ==
    (IF c.r = None THEN 0 ELSE 8) + (IF c.d = "Any" THEN 0 ELSE 4)
        + (IF c.o THEN 2 ELSE 0) + (IF c.e = AnyEngine THEN 0 ELSE 1)

Expr == Base \cup Enforcer
Frames ==
    [c : Context, by : Expr \cup {NoExpr}, todo : Seq(Expr), seen : Nat, asked : BOOLEAN]

PlansTyped == DOMAIN best \subseteq Context /\ \A c \in DOMAIN best : best[c].p \in Plan

Types == exprs \in Seq(Expr) /\ stack \in Seq(Frames) /\ PlansTyped

(* All but the innermost context wait for the next one. *)
Chained(s) ==
    \A i \in 1 .. Len(s) - 1 :
        /\ s[i].asked
        /\ s[i].todo # <<>>
        /\ s[i + 1].c = Prpp(s[i].todo[1], s[i].c)

Descending(s) ==
    \A i, j \in 1 .. Len(s) : i < j => Rank(s[j].c) < Rank(s[i].c)

TopWaits ==
    (stack # <<>> /\ Top.asked) => Top.todo # <<>> /\ Prpp(Current, Top.c) \in done

EInv == Types /\ Chained(stack) /\ Descending(stack) /\ TopWaits
-----------------------------------------------------------------------------
(* A rank is a number below 16. *)
LEMMA RankType == ASSUME NEW c \in Context PROVE Rank(c) \in 0 .. 15
  BY DEF Rank, Context

(* FCheckReqdProps lets an enforcer only run under a context that asks for what it
   enforces; what CReqdPropPlan::Compute then asks of the child is of lower rank. *)
LEMMA Descent ==
  ASSUME ~OuterRefs, NEW x \in Enforcer, NEW c \in Context, FCheckReqdProps(x, c)
  PROVE  Prpp(x, c) \in Context /\ Rank(Prpp(x, c)) < Rank(c)
<1> USE EnforcementAssumption DEF Context
<1>1. CASE x = SortOp
  <2>1. Prpp(x, c) = [o |-> FALSE, d |-> c.d, r |-> BlockingReqd, h |-> FALSE,
                      e |-> DefaultEngine["Sort"]]
    BY <1>1 DEF SortOp, IsMotion, Prpp, SortReqd
  <2>2. c.o
    BY <1>1 DEF SortOp, FCheckReqdProps
  <2> QED
    BY <2>1, <2>2 DEF BlockingReqd, Rank, None, MarkRestore
<1>2. CASE x \in {GatherOp, GatherMergeOp, HashMotionOp}
  <2>1. Prpp(x, c) = [o |-> x.op = "GatherMerge", d |-> "Any", r |-> None, h |-> FALSE,
                      e |-> DefaultEngine["Motion"]]
    BY <1>2 DEF GatherOp, GatherMergeOp, HashMotionOp, IsMotion, Prpp, MotionReqd
  <2>2. c.d # "Any"
    BY <1>2 DEF GatherOp, GatherMergeOp, HashMotionOp, IsMotion, FCheckReqdProps
  <2>3. (x.op = "GatherMerge") \in BOOLEAN /\ "Any" \in Distribution
    BY DEF Distribution
  <2> QED
    BY <2>1, <2>2, <2>3 DEF Rank, None, MarkRestore
<1>3. CASE \E b \in BOOLEAN : x = SpoolOp(b)
  <2>1. Prpp(x, c) = [o |-> c.o, d |-> c.d, r |-> BlockingReqd, h |-> c.h /\ ~x.eager,
                      e |-> DefaultEngine["Spool"]]
    BY <1>3 DEF SpoolOp, IsMotion, Prpp, SpoolReqd
  <2>2. c.r # None
    BY <1>3 DEF SpoolOp, FCheckReqdProps
  <2>3. (c.h /\ ~x.eager) \in BOOLEAN
    BY <1>3 DEF SpoolOp
  <2> QED
    BY <2>1, <2>2, <2>3 DEF BlockingReqd, Rank, None, MarkRestore
<1>4. CASE \E e \in Engine, k \in SUBSET Property : x = TransitionOp(e, k)
  <2>1. Prpp(x, c) = [o |-> FALSE, d |-> "Any", r |-> c.r, h |-> c.h, e |-> AnyEngine]
    BY <1>4 DEF TransitionOp, IsMotion, Prpp, TransitionReqd
  <2>2. c.e # AnyEngine
    BY <1>4 DEF TransitionOp, FCheckReqdProps
  <2>3. "Any" \in Distribution
    BY DEF Distribution
  <2> QED
    BY <2>1, <2>2, <2>3 DEF Rank
<1> QED
  BY <1>1, <1>2, <1>3, <1>4 DEF Enforcer

(* A context of lower rank than the innermost one is not being optimized. *)
LEMMA NotOnStack ==
  ASSUME Types, Descending(stack), stack # <<>>, NEW cc, Rank(cc) < Rank(Top.c)
  PROVE  cc \notin {stack[i].c : i \in 1 .. Len(stack)}
<1>1. SUFFICES ASSUME NEW i \in 1 .. Len(stack), cc = stack[i].c PROVE FALSE
  OBVIOUS
<1>a. stack \in Seq(Frames) /\ Len(stack) \in 1 .. Len(stack)
  <2>1. stack \in Seq(Frames)
    BY DEF Types
  <2> QED
    BY <2>1
<1>b. stack[i] \in Frames /\ stack[Len(stack)] \in Frames
  BY <1>a
<1>2. Len(stack) \in 1 .. Len(stack) /\ stack[i].c \in Context /\ Top.c \in Context
  BY <1>a, <1>b DEF Top, Frames
<1>3. Rank(stack[i].c) \in Int /\ Rank(Top.c) \in Int
  BY <1>2, RankType
<1>4. CASE i = Len(stack)
  BY <1>1, <1>3, <1>4 DEF Top
<1>5. CASE i < Len(stack)
  BY <1>1, <1>2, <1>3, <1>5 DEF Top, Descending
<1> QED
  BY <1>1, <1>2, <1>4, <1>5

(* Replacing the innermost frame by another one of the same context changes
   nothing about the contexts. *)
LEMMA TopReplaced ==
  ASSUME NEW s \in Seq(Frames), s # <<>>, Chained(s), Descending(s),
         NEW f \in Frames, f.c = s[Len(s)].c
  PROVE  LET t == [s EXCEPT ![Len(s)] = f] IN
         /\ t \in Seq(Frames) /\ t # <<>>
         /\ t[Len(t)] = f
         /\ Chained(t) /\ Descending(t)
<1> DEFINE t == [s EXCEPT ![Len(s)] = f]
<1>1. Len(s) \in Nat /\ Len(s) >= 1 /\ DOMAIN s = 1 .. Len(s)
  OBVIOUS
<1>2. t \in Seq(Frames) /\ Len(t) = Len(s)
  BY <1>1, ExceptSeq
<1>3. \A i \in 1 .. Len(s) : t[i] = IF i = Len(s) THEN f ELSE s[i]
  BY <1>1
<1> HIDE DEF t
<1>4. \A i \in 1 .. Len(s) : t[i].c = s[i].c
  BY <1>3
<1>5. Chained(t)
  <2> SUFFICES ASSUME NEW i \in 1 .. Len(s) - 1
               PROVE  t[i].asked /\ t[i].todo # <<>> /\ t[i + 1].c = Prpp(t[i].todo[1], t[i].c)
    BY <1>2 DEF Chained
  <2>1. i \in 1 .. Len(s) /\ i + 1 \in 1 .. Len(s) /\ i # Len(s)
    <3>1. \A n \in Nat : i \in 1 .. n - 1 => i \in 1 .. n /\ i + 1 \in 1 .. n /\ i # n
      OBVIOUS
    <3> QED
      BY <1>1, <3>1
  <2>2. t[i] = s[i] /\ t[i + 1].c = s[i + 1].c
    BY <1>3, <1>4, <2>1
  <2> QED
    BY <2>2 DEF Chained
<1>6. Descending(t)
  BY <1>1, <1>2, <1>4 DEF Descending
<1>7. t # <<>> /\ t[Len(t)] = f
  <2>1. Len(s) \in 1 .. Len(s) /\ Len(t) # 0
    BY <1>1, <1>2
  <2>2. t[Len(s)] = f
    BY <1>3, <2>1
  <2> QED
    BY <1>2, <2>1, <2>2
<1> QED
  BY <1>2, <1>5, <1>6, <1>7 DEF t

(* Pushing the context the innermost frame waits for, if it is of lower rank. *)
LEMMA ContextPushed ==
  ASSUME NEW s \in Seq(Frames), s # <<>>, Chained(s), Descending(s),
         s[Len(s)].asked, s[Len(s)].todo # <<>>,
         NEW f \in Frames, f.c = Prpp(s[Len(s)].todo[1], s[Len(s)].c),
         Rank(f.c) < Rank(s[Len(s)].c)
  PROVE  Chained(Append(s, f)) /\ Descending(Append(s, f))
<1> DEFINE n == Len(s)
           t == Append(s, f)
<1>1. n \in Nat /\ n >= 1
  OBVIOUS
<1>2. Len(t) = n + 1 /\ t[n + 1] = f /\ \A i \in 1 .. n : t[i] = s[i]
  BY <1>1
<1>3. \A i \in 1 .. n + 1 : Rank(t[i].c) \in Int
  <2> HIDE DEF n, t
  <2> SUFFICES ASSUME NEW i \in 1 .. n + 1 PROVE Rank(t[i].c) \in Int
    OBVIOUS
  <2>1. t[i] \in Frames
    BY <1>1, <1>2 DEF n
  <2>2. t[i].c \in Context
    BY <2>1 DEF Frames
  <2> QED
    BY <2>2, RankType
<1>4. Chained(t)
  <2> HIDE DEF n, t
  <2> SUFFICES ASSUME NEW i \in 1 .. Len(t) - 1
               PROVE  t[i].asked /\ t[i].todo # <<>> /\ t[i + 1].c = Prpp(t[i].todo[1], t[i].c)
    BY DEF Chained
  <2>1. CASE i = n
    BY <1>1, <1>2, <2>1 DEF n
  <2>2. CASE i < n
    <3>1. i \in 1 .. n - 1 /\ i \in 1 .. n /\ i + 1 \in 1 .. n
      BY <1>1, <1>2, <2>2
    <3> QED
      BY <1>2, <3>1 DEF Chained, n
  <2> QED
    BY <1>1, <1>2, <2>1, <2>2
<1>5. Descending(t)
  <2> HIDE DEF n, t
  <2> SUFFICES ASSUME NEW i \in 1 .. Len(t), NEW j \in 1 .. Len(t), i < j
               PROVE  Rank(t[j].c) < Rank(t[i].c)
    BY DEF Descending
  <2>1. CASE j <= n
    BY <1>1, <1>2, <2>1 DEF Descending, n
  <2>2. CASE j = n + 1
    <3>1. Rank(t[j].c) < Rank(t[n].c)
      BY <1>1, <1>2, <2>2 DEF n
    <3>2. i \in 1 .. n /\ (i = n \/ Rank(t[n].c) < Rank(t[i].c))
      BY <1>1, <1>2, <2>2 DEF Descending, n
    <3> QED
      BY <1>1, <1>2, <1>3, <3>1, <3>2
  <2> QED
    BY <1>1, <1>2, <2>1, <2>2
<1> QED
  BY <1>4, <1>5

(* All frames but the innermost one. *)
LEMMA WithoutTop ==
  ASSUME NEW s \in Seq(Frames), s # <<>>, NEW t, t = SubSeq(s, 1, Len(s) - 1)
  PROVE  /\ t \in Seq(Frames) /\ Len(t) = Len(s) - 1
         /\ \A i \in 1 .. Len(s) - 1 : t[i] = s[i]
<1>1. Len(s) \in Nat /\ Len(s) >= 1
  OBVIOUS
<1>2. /\ t \in Seq(Frames) /\ Len(t) = Len(s) - 1
      /\ \A i \in 1 .. Len(s) - 1 : t[i] = s[i]
  <2>1. /\ SubSeq(s, 1, Len(s) - 1) \in Seq(Frames)
        /\ Len(SubSeq(s, 1, Len(s) - 1)) = IF 1 <= Len(s) - 1 THEN Len(s) - 1 - 1 + 1 ELSE 0
        /\ \A i \in 1 .. Len(s) - 1 - 1 + 1 : SubSeq(s, 1, Len(s) - 1)[i] = s[1 + i - 1]
    BY <1>1, SubSeqProperties
  <2>2. \A n \in Nat : n >= 1 => /\ (IF 1 <= n - 1 THEN n - 1 - 1 + 1 ELSE 0) = n - 1
                               /\ n - 1 - 1 + 1 = n - 1
    OBVIOUS
  <2>3. \A i \in Int : 1 + i - 1 = i
    OBVIOUS
  <2>4. t \in Seq(Frames) /\ Len(t) = Len(s) - 1
    BY <1>1, <2>1, <2>2
  <2>5. ASSUME NEW i \in 1 .. Len(s) - 1 PROVE t[i] = s[i]
    <3>1. i \in 1 .. Len(s) - 1 - 1 + 1 /\ i \in Int
      BY <1>1, <2>2
    <3>2. t[i] = s[1 + i - 1]
      BY <2>1, <3>1
    <3> QED
      BY <2>3, <3>1, <3>2
  <2> QED
    BY <2>4, <2>5
<1> QED
  BY <1>2

(* Removing the innermost context. *)
LEMMA ContextPopped ==
  ASSUME NEW s \in Seq(Frames), s # <<>>, Chained(s), Descending(s),
         NEW t, t = SubSeq(s, 1, Len(s) - 1)
  PROVE  /\ t \in Seq(Frames) /\ Chained(t) /\ Descending(t)
         /\ t # <<>> => /\ t[Len(t)].asked /\ t[Len(t)].todo # <<>>
                       /\ s[Len(s)].c = Prpp(t[Len(t)].todo[1], t[Len(t)].c)
<1>1. Len(s) \in Nat /\ Len(s) >= 1
  OBVIOUS
<1>2. /\ t \in Seq(Frames) /\ Len(t) = Len(s) - 1
      /\ \A i \in 1 .. Len(s) - 1 : t[i] = s[i]
  BY WithoutTop
<1>3. Chained(t) /\ Descending(t)
  <2>1. Chained(t)
    <3> SUFFICES ASSUME NEW i \in 1 .. Len(s) - 2
                 PROVE  t[i].asked /\ t[i].todo # <<>> /\ t[i + 1].c = Prpp(t[i].todo[1], t[i].c)
      BY <1>1, <1>2 DEF Chained
    <3>1. i \in 1 .. Len(s) - 1 /\ i + 1 \in 1 .. Len(s) - 1
      BY <1>1
    <3> QED
      BY <1>2, <3>1 DEF Chained
  <2>2. Descending(t)
    BY <1>1, <1>2 DEF Descending
  <2> QED
    BY <2>1, <2>2
<1>4. ASSUME t # <<>>
      PROVE  /\ t[Len(t)].asked /\ t[Len(t)].todo # <<>>
             /\ s[Len(s)].c = Prpp(t[Len(t)].todo[1], t[Len(t)].c)
  <2>1. Len(t) \in 1 .. Len(s) - 1 /\ Len(t) + 1 = Len(s)
    BY <1>1, <1>2, <1>4
  <2> QED
    BY <1>2, <2>1 DEF Chained
<1> QED
  BY <1>2, <1>3, <1>4
-----------------------------------------------------------------------------
(* What an expression derives is a plan. *)
LEMMA DeriveType ==
  ASSUME NEW x \in Expr, NEW q \in Plan PROVE Derive(x, q) \in Plan
<1> USE EnforcementAssumption DEF Plan, None, Rewindable, MarkRestore, Distribution
<1>1. CASE x \in Base
  BY <1>1 DEF Derive, IsMotion
<1>2. CASE x = SortOp
  BY <1>2 DEF SortOp, Derive, SortDrvd, IsMotion
<1>3. CASE x \in {GatherOp, GatherMergeOp, HashMotionOp}
  BY <1>3 DEF GatherOp, GatherMergeOp, HashMotionOp, IsMotion, MotionDistribution, Derive, MotionDrvd
<1>4. CASE \E b \in BOOLEAN : x = SpoolOp(b)
  BY <1>4 DEF SpoolOp, IsMotion, Derive, SpoolDrvd
<1>5. CASE \E e \in Engine, k \in SUBSET Property : x = TransitionOp(e, k)
  BY <1>5 DEF TransitionOp, IsMotion, Derive, TransitionDrvd
<1> QED
  BY <1>1, <1>2, <1>3, <1>4, <1>5 DEF Expr, Enforcer

(* What is added to a group are the enforcers named in the four AppendEnforcers. *)
LEMMA EnforcersAmong ==
  ASSUME NEW S, NEW x, NEW p \in Plan, NEW c \in Context,
         {SortOp, HashMotionOp, GatherOp, GatherMergeOp} \subseteq S,
         \A b \in BOOLEAN : SpoolOp(b) \in S,
         c.e \in Engine /\ EpetEngine(x, p, c) = "Required"
            => TransitionOp(c.e, Preserve[p.e][c.e]) \in S
  PROVE  AppendEnforcers(x, p, c) \in Seq(S)
<1> DEFINE eng == EngineEnforcer(EpetEngine(x, p, c) = "Required", p, c)
           ord == OrderEnforcer(EpetOrder(x, p, c) = "Required")
           dis == DistributionEnforcers(EpetDistribution(x, p, c) = "Required", c)
           rew == RewindEnforcer(EpetRewindability(x, p, c) = "Required", p, c)
<1>1. ASSUME NEW b, NEW y, b => y \in S PROVE New(b, y) \in Seq(S)
  BY <1>1 DEF New
<1>2. eng \in Seq(S)
  <2>1. ASSUME EpetEngine(x, p, c) = "Required" PROVE c.e \in Engine
    BY <2>1 DEF EpetEngine, Unless, EngineOK, Context
  <2> QED
    BY <1>1, <2>1 DEF EngineEnforcer
<1>3. ord \in Seq(S)
  BY <1>1 DEF OrderEnforcer
<1>4. dis \in Seq(S)
  <2> DEFINE b == EpetDistribution(x, p, c) = "Required"
             h == New(b /\ c.d = "Hashed", HashMotionOp)
             g == New(b /\ c.d = "Singleton", GatherOp)
             m == New(b /\ c.d = "Singleton" /\ c.o, GatherMergeOp)
  <2>2. h \in Seq(S) /\ g \in Seq(S) /\ m \in Seq(S)
    BY <1>1
  <2>3. dis = h \o g \o m
    BY DEF DistributionEnforcers
  <2> HIDE DEF h, g, m, dis
  <2> QED
    BY <2>2, <2>3
<1>5. rew \in Seq(S)
  <2>2. (~HazardHandling \/ (c.h /\ p.h)) \in BOOLEAN
    OBVIOUS
  <2> QED
    BY <1>1, <2>2 DEF RewindEnforcer
<1>6. AppendEnforcers(x, p, c) = eng \o ord \o dis \o rew
  BY DEF AppendEnforcers
<1> HIDE DEF eng, ord, dis, rew
<1> QED
  BY <1>2, <1>3, <1>4, <1>5, <1>6

(* The enforcers added to a group are enforcers. *)
LEMMA EnforcersType ==
  ASSUME NEW x, NEW p \in Plan, NEW c \in Context
  PROVE  AppendEnforcers(x, p, c) \in Seq(Expr)
<1>1. ASSUME c.e \in Engine PROVE TransitionOp(c.e, Preserve[p.e][c.e]) \in Expr
  <2>1. Preserve[p.e][c.e] \in SUBSET Property
    BY <1>1, EnforcementAssumption DEF Plan
  <2> QED
    BY <1>1, <2>1 DEF Expr, Enforcer
<1>2. {SortOp, HashMotionOp, GatherOp, GatherMergeOp} \subseteq Expr /\ \A b \in BOOLEAN : SpoolOp(b) \in Expr
  BY DEF Expr, Enforcer
<1> QED
  BY <1>1, <1>2, EnforcersAmong

(* Enforcing over a plan keeps the types. *)
LEMMA EnforceTypes ==
  ASSUME exprs \in Seq(Expr), PlansTyped,
         NEW x \in Expr, NEW q \in Plan, NEW c \in Context, FCheckEnfdProps(x, q, c)
  PROVE  exprs' \in Seq(Expr) /\ PlansTyped'
<1> DEFINE p == Derive(x, q)
<1>1. p \in Plan
  BY DeriveType
<1>2. CASE FProhibited(x, p, c)
  BY <1>2 DEF FCheckEnfdProps, PlansTyped
<1>3. CASE ~FProhibited(x, p, c)
  <2>1. exprs' = exprs \o AppendEnforcers(x, p, c) /\ (SetBest(c, x, p) \/ UNCHANGED best)
    BY <1>3 DEF FCheckEnfdProps
  <2>2. exprs' \in Seq(Expr)
    BY <1>1, <2>1, EnforcersType
  <2>3. PlansTyped'
    <3>1. CASE SetBest(c, x, p)
      BY <1>1, <3>1 DEF SetBest, PlansTyped
    <3>2. CASE UNCHANGED best
      BY <3>2 DEF PlansTyped
    <3> QED
      BY <2>1, <3>1, <3>2
  <2> QED
    BY <2>2, <2>3
<1> QED
  BY <1>2, <1>3

(* The innermost frame is a frame, and the expression whose job is executed next
   is an expression of the group. *)
LEMMA TopTypes ==
  ASSUME Types, stack # <<>>
  PROVE  /\ Top \in Frames
         /\ Top.todo # <<>> => Current \in Expr /\ Tail(Top.todo) \in Seq(Expr)
<1>1. stack \in Seq(Frames)
  BY DEF Types
<1>2. Top \in Frames
  BY <1>1 DEF Top
<1>3. Top.todo \in Seq(Expr)
  BY <1>2 DEF Frames
<1>4. ASSUME NEW s \in Seq(Expr), s # <<>> PROVE s[1] \in Expr /\ Tail(s) \in Seq(Expr)
  BY <1>4
<1> QED
  BY <1>2, <1>3, <1>4 DEF Current
-----------------------------------------------------------------------------
LEMMA EInvInit == Init => EInv
<1> SUFFICES ASSUME Init PROVE EInv
  OBVIOUS
<1>1. exprs \in Seq(Expr)
  <2>1. Cardinality(Base) \in Nat
    BY EnforcementAssumption, FS_CardinalityType
  <2>2. exprs \in [1 .. Cardinality(Base) -> Base]
    BY DEF Init, SetToSeqs
  <2>3. exprs \in Seq(Base)
    BY <2>1, <2>2
  <2> QED
    BY <2>3 DEF Expr
<1>2. stack \in Seq(Frames) /\ stack = <<>>
  BY DEF Init
<1>3. PlansTyped
  BY DEF Init, PlansTyped
<1>4. Chained(stack) /\ Descending(stack)
  BY <1>2 DEF Chained, Descending
<1> QED
  BY <1>1, <1>2, <1>3, <1>4 DEF EInv, Types, TopWaits

(* The steps that end the job of the current expression. *)
LEMMA FinishedStep ==
  ASSUME EInv, stack # <<>>, Top.todo # <<>>, Finished, exprs' \in Seq(Expr), PlansTyped'
  PROVE  EInv'
<1> DEFINE f == [Top EXCEPT !.todo = Tail(Top.todo), !.asked = FALSE]
<1>1. stack \in Seq(Frames) /\ Top \in Frames /\ Top = stack[Len(stack)]
  BY TopTypes DEF EInv, Types, Top
<1>2. Tail(Top.todo) \in Seq(Expr)
  BY TopTypes DEF EInv
<1>3. f \in Frames
  BY <1>1, <1>2 DEF Frames
<1>4. stack' = [stack EXCEPT ![Len(stack)] = f]
  BY DEF Finished, Top
<1>5. f.c = stack[Len(stack)].c /\ f.asked = FALSE
  BY <1>1 DEF Frames
<1> HIDE DEF f
<1>6. /\ stack' \in Seq(Frames) /\ stack'[Len(stack')] = f
      /\ Chained(stack') /\ Descending(stack')
  BY <1>1, <1>3, <1>4, <1>5, TopReplaced DEF EInv
<1>7. TopWaits'
  BY <1>5, <1>6 DEF TopWaits, Top
<1> QED
  BY <1>6, <1>7 DEF EInv, Types

LEMMA AskKeeps == ASSUME EInv, NEW c \in Requests, Ask(c) PROVE EInv'
<1> DEFINE f == Frame(c, NoExpr)
<1>1. f \in Frames /\ f.asked = FALSE
  BY EnforcementAssumption DEF Frame, Frames
<1>2. stack' = <<f>>
  BY DEF Ask
<1> HIDE DEF f
<1>3. stack' \in Seq(Frames) /\ Len(stack') = 1 /\ stack'[1] = f
  BY <1>1, <1>2
<1>4. Chained(stack') /\ Descending(stack')
  BY <1>3 DEF Chained, Descending
<1>5. TopWaits'
  BY <1>1, <1>3 DEF TopWaits, Top
<1> QED
  BY <1>3, <1>4, <1>5 DEF EInv, Types, PlansTyped, Ask

LEMMA ScheduleKeeps == ASSUME EInv, Schedule PROVE EInv'
<1> DEFINE f == [Top EXCEPT !.todo = Batch, !.seen = Len(exprs)]
<1>1. stack \in Seq(Frames) /\ stack # <<>> /\ Top \in Frames /\ Top = stack[Len(stack)]
  BY TopTypes DEF EInv, Types, Top, Schedule
<1>2. Top.asked = FALSE
  BY <1>1 DEF EInv, TopWaits, Schedule, Frames
<1>3. Batch \in Seq(Expr) /\ Len(exprs) \in Nat
  <2>1. exprs \in Seq(Expr) /\ Top.seen \in Nat
    BY <1>1 DEF EInv, Types, Frames
  <2>2. SubSeq(exprs, Top.seen + 1, Len(exprs)) \in Seq(Expr)
    BY <2>1
  <2>3. ASSUME NEW s \in Seq(Expr) PROVE Reverse(s) \in Seq(Expr)
    BY DEF Reverse
  <2>4. Batch \in Seq(Expr)
    BY <2>2, <2>3 DEF Batch
  <2> QED
    BY <2>1, <2>4
<1>4. f \in Frames
  BY <1>1, <1>3 DEF Frames
<1>5. stack' = [stack EXCEPT ![Len(stack)] = f]
  BY DEF Schedule, Top
<1>6. f.c = stack[Len(stack)].c /\ f.asked = FALSE
  BY <1>1, <1>2 DEF Frames
<1> HIDE DEF f
<1>7. /\ stack' \in Seq(Frames) /\ stack'[Len(stack')] = f
      /\ Chained(stack') /\ Descending(stack')
  BY <1>1, <1>4, <1>5, <1>6, TopReplaced DEF EInv
<1>8. TopWaits'
  BY <1>6, <1>7 DEF TopWaits, Top
<1> QED
  BY <1>7, <1>8 DEF EInv, Types, PlansTyped, Schedule

LEMMA CompleteKeeps == ASSUME EInv, Complete PROVE EInv'
<1>1. stack \in Seq(Frames) /\ stack # <<>> /\ stack' = SubSeq(stack, 1, Len(stack) - 1)
  BY DEF EInv, Types, Complete
<1>2. /\ stack' \in Seq(Frames) /\ Chained(stack') /\ Descending(stack')
      /\ stack' # <<>> =>
            /\ stack'[Len(stack')].todo # <<>>
            /\ Top.c = Prpp(stack'[Len(stack')].todo[1], stack'[Len(stack')].c)
  BY <1>1, ContextPopped DEF EInv, Top
<1>3. Top.c \in done'
  BY DEF Complete
<1>4. TopWaits'
  BY <1>2, <1>3 DEF TopWaits, Top, Current
<1> QED
  BY <1>2, <1>4 DEF EInv, Types, PlansTyped, Complete

LEMMA AskChildKeeps == ASSUME ~OuterRefs, EInv, AskChild PROVE EInv'
<1> DEFINE cc == Prpp(Current, Top.c)
           f == [Top EXCEPT !.asked = TRUE]
           asleep == [stack EXCEPT ![Len(stack)] = [Top EXCEPT !.asked = TRUE]]
           g == Frame(cc, Current)
<1>1. /\ stack \in Seq(Frames) /\ stack # <<>> /\ Top \in Frames /\ Top = stack[Len(stack)]
      /\ Top.todo # <<>>
  BY TopTypes DEF EInv, Types, Top, AskChild, Ready
<1>2. Current \in Enforcer /\ FCheckReqdProps(Current, Top.c) /\ Top.c \in Context
  BY <1>1, TopTypes DEF EInv, AskChild, Admitted, Expr, Frames
<1>3. cc \in Context /\ Rank(cc) < Rank(Top.c)
  BY <1>2, Descent
<1>4. f \in Frames
  BY <1>1 DEF Frames
<1>5. asleep = [stack EXCEPT ![Len(stack)] = f]
  BY DEF Top
<1>6. f.c = Top.c /\ f.asked /\ f.todo = Top.todo
  BY <1>1 DEF Frames
<1>7. g \in Frames /\ g.c = cc /\ g.asked = FALSE
  BY <1>2, <1>3 DEF Frame, Frames, Expr
<1>8. stack' = IF cc \in done \cup {stack[i].c : i \in 1 .. Len(stack)}
               THEN asleep ELSE Append(asleep, g)
  BY DEF AskChild
<1>9. cc \notin {stack[i].c : i \in 1 .. Len(stack)}
  BY <1>1, <1>3, NotOnStack DEF EInv
<1>a. Current = Top.todo[1] /\ done' = done
  BY DEF Current, AskChild
<1> HIDE DEF f, g, asleep
<1>b. /\ asleep \in Seq(Frames) /\ asleep # <<>> /\ asleep[Len(asleep)] = f
      /\ Chained(asleep) /\ Descending(asleep)
  BY <1>1, <1>4, <1>5, <1>6, TopReplaced DEF EInv
<1>c. CASE cc \in done
  <2>1. stack' = asleep
    BY <1>8, <1>c
  <2>2. TopWaits'
    BY <1>1, <1>6, <1>a, <1>b, <1>c, <2>1 DEF TopWaits, Top, Current
  <2> QED
    BY <1>b, <2>1, <2>2 DEF EInv, Types, PlansTyped, AskChild
<1>d. CASE cc \notin done
  <2>1. stack' = Append(asleep, g)
    BY <1>8, <1>9, <1>d
  <2>2. stack' \in Seq(Frames) /\ stack'[Len(stack')] = g
    BY <1>7, <1>b, <2>1
  <2>3. g.c = Prpp(asleep[Len(asleep)].todo[1], asleep[Len(asleep)].c)
    BY <1>6, <1>7, <1>a, <1>b
  <2>4. Rank(g.c) < Rank(asleep[Len(asleep)].c)
    BY <1>3, <1>6, <1>7, <1>b
  <2>5. Chained(stack') /\ Descending(stack')
    BY <1>1, <1>6, <1>7, <1>b, <2>1, <2>3, <2>4, ContextPushed
  <2>6. TopWaits'
    BY <1>7, <2>2 DEF TopWaits, Top
  <2> QED
    BY <2>2, <2>5, <2>6 DEF EInv, Types, PlansTyped, AskChild
<1> QED
  BY <1>c, <1>d

(* Every step of a group without outer references keeps the invariant. *)
LEMMA EInvNext == ASSUME ~OuterRefs, EInv, [Next]_vars PROVE EInv'
<1>1. ASSUME NEW c \in Requests, Ask(c) PROVE EInv'
  BY <1>1, AskKeeps
<1>2. CASE Schedule
  BY <1>2, ScheduleKeeps
<1>3. CASE Complete
  BY <1>3, CompleteKeeps
<1>4. CASE Refuse
  <2>1. exprs' \in Seq(Expr) /\ PlansTyped'
    BY <1>4 DEF Refuse, EInv, Types, PlansTyped
  <2> QED
    BY <1>4, <2>1, FinishedStep DEF Refuse, Ready
<1>5. CASE OptimizeBase
  <2>1. /\ stack # <<>> /\ Top.todo # <<>> /\ Current \in Base
        /\ FCheckEnfdProps(Current, Current.p, Top.c) /\ Finished
    BY <1>5 DEF OptimizeBase, Ready
  <2>2. Current \in Expr /\ Current.p \in Plan /\ Top.c \in Context
    BY <2>1, TopTypes, EnforcementAssumption DEF EInv, Expr, Frames
  <2>3. exprs' \in Seq(Expr) /\ PlansTyped'
    BY <2>1, <2>2, EnforceTypes DEF EInv, Types
  <2> QED
    BY <2>1, <2>3, FinishedStep
<1>6. CASE AskChild
  BY <1>6, AskChildKeeps
<1>7. CASE FinishChild
  <2> DEFINE cc == Prpp(Current, Top.c)
  <2>1. stack # <<>> /\ Top.asked /\ Top.todo # <<>> /\ Finished
    BY <1>7 DEF FinishChild, EInv, TopWaits
  <2>2. Current \in Expr /\ Top.c \in Context
    BY <2>1, TopTypes DEF EInv, Frames
  <2>3. exprs' \in Seq(Expr) /\ PlansTyped'
    <3>1. CASE cc \in DOMAIN best
      <4>1. best[cc].p \in Plan
        BY <3>1 DEF EInv, Types, PlansTyped
      <4>2. FCheckEnfdProps(Current, best[cc].p, Top.c)
        BY <1>7, <3>1 DEF FinishChild
      <4> QED
        BY <2>2, <4>1, <4>2, EnforceTypes DEF EInv, Types
    <3>2. CASE cc \notin DOMAIN best
      BY <1>7, <3>2 DEF FinishChild, EInv, Types, PlansTyped
    <3> QED
      BY <3>1, <3>2
  <2> QED
    BY <2>1, <2>3, FinishedStep
<1>8. CASE UNCHANGED vars
  BY <1>8 DEF vars, EInv, Types, PlansTyped, TopWaits, Top, Current
<1> QED
  BY <1>1, <1>2, <1>3, <1>4, <1>5, <1>6, <1>7, <1>8 DEF Next

(* In a group without outer references no enforcer is parked behind a job that
   waits for it, whatever engines are registered and whatever their transitions
   keep: the check of CEngine::FCheckReqdProps is enough "to prevent deadlocks". *)
THEOREM EnforcementNeverDeadlocks == ASSUME ~OuterRefs PROVE Spec => []NoSelfDeadlock
<1>1. Init => EInv
  BY EInvInit
<1>2. EInv /\ [Next]_vars => EInv'
  BY EInvNext
<1>3. EInv => NoSelfDeadlock
  BY DEF EInv, TopWaits, NoSelfDeadlock
<1> QED
  BY <1>1, <1>2, <1>3, PTL DEF Spec
-----------------------------------------------------------------------------
(* What the operators of a group have to keep to for plans to be valid.  Every
   transition keeps rewindability, because CBasePhysicalUnaryOp never asks for a
   spool over one. *)
TransitionsKeepRewindability ==
    \A e, f \in Engine : "rewindability" \in Preserve[e][f]

(* CPhysicalTableScan::PrsDerive; CPhysicalScan never asks for a spool either. *)
TableScansRewind ==
    \A x \in Base : x.op = "TableScan" => x.p.r = MarkRestore /\ ~x.p.h

(* Everything in the group runs on e, the operators of GetEngineForDefaultOp too. *)
Native(e) ==
    /\ \A x \in Base : x.p.e = e
    /\ \A op \in {"Sort", "Motion", "Spool"} : DefaultEngine[op] = e

(* A transition turns mark and restore into rewindability (PrsDerivePassThruOuter):
   who needs mark and restore, as CPhysicalFullMergeJoin does of its inner side on
   its own engine, asks a group where everything runs on that engine. *)
MarkOK(c) == c.r = MarkRestore => c.e = AnyEngine \/ Native(c.e)
MarkRestoreIsNative == \A c \in Requests : MarkOK(c)

PlanAssumptions ==
    ~OuterRefs /\ TransitionsKeepRewindability /\ TableScansRewind /\ MarkRestoreIsNative

(* No transition leads to an engine on which everything runs anyway. *)
TransitionOK(x) == x.op = "Transition" => "rewindability" \in x.keeps /\ ~Native(x.e)
TransitionsKeep == \A x \in ToSet(exprs) : TransitionOK(x)

(* Jobs are those of expressions in the list, a job that waits for a child is an
   admitted one of an enforcer, and a context is optimized once. *)
FrameOK(f) ==
    /\ f.by \in Enforcer \cup {NoExpr}
    /\ ToSet(f.todo) \subseteq ToSet(exprs)
    /\ f.seen <= Len(exprs)
    /\ f.asked => f.todo # <<>> /\ f.todo[1] \in Enforcer /\ FCheckReqdProps(f.todo[1], f.c)
    /\ MarkOK(f.c)
    /\ f.c \notin done

FramesOK == \A i \in 1 .. Len(stack) : FrameOK(stack[i])

(* The plan of a context stands on that of a context that is done. *)
BestOK ==
    \A c \in DOMAIN best :
        LET x == best[c].x
            cc == Prpp(x, c)
        IN  /\ x \in ToSet(exprs)
            /\ FSatisfied(best[c].p, c)
            /\ x \notin Base => cc \in done /\ cc \in DOMAIN best /\ best[c].p = Derive(x, best[cc].p)

PlanInv ==
    EInv /\ done \subseteq Context /\ TransitionsKeep /\ FramesOK /\ BestOK
-----------------------------------------------------------------------------
(* The expressions of a group stay in it when others are added. *)
LEMMA SetOfAppended ==
  ASSUME NEW S, NEW s \in Seq(S), NEW t \in Seq(S)
  PROVE  ToSet(s \o t) = ToSet(s) \cup ToSet(t) /\ Len(s) <= Len(s \o t)
<1>1. s \o t \in Seq(S) /\ Len(s \o t) = Len(s) + Len(t)
  OBVIOUS
<1>2. ASSUME NEW i \in 1 .. Len(s) PROVE (s \o t)[i] = s[i] /\ i \in 1 .. Len(s \o t)
  BY <1>1
<1>3. ASSUME NEW i \in 1 .. Len(t)
      PROVE (s \o t)[Len(s) + i] = t[i] /\ Len(s) + i \in 1 .. Len(s \o t)
  BY <1>1
<1>4. ASSUME NEW i \in 1 .. Len(s \o t), ~(i \in 1 .. Len(s))
      PROVE (s \o t)[i] = t[i - Len(s)] /\ i - Len(s) \in 1 .. Len(t)
  BY <1>1, <1>4
<1>a. DOMAIN s = 1 .. Len(s) /\ DOMAIN t = 1 .. Len(t) /\ DOMAIN (s \o t) = 1 .. Len(s \o t)
  BY <1>1
<1>5. ToSet(s) \subseteq ToSet(s \o t) /\ ToSet(t) \subseteq ToSet(s \o t)
  <2>1. ToSet(s) \subseteq ToSet(s \o t)
    BY <1>a, <1>2 DEF ToSet
  <2>2. ToSet(t) \subseteq ToSet(s \o t)
    BY <1>a, <1>3 DEF ToSet
  <2> QED
    BY <2>1, <2>2
<1>6. ToSet(s \o t) \subseteq ToSet(s) \cup ToSet(t)
  BY <1>1, <1>2, <1>4 DEF ToSet
<1> QED
  BY <1>1, <1>5, <1>6

(* The jobs of a batch are those of expressions in the list. *)
LEMMA BatchListed ==
  ASSUME NEW s \in Seq(Expr), NEW m \in Nat
  PROVE  ToSet(Reverse(SubSeq(s, m + 1, Len(s)))) \subseteq ToSet(s)
<1> DEFINE t == SubSeq(s, m + 1, Len(s))
<1>1. t \in Seq(Expr)
  OBVIOUS
<1>2. ASSUME NEW i \in 1 .. Len(t) PROVE \E j \in 1 .. Len(s) : t[i] = s[j]
  <2>1. /\ Len(t) = IF m + 1 <= Len(s) THEN Len(s) - (m + 1) + 1 ELSE 0
        /\ \A k \in 1 .. Len(s) - (m + 1) + 1 : t[k] = s[m + 1 + k - 1]
    BY SubSeqProperties
  <2>2. m + 1 + i - 1 \in 1 .. Len(s) /\ i \in 1 .. Len(s) - (m + 1) + 1
    BY <2>1
  <2> QED
    BY <2>1, <2>2
<1> HIDE DEF t
<1>3. Reverse(t) = [i \in 1 .. Len(t) |-> t[(Len(t) - i) + 1]]
  BY DEF Reverse
<1>4. ASSUME NEW i \in 1 .. Len(t) PROVE (Len(t) - i) + 1 \in 1 .. Len(t)
  BY <1>1
<1>5. DOMAIN Reverse(t) = 1 .. Len(t) /\ DOMAIN s = 1 .. Len(s)
  BY <1>3
<1>6. ASSUME NEW i \in 1 .. Len(t) PROVE \E j \in 1 .. Len(s) : Reverse(t)[i] = s[j]
  <2>1. Reverse(t)[i] = t[(Len(t) - i) + 1]
    BY <1>3
  <2> QED
    BY <1>2, <1>4, <2>1
<1> QED
  BY <1>5, <1>6 DEF t, ToSet

(* The jobs that are left are jobs that were there. *)
LEMMA TailListed ==
  ASSUME NEW s \in Seq(Expr), s # <<>>
  PROVE  ToSet(Tail(s)) \subseteq ToSet(s) /\ s[1] \in ToSet(s)
<1>1. Tail(s) \in Seq(Expr) /\ Len(Tail(s)) = Len(s) - 1 /\ Len(s) >= 1
  OBVIOUS
<1>2. ASSUME NEW i \in 1 .. Len(Tail(s)) PROVE Tail(s)[i] = s[i + 1] /\ i + 1 \in 1 .. Len(s)
  BY <1>1
<1> QED
  BY <1>1, <1>2 DEF ToSet
-----------------------------------------------------------------------------
(* The transitions among the enforcers that are added keep rewindability. *)
LEMMA EnforcersKeep ==
  ASSUME TransitionsKeepRewindability, NEW x, NEW p \in Plan, NEW c \in Context,
         EpetEngine(x, p, c) = "Required" => ~Native(c.e)
  PROVE  \A y \in ToSet(AppendEnforcers(x, p, c)) : TransitionOK(y)
<1> DEFINE S == {y \in Expr : TransitionOK(y)}
           s == AppendEnforcers(x, p, c)
<1>1. ASSUME c.e \in Engine, EpetEngine(x, p, c) = "Required"
      PROVE  TransitionOp(c.e, Preserve[p.e][c.e]) \in S
  <2>1. Preserve[p.e][c.e] \in SUBSET Property /\ p.e \in Engine
    BY <1>1, EnforcementAssumption DEF Plan
  <2>2. TransitionOp(c.e, Preserve[p.e][c.e]).keeps = Preserve[p.e][c.e]
    BY DEF TransitionOp
  <2>3. "rewindability" \in Preserve[p.e][c.e]
    BY <1>1, <2>1 DEF TransitionsKeepRewindability
  <2>4. TransitionOp(c.e, Preserve[p.e][c.e]).e = c.e
    BY DEF TransitionOp
  <2>5. TransitionOK(TransitionOp(c.e, Preserve[p.e][c.e]))
    BY <1>1, <2>2, <2>3, <2>4 DEF TransitionOK
  <2> QED
    BY <1>1, <2>1, <2>5 DEF Expr, Enforcer
<1>2. {SortOp, HashMotionOp, GatherOp, GatherMergeOp} \subseteq S
  BY DEF Expr, Enforcer, SortOp, HashMotionOp, GatherOp, GatherMergeOp, TransitionOK
<1>3. \A b \in BOOLEAN : SpoolOp(b) \in S
  <2>1. \A b \in BOOLEAN : SpoolOp(b) \in Expr
    BY DEF Expr, Enforcer
  <2>2. \A b \in BOOLEAN : SpoolOp(b).op # "Transition"
    BY DEF SpoolOp
  <2> QED
    BY <2>1, <2>2 DEF TransitionOK
<1> HIDE DEF S
<1>4. s \in Seq(S)
  BY <1>1, <1>2, <1>3, EnforcersAmong
<1>5. ToSet(s) \subseteq S
  <2> HIDE DEF s
  <2> QED
    BY <1>4 DEF ToSet
<1> QED
  BY <1>5 DEF S

(* Where everything runs on the engine of a context, no transition is added. *)
LEMMA NativeNeedsNone ==
  ASSUME NEW x \in Expr, NEW q \in Plan, NEW c \in Context,
         EpetEngine(x, Derive(x, q), c) = "Required"
  PROVE  ~Native(c.e)
<1>1. x.op # "Transition" /\ c.e # AnyEngine /\ ~EngineOK(Derive(x, q).e, c)
  BY DEF EpetEngine, Unless
<1>2. Derive(x, q).e # c.e
  BY <1>1 DEF EngineOK
<1>3. CASE x \in Base
  <2>1. x.op \in {"TableScan", "ExternalScan", "Filter"}
    BY <1>3, EnforcementAssumption
  <2>2. Derive(x, q) = x.p
    BY <2>1 DEF Derive, IsMotion
  <2> QED
    BY <1>2, <1>3, <2>2 DEF Native
<1>4. CASE x \in Enforcer
  <2>1. CASE x = SortOp
    BY <1>2, <2>1 DEF SortOp, Derive, IsMotion, SortDrvd, Native
  <2>2. CASE x \in {GatherOp, GatherMergeOp, HashMotionOp}
    BY <1>2, <2>2 DEF GatherOp, GatherMergeOp, HashMotionOp, Derive, IsMotion, MotionDrvd, Native
  <2>3. CASE \E b \in BOOLEAN : x = SpoolOp(b)
    BY <1>2, <2>3 DEF SpoolOp, Derive, IsMotion, SpoolDrvd, Native
  <2>4. CASE \E e \in Engine, k \in SUBSET Property : x = TransitionOp(e, k)
    BY <1>1, <2>4 DEF TransitionOp
  <2> QED
    BY <1>4, <2>1, <2>2, <2>3, <2>4 DEF Enforcer
<1> QED
  BY <1>3, <1>4 DEF Expr

(* The enforcement functions agree with the derivation functions.  An expression
   of the implementation rules for which no enforcer is required or prohibited
   delivers the context. *)
LEMMA BaseDelivers ==
  ASSUME TableScansRewind, NEW x \in Base, NEW c \in Context, FOptimize(x, x.p, c)
  PROVE  FSatisfied(x.p, c)
<1>1. x.op \in {"TableScan", "ExternalScan", "Filter"} /\ x.p \in Plan
  BY EnforcementAssumption
<1>2. /\ EpetOrder(x, x.p, c) = "Unnecessary" /\ EpetDistribution(x, x.p, c) = "Unnecessary"
      /\ EpetRewindability(x, x.p, c) = "Unnecessary" /\ EpetEngine(x, x.p, c) = "Unnecessary"
  BY DEF FOptimize, Epets
<1>3. OrderOK(x.p, c)
  BY <1>1, <1>2 DEF EpetOrder, OrderOK
<1>4. DistributionOK(x.p.d, c)
  BY <1>1, <1>2 DEF EpetDistribution, Unless, DistributionOK, IsMotion
<1>5. RewindOK(x.p, c)
  <2>1. CASE x.op = "TableScan"
    BY <2>1 DEF TableScansRewind, RewindOK, Context, MarkRestore, None
  <2>2. CASE x.op \in {"ExternalScan", "Filter"}
    BY <1>2, <2>2 DEF EpetRewindability, RewindOK, Unless, IsMotion
  <2> QED
    BY <1>1, <2>1, <2>2
<1>6. EngineOK(x.p.e, c)
  BY <1>1, <1>2 DEF EpetEngine, EngineOK, Unless
<1> QED
  BY <1>3, <1>4, <1>5, <1>6 DEF FSatisfied

(* So does an enforcer over a plan that delivers what it asked of its child, if its
   own FValidContext accepts the plan. *)
LEMMA EnforcerDelivers ==
  ASSUME ~OuterRefs, NEW x \in Enforcer, NEW c \in Context, NEW q \in Plan,
         TransitionOK(x), MarkOK(c),
         FCheckReqdProps(x, c), FSatisfied(q, Prpp(x, c)),
         FOptimize(x, Derive(x, q), c), FValidContext(x, q, c)
  PROVE  FSatisfied(Derive(x, q), c)
<1> DEFINE p == Derive(x, q)
<1>2. /\ EpetOrder(x, p, c) = "Unnecessary" /\ EpetDistribution(x, p, c) = "Unnecessary"
      /\ EpetRewindability(x, p, c) = "Unnecessary" /\ EpetEngine(x, p, c) = "Unnecessary"
  BY DEF FOptimize, Epets
<1>a. c.r \in 0 .. 3 /\ c.o \in BOOLEAN /\ c.h \in BOOLEAN /\ c.e \in Engine \cup {AnyEngine}
  BY DEF Context, None, MarkRestore
<1>b. q.r \in 0 .. 3 /\ q.o \in BOOLEAN /\ q.h \in BOOLEAN /\ q.e \in Engine /\ q.d # "Any"
  BY DEF Plan, None, MarkRestore
<1>c. DefaultEngine["Sort"] \in Engine /\ DefaultEngine["Spool"] \in Engine /\ DefaultEngine["Motion"] \in Engine
  BY EnforcementAssumption
<1>3. CASE x = SortOp
  <2>1. p = SortDrvd(q) /\ Prpp(x, c) = SortReqd(c) /\ x.op = "Sort"
    BY <1>3 DEF SortOp, Derive, Prpp, IsMotion
  <2> HIDE DEF p
  <2>2. OrderOK(p, c)
    BY <2>1 DEF SortDrvd, OrderOK
  <2>3. DistributionOK(p.d, c)
    BY <2>1 DEF SortDrvd, SortReqd, FSatisfied, DistributionOK
  <2>4. RewindOK(p, c)
    BY <2>1, <1>a DEF SortDrvd, RewindOK, MarkRestore
  <2>5. EngineOK(p.e, c)
    BY <2>1, <1>2 DEF EpetEngine, EngineOK, Unless
  <2> QED
    BY <2>2, <2>3, <2>4, <2>5 DEF FSatisfied, p
<1>4. CASE x \in {GatherOp, GatherMergeOp, HashMotionOp}
  <2>1. p = MotionDrvd(x) /\ IsMotion(x) /\ x.op \in {"Gather", "GatherMerge", "HashMotion"}
    BY <1>4 DEF GatherOp, GatherMergeOp, HashMotionOp, Derive, IsMotion
  <2> HIDE DEF p
  <2>2. OrderOK(p, c)
    BY <2>1, <1>2 DEF MotionDrvd, OrderOK, EpetOrder
  <2>3. DistributionOK(p.d, c)
    BY <2>1, <1>2 DEF EpetDistribution, Unless, DistributionOK
  <2>4. RewindOK(p, c)
    <3>1. c.r = None
      BY <2>1, <1>2 DEF EpetRewindability
    <3> QED
      BY <3>1 DEF RewindOK
  <2>5. EngineOK(p.e, c)
    BY <2>1, <1>2 DEF EpetEngine, EngineOK, Unless
  <2> QED
    BY <2>2, <2>3, <2>4, <2>5 DEF FSatisfied, p
<1>5. CASE \E b \in BOOLEAN : x = SpoolOp(b)
  <2>1. p = SpoolDrvd(x, q) /\ Prpp(x, c) = SpoolReqd(x, c) /\ x.op = "Spool" /\ x.eager \in BOOLEAN
    BY <1>5 DEF SpoolOp, Derive, Prpp, IsMotion
  <2> HIDE DEF p
  <2>2. OrderOK(p, c)
    BY <2>1, <1>a, <1>b DEF SpoolDrvd, SpoolReqd, FSatisfied, OrderOK
  <2>3. DistributionOK(p.d, c)
    BY <2>1 DEF SpoolDrvd, SpoolReqd, FSatisfied, DistributionOK
  <2>4. RewindOK(p, c)
    <3>1. p.r = 3 /\ p.r >= c.r
      BY <2>1, <1>a DEF SpoolDrvd, MarkRestore
    <3>2. p.h = (q.h /\ ~x.eager)
      BY <2>1 DEF SpoolDrvd
    <3>3. ~(c.h /\ p.h)
      BY <3>2, <2>1 DEF FValidContext
    <3> QED
      BY <3>1, <3>3 DEF RewindOK
  <2>5. EngineOK(p.e, c)
    BY <2>1, <1>2 DEF EpetEngine, EngineOK, Unless
  <2> QED
    BY <2>2, <2>3, <2>4, <2>5 DEF FSatisfied, p
<1>6. CASE \E e \in Engine, k \in SUBSET Property : x = TransitionOp(e, k)
  <2>1. /\ p = TransitionDrvd(x, q) /\ Prpp(x, c) = TransitionReqd(c) /\ x.op = "Transition"
        /\ p.e = x.e /\ "rewindability" \in x.keeps
    BY <1>6 DEF TransitionOp, Derive, Prpp, IsMotion, TransitionDrvd, TransitionOK
  <2> HIDE DEF p
  <2>2. OrderOK(p, c)
    BY <2>1, <1>2 DEF OrderOK, EpetOrder, Unless
  <2>3. DistributionOK(p.d, c)
    BY <2>1, <1>2 DEF EpetDistribution, Unless, DistributionOK, IsMotion
  <2>4. RewindOK(p, c)
    <3>a. c.e # AnyEngine /\ x.e = c.e
      BY <2>1, <1>2, <1>a DEF FCheckReqdProps, EpetEngine, EngineOK, Unless
    <3>1. c.r # 3
      BY <2>1, <3>a DEF MarkOK, TransitionOK, MarkRestore
    <3>2. c.r = 0 \/ (q.r >= c.r /\ ~(c.h /\ q.h))
      BY <2>1 DEF FSatisfied, RewindOK, TransitionReqd, None
    <3>3. p.r = (IF q.r = 3 THEN 2 ELSE q.r) /\ p.h = q.h
      BY <2>1 DEF TransitionDrvd, MarkRestore, Rewindable
    <3> QED
      BY <3>1, <3>2, <3>3, <1>a, <1>b DEF RewindOK, None
  <2>5. EngineOK(p.e, c)
    BY <2>1, <1>2 DEF EpetEngine, EngineOK, Unless
  <2> QED
    BY <2>2, <2>3, <2>4, <2>5 DEF FSatisfied, p
<1> QED
  BY <1>3, <1>4, <1>5, <1>6 DEF Enforcer
-----------------------------------------------------------------------------
(* Enforcing over a plan under the innermost context, for an expression of the
   group whose plan stands on one that is done. *)
LEMMA EnforceKeepsPlans ==
  ASSUME PlanInv, TransitionsKeepRewindability, UNCHANGED done,
         NEW x \in ToSet(exprs), NEW q \in Plan, NEW c \in Context,
         c \notin done,
         x \notin Base => /\ Prpp(x, c) \in done /\ Prpp(x, c) \in DOMAIN best
                         /\ q = best[Prpp(x, c)].p,
         FCheckEnfdProps(x, q, c)
  PROVE  /\ exprs' \in Seq(Expr) /\ ToSet(exprs) \subseteq ToSet(exprs')
         /\ Len(exprs) <= Len(exprs') /\ TransitionsKeep' /\ BestOK'
<1> DEFINE p == Derive(x, q)
           s == AppendEnforcers(x, p, c)
<1>1. exprs \in Seq(Expr) /\ x \in Expr
  <2>1. exprs \in Seq(Expr)
    BY DEF PlanInv, EInv, Types
  <2> QED
    BY <2>1 DEF ToSet
<1>2. p \in Plan
  BY <1>1, DeriveType
<1>3. s \in Seq(Expr)
  BY <1>2, EnforcersType
<1>4. \A y \in ToSet(s) : TransitionOK(y)
  BY <1>1, <1>2, NativeNeedsNone, EnforcersKeep
<1>5. ToSet(exprs \o s) = ToSet(exprs) \cup ToSet(s) /\ Len(exprs) <= Len(exprs \o s)
  BY <1>1, <1>3, SetOfAppended
<1>6. exprs' = exprs \/ exprs' = exprs \o s
  BY DEF FCheckEnfdProps
<1>7. exprs' \in Seq(Expr) /\ ToSet(exprs) \subseteq ToSet(exprs') /\ Len(exprs) <= Len(exprs')
  <2>1. CASE exprs' = exprs
    BY <1>1, <2>1
  <2>2. CASE exprs' = exprs \o s
    <3> HIDE DEF s
    <3>1. exprs \o s \in Seq(Expr)
      BY <1>1, <1>3
    <3> QED
      BY <1>5, <2>2, <3>1
  <2> QED
    BY <1>6, <2>1, <2>2
<1>8. TransitionsKeep'
  BY <1>4, <1>5, <1>6 DEF TransitionsKeep, TransitionOK, PlanInv
<1>9. UNCHANGED best \/ (SetBest(c, x, p) /\ Costed(x, q, c))
  BY DEF FCheckEnfdProps
<1>a. BestOK'
  <2> SUFFICES ASSUME NEW k \in DOMAIN best'
               PROVE  /\ best'[k].x \in ToSet(exprs')
                      /\ FSatisfied(best'[k].p, k)
                      /\ best'[k].x \notin Base =>
                            /\ Prpp(best'[k].x, k) \in done /\ Prpp(best'[k].x, k) \in DOMAIN best'
                            /\ best'[k].p = Derive(best'[k].x, best'[Prpp(best'[k].x, k)].p)
    BY DEF BestOK, FSatisfied, OrderOK, DistributionOK, RewindOK, EngineOK, Prpp, Derive
  <2>1. CASE UNCHANGED best
    BY <1>7, <2>1 DEF PlanInv, BestOK
  <2>2. CASE SetBest(c, x, p) /\ Costed(x, q, c)
    <3>1. best' = [j \in DOMAIN best \cup {c} |-> IF j = c THEN [x |-> x, p |-> p] ELSE best[j]]
      BY <2>2 DEF SetBest
    <3>2. CASE k = c
      <4>1. best'[k].x = x /\ best'[k].p = p
        BY <3>1, <3>2
      <4>2. FSatisfied(p, c)
        BY <2>2 DEF Costed
      <4>3. ASSUME x \notin Base
            PROVE  /\ Prpp(x, c) \in done /\ Prpp(x, c) \in DOMAIN best'
                   /\ best'[Prpp(x, c)].p = q
        <5>1. Prpp(x, c) \in done /\ Prpp(x, c) \in DOMAIN best /\ q = best[Prpp(x, c)].p
          BY <4>3
        <5>2. Prpp(x, c) # c
          BY <5>1
        <5> QED
          BY <3>1, <5>1, <5>2
      <4> QED
        BY <1>7, <3>2, <4>1, <4>2, <4>3
    <3>3. CASE k # c
      <4>1. k \in DOMAIN best /\ best'[k] = best[k]
        BY <3>1, <3>3
      <4>2. /\ best[k].x \in ToSet(exprs) /\ FSatisfied(best[k].p, k)
            /\ best[k].x \notin Base => 
                 /\ Prpp(best[k].x, k) \in done /\ Prpp(best[k].x, k) \in DOMAIN best
                 /\ best[k].p = Derive(best[k].x, best[Prpp(best[k].x, k)].p)
        BY <4>1 DEF PlanInv, BestOK
      <4>3. ASSUME NEW j \in done, j \in DOMAIN best PROVE j \in DOMAIN best' /\ best'[j] = best[j]
        BY <3>1, <4>3
      <4> QED
        BY <1>7, <4>1, <4>2, <4>3
    <3> QED
      BY <3>2, <3>3
  <2> QED
    BY <1>9, <2>1, <2>2
<1> QED
  BY <1>7, <1>8, <1>a
(* The steps that end the job of the current expression. *)
LEMMA FinishedKeepsFrames ==
  ASSUME PlanInv, stack # <<>>, Top.todo # <<>>, Finished, UNCHANGED done,
         exprs' \in Seq(Expr), ToSet(exprs) \subseteq ToSet(exprs'), Len(exprs) <= Len(exprs')
  PROVE  FramesOK'
<1> DEFINE f == [Top EXCEPT !.todo = Tail(Top.todo), !.asked = FALSE]
<1>1. stack \in Seq(Frames) /\ exprs \in Seq(Expr)
  BY DEF PlanInv, EInv, Types
<1>2. Len(stack) \in 1 .. Len(stack) /\ Len(stack') = Len(stack)
      /\ \A i \in 1 .. Len(stack) : stack'[i] = IF i = Len(stack) THEN f ELSE stack[i]
  BY <1>1 DEF Finished
<1>3. ASSUME NEW i \in 1 .. Len(stack) PROVE stack[i] \in Frames /\ FrameOK(stack[i])
  BY <1>1 DEF PlanInv, FramesOK
<1>4. Top \in Frames /\ FrameOK(Top)
  BY <1>2, <1>3 DEF Top
<1>5. FrameOK(f)
  <2>1. Top.todo \in Seq(Expr)
    BY <1>4 DEF Frames
  <2>2. ToSet(Tail(Top.todo)) \subseteq ToSet(Top.todo)
    BY <2>1, TailListed
  <2>3. f.by = Top.by /\ f.seen = Top.seen /\ f.c = Top.c /\ f.asked = FALSE /\ f.todo = Tail(Top.todo)
    BY <1>4 DEF Frames
  <2> HIDE DEF f
  <2> QED
    BY <1>4, <2>2, <2>3 DEF FrameOK
<1>6. f.seen \in Nat
  BY <1>4 DEF Frames
<1> HIDE DEF f
<1>7. ASSUME NEW i \in 1 .. Len(stack) PROVE FrameOK(stack'[i]) /\ stack'[i].seen \in Nat
  BY <1>2, <1>3, <1>5, <1>6 DEF Frames
<1>8. Len(exprs) \in Nat /\ Len(exprs') \in Nat
  BY <1>1
<1> SUFFICES ASSUME NEW i \in 1 .. Len(stack') PROVE FrameOK(stack[i])'
  BY DEF FramesOK
<1>9. FrameOK(stack'[i]) /\ stack'[i].seen \in Nat
  BY <1>2, <1>7
<1>a. stack'[i].c \notin done'
  BY <1>9 DEF FrameOK
<1> QED
  BY <1>8, <1>9, <1>a DEF FrameOK, FCheckReqdProps, IsMotion

(* At the start the list holds the base expressions and there are no plans. *)
LEMMA PlanInvInit == PlanAssumptions /\ Init => PlanInv
<1> SUFFICES ASSUME Init PROVE PlanInv
  OBVIOUS
<1>1. EInv
  BY EInvInit
<1>2. exprs \in [1 .. Cardinality(Base) -> Base]
  BY DEF Init, SetToSeqs
<1>3. ToSet(exprs) \subseteq Base
  BY <1>2 DEF ToSet
<1>4. TransitionsKeep
  BY <1>3, EnforcementAssumption DEF TransitionsKeep, TransitionOK
<1>5. FramesOK /\ BestOK /\ done \subseteq Context
  BY DEF Init, FramesOK, BestOK
<1> QED
  BY <1>1, <1>4, <1>5 DEF PlanInv

(* A request starts a stack with a context that is not done. *)
LEMMA AskKeepsPlans == ASSUME PlanAssumptions, PlanInv, NEW c \in Requests, Ask(c) PROVE PlanInv'
<1>1. EInv'
  BY AskKeeps DEF PlanInv
<1>2. stack' = <<Frame(c, NoExpr)>> /\ UNCHANGED <<exprs, done, best>> /\ c \notin done
  BY DEF Ask
<1>3. FramesOK'
  <2>1. exprs \in Seq(Expr) /\ Len(exprs) \in Nat
    BY DEF PlanInv, EInv, Types
  <2>2. ToSet(<<>>) = {}
    BY DEF ToSet
  <2>3. FrameOK(Frame(c, NoExpr))
    BY <1>2, <2>1, <2>2 DEF FrameOK, Frame, PlanAssumptions, MarkRestoreIsNative
  <2>4. Len(stack') = 1 /\ stack'[1] = Frame(c, NoExpr)
    BY <1>2
  <2>5. FrameOK(stack'[1])
    BY <2>3, <2>4
  <2> SUFFICES ASSUME NEW i \in 1 .. Len(stack') PROVE FrameOK(stack[i])'
    BY DEF FramesOK
  <2>6. FrameOK(stack'[i])
    BY <2>4, <2>5
  <2> QED
    BY <1>2, <2>6 DEF FrameOK, FCheckReqdProps, IsMotion
<1>4. (done \subseteq Context)' /\ TransitionsKeep' /\ BestOK'
  BY <1>2 DEF PlanInv, TransitionsKeep, BestOK
<1> QED
  BY <1>1, <1>3, <1>4 DEF PlanInv

(* A batch is made of expressions of the list. *)
LEMMA ScheduleKeepsPlans == ASSUME PlanInv, Schedule PROVE PlanInv'
<1> DEFINE f == [Top EXCEPT !.todo = Batch, !.seen = Len(exprs)]
<1>1. EInv'
  BY ScheduleKeeps DEF PlanInv
<1>2. stack \in Seq(Frames) /\ exprs \in Seq(Expr) /\ stack # <<>>
  BY DEF PlanInv, EInv, Types, Schedule
<1>3. /\ Len(stack) \in 1 .. Len(stack) /\ Len(stack') = Len(stack)
      /\ \A i \in 1 .. Len(stack) : stack'[i] = IF i = Len(stack) THEN f ELSE stack[i]
      /\ UNCHANGED <<exprs, done, best>>
  BY <1>2 DEF Schedule
<1>4. Top \in Frames /\ FrameOK(Top) /\ Top.todo = <<>>
  BY <1>2, <1>3 DEF Top, PlanInv, FramesOK, Schedule
<1>5. FrameOK(f)
  <2>1. ToSet(Batch) \subseteq ToSet(exprs)
    BY <1>2, <1>4, BatchListed DEF Batch, Frames
  <2>2. f.by = Top.by /\ f.seen = Len(exprs) /\ f.c = Top.c /\ f.asked = Top.asked /\ f.todo = Batch
    BY <1>4 DEF Frames
  <2>3. Len(exprs) \in Nat /\ ~Top.asked
    BY <1>2, <1>4 DEF FrameOK
  <2> HIDE DEF f
  <2> QED
    BY <1>4, <2>1, <2>2, <2>3 DEF FrameOK
<1> HIDE DEF f
<1>6. FramesOK'
  <2> SUFFICES ASSUME NEW i \in 1 .. Len(stack') PROVE FrameOK(stack[i])'
    BY DEF FramesOK
  <2>1. FrameOK(stack'[i])
    BY <1>3, <1>5 DEF PlanInv, FramesOK
  <2> QED
    BY <1>3, <2>1 DEF FrameOK, FCheckReqdProps, IsMotion
<1>7. (done \subseteq Context)' /\ TransitionsKeep' /\ BestOK'
  BY <1>3 DEF PlanInv, TransitionsKeep, BestOK
<1> QED
  BY <1>1, <1>6, <1>7 DEF PlanInv

(* The context that becomes done occurs only once on the stack. *)
LEMMA CompleteKeepsPlans == ASSUME PlanInv, Complete PROVE PlanInv'
<1>1. EInv'
  BY CompleteKeeps DEF PlanInv
<1>2. stack \in Seq(Frames) /\ exprs \in Seq(Expr) /\ stack # <<>> /\ Descending(stack)
  BY DEF PlanInv, EInv, Types, Complete
<1>3. /\ stack' = SubSeq(stack, 1, Len(stack) - 1) /\ done' = done \cup {Top.c}
      /\ UNCHANGED <<exprs, best>>
  BY DEF Complete
<1>4. /\ Len(stack) \in Nat /\ Len(stack') = Len(stack) - 1
      /\ \A i \in 1 .. Len(stack) - 1 : stack'[i] = stack[i]
  <2>1. stack' \in Seq(Frames) /\ Len(stack') = Len(stack) - 1 /\ \A i \in 1 .. Len(stack) - 1 : stack'[i] = stack[i]
    BY <1>2, <1>3, WithoutTop, Zenon
  <2> QED
    BY <1>2, <2>1
<1>5. ASSUME NEW i \in 1 .. Len(stack) PROVE stack[i] \in Frames /\ FrameOK(stack[i])
  BY <1>2 DEF PlanInv, FramesOK
<1>6. FramesOK'
  <2> SUFFICES ASSUME NEW i \in 1 .. Len(stack') PROVE FrameOK(stack[i])'
    BY DEF FramesOK
  <2>1. i \in 1 .. Len(stack) /\ i < Len(stack) /\ stack'[i] = stack[i] /\ Len(stack) \in 1 .. Len(stack)
    BY <1>4
  <2>2. Rank(Top.c) < Rank(stack[i].c)
    BY <1>2, <2>1 DEF Descending, Top
  <2>3. Rank(Top.c) \in Int
    <3>1. Top \in Frames
      BY <1>5, <2>1 DEF Top
    <3>2. Top.c \in Context
      BY <3>1 DEF Frames
    <3> QED
      BY <3>2, RankType
  <2>4. stack[i].c # Top.c
    BY <2>2, <2>3
  <2>5. FrameOK(stack[i])
    BY <1>5, <2>1
  <2> QED
    BY <1>3, <2>1, <2>4, <2>5 DEF FrameOK, FCheckReqdProps, IsMotion
<1>7. (done \subseteq Context)'
  <2>1. Top \in Frames
    BY <1>2, <1>4, <1>5 DEF Top
  <2> QED
    BY <1>3, <2>1 DEF PlanInv, Frames
<1>8. TransitionsKeep' /\ BestOK'
  BY <1>3 DEF PlanInv, TransitionsKeep, BestOK
<1> QED
  BY <1>1, <1>6, <1>7, <1>8 DEF PlanInv

(* The child context is pushed only if it is not done; only a transition passes the
   demand for mark and restore on, to no particular engine. *)
LEMMA AskChildKeepsPlans == ASSUME PlanAssumptions, PlanInv, AskChild PROVE PlanInv'
<1> DEFINE cc == Prpp(Current, Top.c)
           f == [Top EXCEPT !.asked = TRUE]
           asleep == [stack EXCEPT ![Len(stack)] = [Top EXCEPT !.asked = TRUE]]
           g == Frame(cc, Current)
<1>1. EInv'
  BY AskChildKeeps DEF PlanInv, PlanAssumptions
<1>2. stack \in Seq(Frames) /\ exprs \in Seq(Expr) /\ stack # <<>> /\ Top.todo # <<>>
  BY DEF PlanInv, EInv, Types, AskChild, Ready
<1>3. Len(stack) \in Nat /\ Len(stack) \in 1 .. Len(stack)
  BY <1>2
<1>4. ASSUME NEW i \in 1 .. Len(stack) PROVE stack[i] \in Frames /\ FrameOK(stack[i])
  BY <1>2 DEF PlanInv, FramesOK
<1>5. Top \in Frames /\ FrameOK(Top)
  BY <1>3, <1>4 DEF Top
<1>6. Current \in Enforcer /\ FCheckReqdProps(Current, Top.c)
  BY <1>2, TopTypes DEF PlanInv, EInv, AskChild, Admitted, Expr
<1>7. FrameOK(f)
  <2>1. f.by = Top.by /\ f.seen = Top.seen /\ f.c = Top.c /\ f.asked = TRUE /\ f.todo = Top.todo
    BY <1>5 DEF Frames
  <2> HIDE DEF f
  <2> QED
    BY <1>2, <1>5, <1>6, <2>1 DEF FrameOK, Current
<1>8. MarkOK(cc)
  <2>1. CASE Current = SortOp
    BY <2>1 DEF SortOp, Prpp, SortReqd, IsMotion, BlockingReqd, PlanAssumptions, MarkOK, MarkRestore,
                None
  <2>2. CASE Current \in {GatherOp, GatherMergeOp, HashMotionOp}
    BY <2>2 DEF GatherOp, GatherMergeOp, HashMotionOp, Prpp, MotionReqd, IsMotion, MarkOK,
                MarkRestore, None
  <2>3. CASE \E b \in BOOLEAN : Current = SpoolOp(b)
    BY <2>3 DEF SpoolOp, Prpp, SpoolReqd, IsMotion, BlockingReqd, PlanAssumptions, MarkOK, MarkRestore,
                None
  <2>4. CASE \E e \in Engine, k \in SUBSET Property : Current = TransitionOp(e, k)
    BY <2>4 DEF TransitionOp, Prpp, TransitionReqd, IsMotion, MarkOK
  <2> QED
    BY <1>6, <2>1, <2>2, <2>3, <2>4 DEF Enforcer
<1>9. ASSUME cc \notin done PROVE FrameOK(g)
  <2>1. g.by = Current /\ g.seen = 0 /\ g.c = cc /\ g.asked = FALSE /\ g.todo = <<>>
    BY DEF Frame
  <2>2. ToSet(<<>>) = {} /\ Len(exprs) \in Nat
    BY <1>2 DEF ToSet
  <2> HIDE DEF g, cc
  <2> QED
    BY <1>6, <1>8, <1>9, <2>1, <2>2 DEF FrameOK
<1>a. /\ stack' = IF cc \in done \cup {stack[i].c : i \in 1 .. Len(stack)}
                  THEN asleep ELSE Append(asleep, g)
      /\ UNCHANGED <<exprs, done, best>>
  BY DEF AskChild
<1>b. /\ Len(asleep) = Len(stack)
      /\ \A i \in 1 .. Len(stack) : asleep[i] = IF i = Len(stack) THEN f ELSE stack[i]
      /\ asleep \in Seq(Frames)
  <2>1. f \in Frames
    BY <1>5 DEF Frames
  <2>2. asleep = [stack EXCEPT ![Len(stack)] = f]
    OBVIOUS
  <2>3. DOMAIN stack = 1 .. Len(stack)
    BY <1>2
  <2> HIDE DEF f, asleep
  <2>4. asleep \in Seq(Frames) /\ Len(asleep) = Len(stack)
    BY <1>2, <1>3, <2>1, <2>2, ExceptSeq
  <2> QED
    BY <2>2, <2>3, <2>4
<1> HIDE DEF f, g, cc, asleep
<1>c. \A i \in 1 .. Len(stack) : FrameOK(asleep[i])
  BY <1>4, <1>7, <1>b
<1>d. \A i \in 1 .. Len(stack') : FrameOK(stack'[i])
  <2>1. CASE stack' = asleep
    BY <1>b, <1>c, <2>1
  <2>2. CASE stack' = Append(asleep, g) /\ cc \notin done
    <3>1. Len(stack') = Len(stack) + 1
      BY <1>3, <1>b, <2>2
    <3>2. ASSUME NEW i \in 1 .. Len(stack) + 1
          PROVE  stack'[i] = IF i = Len(stack) + 1 THEN g ELSE asleep[i]
      BY <1>3, <1>b, <2>2
    <3>3. ASSUME NEW i \in 1 .. Len(stack) + 1, i # Len(stack) + 1 PROVE i \in 1 .. Len(stack)
      BY <1>3, <3>3
    <3> QED
      BY <1>9, <1>c, <2>2, <3>1, <3>2, <3>3
  <2> QED
    BY <1>a, <2>1, <2>2
<1>e. FramesOK'
  <2> SUFFICES ASSUME NEW i \in 1 .. Len(stack') PROVE FrameOK(stack[i])'
    BY DEF FramesOK
  <2> QED
    BY <1>a, <1>d DEF FrameOK, FCheckReqdProps, IsMotion
<1>f. (done \subseteq Context)' /\ TransitionsKeep' /\ BestOK'
  BY <1>a DEF PlanInv, TransitionsKeep, BestOK
<1> QED
  BY <1>1, <1>e, <1>f DEF PlanInv

(* The expression whose job is executed next is in the list. *)
LEMMA CurrentListed ==
  ASSUME PlanInv, stack # <<>>, Top.todo # <<>>
  PROVE  /\ Top \in Frames /\ FrameOK(Top) /\ Top.c \in Context /\ Top.c \notin done
         /\ Current \in ToSet(exprs) /\ Current \in Expr
<1>1. stack \in Seq(Frames) /\ Top \in Frames /\ Current \in Expr
  BY TopTypes DEF PlanInv, EInv, Types
<1>2. Len(stack) \in 1 .. Len(stack)
  BY <1>1
<1>3. FrameOK(Top)
  BY <1>2 DEF PlanInv, FramesOK, Top
<1>4. Top.todo \in Seq(Expr)
  BY <1>1 DEF Frames
<1>5. Current \in ToSet(Top.todo)
  BY <1>4, TailListed DEF Current
<1> QED
  BY <1>1, <1>3, <1>5 DEF FrameOK, Frames

(* Every step keeps the invariant of plans. *)
LEMMA PlanInvNext == ASSUME PlanAssumptions, PlanInv, [Next]_vars PROVE PlanInv'
<1>0. EInv' /\ TransitionsKeepRewindability
  BY EInvNext DEF PlanInv, PlanAssumptions
<1>1. ASSUME NEW c \in Requests, Ask(c) PROVE PlanInv'
  BY <1>1, AskKeepsPlans
<1>2. CASE Schedule
  BY <1>2, ScheduleKeepsPlans
<1>3. CASE Complete
  BY <1>3, CompleteKeepsPlans
<1>4. CASE AskChild
  BY <1>4, AskChildKeepsPlans
<1>5. CASE Refuse
  <2>1. stack # <<>> /\ Top.todo # <<>> /\ Finished /\ UNCHANGED <<exprs, done, best>>
    BY <1>5 DEF Refuse, Ready
  <2>2. exprs' \in Seq(Expr) /\ Len(exprs) \in Nat
    BY <2>1 DEF PlanInv, EInv, Types
  <2>3. FramesOK'
    BY <2>1, <2>2, FinishedKeepsFrames
  <2>4. (done \subseteq Context)' /\ TransitionsKeep' /\ BestOK'
    BY <2>1 DEF PlanInv, TransitionsKeep, BestOK
  <2> QED
    BY <1>0, <2>3, <2>4 DEF PlanInv
<1>6. CASE OptimizeBase
  <2>1. /\ stack # <<>> /\ Top.todo # <<>> /\ Current \in Base /\ Finished /\ UNCHANGED done
        /\ FCheckEnfdProps(Current, Current.p, Top.c)
    BY <1>6 DEF OptimizeBase, Ready
  <2>2. Current \in ToSet(exprs) /\ Top.c \in Context /\ Top.c \notin done
    BY <2>1, CurrentListed
  <2>3. Current.p \in Plan
    BY <2>1, EnforcementAssumption
  <2>4. /\ exprs' \in Seq(Expr) /\ ToSet(exprs) \subseteq ToSet(exprs')
        /\ Len(exprs) <= Len(exprs') /\ TransitionsKeep' /\ BestOK'
    BY <1>0, <2>1, <2>2, <2>3, EnforceKeepsPlans
  <2>5. FramesOK'
    BY <2>1, <2>4, FinishedKeepsFrames
  <2> QED
    BY <1>0, <2>1, <2>4, <2>5 DEF PlanInv
<1>7. CASE FinishChild
  <2> DEFINE cc == Prpp(Current, Top.c)
  <2>1. stack # <<>> /\ Top.todo # <<>> /\ Finished /\ UNCHANGED done /\ cc \in done
    BY <1>7 DEF FinishChild, PlanInv, EInv, TopWaits
  <2>2. Current \in ToSet(exprs) /\ Top.c \in Context /\ Top.c \notin done
    BY <2>1, CurrentListed
  <2>3. /\ exprs' \in Seq(Expr) /\ ToSet(exprs) \subseteq ToSet(exprs')
        /\ Len(exprs) <= Len(exprs') /\ TransitionsKeep' /\ BestOK'
    <3>1. CASE cc \in DOMAIN best
      <4>1. best[cc].p \in Plan
        BY <3>1 DEF PlanInv, EInv, Types, PlansTyped
      <4>2. FCheckEnfdProps(Current, best[cc].p, Top.c)
        BY <1>7, <3>1 DEF FinishChild
      <4> QED
        BY <1>0, <2>1, <2>2, <3>1, <4>1, <4>2, EnforceKeepsPlans
    <3>2. CASE cc \notin DOMAIN best
      <4>1. UNCHANGED <<exprs, best, done>>
        BY <1>7, <3>2 DEF FinishChild
      <4> QED
        BY <4>1 DEF PlanInv, EInv, Types, TransitionsKeep, BestOK
    <3> QED
      BY <3>1, <3>2
  <2>4. FramesOK'
    BY <2>1, <2>3, FinishedKeepsFrames
  <2> QED
    BY <1>0, <2>1, <2>3, <2>4 DEF PlanInv
<1>8. CASE UNCHANGED vars
  BY <1>0, <1>8 DEF vars, PlanInv, TransitionsKeep, FramesOK, FrameOK, BestOK
<1> QED
  BY <1>1, <1>2, <1>3, <1>4, <1>5, <1>6, <1>7, <1>8 DEF Next

(* The invariant gives the property. *)
LEMMA PlanInvImplies == PlanAssumptions /\ PlanInv => PlansValid
<1> SUFFICES ASSUME PlanAssumptions, PlanInv PROVE PlansValid
  OBVIOUS
<1>1. stack \in Seq(Frames) /\ exprs \in Seq(Expr) /\ DOMAIN stack = 1 .. Len(stack) /\ Len(exprs) \in Nat
  BY DEF PlanInv, EInv, Types
<1>2. ASSUME NEW i \in DOMAIN stack PROVE stack[i] \in Frames /\ FrameOK(stack[i])
  BY <1>1 DEF PlanInv, FramesOK
<1>3. EnforcementTypeOK
  <2>1. \A i \in DOMAIN stack :
          /\ stack[i].c \in Context
          /\ stack[i].by \in Enforcer \cup {NoExpr}
          /\ ToSet(stack[i].todo) \subseteq ToSet(exprs)
          /\ stack[i].seen \in 0 .. Len(exprs)
          /\ stack[i].asked => stack[i].todo # <<>>
    BY <1>1, <1>2 DEF FrameOK, Frames
  <2>2. \A c \in DOMAIN best : best[c].x \in ToSet(exprs)
    BY DEF PlanInv, BestOK
  <2> QED
    BY <1>1, <2>1, <2>2 DEF EnforcementTypeOK, PlanInv, EInv, Types, PlansTyped, Expr
<1>4. PlansConsistent
  BY DEF PlansConsistent, PlanInv, BestOK
<1>5. ASSUME Ready, Current \in Base, FOptimize(Current, Current.p, Top.c)
      PROVE  FSatisfied(Current.p, Top.c)
  <2>1. Top.c \in Context
    BY <1>5, CurrentListed DEF Ready
  <2> QED
    BY <1>5, <2>1, BaseDelivers DEF PlanAssumptions
<1>6. ASSUME stack # <<>>, Top.asked,
             Prpp(Current, Top.c) \in DOMAIN best,
             FOptimize(Current, Derive(Current, best[Prpp(Current, Top.c)].p), Top.c),
             FValidContext(Current, best[Prpp(Current, Top.c)].p, Top.c)
      PROVE  FSatisfied(Derive(Current, best[Prpp(Current, Top.c)].p), Top.c)
  <2>1. Top.todo # <<>>
    BY <1>6 DEF PlanInv, EInv, TopWaits
  <2>2. FrameOK(Top) /\ Top.c \in Context /\ Current \in ToSet(exprs)
    BY <1>6, <2>1, CurrentListed
  <2>3. Current \in Enforcer /\ FCheckReqdProps(Current, Top.c) /\ MarkOK(Top.c)
    BY <1>6, <2>2 DEF FrameOK, Current
  <2>4. TransitionOK(Current)
    BY <2>2 DEF PlanInv, TransitionsKeep
  <2>5. /\ best[Prpp(Current, Top.c)].p \in Plan
        /\ FSatisfied(best[Prpp(Current, Top.c)].p, Prpp(Current, Top.c))
    BY <1>6 DEF PlanInv, EInv, Types, PlansTyped, BestOK
  <2> QED
    BY <1>6, <2>2, <2>3, <2>4, <2>5, EnforcerDelivers DEF PlanAssumptions
<1>7. CostContextsValid
  BY <1>5, <1>6 DEF CostContextsValid
<1> QED
  BY <1>3, <1>4, <1>7 DEF PlansValid

(* Under a group without outer references, whatever engines are registered, if the
   transitions keep rewindability and mark and restore is never asked for across
   one: an expression or enforcer for which no enforcer is required or prohibited delivers
   its context, so that the assertion of CGroupExpression::PccComputeCost holds,
   and the plan of a context stands on the final plan of its child context, which
   is not replaced once it was used (CGroup::UpdateBestCost). *)
THEOREM AcceptedPlansValid == ASSUME PlanAssumptions PROVE Spec => []PlansValid
<1>1. Init => PlanInv
  BY PlanInvInit
<1>2. PlanInv /\ [Next]_vars => PlanInv'
  BY PlanInvNext
<1>3. PlanInv => PlansValid
  BY PlanInvImplies
<1> QED
  BY <1>1, <1>2, <1>3, PTL DEF Spec
=============================================================================
