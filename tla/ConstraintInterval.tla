------------------------- MODULE ConstraintInterval -------------------------
(***************************************************************************)
(* The constraint interval of a scalar predicate on one column              *)
(* (CConstraintInterval.cpp): an array of ranges and a flag for NULL, meant *)
(* to hold the values for which the predicate is TRUE or, when              *)
(* infer_nulls_as is set, TRUE or NULL.                                     *)
(*                                                                          *)
(* PciIntervalFromScalarExpr walks the predicate top down and computes      *)
(* intervals bottom up.  The state holds the arguments evaluated so far:    *)
(* each with its interval, the infer_nulls_as it was evaluated with, the    *)
(* values for which the predicate it came from is TRUE and NULL, and        *)
(* whether its interval may hold more, or fewer, values than it should,     *)
(* as the predicate's form tells.  Leaves, AND, OR and NOT are the steps.   *)
(***************************************************************************)
EXTENDS Ranges, SequencesExt

CONSTANTS Datums,       \* the constants that predicates compare with
          Points,       \* the values of the column: the datums and values
                        \* before, between and after them
          Opaque,       \* truth sets of the predicates with no interval
          MaxArgs       \* bound: arguments of an operator

ASSUME IntervalAssumption ==
    /\ Datums \subseteq Points /\ Points \subseteq Int
    /\ IsFiniteSet(Datums)
    /\ \A S \in Opaque : S \subseteq Points
    /\ MaxArgs \in Nat \ {0, 1}
    /\ NULL \notin [rngs : Seq(RangeType), null : BOOLEAN]

ASSUME PointsAssumption ==
    /\ Points # {}
    /\ \A d \in Datums : \E x \in Points, y \in Points : x < d /\ d < y
    /\ \A d \in Datums, e \in Datums :
          d < e => \E x \in Points : d < x /\ x < e

VARIABLE args

Pci(ranges, null) == [rngs |-> ranges, null |-> null]
PciUnbounded(null) == Pci(<<Unbounded>>, null)
FContradiction(pci) == ~ pci.null /\ pci.rngs = <<>>
IsConstraintUnbounded(pci) ==
    /\ pci.null /\ Len(pci.rngs) = 1
    /\ pci.rngs[1].l = NULL /\ pci.rngs[1].r = NULL

-----------------------------------------------------------------------------
(* Merging two sorted arrays of ranges.  The loops hold the positions in the *)
(* two arrays and the array they build; an iteration goes past one range.    *)

AppendOrExtend(dest, rng) ==
    IF rng = NULL THEN dest
    ELSE IF dest = <<>> THEN <<rng>>
    ELSE LET longer == PrngExtend(Last(dest), rng)
         IN  IF longer = NULL THEN Append(dest, rng)
             ELSE Append(Front(dest), longer)

LoopStart == [fst |-> 1, snd |-> 1, residual |-> NULL, dest |-> <<>>]
Iterations(fst, snd) == Len(fst) + Len(snd)

NextFst(s, dest) ==
    [fst |-> s.fst + 1, snd |-> s.snd, residual |-> NULL, dest |-> dest]
NextSnd(s, residual, dest) ==
    [fst |-> s.fst, snd |-> s.snd + 1, residual |-> residual, dest |-> dest]

IntersectStep(fst, snd, s) ==
    IF s.fst > Len(fst) \/ s.snd > Len(snd) THEN s
    ELSE LET this == fst[s.fst]
             other == snd[s.snd]
             Out(new) == IF new = NULL THEN s.dest ELSE Append(s.dest, new)
         IN  IF FEndsAfter(other, this)
             THEN NextFst(s, Out(PrngIntersect(this, other)))
             ELSE NextSnd(s, NULL, Out(PrngIntersect(other, this)))

IntersectLoop(fst, snd) ==
    LET loop[n \in Nat] ==
          IF n = 0 THEN LoopStart ELSE IntersectStep(fst, snd, loop[n - 1])
    IN  loop

PciIntersect(p, q) ==
    Pci(IntersectLoop(p.rngs, q.rngs)[Iterations(p.rngs, q.rngs)].dest,
        p.null /\ q.null)

\* The last two cases are AddRemainingRanges.
UnionStep(fst, snd, s) ==
    LET this == fst[s.fst]
        other == snd[s.snd]
    IN  IF s.fst <= Len(fst) /\ s.snd <= Len(snd)
        THEN IF FEndsAfter(other, this)
             THEN NextFst(s, AppendOrExtend(s.dest, PrngDifferenceLeft(this, other)))
             ELSE NextSnd(s, NULL,
                          AppendOrExtend(s.dest, PrngDifferenceLeft(other, this)))
        ELSE IF s.fst <= Len(fst) THEN NextFst(s, AppendOrExtend(s.dest, this))
        ELSE IF s.snd <= Len(snd) THEN NextSnd(s, NULL, AppendOrExtend(s.dest, other))
        ELSE s

UnionLoop(fst, snd) ==
    LET loop[n \in Nat] ==
          IF n = 0 THEN LoopStart ELSE UnionStep(fst, snd, loop[n - 1])
    IN  loop

PciUnion(p, q) ==
    Pci(UnionLoop(p.rngs, q.rngs)[Iterations(p.rngs, q.rngs)].dest,
        p.null \/ q.null)

\* What is left of a beyond the right end of b, and what is before b.
PrangeDiffWithRightResidual(a, b) ==
    IF FDisjointLeft(b, a) THEN [ret |-> NULL, residual |-> NULL]
    ELSE [ret |-> IF RngContains(a, b) THEN PrngDifferenceLeft(a, b) ELSE NULL,
          residual |-> PrngDifferenceRight(a, b)]

\* The residual is the rest of the current range, NULL when all of it is left;
\* once the second array is used up, AddRemainingRanges.
DifferenceStep(fst, snd, s) ==
    LET this == IF s.residual = NULL THEN fst[s.fst] ELSE s.residual
        other == snd[s.snd]
        diff == PrangeDiffWithRightResidual(this, other)
    IN  IF s.fst > Len(fst) THEN s
        ELSE IF s.snd > Len(snd) THEN NextFst(s, AppendOrExtend(s.dest, this))
        ELSE IF FEndsWithOrAfter(other, this)
        THEN NextFst(s, AppendOrExtend(s.dest, PrngDifferenceLeft(this, other)))
        ELSE NextSnd(s, diff.residual, AppendOrExtend(s.dest, diff.ret))

DifferenceLoop(fst, snd) ==
    LET loop[n \in Nat] ==
          IF n = 0 THEN LoopStart ELSE DifferenceStep(fst, snd, loop[n - 1])
    IN  loop

PciDifference(p, q) ==
    Pci(DifferenceLoop(p.rngs, q.rngs)[Iterations(p.rngs, q.rngs)].dest,
        p.null /\ ~ q.null)

\* Mutant: the universe that is subtracted from lacks NULL.
Mut_PciComplement(p) == PciDifference(PciUnbounded(FALSE), p)

PciComplement(p) == PciDifference(PciUnbounded(TRUE), p)

\* Mutant: the difference is taken the wrong way round.
Mut_FContainsInterval(p, q) ==
    \/ IsConstraintUnbounded(p)
    \/ /\ ~ IsConstraintUnbounded(q)
       /\ p.null \/ ~ q.null
       /\ FContradiction(PciDifference(p, q))

FContainsInterval(p, q) ==
    \/ IsConstraintUnbounded(p)
    \/ /\ ~ IsConstraintUnbounded(q)
       /\ p.null \/ ~ q.null
       /\ FContradiction(PciDifference(q, p))

-----------------------------------------------------------------------------
(* The intervals of leaf predicates. *)

PciRangeFromColConstCmp(cmp, d) ==
    IF cmp \in {"NEq", "IDF"} THEN <<CRange("L", d), CRange("G", d)>>
    ELSE <<CRange(cmp, d)>>

CDatumSortedSet(S) ==
    CHOOSE ds \in [1 .. Cardinality(S) -> S] :
        /\ Range(ds) = S
        /\ \A i \in 2 .. Cardinality(S) : IsLessThan(ds[i - 1], ds[i])

\* IN: one point per datum.  NOT IN: the open ranges around the datums.
PcnstrIntervalFromScalarArrayCmp(in, S, infer) ==
    LET ds == CDatumSortedSet(S)
        ends == <<NULL>> \o ds \o <<NULL>>
    IN  Pci(IF in THEN [i \in 1 .. Len(ds) |-> CRange("Eq", ds[i])]
            ELSE [i \in 1 .. Len(ds) + 1 |->
                      Rng(ends[i], FALSE, ends[i + 1], FALSE)],
            infer)

PciIntervalFromScalarIDF(d) ==
    IF d = NULL THEN PciComplement(Pci(<<>>, TRUE))
    ELSE Pci(PciRangeFromColConstCmp("IDF", d), TRUE)

Compare(x, cmp, d) ==
    CASE cmp = "Eq"  -> x = d
      [] cmp = "NEq" -> x # d
      [] cmp = "L"   -> x < d
      [] cmp = "LEq" -> x <= d
      [] cmp = "G"   -> x > d
      [] cmp = "GEq" -> x >= d

\* A leaf: its kind and operands, where it is TRUE and where it is NULL.
Leaf(op, cmp, of, true, null) ==
    [op |-> op, cmp |-> cmp, of |-> of, true |-> true, unk |-> null]

CmpLeaf(cmp, d) ==
    Leaf("Cmp", cmp, {d}, {x \in Points : Compare(x, cmp, d)}, {NULL})
\* x = or <> ANY or ALL of an array, which may have a NULL among its elements.
ArrayCmpLeaf(eq, all, S, null) ==
    LET true == {x \in Points :
                    IF all THEN ~ null /\ \A d \in S : (x = d) = eq
                    ELSE \E d \in S : (x = d) = eq}
        false == {x \in Points :
                    IF all THEN \E d \in S : (x = d) # eq
                    ELSE ~ null /\ \A d \in S : (x = d) # eq}
    IN  Leaf("ArrayCmp", IF eq THEN "Eq" ELSE "NEq", S, true,
             (Points \cup {NULL}) \ (true \cup false))
\* IN is = ANY, NOT IN is <> ALL.
ArrayLeaf(in, S) == ArrayCmpLeaf(in, ~ in, S, FALSE)
NullTestLeaf == Leaf("NullTest", "Eq", {}, {NULL}, {})
ConstLeaf(value) ==
    Leaf("Const", IF value THEN "Eq" ELSE "NEq", {},
         IF value THEN Points \cup {NULL} ELSE {}, {})
NullConstLeaf == Leaf("Const", "NEq", {}, {}, Points \cup {NULL})

ElementSets == (SUBSET Datums) \ {{}}
CmpLeaves ==
    {CmpLeaf(cmp, d) : cmp \in {"Eq", "NEq", "L", "LEq", "G", "GEq"}, d \in Datums}
ArrayCmpLeaves ==
    {ArrayCmpLeaf(eq, all, S, null) :
        eq \in BOOLEAN, all \in BOOLEAN, S \in ElementSets, null \in BOOLEAN}
IdfLeaves ==
    {Leaf("IDF", "NEq", {d}, (Points \cup {NULL}) \ {d}, {}) : d \in Datums \cup {NULL}}
OpaqueLeaves == {Leaf("Other", "Eq", {}, S, {NULL}) : S \in Opaque}

Leaves ==
    CmpLeaves \cup ArrayCmpLeaves \cup IdfLeaves \cup OpaqueLeaves
    \cup {NullTestLeaf, ConstLeaf(TRUE), ConstLeaf(FALSE), NullConstLeaf}

\* The leaf cases of PciIntervalFromScalarExpr.  Of an array comparison it reads
\* the operator and the elements, and neither ANY and ALL nor whether there is a
\* NULL; a constant that is not TRUE, NULL too, is FALSE to it.
LeafInterval(leaf, infer) ==
    LET d == CHOOSE d \in leaf.of : TRUE IN
    CASE leaf.op = "Cmp" ->
             Pci(PciRangeFromColConstCmp(leaf.cmp, d), infer)
      [] leaf.op = "ArrayCmp" ->
             PcnstrIntervalFromScalarArrayCmp(leaf.cmp = "Eq", leaf.of, infer)
      [] leaf.op = "IDF" -> PciIntervalFromScalarIDF(d)
      [] leaf.op = "NullTest" -> Pci(<<>>, TRUE)
      [] leaf.op = "Const" ->
             IF leaf.cmp = "Eq" THEN PciUnbounded(TRUE) ELSE Pci(<<>>, FALSE)
      [] OTHER -> NULL

\* The array comparisons that are misread: an ANY over <> and an ALL over =, if
\* there are two elements, and a NULL element that decides for some value.
Misread(eq, all, S, null, infer) ==
    \/ eq = all /\ \E d \in S, e \in S : d # e
    \/ null /\ infer # all

\* So the interval of a leaf may hold too many values, or too few.
HoldsMore(leaf, infer) ==
    \E eq \in BOOLEAN, S \in ElementSets, null \in BOOLEAN :
       leaf = ArrayCmpLeaf(eq, TRUE, S, null) /\ Misread(eq, TRUE, S, null, infer)
HoldsFewer(leaf, infer) ==
    \/ leaf = NullConstLeaf /\ infer
    \/ \E eq \in BOOLEAN, S \in ElementSets, null \in BOOLEAN :
          leaf = ArrayCmpLeaf(eq, FALSE, S, null) /\ Misread(eq, FALSE, S, null, infer)

-----------------------------------------------------------------------------
(* AND intersects and passes over the arguments without an interval.       *)
(* OR unites in pairs, round after round, and needs all the intervals.     *)

And(p, q) ==
    IF p # NULL /\ q # NULL THEN PciIntersect(p, q)
    ELSE IF q # NULL THEN q ELSE p

AndLoop(pcis) ==
    LET loop[n \in 0 .. Len(pcis) - 1] ==
          IF n = 0 THEN pcis[1] ELSE And(loop[n - 1], pcis[n + 1])
    IN  loop

PciIntervalFromScalarBoolAnd(pcis) == AndLoop(pcis)[Len(pcis) - 1]

UniteNeighbours(pcis) ==
    [i \in 1 .. (Len(pcis) + 1) \div 2 |->
        IF 2 * i <= Len(pcis) THEN PciUnion(pcis[2 * i - 1], pcis[2 * i])
        ELSE pcis[2 * i - 1]]

UnionInPairs(pcis) ==
    LET round[n \in Nat] ==
          IF n = 0 THEN pcis ELSE UniteNeighbours(round[n - 1])
    IN  round

PciIntervalFromScalarBoolOr(pcis) ==
    IF NULL \in Range(pcis) THEN NULL ELSE UnionInPairs(pcis)[Len(pcis)][1]

-----------------------------------------------------------------------------
(* The scalar expression of an interval. *)

\* A range as the conjunction of comparisons; the empty one is TRUE.
RangeScalar(a) ==
    IF a.l # NULL /\ a.r # NULL /\ Equals(a.l, a.r) /\ a.li /\ a.ri
    THEN <<CmpLeaf("Eq", a.l)>>
    ELSE (IF a.l = NULL THEN <<>>
          ELSE <<CmpLeaf(IF a.li THEN "GEq" ELSE "G", a.l)>>)
      \o (IF a.r = NULL THEN <<>>
          ELSE <<CmpLeaf(IF a.ri THEN "LEq" ELSE "L", a.r)>>)

FConvertsToIn(pci) ==
    Len(pci.rngs) > 1 /\ \A i \in 1 .. Len(pci.rngs) : FPoint(pci.rngs[i])

\* Mutant: neighbours need not share their datum.
Mut_FConvertsToNotIn(pci) ==
    LET n == Len(pci.rngs) IN
    /\ n > 1 /\ pci.rngs[1].l = NULL /\ pci.rngs[n].r = NULL
    /\ \A i \in 2 .. n : ~ pci.rngs[i - 1].ri /\ ~ pci.rngs[i].li

FConvertsToNotIn(pci) ==
    LET n == Len(pci.rngs) IN
    /\ n > 1 /\ pci.rngs[1].l = NULL /\ pci.rngs[n].r = NULL
    /\ \A i \in 2 .. n :
          /\ ~ pci.rngs[i - 1].ri /\ ~ pci.rngs[i].li
          /\ FUpperBoundEqualsLowerBound(pci.rngs[i - 1], pci.rngs[i])

OrIsNull(pci) == IF pci.null THEN <<<<NullTestLeaf>>>> ELSE <<>>

\* A disjunction of conjunctions of leaves.
PexprConstructArrayScalar(pci, in) ==
    LET n == IF in THEN Len(pci.rngs) ELSE Len(pci.rngs) - 1
    IN  <<<<ArrayLeaf(in, {pci.rngs[i].r : i \in 1 .. n})>>>> \o OrIsNull(pci)

\* x IS NOT NULL is NOT (x IS NULL); its interval is the complement that
\* x IS DISTINCT FROM NULL also has, and that leaf stands for it.
PexprConstructDisjunctionScalar(pci) ==
    LET n == Len(pci.rngs) IN
    IF n = 1 /\ RangeScalar(pci.rngs[1]) = <<>>
    THEN IF pci.null THEN <<<<ConstLeaf(TRUE)>>>>
         ELSE <<<<Leaf("IDF", "NEq", {NULL}, Points, {})>>>>
    ELSE [i \in 1 .. n |-> RangeScalar(pci.rngs[i])] \o OrIsNull(pci)

PexprConstructScalar(pci, arrayConstraints) ==
    IF FContradiction(pci) THEN <<<<ConstLeaf(FALSE)>>>>
    ELSE IF arrayConstraints /\ FConvertsToIn(pci)
    THEN PexprConstructArrayScalar(pci, TRUE)
    ELSE IF arrayConstraints /\ FConvertsToNotIn(pci)
    THEN PexprConstructArrayScalar(pci, FALSE)
    ELSE PexprConstructDisjunctionScalar(pci)

\* The interval of such an expression: PciIntervalFromScalarExpr again.
PciIntervalFromConstraint(scalar) ==
    LET Disjunct(ls) == PciIntervalFromScalarBoolAnd(
                            [i \in 1 .. Len(ls) |-> LeafInterval(ls[i], FALSE)])
    IN  PciIntervalFromScalarBoolOr(
            [i \in 1 .. Len(scalar) |-> Disjunct(scalar[i])])

-----------------------------------------------------------------------------
(* The walk. *)

Arg(pci, infer, true, unk, more, fewer, lit) ==
    [pci |-> pci, infer |-> infer, true |-> true, unk |-> unk,
     more |-> more, fewer |-> fewer, lit |-> lit]

Init == args = <<>>

\* A leaf is evaluated with the infer_nulls_as handed down.  Bounds: three
\* arguments are leaves, and one that is third or follows an AND or OR is a
\* comparison or has no interval, agrees with the others in infer_nulls_as, and
\* follows none that holds more or fewer.
EvalLeaf ==
    /\ Len(args) < MaxArgs
    /\ \E leaf \in Leaves, infer \in BOOLEAN :
          /\ Len(args) > 1 => \A i \in 1 .. Len(args) : args[i].lit
          /\ \A i \in 1 .. Len(args) :
                ~ args[i].lit \/ Len(args) > 1 =>
                   /\ leaf.op \in {"Cmp", "Other"} /\ args[i].infer = infer
                   /\ ~ args[i].more /\ ~ args[i].fewer
          /\ LET pci == LeafInterval(leaf, infer) IN
             args' = Append(args, Arg(pci, infer, leaf.true, leaf.unk,
                                      HoldsMore(leaf, infer), HoldsFewer(leaf, infer), TRUE))

\* The operator whose arguments are the last n evaluated.
Operands(n) == SubSeq(args, Len(args) - n + 1, Len(args))
Apply(n, arg) == args' = Append(SubSeq(args, 1, Len(args) - n), arg)
Values == Points \cup {NULL}
FalseFor(arg) == Values \ (arg.true \cup arg.unk)

\* An AND that passes over a conjunct may hold more.
EvalAnd ==
    \E n \in 2 .. Len(args) :
       LET ops == Operands(n)
           true == {x \in Values : \A i \in 1 .. n : x \in ops[i].true}
           false == {x \in Values : \E i \in 1 .. n : x \in FalseFor(ops[i])}
       IN  /\ \A i \in 1 .. n : ops[i].infer = ops[1].infer
           /\ Apply(n, Arg(PciIntervalFromScalarBoolAnd(
                               [i \in 1 .. n |-> ops[i].pci]),
                           ops[1].infer, true, Values \ (true \cup false),
                           \E i \in 1 .. n : ops[i].pci = NULL \/ ops[i].more,
                           \E i \in 1 .. n : ops[i].pci # NULL /\ ops[i].fewer, FALSE))

EvalOr ==
    \E n \in 2 .. Len(args) :
       LET ops == Operands(n)
           true == {x \in Values : \E i \in 1 .. n : x \in ops[i].true}
           false == {x \in Values : \A i \in 1 .. n : x \in FalseFor(ops[i])}
       IN  /\ \A i \in 1 .. n : ops[i].infer = ops[1].infer
           /\ Apply(n, Arg(PciIntervalFromScalarBoolOr(
                               [i \in 1 .. n |-> ops[i].pci]),
                           ops[1].infer, true, Values \ (true \cup false),
                           \E i \in 1 .. n : ops[i].more,
                           \E i \in 1 .. n : ops[i].fewer, FALSE))

\* The argument of NOT is evaluated with the opposite infer_nulls_as.
EvalNot ==
    /\ args # <<>>
    /\ LET arg == Last(args) IN
       Apply(1, Arg(IF arg.pci = NULL THEN NULL ELSE PciComplement(arg.pci),
                    ~ arg.infer, FalseFor(arg), arg.unk, arg.fewer, arg.more,
                    arg.lit))

\* The interval is used and another predicate is examined.
NextPredicate == args # <<>> /\ args' = <<>>

Next == EvalLeaf \/ EvalAnd \/ EvalOr \/ EvalNot \/ NextPredicate

Spec == Init /\ [][Next]_args

-----------------------------------------------------------------------------
(* What an interval means. *)

Selected(pci) ==
    {x \in Points : \E i \in 1 .. Len(pci.rngs) : Holds(x, pci.rngs[i])}
    \cup (IF pci.null THEN {NULL} ELSE {})

\* The values for which the predicate lets a row through.
Qualifies(arg) == arg.true \cup (IF arg.infer THEN arg.unk ELSE {})

Intervals == {i \in 1 .. Len(args) : args[i].pci # NULL}

\* The arguments are intervals of well formed ranges over the constants of
\* the predicates, with the truth values of a predicate (CConstraintInterval).
IntervalTypeOK ==
    /\ Len(args) <= MaxArgs
    /\ \A i \in 1 .. Len(args) :
          /\ args[i].true \subseteq Values /\ args[i].unk \subseteq Values
          /\ args[i].true \cap args[i].unk = {}
          /\ {args[i].infer, args[i].more, args[i].fewer} \subseteq BOOLEAN
    /\ \A i \in Intervals :
          /\ args[i].pci.null \in BOOLEAN
          /\ \A k \in 1 .. Len(args[i].pci.rngs) :
                /\ WellFormed(args[i].pci.rngs[k])
                /\ {args[i].pci.rngs[k].l, args[i].pci.rngs[k].r}
                      \subseteq Datums \cup {NULL}

\* The interval of a predicate holds the values that qualify and no others,
\* whatever AND, OR and NOT it is made of and whether NULL counts as TRUE or as
\* FALSE (the table above PciIntervalFromScalarExpr), with these exceptions: too
\* many under an even number of NOTs are too few under an odd one, where AND
\* passed over a conjunct that has no interval or the quantifier or a NULL of an
\* array, or a NULL constant, was misread.
IntervalExact ==
    \A i \in Intervals :
       /\ ~ args[i].more => Selected(args[i].pci) \subseteq Qualifies(args[i])
       /\ ~ args[i].fewer => Qualifies(args[i]) \subseteq Selected(args[i].pci)

\* The ranges of an interval are in order, apart, and with a value missing
\* between neighbours, so that equal sets have equal arrays: the merge loops
\* of PciIntersect, PciUnion and PciDifference rely on it in their arguments
\* and must give it to their results.
RangesCanonical ==
    \A i \in Intervals :
       LET rs == args[i].pci.rngs IN
       \A k \in 1 .. Len(rs) - 1 :
          /\ rs[k].r # NULL /\ rs[k + 1].l # NULL
          /\ \/ rs[k].r < rs[k + 1].l
             \/ rs[k].r = rs[k + 1].l /\ ~ rs[k].ri /\ ~ rs[k + 1].li

\* FContainsInterval answers whether the values of one interval are values of
\* the other: partition elimination and contradiction detection ask it.
ContainmentExact ==
    \A i, j \in Intervals :
       FContainsInterval(args[i].pci, args[j].pci)
           <=> Selected(args[j].pci) \subseteq Selected(args[i].pci)

\* The scalar expression built from an interval, with and without array
\* constraints, has that interval again, array for array
\* (PexprConstructScalar, PciIntervalFromConstraint).
ScalarRoundTrip ==
    \A i \in Intervals, arrays \in BOOLEAN :
       PciIntervalFromConstraint(PexprConstructScalar(args[i].pci, arrays))
           = args[i].pci

\* The intervals are arrays of well formed ranges in canonical form.
IntervalInv == IntervalTypeOK /\ RangesCanonical
=============================================================================
