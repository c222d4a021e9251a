------------------------------- MODULE Ranges -------------------------------
(***************************************************************************)
(* Ranges of values of a column (CRange.cpp).  A range has two ends; an     *)
(* end without a datum is infinite and excluded.  Datums are compared       *)
(* through IComparator only, so integers stand for any ordered type.        *)
(* Equality is written with the order: comparing the absent datum, which    *)
(* the code would dereference, is then an error and not a silent FALSE.     *)
(***************************************************************************)
EXTENDS Integers

CONSTANT NULL   \* the NULL pointer: no datum (an infinite end), no range

RangeType == [l : Int \cup {NULL}, li : BOOLEAN,
              r : Int \cup {NULL}, ri : BOOLEAN]

ASSUME NullAssumption == NULL \notin Int /\ NULL \notin RangeType

Rng(l, li, r, ri) == [l |-> l, li |-> li, r |-> r, ri |-> ri]
IsLessThan(d, e) == d < e
IsGreaterThan(d, e) == d > e
Equals(d, e) == ~ (d < e) /\ ~ (d > e)

Unbounded == Rng(NULL, FALSE, NULL, FALSE)

\* The constructor from a comparison "column cmp datum".
CRange(cmp, d) ==
    CASE cmp = "Eq"  -> Rng(d, TRUE, d, TRUE)
      [] cmp = "L"   -> Rng(NULL, FALSE, d, FALSE)
      [] cmp = "LEq" -> Rng(NULL, FALSE, d, TRUE)
      [] cmp = "G"   -> Rng(d, FALSE, NULL, FALSE)
      [] cmp = "GEq" -> Rng(d, TRUE, NULL, FALSE)
      [] OTHER       -> Unbounded

-----------------------------------------------------------------------------
(* How two ranges lie to each other. *)

FDisjointLeft(a, b) ==
    /\ a.r # NULL /\ b.l # NULL
    /\ \/ IsLessThan(a.r, b.l)
       \/ Equals(a.r, b.l) /\ (~ a.ri \/ ~ b.li)

\* TRUE also when both ranges start at minus infinity.
FStartsBefore(a, b) ==
    \/ b.l = NULL /\ a.l = NULL
    \/ b.l # NULL /\ a.l = NULL
    \/ /\ b.l # NULL /\ a.l # NULL
       /\ \/ IsLessThan(a.l, b.l)
          \/ ~ IsGreaterThan(a.l, b.l) /\ a.li /\ ~ b.li

FStartsWithOrBefore(a, b) ==
    \/ FStartsBefore(a, b)
    \/ b.l = NULL /\ a.l = NULL
    \/ b.l # NULL /\ a.l # NULL /\ Equals(a.l, b.l) /\ a.li = b.li

\* TRUE also when both ranges end at infinity.
FEndsAfter(a, b) ==
    \/ b.r = NULL /\ a.r = NULL
    \/ b.r # NULL /\ a.r = NULL
    \/ /\ b.r # NULL /\ a.r # NULL
       /\ \/ IsGreaterThan(a.r, b.r)
          \/ ~ IsLessThan(a.r, b.r) /\ a.ri /\ ~ b.ri

FEndsWithOrAfter(a, b) ==
    \/ FEndsAfter(a, b)
    \/ b.r = NULL /\ a.r = NULL
    \/ b.r # NULL /\ a.r # NULL /\ Equals(a.r, b.r) /\ a.ri = b.ri

RngContains(a, b) == FStartsWithOrBefore(a, b) /\ FEndsWithOrAfter(a, b)

FOverlapsLeft(a, b) ==
    FStartsBefore(a, b) /\ ~ FEndsAfter(a, b) /\ ~ FDisjointLeft(a, b)

FOverlapsRight(a, b) ==
    FEndsAfter(a, b) /\ ~ FStartsBefore(a, b) /\ ~ FDisjointLeft(b, a)

FUpperBoundEqualsLowerBound(a, b) ==
    \/ b.l = NULL /\ a.r = NULL
    \/ b.l # NULL /\ a.r # NULL /\ Equals(a.r, b.l)

FPoint(a) == a.li /\ a.ri /\ Equals(a.r, a.l)

-----------------------------------------------------------------------------
(* The ranges computed from two ranges. *)

PrngIntersect(a, b) ==
    IF RngContains(a, b) THEN b
    ELSE IF RngContains(b, a) THEN a
    ELSE IF FOverlapsLeft(a, b) THEN Rng(b.l, b.li, a.r, a.ri)
    ELSE IF FOverlapsRight(a, b) THEN Rng(a.l, a.li, b.r, b.ri)
    ELSE NULL

\* The part of a to the left of b.
PrngDifferenceLeft(a, b) ==
    IF FDisjointLeft(a, b) THEN a
    ELSE IF b.l # NULL /\ FStartsBefore(a, b) THEN Rng(a.l, a.li, b.l, ~ b.li)
    ELSE NULL

\* The part of a to the right of b.
PrngDifferenceRight(a, b) ==
    IF FDisjointLeft(b, a) THEN a
    ELSE IF b.r # NULL /\ FEndsAfter(a, b) THEN Rng(b.r, ~ b.ri, a.r, a.ri)
    ELSE NULL

\* Mutant: both of the touching ends must be included.
Mut_PrngExtend(a, b) ==
    IF (b.li /\ a.ri) /\ Equals(b.l, a.r) THEN Rng(a.l, a.li, b.r, b.ri)
    ELSE NULL

\* a and b as one range when b starts where a ends.
PrngExtend(a, b) ==
    IF (b.li \/ a.ri) /\ Equals(b.l, a.r) THEN Rng(a.l, a.li, b.r, b.ri)
    ELSE NULL

-----------------------------------------------------------------------------
(* What a range means: the values it holds. *)

\* Infinite ends are excluded, and the ends do not cross.
WellFormed(a) ==
    /\ a \in RangeType
    /\ a.l = NULL => ~ a.li
    /\ a.r = NULL => ~ a.ri
    /\ a.l # NULL /\ a.r # NULL =>
           a.l < a.r \/ (a.l = a.r /\ a.li /\ a.ri)

AboveLeft(x, a) == a.l = NULL \/ a.l < x \/ (a.l = x /\ a.li)
BelowRight(x, a) == a.r = NULL \/ x < a.r \/ (a.r = x /\ a.ri)

Holds(x, a) == a # NULL /\ AboveLeft(x, a) /\ BelowRight(x, a)
=============================================================================
