-------------------------- MODULE EngineEnforcement --------------------------
(***************************************************************************)
(* Property enforcement inside one group.  A group is optimized under a    *)
(* context: a required order, distribution, rewindability and engine.  An  *)
(* expression that does not deliver the context adds enforcers to the      *)
(* group: a sort, a motion, a spool, or a transition to another engine.    *)
(* Enforcers are expressions of the same group whose only child is the     *)
(* group itself, so each asks the group for a plan under another context.  *)
(*                                                                         *)
(* The contexts being optimized form a stack (SearchJobs shows that the    *)
(* search is depth first).  Under a context the expressions of the group   *)
(* are optimized in batches: all that are in the list, last one first,     *)
(* then the enforcers these have added, until none is new.  Costs decide   *)
(* between the plans of a context; here any of them may be the best.       *)
(***************************************************************************)
EXTENDS Integers, Sequences, SequencesExt

CONSTANTS
    Engine,         \* the registered engines
    AnyEngine,      \* EetAny
    DefaultEngine,  \* GetEngineForDefaultOp of the sort, motion and spool operators
    Preserve,       \* what a transition keeps, by engine pair (GetEnginePreserve...)
    Base,           \* the expressions the implementation rules put into the group
    OuterRefs,      \* does the group have outer references (a logical property)?
    HazardHandling, \* the trace flag EopttraceMotionHazardHandling
    Requests        \* the contexts other groups ask for

None == 0           \* rewindability types in increasing order
Rescannable == 1
Rewindable == 2
MarkRestore == 3

Distribution == {"Any", "Singleton", "Hashed"}
Property == {"order", "distribution", "rewindability"}

(* required properties: some order, distribution, rewindability with motion
   hazard handling, engine *)
Context == [o : BOOLEAN, d : Distribution, r : None .. MarkRestore, h : BOOLEAN,
            e : Engine \cup {AnyEngine}]

(* derived properties of a plan *)
Plan == [o : BOOLEAN, d : Distribution \ {"Any"}, r : None .. MarkRestore, h : BOOLEAN,
         e : Engine]

ASSUME EnforcementAssumption ==
    /\ AnyEngine \notin Engine
    /\ DefaultEngine \in [{"Sort", "Motion", "Spool"} -> Engine]
    /\ Preserve \in [Engine -> [Engine -> SUBSET Property]]
    /\ OuterRefs \in BOOLEAN /\ HazardHandling \in BOOLEAN
    /\ Requests \subseteq Context
    /\ IsFiniteSet(Base)
    /\ Base \subseteq [op : {"TableScan", "ExternalScan", "Filter"}, p : Plan]

(* CPhysicalScan, CPhysicalExternalScan and CPhysicalFilter; p is what they derive *)
BaseOp(kind, p) == [op |-> kind, p |-> p]

SortOp == [op |-> "Sort"]
GatherOp == [op |-> "Gather"]
GatherMergeOp == [op |-> "GatherMerge"]
HashMotionOp == [op |-> "HashMotion"]
SpoolOp(eager) == [op |-> "Spool", eager |-> eager]
TransitionOp(e, keeps) == [op |-> "Transition", e |-> e, keeps |-> keeps]

Enforcer ==
    {SortOp, GatherOp, GatherMergeOp, HashMotionOp}
        \cup {SpoolOp(b) : b \in BOOLEAN}
        \cup {TransitionOp(e, k) : e \in Engine, k \in SUBSET Property}

IsMotion(x) == x.op \in {"Gather", "GatherMerge", "HashMotion"}
MotionDistribution(x) == IF x.op = "HashMotion" THEN "Hashed" ELSE "Singleton"

VARIABLES
    exprs,      \* the list of expressions of the group
    stack,      \* the contexts being optimized, innermost last
    done,       \* the contexts that are completely optimized
    best        \* the best plan found so far, for the contexts that have one

vars == <<exprs, stack, done, best>>

NoExpr == [op |-> "none"]

Init ==
    /\ exprs \in SetToSeqs(Base)
    /\ stack = <<>>
    /\ done = {}
    /\ best = <<>>
-----------------------------------------------------------------------------
(* What satisfies a requirement: FSatisfies of the four property specs. *)
OrderOK(p, c) == c.o => p.o
DistributionOK(d, c) == c.d = "Any" \/ d = c.d
RewindOK(p, c) == c.r = None \/ (p.r >= c.r /\ ~(c.h /\ p.h))
EngineOK(e, c) == c.e \in {AnyEngine, e}

(* CReqdPropPlan::FSatisfied, called by CCostContext::IsValid *)
FSatisfied(p, c) ==
    OrderOK(p, c) /\ DistributionOK(p.d, c) /\ RewindOK(p, c) /\ EngineOK(p.e, c)

(* CEngine::FCheckReqdProps: an enforcer is not optimized under a context that
   does not ask for what it enforces. *)
FCheckReqdProps(x, c) ==
    /\ x.op = "Sort" => c.o
    /\ IsMotion(x) => c.d # "Any"
    /\ x.op = "Transition" => c.e # AnyEngine
    /\ x.op = "Spool" => c.r # None

(* CEngine::FOptimizeChild: x is not optimized for a context that x itself, or a
   sort over a gather merge, asked for; a motion only for its distribution. *)
FOptimizeChild(parent, x, c) ==
    /\ parent # x
    /\ ~(parent.op = "Sort" /\ x.op = "GatherMerge")
    /\ IsMotion(x) => DistributionOK(MotionDistribution(x), c)

(* the rewindability a blocking operator asks of its input *)
BlockingReqd == IF OuterRefs THEN Rescannable ELSE None

(* The contexts enforcers ask their group for, and what they deliver over a plan p
   of it: P..Required and P..Derive of the four kinds of operators. *)
SortReqd(c) ==
    [o |-> FALSE, d |-> c.d, r |-> BlockingReqd, h |-> FALSE, e |-> DefaultEngine["Sort"]]
SortDrvd(p) ==
    [o |-> TRUE, d |-> p.d, r |-> MarkRestore, h |-> FALSE, e |-> DefaultEngine["Sort"]]

MotionReqd(x) ==
    [o |-> x.op = "GatherMerge", d |-> "Any", r |-> None, h |-> FALSE,
     e |-> DefaultEngine["Motion"]]
MotionDrvd(x) ==
    [o |-> x.op = "GatherMerge", d |-> MotionDistribution(x), r |-> None, h |-> TRUE,
     e |-> DefaultEngine["Motion"]]

(* Mutant: a spool passes the rewindability it is asked for on to its child. *)
Mut_SpoolReqd(x, c) ==
    [o |-> c.o, d |-> c.d, r |-> c.r, h |-> c.h, e |-> DefaultEngine["Spool"]]

SpoolReqd(x, c) ==
    [o |-> c.o, d |-> c.d, r |-> BlockingReqd, h |-> c.h /\ ~x.eager,
     e |-> DefaultEngine["Spool"]]
SpoolDrvd(x, p) ==
    [o |-> p.o, d |-> p.d, r |-> MarkRestore, h |-> p.h /\ ~x.eager,
     e |-> DefaultEngine["Spool"]]

TransitionReqd(c) == [o |-> FALSE, d |-> "Any", r |-> c.r, h |-> c.h, e |-> AnyEngine]
TransitionDrvd(x, p) ==
    [o |-> p.o /\ "order" \in x.keeps,
     d |-> IF "distribution" \in x.keeps THEN p.d ELSE "Singleton",
     r |-> IF "rewindability" \notin x.keeps THEN None
           ELSE IF p.r = MarkRestore THEN Rewindable ELSE p.r,
     h |-> p.h,
     e |-> x.e]

(* CReqdPropPlan::Compute: the context an enforcer under c asks its group for. *)
Prpp(x, c) ==
    CASE x.op = "Sort" -> SortReqd(c)
      [] IsMotion(x) -> MotionReqd(x)
      [] x.op = "Spool" -> SpoolReqd(x, c)
      [] x.op = "Transition" -> TransitionReqd(c)

(* CDrvdPropPlan::Derive: what x delivers over a plan p of its child. *)
Derive(x, p) ==
    CASE x.op = "Sort" -> SortDrvd(p)
      [] IsMotion(x) -> MotionDrvd(x)
      [] x.op = "Spool" -> SpoolDrvd(x, p)
      [] x.op = "Transition" -> TransitionDrvd(x, p)
      [] OTHER -> x.p
-----------------------------------------------------------------------------
(* The Epet... functions: is an enforcer of the property required, unnecessary
   or prohibited over x, which derives p, under c? *)

Unless(ok, otherwise) == IF ok THEN "Unnecessary" ELSE otherwise

EpetOrder(x, p, c) ==
    CASE ~c.o -> "Unnecessary"
      [] x.op \in {"Sort", "GatherMerge", "Spool"} -> "Unnecessary"
      [] x.op = "Transition" -> Unless(OrderOK(p, c), "Required")
      [] OTHER -> "Required"

(* CEnfdDistribution::Epet: no motion is put over outer references. *)
EpetDistribution(x, p, c) ==
    LET epet ==
          CASE x.op \in {"Sort", "Spool"} -> "Unnecessary"
            [] IsMotion(x) -> Unless(DistributionOK(p.d, c), "Prohibited")
            [] OTHER -> Unless(DistributionOK(p.d, c), "Required")
    IN  IF c.d = "Any" THEN "Unnecessary"
        ELSE IF epet = "Required" /\ OuterRefs THEN "Prohibited" ELSE epet

(* Mutant: a motion is believed to keep the rewindability of its input. *)
Mut_EpetRewindability(x, p, c) ==
    CASE c.r = None -> "Unnecessary"
      [] x.op \in {"Filter", "ExternalScan"} -> Unless(RewindOK(p, c), "Required")
      [] OTHER -> "Unnecessary"

(* CBasePhysicalUnaryOp answers Unnecessary for the transition, whatever it
   derives, as CPhysicalScan does for a table scan. *)
EpetRewindability(x, p, c) ==
    CASE c.r = None -> "Unnecessary"
      [] IsMotion(x) -> IF OuterRefs THEN "Prohibited" ELSE "Required"
      [] x.op \in {"Filter", "ExternalScan"} -> Unless(RewindOK(p, c), "Required")
      [] OTHER -> "Unnecessary"

EpetEngine(x, p, c) ==
    CASE c.e = AnyEngine -> "Unnecessary"
      [] x.op = "Transition" -> Unless(EngineOK(x.e, c), "Prohibited")
      [] OTHER -> Unless(EngineOK(p.e, c), "Required")

Epets(x, p, c) ==
    {EpetOrder(x, p, c), EpetDistribution(x, p, c), EpetRewindability(x, p, c),
     EpetEngine(x, p, c)}

(* CEngine::FProhibited and FOptimize *)
FProhibited(x, p, c) == "Prohibited" \in Epets(x, p, c)
FOptimize(x, p, c) == Epets(x, p, c) \subseteq {"Unnecessary"}

(* Matches of the enforcers: a transition matches every other one to the same
   engine, so the memo keeps the flags of the one inserted first. *)
Matches(x, y) == IF x.op = "Transition" THEN y.op = x.op /\ y.e = x.e ELSE x = y

(* an enforcer, if it is needed and the group does not have it yet *)
New(needed, x) ==
    IF needed /\ \A y \in ToSet(exprs) : ~Matches(x, y) THEN <<x>> ELSE <<>>

(* AppendEnforcers of the four property specs: the transition is given the flags
   of the pair (engine x derives, required engine); a spool over a motion hazard
   is eager. *)
EngineEnforcer(needed, p, c) == New(needed, TransitionOp(c.e, Preserve[p.e][c.e]))
OrderEnforcer(needed) == New(needed, SortOp)
DistributionEnforcers(needed, c) ==
    New(needed /\ c.d = "Hashed", HashMotionOp)
        \o New(needed /\ c.d = "Singleton", GatherOp)
        \o New(needed /\ c.d = "Singleton" /\ c.o, GatherMergeOp)
RewindEnforcer(needed, p, c) == New(needed, SpoolOp(~HazardHandling \/ (c.h /\ p.h)))

(* Mutant: the order is left to the gather merge. *)
Mut_AppendEnforcers(x, p, c) ==
    EngineEnforcer(EpetEngine(x, p, c) = "Required", p, c)
        \o DistributionEnforcers(EpetDistribution(x, p, c) = "Required", c)
        \o RewindEnforcer(EpetRewindability(x, p, c) = "Required", p, c)

(* the enforcers FCheckEnfdProps adds to the group, in its order *)
AppendEnforcers(x, p, c) ==
    EngineEnforcer(EpetEngine(x, p, c) = "Required", p, c)
        \o OrderEnforcer(EpetOrder(x, p, c) = "Required")
        \o DistributionEnforcers(EpetDistribution(x, p, c) = "Required", c)
        \o RewindEnforcer(EpetRewindability(x, p, c) = "Required", p, c)

(* FValidContext of spool and motion; p is the plan of the child. *)
FValidContext(x, p, c) ==
    /\ x.op = "Spool" => (c.h /\ p.h => x.eager)
    /\ IsMotion(x) => ~(DistributionOK(MotionDistribution(x), c) /\ DistributionOK(p.d, c))
-----------------------------------------------------------------------------
Top == stack[Len(stack)]

(* The first job of the batch under the innermost context is finished. *)
Finished == stack' = [stack EXCEPT ![Len(stack)] = [Top EXCEPT !.todo = Tail(Top.todo), !.asked = FALSE]]

SetBest(c, x, p) ==
    best' = [k \in DOMAIN best \cup {c} |-> IF k = c THEN [x |-> x, p |-> p] ELSE best[k]]

(* CGroupExpression::PccComputeCost makes a cost context of x over q *)
Costed(x, q, c) ==
    /\ FOptimize(x, Derive(x, q), c)
    /\ FValidContext(x, q, c)
    /\ FSatisfied(Derive(x, q), c)

(* CEngine::FCheckEnfdProps followed, if it returns true, by PccComputeCost: add
   enforcers, or cost the plan.  q is the plan of the child, if x has one. *)
FCheckEnfdProps(x, q, c) ==
    LET p == Derive(x, q) IN
    IF FProhibited(x, p, c) THEN UNCHANGED <<exprs, best>>
    ELSE /\ exprs' = exprs \o AppendEnforcers(x, p, c)
         /\ \/ /\ Costed(x, q, c)
               /\ SetBest(c, x, p)
            \/ /\ Costed(x, q, c) => c \in DOMAIN best
               /\ UNCHANGED best

(* a context, who asked for it, the jobs of its current batch, how much of the
   list has been scheduled, and whether the first job waits for its child *)
Frame(c, by) == [c |-> c, by |-> by, todo |-> <<>>, seen |-> 0, asked |-> FALSE]

(* Another group asks for a context. *)
Ask(c) ==
    /\ stack = <<>>
    /\ c \notin done
    /\ stack' = <<Frame(c, NoExpr)>>
    /\ UNCHANGED <<exprs, done, best>>

(* the jobs scheduled for the expressions that are new in the list; the scheduler
   executes the last one first *)
Batch == Reverse(SubSeq(exprs, Top.seen + 1, Len(exprs)))

(* FScheduleGroupExpressions.  An expression that FOptimizeChild leaves out gets
   no job; here it gets one that is cancelled. *)
Schedule ==
    /\ stack # <<>> /\ Top.todo = <<>>
    /\ Top.seen < Len(exprs)
    /\ stack' = [stack EXCEPT ![Len(stack)] = [Top EXCEPT !.todo = Batch, !.seen = Len(exprs)]]
    /\ UNCHANGED <<exprs, done, best>>

(* EevtCompleteOptimization: the context is optimized. *)
Complete ==
    /\ stack # <<>> /\ Top.todo = <<>>
    /\ Top.seen = Len(exprs)
    /\ done' = done \cup {Top.c}
    /\ stack' = SubSeq(stack, 1, Len(stack) - 1)
    /\ UNCHANGED <<exprs, best>>

(* the expression whose job is executed next *)
Current == Top.todo[1]
Ready == stack # <<>> /\ Top.todo # <<>> /\ ~Top.asked
Admitted == FOptimizeChild(Top.by, Current, Top.c) /\ FCheckReqdProps(Current, Top.c)

(* ScheduleChildGroupsJobs: "child context cannot be the same as parent context" *)
SameContext == Prpp(Current, Top.c) = Top.c

(* The job is cancelled. *)
Refuse ==
    /\ Ready
    /\ \/ ~Admitted
       \/ Current \notin Base /\ SameContext
    /\ Finished
    /\ UNCHANGED <<exprs, done, best>>

OptimizeBase ==
    /\ Ready /\ Current \in Base /\ Admitted
    /\ FCheckEnfdProps(Current, Current.p, Top.c)
    /\ Finished
    /\ UNCHANGED done

(* The job of an enforcer asks for its child context and sleeps.  A context that
   is being optimized gets no second job: the new one is parked behind it. *)
AskChild ==
    /\ Ready /\ Current \notin Base /\ Admitted /\ ~SameContext
    /\ LET cc == Prpp(Current, Top.c)
           asleep == [stack EXCEPT ![Len(stack)] = [Top EXCEPT !.asked = TRUE]]
       IN  stack' = IF cc \in done \cup {stack[i].c : i \in 1 .. Len(stack)}
                    THEN asleep ELSE Append(asleep, Frame(cc, Current))
    /\ UNCHANGED <<exprs, done, best>>

(* The child context is done: enforce over its best plan, if there is one
   (FChildrenOptimized). *)
FinishChild ==
    /\ stack # <<>> /\ Top.asked
    /\ LET cc == Prpp(Current, Top.c) IN
       /\ cc \in done
       /\ IF cc \in DOMAIN best
          THEN FCheckEnfdProps(Current, best[cc].p, Top.c)
          ELSE UNCHANGED <<exprs, best>>
    /\ Finished
    /\ UNCHANGED done

Next ==
    \/ \E c \in Requests : Ask(c)
    \/ Schedule \/ Refuse \/ OptimizeBase \/ AskChild \/ FinishChild \/ Complete

Spec == Init /\ [][Next]_vars
FairSpec == Spec /\ WF_vars(Next)
-----------------------------------------------------------------------------
(* Types. *)
EnforcementTypeOK ==
    /\ exprs \in Seq(Base \cup Enforcer)
    /\ \A i \in DOMAIN stack :
          /\ stack[i].c \in Context
          /\ stack[i].by \in Enforcer \cup {NoExpr}
          /\ ToSet(stack[i].todo) \subseteq ToSet(exprs)
          /\ stack[i].seen \in 0 .. Len(exprs)
          /\ stack[i].asked => stack[i].todo # <<>>
    /\ done \subseteq Context
    /\ DOMAIN best \subseteq Context
    /\ \A c \in DOMAIN best : best[c].x \in ToSet(exprs) /\ best[c].p \in Plan

(* No job of the group is parked behind a job that waits for it: the context an
   enforcer asks for is never one that is still being optimized.  The checks of
   FCheckReqdProps and ScheduleChildGroupsJobs are there "to prevent deadlocks",
   and compare a context only with what its own enforcer asks for. *)
NoSelfDeadlock ==
    (stack # <<>> /\ Top.asked) => Prpp(Current, Top.c) \in done

(* The enforcement functions agree with the derivation functions: an expression
   for which no enforcer is required or prohibited delivers the context.  The
   assert of PccComputeCost, "Cost context carries an invalid plan". *)
CostContextsValid ==
    /\ (Ready /\ Current \in Base /\ FOptimize(Current, Current.p, Top.c))
          => FSatisfied(Current.p, Top.c)
    /\ (stack # <<>> /\ Top.asked) =>
          LET cc == Prpp(Current, Top.c)
              p == Derive(Current, best[cc].p)
          IN  (cc \in DOMAIN best /\ FOptimize(Current, p, Top.c)
                 /\ FValidContext(Current, best[cc].p, Top.c)) => FSatisfied(p, Top.c)

(* The plan of a context stands on the best plan of its child context, which is
   not replaced after the plan was costed and its properties were derived. *)
PlansConsistent ==
    \A c \in DOMAIN best :
        LET x == best[c].x
            cc == Prpp(x, c)
        IN  x \notin Base => /\ cc \in DOMAIN best
                             /\ best[c].p = Derive(x, best[cc].p)

(* What FCheckEnfdProps accepts can be extracted: the plans of contexts deliver
   them, and each stands on the plan of its child context. *)
PlansValid == EnforcementTypeOK /\ CostContextsValid /\ PlansConsistent

(* Whatever a group is asked for, its optimization ends, and every context it
   was asked for on the way has a plan: the enforcers that FCheckEnfdProps adds
   for one context are enough to deliver it, although each breaks what another
   one delivers. *)
OptimizationEnds == (stack # <<>>) ~> (stack = <<>> /\ done \subseteq DOMAIN best)
=============================================================================
