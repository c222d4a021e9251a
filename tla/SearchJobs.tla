----------------------------- MODULE SearchJobs -----------------------------
(***************************************************************************)
(* The job types of the search (src/libgpopt/src/search/CJob*.cpp): the    *)
(* state machines that explore, implement and optimize the groups of the   *)
(* memo, run by the scheduler of module JobScheduler, in search stages     *)
(* that may time out (CEngine::Optimize, CJobStateMachine::FRun).          *)
(*                                                                         *)
(* The operators are abstract: which group expressions a transformation    *)
(* adds, which contexts an operator requests of its children and which     *)
(* enforcers it needs under a context are tables.  The children of a group *)
(* expression are listed in the order in which they are optimized          *)
(* (CPhysical::Eceo).                                                      *)
(***************************************************************************)
EXTENDS JobScheduler, SequencesExt, FiniteSetsExt

CONSTANTS
    Group, Root, ScalarGroup,   \* groups; scalar groups are never optimized
    GExpr,      \* group expressions
    GroupOf,    \* CGroupExpression::Pgroup
    Kids,       \* Kids[e]: sequence of child groups
    Logical,    \* group expressions with a logical operator
    Seed,       \* Seed[g]: group expressions of g when the search starts
    Xform,      \* Xform[s][ph][e]: possible results of e's candidates in stage s
    Circular,   \* Circular[s]: expressions marked ecdCircularDependency by stage s
    Ctx, RootCtx, CtxGroup,     \* optimization contexts (required properties)
    Request,    \* Request[e][c]: child contexts, for each optimization request
    Provides,   \* <<e, c>> that pass CEngine::FCheckReqdProps
    Enforcers,  \* Enforcers[e][c]: enforcers FCheckEnfdProps adds
    Delivers,   \* <<e, c>> under which e needs no (other) enforcer
    Rejected,   \* <<parent, e>> that FOptimizeChild refuses (Sort over GatherMerge)
    Eol,        \* CGroupExpression::Eol: 0 low, 1 high
    CTESequence,\* sequences over a CTE producer
    CTECtx,     \* CTECtx[e]: context PrppCTEProducer asks of the producer
    LocalCost,  \* cost of the operator without its children
    Pruning,    \* trace flag EopttraceEnableSpacePruning
    CanTimeOut, \* the search stages have a time threshold
    CostThreshold   \* CSearchStage::m_cost_threshold

ASSUME SearchAssumption ==
    /\ Queue = ({"Exploration", "Implementation"} \X Group)
               \cup ({"Optimization"} \X Ctx)
    /\ Root \in Group /\ RootCtx \in Ctx /\ CtxGroup[RootCtx] = Root
    /\ None \notin Group \cup GExpr \cup Ctx
    /\ Logical \subseteq GExpr /\ ScalarGroup \subseteq Group
    /\ GroupOf \in [GExpr -> Group] /\ Kids \in [GExpr -> Seq(Group)]
    /\ CtxGroup \in [Ctx -> Group] /\ LocalCost \in [GExpr -> Nat]
    /\ Eol \in [GExpr -> 0..1]

(* The memo that the search starts with is closed under children. *)
ASSUME SeedAssumption ==
    /\ Seed \in [Group -> Seq(GExpr)] /\ Seed[Root] # <<>>
    /\ \A g \in Group :
          /\ Distinct(Seed[g])
          /\ \A e \in Range(Seed[g]) :
                GroupOf[e] = g /\ \A k \in Range(Kids[e]) : Seed[k] # <<>>

(* Transformations give lists of expressions, those that implement an expression
   physical ones; an enforcer is a physical expression over the group it is in. *)
ASSUME ResultAssumption ==
    /\ \A s \in 0..(MaxStages - 1), ph \in {"Exploration", "Implementation"}, e \in GExpr :
          /\ Xform[s][ph][e] \in Seq(SUBSET Seq(GExpr))
          /\ \A n \in DOMAIN Xform[s][ph][e] : \A es \in Xform[s][ph][e][n] :
                /\ Distinct(es)
                /\ ph = "Implementation" =>
                     \A x \in Range(es) : GroupOf[x] = GroupOf[e] => x \notin Logical
    /\ \A e \in GExpr, c \in Ctx :
          /\ Enforcers[e][c] \in Seq(GExpr \ Logical) /\ Distinct(Enforcers[e][c])
          /\ \A x \in Range(Enforcers[e][c]) :
                GroupOf[x] = GroupOf[e] /\ Range(Kids[x]) = {GroupOf[e]}

(* Marks are never taken back. *)
ASSUME CircularAssumption ==
    \A s \in 0..(MaxStages - 1) :
        Circular[s] \subseteq Logical /\ \A r \in 0..s : Circular[r] \subseteq Circular[s]

(* A physical expression requests a context of each child group that is not scalar;
   the CTE sequences of a group have the same producer. *)
ASSUME RequestAssumption ==
    /\ \A e \in GExpr, c \in Ctx : Request[e][c] \in Seq(Seq(Ctx \cup {None}))
    /\ \A e \in GExpr \ Logical, c \in Ctx :
          \A n \in DOMAIN Request[e][c] : \A i \in DOMAIN Kids[e] :
             Kids[e][i] \notin ScalarGroup =>
                 /\ i \in DOMAIN Request[e][c][n] /\ Request[e][c][n][i] \in Ctx
                 /\ CtxGroup[Request[e][c][n][i]] = Kids[e][i]
    /\ CTECtx \in [GExpr -> Ctx \cup {None}]
    /\ \A e \in CTESequence, f \in CTESequence :
          GroupOf[e] = GroupOf[f] /\ CTECtx[f] # None =>
              1 \in DOMAIN Kids[e] /\ CtxGroup[CTECtx[f]] = Kids[e][1]

VARIABLES
    task,       \* what the job was initialized with
    jsm,        \* state machine and bookkeeping of the job
    todo,       \* jobs the running action has still to hand to the scheduler
    run,        \* outcome of the last action in FRun: "go", "stay", "final"
    gexprs,     \* CGroup::m_listGExprs
    gstate,     \* CGroup::m_estate
    estate,     \* CGroupExpression::m_estate
    poc,        \* COptimizationContext::m_estate, per stage
    best,       \* COptimizationContext::m_pccBest, per stage
    costed,     \* cost contexts of this stage
    timedOut    \* CSearchStage::FTimedOut

memoVars == <<gexprs, gstate, estate>>
planVars == <<poc, best, costed>>
bodyVars == <<task, jsm, todo, run>>
searchVars == <<bodyVars, memoVars, planVars, timedOut>>
allVars == <<lifoVars, searchVars>>

(* EState of groups and group expressions, in order. *)
Unexplored == 0
Exploring == 1
Explored == 2
Implementing == 3
Implemented == 4

(* EState of optimization contexts. *)
Unoptimized == 0
Optimizing == 1
Optimized == 2

Stages == 0..(MaxStages - 1)
NoTask == [ejt |-> "None", g |-> None, e |-> None, c |-> None, n |-> 0,
           origin |-> None, cte |-> None]
NewJsm == [est |-> "Initialized", last |-> None, eol |-> 0, fKids |-> FALSE,
           fXforms |-> FALSE, ctxs |-> <<>>, child |-> 1, fCTE |-> FALSE]
NoPlan == [e |-> None, ctxs |-> <<>>, cost |-> 0]

(* The ScheduleJob functions: what a new job is initialized with. *)
GroupJob(ejt, g) == [NoTask EXCEPT !.ejt = ejt, !.g = g]
GExprJob(ejt, e) == [NoTask EXCEPT !.ejt = ejt, !.e = e]
XformJob(phase, e, n) ==
    [NoTask EXCEPT !.ejt = "Transformation", !.e = e, !.n = n, !.g = phase]
GroupOptimization(c, origin) ==
    [NoTask EXCEPT !.ejt = "GroupOptimization", !.g = CtxGroup[c], !.c = c,
                   !.origin = origin]
GExprOptimization(e, c, n, cte) ==
    [NoTask EXCEPT !.ejt = "GroupExpressionOptimization", !.e = e, !.c = c,
                   !.n = n, !.cte = cte]

(* SetJobQueue: group jobs have a queue, jobs on group expressions none. *)
QueueOf(t) ==
    CASE t.ejt = "GroupExploration"    -> <<"Exploration", t.g>>
      [] t.ejt = "GroupImplementation" -> <<"Implementation", t.g>>
      [] t.ejt = "GroupOptimization"   -> <<"Optimization", t.c>>
      [] OTHER                         -> None

(* PjCreate hands out a free object; bound: the pools of the model can run out. *)
HasFreeJob == \E j \in Job : ejs[j] = "Free"
FreeJob == CHOOSE j \in Job : ejs[j] = "Free"
Me == task[cur]
My == jsm[cur]

(* f of the elements of s, one after the other; the elements of s that are in T;
   the sum of s. *)
Collected(s, f) ==
    LET r[n \in 0..Len(s)] == IF n = 0 THEN <<>> ELSE r[n - 1] \o f[s[n]] IN r
Collect(s, f) == Collected(s, f)[Len(s)]
Keep(s, T) == Collect(s, [x \in Range(s) |-> IF x \in T THEN <<x>> ELSE <<>>])
Totals(s) == LET r[n \in 0..Len(s)] == IF n = 0 THEN 0 ELSE r[n - 1] + s[n] IN r
Total(s) == Totals(s)[Len(s)]

(* The group expressions of list s behind the cursor m_pgexprLastScheduled. *)
After(s, last) ==
    IF last = None THEN s
    ELSE SubSeq(s, (CHOOSE i \in DOMAIN s : s[i] = last) + 1, Len(s))

(* A child of e has become a duplicate of e's own group.  Only statistics derivation
   marks that, and only until the group is explored; the implementation job, which asks
   afterwards, finds one answer in all of a stage. *)
ContainsCircularDependencies(e) == e \in Circular[stage]

(* The expressions of a group that must reach state st before it. *)
Due(st) == {e \in Logical : st = Implemented => ~ContainsCircularDependencies(e)}

(* CEngine::InsertXformResult of an expression of group origin: new expressions go
   into that group, or into new groups for children that the memo does not have;
   an expression the memo has already is not added. *)
Insert(memo, origin, es) ==
    [g \in Group |->
        IF g = origin \/ memo[g] = <<>>
        THEN memo[g] \o Keep(es, {e \in GExpr : GroupOf[e] = g} \ Range(memo[g]))
        ELSE memo[g]]

(* The children of a result are groups of the memo. *)
InMemo(memo, es) == \A e \in Range(es) : \A k \in Range(Kids[e]) : memo[k] # <<>>

(* CGroup::PocLookupBest: the best plan of any stage for these properties. *)
PocLookupBest(c) ==
    LET found == {best[s][c] : s \in Stages} \ {NoPlan}
    IN  IF found = {} THEN NoPlan
        ELSE CHOOSE p \in found : \A q \in found : p.cost <= q.cost

PlanCost(e, ctxs) ==
    LocalCost[e] + Total([i \in DOMAIN ctxs |-> PocLookupBest(ctxs[i]).cost])

(* CEngine::FSafeToPrune, with the cost of the child optimized last. *)
FSafeToPrune(e, c, childCost) ==
    /\ Pruning
    /\ PocLookupBest(c) # NoPlan
    /\ LocalCost[e] + childCost > PocLookupBest(c).cost
-----------------------------------------------------------------------------
SearchInit ==
    /\ LifoInit
    /\ task = [j \in Job |-> NoTask]
    /\ jsm = [j \in Job |-> NewJsm]
    /\ todo = <<>>
    /\ run = "go"
    /\ gexprs = Seed
    /\ gstate = [g \in Group |-> Unexplored]
    /\ estate = [e \in GExpr |-> Unexplored]
    /\ poc = [s \in Stages |-> [c \in Ctx |-> Unoptimized]]
    /\ best = [s \in Stages |-> [c \in Ctx |-> NoPlan]]
    /\ costed = {}
    /\ timedOut = FALSE

(* CEngine::FSearchTerminated: the previous stage achieved the cost. *)
FSearchTerminated ==
    /\ stage > 0
    /\ PocLookupBest(RootCtx) # NoPlan
    /\ PocLookupBest(RootCtx).cost <= CostThreshold

Enlist(j, t) == /\ task' = [task EXCEPT ![j] = t]
                /\ jsm' = [jsm EXCEPT ![j] = NewJsm]

(* Head of the loop of CEngine::Optimize: restart the timer, schedule the
   optimization of the root group, enter the scheduler. *)
OptimizeStage ==
    LET main == GroupOptimization(RootCtx, None)
    IN  /\ stage < MaxStages
        /\ ~FSearchTerminated
        /\ HasFreeJob
        /\ ScheduleMainJob(FreeJob, QueueOf(main)) /\ Push
        /\ Enlist(FreeJob, main)
        /\ timedOut' = FALSE
        /\ UNCHANGED <<todo, run, memoVars, planVars>>

(* CEngine::FinalizeSearchStage with CMemo::ResetGroupStates: groups and group
   expressions start the next stage unexplored; the memo keeps them all. *)
FinalizeStage ==
    /\ FinalizeSearchStage /\ Push
    /\ gstate' = [g \in Group |-> Unexplored]
    /\ estate' = [e \in GExpr |-> Unexplored]
    /\ costed' = {}
    /\ UNCHANGED <<bodyVars, gexprs, poc, best, timedOut>>

(* The time threshold of the stage passes; only the head of FRun's loop looks. *)
TimeOut ==
    /\ CanTimeOut /\ ~timedOut
    /\ pc = "body" /\ todo = <<>> /\ run = "go"
    /\ timedOut' = TRUE
    /\ UNCHANGED <<lifoVars, bodyVars, memoVars, planVars>>
-----------------------------------------------------------------------------
(* CJobStateMachine::FRun.  It runs the action of the current state; the action
   stays in its state (the job will be suspended), moves to another one, or
   reaches the final state. *)
InState(ejt, est) ==
    /\ pc = "body" /\ todo = <<>> /\ run = "go" /\ ~timedOut
    /\ Me.ejt = ejt /\ My.est = est
    /\ UNCHANGED <<lifoVars, task, timedOut>>

Stay(me, kids) ==
    jsm' = [jsm EXCEPT ![cur] = me] /\ todo' = kids /\ run' = "stay"
Move(me, est) ==
    /\ jsm' = [jsm EXCEPT ![cur] = [me EXCEPT !.est = est]]
    /\ run' = "go" /\ UNCHANGED todo
Finish == run' = "final" /\ UNCHANGED <<jsm, todo>>

(* One call of CScheduler::Add by the action. *)
AddJob ==
    /\ todo # <<>> /\ HasFreeJob
    /\ AddChild(FreeJob, QueueOf(Head(todo))) /\ Push
    /\ Enlist(FreeJob, Head(todo))
    /\ todo' = Tail(todo)
    /\ UNCHANGED <<run, memoVars, planVars, timedOut>>

(* FRun returns false. *)
Suspend ==
    /\ todo = <<>> /\ run = "stay"
    /\ BodySuspends /\ Push
    /\ run' = "go"
    /\ UNCHANGED <<task, jsm, todo, memoVars, planVars, timedOut>>

(* FRun returns true: at the final state, or at the head of its loop when the
   stage has timed out (the job's Cleanup only frees memory). *)
Complete ==
    /\ todo = <<>> /\ (run = "final" \/ (run = "go" /\ timedOut))
    /\ BodyCompletes /\ Push
    /\ run' = "go"
    /\ UNCHANGED <<task, jsm, todo, memoVars, planVars, timedOut>>
-----------------------------------------------------------------------------
(* CJobGroupExploration *)

EevtStartExploration ==
    /\ InState("GroupExploration", "Initialized")
    /\ gstate' = [gstate EXCEPT ![Me.g] = Exploring]
    /\ Move(My, "ExploringChildren")
    /\ UNCHANGED <<gexprs, estate, planVars>>

(* Mutant: the group is marked explored after the first pass. *)
Mut_EevtExploreGroup ==
    /\ InState("GroupExploration", "ExploringChildren")
    /\ LET new == Keep(gexprs[Me.g], {e \in Logical : estate[e] < Explored})
       IN  IF new # <<>> /\ My.last = None
           THEN /\ Stay([My EXCEPT !.last = Last(new)],
                        [i \in DOMAIN new |->
                            GExprJob("GroupExpressionExploration", new[i])])
                /\ UNCHANGED gstate
           ELSE gstate' = [gstate EXCEPT ![Me.g] = Explored] /\ Finish
    /\ UNCHANGED <<gexprs, estate, planVars>>

(* FScheduleGroupExpressions: jobs for the unexplored logical expressions behind
   the cursor; the group is explored when there are none. *)
EevtExploreGroup ==
    /\ InState("GroupExploration", "ExploringChildren")
    /\ LET new == Keep(After(gexprs[Me.g], My.last), {e \in Logical : estate[e] < Explored})
       IN  IF new # <<>>
           THEN /\ Stay([My EXCEPT !.last = Last(new)],
                        [i \in DOMAIN new |->
                            GExprJob("GroupExpressionExploration", new[i])])
                /\ UNCHANGED gstate
           ELSE gstate' = [gstate EXCEPT ![Me.g] = Explored] /\ Finish
    /\ UNCHANGED <<gexprs, estate, planVars>>

(* CJobGroupExpressionExploration *)

EevtExploreChildren ==
    /\ InState("GroupExpressionExploration", "Initialized")
    /\ IF ~My.fKids
       THEN /\ estate' = [estate EXCEPT ![Me.e] = Exploring]
            /\ Stay([My EXCEPT !.fKids = TRUE],
                    [i \in DOMAIN Kids[Me.e] |->
                        GroupJob("GroupExploration", Kids[Me.e][i])])
       ELSE Move(My, "ChildrenExplored") /\ UNCHANGED estate
    /\ UNCHANGED <<gexprs, gstate, planVars>>

(* Mutant: the job moves on without waiting for the transformations. *)
Mut_ScheduleXforms(ph, est) ==
    /\ jsm' = [jsm EXCEPT ![cur].est = est]
    /\ todo' = [n \in DOMAIN Xform[stage][ph][Me.e] |-> XformJob(ph, Me.e, n)]
    /\ run' = "go"
    /\ UNCHANGED <<memoVars, planVars>>

(* ScheduleApplicableTransformations for phase ph. *)
ScheduleXforms(ph, est) ==
    /\ IF ~My.fXforms
       THEN Stay([My EXCEPT !.fXforms = TRUE],
                 [n \in DOMAIN Xform[stage][ph][Me.e] |-> XformJob(ph, Me.e, n)])
       ELSE Move(My, est)
    /\ UNCHANGED <<memoVars, planVars>>

EevtExploreSelf ==
    /\ InState("GroupExpressionExploration", "ChildrenExplored")
    /\ ScheduleXforms("Exploration", "SelfExplored")

EevtFinalizeExploration ==
    /\ InState("GroupExpressionExploration", "SelfExplored")
    /\ estate' = [estate EXCEPT ![Me.e] = Explored]
    /\ Finish
    /\ UNCHANGED <<gexprs, gstate, planVars>>

(* CJobTransformation: the results of the transformation (none if its pattern or
   its checks do not match) are inserted into the memo. *)
EevtTransform ==
    /\ InState("Transformation", "Initialized")
    /\ \E es \in Xform[stage][Me.g][Me.e][Me.n] :
         gexprs' = Insert(gexprs, GroupOf[Me.e], es) /\ InMemo(gexprs', es)
    /\ Finish
    /\ UNCHANGED <<gstate, estate, planVars>>
-----------------------------------------------------------------------------
(* CJobGroupImplementation *)

EevtStartImplementation ==
    /\ InState("GroupImplementation", "Initialized")
    /\ IF gstate[Me.g] < Explored
       THEN Stay(My, <<GroupJob("GroupExploration", Me.g)>>) /\ UNCHANGED gstate
       ELSE /\ gstate' = [gstate EXCEPT ![Me.g] = Implementing]
            /\ Move(My, "ImplementingChildren")
    /\ UNCHANGED <<gexprs, estate, planVars>>

(* Mutant: the pass ends at an expression with a circular dependency. *)
Mut_EevtImplementGroup ==
    /\ InState("GroupImplementation", "ImplementingChildren")
    /\ LET list == After(gexprs[Me.g], My.last)
           stop == {i \in DOMAIN list : ContainsCircularDependencies(list[i])}
           new == Keep(SubSeq(list, 1, Min(stop \cup {Len(list) + 1}) - 1),
                       {e \in Logical : estate[e] < Implemented})
       IN  IF new # <<>>
           THEN /\ Stay([My EXCEPT !.last = Last(new)],
                        [i \in DOMAIN new |->
                            GExprJob("GroupExpressionImplementation", new[i])])
                /\ UNCHANGED gstate
           ELSE gstate' = [gstate EXCEPT ![Me.g] = Implemented] /\ Finish
    /\ UNCHANGED <<gexprs, estate, planVars>>

(* FScheduleGroupExpressions: expressions with circular dependencies are passed over
   and never implemented. *)
EevtImplementGroup ==
    /\ InState("GroupImplementation", "ImplementingChildren")
    /\ LET new == Keep(After(gexprs[Me.g], My.last),
                       {e \in Due(Implemented) : estate[e] < Implemented})
       IN  IF new # <<>>
           THEN /\ Stay([My EXCEPT !.last = Last(new)],
                        [i \in DOMAIN new |->
                            GExprJob("GroupExpressionImplementation", new[i])])
                /\ UNCHANGED gstate
           ELSE gstate' = [gstate EXCEPT ![Me.g] = Implemented] /\ Finish
    /\ UNCHANGED <<gexprs, estate, planVars>>

(* CJobGroupExpressionImplementation *)

EevtImplementChildren ==
    /\ InState("GroupExpressionImplementation", "Initialized")
    /\ IF ~My.fKids
       THEN /\ estate' = [estate EXCEPT ![Me.e] = Implementing]
            /\ Stay([My EXCEPT !.fKids = TRUE],
                    [i \in DOMAIN Kids[Me.e] |->
                        GroupJob("GroupImplementation", Kids[Me.e][i])])
       ELSE Move(My, "ChildrenImplemented") /\ UNCHANGED estate
    /\ UNCHANGED <<gexprs, gstate, planVars>>

EevtImplementSelf ==
    /\ InState("GroupExpressionImplementation", "ChildrenImplemented")
    /\ ScheduleXforms("Implementation", "SelfImplemented")

EevtFinalizeImplementation ==
    /\ InState("GroupExpressionImplementation", "SelfImplemented")
    /\ estate' = [estate EXCEPT ![Me.e] = Implemented]
    /\ Finish
    /\ UNCHANGED <<gexprs, gstate, planVars>>
-----------------------------------------------------------------------------
(* CJobGroupOptimization *)

(* CGroup::EolMax *)
EolMax(g) == Max({Eol[e] : e \in Range(gexprs[g])} \cup {0})

EevtStartOptimization ==
    /\ InState("GroupOptimization", "Initialized")
    /\ IF gstate[Me.g] < Implemented
       THEN Stay(My, <<GroupJob("GroupImplementation", Me.g)>>) /\ UNCHANGED poc
       ELSE /\ poc' = [poc EXCEPT ![stage][Me.c] = Optimizing]
            /\ Move([My EXCEPT !.eol = EolMax(Me.g)], "OptimizingChildren")
    /\ UNCHANGED <<memoVars, best, costed>>

(* CEngine::FOptimizeChild *)
FOptimizeChild(origin, e, eol) ==
    origin # e /\ Eol[e] = eol /\ <<origin, e>> \notin Rejected

(* FScheduleGroupExpressions: a job for each request of each physical expression
   of the current level; the cursor passes the others, too. *)
EevtOptimizeGroup ==
    /\ InState("GroupOptimization", "OptimizingChildren")
    /\ LET new == Keep(After(gexprs[Me.g], My.last), GExpr \ Logical)
           opt == Keep(new, {e \in GExpr : FOptimizeChild(Me.origin, e, My.eol)})
           jobs == [e \in GExpr |-> [n \in DOMAIN Request[e][Me.c] |->
                                        GExprOptimization(e, Me.c, n, None)]]
       IN  IF new # <<>>
           THEN Stay([My EXCEPT !.last = Last(new)],
                     Collect(opt, jobs))
           ELSE Move(My, "DampingOptimizationLevel")
    /\ UNCHANGED <<memoVars, planVars>>

(* Mutant: the optimization level is not damped, high expressions only. *)
Mut_EevtCompleteOptimization ==
    /\ InState("GroupOptimization", "DampingOptimizationLevel")
    /\ poc' = [poc EXCEPT ![stage][Me.c] = Optimized] /\ Finish
    /\ UNCHANGED <<memoVars, best, costed>>

(* Mutant: the context is marked when its high level is done. *)
Mut_EevtCompleteOptimizationEarly ==
    /\ InState("GroupOptimization", "DampingOptimizationLevel")
    /\ IF My.eol > 0
       THEN /\ Move([My EXCEPT !.eol = @ - 1, !.last = None], "OptimizingChildren")
            /\ poc' = [poc EXCEPT ![stage][Me.c] = Optimized]
       ELSE Finish /\ UNCHANGED poc
    /\ UNCHANGED <<memoVars, best, costed>>

(* Mutant: the level is reset instead of damped. *)
Mut_EevtCompleteOptimizationCycles ==
    /\ InState("GroupOptimization", "DampingOptimizationLevel")
    /\ IF My.eol > 0
       THEN Move([My EXCEPT !.last = None], "OptimizingChildren") /\ UNCHANGED poc
       ELSE poc' = [poc EXCEPT ![stage][Me.c] = Optimized] /\ Finish
    /\ UNCHANGED <<memoVars, best, costed>>

EevtCompleteOptimization ==
    /\ InState("GroupOptimization", "DampingOptimizationLevel")
    /\ IF My.eol > 0
       THEN /\ Move([My EXCEPT !.eol = @ - 1, !.last = None], "OptimizingChildren")
            /\ UNCHANGED poc
       ELSE poc' = [poc EXCEPT ![stage][Me.c] = Optimized] /\ Finish
    /\ UNCHANGED <<memoVars, best, costed>>
-----------------------------------------------------------------------------
(* CJobGroupExpressionOptimization *)

EevtInitialize ==
    /\ InState("GroupExpressionOptimization", "Initialized")
    /\ IF <<Me.e, Me.c>> \in Provides /\ ~FSafeToPrune(Me.e, Me.c, 0)
       THEN Move(My, "OptimizingChildren")
       ELSE Finish
    /\ UNCHANGED <<memoVars, planVars>>

(* DerivePrevChildProps: the child optimized before child i has no plan, or its
   cost shows that this job cannot win. *)
PrevChildFailed(i) ==
    /\ i > 1 /\ Kids[Me.e][i - 1] \notin ScalarGroup
    /\ LET plan == PocLookupBest(Last(My.ctxs))
       IN  plan = NoPlan \/ FSafeToPrune(Me.e, Me.c, plan.cost)

(* ComputeCurrentChildRequirements *)
ChildContext(i) ==
    IF i = 1 /\ Me.cte # None THEN Me.cte ELSE Request[Me.e][Me.c][Me.n][i]

(* Mutant: the check that prevents deadlocks is missing. *)
Mut_EevtOptimizeChildren ==
    /\ InState("GroupExpressionOptimization", "OptimizingChildren")
    /\ LET i == My.child
       IN  IF i > Len(Kids[Me.e]) THEN Move(My, "ChildrenOptimized")
           ELSE IF Kids[Me.e][i] \in ScalarGroup
           THEN Stay([My EXCEPT !.child = i + 1], <<>>)
           ELSE IF PrevChildFailed(i) THEN Finish
           ELSE Stay([My EXCEPT !.child = i + 1, !.ctxs = Append(@, ChildContext(i))],
                     <<GroupOptimization(ChildContext(i), Me.e)>>)
    /\ UNCHANGED <<memoVars, planVars>>

EevtOptimizeChildren ==
    /\ InState("GroupExpressionOptimization", "OptimizingChildren")
    /\ LET i == My.child
       IN  IF i > Len(Kids[Me.e]) THEN Move(My, "ChildrenOptimized")
           ELSE IF Kids[Me.e][i] \in ScalarGroup
           THEN Stay([My EXCEPT !.child = i + 1], <<>>)
           ELSE IF PrevChildFailed(i) \/ ChildContext(i) = Me.c THEN Finish
           ELSE Stay([My EXCEPT !.child = i + 1, !.ctxs = Append(@, ChildContext(i))],
                     <<GroupOptimization(ChildContext(i), Me.e)>>)
    /\ UNCHANGED <<memoVars, planVars>>

(* CEngine::FCheckEnfdProps: enforcers are added to the group; the expression
   itself is costed only if it delivers the required properties. *)
EevtAddEnforcers ==
    /\ InState("GroupExpressionOptimization", "ChildrenOptimized")
    /\ IF \A i \in DOMAIN My.ctxs : PocLookupBest(My.ctxs[i]) # NoPlan
       THEN /\ gexprs' = Insert(gexprs, GroupOf[Me.e], Enforcers[Me.e][Me.c])
            /\ IF <<Me.e, Me.c>> \in Delivers THEN Move(My, "EnfdPropsChecked") ELSE Finish
       ELSE Finish /\ UNCHANGED gexprs
    /\ UNCHANGED <<gstate, estate, planVars>>

(* FScheduleCTEOptimization: the producer's context, given the best plan p. *)
CTEJob(p) ==
    IF /\ Me.e \in CTESequence /\ Me.cte = None
       /\ p.e \in CTESequence /\ CTECtx[p.e] \notin {None, p.ctxs[1]}
    THEN <<GExprOptimization(Me.e, Me.c, Me.n, CTECtx[p.e])>> ELSE <<>>

(* PccInsertBest: of the cost contexts of one request the better one is kept. *)
InsertBest(pcc) ==
    LET rivals == {p \in costed : [p EXCEPT !.ctxs = <<>>, !.cost = 0]
                                  = [pcc EXCEPT !.ctxs = <<>>, !.cost = 0]}
    IN  IF \A p \in rivals : pcc.cost < p.cost
        THEN (costed \ rivals) \cup {pcc} ELSE costed

(* PccComputeCost, UpdateBestCost and the child job that optimizes a CTE
   sequence again with what its consumers deliver. *)
EevtOptimizeSelf ==
    /\ InState("GroupExpressionOptimization", "EnfdPropsChecked")
    /\ IF My.fCTE THEN Move(My, "SelfOptimized") /\ UNCHANGED <<best, costed>>
       ELSE IF \E p \in costed : p.e = Me.e /\ p.c = Me.c /\ p.ctxs = My.ctxs
       THEN Finish /\ UNCHANGED <<best, costed>>
       ELSE LET plan == [e |-> Me.e, ctxs |-> My.ctxs, cost |-> PlanCost(Me.e, My.ctxs)]
                old == best[stage][Me.c]
                new == IF old = NoPlan \/ plan.cost < old.cost THEN plan ELSE old
            IN  /\ best' = [best EXCEPT ![stage][Me.c] = new]
                /\ costed' = InsertBest([e |-> Me.e, c |-> Me.c, n |-> Me.n,
                                         ctxs |-> My.ctxs, cost |-> plan.cost])
                /\ IF CTEJob(new) # <<>> THEN Stay([My EXCEPT !.fCTE = TRUE], CTEJob(new))
                   ELSE Move(My, "SelfOptimized")
    /\ UNCHANGED <<memoVars, poc>>

EevtFinalize ==
    /\ InState("GroupExpressionOptimization", "SelfOptimized")
    /\ Finish
    /\ UNCHANGED <<memoVars, planVars>>
-----------------------------------------------------------------------------
Action ==
    \/ EevtStartExploration \/ EevtExploreGroup
    \/ EevtExploreChildren \/ EevtExploreSelf \/ EevtFinalizeExploration
    \/ EevtTransform
    \/ EevtStartImplementation \/ EevtImplementGroup
    \/ EevtImplementChildren \/ EevtImplementSelf \/ EevtFinalizeImplementation
    \/ EevtStartOptimization \/ EevtOptimizeGroup \/ EevtCompleteOptimization
    \/ EevtInitialize \/ EevtOptimizeChildren \/ EevtAddEnforcers
    \/ EevtOptimizeSelf \/ EevtFinalize

SearchNext ==
    \/ OptimizeStage \/ FinalizeStage \/ TimeOut
    \/ LoopStep /\ UNCHANGED searchVars
    \/ Action \/ AddJob \/ Suspend \/ Complete

SearchSpec == SearchInit /\ [][SearchNext]_allVars

(* The optimizer runs in one thread that never waits for anything. *)
SearchFairSpec == SearchSpec /\ WF_allVars(SearchNext)
-----------------------------------------------------------------------------
Ejt == {"GroupExploration", "GroupExpressionExploration", "Transformation",
        "GroupImplementation", "GroupExpressionImplementation",
        "GroupOptimization", "GroupExpressionOptimization"}

(* Types; a job that is handed out has been initialized, its cursor stands on
   an expression of its own group, and it keeps one context per child that is
   optimized. *)
SearchTypeOK ==
    /\ LifoTypeOK
    /\ \A j \in Live :
          /\ task[j].ejt \in Ejt
          /\ jsm[j].last # None =>
                task[j].g \in Group /\ jsm[j].last \in Range(gexprs[task[j].g])
          /\ jsm[j].ctxs \in Seq(Ctx)
          /\ pjq[j] = QueueOf(task[j])
    /\ run \in {"go", "stay", "final"}
    /\ \A g \in Group : \A e \in Range(gexprs[g]) : GroupOf[e] = g
    /\ gstate \in [Group -> Unexplored..Implemented]
    /\ estate \in [GExpr -> Unexplored..Implemented]
    /\ poc \in [Stages -> [Ctx -> Unoptimized..Optimized]]
    /\ timedOut \in BOOLEAN

(* What JobProtocol assumes of a job's FExecute: FRun returns true, at a final
   state or because of the timeout, only when every child the job added has
   completed. *)
ContractHolds ==
    pc = "body" /\ todo = <<>> /\ run # "stay" => Children(cur) = {}

(* A group is explored (implemented) only when all its logical expressions and, under
   them, all child groups are, including those that transformations added while the
   group's own job was running.  The one exception is what the implementation job
   passes over (CJobGroupImplementation.cpp:161): expressions with circular
   dependencies are explored, but they and what is under them need not be implemented. *)
ExploredClosed ==
    \A g \in Group, st \in {Explored, Implemented} : gstate[g] >= st =>
        \A e \in Range(gexprs[g]) \cap Due(st) :
            /\ estate[e] >= st
            /\ \A i \in DOMAIN Kids[e] : gstate[Kids[e][i]] >= st

LiveOfType(ejts) == \E j \in Live : task[j].ejt \in ejts

(* When the job of the root group enters its next phase it truncates the pools
   of the jobs of the phase before ("if this is the root, release exploration
   jobs"), deleting them: none is alive then or created later in the stage. *)
PhasesSeparate ==
    stage < MaxStages =>
        /\ gstate[Root] >= Implementing =>
              ~LiveOfType({"GroupExploration", "GroupExpressionExploration"})
        /\ (\E c \in Ctx : CtxGroup[c] = Root /\ poc[stage][c] # Unoptimized) =>
              ~LiveOfType({"GroupImplementation", "GroupExpressionImplementation"})

(* A plan is costed on finished children only: all contexts below it have been
   optimized in its stage.  What it cost then is what its children cost now;
   for a plan of an earlier stage, whose children PexprExtractPlan may replace
   by better ones of a later stage, it is an upper bound. *)
CostsCurrent ==
    \A s \in Stages, c \in Ctx :
        LET p == best[s][c]
        IN  p # NoPlan =>
              /\ \A i \in DOMAIN p.ctxs : poc[s][p.ctxs[i]] = Optimized
              /\ p.cost >= PlanCost(p.e, p.ctxs)
              /\ s = stage => p.cost = PlanCost(p.e, p.ctxs)

NoCost == 1000

(* Costs of the cheapest plans of height at most k that the memo's physical
   expressions can form. *)
CheapestPlans ==
    LET plans(c) == {p \in Range(gexprs[CtxGroup[c]]) \X (1..Cardinality(Ctx)) :
                        /\ p[1] \notin Logical
                        /\ <<p[1], c>> \in Provides \cap Delivers
                        /\ p[2] \in DOMAIN Request[p[1]][c]}
        cheapest[k \in 0..Cardinality(Ctx)] ==
            [c \in Ctx |->
                IF k = 0 THEN NoCost
                ELSE Min({NoCost} \cup
                    {FoldLeft(LAMBDA sum, d : sum + (IF d = None THEN 0
                                                     ELSE cheapest[k - 1][d]),
                              LocalCost[p[1]], Request[p[1]][c][p[2]]) : p \in plans(c)})]
    IN  cheapest[Cardinality(Ctx)]

(* Branch and bound, optimization levels, cursors and the memoized contexts of
   earlier requesters lose nothing: a stage that has not timed out ends with
   the cheapest plan of the final memo for the query's requirements. *)
OptimalFound ==
    pc = "idle" /\ created > 0 /\ ~timedOut /\ CheapestPlans[RootCtx] < NoCost =>
        PocLookupBest(RootCtx).cost = CheapestPlans[RootCtx]

(* CEngine::Optimize returns: the state machines reach their final states, the
   optimization levels are damped, and all stages are run unless the cost
   threshold is met. *)
SearchTerminates == <>(pc = "idle" /\ (stage = MaxStages \/ FSearchTerminated))

(* The jobs are well formed and keep the contract of JobProtocol. *)
SearchInv == SearchTypeOK /\ ContractHolds
=============================================================================
