# A TLA+ model of the optimizer

This directory holds a TLA+ model of the search of the query optimizer in this
repository, and of the parts around it that keep state.  The optimizer is GPORCA, a
Cascades-style optimizer (memo of groups, transformation rules, property enforcement,
cost-based search), extended with several execution engines and run-time registration
of operators and engines (`libgpoptextender`).

## 1. Inventory

### 1.1 Components

| Component | State | Operations | Modelled in |
|---|---|---|---|
| Scheduler (`libgpopt/src/search/CScheduler.cpp`) | list of waiting jobs, counter of unfinished jobs | Add, Resume, Schedule, PreExecute, FExecute, EjrPostExecute, PjRetrieve, Suspend, Complete, CompleteQueued, ResumeParent, ExecuteJobs | `JobProtocol`, `JobScheduler` |
| Job (`CJob`) | state, parent, queue, reference counter `m_ulpRefs` | IncRefs, UlpDecrRefs, FResumeParent, Reset | `JobProtocol` |
| Job queue (`CJobQueue`) | main job `m_pj`, list of parked jobs, completed flag | EjqrAdd, NotifyCompleted, Reset | `JobProtocol` |
| Job factory (`CJobFactory`) | one pool of job objects per job type | PjCreate, Release, Truncate | `JobPool`, `JobProtocol` (hand-out and release), `SearchJobs` (`PhasesSeparate`) |
| Job state machine (`CJobStateMachine`) | current state | FRun | `SearchJobs` |
| Seven job types (`CJobGroup*`, `CJobGroupExpression*`, `CJobTransformation`) | cursor, flags, child contexts, level | the `Eevt...` functions | `SearchJobs` |
| Search driver (`CEngine::Optimize`) | current stage, best plan of each stage | Optimize, FinalizeSearchStage, FSafeToPrune, FOptimizeChild | `SearchJobs` |
| Memo, groups, group expressions | lists of expressions, states, contexts, best cost contexts | PgroupInsert, SetState, UpdateBestCost, PccInsertBest, PocLookupBest, ResetGroupStates | `SearchJobs` |
| Duplicate groups (`CMemo::GroupMerge`, `CGroup::AddDuplicateGrp`) | duplicate links, hash table of expressions, statistics | MarkDuplicates, ResolveDuplicateMaster, GroupMerge, MergeGroup, FRehash, FResetStats | `DuplicateGroups` |
| Enforcement (`CEngine::FCheckEnfdProps`, `CEnfd*`, `CEngineSpec`, `CPhysicalEngineTransition`) | contexts of a group, enforcers added to it, best plans | FCheckReqdProps, FCheckEnfdProps, AppendEnforcers, the `Epet` functions | `EngineEnforcement` (a table in `SearchJobs`) |
| Dynamic registry (`DynamicRegistry`, `CXformFactory::Add`) | engines, operators, transformations, hooks, cost functions, trace flags | Register..., Hook..., UseDefaultCPUTransforms, RemoveEngine | `DynamicRegistry` |
| Object pool (`CSyncPool`, `CJobFactory`) | two bit maps, clock hand | PtRetrieve, Recycle, Truncate | `JobPool` implements `ObjectPool` |
| Metadata cache (`CMDCache`, `CCache`, `CMDAccessor`, `COptTasks::OptimizeTask`) | hash table with clock hand, sizes, reference counts, local table of the running optimization | lookup, insert, evict, reset, shutdown, fetch | `MetadataCache` |
| Constraints (`CRange`, `CConstraintInterval`) | arrays of ranges | intersect, unite, subtract, complement, contain, from and to predicates | `Ranges`, `ConstraintInterval` |
| Cost model, statistics, operators, transformations, translators, DXL, metadata, platform layer | – | – | not modelled (section 8) |

### 1.2 How they interact

`CEngine::Optimize` runs *stages*.  A stage schedules one job, the optimization
of the root group, and enters `CScheduler::ExecuteJobs`.  The loop takes a
waiting job, executes its state machine and looks at what it reports: the job is
*suspended* because it added child jobs with `Add`, or it is *completed*.  A
child that completes takes one reference off its parent, and the last one
reschedules it.  Jobs on a group (exploration, implementation, optimization
under a context) share a *job queue*: the first becomes its main job and does the
work, later ones find it completed, or are parked behind the main job and
completed by it.  The state machines read and write the memo: exploring a group
explores its expressions, these explore their child groups and then run
transformations, which insert expressions into groups whose jobs are suspended.
Optimizing a group under a context starts a job per physical expression and
request; these optimize child groups under child contexts, add enforcers to their
own group, and record costs.  After exploration `CMemo::GroupMerge` merges groups that
transformations have shown to be equal.  Which operators, transformations and engines
there are is decided at run time by calls on the dynamic registry; tables, types and
statistics come from the metadata cache, which outlives optimizations.

### 1.3 What is hard

The optimizer runs in one thread, so nothing runs in parallel; what is hard is
the *order*: hundreds of suspended state machines share groups, queues and
contexts, each resumes in a memo that has changed, and a timeout may stop all of
them anywhere.  `PROJECT.json` lists the hazards at their lines.  In short:

* one counter with three meanings decides whether a job runs, sleeps or is
  recycled (`CScheduler.cpp:350`, `:528`);
* recycled job objects come back at the same address while queues still remember
  it (`CJobQueue.cpp:46`);
* if all remaining jobs wait for each other, the loop returns as if it had
  finished (`CScheduler.cpp:116`);
* a timeout makes every state machine report completion in mid-work
  (`CJobStateMachine.h:147`);
* groups grow behind the cursors of their jobs (`CJobGroupExploration.cpp:148`);
* pruning and levels may silently lose the best plan (`CEngine.cpp:625`,
  `CJobGroupOptimization.cpp:310`);
* a plan is extracted over children that were improved later (`CMemo.cpp:326`);
* enforcers ask their own group for a plan and must not go round in circles
  (`CEngine.cpp:2319`);
* merging groups changes the hash values of expressions that are in the table
  (`CMemo.cpp:470`) and may reveal further duplicates;
* nine maps of the registry refer to each other by name and by id, and a failed
  lookup yields the valid id 0 (`DynamicRegistry.cpp:169`);
* the clock of the cache evicts in the middle of nested fetches, while objects are held
  (`CCache.h:385`) and while entries appear and vanish around its hand.

### 1.4 What makes each component correct

* Scheduler, jobs, queues: counters are exact; no wake-up is lost; nobody uses a
  recycled job; the operation of a queue runs once; the loop returns only when all
  jobs are done.
* State machines: they keep the contract the scheduler relies on; groups are
  marked explored or implemented only when everything in and below them is;
  phases do not overlap; states advance one at a time.
* Optimization: plans are costed over finished children; a complete stage finds
  the cheapest plan of its memo; the search terminates.
* Enforcement: no enforcer waits for itself; an accepted plan delivers its context and
  stands on the final plan of its child context; every request ends with a plan.
* Duplicate groups: links are acyclic; merging computes the congruence closure of what
  was marked, no more and no less; the hash table is current afterwards.
* Registry: an engine takes everything of its own with it and nothing of others;
  every transformation is in the slot of its id and none in use is disabled.
* Pool: one holder per object; the heap is used only when the array is full.
* Cache: nothing in use is destroyed; counts and sizes are exact; keys are unique; no
  optimization sees metadata older than its start; evictions end.
* Intervals: they hold exactly the values for which the predicate qualifies; where a part
  of it has no interval or is misread they err on the side that is known.

## 2. Modules

`JobProtocol` is the protocol between scheduler, jobs and queues.  `waiting` is a
*set*: which waiting job is retrieved is left open, so its properties do not
depend on the order of the list.  One action is one function call in the body of
the loop of `ExecuteJobs`:

| Action | Code |
|---|---|
| `ScheduleMainJob`, `FinalizeSearchStage` | `CEngine::Optimize` and the queue resets of `CMemo::ResetGroupStates` |
| `Retrieve`, `Return` | `PjRetrieve` + `PreExecute`; the empty list |
| `ExecuteUnqueued`, `ExecuteMain`, `ExecuteQueued`, `ExecuteCompleted` | `FExecute` with the three answers of `EjqrAdd` |
| `AddChild`, `BodySuspends`, `BodyCompletes` | what a job's own `FExecute` may do |
| `NotifyOne`, `NotifyDone` | iterations of `NotifyCompleted` with `CompleteQueued` and `Release` |
| `PostCompleted`, `PostRunnable`, `PostSuspended` | the three results of `EjrPostExecute` |

`pc` says where the loop is, `cur` which job it executes.  `starts` and `level` are
history variables: how often a queue's operation was started since its last
reset, and the level of the nearest queue at or above a job.  `m_ejs` exists in
debug builds only; the model uses it to name states the release build keeps
implicitly.

`JobScheduler` extends it with the list `listjlWaiting` as the code keeps it:
`Schedule` pushes at the head, `PjRetrieve` pops the head.  Each of its steps is a
step of `JobProtocol`.

`SearchJobs` extends `JobScheduler` with the bodies of the jobs: the seven state
machines, the memo they work on, and the stages with their timeouts.  An action of
the model is one action function of a state machine (`Eevt...`); the jobs it adds
are put on `todo` and handed to the scheduler one by one (`AddJob`) before anything
else can happen; then `run` tells whether `FRun` goes on, returns false (`Suspend`)
or returns true (`Complete`).  Two functions of the code share the name
`EevtExploreChildren` (group job and expression job), likewise
`EevtImplementChildren` and `EevtOptimizeChildren`; the ones of the group jobs are
called `EevtExploreGroup`, `EevtImplementGroup` and `EevtOptimizeGroup` here, and the
two `EevtFinalize` of exploration and implementation are told apart by a suffix.
Operators are data: tables say which expressions a transformation yields, which
contexts an operator requests of its children (listed in the order in which they
are optimized), which enforcers it needs, what it costs.  A table also tells which
expressions are marked as circular dependencies by each stage (`Circular`):
`EevtImplementGroup` passes over them, as `FScheduleGroupExpressions` does, and marks the group
implemented all the same.  `ExploredClosed` therefore says of implemented groups that all
expressions but the circular ones are implemented; explored groups have no exception, since
the exploration job does not ask.

`JobPool` is the pool behind the job factory.  `PtRetrieve` starts a scan;
`ReserveObject` and `PassReserved` are iterations of its loop, `CreateObject` the
fallback to the heap; `Release` and `Truncate` are the calls of the factory.
`ObjectPool` is what a user may rely on: an object is handed to one user at a time.
`JobPool` implements it (`ImplementsObjectPool`).

`EngineEnforcement` is one group under many contexts.  A context is a record of the
required order, distribution, rewindability (with motion hazard) and engine, a plan
one of what is derived.  `Schedule`, `Complete`, `Refuse`, `OptimizeBase`, `AskChild`,
`FinishChild` are the steps of the group and expression jobs; `Epet...`, `...Reqd`,
`...Drvd` and `AppendEnforcers` are the functions of the same names, or of the
operators named.  The stack of contexts is the depth-first order that `JobScheduler`
shows.  Costs are left open: any accepted plan may become the best one.

`DynamicRegistry` has one action per call on the registry.  Operators, transformations
and hooks are sets and maps over names and ids as in the code; a lookup by name that
fails gives id 0.  Three constants state how callers use the registry: the built-in
transformations come first (`DefaultsFirst`), a name in use is not registered again
(`UniqueNames`), only registered engines are removed (`KnownEngines`).  The code
enforces none of them (section 6).

`DuplicateGroups` is the part of the memo that `SearchJobs` leaves out.  `InsertXformResult`
and `InsertNewGroup` insert what transformations yield; `MarkDuplicates`, `FollowLink`,
`AddLink` and `Resolve...` are the iterations of `AddDuplicateGrp` and
`ResolveDuplicateMaster`; `Merge...`, `Rehash...` those of `GroupMerge` and `FRehash`;
`ResetStats`, `VisitChild`, `ReturnReset` the recursion of `FResetStats` with an explicit
stack.

`MetadataCache` is the cache with the optimizations that use it one after the other, since
a worker has one task (`NoWorker`).  `OptimizeTask`,
`ConstructAccessor`, `GetImdObj`, `GetMDObjDXLStr`, `ParseDXLToIMDIdCacheObj`, `ParseCtas`,
`Insert` follow one fetch, which the provider may nest; `EvictEntriesOnePass`, `Advance`
and `Rewind` are the iterations of an eviction; `RaiseException` unwinds an optimization
at any point.

`Ranges` has the functions of `CRange` as operators, `ConstraintInterval` those of
`CConstraintInterval`.  Its state holds the arguments evaluated so far by
`PciIntervalFromScalarExpr`, each with the truth value of the predicate it came from, in
three-valued logic; leaves, AND, OR and NOT are the steps, in any nesting.  Each argument
has two flags that follow from the form of the predicate alone: whether its interval may hold
more values than qualify (`more`) and whether it may hold fewer (`fewer`).  AND over a
conjunct without an interval sets the first, a misread leaf one of the two (`HoldsMore`,
`HoldsFewer`), NOT swaps them.  `IntervalExact` says that these are the only exceptions.  The
merge loops
(`IntersectLoop`, `UnionLoop`, `DifferenceLoop`) are functions of the number of iterations
to the local variables of the loop: the two positions, the residual range and the array
built so far.  `AndLoop` and `UnionInPairs` do the same for AND and OR.  Comparing an absent datum is
an evaluation error in the model, so a passing run also shows that the code never
dereferences one.

The `MC_` modules give the constants values; a module `X_proofs` holds the theorems about
`X`, with the parts of their inductive invariants that no run needs (section 4).

Definitions named `Mut_...` are deliberately wrong variants of the definition that
follows them; they are not part of any specification and document which bug each
property would catch.

## 3. Runs

| Run | Module, configuration | Shows |
|---|---|---|
| `protocol_safety` | `MC_JobProtocol`, `_safety` | counters exact (`RefsExact`), list and counter of jobs exact (`WaitingIsRunnable`), no lost wake-up (`SuspendedIsAwaited`), no use of recycled jobs (`NoReleasedJobInUse`), each queue's operation starts once (`UniqueExecution`), completion order (`CompletesInOrder`) |
| `protocol_liveness` | `MC_JobProtocol`, `_liveness` | every job completes (`EveryJobCompletes`) |
| `lifo` | `MC_JobScheduler` | on a memo that may be cyclic, the list is the waiting set and the search is depth first (`LifoInv`), a job is parked only behind its own ancestor (`ParkedMeansCycle`; so never on an acyclic memo): cycles must be prevented by the jobs |
| `search_timeout` | `MC_SearchJobs`, `_timeout` | timeouts anywhere: the contract of `JobProtocol` (`SearchInv`), no job left (`DrainedOnReturn`), costs over finished children (`CostsCurrent`) |
| `search_complete` | `MC_SearchJobs`, `_complete` | all outcomes of the transformations: `ExploredClosed`, `PhasesSeparate`, the optimum (`OptimalFound`) and termination (`SearchTerminates`) |
| `job_pool` | `MC_JobPool` | no object is handed out twice (`ImplementsObjectPool`), the bit maps are exact (`PoolInv`), the heap is used only when the array is full (`NewOnlyWhenFull`) |
| `enforcement_plans` | `MC_EngineEnforcement`, `_plans` | no enforcer waits for its ancestor (`NoSelfDeadlock`), accepted plans deliver their contexts and stand on the plans of their child contexts (`PlansValid`), every request ends with a plan (`OptimizationEnds`) |
| `enforcement_outer` | `MC_EngineEnforcement`, `_outer` | a violation: with outer references `NoSelfDeadlock` fails (section 6) |
| `registry_calls` | `MC_DynamicRegistry` | maps refer to registered things only and nothing in use is disabled (`RegistryInv`), transformations are in their slots (`XformAtItsId`), a removal touches one engine only (`RemovalLocal`) |
| `duplicates` | `MC_DuplicateGroups` | links ascend (`LinksAscend`), no marked group keeps expressions and groups are merged exactly when congruence demands it (`MergeInv`), table and statistics are current (`TableCurrent`, `ResetExact`), merging ends (`MergeEnds`) |
| `cache` | `MC_MetadataCache` | counts are exact and nothing in use is destroyed (`CountsInv`), size, keys and clock hand of the table are right (`TableInv`), no stale metadata (`FreshMetadata`), an eviction that fails has tried everything (`EvictionThorough`) and ends (`EvictionEnds`) |
| `intervals` | `MC_ConstraintInterval` | exact intervals, up to the exceptions the form of the predicate tells (`IntervalExact`), canonical form (`IntervalInv`), containment (`ContainmentExact`), conversion to a predicate and back (`ScalarRoundTrip`) |

An invariant named `...Inv` is the conjunction of the type invariant of its module with
the named parts that belong together: `LifoInv` of `DepthFirst`; `SearchInv` of
`ContractHolds`; `PoolInv` of `BitmapsExact`; `PlansValid` of `CostContextsValid` and
`PlansConsistent`; `RegistryInv` of `RegistryClosed` and `LiveEnabled`; `MergeInv` of
`MergeComplete` and `ExactDuplicates`; `CountsInv` of `UsedIsAlive` and
`RefsMatchOwners`; `IntervalInv` of `RangesCanonical`.  `TableInv` has `SizeExact`,
`UniqueObjects` and `HandValid`.

`ContractHolds` is what connects the layers: `JobProtocol` lets a job complete only
when it has no unfinished children (the guard of `BodyCompletes`), which the code
does not test; `ContractHolds` shows that the real state machines never try.

`DrainedOnReturn` (the loop returns only when no job is left) holds for any bodies only
if the memo is acyclic; for that case it is a theorem (`LoopDrains`).  In `search_timeout` nothing is assumed: one operator asks its
own group for its own context, and it is the comparison in `ScheduleChildGroupsJobs`
("this is to prevent deadlocks") that keeps the loop from returning with jobs left.

### Bounds

* `protocol_*`, `lifo`: four job objects, two queues on two levels, four to six
  jobs created per stage, up to two stages.  Four jobs are enough for a main job
  whose child is parked behind another child's main job, for a grandchild, and for
  a job object that is recycled while its queue remembers it; six creations force
  recycling.  Jobs are interchangeable, so permutations of them are a symmetry of
  the safety runs.
* `search_*`: six groups (one scalar, two created by transformations in the second
  stage, of which one turns out to be a duplicate of the group above it, so that the
  expression over it is a circular dependency), 19 expressions, six contexts, two stages, thirteen job objects, at most
  100 jobs per stage.  The last two bounds are never reached.  The instance holds a
  commuted join, two requests of one operator, duplicate requests (an existing cost
  context), two optimization levels, two enforcers, a CTE sequence that is optimized
  twice, an operator refused under a parent, plans pruned before and after their first
  child, and transformations that leave a group without any plan.
* `job_pool`: three slots, two heap objects, a hand that wraps after 16 visits (in the
  code after 2^64).  Sixteen is not a multiple of three, so the wrap shifts the order of
  the slots.
* `enforcement_plans`: two engines, a scan on each that between them need every enforcer,
  all requests of an ordered result on one segment.  The transitions of this instance
  preserve rewindability.  With ones that do not, the part `CostContextsValid` of
  `PlansValid` fails (section 6) as soon as a request names an engine and a rewindability,
  but neither an order nor a distribution.
* `registry_calls`: the built-in engine and one that is registered, removed and
  registered again, two operator names, one transformation and one rule name, so that
  names are reused with new ids and ids outlive their names.
* `duplicates`: a chain of three groups, up to five expressions and four groups, two
  marks, two stages: enough for marks that cascade through rehashing, for links through
  links, and for merges that make the memo cyclic.
* `cache`: four objects, of which one is fetched while another is and falls into the
  same bucket, one has a bucket of its own and one bypasses the cache; an unlimited quota
  and one that fits some of them, so that entries of different sizes, held and not, are met
  by the hand.
* `intervals`: two constants and a value in every gap, since ranges and predicates tell
  only these apart; up to three arguments.  Intervals have up to three ranges, so a
  range of one array meets several of the other.  Array comparisons are = and <> with ANY and
  ALL over one or two constants, with and without a NULL among them.  The first argument of
  AND and OR is any predicate; the others are leaves, negated leaves or, next to a leaf,
  AND and OR of two leaves.  A third argument, and a leaf that follows an AND or OR, is a
  comparison with a constant or has no interval, has the `infer_nulls_as` of the arguments
  before it, and follows none that may hold more or fewer values; such a predicate may
  still be negated, or itself follow an argument.  The theorem of section 4 needs none of
  these bounds.  One predicate has no interval.

`CHECK_DEADLOCK FALSE`: the search ends, and the pool of the small instances may be
exhausted; that nothing gets stuck is stated by the liveness properties.

### Fairness

The optimizer is one thread that never blocks: weak fairness of its next step
(`WF_vars(Next /\ pc # "idle")`, `WF_allVars(SearchNext)`).  `protocol_liveness` in
addition assumes strong fairness of `BodyCompletes`: a job that is executed again
and again completes at some point.  `search_complete` shows where this comes from:
there the bodies are the real state machines and only weak fairness is assumed.
The other runs with liveness assume weak fairness of the one thread as well:
`EngineEnforcement` of every step, `DuplicateGroups` of marking and finalizing (not of
exploring: transformations need not yield anything), `MetadataCache` of the steps of an
eviction.

## 4. Proofs

Everything below is checked by TLAPS for every value of the constants that satisfies the
named assumptions.

### Scheduler, jobs and queues

`JobScheduler_proofs` proves of the protocol, for every finite set of jobs, every set of queues, every
assignment of levels, cyclic or not, and without bounds on anything but the
constants `MaxCreated` and `MaxStages`, which are arbitrary naturals:

* `ProtocolInvariant`: `Spec => []IInv`;
* `TypeCorrect`, `RefsAlwaysExact`, `WaitingAlwaysRunnable`, `NoLostWakeup`,
  `ReleasedJobsUnused`, `QueueRunsOnce`: the safety invariants of `protocol_safety`;
* `CompletionOrder`: the action property `CompletesInOrder`, from `IInv`;
* `LoopDrains`: `DrainedOnReturn`, if the memo is acyclic.

The assumptions are those of `JobAssumption`.  No property is inductive on its own.
`RefsExact` counts children and pins, so it needs to know on which queue lists a job
is (`QueueInv`: lists hold live jobs of their own queue, each once, the owner first),
where the executing job stands between taking and giving up its pins (`CurInv`), and
that a parked or waiting job has no children while a parent is suspended or executing
(`LiveInv`).  `ListInv` ties the waiting set and the counter to the job states.
`IInv` is their conjunction.  The proof has one lemma per action; cardinalities of
the sets of children before and after a step are compared by lemmas on adding and
removing an element.

`LoopDrains` is the absence of deadlock: if jobs are left when the list is empty, take
among those on the lowest level the deepest one that is not parked (a parked one points to
the main job of its queue, on the same level).  Nothing waits, so it is suspended, so by
`RefsExact` it has a child; the child is below it or is parked behind a job on a lower
level, and both contradict the choice.  `LevelInv` and `DepthInv` (`DrainInv`) say that
levels fall and depths grow along the job tree.  The assumption `AcyclicMemo` is needed:
`lifo` runs without it, and there the loop returns with jobs left.

Of the scheduler, under the same assumptions and with a memo that may be cyclic:

* `LifoImplementsProtocol`: `LifoSpec => Spec`, so that all of the above holds of the
  scheduler with its list.  `ListOK` says that the list holds the waiting jobs, each once.
* `SearchIsDepthFirst`, `OnlyCyclesPark`: `LifoInv` and `ParkedMeansCycle`.  The invariant
  `DfsInv` says that either some job is parked behind its own ancestor already, which then
  remains so, or nobody is parked and there is a map of jobs to depths with one suspended
  job at each depth, all above the executing job, and the list in descending depth.  That
  the suspended jobs are the ancestors of the executing one follows because `Ancestors` is
  the smallest set closed under `parent`.
* `NobodyParkedOnAcyclicMemo`: `EjqrAdd` then never parks a job.

### Search

`SearchJobs_proofs`, for any memo, any tables of transformations, requests and enforcers, any
number of stages and job objects, with timeouts anywhere:

* `SearchImplementsScheduler`: `SearchSpec => LifoSpec`.  `JobScheduler` leaves open what the
  body of a job does; here the bodies are the seven state machines, and each of their
  steps is a step or a stutter of the scheduler.  So what is proved of the scheduler and
  of the protocol holds of the search, too.  The step that could fail is `Complete`: the
  scheduler demands that a job has no unfinished child when it completes.
* `SearchKeepsContract`: `SearchInv`, which has that very condition (`ContractHolds`).

The inductive invariant is `SchedInv /\ SearchIInv`: the invariants of protocol and list, and
of the search `TypeInv`, `MemoInv` (an expression is in the list of its own group only, once,
and its child groups are not empty), `PlanInv` (the plans of a context are of its group),
`ControlInv` (an action that does not ask to be suspended leaves nothing to hand over, and no
child), `JobsInv` and `TodoInv` (`TaskOK`: what a job is about is in the memo and in the tables
of the current stage, on the queue `pjq` names; the cursor is in the group's list).
`ActionKeeps` is what the 19 actions have in common; each has a lemma that supplies its own
part.  `KeepIs`, `AfterIs`, `NewIs`, `InsertIs`, `LookupIs` say what the operators on lists and
plans compute.

Two more theorems speak of the memo as a whole:

* `ExplorationIsClosed` (`ExploredClosed`): what is marked explored or implemented is so all
  the way down.  A job that marks its group has only seen that a pass over the list schedules
  nothing; that the expressions it scheduled in earlier passes are done is known only from
  what happened in between.  `HistoryInv` keeps that.  `AwaitInv`: whatever a job has
  scheduled before is done, is about to be handed over, or is the work of one of its
  children.  A child may be parked, or may find its queue completed, so this needs `DoneInv`
  (a queue is completed only when its group or context has reached the goal, and the other
  way round; an expression that is passed over as circular counts as done), `OwnerInv` (only the main job of a queue has started), `CallInv` (what the caller of
  a job works on), `ProgressInv` (how far a job is when it waits) and `ClosedInv`
  (expressions in explored groups and groups under explored expressions come first).
  What a group waits for (`Due`) is fixed for a stage and only shrinks in later ones
  (`DueFacts`, `CircularAssumption`).  Timeouts end the exploration anywhere; these parts then claim nothing about completed
  queues, and `ClosedInv` still holds.
* `PlansAreCurrent` (`CostsCurrent`): a plan was costed over contexts its stage has optimized, and
  costs now what it cost then, or less if its children got better plans in a later stage.  The
  danger is a context whose best plan changes after a plan above it was costed.
  `ContextOpen` excludes it: a context whose expressions are still costed is not optimized
  yet, since its main job waits for them, so no plan of the stage stands on it; `FutureInv`
  says that later stages are untouched.  `PlannedInv` says that what is under a plan, or under
  an expression that is about to be costed, has a plan.

The assumptions state of which form the tables are: `SearchAssumption` (types),
`SeedAssumption` (`CMemo` is filled bottom up, so the initial memo is closed under children),
`CircularAssumption` (a mark stays), `ResultAssumption` (an implementation rule yields physical expressions, an enforcer stands
over its own group), `RequestAssumption` (a physical expression requests a context of each
child that is not scalar, of that child's group).

### Pool

`JobPool_proofs`, for every number of objects, every set of heap objects and every
wrap-around: `PoolInvariant` and, by a step simulation, `PoolImplementsObjectPool`.
`PoolInv`, types and `BitmapsExact`, is inductive: it ties the two bit maps to the holders,
a slot is in use exactly when it is reserved and not marked recycled.
`NewObjectsOnlyWhenFull` needs `ScanInv`, what a scan has established about the slots
behind the hand: none is marked recycled, and one passed twice is reserved.  It is
arithmetic modulo the number of slots (`TurnVisitsAll`: that many consecutive positions meet
every slot).

### Enforcement

`EngineEnforcement_proofs`: `EnforcementNeverDeadlocks`, for all engines, base operators,
preserve flags and requests of a group without outer references.  The invariant `EInv` says
that every context on the stack is the child context of an admitted enforcer under the
one below; a rank of contexts (8 for demanding rewindability, 4 for a distribution, 2 for
an order, 1 for an engine) decreases along each such pair, hence no context occurs twice.

`AcceptedPlansValid` is `PlansValid` under `PlanAssumptions`: no outer references, as in
`EInv`; engine transitions keep rewindability; table scans support mark and restore
(`CPhysicalTableScan::PrsDerive`); mark and restore is asked for on no engine in
particular, or on one where the whole group runs anyway.  The second and the last exclude
disagreements of section 6: without either, TLC finds an accepted plan that does not
deliver its context.  The invariant `PlanInv` adds to `EInv` that a context that is done
is not on the stack, that the jobs of a frame are those of listed expressions, that no
transition leads to an engine on which everything runs, and that each best plan is either
a base operator or stands on the best plan of a context that is done: so nothing replaces
a plan that others stand on.  `BaseDelivers` and `EnforcerDelivers` go through the `Epet`
functions: what `FCheckEnfdProps` lets through satisfies the context.

### Registry

`DynamicRegistry_proofs`: `XformsFound`, from `DefaultsFirst`: the length of the array of
the factory and the counter of ids advance together (`IdsInv`, `SlotsInv`).

`RegistryStaysClosed` (`RegistryInv`) and `RemovalsAreLocal` (the action property
`RemovalLocal`), from `UniqueNames` and `KnownEngines`.  `ClosedInv` says who owns what:
operators have an id exactly while they are listed, once; no two names share an id, no two
engines a name; an engine that is not registered has nothing; costs, hooks, factories,
transitions and rules refer to what registered engines own.

### Duplicate groups

`DuplicateGroups_proofs`, for every query, every set of transformation results and every
sequence of marks and merges:

* `DuplicateLinksAscend` (`LinksAscend`) needs that source and destination of a link being
  made are ordered, that the groups still to be resolved are below their target, and that
  moved expressions are those of a marked group (`LinkInv` = `ShapeInv`, `LocalsInv`,
  `LinksAscend`).
* `TableStaysCurrent` (`TableCurrent`) and `MergeLeavesOneGroup` (`MergeComplete`, a part of
  `MergeInv`) rest on `CurrentInv`.  `ClassInv`: there is a map of groups to the ends of
  their chains of links, and each end has a group with expressions on its chains, but for the
  two ends that are about to be linked, of which one has.  `PassInv`: the groups that a pass
  of `GroupMerge` is past are empty, if marked, and linked straight to an unmarked group.
  `ExploreInv`: transformations mark only groups with expressions; since `HashValue`
  looks at the links of empty groups only, exploring changes no hash value (`BucketKept`).
  `UniqueInv`: once a pass has found no new duplicates, no two expressions in the table
  match.
* `MergeIsExact` (`MergeInv`: types, `MergeComplete` and `ExactDuplicates`): groups end up
  with the same master just if the least congruence that holds the asserted pairs has them.
  `PairsInv` relates the links to all equivalences R of groups.  `SoundInv`: if R is a
  congruence with the asserted pairs, R has every link, so nothing else is merged.
  `CompleteInv`: if R has the links, R has the asserted pairs, the group each expression was
  made for with the one it is in, and for each hidden expression a twin that is not hidden,
  so nothing is forgotten.  `WalkInv` covers `ResolveDuplicateMaster` half way: the target
  is connected to the group without the link that is about to be replaced.  When `GroupMerge`
  is done, having the same master (`Kernel`) has the links, and is a congruence because the
  table is current and no two expressions in it match; it is the least one by `SoundInv`.
  `CongruenceIs` shows that the recursive definition of the congruence ends in time: each of
  its rounds adds one of `Len(dup)`² pairs or is the last.
* `StatsResetIsExact` (`ResetExact`): of the groups that `FResetStats` reaches, those keep their
  statistics from which nothing stale is reached.  `Clean` is the largest set of groups that
  is closed under what the recursion visits and has nothing stale in it (`CleanReach`: these
  are the groups from which the recursive definition reaches nothing stale).  `CallInv` is
  about the calls on the stack, for stacks of any depth and memos with cycles: a group that
  has lost its statistics is not clean; a group on the stack has its own, or a call from
  there up to the top is going to answer TRUE; children that were visited have returned, or
  are the next call; and the groups for which a call has returned, with those on the stack,
  are closed under what is visited.  The last part is what the early return at groups that
  were reset already could break.

The assumptions are those of the module: `ChildrenAssumption`, that the children of an
expression of the query are in the memo before it, is how `CMemo` is filled bottom up.

### Metadata cache

`MetadataCache_proofs`, for any number of ids, objects, buckets and nested fetches, any
quota and number of eviction passes: `CountsAreExact` (`CountsInv`), `TableStaysIntact`
(`TableInv`), `MetadataIsFresh` (`FreshMetadata`) and `InsertNeverCollides`: when a fetched
object is inserted, its key is neither in the cache nor in the local table.  They follow
from `CacheInv` (`CacheInductive`), the conjunction of

* `ShapeInv`, types; `ChainInv`, each entry is in the bucket of its key, one per key, and
  the clock hand is once in the bucket the index names; `LocalInv`, the local table holds
  objects that exist, one per key;
* `FetchInv`: there are objects in use only while there is an accessor, and then there is a
  cache; what is being fetched is neither in the cache nor in the local table.  This is why insertions do not collide, and without it an
  insertion could make a second entry of a key;
* `RefsMatchOwners` and `SizeExact`, which an eviction needs to destroy only what nobody
  has and to subtract what was added;
* `AgeInv`: outdated objects are in the cache only until the change is noticed, and until
  then a running optimization started before it.

`EvictionsAreThorough` (`EvictionThorough`): an eviction that ends without having freed enough
has counted every entry down to zero.  `ThoroughInv` counts passes: each takes one from the
counter of every entry, the current pass from those that the hand is past (`Passed`).  That
the hand passes no entry unseen (`AdvanceSees`) holds although entries are unlinked under it
and it takes itself out of one chain and into the next.  The first pass may start anywhere,
so an entry may be looked at once less than there are passes.

Sizes are sums over finite sets.  The library's theorems on
folds take operators as parameters; the module proves what it needs of sums from the
definition, by taking the smallest set for which it would fail.

### Ranges and intervals

`ConstraintInterval_proofs`, for every finite set of constants and arrays of any length.
The ends of ranges are any integers:

* `IntersectExact`, `DifferenceLeftExact`, `DifferenceRightExact`, `ExtendExact`,
  `DisjointLeftOrders`, `ContainsSound`: what each function of `CRange` computes, for all
  well formed ranges.  The proofs split by the branch taken and compare left and right
  ends separately.
* `PciIntersectExact`, `PciUnionExact`, `PciDifferenceExact`, `PciComplementExact`: what the
  merge loops compute.  Each loop has an invariant (`IntersectStates`, `UnionStates`,
  `DifferenceStates`): the array built so far is canonical and holds what the ranges already
  passed contribute; what is still to come lies to the right of it.  For `PciDifference` the
  invariant also says what the residual is: the part of the current range that is right of
  all ranges of the other array already passed.  Induction over the iterations takes the
  set of good iteration numbers as its predicate (`NaturalSteps`), which needs no theorem
  with an operator parameter.
* `BoolAndExact`, `BoolOrExact`: AND and OR over any number of arguments.
* `CanonicalForm`: canonical arrays that hold the same points are the same.  From it follow
  `ContainsIntervalExact` and `RoundTripExact`.
* Of the specification: `IntervalInvariant` (`IntervalInv`), `IntervalExactness`
  (`IntervalExact`), `ContainmentInvariant` (`ContainmentExact`), `RoundTripInvariant`
  (`ScalarRoundTrip`).  The inductive invariant is `IntervalStrong`: the arguments are a
  sequence of `ArgStates`, each a canonical array over the constants together with the truth
  values it stands for, and with what its flags promise (`Sound`, `Full`).  `IntervalExact`
  alone is not inductive, since the loops need canonical arrays as input.  `ArrayCmpNearly`
  shows of all 16 kinds of array comparisons, over any constants, that ALL is never given
  too few values and ANY never too many, and that `Misread` names just the doubtful ones.

The assumptions are `IntervalAssumption` (finitely many integer constants among the values
of the column; NULL is no interval) and `PointsAssumption` (there is a value below, above and
strictly between any constants).  The second is needed where the code reads a set off an
array: over a column with gaps two different arrays can hold the same values, and
`FContainsInterval` answers for the order in general.

### Model-checked only

* Liveness: `EveryJobCompletes`, `SearchTerminates`, `OptimizationEnds`, `MergeEnds`,
  `EvictionEnds`.  The prover has no rule for fairness.
* `PhasesSeparate` of `SearchJobs` does not follow from the assumptions on the tables: an
  implementation rule that yields an expression over a group that is new to the memo makes
  the exploration of that group start while its parent is implemented.  It holds for the
  tables that are checked, whose implementation rules use groups that are there.
* `OptimalFound` of `SearchJobs` compares with the cheapest of all plans, a recursive definition,
  so its proof is an induction over data.

## 5. Abstractions

* A job object belongs to one pool in the model, to the pool of its type in the code;
  which free job is handed out is fixed (`CHOOSE`).
* Costs are naturals and ties keep the older plan; the tie-breaking rules of
  `CCostContext::FBetterThan` are left out.  The cost of a plan is the sum of the local
  costs (the mode `useMaxCosting` is not modelled).
* The lower bound used for pruning is the local cost plus the cost of the child
  optimized last, which is what `CPartialPlan` computes up to statistics.  A pruned cost
  context is worse than the best one by construction and is not kept.
* Which expressions are circular dependencies is a table over the stages.
  `ContainsCircularDependencies` may mark an expression when it is asked, but only while its
  group is not explored (`CGroupExpression.cpp:1116`); then only `PgexprBestPromise`
  (`CGroup.cpp:1582`) asks, when statistics are derived.  The implementation job asks after
  the group was explored, and finds the mark or not, which the table leaves open.  The
  merges that make children duplicates, and the marks themselves, are in `DuplicateGroups`.
* A context stands for its required plan properties; contexts of different stages are
  different rows of `poc` and `best`.  Which contexts an operator requests does not
  depend on what the children delivered before.
* Exceptions (out of memory, abort requests, exhausted pools) end the optimization and
  are not modelled.
* `OptimalFound` compares with all plans the memo can form, including those that
  `FOptimizeChild` refuses under some parent.  The refused expression of the instance
  is never the cheapest of its context; if it were, the property would not hold, since
  the context is shared with parents that do not refuse it (hazard at
  `CEngine.cpp:525`).
* Enforcement: one order and one hashed distribution stand for all; partition
  propagation is left out.  Distribution and rewindability have their own rules, as in
  the code.
* Registry: only what registration and removal write and look up.  The factory's map of
  names and its sets of exploration and implementation transformations
  (`CXformFactory.cpp:113-137`) are left out.  `RegisterEngine` includes the test of its only
  caller, `Engine::UpdateEngineType` (`Engine.hpp:23-28`), that the name is new.  Built-in operators
  are one id; translators, metadata providers and the assignment of built-in operators to
  engines are left out.
* Duplicate groups: scalar groups and physical expressions are left out, children are
  matched in order (`CGroupExpression.cpp:919-929` sorts those of operators whose inputs
  commute), statistics are
  present or absent, output columns are not compared.  Where the code compares with an
  assertion only (explored groups, circular marks) the model does not assume it holds.
* Cache: optimizations do not run inside each other.  Each is a task of `gpos_exec`, which
  registers a worker and asserts that none is registered (`CWorker.cpp:41`,
  `CWorkerPoolManager.cpp:142`); when a second one ended, the first would be left without a
  worker (`:158`).  The cache itself does not look: `OptimizeTask` replaces it and shuts it down
  (`COptTasks.cpp:497`, `:632`, `:652`) whoever has an accessor, so the assertion at
  `CCache.h:345` that nobody holds an object then rests on there being one worker.
  What providers need is acyclic.  The size of an object does not change.  Deletion on request (`MarkForDeletion`), which
  only tests use, and the counters for tracing are left out.  If an object was inserted
  by a nested fetch in the meantime the accessor would keep its own copy (`CMDAccessor`);
  the model has that branch, and `InsertNeverCollides` shows that it is never taken as long as
  what providers need is acyclic.
* Intervals: the column has a type with an order.  For other types `CDefaultComparator`
  answers that nothing is equal, less or greater, and it puts NULL before all other datums; a
  NULL gets into a range only from `x = NULL`, which is left out.  NULL boolean constants, NULL
  array elements and `x IS DISTINCT FROM NULL` are in the model.  An array holds at least one
  constant that is not NULL (section 6 on others).  Predicates are taken as
  `PciIntervalFromScalarExpr` gets them, with NOT anywhere: the model does not rely on
  `CExpressionUtils::PexprUnnest`, which not all callers use.
  With `EopttraceArrayConstraints` off an array comparison has no interval: it is then one
  of the opaque predicates.

## 6. Disagreements met while modelling

One is a run with the expected result *violation*:

* `enforcement_outer`: the comments at `CJobGroupExpressionOptimization.cpp:511` and
  `CEngine.cpp:2310` say that comparing the child context with the own one prevents
  deadlocks.  In a group with outer references two enforcers ask for each other's contexts;
  neither child context equals its own context, and a job is parked behind its ancestor.
  Without outer references the theorem `EnforcementNeverDeadlocks` shows that this cannot
  happen.

The others were met as counterexamples of stronger properties or of instances without
the assumptions named above; the model states what holds and they are recorded here.

* `CBasePhysicalUnaryOp.cpp:124`: the registered unary operators, engine transitions
  included, answer that rewindability needs no enforcer, also when they do not preserve
  it; the assertion at `CGroupExpression.cpp:461` ("Cost context carries an invalid plan")
  then fails.  `RegisterEngineTransform` (`DynamicRegistry.hpp:280`) stores the flag for
  distribution also for rewindability.
* `CPhysicalFullMergeJoin.cpp:179`: the join asks its inner side for mark and restore, and
  for its own engine.  A transition turns mark and restore into rewindability
  (`CPhysical.cpp:511`) and asks for no spool.  Over an ordered table scan on another engine
  a transition that keeps everything is accepted without delivering it, and the assertion at
  `CGroupExpression.cpp:461` fails.
* `CXformFactory.cpp:316`: a transformation registered before `UseDefaultCPUTransforms` is
  not in the slot of its id, which `:334` asserts.
* `DynamicRegistry.cpp:166`: "includes removing relevant costs", but a name registered twice
  for one engine leaves the cost function of its first id behind.
* `DynamicRegistry.hpp:449`: removing an engine by an unknown name removes what was
  registered for engine 0.
* `traceflags.h:95` reserves 1000 flags to disable transformations; ids go up to 10000
  (`CXform.h:229`) and are never reused.
* `CGroup.cpp:943` asserts that merged groups are explored; a group below a circular
  expression may be merged unexplored.
* `CGroup.cpp:1858-1861` says statistics are reset when a group reachable at any depth has
  new expressions; the walk stops at groups without statistics.
* `CGroup.cpp:1866` also follows expressions with circular dependencies, which
  `CGroupExpression.cpp:1096` says can be ignored, until the stack check raises.
* `CGroupExpression.cpp:1116` says an explored expression has no circular dependency; a
  later merge can close a cycle through it.
* `CCache.h:231`: removing an entry that was marked for deletion does not take its bytes
  off the size (`:97`, "total size of the cache in bytes").  Only tests mark entries.
* `CCache.h:291` says entries are evicted until none is evictable; the passes counted at
  `:309` start in the middle of the table, and an entry before the hand may be passed once
  too few.  `EvictionThorough` states what does hold.
* `CConstraintInterval.cpp:115-141`: the table gives `r(not x) = complement(r'(x))`.  If x is an
  AND with a conjunct that has no interval, the interval of x is too large (`:691`), so its
  complement is too small and values that qualify are lost.  `PexprUnnest` pushes NOT below AND
  and OR, but check constraints do not pass through it (`CLogical.cpp:735-746`), and of
  NOT(NOT(x OR y)) it makes NOT(NOT x AND NOT y) (`CExpressionUtils.cpp:74-78`, `:145-170`).
* `CConstraintInterval.cpp:238-313` reads every = array comparison as IN and every <> one as NOT
  IN, whether it is ANY or ALL; `CConstraint.cpp:165-174`, the case without array constraints,
  tells the two apart.  For at least two different constants `x <> ANY (...)` gets too few
  values and `x = ALL (...)` too many.
* `CDatumSortedSet.cpp:29-32` leaves NULL elements out, and nobody reads the flag it sets: the
  interval of `x NOT IN (1, NULL)` holds too many values, that of `x IN (1, NULL)` too few
  when NULL counts as TRUE.  Without any other constant the set has no first datum (`:41`) and
  `CConstraintInterval.cpp:297` no last one.
* `CConstraintInterval.cpp:170-183`: a NULL boolean constant is FALSE, also when NULL counts as
  TRUE, which "evaluates to true or null" at `:123` does not allow.

## 7. Plan

Done: search (`JobProtocol`, `JobScheduler`, `SearchJobs`), pool, enforcement, registry,
duplicate groups, metadata cache, intervals, and the proofs of section 4.  Left:

1. Conjunctions and disjunctions of intervals over several columns
   (`CConstraintConjunction`, `CConstraintDisjunction`), on top of `ConstraintInterval`.
2. Binding of expressions to patterns (`CBinding`) against all tuples of a group's
   expressions.

## 8. Not modelled

The repository has 450,000 lines of implementation, of which the search, the memo, the
registry and the caches modelled here are a small part by size.  Nearly all the rest has
no state that survives a call:

* operators and transformations (some 600 classes), cost formulas and statistics are
  algebra and floating-point estimation: the search sees them through the tables
  described above;
* the translators between query trees, DXL and plans, the DXL parser and the metadata
  objects are conversions case by case, whose correctness is that of each case;
* the platform layer (`libgpos`: memory pools, exceptions, tasks) and the glue to the
  database server are outside of the search, except for the pool and the cache;
* test programs, the vendored parts of the server and the generated code are not part of
  the optimizer;
* the `GPOS_DEBUG`-only recursive optimizer in `CEngine` (`ApplyTransformations`,
  `TransitionGroup`) is not used in production.

A model of these parts would either repeat them line by line or leave out what they
compute, so the share of lines this project covers stays small.
