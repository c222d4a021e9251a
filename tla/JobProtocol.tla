---------------------------- MODULE JobProtocol ----------------------------
(***************************************************************************)
(* The job protocol of the optimizer's scheduler: CScheduler, CJob,        *)
(* CJobQueue and the hand-out and release of jobs by CJobFactory           *)
(* (src/libgpopt/src/search).                                              *)
(*                                                                         *)
(* A job carries a reference counter m_ulpRefs that pins it for three      *)
(* different reasons at once: one per unfinished child job, one while the  *)
(* scheduler executes it, one while it is the executing main job of, or    *)
(* is parked behind, its job queue.  Whoever takes the counter from 1 to 0 *)
(* decides what happens to the job next: it is put back on the waiting     *)
(* list, or completed and recycled.                                        *)
(*                                                                         *)
(* This module leaves open which waiting job PjRetrieve returns: `waiting' *)
(* is a set.  The order of the code is fixed in module JobScheduler, which *)
(* implements this specification.  What a job does when it is executed     *)
(* (CJob::FExecute) is abstracted to its contract with the scheduler: it   *)
(* adds any number of child jobs and then reports that it is suspended, or *)
(* it adds none and reports completion (CJobStateMachine::FRun).           *)
(***************************************************************************)
EXTENDS Integers, Sequences, FiniteSets, Functions

CONSTANTS
    Job,        \* the job objects the factory's pools hand out and take back
    Queue,      \* the job queues (three per group, one per optimization context)
    None,       \* the null pointer
    Level,      \* Level[q]: height of q's group in the memo
    AcyclicMemo,\* TRUE: a job only adds children on queues of lower groups
    MaxCreated, \* bound on the jobs created between two resets of the queues
    MaxStages   \* bound on the number of search stages

ASSUME JobAssumption ==
    /\ IsFiniteSet(Job)
    /\ None \notin Job /\ None \notin Queue
    /\ Level \in [Queue -> Nat]
    /\ AcyclicMemo \in BOOLEAN
    /\ MaxCreated \in Nat /\ MaxStages \in Nat

VARIABLES
    ejs,        \* CJob::m_ejs, or "Free" while the job is in its pool
    parent,     \* CJob::m_pjParent
    pjq,        \* CJob::m_pjq
    refs,       \* CJob::m_ulpRefs
    fresh,      \* the job's state machine is still in its initial state
    level,      \* level of the nearest queue at or above the job in the tree
    waiting,    \* jobs on CScheduler::m_listjlWaiting
    owner,      \* CJobQueue::m_pj
    fCompleted, \* CJobQueue::m_fCompleted
    queued,     \* CJobQueue::m_listjQueued
    starts,     \* number of operations started on a queue since its last reset
    cur,        \* the job inside the body of the loop of ExecuteJobs
    result,     \* value of CScheduler::FExecute(cur)
    pc,         \* where ExecuteJobs is
    total,      \* CScheduler::m_ulpTotal
    created,    \* jobs created since the queues were last reset
    stage       \* CEngine::m_ulCurrSearchStage

jobVars   == <<ejs, parent, pjq, refs, fresh, level>>
queueVars == <<owner, fCompleted, queued, starts>>
loopVars  == <<cur, result, pc>>
vars == <<jobVars, waiting, queueVars, loopVars, total, created, stage>>

EJobState == {"Free", "Waiting", "Running", "Suspended"}
Pc == {"idle",      \* outside of ExecuteJobs
       "retrieve",  \* at the head of the loop
       "execute",   \* in CScheduler::FExecute, before CJobQueue::EjqrAdd
       "body",      \* in CJob::FExecute of cur
       "notify",    \* in CJobQueue::NotifyCompleted
       "post"}      \* before EjrPostExecute

Live == {j \in Job : ejs[j] # "Free"}
Children(j) == {c \in Live : parent[c] = j}

(* Types.  refs and total are naturals: UlpDecrRefs never decrements from 0
   and m_ulpTotal never wraps. *)
TypeOK ==
    /\ ejs \in [Job -> EJobState]
    /\ parent \in [Job -> Job \cup {None}]
    /\ pjq \in [Job -> Queue \cup {None}]
    /\ refs \in [Job -> Nat]
    /\ fresh \in [Job -> BOOLEAN]
    /\ level \in [Job -> Nat]
    /\ waiting \subseteq Job
    /\ owner \in [Queue -> Job \cup {None}]
    /\ fCompleted \in [Queue -> BOOLEAN]
    /\ queued \in [Queue -> Seq(Job)]
    /\ starts \in [Queue -> Nat]
    /\ cur \in Job \cup {None}
    /\ result \in BOOLEAN
    /\ pc \in Pc
    /\ total \in Nat
    /\ created \in Nat
    /\ stage \in Nat
-----------------------------------------------------------------------------
(* CScheduler and CJobFactory constructors: no job is handed out. *)
Init ==
    /\ ejs = [j \in Job |-> "Free"]
    /\ parent = [j \in Job |-> None]
    /\ pjq = [j \in Job |-> None]
    /\ refs = [j \in Job |-> 0]
    /\ fresh = [j \in Job |-> TRUE]
    /\ level = [j \in Job |-> 0]
    /\ waiting = {}
    /\ owner = [q \in Queue |-> None]
    /\ fCompleted = [q \in Queue |-> FALSE]
    /\ queued = [q \in Queue |-> <<>>]
    /\ starts = [q \in Queue |-> 0]
    /\ cur = None
    /\ result = FALSE
    /\ pc = "idle"
    /\ total = 0
    /\ created = 0
    /\ stage = 0

(* PjCreate hands out a free job (reset), the job's Init attaches its queue,
   Add links it to its parent and Schedule puts it on the waiting list. *)
Create(j, q, p, lvl) ==
    /\ ejs[j] = "Free"
    /\ created < MaxCreated
    /\ created' = created + 1
    /\ ejs' = [ejs EXCEPT ![j] = "Waiting"]
    /\ pjq' = [pjq EXCEPT ![j] = q]
    /\ parent' = [parent EXCEPT ![j] = p]
    /\ fresh' = [fresh EXCEPT ![j] = TRUE]
    /\ level' = [level EXCEPT ![j] = lvl]
    /\ waiting' = waiting \cup {j}
    /\ total' = total + 1

(* CEngine::Optimize: schedule the main job, then enter ExecuteJobs. *)
ScheduleMainJob(j, q) ==
    /\ pc = "idle"
    /\ created = 0
    /\ Create(j, q, None, Level[q])
    /\ refs' = [refs EXCEPT ![j] = 0]
    /\ pc' = "retrieve"
    /\ UNCHANGED <<queueVars, cur, result, stage>>

(* Mutant: CJobQueue::Reset forgets the main job. *)
Mut_FinalizeSearchStage ==
    /\ pc = "idle"
    /\ created > 0
    /\ stage < MaxStages
    /\ \A q \in Queue : queued[q] = <<>>
    /\ stage' = stage + 1
    /\ fCompleted' = [q \in Queue |-> FALSE]
    /\ starts' = [q \in Queue |-> 0]
    /\ created' = 0
    /\ UNCHANGED <<jobVars, waiting, owner, queued, loopVars, total>>

(* CEngine::FinalizeSearchStage: the next stage starts on fresh queues. *)
FinalizeSearchStage ==
    /\ pc = "idle"
    /\ created > 0
    /\ stage < MaxStages
    /\ \A q \in Queue : queued[q] = <<>>      \* asserted by CJobQueue::Reset
    /\ stage' = stage + 1
    /\ owner' = [q \in Queue |-> None]
    /\ fCompleted' = [q \in Queue |-> FALSE]
    /\ starts' = [q \in Queue |-> 0]
    /\ created' = 0
    /\ UNCHANGED <<jobVars, waiting, queued, loopVars, total>>

(* PjRetrieve followed by PreExecute. *)
Retrieve(j) ==
    /\ pc = "retrieve"
    /\ j \in waiting
    /\ waiting' = waiting \ {j}
    /\ ejs' = [ejs EXCEPT ![j] = "Running"]
    /\ refs' = [refs EXCEPT ![j] = @ + 1]
    /\ cur' = j
    /\ pc' = "execute"
    /\ UNCHANGED <<parent, pjq, fresh, level, queueVars, result, total, created, stage>>

(* PjRetrieve finds the waiting list empty: ExecuteJobs returns. *)
Return ==
    /\ pc = "retrieve"
    /\ waiting = {}
    /\ pc' = "idle"
    /\ UNCHANGED <<jobVars, waiting, queueVars, cur, result, total, created, stage>>
-----------------------------------------------------------------------------
(* The job's own FExecute starts; a queue's operation starts when the state
   machine that runs on its behalf leaves its initial state. *)
BeginBody(q) ==
    /\ pc' = "body"
    /\ fresh' = [fresh EXCEPT ![cur] = FALSE]
    /\ starts' = IF q # None /\ fresh[cur]
                 THEN [starts EXCEPT ![q] = @ + 1] ELSE starts

(* CScheduler::FExecute of a job without a queue. *)
ExecuteUnqueued ==
    /\ pc = "execute"
    /\ pjq[cur] = None
    /\ BeginBody(None)
    /\ UNCHANGED <<ejs, parent, pjq, refs, level, waiting, owner, fCompleted, queued,
                   cur, result, total, created, stage>>

(* CJobQueue::EjqrAdd answers EjqrMain: the job owns the queue already, or it
   is the first on the list and becomes the owner. *)
ExecuteMain ==
    /\ pc = "execute"
    /\ pjq[cur] # None
    /\ LET q == pjq[cur]
       IN  /\ ~fCompleted[q]
           /\ \/ owner[q] = cur /\ UNCHANGED <<owner, queued>>
              \/ /\ owner[q] # cur
                 /\ queued[q] = <<>>
                 /\ owner' = [owner EXCEPT ![q] = cur]
                 /\ queued' = [queued EXCEPT ![q] = Append(@, cur)]
           /\ BeginBody(q)
    /\ refs' = [refs EXCEPT ![cur] = @ + 1]
    /\ UNCHANGED <<ejs, parent, pjq, level, waiting, fCompleted,
                   cur, result, total, created, stage>>

(* EjqrAdd answers EjqrQueued: another job is the main job. *)
ExecuteQueued ==
    /\ pc = "execute"
    /\ pjq[cur] # None
    /\ LET q == pjq[cur]
       IN  /\ ~fCompleted[q]
           /\ owner[q] # cur
           /\ queued[q] # <<>>
           /\ queued' = [queued EXCEPT ![q] = Append(@, cur)]
    /\ refs' = [refs EXCEPT ![cur] = @ + 1]
    /\ result' = FALSE
    /\ pc' = "post"
    /\ UNCHANGED <<ejs, parent, pjq, fresh, level, waiting, owner, fCompleted, starts,
                   cur, total, created, stage>>

(* EjqrAdd answers EjqrCompleted: the operation has been done. *)
ExecuteCompleted ==
    /\ pc = "execute"
    /\ pjq[cur] # None
    /\ fCompleted[pjq[cur]]
    /\ result' = TRUE
    /\ pc' = "post"
    /\ UNCHANGED <<jobVars, waiting, queueVars, cur, total, created, stage>>
-----------------------------------------------------------------------------
(* Mutant: Add forgets to take a reference on the parent. *)
Mut_AddChild(j, q) ==
    /\ pc = "body"
    /\ AcyclicMemo /\ q # None => Level[q] < level[cur]
    /\ Create(j, q, cur, IF q = None THEN level[cur] ELSE Level[q])
    /\ refs' = [refs EXCEPT ![j] = 0]
    /\ UNCHANGED <<queueVars, loopVars, stage>>

(* Some job type's ScheduleJob, called from the body of cur: CScheduler::Add
   with cur as parent.  q is None for jobs on group expressions. *)
AddChild(j, q) ==
    /\ pc = "body"
    /\ AcyclicMemo /\ q # None => Level[q] < level[cur]
    /\ Create(j, q, cur, IF q = None THEN level[cur] ELSE Level[q])
    /\ refs' = [refs EXCEPT ![cur] = @ + 1, ![j] = 0]
    /\ UNCHANGED <<queueVars, loopVars, stage>>

(* Mutant: a job without a queue gives up a reference, too. *)
Mut_BodySuspends ==
    /\ pc = "body"
    /\ refs' = [refs EXCEPT ![cur] = @ - 1]
    /\ result' = FALSE
    /\ pc' = "post"
    /\ UNCHANGED <<ejs, parent, pjq, fresh, level, waiting, queueVars,
                   cur, total, created, stage>>

(* The body reports that it is suspended; the main job of a queue gives up the
   reference EjqrAdd took. *)
BodySuspends ==
    /\ pc = "body"
    /\ refs' = IF pjq[cur] = None THEN refs ELSE [refs EXCEPT ![cur] = @ - 1]
    /\ result' = FALSE
    /\ pc' = "post"
    /\ UNCHANGED <<ejs, parent, pjq, fresh, level, waiting, queueVars,
                   cur, total, created, stage>>

(* Mutant: FRun reports completion although children are pending. *)
Mut_BodyCompletes ==
    /\ pc = "body"
    /\ result' = TRUE
    /\ IF pjq[cur] = None
       THEN pc' = "post" /\ UNCHANGED fCompleted
       ELSE /\ pc' = "notify"
            /\ fCompleted' = [fCompleted EXCEPT ![pjq[cur]] = TRUE]
    /\ UNCHANGED <<jobVars, waiting, owner, queued, starts, cur, total, created, stage>>

(* The body reports completion: its state machine reached the final state or
   the search stage timed out.  FRun reports completion only from a state in
   which it has not just added children. *)
BodyCompletes ==
    /\ pc = "body"
    /\ Children(cur) = {}
    /\ result' = TRUE
    /\ IF pjq[cur] = None
       THEN pc' = "post" /\ UNCHANGED fCompleted
       ELSE /\ pc' = "notify"
            /\ fCompleted' = [fCompleted EXCEPT ![pjq[cur]] = TRUE]
    /\ UNCHANGED <<jobVars, waiting, owner, queued, starts, cur, total, created, stage>>
-----------------------------------------------------------------------------
(* Mutant: the parent is rescheduled by its first child that completes. *)
Mut_ResumeParentEarly(j, r) ==
    LET p == parent[j]
    IN  IF p = None
        THEN refs' = r /\ waiting' = waiting /\ ejs' = [ejs EXCEPT ![j] = "Free"]
        ELSE /\ refs' = [r EXCEPT ![p] = @ - 1]
             /\ waiting' = waiting \cup {p}
             /\ ejs' = [ejs EXCEPT ![p] = "Waiting", ![j] = "Free"]

(* Mutant: FResumeParent tests the counter for 0 before decrementing it. *)
Mut_ResumeParentNever(j, r) ==
    /\ refs' = IF parent[j] = None THEN r ELSE [r EXCEPT ![parent[j]] = @ - 1]
    /\ waiting' = waiting
    /\ ejs' = [ejs EXCEPT ![j] = "Free"]

(* CScheduler::ResumeParent, on the counters r of the jobs: the parent loses
   one reference, and is rescheduled if that was its last one. *)
ResumeParent(j, r) ==
    LET p == parent[j]
    IN  IF p = None
        THEN refs' = r /\ waiting' = waiting /\ ejs' = [ejs EXCEPT ![j] = "Free"]
        ELSE /\ refs' = [r EXCEPT ![p] = @ - 1]
             /\ IF r[p] = 1
                THEN /\ waiting' = waiting \cup {p}
                     /\ ejs' = [ejs EXCEPT ![p] = "Waiting", ![j] = "Free"]
                ELSE /\ waiting' = waiting
                     /\ ejs' = [ejs EXCEPT ![j] = "Free"]

(* Mutant: the job at the head is completed whatever pins it still has. *)
Mut_NotifyOneAll ==
    /\ pc = "notify"
    /\ queued[pjq[cur]] # <<>>
    /\ LET q == pjq[cur]
           j == Head(queued[q])
       IN  /\ queued' = [queued EXCEPT ![q] = Tail(@)]
           /\ ResumeParent(j, [refs EXCEPT ![j] = @ - 1])
           /\ total' = total - 1
    /\ UNCHANGED <<parent, pjq, fresh, level, owner, fCompleted, starts,
                   loopVars, created, stage>>

(* Mutant: the parked jobs lose their pin and nobody completes them. *)
Mut_NotifyOneNone ==
    /\ pc = "notify"
    /\ queued[pjq[cur]] # <<>>
    /\ LET q == pjq[cur]
       IN  /\ queued' = [queued EXCEPT ![q] = Tail(@)]
           /\ refs' = [refs EXCEPT ![Head(queued[q])] = @ - 1]
    /\ UNCHANGED <<ejs, waiting, total, parent, pjq, fresh, level, owner, fCompleted,
                   starts, loopVars, created, stage>>

(* One iteration of the loop of CJobQueue::NotifyCompleted: take the head off
   the list; if that was its last reference, CompleteQueued and Release it. *)
NotifyOne ==
    /\ pc = "notify"
    /\ queued[pjq[cur]] # <<>>
    /\ LET q == pjq[cur]
           j == Head(queued[q])
       IN  /\ queued' = [queued EXCEPT ![q] = Tail(@)]
           /\ IF refs[j] = 1
              THEN /\ ResumeParent(j, [refs EXCEPT ![j] = 0])
                   /\ total' = total - 1
              ELSE /\ refs' = [refs EXCEPT ![j] = @ - 1]
                   /\ UNCHANGED <<waiting, ejs, total>>
    /\ UNCHANGED <<parent, pjq, fresh, level, owner, fCompleted, starts,
                   loopVars, created, stage>>

NotifyDone ==
    /\ pc = "notify"
    /\ queued[pjq[cur]] = <<>>
    /\ pc' = "post"
    /\ UNCHANGED <<jobVars, waiting, queueVars, cur, result, total, created, stage>>
-----------------------------------------------------------------------------
(* EjrPostExecute answers EjrCompleted: Complete, then Release. *)
PostCompleted ==
    /\ pc = "post"
    /\ result
    /\ ResumeParent(cur, [refs EXCEPT ![cur] = @ - 1])
    /\ total' = total - 1
    /\ cur' = None
    /\ pc' = "retrieve"
    /\ UNCHANGED <<parent, pjq, fresh, level, queueVars, result, created, stage>>

(* EjrRunnable: the job has no children left, it is rescheduled at once. *)
PostRunnable ==
    /\ pc = "post"
    /\ ~result
    /\ refs[cur] = 1
    /\ refs' = [refs EXCEPT ![cur] = @ - 1]
    /\ ejs' = [ejs EXCEPT ![cur] = "Waiting"]
    /\ waiting' = waiting \cup {cur}
    /\ cur' = None
    /\ pc' = "retrieve"
    /\ UNCHANGED <<parent, pjq, fresh, level, queueVars, result, total, created, stage>>

(* EjrSuspended: children or the main job of its queue will pick it up. *)
PostSuspended ==
    /\ pc = "post"
    /\ ~result
    /\ refs[cur] # 1
    /\ refs' = [refs EXCEPT ![cur] = @ - 1]
    /\ ejs' = [ejs EXCEPT ![cur] = "Suspended"]
    /\ cur' = None
    /\ pc' = "retrieve"
    /\ UNCHANGED <<parent, pjq, fresh, level, waiting, queueVars, result, total, created, stage>>
-----------------------------------------------------------------------------
Next ==
    \/ \E j \in Job, q \in Queue : ScheduleMainJob(j, q)
    \/ FinalizeSearchStage
    \/ \E j \in Job : Retrieve(j)
    \/ Return
    \/ ExecuteUnqueued \/ ExecuteMain \/ ExecuteQueued \/ ExecuteCompleted
    \/ \E j \in Job, q \in Queue \cup {None} : AddChild(j, q)
    \/ BodySuspends \/ BodyCompletes
    \/ NotifyOne \/ NotifyDone
    \/ PostCompleted \/ PostRunnable \/ PostSuspended

Spec == Init /\ [][Next]_vars

(* The loop of ExecuteJobs keeps running, and a state machine that is run again
   and again reaches its final state. *)
FairSpec ==
    Spec /\ WF_vars(Next /\ pc # "idle") /\ SF_vars(BodyCompletes)
-----------------------------------------------------------------------------
(* Position of the reference counter's three kinds of pins. *)
ExecPin(j) == IF j = cur THEN 1 ELSE 0
Parked(j) == pjq[j] # None /\ j \in Range(queued[pjq[j]]) /\ owner[pjq[j]] # j
MainPin(j) == /\ j = cur /\ pjq[j] # None
              /\ \/ pc = "body"
                 \/ pc = "notify" /\ j \in Range(queued[pjq[j]])
QueuePin(j) == IF Parked(j) \/ MainPin(j) THEN 1 ELSE 0

(* The reference counter of every live job is exactly its unfinished children
   plus the pin of the executing scheduler plus the pin of its job queue, at
   every step between PjRetrieve and EjrPostExecute (IncRefs / UlpDecrRefs in
   Add, PreExecute, FExecute, EjqrAdd, NotifyCompleted, EjrPostExecute and
   FResumeParent balance). *)
RefsExact ==
    \A j \in Live : refs[j] = Cardinality(Children(j)) + ExecPin(j) + QueuePin(j)

(* A job is on the waiting list exactly when it is runnable: it has no pending
   child and no pin, so the job PjRetrieve returns always satisfies the
   assertion "Runnable job cannot have pending children" of PreExecute; and the
   counter of unfinished jobs is exact. *)
WaitingIsRunnable ==
    /\ waiting = {j \in Job : ejs[j] = "Waiting"}
    /\ \A j \in waiting : Children(j) = {} /\ refs[j] = 0
    /\ total = Cardinality(Live)

(* No lost wake-up: whoever is suspended still has an unfinished child that
   will call FResumeParent, or is parked on the queue of a live main job that
   will call NotifyCompleted. *)
SuspendedIsAwaited ==
    \A j \in Live : ejs[j] = "Suspended" =>
        \/ Children(j) # {}
        \/ Parked(j) /\ owner[pjq[j]] \in Live \ {j}

(* A job returned to the factory's pool is referenced by nobody: it is neither
   the parent of a live job, nor executing, nor on a job queue. A job that is
   a parent is suspended, or executing its own body. *)
NoReleasedJobInUse ==
    /\ cur # None => ejs[cur] = "Running"
    /\ \A j \in Live : parent[j] # None =>
         \/ ejs[parent[j]] = "Suspended"
         \/ parent[j] = cur /\ pc \in {"body", "post"} /\ (pc = "post" => ~result)
    /\ \A q \in Queue : \A i \in DOMAIN queued[q] : queued[q][i] \in Live

(* "Forces unique execution of an operation assigned to many jobs": between
   two resets at most one job starts the operation of a queue, although job
   objects are recycled and their addresses come back. *)
UniqueExecution == \A q \in Queue : starts[q] <= 1

(* ExecuteJobs returns only when every job has completed: the scheduler's
   destructor asserts m_ulpTotal = 0. *)
DrainedOnReturn == pc = "idle" => total = 0 /\ Live = {}

(* A parked job is completed on behalf of the main job only once the main
   job's operation has completed, and a job that still has unfinished children
   or is waiting is never completed. *)
CompletesInOrder ==
    [][\A j \in Job : ejs[j] # "Free" /\ ejs'[j] = "Free" =>
          /\ Children(j) = {}
          /\ pjq[j] # None => fCompleted[pjq[j]]
          /\ ejs[j] \in {"Running", "Suspended"}]_vars

(* Every job that is scheduled eventually completes: once started, ExecuteJobs
   returns with no job left. *)
EveryJobCompletes == pc # "idle" ~> (pc = "idle" /\ Live = {})
-----------------------------------------------------------------------------
(* The inductive invariant behind the safety properties above. *)

Distinct(s) == \A i, k \in DOMAIN s : s[i] = s[k] => i = k

(* What a queue's list, owner and flag say about each other: the list holds
   live jobs of this queue, each once; it starts with the owner, except while
   NotifyCompleted empties it. *)
QueueInv ==
    \A q \in Queue :
        /\ Distinct(queued[q])
        /\ \A j \in Range(queued[q]) : j \in Live /\ pjq[j] = q
        /\ fCompleted[q] /\ queued[q] # <<>> => pc = "notify" /\ pjq[cur] = q
        /\ ~fCompleted[q] /\ queued[q] = <<>> => owner[q] = None /\ starts[q] = 0
        /\ ~fCompleted[q] /\ queued[q] # <<>> =>
              owner[q] = Head(queued[q]) /\ ~fresh[owner[q]]
        /\ starts[q] <= 1

(* Where the executing job j stands with its children and its queue. *)
CurInv ==
    /\ cur = None <=> pc \in {"idle", "retrieve"}
    /\ \A j \in Job : ejs[j] = "Running" <=> j = cur
    /\ \A j \in Job : j = cur =>
          /\ pc \in {"execute", "notify"} \/ (pc = "post" /\ result) => Children(j) = {}
          /\ pc = "execute" => ~Parked(j)
          /\ pc = "body" /\ pjq[j] # None =>
                /\ ~fCompleted[pjq[j]]
                /\ owner[pjq[j]] = j /\ j \in Range(queued[pjq[j]])
          /\ pc = "notify" =>
                /\ pjq[j] # None /\ fCompleted[pjq[j]] /\ owner[pjq[j]] = j /\ result
                /\ j \in Range(queued[pjq[j]]) => j = Head(queued[pjq[j]])
          /\ pc = "post" /\ result /\ pjq[j] # None =>
                fCompleted[pjq[j]] /\ queued[pjq[j]] = <<>>

(* What the state of a live job says about its children, queue and parent. *)
LiveInv ==
    \A j \in Live :
        /\ ejs[j] = "Waiting" => Children(j) = {} /\ ~Parked(j)
        /\ ejs[j] = "Suspended" => Children(j) # {} \/ Parked(j)
        /\ Parked(j) =>
              /\ Children(j) = {}
              /\ ejs[j] = "Suspended" \/ (j = cur /\ pc = "post" /\ ~result)
        /\ parent[j] # None =>
              \/ ejs[parent[j]] = "Suspended"
              \/ parent[j] = cur /\ (pc = "body" \/ (pc = "post" /\ ~result))

ListInv ==
    /\ waiting = {j \in Job : ejs[j] = "Waiting"}
    /\ total = Cardinality(Live)

IInv == TypeOK /\ QueueInv /\ CurInv /\ LiveInv /\ ListInv /\ RefsExact
=============================================================================
