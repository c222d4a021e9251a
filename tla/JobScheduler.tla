---------------------------- MODULE JobScheduler ----------------------------
(***************************************************************************)
(* CScheduler with the order of the code: m_listjlWaiting is a CSyncList,  *)
(* Schedule pushes a job at its head and PjRetrieve pops the head.  Every  *)
(* step is a step of JobProtocol that in addition keeps the list.          *)
(***************************************************************************)
EXTENDS JobProtocol

VARIABLE listjlWaiting      \* CScheduler::m_listjlWaiting, head first

lifoVars == <<vars, listjlWaiting>>

LifoInit == Init /\ listjlWaiting = <<>>

(* Mutant: Schedule appends at the tail. *)
Mut_Push ==
    listjlWaiting' = IF waiting' \subseteq waiting
                     THEN listjlWaiting
                     ELSE listjlWaiting \o <<CHOOSE j \in waiting' : j \notin waiting>>

(* CScheduler::Schedule pushes the job it makes runnable; a step of the loop
   schedules at most one. *)
Push ==
    listjlWaiting' = IF waiting' \subseteq waiting
                     THEN listjlWaiting
                     ELSE <<CHOOSE j \in waiting' : j \notin waiting>> \o listjlWaiting

(* Mutant: PjRetrieve takes the oldest job. *)
Mut_PopLast ==
    /\ listjlWaiting # <<>>
    /\ Retrieve(listjlWaiting[Len(listjlWaiting)])
    /\ listjlWaiting' = SubSeq(listjlWaiting, 1, Len(listjlWaiting) - 1)

(* PjRetrieve pops the head of the list. *)
Pop ==
    /\ listjlWaiting # <<>>
    /\ Retrieve(Head(listjlWaiting))
    /\ listjlWaiting' = Tail(listjlWaiting)

(* A step of the loop of ExecuteJobs outside of a job's own FExecute. *)
LoopStep ==
    \/ Pop
    \/ /\ \/ Return
          \/ ExecuteUnqueued \/ ExecuteMain \/ ExecuteQueued \/ ExecuteCompleted
          \/ NotifyOne \/ NotifyDone
          \/ PostCompleted \/ PostRunnable \/ PostSuspended
       /\ Push

LifoNext ==
    \/ LoopStep
    \/ /\ \/ \E j \in Job, q \in Queue : ScheduleMainJob(j, q)
          \/ FinalizeSearchStage
          \/ \E j \in Job, q \in Queue \cup {None} : AddChild(j, q)
          \/ BodySuspends \/ BodyCompletes
       /\ Push

LifoSpec == LifoInit /\ [][LifoNext]_lifoVars
LifoFairSpec == LifoSpec /\ WF_lifoVars(LifoNext /\ pc # "idle")
                         /\ SF_lifoVars(BodyCompletes /\ Push)
-----------------------------------------------------------------------------
(* Types; the list holds each waiting job once. *)
LifoTypeOK ==
    /\ TypeOK
    /\ listjlWaiting \in Seq(Job)
    /\ Range(listjlWaiting) = waiting
    /\ \A i, k \in DOMAIN listjlWaiting :
          listjlWaiting[i] = listjlWaiting[k] => i = k

(* the smallest set with the parent of j that has the parent of each of its jobs *)
Ancestors(j) ==
    {a \in Job : \A S \in SUBSET Job :
        (\A c \in S \cup {j} : parent[c] # None => parent[c] \in S) => a \in S}

(* Whatever the shape of the memo, jobs get parked only when some job runs into
   a queue owned by its own ancestor: it waits for a job that waits for it. *)
ParkedMeansCycle ==
    (\E j \in Live : Parked(j)) =>
        \E j \in Live : Parked(j) /\ owner[pjq[j]] \in Ancestors(j)

(* The search is depth first.  While no job is parked, the suspended jobs are
   exactly the ancestors of the executing job: a subtree is finished before
   its sibling is touched. *)
DepthFirst ==
    (cur # None /\ \A j \in Live : ~Parked(j)) =>
        {j \in Live : ejs[j] = "Suspended"} = Ancestors(cur)

(* The list is the waiting set in an order, and that order is depth first. *)
LifoInv == LifoTypeOK /\ DepthFirst
============================================================================
