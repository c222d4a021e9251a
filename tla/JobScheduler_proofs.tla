------------------------- MODULE JobScheduler_proofs -------------------------
(***************************************************************************)
(* Proofs about the scheduler, for any number of jobs and queues and any   *)
(* shape of the memo.  The job protocol keeps its reference counters       *)
(* exact, never loses a wake-up and never touches a recycled job.          *)
(* CScheduler with its last-in-first-out list implements the protocol; the *)
(* list holds the waiting jobs, each once; the search is depth first; and  *)
(* jobs are parked on a job queue only when a job runs into a queue of its *)
(* own ancestor.                                                           *)
(***************************************************************************)
EXTENDS JobScheduler, FiniteSetTheorems, TLAPS, WellFoundedInduction

-----------------------------------------------------------------------------
(* Facts about the lists of the job queues. *)

(* CList::Append adds one element to the elements of a list. *)
LEMMA RangeAppend ==
    ASSUME NEW S, NEW s \in Seq(S), NEW x \in S
    PROVE  /\ Append(s, x) \in Seq(S) /\ Append(s, x) # <<>>
           /\ Range(Append(s, x)) = Range(s) \cup {x}
           /\ Distinct(s) /\ x \notin Range(s) => Distinct(Append(s, x))
           /\ s # <<>> => Head(Append(s, x)) = Head(s)
           /\ s = <<>> => Head(Append(s, x)) = x
<1>1. /\ Append(s, x) \in Seq(S) /\ Len(Append(s, x)) = Len(s) + 1
      /\ DOMAIN Append(s, x) = 1..(Len(s) + 1) /\ DOMAIN s = 1..Len(s) /\ Len(s) \in Nat
      /\ \A i \in 1..Len(s) : Append(s, x)[i] = s[i]
      /\ Append(s, x)[Len(s) + 1] = x
  OBVIOUS
<1>2. Range(Append(s, x)) = Range(s) \cup {x}
  BY <1>1 DEF Range
<1>3. Distinct(s) /\ x \notin Range(s) => Distinct(Append(s, x))
  BY <1>1 DEF Range, Distinct
<1>4. QED
  BY <1>1, <1>2, <1>3

(* The same for lists of jobs. *)
LEMMA JobListAppend ==
    \A s \in Seq(Job), x \in Job :
       /\ Append(s, x) \in Seq(Job) /\ Append(s, x) # <<>>
       /\ Range(Append(s, x)) = Range(s) \cup {x}
       /\ Distinct(s) /\ x \notin Range(s) => Distinct(Append(s, x))
       /\ s # <<>> => Head(Append(s, x)) = Head(s)
       /\ s = <<>> => Head(Append(s, x)) = x
  BY RangeAppend

(* CList::RemoveHead takes exactly the head away when no element repeats. *)
LEMMA RangeTail ==
    ASSUME NEW S, NEW s \in Seq(S), s # <<>>, Distinct(s)
    PROVE  /\ Tail(s) \in Seq(S)
           /\ Head(s) \in Range(s) /\ Head(s) \in S
           /\ Range(Tail(s)) = Range(s) \ {Head(s)}
           /\ Distinct(Tail(s))
<1>1. /\ Tail(s) \in Seq(S) /\ Len(s) \in Nat \ {0}
      /\ DOMAIN Tail(s) = 1..(Len(s) - 1) /\ DOMAIN s = 1..Len(s)
      /\ \A i \in 1..(Len(s) - 1) : Tail(s)[i] = s[i + 1]
      /\ Head(s) = s[1] /\ s[1] \in S
  OBVIOUS
<1>2. Range(Tail(s)) = Range(s) \ {Head(s)}
  <2>1. ASSUME NEW x \in Range(Tail(s))  PROVE x \in Range(s) \ {Head(s)}
    BY <1>1 DEF Range, Distinct
  <2>2. ASSUME NEW x \in Range(s) \ {Head(s)}  PROVE x \in Range(Tail(s))
    <3>1. PICK i \in 1..Len(s) : s[i] = x
      BY <1>1 DEF Range
    <3>2. i - 1 \in 1..(Len(s) - 1) /\ Tail(s)[i - 1] = x
      BY <1>1, <3>1
    <3>3. QED
      BY <1>1, <3>2 DEF Range
  <2>3. QED
    BY <2>1, <2>2
<1>3. Distinct(Tail(s))
  BY <1>1 DEF Distinct
<1>4. QED
  BY <1>1, <1>2, <1>3 DEF Range

(* An empty list has no elements, a non-empty one has its head. *)
LEMMA RangeEmpty ==
    ASSUME NEW S, NEW s \in Seq(S)
    PROVE  /\ s = <<>> <=> Range(s) = {}
           /\ s # <<>> => Head(s) \in Range(s)
  BY DEF Range

(* The empty list. *)
LEMMA EmptyList == Distinct(<<>>) /\ Range(<<>>) = {} /\ \A S : <<>> \in Seq(S)
  BY DEF Distinct, Range
-----------------------------------------------------------------------------
(* Facts about the job tree and its cardinalities. *)

(* The sets of jobs whose sizes the counters hold are finite. *)
LEMMA FiniteTree ==
    /\ IsFiniteSet(Live) /\ Cardinality(Live) \in Nat
    /\ \A j : IsFiniteSet(Children(j)) /\ Cardinality(Children(j)) \in Nat
    /\ \A j : Cardinality(Children(j)) = 0 <=> Children(j) = {}
<1>1. Live \subseteq Job /\ \A j : Children(j) \subseteq Job
  BY DEF Live, Children
<1>2. IsFiniteSet(Live) /\ \A j : IsFiniteSet(Children(j))
  BY <1>1, JobAssumption, FS_Subset
<1>3. QED
  BY <1>2, FS_CardinalityType, FS_EmptySet

(* A step that leaves the jobs handed out and their parents alone leaves the
   job tree alone. *)
LEMMA SameTree ==
    ASSUME parent' = parent, Live' = Live
    PROVE  \A j : Children(j)' = Children(j)
  BY DEF Children

(* A job's pins are counted in its reference counter. *)
LEMMA PinTypes ==
    \A j : ExecPin(j) \in {0, 1} /\ QueuePin(j) \in {0, 1}
  BY DEF ExecPin, QueuePin

(* The initial state, in which no job is handed out. *)
LEMMA InitIInv == Init => IInv
<1> SUFFICES ASSUME Init PROVE IInv
  OBVIOUS
<1> USE DEF Init
<1>1. TypeOK
  BY JobAssumption, EmptyList DEF TypeOK, EJobState, Pc
<1>2. Live = {} /\ Cardinality(Live) = 0
  BY FS_EmptySet DEF Live
<1>3. QueueInv
  BY EmptyList DEF QueueInv
<1>4. CurInv
  BY JobAssumption DEF CurInv
<1>5. LiveInv /\ RefsExact
  BY <1>2 DEF LiveInv, RefsExact
<1>6. ListInv
  BY <1>2 DEF ListInv
<1>7. QED
  BY <1>1, <1>3, <1>4, <1>5, <1>6 DEF IInv
-----------------------------------------------------------------------------
(* One lemma per action: it keeps the inductive invariant. *)

(* PjRetrieve and PreExecute keep the invariant. *)
LEMMA RetrieveStep ==
    ASSUME IInv, NEW j \in Job, Retrieve(j)
    PROVE  IInv'
<1> USE DEF IInv
<1>0. ejs[j] = "Waiting" /\ j \in Live /\ cur = None /\ j # None
  BY JobAssumption DEF Retrieve, ListInv, Live, CurInv
<1>1. Live' = Live /\ \A k : Children(k)' = Children(k)
  <2>1. Live' = Live
    BY <1>0 DEF Retrieve, Live, TypeOK
  <2>2. QED
    BY <2>1, SameTree DEF Retrieve
<1>2. \A k \in Job : Parked(k)' = Parked(k)
  BY DEF Retrieve, Parked, queueVars
<1>3. TypeOK'
  BY DEF TypeOK, Retrieve, queueVars, EJobState, Pc
<1>4. QueueInv'
  BY <1>0, <1>1 DEF QueueInv, Retrieve, queueVars
<1>5. CurInv'
  <2>1. cur' = j /\ pc' = "execute" /\ cur' # None
    BY <1>0 DEF Retrieve
  <2>2. \A k \in Job : ejs'[k] = "Running" <=> k = cur'
    BY <1>0, JobAssumption DEF CurInv, Retrieve, TypeOK
  <2>3. Children(j)' = {} /\ ~Parked(j)'
    BY <1>0, <1>1, <1>2 DEF LiveInv
  <2>4. QED
    BY <2>1, <2>2, <2>3 DEF CurInv
<1>6. LiveInv'
  <2> SUFFICES ASSUME NEW k \in Live
               PROVE  LiveInv!(k)'
    BY <1>1 DEF LiveInv
  <2>1. k \in Job /\ k # cur
    BY <1>0, JobAssumption DEF Live
  <2>2. LiveInv!(k)
    BY DEF LiveInv
  <2>3. parent[k] # None => parent[k] \in Job /\ ejs[parent[k]] = "Suspended"
    BY <1>0, <2>1, <2>2 DEF TypeOK
  <2>4. ejs'[k] = IF k = j THEN "Running" ELSE ejs[k]
    BY <2>1 DEF Retrieve, TypeOK
  <2>5. parent[k] # None => parent'[k] = parent[k] /\ ejs'[parent[k]] = "Suspended"
    BY <1>0, <2>3 DEF Retrieve, TypeOK
  <2>6. parent'[k] = parent[k]
    BY DEF Retrieve
  <2>7. QED
    BY <1>0, <1>1, <1>2, <2>1, <2>2, <2>4, <2>5, <2>6
<1>7. ListInv'
  BY <1>0, <1>1 DEF ListInv, Retrieve, TypeOK
<1>8. RefsExact'
  <2> SUFFICES ASSUME NEW k \in Live
               PROVE  refs'[k] = Cardinality(Children(k)) + ExecPin(k)' + QueuePin(k)'
    BY <1>1 DEF RefsExact
  <2>1. refs[k] = Cardinality(Children(k)) + ExecPin(k) + QueuePin(k) /\ k \in Job
    BY DEF RefsExact, Live
  <2>2. QueuePin(k)' = QueuePin(k)
    BY <1>0, <1>2, <2>1 DEF QueuePin, MainPin, Retrieve
  <2>3. ExecPin(k) = 0 /\ ExecPin(k)' = IF k = j THEN 1 ELSE 0
    BY <1>0, <2>1, JobAssumption DEF ExecPin, Retrieve
  <2>4. QED
    <3>1. Cardinality(Children(k)) \in Nat /\ QueuePin(k) \in {0, 1}
      BY FiniteTree, PinTypes
    <3>2. refs'[k] = refs[k] + (IF k = j THEN 1 ELSE 0)
      BY <2>1 DEF Retrieve, TypeOK
    <3>3. QED
      BY <2>1, <2>2, <2>3, <3>1, <3>2
<1>9. QED
  BY <1>3, <1>4, <1>5, <1>6, <1>7, <1>8

(* The end of ExecuteJobs keeps the invariant. *)
LEMMA ReturnStep ==
    ASSUME IInv, Return
    PROVE  IInv'
<1> USE DEF IInv
<1>0. cur = None /\ cur' = None /\ pc' = "idle" /\ \A k \in Job : k # cur
  BY JobAssumption DEF Return, CurInv
<1>1. Live' = Live /\ \A k : Children(k)' = Children(k)
  <2>1. Live' = Live
    BY DEF Return, Live, jobVars
  <2>2. QED
    BY <2>1, SameTree DEF Return, jobVars
<1>2. \A k \in Job : Parked(k)' = Parked(k)
  BY DEF Return, Parked, queueVars, jobVars
<1>3. TypeOK'
  BY DEF TypeOK, Return, queueVars, jobVars, Pc
<1>4. QueueInv'
  BY <1>1 DEF QueueInv, Return, queueVars, jobVars
<1>5. CurInv'
  BY <1>0 DEF CurInv, Return, jobVars
<1>6. LiveInv'
  <2> SUFFICES ASSUME NEW k \in Live
               PROVE  LiveInv!(k)'
    BY <1>1 DEF LiveInv
  <2>1. k \in Job /\ parent[k] \in Job \cup {None}
    BY DEF Live, TypeOK
  <2>2. QED
    BY <1>0, <1>1, <1>2, <2>1 DEF LiveInv, Return, jobVars
<1>7. ListInv'
  BY <1>1 DEF ListInv, Return, jobVars
<1>8. RefsExact'
  <2> SUFFICES ASSUME NEW k \in Live
               PROVE  refs'[k] = Cardinality(Children(k)) + ExecPin(k)' + QueuePin(k)'
    BY <1>1 DEF RefsExact
  <2>1. k \in Job
    BY DEF Live
  <2>2. ExecPin(k)' = ExecPin(k) /\ QueuePin(k)' = QueuePin(k)
    BY <1>0, <1>2, <2>1 DEF ExecPin, QueuePin, MainPin
  <2>3. QED
    BY <2>2 DEF RefsExact, Return, jobVars
<1>9. QED
  BY <1>3, <1>4, <1>5, <1>6, <1>7, <1>8

(* Resetting the queues between two search stages keeps the invariant: no job
   is left on them. *)
LEMMA FinalizeStep ==
    ASSUME IInv, FinalizeSearchStage
    PROVE  IInv'
<1> USE DEF IInv
<1>0. cur = None /\ cur' = None /\ pc' = "idle" /\ pc = "idle" /\ \A k \in Job : k # cur
  BY JobAssumption DEF FinalizeSearchStage, CurInv, loopVars
<1>1. Live' = Live /\ \A k : Children(k)' = Children(k)
  <2>1. Live' = Live
    BY DEF FinalizeSearchStage, Live, jobVars
  <2>2. QED
    BY <2>1, SameTree DEF FinalizeSearchStage, jobVars
<1>2. \A k \in Job : ~Parked(k) /\ ~Parked(k)'
  <2> SUFFICES ASSUME NEW k \in Job  PROVE ~Parked(k) /\ ~Parked(k)'
    OBVIOUS
  <2>1. pjq[k] # None => queued[pjq[k]] = <<>>
    BY DEF FinalizeSearchStage, TypeOK
  <2>2. pjq[k] # None => k \notin Range(queued[pjq[k]])
    BY <2>1, EmptyList
  <2>3. QED
    BY <2>2 DEF FinalizeSearchStage, Parked, jobVars
<1>3. TypeOK'
  BY DEF TypeOK, FinalizeSearchStage, loopVars, jobVars, Pc
<1>4. QueueInv'
  BY EmptyList DEF QueueInv, FinalizeSearchStage, loopVars, jobVars
<1>5. CurInv'
  BY <1>0 DEF CurInv, FinalizeSearchStage, jobVars
<1>6. LiveInv'
  <2> SUFFICES ASSUME NEW k \in Live
               PROVE  LiveInv!(k)'
    BY <1>1 DEF LiveInv
  <2>1. k \in Job /\ parent[k] \in Job \cup {None}
    BY DEF Live, TypeOK
  <2>2. QED
    BY <1>0, <1>1, <1>2, <2>1 DEF LiveInv, FinalizeSearchStage, jobVars
<1>7. ListInv'
  BY <1>1 DEF ListInv, FinalizeSearchStage, jobVars
<1>8. RefsExact'
  <2> SUFFICES ASSUME NEW k \in Live
               PROVE  refs'[k] = Cardinality(Children(k)) + ExecPin(k)' + QueuePin(k)'
    BY <1>1 DEF RefsExact
  <2>1. k \in Job
    BY DEF Live
  <2>2. ExecPin(k)' = ExecPin(k) /\ QueuePin(k)' = QueuePin(k)
    BY <1>0, <1>2, <2>1 DEF ExecPin, QueuePin, MainPin
  <2>3. QED
    BY <2>2 DEF RefsExact, FinalizeSearchStage, jobVars
<1>9. QED
  BY <1>3, <1>4, <1>5, <1>6, <1>7, <1>8

(* What the loop knows about the job it executes. *)
LEMMA CurIsRunning ==
    ASSUME IInv, pc \notin {"idle", "retrieve"}
    PROVE  /\ cur \in Job /\ cur # None /\ cur \in Live /\ ejs[cur] = "Running"
           /\ pjq[cur] \in Queue \cup {None}
           /\ refs[cur] = Cardinality(Children(cur)) + 1 + QueuePin(cur)
<1> USE DEF IInv
<1>1. cur \in Job /\ cur # None /\ ejs[cur] = "Running"
  BY DEF CurInv, TypeOK
<1>2. cur \in Live /\ pjq[cur] \in Queue \cup {None}
  BY <1>1 DEF Live, TypeOK
<1>3. QED
  BY <1>1, <1>2 DEF RefsExact, ExecPin

(* Running a job without a queue keeps the invariant. *)
LEMMA ExecuteUnqueuedStep ==
    ASSUME IInv, ExecuteUnqueued
    PROVE  IInv'
<1> USE DEF IInv
<1>0. /\ cur \in Job /\ cur' = cur /\ pc' = "body" /\ pjq' = pjq /\ pjq[cur] = None
      /\ cur # None
  BY CurIsRunning DEF ExecuteUnqueued, BeginBody
<1>1. Live' = Live /\ \A k : Children(k)' = Children(k)
  <2>1. Live' = Live
    BY DEF ExecuteUnqueued, Live
  <2>2. QED
    BY <2>1, SameTree DEF ExecuteUnqueued
<1>2. \A k \in Job : Parked(k)' = Parked(k)
  BY DEF ExecuteUnqueued, Parked
<1>3. TypeOK'
  BY <1>0 DEF TypeOK, ExecuteUnqueued, BeginBody, Pc
<1>4. QueueInv'
  <2> SUFFICES ASSUME NEW q \in Queue  PROVE QueueInv!(q)'
    BY DEF QueueInv
  <2>1. QueueInv!(q) /\ owner[q] \in Job \cup {None}
    BY DEF QueueInv, TypeOK
  <2>2. starts' = starts
    BY DEF ExecuteUnqueued, BeginBody
  <2>3. \A k \in Job : ~fresh[k] => ~fresh'[k]
    BY <1>0 DEF ExecuteUnqueued, BeginBody, TypeOK
  <2>4. queued[q] # <<>> => Head(queued[q]) \in Job
    BY DEF TypeOK
  <2>5. QED
    BY <1>0, <1>1, <2>1, <2>2, <2>3, <2>4 DEF ExecuteUnqueued
<1>5. CurInv'
  BY <1>0 DEF CurInv, ExecuteUnqueued
<1>6. LiveInv'
  <2> SUFFICES ASSUME NEW k \in Live
               PROVE  LiveInv!(k)'
    BY <1>1 DEF LiveInv
  <2>1. k \in Job /\ parent[k] \in Job \cup {None} /\ LiveInv!(k)
    BY DEF Live, TypeOK, LiveInv
  <2>2. QED
    BY <1>0, <1>1, <1>2, <2>1 DEF ExecuteUnqueued
<1>7. ListInv'
  BY <1>1 DEF ListInv, ExecuteUnqueued
<1>8. RefsExact'
  <2> SUFFICES ASSUME NEW k \in Live
               PROVE  refs'[k] = Cardinality(Children(k)) + ExecPin(k)' + QueuePin(k)'
    BY <1>1 DEF RefsExact
  <2>1. k \in Job
    BY DEF Live
  <2>2. ExecPin(k)' = ExecPin(k) /\ QueuePin(k)' = QueuePin(k)
    BY <1>0, <1>2, <2>1 DEF ExecPin, QueuePin, MainPin
  <2>3. QED
    BY <2>2 DEF RefsExact, ExecuteUnqueued
<1>9. QED
  BY <1>3, <1>4, <1>5, <1>6, <1>7, <1>8

(* Running the main job of a queue keeps the invariant: it becomes, or stays,
   the head of the list, and the operation is started once. *)
LEMMA ExecuteMainStep ==
    ASSUME IInv, ExecuteMain
    PROVE  IInv'
<1> USE DEF IInv
<1> DEFINE q == pjq[cur]
<1>0. /\ cur \in Job /\ cur' = cur /\ pc' = "body" /\ pc = "execute" /\ pjq' = pjq
      /\ q \in Queue /\ cur # None /\ cur \in Live /\ ejs[cur] = "Running"
      /\ ~fCompleted[q] /\ Children(cur) = {} /\ q # None
  BY CurIsRunning DEF ExecuteMain, BeginBody, CurInv
<1>1. Live' = Live /\ \A k : Children(k)' = Children(k)
  <2>1. Live' = Live
    BY DEF ExecuteMain, Live
  <2>2. QED
    BY <2>1, SameTree DEF ExecuteMain
<1>a. /\ queued'[q] \in Seq(Job) /\ queued'[q] # <<>> /\ owner'[q] = cur
      /\ Head(queued'[q]) = cur /\ Distinct(queued'[q])
      /\ Range(queued'[q]) = Range(queued[q]) \cup {cur}
      /\ starts'[q] <= 1 /\ starts'[q] \in Nat
      /\ \A r \in Queue \ {q} : /\ queued'[r] = queued[r] /\ owner'[r] = owner[r]
                                /\ starts'[r] = starts[r]
      /\ owner' \in [Queue -> Job \cup {None}] /\ queued' \in [Queue -> Seq(Job)]
      /\ starts' \in [Queue -> Nat]
  <2>1. CASE owner[q] = cur
    <3>1. queued[q] # <<>> /\ Head(queued[q]) = cur /\ ~fresh[cur] /\ Distinct(queued[q])
      BY <1>0, <2>1 DEF QueueInv
    <3>2. owner' = owner /\ queued' = queued /\ starts' = starts
      BY <1>0, <2>1, <3>1 DEF ExecuteMain, BeginBody
    <3>3. starts[q] <= 1
      BY <1>0 DEF QueueInv
    <3>4. queued[q] \in Seq(Job)
      BY <1>0 DEF TypeOK
    <3>5. cur \in Range(queued[q])
      BY <3>1, <3>4, RangeEmpty
    <3>6. QED
      BY <1>0, <2>1, <3>1, <3>2, <3>3, <3>5 DEF TypeOK
  <2>2. CASE owner[q] # cur
    <3>1. /\ queued[q] = <<>> /\ owner' = [owner EXCEPT ![q] = cur]
          /\ queued' = [queued EXCEPT ![q] = Append(@, cur)]
      BY <2>2 DEF ExecuteMain
    <3>2. starts[q] = 0
      BY <1>0, <3>1 DEF QueueInv
    <3>3. starts' = starts \/ starts' = [starts EXCEPT ![q] = @ + 1]
      BY DEF ExecuteMain, BeginBody
    <3>4. queued'[q] = Append(queued[q], cur) /\ queued[q] \in Seq(Job)
      BY <1>0, <3>1 DEF TypeOK
    <3>5. cur \notin Range(queued[q]) /\ Distinct(queued[q])
      BY <3>1, EmptyList
    <3>6. /\ queued'[q] \in Seq(Job) /\ queued'[q] # <<>>
          /\ Head(queued'[q]) = cur /\ Distinct(queued'[q])
          /\ Range(queued'[q]) = Range(queued[q]) \cup {cur}
      <4>1. queued[q] \in Seq(Job) /\ cur \in Job
        BY <1>0, <3>4
      <4>2. /\ Append(queued[q], cur) \in Seq(Job) /\ Append(queued[q], cur) # <<>>
            /\ Head(Append(queued[q], cur)) = cur /\ Distinct(Append(queued[q], cur))
            /\ Range(Append(queued[q], cur)) = Range(queued[q]) \cup {cur}
        BY <3>1, <3>5, <4>1, JobListAppend, Zenon
      <4>3. QED
        BY <3>4, <4>2
    <3>7. /\ starts'[q] <= 1 /\ starts'[q] \in Nat /\ starts' \in [Queue -> Nat]
          /\ \A r \in Queue \ {q} : starts'[r] = starts[r]
      <4>1. starts \in [Queue -> Nat]
        BY DEF TypeOK
      <4>2. CASE starts' = starts
        BY <1>0, <3>2, <4>1, <4>2
      <4>3. CASE starts' = [starts EXCEPT ![q] = @ + 1]
        BY <1>0, <3>2, <4>1, <4>3
      <4>4. QED
        BY <3>3, <4>2, <4>3
    <3>8. QED
      BY <1>0, <3>1, <3>6, <3>7 DEF TypeOK
  <2>3. QED
    BY <2>1, <2>2
<1>b. fresh' \in [Job -> BOOLEAN] /\ ~fresh'[cur] /\ \A k \in Job : ~fresh[k] => ~fresh'[k]
  BY <1>0 DEF ExecuteMain, BeginBody, TypeOK
<1>2. \A k \in Job : Parked(k)' = Parked(k)
  <2> SUFFICES ASSUME NEW k \in Job  PROVE Parked(k)' = Parked(k)
    OBVIOUS
  <2>1. CASE k = cur
    <3>1. ~Parked(k)
      BY <1>0, <2>1 DEF CurInv
    <3>2. ~Parked(k)'
      BY <1>0, <1>a, <2>1 DEF Parked
    <3>3. QED
      BY <3>1, <3>2 DEF Parked
  <2>2. CASE k # cur /\ pjq[k] = q
    <3>1. k \in Range(queued[q]) => owner[q] = cur
      <4>1. owner[q] # cur => queued[q] = <<>>
        BY DEF ExecuteMain
      <4>2. QED
        BY <4>1, EmptyList
    <3>2. pjq'[k] = pjq[k] /\ owner'[pjq'[k]] = cur
      BY <1>0, <1>a, <2>2
    <3>3. k \in Range(queued'[pjq'[k]]) <=> k \in Range(queued[pjq[k]])
      <4>1. Range(queued'[q]) = Range(queued[q]) \cup {cur}
        BY <1>a
      <4>2. pjq'[k] = q /\ pjq[k] = q /\ k # cur
        BY <2>2, <3>2
      <4> HIDE DEF q
      <4>3. QED
        BY <4>1, <4>2
    <3>4. CASE k \in Range(queued[pjq[k]])
      BY <1>0, <2>2, <3>1, <3>2, <3>3, <3>4 DEF Parked
    <3>5. CASE k \notin Range(queued[pjq[k]])
      BY <3>3, <3>5 DEF Parked
    <3>6. QED
      BY <3>4, <3>5
  <2>3. CASE k # cur /\ pjq[k] # q
    BY <1>0, <1>a, <2>3 DEF Parked, TypeOK
  <2>4. QED
    BY <2>1, <2>2, <2>3
<1>3. TypeOK'
  <2>1. refs' \in [Job -> Nat]
    BY <1>0 DEF TypeOK, ExecuteMain
  <2>2. QED
    BY <1>0, <1>a, <1>b, <2>1 DEF TypeOK, ExecuteMain, Pc
<1>4. QueueInv'
  <2> SUFFICES ASSUME NEW r \in Queue  PROVE QueueInv!(r)'
    BY DEF QueueInv
  <2>1. QueueInv!(r) /\ owner[r] \in Job \cup {None} /\ queued[r] \in Seq(Job)
    BY DEF QueueInv, TypeOK
  <2>2. fCompleted' = fCompleted
    BY DEF ExecuteMain
  <2>3. CASE r = q
    BY <1>0, <1>1, <1>a, <1>b, <2>1, <2>2, <2>3
  <2>4. CASE r # q
    <3>1. queued[r] # <<>> => Head(queued[r]) \in Job
      BY <2>1
    <3>2. QED
      BY <1>0, <1>1, <1>a, <1>b, <2>1, <2>2, <2>4, <3>1
  <2>5. QED
    BY <2>3, <2>4
<1>5. CurInv'
  <2>1. ejs' = ejs /\ fCompleted' = fCompleted
    BY DEF ExecuteMain
  <2>2. QED
    BY <1>0, <1>a, <2>1 DEF CurInv
<1>6. LiveInv'
  <2> SUFFICES ASSUME NEW k \in Live
               PROVE  LiveInv!(k)'
    BY <1>1 DEF LiveInv
  <2>1. k \in Job /\ parent[k] \in Job \cup {None} /\ LiveInv!(k)
    BY DEF Live, TypeOK, LiveInv
  <2>2. ejs' = ejs /\ parent' = parent
    BY DEF ExecuteMain
  <2>3. QED
    BY <1>0, <1>1, <1>2, <2>1, <2>2
<1>7. ListInv'
  BY <1>1 DEF ListInv, ExecuteMain
<1>8. RefsExact'
  <2> SUFFICES ASSUME NEW k \in Live
               PROVE  refs'[k] = Cardinality(Children(k)) + ExecPin(k)' + QueuePin(k)'
    BY <1>1 DEF RefsExact
  <2>1. k \in Job /\ refs[k] = Cardinality(Children(k)) + ExecPin(k) + QueuePin(k)
    BY DEF Live, RefsExact
  <2>2. ExecPin(k)' = ExecPin(k) /\ (k # cur => QueuePin(k)' = QueuePin(k))
    BY <1>0, <1>2, <2>1 DEF ExecPin, QueuePin, MainPin
  <2>3. k = cur => QueuePin(k) = 0 /\ QueuePin(k)' = 1
    BY <1>0, <2>1 DEF QueuePin, MainPin, CurInv
  <2>4. refs'[k] = IF k = cur THEN refs[k] + 1 ELSE refs[k]
    BY <2>1 DEF ExecuteMain, TypeOK
  <2>5. Cardinality(Children(k)) \in Nat /\ QueuePin(k) \in {0, 1} /\ ExecPin(k) \in {0, 1}
    BY FiniteTree, PinTypes
  <2>6. QED
    BY <2>1, <2>2, <2>3, <2>4, <2>5
<1>9. QED
  BY <1>3, <1>4, <1>5, <1>6, <1>7, <1>8

(* Parking a job behind the main job of its queue keeps the invariant. *)
LEMMA ExecuteQueuedStep ==
    ASSUME IInv, ExecuteQueued
    PROVE  IInv'
<1> USE DEF IInv
<1> DEFINE q == pjq[cur]
<1>0. /\ cur \in Job /\ cur' = cur /\ pc' = "post" /\ pc = "execute" /\ pjq' = pjq
      /\ q \in Queue /\ cur # None /\ cur \in Live /\ ejs[cur] = "Running" /\ ~result'
      /\ ~fCompleted[q] /\ Children(cur) = {} /\ q # None /\ owner[q] # cur /\ queued[q] # <<>>
  BY CurIsRunning DEF ExecuteQueued, CurInv
<1>1. Live' = Live /\ \A k : Children(k)' = Children(k)
  <2>1. Live' = Live
    BY DEF ExecuteQueued, Live
  <2>2. QED
    BY <2>1, SameTree DEF ExecuteQueued
<1>a. /\ queued'[q] \in Seq(Job) /\ queued'[q] # <<>>
      /\ Head(queued'[q]) = Head(queued[q]) /\ Distinct(queued'[q])
      /\ Range(queued'[q]) = Range(queued[q]) \cup {cur}
      /\ \A r \in Queue \ {q} : queued'[r] = queued[r]
      /\ queued' \in [Queue -> Seq(Job)]
  <2>1. /\ queued[q] \in Seq(Job) /\ queued'[q] = Append(queued[q], cur)
        /\ \A r \in Queue \ {q} : queued'[r] = queued[r]
    BY <1>0 DEF ExecuteQueued, TypeOK
  <2>2. ~Parked(cur)
    BY <1>0 DEF CurInv
  <2>3. cur \notin Range(queued[q]) /\ Distinct(queued[q])
    BY <1>0, <2>2 DEF Parked, QueueInv
  <2>4. /\ queued'[q] \in Seq(Job) /\ queued'[q] # <<>>
        /\ Head(queued'[q]) = Head(queued[q]) /\ Distinct(queued'[q])
        /\ Range(queued'[q]) = Range(queued[q]) \cup {cur}
    BY <1>0, <2>1, <2>3, JobListAppend, Zenon
  <2>5. QED
    BY <1>0, <2>1, <2>4 DEF ExecuteQueued, TypeOK
<1>2. \A k \in Job : Parked(k)' = (Parked(k) \/ k = cur)
  <2> SUFFICES ASSUME NEW k \in Job  PROVE Parked(k)' = (Parked(k) \/ k = cur)
    OBVIOUS
  <2>1. owner' = owner
    BY DEF ExecuteQueued
  <2>2. CASE pjq[k] = q
    BY <1>0, <1>a, <2>1, <2>2 DEF Parked
  <2>3. CASE pjq[k] # q
    <3>1. pjq[k] \in Queue \cup {None} /\ k # cur
      BY <2>3 DEF TypeOK
    <3>2. QED
      BY <1>0, <1>a, <2>1, <2>3, <3>1 DEF Parked
  <2>4. QED
    BY <2>2, <2>3
<1>3. TypeOK'
  <2>1. refs' \in [Job -> Nat]
    BY <1>0 DEF TypeOK, ExecuteQueued
  <2>2. QED
    BY <1>0, <1>a, <2>1 DEF TypeOK, ExecuteQueued, Pc
<1>4. QueueInv'
  <2> SUFFICES ASSUME NEW r \in Queue  PROVE QueueInv!(r)'
    BY DEF QueueInv
  <2>1. QueueInv!(r) /\ queued[r] \in Seq(Job)
    BY DEF QueueInv, TypeOK
  <2>2. fCompleted' = fCompleted /\ owner' = owner /\ fresh' = fresh /\ starts' = starts
    BY DEF ExecuteQueued
  <2>3. CASE r = q
    BY <1>0, <1>1, <1>a, <2>1, <2>2, <2>3
  <2>4. CASE r # q
    BY <1>0, <1>1, <1>a, <2>1, <2>2, <2>4
  <2>5. QED
    BY <2>3, <2>4
<1>5. CurInv'
  <2>1. ejs' = ejs
    BY DEF ExecuteQueued
  <2>2. QED
    BY <1>0, <2>1 DEF CurInv
<1>6. LiveInv'
  <2> SUFFICES ASSUME NEW k \in Live
               PROVE  LiveInv!(k)'
    BY <1>1 DEF LiveInv
  <2>1. k \in Job /\ parent[k] \in Job \cup {None} /\ LiveInv!(k)
    BY DEF Live, TypeOK, LiveInv
  <2>2. ejs' = ejs /\ parent' = parent
    BY DEF ExecuteQueued
  <2>3. QED
    BY <1>0, <1>1, <1>2, <2>1, <2>2
<1>7. ListInv'
  BY <1>1 DEF ListInv, ExecuteQueued
<1>8. RefsExact'
  <2> SUFFICES ASSUME NEW k \in Live
               PROVE  refs'[k] = Cardinality(Children(k)) + ExecPin(k)' + QueuePin(k)'
    BY <1>1 DEF RefsExact
  <2>1. k \in Job /\ refs[k] = Cardinality(Children(k)) + ExecPin(k) + QueuePin(k)
    BY DEF Live, RefsExact
  <2>2. ExecPin(k)' = ExecPin(k) /\ (k # cur => QueuePin(k)' = QueuePin(k))
    BY <1>0, <1>2, <2>1 DEF ExecPin, QueuePin, MainPin
  <2>3. k = cur => QueuePin(k) = 0 /\ QueuePin(k)' = 1
    BY <1>0, <1>2, <2>1 DEF QueuePin, MainPin, CurInv
  <2>4. refs'[k] = IF k = cur THEN refs[k] + 1 ELSE refs[k]
    BY <2>1 DEF ExecuteQueued, TypeOK
  <2>5. Cardinality(Children(k)) \in Nat /\ QueuePin(k) \in {0, 1} /\ ExecPin(k) \in {0, 1}
    BY FiniteTree, PinTypes
  <2>6. QED
    BY <2>1, <2>2, <2>3, <2>4, <2>5
<1>9. QED
  BY <1>3, <1>4, <1>5, <1>6, <1>7, <1>8

(* Finding the operation of the queue done keeps the invariant. *)
LEMMA ExecuteCompletedStep ==
    ASSUME IInv, ExecuteCompleted
    PROVE  IInv'
<1> USE DEF IInv
<1>0. /\ cur \in Job /\ cur' = cur /\ pc' = "post" /\ pc = "execute" /\ result'
      /\ pjq[cur] \in Queue /\ cur # None /\ Children(cur) = {} /\ fCompleted[pjq[cur]]
      /\ jobVars' = jobVars /\ queueVars' = queueVars /\ waiting' = waiting
  BY CurIsRunning DEF ExecuteCompleted, CurInv
<1>1. Live' = Live /\ \A k : Children(k)' = Children(k)
  <2>1. Live' = Live
    BY <1>0 DEF Live, jobVars
  <2>2. QED
    BY <1>0, <2>1, SameTree DEF jobVars
<1>2. \A k \in Job : Parked(k)' = Parked(k)
  BY <1>0 DEF Parked, queueVars, jobVars
<1>3. TypeOK'
  BY <1>0 DEF TypeOK, ExecuteCompleted, queueVars, jobVars, Pc
<1>4. QueueInv'
  BY <1>0, <1>1 DEF QueueInv, queueVars, jobVars
<1>5. CurInv'
  <2>1. queued[pjq[cur]] = <<>>
    BY <1>0 DEF QueueInv
  <2>2. QED
    BY <1>0, <1>1, <2>1 DEF CurInv, queueVars, jobVars
<1>6. LiveInv'
  <2> SUFFICES ASSUME NEW k \in Live
               PROVE  LiveInv!(k)'
    BY <1>1 DEF LiveInv
  <2>1. k \in Job /\ parent[k] \in Job \cup {None} /\ LiveInv!(k)
    BY DEF Live, TypeOK, LiveInv
  <2>2. QED
    BY <1>0, <1>1, <1>2, <2>1 DEF jobVars
<1>7. ListInv'
  BY <1>0, <1>1 DEF ListInv, jobVars, ExecuteCompleted
<1>8. RefsExact'
  <2> SUFFICES ASSUME NEW k \in Live
               PROVE  refs'[k] = Cardinality(Children(k)) + ExecPin(k)' + QueuePin(k)'
    BY <1>1 DEF RefsExact
  <2>1. k \in Job
    BY DEF Live
  <2>2. ExecPin(k)' = ExecPin(k) /\ QueuePin(k)' = QueuePin(k)
    BY <1>0, <1>2, <2>1 DEF ExecPin, QueuePin, MainPin
  <2>3. QED
    BY <1>0, <2>2 DEF RefsExact, jobVars
<1>9. QED
  BY <1>3, <1>4, <1>5, <1>6, <1>7, <1>8

(* A body that suspends gives back the reference of the queue. *)
LEMMA BodySuspendsStep ==
    ASSUME IInv, BodySuspends
    PROVE  IInv'
<1> USE DEF IInv
<1>0. /\ cur \in Job /\ cur' = cur /\ pc' = "post" /\ pc = "body" /\ ~result'
      /\ pjq[cur] \in Queue \cup {None} /\ cur # None
      /\ ejs' = ejs /\ parent' = parent /\ pjq' = pjq /\ fresh' = fresh
      /\ queueVars' = queueVars /\ waiting' = waiting
      /\ refs[cur] = Cardinality(Children(cur)) + 1 + QueuePin(cur)
  BY CurIsRunning DEF BodySuspends
<1>1. Live' = Live /\ \A k : Children(k)' = Children(k)
  <2>1. Live' = Live
    BY <1>0 DEF Live
  <2>2. QED
    BY <1>0, <2>1, SameTree
<1>2. \A k \in Job : Parked(k)' = Parked(k)
  BY <1>0 DEF Parked, queueVars
<1>a. QueuePin(cur) = IF pjq[cur] = None THEN 0 ELSE 1
  BY <1>0 DEF QueuePin, Parked, MainPin
<1>3. TypeOK'
  <2>1. refs' \in [Job -> Nat]
    <3>1. refs \in [Job -> Nat] /\ refs[cur] - 1 \in Nat
      BY <1>0, <1>a, FiniteTree DEF TypeOK
    <3>2. QED
      BY <1>0, <3>1 DEF BodySuspends
  <2>2. QED
    BY <1>0, <2>1 DEF TypeOK, BodySuspends, queueVars, Pc
<1>4. QueueInv'
  BY <1>0, <1>1 DEF QueueInv, queueVars
<1>5. CurInv'
  BY <1>0, <1>1 DEF CurInv, queueVars
<1>6. LiveInv'
  <2> SUFFICES ASSUME NEW k \in Live
               PROVE  LiveInv!(k)'
    BY <1>1 DEF LiveInv
  <2>1. k \in Job /\ parent[k] \in Job \cup {None} /\ LiveInv!(k)
    BY DEF Live, TypeOK, LiveInv
  <2>2. QED
    BY <1>0, <1>1, <1>2, <2>1
<1>7. ListInv'
  BY <1>0, <1>1 DEF ListInv, BodySuspends
<1>8. RefsExact'
  <2> SUFFICES ASSUME NEW k \in Live
               PROVE  refs'[k] = Cardinality(Children(k)) + ExecPin(k)' + QueuePin(k)'
    BY <1>1 DEF RefsExact
  <2>1. k \in Job /\ refs[k] = Cardinality(Children(k)) + ExecPin(k) + QueuePin(k)
    BY DEF Live, RefsExact
  <2>2. ExecPin(k)' = ExecPin(k) /\ (k # cur => QueuePin(k)' = QueuePin(k))
    BY <1>0, <1>2, <2>1 DEF ExecPin, QueuePin, MainPin
  <2>3. k = cur => QueuePin(k)' = 0
    <3>1. k = cur => ~Parked(k)
      BY <1>0, <2>1 DEF Parked, CurInv
    <3>2. QED
      BY <1>0, <1>2, <2>1, <3>1 DEF QueuePin, MainPin
  <2>4. refs'[k] = IF k = cur /\ pjq[cur] # None THEN refs[k] - 1 ELSE refs[k]
    BY <2>1 DEF BodySuspends, TypeOK
  <2>5. Cardinality(Children(k)) \in Nat /\ QueuePin(k) \in {0, 1} /\ ExecPin(k) \in {0, 1}
    BY FiniteTree, PinTypes
  <2>6. QED
    BY <1>a, <2>1, <2>2, <2>3, <2>4, <2>5
<1>9. QED
  BY <1>3, <1>4, <1>5, <1>6, <1>7, <1>8

(* A body that completes starts the notification of its queue. *)
LEMMA BodyCompletesStep ==
    ASSUME IInv, BodyCompletes
    PROVE  IInv'
<1> USE DEF IInv
<1>0. /\ cur \in Job /\ cur' = cur /\ pc = "body" /\ result' /\ Children(cur) = {}
      /\ pjq[cur] \in Queue \cup {None} /\ cur # None
      /\ jobVars' = jobVars /\ waiting' = waiting
      /\ owner' = owner /\ queued' = queued /\ starts' = starts
      /\ pjq[cur] = None => pc' = "post" /\ fCompleted' = fCompleted
      /\ pjq[cur] # None => /\ pc' = "notify"
                            /\ fCompleted' = [fCompleted EXCEPT ![pjq[cur]] = TRUE]
  BY CurIsRunning DEF BodyCompletes
<1>1. Live' = Live /\ \A k : Children(k)' = Children(k)
  <2>1. Live' = Live
    BY <1>0 DEF Live, jobVars
  <2>2. QED
    BY <1>0, <2>1, SameTree DEF jobVars
<1>2. \A k \in Job : Parked(k)' = Parked(k)
  BY <1>0 DEF Parked, jobVars
<1>3. TypeOK'
  <2>1. fCompleted' \in [Queue -> BOOLEAN] /\ pc' \in Pc
    BY <1>0 DEF TypeOK, Pc
  <2>2. QED
    BY <1>0, <2>1 DEF TypeOK, BodyCompletes, jobVars
<1>4. QueueInv'
  <2> SUFFICES ASSUME NEW r \in Queue  PROVE QueueInv!(r)'
    BY DEF QueueInv
  <2>1. QueueInv!(r)
    BY DEF QueueInv
  <2>2. fCompleted'[r] = (fCompleted[r] \/ (r = pjq[cur] /\ pjq[cur] # None))
    BY <1>0 DEF TypeOK
  <2>3. QED
    BY <1>0, <1>1, <2>1, <2>2 DEF jobVars
<1>5. CurInv'
  <2>1. pjq[cur] # None => /\ fCompleted'[pjq[cur]] /\ owner[pjq[cur]] = cur
                           /\ cur = Head(queued[pjq[cur]])
    <3>1. pjq[cur] # None => ~fCompleted[pjq[cur]] /\ owner[pjq[cur]] = cur
                              /\ cur \in Range(queued[pjq[cur]])
      BY <1>0 DEF CurInv
    <3>2. pjq[cur] # None => queued[pjq[cur]] # <<>>
      BY <3>1, EmptyList
    <3>3. QED
      BY <1>0, <3>1, <3>2 DEF QueueInv, TypeOK
  <2>2. \A k \in Job : ejs'[k] = "Running" <=> k = cur'
    BY <1>0 DEF CurInv, jobVars
  <2>3. pjq' = pjq /\ pc' # "body" /\ pc' # "execute" /\ pc' # "idle" /\ pc' # "retrieve"
    BY <1>0 DEF jobVars
  <2>4. QED
    BY <1>0, <1>1, <2>1, <2>2, <2>3 DEF CurInv
<1>6. LiveInv'
  <2> SUFFICES ASSUME NEW k \in Live
               PROVE  LiveInv!(k)'
    BY <1>1 DEF LiveInv
  <2>1. k \in Job /\ parent[k] \in Job \cup {None} /\ LiveInv!(k) /\ parent[k] # cur
    BY <1>0 DEF Live, TypeOK, LiveInv, Children
  <2>2. QED
    BY <1>0, <1>1, <1>2, <2>1 DEF jobVars
<1>7. ListInv'
  BY <1>0, <1>1 DEF ListInv, BodyCompletes, jobVars
<1>8. RefsExact'
  <2> SUFFICES ASSUME NEW k \in Live
               PROVE  refs'[k] = Cardinality(Children(k)) + ExecPin(k)' + QueuePin(k)'
    BY <1>1 DEF RefsExact
  <2>1. k \in Job
    BY DEF Live
  <2>2. MainPin(k)' = MainPin(k)
    BY <1>0, <2>1 DEF MainPin, CurInv, jobVars
  <2>3. ExecPin(k)' = ExecPin(k) /\ QueuePin(k)' = QueuePin(k)
    BY <1>0, <1>2, <2>1, <2>2 DEF ExecPin, QueuePin
  <2>4. QED
    BY <1>0, <2>3 DEF RefsExact, jobVars
<1>9. QED
  BY <1>3, <1>4, <1>5, <1>6, <1>7, <1>8

(* The end of NotifyCompleted keeps the invariant. *)
LEMMA NotifyDoneStep ==
    ASSUME IInv, NotifyDone
    PROVE  IInv'
<1> USE DEF IInv
<1>0. /\ cur \in Job /\ cur' = cur /\ pc = "notify" /\ pc' = "post" /\ result /\ result'
      /\ pjq[cur] \in Queue /\ pjq[cur] # None /\ cur # None /\ Children(cur) = {}
      /\ jobVars' = jobVars /\ waiting' = waiting /\ queueVars' = queueVars
      /\ queued[pjq[cur]] = <<>> /\ fCompleted[pjq[cur]]
  BY CurIsRunning DEF NotifyDone, CurInv
<1>1. Live' = Live /\ \A k : Children(k)' = Children(k)
  <2>1. Live' = Live
    BY <1>0 DEF Live, jobVars
  <2>2. QED
    BY <1>0, <2>1, SameTree DEF jobVars
<1>2. \A k \in Job : Parked(k)' = Parked(k)
  BY <1>0 DEF Parked, jobVars, queueVars
<1>3. TypeOK'
  BY <1>0 DEF TypeOK, NotifyDone, jobVars, queueVars, Pc
<1>4. QueueInv'
  BY <1>0, <1>1 DEF QueueInv, jobVars, queueVars
<1>5. CurInv'
  BY <1>0, <1>1 DEF CurInv, jobVars, queueVars
<1>6. LiveInv'
  <2> SUFFICES ASSUME NEW k \in Live
               PROVE  LiveInv!(k)'
    BY <1>1 DEF LiveInv
  <2>1. k \in Job /\ parent[k] \in Job \cup {None} /\ LiveInv!(k)
    BY DEF Live, TypeOK, LiveInv
  <2>2. QED
    BY <1>0, <1>1, <1>2, <2>1 DEF jobVars
<1>7. ListInv'
  BY <1>0, <1>1 DEF ListInv, NotifyDone, jobVars
<1>8. RefsExact'
  <2> SUFFICES ASSUME NEW k \in Live
               PROVE  refs'[k] = Cardinality(Children(k)) + ExecPin(k)' + QueuePin(k)'
    BY <1>1 DEF RefsExact
  <2>1. k \in Job
    BY DEF Live
  <2>2. ~MainPin(k) /\ ~MainPin(k)'
    BY <1>0, <2>1, EmptyList DEF MainPin
  <2>3. ExecPin(k)' = ExecPin(k) /\ QueuePin(k)' = QueuePin(k)
    BY <1>0, <1>2, <2>1, <2>2 DEF ExecPin, QueuePin
  <2>4. QED
    BY <1>0, <2>3 DEF RefsExact, jobVars
<1>9. QED
  BY <1>3, <1>4, <1>5, <1>6, <1>7, <1>8

(* EjrPostExecute of a job that did not complete keeps the invariant: the job
   is rescheduled if nothing pins it any more, and suspended otherwise. *)
LEMMA PostNotCompletedStep ==
    ASSUME IInv, PostRunnable \/ PostSuspended
    PROVE  IInv'
<1> USE DEF IInv
<1> DEFINE st == IF refs[cur] = 1 THEN "Waiting" ELSE "Suspended"
<1>0. /\ cur \in Job /\ cur' = None /\ pc = "post" /\ pc' = "retrieve" /\ ~result
      /\ cur # None /\ cur \in Live /\ ejs[cur] = "Running"
      /\ parent' = parent /\ pjq' = pjq /\ fresh' = fresh /\ queueVars' = queueVars
      /\ ejs' = [ejs EXCEPT ![cur] = st] /\ refs' = [refs EXCEPT ![cur] = @ - 1]
      /\ refs[cur] = Cardinality(Children(cur)) + 1 + QueuePin(cur)
      /\ \A k \in Job : k # cur'
  BY CurIsRunning, JobAssumption DEF PostRunnable, PostSuspended
<1>1. Live' = Live /\ \A k : Children(k)' = Children(k)
  <2>1. Live' = Live
    BY <1>0 DEF Live, TypeOK
  <2>2. QED
    BY <1>0, <2>1, SameTree
<1>2. \A k \in Job : Parked(k)' = Parked(k)
  BY <1>0 DEF Parked, queueVars
<1>a. /\ QueuePin(cur) = IF Parked(cur) THEN 1 ELSE 0
      /\ refs[cur] = 1 <=> Children(cur) = {} /\ ~Parked(cur)
  <2>1. QueuePin(cur) = IF Parked(cur) THEN 1 ELSE 0
    BY <1>0 DEF QueuePin, MainPin
  <2>2. Cardinality(Children(cur)) \in Nat /\ (Cardinality(Children(cur)) = 0 <=> Children(cur) = {})
    BY FiniteTree
  <2>3. CASE Parked(cur)
    BY <1>0, <2>1, <2>2, <2>3
  <2>4. CASE ~Parked(cur)
    BY <1>0, <2>1, <2>2, <2>4
  <2>5. QED
    BY <2>1, <2>3, <2>4
<1>3. TypeOK'
  <2>1. refs' \in [Job -> Nat]
    <3>1. Cardinality(Children(cur)) \in Nat /\ QueuePin(cur) \in {0, 1}
      BY FiniteTree, PinTypes
    <3>2. refs \in [Job -> Nat] /\ refs[cur] - 1 \in Nat
      BY <1>0, <3>1 DEF TypeOK
    <3>3. QED
      BY <1>0, <3>2
  <2>2. ejs' \in [Job -> EJobState] /\ waiting' \subseteq Job
    BY <1>0 DEF TypeOK, EJobState, PostRunnable, PostSuspended
  <2>3. total' = total /\ created' = created /\ stage' = stage /\ level' = level /\ result' = result
    BY DEF PostRunnable, PostSuspended
  <2>4. QED
    BY <1>0, <2>1, <2>2, <2>3 DEF TypeOK, Pc, queueVars
<1>4. QueueInv'
  BY <1>0, <1>1 DEF QueueInv, queueVars
<1>5. CurInv'
  <2>1. \A k \in Job : ejs'[k] # "Running"
    BY <1>0 DEF CurInv, TypeOK
  <2>2. QED
    BY <1>0, <2>1 DEF CurInv
<1>6. LiveInv'
  <2> SUFFICES ASSUME NEW k \in Live
               PROVE  LiveInv!(k)'
    BY <1>1 DEF LiveInv
  <2>1. k \in Job /\ parent[k] \in Job \cup {None} /\ LiveInv!(k)
    BY DEF Live, TypeOK, LiveInv
  <2>2. parent[k] = cur => st = "Suspended"
    BY <1>a, <2>1 DEF Children
  <2>3. parent'[k] # None => ejs'[parent[k]] = "Suspended"
    BY <1>0, <2>1, <2>2 DEF TypeOK
  <2>4. k = cur => /\ ejs'[k] = "Waiting" => Children(k) = {} /\ ~Parked(k)
                   /\ ejs'[k] = "Suspended" => Children(k) # {} \/ Parked(k)
                   /\ Parked(k) => ejs'[k] = "Suspended"
    BY <1>0, <1>a, <2>1 DEF TypeOK
  <2>5. k # cur => ejs'[k] = ejs[k]
    BY <1>0, <2>1 DEF TypeOK
  <2>6. QED
    BY <1>0, <1>1, <1>2, <2>1, <2>3, <2>4, <2>5
<1>7. ListInv'
  <2>1. waiting' = waiting \cup (IF st = "Waiting" THEN {cur} ELSE {}) /\ total' = total
    BY DEF PostRunnable, PostSuspended
  <2>2. waiting' = {k \in Job : ejs'[k] = "Waiting"}
    BY <1>0, <2>1 DEF ListInv, TypeOK
  <2>3. QED
    BY <1>1, <2>1, <2>2 DEF ListInv
<1>8. RefsExact'
  <2> SUFFICES ASSUME NEW k \in Live
               PROVE  refs'[k] = Cardinality(Children(k)) + ExecPin(k)' + QueuePin(k)'
    BY <1>1 DEF RefsExact
  <2>1. k \in Job /\ refs[k] = Cardinality(Children(k)) + ExecPin(k) + QueuePin(k)
    BY DEF Live, RefsExact
  <2>2. ExecPin(k)' = 0 /\ ExecPin(k) = IF k = cur THEN 1 ELSE 0
    BY <1>0, <2>1 DEF ExecPin
  <2>3. QueuePin(k)' = QueuePin(k)
    BY <1>0, <1>2, <2>1 DEF QueuePin, MainPin
  <2>4. refs'[k] = IF k = cur THEN refs[k] - 1 ELSE refs[k]
    BY <1>0, <2>1 DEF TypeOK
  <2>5. Cardinality(Children(k)) \in Nat /\ QueuePin(k) \in {0, 1}
    BY FiniteTree, PinTypes
  <2>6. QED
    BY <2>1, <2>2, <2>3, <2>4, <2>5
<1>9. QED
  BY <1>3, <1>4, <1>5, <1>6, <1>7, <1>8
-----------------------------------------------------------------------------
(* The job tree after job j has been added under p. *)
GrownTree(j, p) ==
    /\ Live' = Live \cup {j} /\ j \notin Live /\ j # cur
    /\ Cardinality(Live') = Cardinality(Live) + 1
    /\ Children(j) = {}
    /\ \A k \in Job : Children(k)' = IF k = p THEN Children(k) \cup {j} ELSE Children(k)
    /\ \A k \in Job : Cardinality(Children(k)') =
          IF k = p THEN Cardinality(Children(k)) + 1 ELSE Cardinality(Children(k))

(* Creating a job adds one leaf to the job tree, below p. *)
LEMMA CreateTree ==
    ASSUME IInv, NEW j \in Job, NEW q, NEW p \in Job \cup {None}, NEW lvl,
           Create(j, q, p, lvl), p # j
    PROVE  GrownTree(j, p)
<1> USE DEF IInv
<1>1. j \notin Live /\ ejs[j] = "Free" /\ j # cur
  BY DEF Create, Live, CurInv
<1>2. Live' = Live \cup {j}
  BY <1>1 DEF Create, Live, TypeOK
<1>3. Children(j) = {}
  <2> SUFFICES ASSUME NEW c \in Live, parent[c] = j  PROVE FALSE
    BY DEF Children
  <2>1. j # None
    BY JobAssumption
  <2>2. ejs[j] = "Suspended" \/ j = cur
    BY <2>1 DEF LiveInv
  <2>3. QED
    BY <1>1, <2>2
<1>4. \A k \in Job : Children(k)' = IF k = p THEN Children(k) \cup {j} ELSE Children(k)
  <2> SUFFICES ASSUME NEW k \in Job
               PROVE  Children(k)' = IF k = p THEN Children(k) \cup {j} ELSE Children(k)
    OBVIOUS
  <2>1. \A c \in Live : parent'[c] = parent[c]
    BY <1>1 DEF Create, Live, TypeOK
  <2>2. parent'[j] = p
    BY DEF Create, TypeOK
  <2>3. QED
    BY <1>1, <1>2, <2>1, <2>2 DEF Children
<1>5. \A k \in Job : j \notin Children(k)
  BY <1>1 DEF Children
<1>6. Cardinality(Live') = Cardinality(Live) + 1
  BY <1>1, <1>2, FiniteTree, FS_AddElement
<1>7. \A k \in Job : Cardinality(Children(k) \cup {j}) = Cardinality(Children(k)) + 1
  BY <1>5, FiniteTree, FS_AddElement
<1>8. QED
  BY <1>1, <1>2, <1>3, <1>4, <1>6, <1>7 DEF GrownTree

(* Adding the main job or a child of the executing job keeps the invariant. *)
LEMMA AddStep ==
    ASSUME IInv, NEW j \in Job, NEW q \in Queue \cup {None},
           (q \in Queue /\ ScheduleMainJob(j, q)) \/ AddChild(j, q)
    PROVE  IInv'
<1> USE DEF IInv
<1> DEFINE p == IF pc = "idle" THEN None ELSE cur
           lvl == IF q = None THEN level[cur] ELSE Level[q]
<1>0. /\ pc = "idle" => cur = None
      /\ pc # "idle" => pc = "body" /\ cur \in Job /\ cur # None
      /\ pc = "idle" => pc' = "retrieve"
      /\ pc # "idle" => pc' = "body"
      /\ cur' = cur /\ result' = result /\ queueVars' = queueVars /\ stage' = stage
      /\ pc = "idle" => refs' = [refs EXCEPT ![j] = 0]
      /\ pc # "idle" => refs' = [refs EXCEPT ![cur] = @ + 1, ![j] = 0]
  BY CurIsRunning DEF AddChild, ScheduleMainJob, CurInv, loopVars
<1>1. Create(j, q, p, lvl)
  BY JobAssumption DEF AddChild, ScheduleMainJob
<1>2. p \in Job \cup {None} /\ p # j /\ j # None /\ lvl \in Nat
  <2>1. j # cur
    BY <1>1 DEF Create, CurInv
  <2>2. lvl \in Nat
    BY <1>0, JobAssumption DEF TypeOK, ScheduleMainJob, AddChild
  <2>3. QED
    BY <1>0, <2>1, <2>2, JobAssumption
<1>3. /\ Live' = Live \cup {j} /\ j \notin Live /\ j # cur
      /\ Cardinality(Live') = Cardinality(Live) + 1
      /\ Children(j) = {}
      /\ \A k \in Job : Children(k)' = IF k = p THEN Children(k) \cup {j} ELSE Children(k)
      /\ \A k \in Job : Cardinality(Children(k)') =
            IF k = p THEN Cardinality(Children(k)) + 1 ELSE Cardinality(Children(k))
  <2> HIDE DEF IInv, p, lvl
  <2>1. IInv /\ j \in Job /\ p \in Job \cup {None} /\ p # j /\ Create(j, q, p, lvl)
    BY <1>1, <1>2
  <2>2. GrownTree(j, p)
    BY <2>1, CreateTree, Zenon
  <2>3. QED
    BY <2>2 DEF GrownTree
<1>4. TypeOK'
  <2>1. refs' \in [Job -> Nat]
    <3>1. refs \in [Job -> Nat]
      BY DEF TypeOK
    <3>2. CASE pc = "idle"
      BY <1>0, <3>1, <3>2
    <3>3. CASE pc # "idle"
      BY <1>0, <3>1, <3>3
    <3>4. QED
      BY <3>2, <3>3
  <2>2. pc' \in Pc /\ cur' \in Job \cup {None} /\ result' \in BOOLEAN /\ stage' \in Nat
    BY <1>0 DEF TypeOK, Pc
  <2>3. /\ ejs' \in [Job -> EJobState] /\ parent' \in [Job -> Job \cup {None}]
        /\ pjq' \in [Job -> Queue \cup {None}] /\ fresh' \in [Job -> BOOLEAN]
        /\ level' \in [Job -> Nat] /\ waiting' \subseteq Job
        /\ total' \in Nat /\ created' \in Nat
    BY <1>1, <1>2 DEF TypeOK, Create, EJobState
  <2>4. QED
    BY <1>0, <2>1, <2>2, <2>3 DEF TypeOK, queueVars
<1>5. /\ \A k \in Job \ {j} : /\ ejs'[k] = ejs[k] /\ pjq'[k] = pjq[k]
                              /\ fresh'[k] = fresh[k] /\ parent'[k] = parent[k]
      /\ ejs'[j] = "Waiting" /\ pjq'[j] = q /\ parent'[j] = p
  BY <1>1 DEF Create, TypeOK
<1>6. /\ \A k \in Job \ {j} : Parked(k)' = Parked(k)
      /\ ~Parked(j)'
  <2>1. \A r \in Queue : j \notin Range(queued[r])
    BY <1>3 DEF QueueInv
  <2>2. \A k \in Job \ {j} : Parked(k)' = Parked(k)
    BY <1>0, <1>5 DEF Parked, queueVars
  <2>3. QED
    BY <1>0, <1>5, <2>1, <2>2 DEF Parked, queueVars
<1>7. QueueInv'
  <2> SUFFICES ASSUME NEW r \in Queue  PROVE QueueInv!(r)'
    BY DEF QueueInv
  <2>1. QueueInv!(r) /\ pc # "notify" /\ queued[r] \in Seq(Job)
    BY <1>0 DEF QueueInv, TypeOK
  <2>2. \A k \in Range(queued[r]) : k \in Live' /\ pjq'[k] = r
    BY <1>3, <1>5, <2>1 DEF Live
  <2>3. queued[r] # <<>> => owner[r] \in Job \ {j}
    <3>1. queued[r] # <<>> => ~fCompleted[r] /\ owner[r] = Head(queued[r])
      BY <2>1
    <3>2. queued[r] # <<>> => Head(queued[r]) \in Range(queued[r])
      BY <2>1, RangeEmpty
    <3>3. QED
      BY <1>3, <2>1, <3>1, <3>2 DEF Live
  <2>4. QED
    BY <1>0, <1>5, <2>1, <2>2, <2>3 DEF queueVars
<1>8. CurInv'
  <2>1. \A k \in Job : ejs'[k] = "Running" <=> k = cur'
    BY <1>0, <1>3, <1>5 DEF CurInv
  <2>2. \A k \in Job : k = cur => pc' = "body" /\ pjq'[k] = pjq[k] /\ pc = "body"
    BY <1>0, <1>3, <1>5, JobAssumption
  <2>3. QED
    BY <1>0, <2>1, <2>2 DEF CurInv, queueVars
<1>9. LiveInv'
  <2> SUFFICES ASSUME NEW k \in Live'
               PROVE  LiveInv!(k)'
    BY DEF LiveInv
  <2>1. CASE k = j
    <3>1. ejs'[k] = "Waiting" /\ ~Parked(k)' /\ Children(k)' = {} /\ parent'[k] = p
      BY <1>2, <1>3, <1>5, <1>6, <2>1
    <3>2. p # None => p = cur' /\ pc' = "body"
      BY <1>0
    <3>3. QED
      BY <3>1, <3>2
  <2>2. CASE k # j
    <3>1. k \in Live /\ k \in Job \ {j} /\ LiveInv!(k) /\ parent[k] \in Job \cup {None}
      BY <1>3, <2>2 DEF Live, LiveInv, TypeOK
    <3>2. parent[k] # j
      BY <1>3, <3>1 DEF Children
    <3>3. Children(k) = {} /\ k # p => Children(k)' = {}
      BY <1>3, <3>1
    <3>4. k = p => k = cur /\ pc = "body" /\ ejs[k] = "Running" /\ ~Parked(k)
      BY <1>0, <3>1, JobAssumption DEF CurInv, LiveInv
    <3>5. Children(k) # {} => Children(k)' # {}
      BY <1>3, <3>1
    <3>6. parent'[k] # None =>
             \/ ejs'[parent'[k]] = "Suspended"
             \/ parent'[k] = cur' /\ (pc' = "body" \/ (pc' = "post" /\ ~result'))
      BY <1>0, <1>5, <3>1, <3>2, JobAssumption
    <3>7. ejs'[k] = ejs[k] /\ Parked(k)' = Parked(k)
      BY <1>5, <1>6, <3>1
    <3>8. Parked(k) => ejs[k] = "Suspended"
      BY <1>0, <3>1
    <3>9. QED
      BY <3>1, <3>3, <3>4, <3>5, <3>6, <3>7, <3>8
  <2>3. QED
    BY <2>1, <2>2
<1>10. ListInv'
  <2>1. waiting' = {k \in Job : ejs'[k] = "Waiting"}
    BY <1>1, <1>5 DEF Create, ListInv
  <2>2. total' = Cardinality(Live')
    BY <1>1, <1>3 DEF Create, ListInv
  <2>3. QED
    BY <2>1, <2>2 DEF ListInv
<1>11. RefsExact'
  <2> SUFFICES ASSUME NEW k \in Live'
               PROVE  refs'[k] = Cardinality(Children(k)') + ExecPin(k)' + QueuePin(k)'
    BY DEF RefsExact
  <2>1. CASE k = j
    <3>1. refs'[k] = 0
      BY <1>0, <1>3, <2>1 DEF TypeOK
    <3>2. Cardinality(Children(k)') = 0
      BY <1>2, <1>3, <2>1, FS_EmptySet
    <3>3. ExecPin(k)' = 0 /\ QueuePin(k)' = 0
      BY <1>0, <1>3, <1>6, <2>1 DEF ExecPin, QueuePin, MainPin
    <3>4. QED
      BY <3>1, <3>2, <3>3
  <2>2. CASE k # j
    <3>1. k \in Live /\ k \in Job
      BY <1>3, <2>2 DEF Live
    <3>2. refs[k] = Cardinality(Children(k)) + ExecPin(k) + QueuePin(k)
      BY <3>1 DEF RefsExact
    <3>3. refs'[k] = refs[k] + IF k = p THEN 1 ELSE 0
      BY <1>0, <2>2, <3>1, JobAssumption DEF TypeOK
    <3>4. Cardinality(Children(k)') = Cardinality(Children(k)) + IF k = p THEN 1 ELSE 0
      <4>1. Cardinality(Children(k)) \in Nat
        BY FiniteTree
      <4>2. QED
        BY <1>3, <3>1, <4>1
    <3>5. MainPin(k)' = MainPin(k)
      BY <1>0, <1>5, <2>2, <3>1, JobAssumption DEF MainPin
    <3>6. ExecPin(k)' = ExecPin(k) /\ QueuePin(k)' = QueuePin(k)
      BY <1>0, <1>6, <2>2, <3>1, <3>5 DEF ExecPin, QueuePin
    <3>7. Cardinality(Children(k)) \in Nat /\ QueuePin(k) \in {0, 1} /\ ExecPin(k) \in {0, 1}
      BY FiniteTree, PinTypes
    <3>8. QED
      BY <3>2, <3>3, <3>4, <3>6, <3>7
  <2>3. QED
    BY <2>1, <2>2
<1>12. QED
  BY <1>4, <1>7, <1>8, <1>9, <1>10, <1>11
-----------------------------------------------------------------------------
(* Completing a job without children removes one leaf of the job tree and takes
   one reference of its parent, which is suspended; the parent is rescheduled
   exactly when nothing else pins it. *)
LEMMA ResumeFacts ==
    ASSUME IInv, NEW j \in Live, NEW r, Children(j) = {}, \A k \in Job : k = cur => Children(k) = {},
           r \in [Job -> Nat], \A k \in Job \ {j} : r[k] = refs[k],
           ResumeParent(j, r), parent' = parent
    PROVE  /\ Live' = Live \ {j} /\ ejs'[j] = "Free" /\ Cardinality(Live') = Cardinality(Live) - 1
           /\ ejs' \in [Job -> EJobState] /\ refs' \in [Job -> Nat] /\ waiting' \subseteq Job
           /\ waiting' = waiting \cup {k \in Job \ {j} : k = parent[j] /\ refs[k] = 1}
           /\ \A k \in Job : Children(k)' = Children(k) \ {j}
           /\ \A k \in Live \ {j} :
                 /\ Cardinality(Children(k)') =
                       Cardinality(Children(k)) - IF k = parent[j] THEN 1 ELSE 0
                 /\ refs'[k] = refs[k] - IF k = parent[j] THEN 1 ELSE 0
                 /\ ejs'[k] = IF k = parent[j] /\ refs[k] = 1 THEN "Waiting" ELSE ejs[k]
                 /\ k = parent[j] => /\ ejs[k] = "Suspended" /\ k # cur
                                     /\ refs[k] = 1 => Children(k)' = {} /\ ~Parked(k)
                                     /\ refs[k] # 1 => Children(k)' # {} \/ Parked(k)
<1> USE DEF IInv
<1> DEFINE p == parent[j]
<1>1. j \in Job /\ p \in Job \cup {None} /\ j # None /\ ejs[j] # "Free"
  BY JobAssumption DEF Live, TypeOK
<1>2. p # None => p \in Job \ {j} /\ ejs[p] = "Suspended" /\ p # cur /\ p \in Live /\ j \in Children(p)
  <2>1. p # None => j \in Children(p)
    BY DEF Children
  <2>2. p # None => p # j /\ p # cur /\ p \in Job
    BY <1>1, <2>1
  <2>3. p # None => ejs[p] = "Suspended"
    BY <2>2 DEF LiveInv
  <2>4. QED
    BY <2>1, <2>2, <2>3 DEF Live
<1>3. p # None => refs[p] = Cardinality(Children(p)) + QueuePin(p) /\ refs[p] \in Nat \ {0}
                  /\ QueuePin(p) = (IF Parked(p) THEN 1 ELSE 0)
                  /\ Cardinality(Children(p)) \in Nat \ {0}
  <2>1. p # None => refs[p] = Cardinality(Children(p)) + ExecPin(p) + QueuePin(p) /\ refs[p] \in Nat
    BY <1>2 DEF RefsExact, TypeOK
  <2>2. p # None => ExecPin(p) = 0 /\ QueuePin(p) = (IF Parked(p) THEN 1 ELSE 0)
    BY <1>2 DEF ExecPin, QueuePin, MainPin
  <2>3. p # None => Cardinality(Children(p)) \in Nat \ {0}
    BY <1>2, FiniteTree
  <2>4. QED
    BY <2>1, <2>2, <2>3
<1>4. /\ ejs' \in [Job -> EJobState] /\ refs' \in [Job -> Nat] /\ waiting' \subseteq Job
      /\ ejs'[j] = "Free"
      /\ waiting' = waiting \cup {k \in Job \ {j} : k = p /\ refs[k] = 1}
      /\ \A k \in Job \ {j} :
            /\ refs'[k] = refs[k] - IF k = p THEN 1 ELSE 0
            /\ ejs'[k] = IF k = p /\ refs[k] = 1 THEN "Waiting" ELSE ejs[k]
  <2>0. /\ ejs \in [Job -> EJobState] /\ waiting \subseteq Job
        /\ "Free" \in EJobState /\ "Waiting" \in EJobState
        /\ \A k \in Job : refs[k] \in Nat
    BY DEF TypeOK, EJobState
  <2>1. CASE p = None
    <3>1. refs' = r /\ waiting' = waiting /\ ejs' = [ejs EXCEPT ![j] = "Free"]
      BY <2>1 DEF ResumeParent
    <3>2. \A k \in Job : k # p
      BY <2>1, JobAssumption
    <3>3. QED
      BY <1>1, <2>0, <3>1, <3>2
  <2>2. CASE p # None /\ refs[p] = 1
    <3>1. /\ refs' = [r EXCEPT ![p] = @ - 1] /\ waiting' = waiting \cup {p}
          /\ ejs' = [ejs EXCEPT ![p] = "Waiting", ![j] = "Free"]
      BY <1>2, <2>2 DEF ResumeParent
    <3>2. QED
      BY <1>1, <1>2, <2>0, <2>2, <3>1
  <2>3. CASE p # None /\ refs[p] # 1
    <3>1. /\ refs' = [r EXCEPT ![p] = @ - 1] /\ waiting' = waiting
          /\ ejs' = [ejs EXCEPT ![j] = "Free"]
      BY <1>2, <2>3 DEF ResumeParent
    <3>2. QED
      BY <1>1, <1>2, <1>3, <2>0, <2>3, <3>1
  <2>4. QED
    BY <2>1, <2>2, <2>3
<1>5. Live' = Live \ {j}
  <2>1. \A k \in Job \ {j} : ejs'[k] = "Free" <=> ejs[k] = "Free"
    BY <1>2, <1>4, JobAssumption
  <2>2. QED
    BY <1>1, <1>4, <2>1 DEF Live
<1>6. \A k \in Job : Children(k)' = Children(k) \ {j}
  BY <1>5 DEF Children
<1>7. Cardinality(Live') = Cardinality(Live) - 1
  BY <1>5, FiniteTree, FS_RemoveElement
<1>8. \A k \in Live \ {j} : Cardinality(Children(k) \ {j}) =
                               Cardinality(Children(k)) - IF k = p THEN 1 ELSE 0
  <2> SUFFICES ASSUME NEW k \in Live \ {j}
               PROVE  Cardinality(Children(k) \ {j}) =
                         Cardinality(Children(k)) - IF k = p THEN 1 ELSE 0
    OBVIOUS
  <2>1. IsFiniteSet(Children(k)) /\ Cardinality(Children(k)) \in Nat
    BY FiniteTree
  <2>2. j \in Children(k) <=> k = p
    BY DEF Children
  <2>3. Cardinality(Children(k) \ {j}) =
           IF j \in Children(k) THEN Cardinality(Children(k)) - 1 ELSE Cardinality(Children(k))
    BY <2>1, FS_RemoveElement
  <2>4. CASE k = p
    BY <2>1, <2>2, <2>3, <2>4
  <2>5. CASE k # p
    BY <2>1, <2>2, <2>3, <2>5
  <2>6. QED
    BY <2>4, <2>5
<1>9. p # None => /\ refs[p] = 1 => Children(p)' = {} /\ ~Parked(p)
                  /\ refs[p] # 1 => Children(p)' # {} \/ Parked(p)
  <2> SUFFICES ASSUME p # None
               PROVE  /\ refs[p] = 1 => Children(p) \ {j} = {} /\ ~Parked(p)
                      /\ refs[p] # 1 => Children(p) \ {j} # {} \/ Parked(p)
    BY <1>2, <1>6
  <2>1. Cardinality(Children(p) \ {j}) = Cardinality(Children(p)) - 1
    BY <1>2, <1>8
  <2>2. Cardinality(Children(p) \ {j}) = 0 <=> Children(p) \ {j} = {}
    <3>1. IsFiniteSet(Children(p) \ {j})
      BY FiniteTree, FS_RemoveElement
    <3>2. QED
      BY <3>1, FS_EmptySet
  <2>3. CASE Parked(p)
    BY <1>3, <2>1, <2>2, <2>3
  <2>4. CASE ~Parked(p)
    BY <1>3, <2>1, <2>2, <2>4
  <2>5. QED
    BY <2>3, <2>4
<1>10. \A k \in Live \ {j} : k \in Job /\ k # None
  BY JobAssumption DEF Live
<1>11. QED
  BY <1>2, <1>4, <1>5, <1>6, <1>7, <1>8, <1>9, <1>10

(* One iteration of NotifyCompleted keeps the invariant: the main job at the
   head of the list keeps the scheduler's reference, every job behind it is
   completed. *)
LEMMA NotifyOneStep ==
    ASSUME IInv, NotifyOne
    PROVE  IInv'
<1> USE DEF IInv
<1> DEFINE q == pjq[cur]
           h == Head(queued[q])
<1>0. /\ cur \in Job /\ cur' = cur /\ pc = "notify" /\ pc' = "notify" /\ result /\ result'
      /\ q \in Queue /\ q # None /\ cur # None /\ Children(cur) = {} /\ cur \in Live
      /\ ejs[cur] = "Running" /\ refs[cur] = Cardinality(Children(cur)) + 1 + QueuePin(cur)
      /\ fCompleted[q] /\ owner[q] = cur /\ queued[q] # <<>>
      /\ cur \in Range(queued[q]) => cur = h
      /\ parent' = parent /\ pjq' = pjq /\ fresh' = fresh /\ level' = level
      /\ owner' = owner /\ fCompleted' = fCompleted /\ starts' = starts
      /\ created' = created /\ stage' = stage
      /\ queued' = [queued EXCEPT ![q] = Tail(@)]
  BY CurIsRunning DEF NotifyOne, CurInv, loopVars
<1>1. /\ h \in Range(queued[q]) /\ h \in Live /\ h \in Job /\ pjq[h] = q
      /\ queued'[q] \in Seq(Job) /\ Distinct(queued'[q])
      /\ Range(queued'[q]) = Range(queued[q]) \ {h}
      /\ \A r \in Queue \ {q} : queued'[r] = queued[r]
      /\ queued' \in [Queue -> Seq(Job)]
  <2>1. queued[q] \in Seq(Job) /\ Distinct(queued[q])
    BY <1>0 DEF TypeOK, QueueInv
  <2>2. /\ Tail(queued[q]) \in Seq(Job) /\ h \in Range(queued[q])
        /\ Range(Tail(queued[q])) = Range(queued[q]) \ {h} /\ Distinct(Tail(queued[q]))
    BY <1>0, <2>1, RangeTail
  <2>3. h \in Live /\ pjq[h] = q /\ h \in Job
    BY <1>0, <2>2 DEF QueueInv, Live
  <2>4. queued'[q] = Tail(queued[q]) /\ \A r \in Queue \ {q} : queued'[r] = queued[r]
    BY <1>0 DEF TypeOK
  <2>5. queued' \in [Queue -> Seq(Job)]
    BY <1>0, <2>2 DEF TypeOK
  <2>6. QED
    BY <2>2, <2>3, <2>4, <2>5
<1>2. \A r \in Queue : h \in Range(queued[r]) => r = q
  BY <1>1 DEF QueueInv
<1>3. \A k \in Job \ {h} : Parked(k)' = Parked(k)
  <2> SUFFICES ASSUME NEW k \in Job \ {h}  PROVE Parked(k)' = Parked(k)
    OBVIOUS
  <2>1. CASE pjq[k] = q
    BY <1>0, <1>1, <2>1 DEF Parked
  <2>2. CASE pjq[k] # q
    <3>1. pjq[k] \in Queue \cup {None}
      BY DEF TypeOK
    <3>2. QED
      BY <1>0, <1>1, <2>2, <3>1 DEF Parked
  <2>3. QED
    BY <2>1, <2>2
<1>4. \A k \in Job : k = h => ~Parked(k)'
  <2> SUFFICES ASSUME NEW k \in Job, k = h  PROVE ~Parked(k)'
    OBVIOUS
  <2>1. k \notin Range(queued'[q]) /\ pjq'[k] = q
    BY <1>0, <1>1
  <2>2. QED
    BY <2>1 DEF Parked
<1>5. CASE h = cur
  <2>1. ~Parked(cur) /\ QueuePin(cur) = 1 /\ refs[cur] = 2
    <3>1. ~Parked(cur) /\ QueuePin(cur) = 1
      BY <1>0, <1>1, <1>5 DEF Parked, QueuePin, MainPin
    <3>2. Cardinality(Children(cur)) = 0
      BY <1>0, FS_EmptySet
    <3>3. QED
      BY <1>0, <3>1, <3>2
  <2>2. /\ refs' = [refs EXCEPT ![cur] = @ - 1]
        /\ waiting' = waiting /\ ejs' = ejs /\ total' = total
    BY <1>5, <2>1 DEF NotifyOne
  <2>3. Live' = Live /\ \A k : Children(k)' = Children(k)
    <3>1. Live' = Live
      BY <2>2 DEF Live
    <3>2. QED
      BY <1>0, <3>1, SameTree
  <2>4. \A k \in Job : Parked(k)' = Parked(k)
    <3> SUFFICES ASSUME NEW k \in Job  PROVE Parked(k)' = Parked(k)
      OBVIOUS
    <3>1. CASE k = h
      <4>1. ~Parked(k) /\ ~Parked(k)'
        BY <1>4, <1>5, <2>1, <3>1
      <4>2. QED
        BY <4>1 DEF Parked
    <3>2. CASE k # h
      BY <1>3, <3>2
    <3>3. QED
      BY <3>1, <3>2
  <2>5. TypeOK'
    <3>1. refs' \in [Job -> Nat]
      BY <1>0, <2>1, <2>2 DEF TypeOK
    <3>2. QED
      BY <1>0, <1>1, <2>2, <3>1 DEF TypeOK
  <2>6. QueueInv'
    <3> SUFFICES ASSUME NEW r \in Queue  PROVE QueueInv!(r)'
      BY DEF QueueInv
    <3>1. QueueInv!(r)
      BY DEF QueueInv
    <3>2. CASE r = q
      BY <1>0, <1>1, <2>3, <3>1, <3>2
    <3>3. CASE r # q
      BY <1>0, <1>1, <2>3, <3>1, <3>3
    <3>4. QED
      BY <3>2, <3>3
  <2>7. CurInv'
    BY <1>0, <1>1, <1>5, <2>2, <2>3 DEF CurInv
  <2>8. LiveInv'
    <3> SUFFICES ASSUME NEW k \in Live
                 PROVE  LiveInv!(k)'
      BY <2>3 DEF LiveInv
    <3>1. k \in Job /\ LiveInv!(k)
      BY DEF Live, LiveInv
    <3>2. QED
      BY <1>0, <2>2, <2>3, <2>4, <3>1
  <2>9. ListInv'
    BY <2>2, <2>3 DEF ListInv
  <2>10. RefsExact'
    <3> SUFFICES ASSUME NEW k \in Live
                 PROVE  refs'[k] = Cardinality(Children(k)) + ExecPin(k)' + QueuePin(k)'
      BY <2>3 DEF RefsExact
    <3>1. k \in Job /\ refs[k] = Cardinality(Children(k)) + ExecPin(k) + QueuePin(k)
      BY DEF Live, RefsExact
    <3>2. ExecPin(k)' = ExecPin(k) /\ (k # cur => QueuePin(k)' = QueuePin(k))
      BY <1>0, <2>4, <3>1 DEF ExecPin, QueuePin, MainPin
    <3>3. k = cur => QueuePin(k)' = 0
      <4>1. k = cur => ~MainPin(k)'
        BY <1>0, <1>1, <1>5 DEF MainPin
      <4>2. QED
        BY <2>1, <2>4, <3>1, <4>1 DEF QueuePin
    <3>4. refs'[k] = IF k = cur THEN refs[k] - 1 ELSE refs[k]
      BY <2>2, <3>1 DEF TypeOK
    <3>5. Cardinality(Children(k)) \in Nat /\ QueuePin(k) \in {0, 1} /\ ExecPin(k) \in {0, 1}
      BY FiniteTree, PinTypes
    <3>6. QED
      BY <2>1, <3>1, <3>2, <3>3, <3>4, <3>5
  <2>11. QED
    BY <2>5, <2>6, <2>7, <2>8, <2>9, <2>10
<1>6. CASE h # cur
  <2>1. Parked(h) /\ cur \notin Range(queued[q]) /\ Children(h) = {} /\ ejs[h] = "Suspended"
    <3>1. Parked(h) /\ cur \notin Range(queued[q])
      BY <1>0, <1>1, <1>6 DEF Parked
    <3>2. QED
      BY <1>0, <1>1, <1>6, <3>1 DEF LiveInv
  <2>2. refs[h] = 1
    <3>1. refs[h] = Cardinality(Children(h)) + ExecPin(h) + QueuePin(h)
      BY <1>1 DEF RefsExact
    <3>2. Cardinality(Children(h)) = 0 /\ ExecPin(h) = 0 /\ QueuePin(h) = 1
      BY <1>6, <2>1, FS_EmptySet DEF ExecPin, QueuePin
    <3>3. QED
      BY <3>1, <3>2
  <2> DEFINE r0 == [refs EXCEPT ![h] = 0]
  <2>3. ResumeParent(h, r0) /\ total' = total - 1
    BY <2>2 DEF NotifyOne
  <2>4. r0 \in [Job -> Nat] /\ \A k \in Job \ {h} : r0[k] = refs[k]
    BY DEF TypeOK
  <2>5. /\ Live' = Live \ {h} /\ ejs'[h] = "Free" /\ Cardinality(Live') = Cardinality(Live) - 1
        /\ ejs' \in [Job -> EJobState] /\ refs' \in [Job -> Nat] /\ waiting' \subseteq Job
        /\ waiting' = waiting \cup {k \in Job \ {h} : k = parent[h] /\ refs[k] = 1}
        /\ \A k \in Job : Children(k)' = Children(k) \ {h}
        /\ \A k \in Live \ {h} :
              /\ Cardinality(Children(k)') =
                    Cardinality(Children(k)) - IF k = parent[h] THEN 1 ELSE 0
              /\ refs'[k] = refs[k] - IF k = parent[h] THEN 1 ELSE 0
              /\ ejs'[k] = IF k = parent[h] /\ refs[k] = 1 THEN "Waiting" ELSE ejs[k]
              /\ k = parent[h] => /\ ejs[k] = "Suspended" /\ k # cur
                                  /\ refs[k] = 1 => Children(k)' = {} /\ ~Parked(k)
                                  /\ refs[k] # 1 => Children(k)' # {} \/ Parked(k)
    <3> HIDE DEF IInv, r0, h
    <3>1. \A k \in Job : k = cur => Children(k) = {}
      BY <1>0
    <3>2. h \in Live /\ Children(h) = {} /\ parent' = parent
      BY <1>0, <1>1, <2>1
    <3>3. QED
      BY <2>3, <2>4, <3>1, <3>2, ResumeFacts, Zenon
  <2> HIDE DEF r0
  <2>6. TypeOK'
    <3>1. total' \in Nat
      <4>1. total = Cardinality(Live) /\ Cardinality(Live) # 0
        BY <1>1, FiniteTree, FS_EmptySet DEF ListInv
      <4>2. QED
        BY <2>3, <4>1 DEF TypeOK
    <3>2. QED
      BY <1>0, <1>1, <2>5, <3>1 DEF TypeOK
  <2>7. QueueInv'
    <3> SUFFICES ASSUME NEW r \in Queue  PROVE QueueInv!(r)'
      BY DEF QueueInv
    <3>1. QueueInv!(r)
      BY DEF QueueInv
    <3>2. CASE r = q
      BY <1>0, <1>1, <2>5, <3>1, <3>2
    <3>3. CASE r # q
      BY <1>0, <1>1, <1>2, <2>5, <3>1, <3>3
    <3>4. QED
      BY <3>2, <3>3
  <2>8. CurInv'
    <3>1. cur \in Live \ {h} /\ ejs'[cur] = "Running" /\ Children(cur)' = {}
      BY <1>0, <1>6, <2>5
    <3>2. \A k \in Job : ejs'[k] = "Running" <=> k = cur'
      <4> SUFFICES ASSUME NEW k \in Job  PROVE ejs'[k] = "Running" <=> k = cur
        BY <1>0
      <4>1. CASE k = h
        BY <1>6, <2>5, <4>1
      <4>2. CASE k # h /\ k \in Live
        BY <1>0, <2>5, <4>2 DEF CurInv
      <4>3. CASE k \notin Live
        BY <1>0, <1>1, <2>5, <4>3 DEF Live
      <4>4. QED
        BY <4>1, <4>2, <4>3
    <3>3. \A k \in Job : k = cur => Children(k)' = {}
      BY <1>0, <2>5
    <3>4. cur \notin Range(queued'[q])
      BY <1>1, <2>1
    <3>5. QED
      BY <1>0, <3>2, <3>3, <3>4 DEF CurInv
  <2>9. LiveInv'
    <3> SUFFICES ASSUME NEW k \in Live \ {h}
                 PROVE  LiveInv!(k)'
      BY <2>5 DEF LiveInv
    <3>1. k \in Job \ {h} /\ LiveInv!(k) /\ parent[k] \in Job \cup {None}
      BY DEF Live, LiveInv, TypeOK
    <3>2. Parked(k)' = Parked(k)
      BY <1>3, <3>1
    <3>3. parent[k] # None => parent[k] \in Live \ {h} /\ ejs[parent[k]] = "Suspended" /\ k \in Children(parent[k])
      <4>1. k \in Children(parent[k])
        BY DEF Children
      <4>2. parent[k] # h /\ parent[k] # cur
        BY <1>0, <2>1, <4>1
      <4>3. QED
        BY <1>0, <3>1, <4>1, <4>2 DEF Live
    <3>4. parent[k] # None => ejs'[parent[k]] = "Suspended"
      <4> SUFFICES ASSUME NEW m \in Live \ {h}, m = parent[k], parent[k] # None
                   PROVE  ejs'[m] = "Suspended"
        BY <3>3
      <4>1. ejs[m] = "Suspended" /\ m \in Job /\ k \in Children(m)
        BY <3>3 DEF Live
      <4>2. k \in Children(m)'
        BY <2>5, <3>1, <4>1
      <4>3. QED
        BY <2>5, <4>1, <4>2
    <3>5. CASE k = parent[h]
      BY <1>0, <2>5, <3>1, <3>2, <3>4, <3>5
    <3>6. CASE k # parent[h]
      <4>1. ejs'[k] = ejs[k] /\ h \notin Children(k)
        BY <2>5, <3>6 DEF Children
      <4>2. Children(k)' = Children(k) \ {h}
        BY <2>5, <3>1
      <4>3. Children(k)' = Children(k)
        BY <4>1, <4>2
      <4>4. QED
        BY <1>0, <3>1, <3>2, <3>4, <4>1, <4>3
    <3>7. QED
      BY <3>5, <3>6
  <2>10. ListInv'
    <3>1. waiting' = {k \in Job : ejs'[k] = "Waiting"}
      <4> SUFFICES ASSUME NEW k \in Job  PROVE k \in waiting' <=> ejs'[k] = "Waiting"
        BY <2>5
      <4>1. k \in waiting <=> ejs[k] = "Waiting"
        BY DEF ListInv
      <4>2. CASE k = h
        BY <2>1, <2>5, <4>1, <4>2
      <4>3. CASE k # h /\ k \in Live
        BY <2>5, <4>1, <4>3
      <4>4. CASE k \notin Live
        <5>1. ejs[k] = "Free" /\ k \notin Live' /\ k # parent[h]
          <6>1. parent[h] \in Job => parent[h] \in Live
            BY <1>1, JobAssumption DEF LiveInv, Live, CurInv
          <6>2. QED
            BY <2>5, <4>4, <6>1 DEF Live
        <5>2. ejs'[k] = "Free"
          BY <2>5, <5>1 DEF Live
        <5>3. QED
          BY <2>5, <4>1, <5>1, <5>2
      <4>5. QED
        BY <4>2, <4>3, <4>4
    <3>2. QED
      BY <2>3, <2>5, <3>1, FiniteTree DEF ListInv
  <2>11. RefsExact'
    <3> SUFFICES ASSUME NEW k \in Live \ {h}
                 PROVE  refs'[k] = Cardinality(Children(k)') + ExecPin(k)' + QueuePin(k)'
      BY <2>5 DEF RefsExact
    <3>1. k \in Job \ {h} /\ refs[k] = Cardinality(Children(k)) + ExecPin(k) + QueuePin(k)
      BY DEF Live, RefsExact
    <3>2. MainPin(k)' = MainPin(k)
      BY <1>0, <1>1, <2>1, <3>1 DEF MainPin
    <3>3. ExecPin(k)' = ExecPin(k) /\ QueuePin(k)' = QueuePin(k)
      BY <1>0, <1>3, <3>1, <3>2 DEF ExecPin, QueuePin
    <3>4. Cardinality(Children(k)) \in Nat /\ QueuePin(k) \in {0, 1} /\ ExecPin(k) \in {0, 1}
      BY FiniteTree, PinTypes
    <3>5. QED
      BY <2>5, <3>1, <3>3, <3>4
  <2>12. QED
    BY <2>6, <2>7, <2>8, <2>9, <2>10, <2>11
<1>7. QED
  BY <1>5, <1>6

(* Complete and Release of the executed job keep the invariant. *)
LEMMA PostCompletedStep ==
    ASSUME IInv, PostCompleted
    PROVE  IInv'
<1> USE DEF IInv
<1> DEFINE r0 == [refs EXCEPT ![cur] = @ - 1]
<1>0. /\ cur \in Job /\ cur' = None /\ pc = "post" /\ pc' = "retrieve" /\ result
      /\ cur # None /\ Children(cur) = {} /\ cur \in Live /\ ejs[cur] = "Running"
      /\ refs[cur] = Cardinality(Children(cur)) + 1 + QueuePin(cur)
      /\ pjq[cur] # None => fCompleted[pjq[cur]] /\ queued[pjq[cur]] = <<>>
      /\ parent' = parent /\ pjq' = pjq /\ fresh' = fresh /\ level' = level
      /\ queueVars' = queueVars /\ result' = result /\ total' = total - 1
      /\ created' = created /\ stage' = stage /\ ResumeParent(cur, r0)
      /\ \A k \in Job : k # cur'
  BY CurIsRunning, JobAssumption DEF PostCompleted, CurInv
<1>1. r0 \in [Job -> Nat] /\ \A k \in Job \ {cur} : r0[k] = refs[k]
  <2>1. Cardinality(Children(cur)) \in Nat /\ QueuePin(cur) \in {0, 1}
    BY FiniteTree, PinTypes
  <2>2. refs[cur] - 1 \in Nat
    BY <1>0, <2>1
  <2>3. QED
    BY <1>0, <2>2 DEF TypeOK
<1>2. PICK j \in Job : j = cur
  BY <1>0
<1>3. /\ Live' = Live \ {j} /\ ejs'[j] = "Free" /\ Cardinality(Live') = Cardinality(Live) - 1
      /\ ejs' \in [Job -> EJobState] /\ refs' \in [Job -> Nat] /\ waiting' \subseteq Job
      /\ waiting' = waiting \cup {k \in Job \ {j} : k = parent[j] /\ refs[k] = 1}
      /\ \A k \in Job : Children(k)' = Children(k) \ {j}
      /\ \A k \in Live \ {j} :
            /\ Cardinality(Children(k)') =
                  Cardinality(Children(k)) - IF k = parent[j] THEN 1 ELSE 0
            /\ refs'[k] = refs[k] - IF k = parent[j] THEN 1 ELSE 0
            /\ ejs'[k] = IF k = parent[j] /\ refs[k] = 1 THEN "Waiting" ELSE ejs[k]
            /\ k = parent[j] => /\ ejs[k] = "Suspended" /\ k # cur
                                /\ refs[k] = 1 => Children(k)' = {} /\ ~Parked(k)
                                /\ refs[k] # 1 => Children(k)' # {} \/ Parked(k)
  <2> HIDE DEF IInv, r0
  <2>1. \A k \in Job : k = cur => Children(k) = {}
    BY <1>0
  <2>2. j \in Live /\ Children(j) = {} /\ parent' = parent /\ ResumeParent(j, r0)
    BY <1>0, <1>2
  <2>3. r0 \in [Job -> Nat] /\ \A k \in Job \ {j} : r0[k] = refs[k]
    BY <1>1, <1>2
  <2>4. QED
    BY <2>1, <2>2, <2>3, ResumeFacts, Zenon
<1> HIDE DEF r0
<1>4. \A k \in Job : Parked(k)' = Parked(k)
  BY <1>0 DEF Parked, queueVars
<1>5. ~Parked(j) /\ \A r \in Queue : j \notin Range(queued[r])
  <2>1. \A r \in Queue : j \notin Range(queued[r])
    <3> SUFFICES ASSUME NEW r \in Queue, j \in Range(queued[r])  PROVE FALSE
      OBVIOUS
    <3>1. pjq[j] = r /\ r # None
      BY JobAssumption DEF QueueInv
    <3>2. queued[r] = <<>>
      BY <1>0, <1>2, <3>1
    <3>3. QED
      BY <3>2, EmptyList
  <2>2. QED
    BY <2>1 DEF Parked, TypeOK
<1>6. TypeOK'
  <2>1. total' \in Nat
    <3>1. total = Cardinality(Live) /\ Cardinality(Live) # 0
      BY <1>0, FiniteTree, FS_EmptySet DEF ListInv
    <3>2. QED
      BY <1>0, <3>1 DEF TypeOK
  <2>2. QED
    BY <1>0, <1>3, <2>1 DEF TypeOK, queueVars, Pc
<1>7. QueueInv'
  <2> SUFFICES ASSUME NEW r \in Queue  PROVE QueueInv!(r)'
    BY DEF QueueInv
  <2>1. QueueInv!(r)
    BY DEF QueueInv
  <2>2. QED
    BY <1>0, <1>3, <1>5, <2>1 DEF queueVars
<1>8. CurInv'
  <2>1. \A k \in Job : ejs'[k] # "Running"
    <3> SUFFICES ASSUME NEW k \in Job  PROVE ejs'[k] # "Running"
      OBVIOUS
    <3>1. CASE k = j
      BY <1>3, <3>1
    <3>2. CASE k # j /\ k \in Live
      BY <1>2, <1>3, <3>2 DEF CurInv
    <3>3. CASE k \notin Live
      BY <1>3, <3>3 DEF Live
    <3>4. QED
      BY <3>1, <3>2, <3>3
  <2>2. QED
    BY <1>0, <2>1 DEF CurInv
<1>9. LiveInv'
  <2> SUFFICES ASSUME NEW k \in Live \ {j}
               PROVE  LiveInv!(k)'
    BY <1>3 DEF LiveInv
  <2>1. k \in Job \ {j} /\ LiveInv!(k) /\ parent[k] \in Job \cup {None} /\ k # cur
    BY <1>2 DEF Live, LiveInv, TypeOK
  <2>2. parent[k] # None => /\ parent[k] \in Live \ {j} /\ ejs[parent[k]] = "Suspended"
                            /\ k \in Children(parent[k])
    <3>1. k \in Children(parent[k])
      BY DEF Children
    <3>2. parent[k] # cur
      BY <1>0, <3>1
    <3>3. QED
      BY <1>0, <1>2, <2>1, <3>1, <3>2 DEF Live
  <2>3. parent[k] # None => ejs'[parent[k]] = "Suspended"
    <3> SUFFICES ASSUME NEW m \in Live \ {j}, m = parent[k], parent[k] # None
                 PROVE  ejs'[m] = "Suspended"
      BY <2>2
    <3>1. ejs[m] = "Suspended" /\ m \in Job /\ k \in Children(m)
      BY <2>2 DEF Live
    <3>2. k \in Children(m)'
      BY <1>3, <2>1, <3>1
    <3>3. QED
      BY <1>3, <3>1, <3>2
  <2>4. CASE k = parent[j]
    BY <1>0, <1>3, <1>4, <2>1, <2>3, <2>4
  <2>5. CASE k # parent[j]
    <3>1. ejs'[k] = ejs[k] /\ j \notin Children(k)
      BY <1>3, <2>5 DEF Children
    <3>2. Children(k)' = Children(k)
      <4>1. Children(k)' = Children(k) \ {j}
        BY <1>3, <2>1
      <4>2. QED
        BY <4>1, <3>1
    <3>3. QED
      BY <1>0, <1>4, <2>1, <2>3, <3>1, <3>2
  <2>6. QED
    BY <2>4, <2>5
<1>10. ListInv'
  <2>1. waiting' = {k \in Job : ejs'[k] = "Waiting"}
    <3> SUFFICES ASSUME NEW k \in Job  PROVE k \in waiting' <=> ejs'[k] = "Waiting"
      BY <1>3
    <3>1. k \in waiting <=> ejs[k] = "Waiting"
      BY DEF ListInv
    <3>2. CASE k = j
      BY <1>0, <1>2, <1>3, <3>1, <3>2
    <3>3. CASE k # j /\ k \in Live
      BY <1>3, <3>1, <3>3
    <3>4. CASE k \notin Live
      <4>1. ejs[k] = "Free" /\ k \notin Live' /\ k # parent[j]
        <5>1. parent[j] \in Job => parent[j] \in Live
          BY <1>0, <1>2, JobAssumption DEF LiveInv, Live, CurInv
        <5>2. QED
          BY <1>3, <3>4, <5>1 DEF Live
      <4>2. ejs'[k] = "Free"
        BY <1>3, <4>1 DEF Live
      <4>3. QED
        BY <1>3, <3>1, <4>1, <4>2
    <3>5. QED
      BY <3>2, <3>3, <3>4
  <2>2. QED
    BY <1>0, <1>3, <2>1, FiniteTree DEF ListInv
<1>11. RefsExact'
  <2> SUFFICES ASSUME NEW k \in Live \ {j}
               PROVE  refs'[k] = Cardinality(Children(k)') + ExecPin(k)' + QueuePin(k)'
    BY <1>3 DEF RefsExact
  <2>1. k \in Job \ {j} /\ refs[k] = Cardinality(Children(k)) + ExecPin(k) + QueuePin(k)
    BY DEF Live, RefsExact
  <2>2. ExecPin(k)' = ExecPin(k) /\ QueuePin(k)' = QueuePin(k)
    BY <1>0, <1>2, <1>4, <2>1 DEF ExecPin, QueuePin, MainPin
  <2>3. Cardinality(Children(k)) \in Nat /\ QueuePin(k) \in {0, 1} /\ ExecPin(k) \in {0, 1}
    BY FiniteTree, PinTypes
  <2>4. QED
    BY <1>3, <2>1, <2>2, <2>3
<1>12. QED
  BY <1>6, <1>7, <1>8, <1>9, <1>10, <1>11
-----------------------------------------------------------------------------
(* Every step of the protocol keeps the inductive invariant. *)
LEMMA StepIInv == IInv /\ [Next]_vars => IInv'
<1> SUFFICES ASSUME IInv, [Next]_vars  PROVE IInv'
  OBVIOUS
<1>1. CASE \E j \in Job, q \in Queue : ScheduleMainJob(j, q)
  BY <1>1, AddStep
<1>2. CASE FinalizeSearchStage
  BY <1>2, FinalizeStep
<1>3. CASE \E j \in Job : Retrieve(j)
  BY <1>3, RetrieveStep
<1>4. CASE Return
  BY <1>4, ReturnStep
<1>5. CASE ExecuteUnqueued \/ ExecuteMain \/ ExecuteQueued \/ ExecuteCompleted
  BY <1>5, ExecuteUnqueuedStep, ExecuteMainStep, ExecuteQueuedStep, ExecuteCompletedStep
<1>6. CASE \E j \in Job, q \in Queue \cup {None} : AddChild(j, q)
  BY <1>6, AddStep
<1>7. CASE BodySuspends \/ BodyCompletes
  BY <1>7, BodySuspendsStep, BodyCompletesStep
<1>8. CASE NotifyOne \/ NotifyDone
  BY <1>8, NotifyOneStep, NotifyDoneStep
<1>9. CASE PostCompleted \/ PostRunnable \/ PostSuspended
  BY <1>9, PostCompletedStep, PostNotCompletedStep
<1>10. CASE UNCHANGED vars
  <2> USE <1>10 DEF vars, jobVars, queueVars, loopVars
  <2>1. Live' = Live /\ \A k : Children(k)' = Children(k) /\ Parked(k)' = Parked(k)
    BY DEF Live, Children, Parked
  <2>2. \A k : ExecPin(k)' = ExecPin(k) /\ QueuePin(k)' = QueuePin(k)
    BY DEF ExecPin, QueuePin, Parked, MainPin
  <2>3. TypeOK' /\ QueueInv'
    BY <2>1 DEF IInv, TypeOK, QueueInv
  <2>4. CurInv' /\ LiveInv'
    BY <2>1 DEF IInv, CurInv, LiveInv
  <2>5. ListInv' /\ RefsExact'
    BY <2>1, <2>2 DEF IInv, ListInv, RefsExact
  <2>6. QED
    BY <2>3, <2>4, <2>5 DEF IInv
<1>11. QED
  BY <1>1, <1>2, <1>3, <1>4, <1>5, <1>6, <1>7, <1>8, <1>9, <1>10 DEF Next

(* The inductive invariant holds in every state of the job protocol. *)
THEOREM ProtocolInvariant == Spec => []IInv
  BY InitIInv, StepIInv, PTL DEF Spec

(* Type correctness of the scheduler's state: no reference counter and no job
   counter is ever decremented below zero. *)
THEOREM TypeCorrect == Spec => []TypeOK
<1>1. IInv => TypeOK
  BY DEF IInv
<1>2. QED
  BY <1>1, ProtocolInvariant, PTL

(* The reference counters are exact in every state. *)
THEOREM RefsAlwaysExact == Spec => []RefsExact
<1>1. IInv => RefsExact
  BY DEF IInv
<1>2. QED
  BY <1>1, ProtocolInvariant, PTL

(* The job PjRetrieve returns has no pending child and no reference. *)
THEOREM WaitingAlwaysRunnable == Spec => []WaitingIsRunnable
<1>1. IInv => WaitingIsRunnable
  <2> SUFFICES ASSUME IInv  PROVE WaitingIsRunnable
    OBVIOUS
  <2> USE DEF IInv
  <2>1. ASSUME NEW j \in waiting  PROVE Children(j) = {} /\ refs[j] = 0
    <3>1. j \in Job /\ ejs[j] = "Waiting" /\ j \in Live
      BY DEF ListInv, Live
    <3>2. Children(j) = {} /\ ~Parked(j) /\ j # cur
      BY <3>1 DEF LiveInv, CurInv
    <3>3. ExecPin(j) = 0 /\ QueuePin(j) = 0 /\ Cardinality(Children(j)) = 0
      BY <3>2, FS_EmptySet DEF ExecPin, QueuePin, MainPin
    <3>4. QED
      BY <3>1, <3>2, <3>3 DEF RefsExact
  <2>2. QED
    BY <2>1 DEF WaitingIsRunnable, ListInv
<1>2. QED
  BY <1>1, ProtocolInvariant, PTL

(* No wake-up is lost. *)
THEOREM NoLostWakeup == Spec => []SuspendedIsAwaited
<1>1. IInv => SuspendedIsAwaited
  <2> SUFFICES ASSUME IInv, NEW j \in Live, ejs[j] = "Suspended", Children(j) = {}
               PROVE  Parked(j) /\ owner[pjq[j]] \in Live \ {j}
    BY DEF SuspendedIsAwaited
  <2> USE DEF IInv
  <2>1. Parked(j)
    BY DEF LiveInv
  <2>2. pjq[j] \in Queue /\ queued[pjq[j]] # <<>> /\ owner[pjq[j]] # j /\ queued[pjq[j]] \in Seq(Job)
    BY <2>1, EmptyList DEF Parked, TypeOK, Live
  <2>3. CASE fCompleted[pjq[j]]
    <3>1. pc = "notify" /\ pjq[cur] = pjq[j]
      BY <2>2, <2>3 DEF QueueInv
    <3>2. owner[pjq[j]] = cur /\ cur \in Live
      BY <3>1, CurIsRunning DEF CurInv
    <3>3. QED
      BY <2>1, <2>2, <3>2
  <2>4. CASE ~fCompleted[pjq[j]]
    <3>1. owner[pjq[j]] = Head(queued[pjq[j]]) /\ Head(queued[pjq[j]]) \in Range(queued[pjq[j]])
      BY <2>2, <2>4, RangeEmpty DEF QueueInv
    <3>2. QED
      BY <2>1, <2>2, <3>1 DEF QueueInv
  <2>5. QED
    BY <2>3, <2>4
<1>2. QED
  BY <1>1, ProtocolInvariant, PTL

(* Nothing refers to a job that has been given back to the factory. *)
THEOREM ReleasedJobsUnused == Spec => []NoReleasedJobInUse
<1>1. IInv => NoReleasedJobInUse
  <2> SUFFICES ASSUME IInv  PROVE NoReleasedJobInUse
    OBVIOUS
  <2> USE DEF IInv
  <2>1. cur # None => ejs[cur] = "Running"
    BY DEF CurInv, TypeOK
  <2>2. \A q \in Queue : \A i \in DOMAIN queued[q] : queued[q][i] \in Live
    BY DEF QueueInv, Range
  <2>3. QED
    BY <2>1, <2>2 DEF NoReleasedJobInUse, LiveInv
<1>2. QED
  BY <1>1, ProtocolInvariant, PTL

(* A queue's operation is started at most once between two resets. *)
THEOREM QueueRunsOnce == Spec => []UniqueExecution
<1>1. IInv => UniqueExecution
  BY DEF IInv, QueueInv, UniqueExecution
<1>2. QED
  BY <1>1, ProtocolInvariant, PTL

(* Induction over the job tree is by a least counterexample. *)
LEMMA LeastNatural ==
    ASSUME NEW T, T \subseteq Nat, T # {}
    PROVE  \E x \in T : \A y \in T : x <= y
<1> DEFINE R == {ss \in Nat \X Nat : ss[1] < ss[2]}
<1>1. IsWellFoundedOn(R, Nat)
  BY ONLY NatLessThanWellFounded DEF OpToRel
<1>2. PICK x \in T : \A y \in T : ~ (<<y, x>> \in R)
  BY <1>1, WFMin
<1>3. ASSUME NEW y \in T  PROVE x <= y
  <2>1. x \in Nat /\ y \in Nat /\ <<y, x>> \in Nat \X Nat
    OBVIOUS
  <2>2. ~ (y < x)
    BY <1>2, <2>1
  <2>3. QED
    BY <2>1, <2>2
<1>4. QED
  BY <1>3

(* The level of a job is that of its queue or, without one, of its parent;
   children on queues are on lower levels. *)
LevelInv ==
    \A j \in Live :
       /\ pjq[j] # None => level[j] = Level[pjq[j]]
       /\ pjq[j] = None => parent[j] # None /\ level[j] = level[parent[j]]
       /\ pjq[j] # None /\ parent[j] # None => level[j] < level[parent[j]]

(* Chains of jobs without a queue end: they can be numbered downwards. *)
DepthInv ==
    \E d \in [Job -> 0..created] :
       \A j \in Live : pjq[j] = None => d[parent[j]] < d[j]

(* What is left when ExecuteJobs returns, made inductive. *)
DrainInv == LevelInv /\ DepthInv /\ DrainedOnReturn

(* A job structure in the pool is nobody's parent. *)
LEMMA NoChildOfFree ==
    ASSUME IInv, NEW j \in Job, ejs[j] = "Free", NEW c \in Live
    PROVE  parent[c] # j
<1>1. ejs[parent[c]] = "Suspended" \/ parent[c] = cur \/ parent[c] = None
  BY DEF IInv, LiveInv
<1>2. cur = j => ejs[j] = "Running"
  BY DEF IInv, CurInv
<1>3. QED
  BY <1>1, <1>2, JobAssumption

(* A new job is numbered above all others; nobody has it as its parent. *)
LEMMA DrainNew ==
    ASSUME IInv, AcyclicMemo, LevelInv, DepthInv,
           NEW j \in Job, NEW q \in Queue \cup {None}, NEW p \in Job \cup {None}, NEW lvl,
           Create(j, q, p, lvl), 
           p # None => p \in Live,
           q = None => p # None /\ lvl = level[p],
           q # None => lvl = Level[q] /\ (p # None => lvl < level[p])
    PROVE  LevelInv' /\ DepthInv'
<1>1. /\ Live' = Live \cup {j} /\ j \notin Live /\ p # j
      /\ ejs[j] = "Free"
      /\ created \in Nat /\ created' = created + 1
      /\ \A c \in Live : c # j /\ parent[c] # j
  <2>1. ejs[j] = "Free" /\ created \in Nat /\ created' = created + 1
    BY DEF IInv, TypeOK, Create
  <2>2. Live' = Live \cup {j} /\ j \notin Live /\ p # j
    BY <2>1, JobAssumption DEF IInv, TypeOK, Create, Live
  <2>3. \A c \in Live : c # j /\ parent[c] # j
    BY <2>1, <2>2, NoChildOfFree
  <2>4. QED
    BY <2>1, <2>2, <2>3
<1>2. /\ \A c \in Live : pjq'[c] = pjq[c] /\ parent'[c] = parent[c] /\ level'[c] = level[c]
      /\ pjq'[j] = q /\ parent'[j] = p /\ level'[j] = lvl
      /\ \A c \in Job : c # j => level'[c] = level[c]
  BY <1>1 DEF IInv, TypeOK, Create, Live
<1>3. \A c \in Live : parent[c] # None => parent[c] \in Job
  BY DEF IInv, TypeOK, Live
<1>4. LevelInv'
  <2> SUFFICES ASSUME NEW c \in Live'
               PROVE  /\ pjq'[c] # None => level'[c] = Level[pjq'[c]]
                      /\ pjq'[c] = None => parent'[c] # None /\ level'[c] = level'[parent'[c]]
                      /\ pjq'[c] # None /\ parent'[c] # None => level'[c] < level'[parent'[c]]
    BY DEF LevelInv
  <2>1. CASE c = j
    BY <1>1, <1>2, <2>1
  <2>2. CASE c # j
    BY <1>1, <1>2, <1>3, <2>2 DEF LevelInv
  <2>3. QED
    BY <2>1, <2>2
<1>5. DepthInv'
  <2>1. PICK d \in [Job -> 0..created] : \A c \in Live : pjq[c] = None => d[parent[c]] < d[c]
    BY DEF DepthInv
  <2> DEFINE e == [d EXCEPT ![j] = created + 1]
  <2>2. e \in [Job -> 0..created']
    BY <1>1, <2>1
  <2>3. ASSUME NEW c \in Live', pjq'[c] = None  PROVE e[parent'[c]] < e[c]
    <3>1. CASE c = j
      <4>1. parent'[c] = p /\ p \in Job /\ p # j
        BY <1>1, <1>2, <2>3, <3>1 DEF Live
      <4>2. e[p] = d[p] /\ e[c] = created + 1 /\ d[p] \in 0..created
        BY <2>1, <3>1, <4>1
      <4>3. QED
        BY <1>1, <4>1, <4>2
    <3>2. CASE c # j
      <4>1. c \in Live /\ parent[c] \in Job /\ parent[c] # j /\ c \in Job
        BY <1>1, <1>2, <1>3, <2>3, <3>2 DEF LevelInv, Live
      <4>2. e[parent[c]] = d[parent[c]] /\ e[c] = d[c]
        BY <2>1, <3>2, <4>1
      <4>3. QED
        BY <1>2, <2>1, <2>3, <4>1, <4>2
    <3>3. QED
      BY <3>1, <3>2
  <2>4. QED
    BY <2>2, <2>3 DEF DepthInv
<1>6. QED
  BY <1>4, <1>5

(* Jobs that complete take nothing away from the levels of the others. *)
LEMMA DrainOld ==
    ASSUME LevelInv, DepthInv, Live' \subseteq Live, UNCHANGED <<pjq, parent, level, created>>
    PROVE  LevelInv' /\ DepthInv'
BY DEF LevelInv, DepthInv

(* CScheduler::PjRetrieve finds nothing only when no job is left: of the jobs
   on the lowest level, take the deepest that is not parked on a queue; it is
   suspended, so it waits for a child, which is either lower or deeper. *)
LEMMA EmptyListIsDrained ==
    ASSUME IInv, LevelInv, DepthInv, pc = "retrieve", waiting = {}
    PROVE  Live = {}
<1> SUFFICES ASSUME Live # {}  PROVE FALSE
  OBVIOUS
<1> USE DEF IInv
<1>1. cur = None /\ \A j \in Live : ejs[j] = "Suspended" /\ j \in Job
  <2>1. cur = None
    BY DEF CurInv
  <2>2. ASSUME NEW j \in Live  PROVE ejs[j] = "Suspended"
    <3>1. j \in Job /\ ejs[j] # "Waiting" /\ ejs[j] # "Free" /\ ejs[j] \in EJobState
      BY DEF Live, ListInv, TypeOK
    <3>2. ejs[j] # "Running"
      BY <2>1, <3>1, JobAssumption DEF CurInv
    <3>3. QED
      BY <3>1, <3>2 DEF EJobState
  <2>3. QED
    BY <2>1, <2>2 DEF Live
<1>2. PICK l \in {level[j] : j \in Live} : \A k \in {level[j] : j \in Live} : l <= k
  <2>1. \A j \in Live : level[j] \in Nat
    BY DEF TypeOK, Live
  <2>2. {level[j] : j \in Live} \subseteq Nat /\ {level[j] : j \in Live} # {}
    BY <2>1
  <2>3. QED
    BY <2>2, LeastNatural
<1> DEFINE N == {j \in Live : level[j] = l /\ ~Parked(j)}
<1>3. N # {}
  <2>1. PICK j \in Live : level[j] = l
    OBVIOUS
  <2>2. CASE Parked(j)
    <3>1. pjq[j] \in Queue /\ queued[pjq[j]] # <<>> /\ owner[pjq[j]] # j /\ queued[pjq[j]] \in Seq(Job)
      BY <2>2, EmptyList DEF Parked, TypeOK, Live
    <3>2. ~fCompleted[pjq[j]]
      BY <3>1 DEF QueueInv
    <3> DEFINE o == owner[pjq[j]]
    <3>3. o = Head(queued[pjq[j]]) /\ o \in Range(queued[pjq[j]])
      BY <3>1, <3>2, RangeEmpty DEF QueueInv
    <3>4. o \in Live /\ pjq[o] = pjq[j]
      BY <3>1, <3>3 DEF QueueInv
    <3>5. ~Parked(o) /\ level[o] = l
      BY <2>1, <3>1, <3>4, JobAssumption DEF Parked, LevelInv
    <3>6. QED
      BY <3>4, <3>5
  <2>3. QED
    BY <2>1, <2>2
<1>4. PICK d \in [Job -> 0..created] : \A j \in Live : pjq[j] = None => d[parent[j]] < d[j]
  BY DEF DepthInv
<1>5. PICK j \in N : \A c \in N : d[c] <= d[j]
  <2> DEFINE T == {created - d[j] : j \in N}
  <2>1. \A j \in N : d[j] \in 0..created /\ created \in Nat
    BY <1>1, <1>4 DEF TypeOK
  <2>2. T \subseteq Nat /\ T # {}
    BY <1>3, <2>1
  <2>3. PICK x \in T : \A y \in T : x <= y
    BY <2>2, LeastNatural
  <2>4. PICK j \in N : x = created - d[j]
    BY <2>3
  <2>5. ASSUME NEW c \in N  PROVE d[c] <= d[j]
    <3>1. created - d[j] <= created - d[c]
      BY <2>3, <2>4
    <3>2. QED
      BY <2>1, <3>1
  <2>6. QED
    BY <2>5
<1>6. PICK c \in Live : parent[c] = j
  BY <1>1, <1>5 DEF LiveInv, Children
<1>7. l <= level[c] /\ level[c] \in Nat /\ level[j] = l /\ l \in Nat /\ parent[c] # None
  BY <1>1, <1>2, <1>5, <1>6, JobAssumption DEF TypeOK
<1>8. pjq[c] = None /\ level[c] = l
  BY <1>6, <1>7 DEF LevelInv
<1>9. c \in N /\ d[j] < d[c]
  BY <1>4, <1>6, <1>8 DEF Parked
<1>10. d[c] \in Nat /\ d[j] \in Nat
  BY <1>1, <1>4, <1>6, <1>5 DEF TypeOK
<1>11. QED
  BY <1>5, <1>9, <1>10

(* Every step keeps the levels, and Run returns with nothing left behind. *)
LEMMA DrainStep == ASSUME AcyclicMemo, IInv, DrainInv, [Next]_vars PROVE DrainInv'
<1> USE DEF DrainInv
<1>1. ASSUME NEW j \in Job, NEW q \in Queue, ScheduleMainJob(j, q)  PROVE DrainInv'
  <2>1. Create(j, q, None, Level[q]) /\ pc' = "retrieve"
    BY <1>1 DEF ScheduleMainJob
  <2>2. LevelInv' /\ DepthInv'
    BY <2>1, DrainNew, JobAssumption
  <2>3. QED
    BY <2>1, <2>2 DEF DrainedOnReturn
<1>2. ASSUME NEW j \in Job, NEW q \in Queue \cup {None}, AddChild(j, q)  PROVE DrainInv'
  <2>1. Create(j, q, cur, IF q = None THEN level[cur] ELSE Level[q]) /\ pc' = "body"
    BY <1>2 DEF AddChild, loopVars
  <2>2. cur \in Live /\ cur \in Job
    BY <1>2, CurIsRunning DEF AddChild, IInv
  <2>3. q # None => Level[q] < level[cur]
    BY <1>2 DEF AddChild
  <2>4. LevelInv' /\ DepthInv'
    BY <2>1, <2>2, <2>3, DrainNew, JobAssumption
  <2>5. QED
    BY <2>1, <2>4 DEF DrainedOnReturn
<1>3. CASE FinalizeSearchStage
  <2>1. pc = "idle" /\ Live = {} /\ Live' = {} /\ created' = 0 /\ pc' = "idle" /\ total' = total
    BY <1>3 DEF FinalizeSearchStage, DrainedOnReturn, Live, jobVars, loopVars
  <2>2. [j \in Job |-> 0] \in [Job -> 0..created']
    BY <2>1
  <2>3. QED
    BY <2>1, <2>2 DEF LevelInv, DepthInv, DrainedOnReturn
<1>4. CASE Return
  <2>1. Live = {} /\ Live' = Live /\ total' = total /\ total = 0
    BY <1>4, EmptyListIsDrained, FS_EmptySet DEF Return, Live, jobVars, IInv, ListInv
  <2>2. LevelInv' /\ DepthInv'
    BY <1>4, <2>1, DrainOld DEF Return, jobVars
  <2>3. QED
    BY <2>1, <2>2 DEF DrainedOnReturn
<1>5. CASE UNCHANGED vars
  <2>1. LevelInv' /\ DepthInv'
    BY <1>5, DrainOld DEF vars, jobVars, Live
  <2>2. QED
    BY <1>5, <2>1 DEF DrainedOnReturn, vars, jobVars, loopVars, Live
<1>6. ASSUME \/ \E j \in Job : Retrieve(j)
             \/ ExecuteUnqueued \/ ExecuteMain \/ ExecuteQueued \/ ExecuteCompleted
             \/ BodySuspends \/ BodyCompletes \/ NotifyOne \/ NotifyDone
             \/ PostCompleted \/ PostRunnable \/ PostSuspended
      PROVE  DrainInv'
  <2>1. UNCHANGED <<pjq, parent, level, created>> /\ pc' # "idle"
    BY <1>6 DEF Retrieve, ExecuteUnqueued, ExecuteMain, ExecuteQueued, ExecuteCompleted,
         BodySuspends, BodyCompletes, NotifyOne, NotifyDone, PostCompleted, PostRunnable,
         PostSuspended, BeginBody, jobVars, loopVars
  <2>2. Live' \subseteq Live
    <3>1. CASE \/ ExecuteUnqueued \/ ExecuteMain \/ ExecuteQueued \/ ExecuteCompleted
               \/ BodySuspends \/ BodyCompletes \/ NotifyDone
      BY <3>1 DEF ExecuteUnqueued, ExecuteMain, ExecuteQueued, ExecuteCompleted,
           BodySuspends, BodyCompletes, NotifyDone, jobVars, Live
    <3>2. CASE \E j \in Job : Retrieve(j)
      BY <3>2 DEF Retrieve, IInv, TypeOK, ListInv, Live
    <3>3. CASE PostRunnable \/ PostSuspended
      BY <3>3, CurIsRunning DEF PostRunnable, PostSuspended, IInv, TypeOK, Live
    <3>4. ASSUME NEW j \in Live, NEW r, ResumeParent(j, r)  PROVE Live' \subseteq Live
      <4>1. parent[j] # None => parent[j] \in Live
        BY CurIsRunning DEF IInv, LiveInv, TypeOK, Live, CurInv
      <4>2. QED
        BY <3>4, <4>1 DEF ResumeParent, IInv, TypeOK, Live
    <3>5. CASE NotifyOne
      <4>1. pjq[cur] \in Queue
        BY <3>5, CurIsRunning DEF NotifyOne, IInv, TypeOK, CurInv
      <4>2. Head(queued[pjq[cur]]) \in Live
        BY <3>5, <4>1, RangeEmpty DEF NotifyOne, IInv, TypeOK, QueueInv
      <4>3. QED
        BY <3>4, <3>5, <4>2 DEF NotifyOne, Live
    <3>6. CASE PostCompleted
      BY <3>4, <3>6, CurIsRunning DEF PostCompleted
    <3>7. QED
      BY <1>6, <3>1, <3>2, <3>3, <3>5, <3>6
  <2>3. LevelInv' /\ DepthInv'
    BY <2>1, <2>2, DrainOld
  <2>4. QED
    BY <2>1, <2>3 DEF DrainedOnReturn
<1>7. QED
  BY <1>1, <1>2, <1>3, <1>4, <1>5, <1>6 DEF Next

(* The levels and the depths of jobs are kept. *)
LEMMA DrainInvariant == ASSUME AcyclicMemo PROVE Spec => []DrainInv
<1>1. Init => DrainInv
  <2> SUFFICES ASSUME Init PROVE DrainInv
    OBVIOUS
  <2>1. Live = {} /\ total = 0 /\ created = 0
    BY DEF Init, Live
  <2>2. [j \in Job |-> 0] \in [Job -> 0..created]
    BY <2>1
  <2>3. QED
    BY <2>1, <2>2 DEF DrainInv, LevelInv, DepthInv, DrainedOnReturn
<1>2. IInv /\ DrainInv /\ [Next]_vars => DrainInv'
  BY DrainStep
<1>3. QED
  BY <1>1, <1>2, ProtocolInvariant, PTL DEF Spec

(* When the loop of CScheduler::ExecuteJobs returns, no job is left waiting,
   suspended or on a queue, whatever the order in which jobs were retrieved, as
   long as jobs add children on queues of lower groups only. *)
THEOREM LoopDrains == ASSUME AcyclicMemo PROVE Spec => []DrainedOnReturn
<1>1. DrainInv => DrainedOnReturn
  BY DEF DrainInv
<1>2. QED
  BY <1>1, DrainInvariant, PTL

(* CScheduler::Complete and CJobQueue::NotifyCompleted release a job only when
   its children are done and its queue, if it has one, is completed. *)
THEOREM CompletionOrder == Spec => CompletesInOrder
<1> DEFINE A == \A j \in Job : ejs[j] # "Free" /\ ejs'[j] = "Free" =>
                  /\ Children(j) = {}
                  /\ pjq[j] # None => fCompleted[pjq[j]]
                  /\ ejs[j] \in {"Running", "Suspended"}
<1>1. ASSUME IInv, Next  PROVE A
  <2> SUFFICES ASSUME NEW j \in Job, ejs[j] # "Free", ejs'[j] = "Free"
               PROVE  /\ Children(j) = {}
                      /\ pjq[j] # None => fCompleted[pjq[j]]
                      /\ ejs[j] \in {"Running", "Suspended"}
    OBVIOUS
  <2> USE <1>1 DEF IInv
  <2>1. PostCompleted \/ NotifyOne
    BY DEF Next, ScheduleMainJob, Create, FinalizeSearchStage, Return, AddChild,
         Retrieve, ExecuteUnqueued, ExecuteMain, ExecuteQueued, ExecuteCompleted, BeginBody,
         BodySuspends, BodyCompletes, NotifyDone, PostRunnable, PostSuspended, jobVars, TypeOK
  <2>2. CASE PostCompleted
    <3>1. j = cur
      BY <2>2 DEF PostCompleted, ResumeParent, TypeOK
    <3>2. QED
      BY <2>2, <3>1 DEF PostCompleted, CurInv
  <2>3. CASE NotifyOne
    <3> DEFINE q == pjq[cur]
    <3>1. q \in Queue /\ cur \in Job /\ fCompleted[q] /\ owner[q] = cur /\ q # None
      BY <2>3, CurIsRunning, JobAssumption DEF NotifyOne, TypeOK, CurInv
    <3>2. j = Head(queued[q]) /\ refs[j] = 1
      BY <2>3, <3>1, SMTT(30) DEF NotifyOne, ResumeParent, TypeOK
    <3>3. j \in Range(queued[q]) /\ j \in Live /\ pjq[j] = q
      BY <2>3, <3>1, <3>2, RangeEmpty DEF NotifyOne, TypeOK, QueueInv
    <3>4. j # cur
      <4> SUFFICES ASSUME j = cur  PROVE FALSE
        OBVIOUS
      <4>1. ExecPin(j) = 1 /\ QueuePin(j) = 1
        BY <2>3, <3>1, <3>3 DEF ExecPin, QueuePin, MainPin, NotifyOne
      <4>2. Cardinality(Children(j)) \in Nat
        BY FiniteTree, FS_CardinalityType
      <4>3. QED
        BY <3>2, <3>3, <4>1, <4>2 DEF RefsExact
    <3>5. Parked(j)
      BY <3>1, <3>3, <3>4 DEF Parked
    <3>6. QED
      BY <3>1, <3>3, <3>4, <3>5 DEF LiveInv
  <2>4. QED
    BY <2>1, <2>2, <2>3
<1>2. IInv /\ [Next]_vars => [A]_vars
  BY <1>1
<1>3. QED
  BY <1>2, ProtocolInvariant, PTL DEF Spec, CompletesInOrder
-----------------------------------------------------------------------------
(* The waiting list. *)

(* CSyncList::Push adds one element at the head. *)
LEMMA PushHead ==
    ASSUME NEW s \in Seq(Job), NEW x \in Job, NEW t, t = <<x>> \o s
    PROVE  /\ t \in Seq(Job) /\ t # <<>> /\ Len(t) = Len(s) + 1 /\ Len(s) \in Nat
           /\ DOMAIN t = 1 .. Len(s) + 1 /\ DOMAIN s = 1 .. Len(s)
           /\ t[1] = x /\ \A i \in 1 .. Len(s) : t[i + 1] = s[i]
           /\ \A i \in 2 .. Len(s) + 1 : t[i] = s[i - 1]
           /\ Range(t) = Range(s) \cup {x}
           /\ Distinct(s) /\ x \notin Range(s) => Distinct(t)
<1>1. /\ t \in Seq(Job) /\ t # <<>> /\ Len(t) = Len(s) + 1 /\ Len(s) \in Nat
      /\ DOMAIN t = 1 .. Len(s) + 1 /\ DOMAIN s = 1 .. Len(s)
      /\ t[1] = x /\ \A i \in 1 .. Len(s) : t[i + 1] = s[i]
  OBVIOUS
<1>2. \A i \in 2 .. Len(s) + 1 : t[i] = s[i - 1] /\ i - 1 \in 1 .. Len(s)
  <2> SUFFICES ASSUME NEW i \in 2 .. Len(s) + 1  PROVE t[i] = s[i - 1] /\ i - 1 \in 1 .. Len(s)
    OBVIOUS
  <2>1. i - 1 \in 1 .. Len(s) /\ (i - 1) + 1 = i
    BY <1>1
  <2>2. QED
    BY <1>1, <2>1
<1>3. \A i \in DOMAIN t : i = 1 \/ i \in 2 .. Len(s) + 1
  BY <1>1
<1>4. \A i \in 1 .. Len(s) : i + 1 \in DOMAIN t
  BY <1>1
<1>5. Range(t) = Range(s) \cup {x}
  <2>1. ASSUME NEW y \in Range(t)  PROVE y \in Range(s) \cup {x}
    BY <1>1, <1>2, <1>3 DEF Range
  <2>2. x \in Range(t)
    BY <1>1, <1>3 DEF Range
  <2>3. ASSUME NEW y \in Range(s)  PROVE y \in Range(t)
    <3>1. PICK i \in 1 .. Len(s) : y = s[i]
      BY <1>1 DEF Range
    <3>2. t[i + 1] = y /\ i + 1 \in DOMAIN t
      BY <1>1, <1>4, <3>1
    <3>3. QED
      BY <3>2 DEF Range
  <2>4. QED
    BY <2>1, <2>2, <2>3
<1>6. ASSUME Distinct(s), x \notin Range(s)  PROVE Distinct(t)
  <2> SUFFICES ASSUME NEW i \in DOMAIN t, NEW k \in DOMAIN t, t[i] = t[k]  PROVE i = k
    BY DEF Distinct
  <2>1. \A n \in 2 .. Len(s) + 1 : t[n] # x
    <3>1. \A n \in 1 .. Len(s) : s[n] # x
      BY <1>1, <1>6 DEF Range
    <3>2. QED
      BY <1>2, <3>1
  <2>2. CASE i = 1 \/ k = 1
    BY <1>1, <1>3, <2>1, <2>2
  <2>3. CASE i \in 2 .. Len(s) + 1 /\ k \in 2 .. Len(s) + 1
    <3>1. s[i - 1] = s[k - 1] /\ i - 1 \in DOMAIN s /\ k - 1 \in DOMAIN s
      BY <1>1, <1>2, <2>3
    <3>2. i - 1 = k - 1
      BY <1>6, <3>1 DEF Distinct
    <3>3. QED
      BY <1>1, <2>3, <3>2
  <2>4. QED
    BY <1>3, <2>2, <2>3
<1>7. QED
  BY <1>1, <1>2, <1>5, <1>6

(* CSyncList::Pop takes the head away. *)
LEMMA PopHead ==
    ASSUME NEW s \in Seq(Job), s # <<>>, Distinct(s)
    PROVE  /\ Tail(s) \in Seq(Job) /\ Distinct(Tail(s)) /\ Head(s) = s[1] /\ s[1] \in Job
           /\ Range(Tail(s)) = Range(s) \ {s[1]} /\ s[1] \in Range(s) /\ 1 \in DOMAIN s
           /\ \A i \in DOMAIN Tail(s) : i + 1 \in DOMAIN s /\ Tail(s)[i] = s[i + 1]
           /\ DOMAIN s \subseteq Nat /\ DOMAIN Tail(s) \subseteq Nat
           /\ \A i \in DOMAIN s : i >= 1
<1>1. /\ Len(s) \in Nat \ {0} /\ DOMAIN s = 1 .. Len(s) /\ DOMAIN Tail(s) = 1 .. Len(s) - 1
      /\ Head(s) = s[1] /\ \A i \in 1 .. Len(s) - 1 : Tail(s)[i] = s[i + 1]
  OBVIOUS
<1>2. QED
  BY <1>1, RangeTail

(* the list as LifoTypeOK describes it *)
ListOK ==
    /\ listjlWaiting \in Seq(Job)
    /\ Range(listjlWaiting) = waiting
    /\ Distinct(listjlWaiting)

(* A step that schedules nothing leaves the list alone. *)
LEMMA PushNothing == ASSUME Push, waiting' \subseteq waiting  PROVE listjlWaiting' = listjlWaiting
BY DEF Push

(* A step that schedules x puts it at the head. *)
LEMMA PushOne ==
    ASSUME Push, ListOK, NEW x \in Job, x \notin waiting, waiting' = waiting \cup {x}
    PROVE  /\ listjlWaiting' = <<x>> \o listjlWaiting
           /\ ListOK'
<1>1. (CHOOSE j \in waiting' : j \notin waiting) = x
  OBVIOUS
<1>2. listjlWaiting' = <<x>> \o listjlWaiting
  BY <1>1 DEF Push
<1>3. QED
  BY <1>2, PushHead DEF ListOK

(* PjRetrieve takes the head, and what is left is still the waiting set. *)
LEMMA PopOne ==
    ASSUME Pop, ListOK
    PROVE  /\ listjlWaiting # <<>> /\ listjlWaiting[1] \in Job /\ listjlWaiting[1] \in waiting
           /\ Retrieve(listjlWaiting[1]) /\ listjlWaiting' = Tail(listjlWaiting)
           /\ ListOK'
<1>1. listjlWaiting \in Seq(Job) /\ listjlWaiting # <<>> /\ Distinct(listjlWaiting)
  BY DEF Pop, ListOK
<1>2. Head(listjlWaiting) = listjlWaiting[1]
  BY <1>1, PopHead
<1>3. Retrieve(listjlWaiting[1]) /\ listjlWaiting' = Tail(listjlWaiting)
  BY <1>2 DEF Pop
<1>4. listjlWaiting[1] \in Job /\ listjlWaiting[1] \in waiting
  BY <1>1, PopHead DEF ListOK
<1>5. waiting' = waiting \ {listjlWaiting[1]}
  BY <1>3 DEF Retrieve
<1>6. QED
  BY <1>1, <1>3, <1>4, <1>5, PopHead DEF ListOK

(* A completed job reschedules its parent if it was the last child. *)
LEMMA ResumeShape ==
    ASSUME IInv, NEW j \in Live, NEW r, ResumeParent(j, r)
    PROVE  \/ waiting' = waiting
           \/ /\ parent[j] \in Job /\ parent[j] \notin waiting
              /\ waiting' = waiting \cup {parent[j]}
<1>1. parent[j] = None \/ parent[j] \in Job
  BY DEF IInv, TypeOK, Live
<1>2. parent[j] # None => parent[j] \notin waiting
  BY DEF IInv, LiveInv, ListInv, CurInv
<1>3. QED
  BY <1>1, <1>2 DEF ResumeParent

(* Schedule is called at most once in a step. *)
LEMMA ListStep == ASSUME IInv, ListOK, [LifoNext]_lifoVars  PROVE ListOK'
<1> USE DEF IInv
<1>1. ASSUME Push, waiting' = waiting  PROVE ListOK'
  BY <1>1, PushNothing DEF ListOK
<1>2. CASE Pop
  BY <1>2, PopOne
<1>3. CASE /\ Push
           /\ \/ Return \/ ExecuteUnqueued \/ ExecuteMain \/ ExecuteQueued \/ ExecuteCompleted
              \/ NotifyDone \/ PostSuspended \/ FinalizeSearchStage \/ BodySuspends \/ BodyCompletes
  BY <1>1, <1>3 DEF Return, ExecuteUnqueued, ExecuteMain, ExecuteQueued, ExecuteCompleted,
       NotifyDone, PostSuspended, FinalizeSearchStage, BodySuspends, BodyCompletes
<1>4. ASSUME NEW j \in Live, NEW r, ResumeParent(j, r), Push  PROVE ListOK'
  BY <1>1, <1>4, ResumeShape, PushOne
<1>5. CASE NotifyOne /\ Push
  <2>1. pjq[cur] \in Queue
    BY <1>5, CurIsRunning DEF NotifyOne, TypeOK, CurInv
  <2>2. Head(queued[pjq[cur]]) \in Live
    BY <1>5, <2>1, RangeEmpty DEF NotifyOne, TypeOK, QueueInv
  <2>3. QED
    BY <1>1, <1>4, <1>5, <2>2 DEF NotifyOne
<1>6. CASE PostCompleted /\ Push
  BY <1>4, <1>6, CurIsRunning DEF PostCompleted
<1>7. CASE PostRunnable /\ Push
  <2>1. cur \in Job /\ ejs[cur] = "Running" /\ cur \notin waiting
    BY <1>7, CurIsRunning DEF PostRunnable, ListInv, CurInv
  <2>2. QED
    BY <1>7, <2>1, PushOne DEF PostRunnable
<1>8. ASSUME NEW j \in Job, NEW q, NEW p, NEW lvl, Create(j, q, p, lvl), Push  PROVE ListOK'
  <2>1. j \notin waiting
    BY <1>8 DEF Create, ListInv
  <2>2. QED
    BY <1>8, <2>1, PushOne DEF Create
<1>9. CASE (\E j \in Job, q \in Queue : ScheduleMainJob(j, q)) /\ Push
  BY <1>8, <1>9 DEF ScheduleMainJob
<1>10. CASE (\E j \in Job, q \in Queue \cup {None} : AddChild(j, q)) /\ Push
  BY <1>8, <1>10 DEF AddChild
<1>11. CASE UNCHANGED lifoVars
  BY <1>11 DEF ListOK, lifoVars, vars
<1>12. QED
  BY <1>2, <1>3, <1>5, <1>6, <1>7, <1>9, <1>10, <1>11 DEF LifoNext, LoopStep

(* Every step of the scheduler is a step of the protocol. *)
LEMMA LifoStep == ASSUME ListOK, [LifoNext]_lifoVars  PROVE [Next]_vars
<1>1. CASE Pop
  <2>1. PICK j \in Job : Retrieve(j)
    BY <1>1, PopOne
  <2>2. QED
    BY <2>1 DEF Next
<1>2. CASE UNCHANGED lifoVars
  BY <1>2 DEF lifoVars
<1>3. QED
  BY <1>1, <1>2 DEF LifoNext, LoopStep, Next

(* The constructor of CScheduler starts with an empty list. *)
LEMMA ListInit == LifoInit => ListOK
BY EmptyList DEF LifoInit, Init, ListOK

(* CScheduler keeps the job protocol although it fixes the order: the list of
   waiting jobs is the waiting set. *)
LEMMA LifoInductive == LifoSpec => [](IInv /\ ListOK)
<1>1. LifoInit => IInv /\ ListOK
  BY ListInit, InitIInv DEF LifoInit
<1>2. IInv /\ ListOK /\ [LifoNext]_lifoVars => (IInv /\ ListOK)'
  BY ListStep, LifoStep, StepIInv
<1>3. QED
  BY <1>1, <1>2, PTL DEF LifoSpec

(* CScheduler implements the job protocol. *)
THEOREM LifoImplementsProtocol == LifoSpec => Spec
<1>1. LifoInit => Init
  BY DEF LifoInit
<1>2. IInv /\ ListOK /\ [LifoNext]_lifoVars => [Next]_vars
  BY LifoStep
<1>3. QED
  BY <1>1, <1>2, LifoInductive, PTL DEF LifoSpec, Spec

-----------------------------------------------------------------------------
(* The shape of the search.  Jobs are at depths of the job tree; as long as no
   job is parked, the suspended ones are a path from the main job down, with
   one job at each depth, and the list has the deepest jobs first. *)

(* the suspended jobs *)
Susp == {j \in Job : ejs[j] = "Suspended"}

(* nobody waits on a job queue *)
Unparked == \A j \in Live : ~Parked(j)

(* somebody waits on the queue of its own ancestor *)
Cycle == \E j \in Live : Parked(j) /\ owner[pjq[j]] \in Ancestors(j)

(* d is the depth in the tree of jobs *)
DepthOf(d) == \A j \in Live : d[j] = IF parent[j] = None THEN 0 ELSE d[parent[j]] + 1

(* one suspended job at each depth, above the job that executes or is next *)
PathOf(d) ==
    /\ \A a, b \in Susp : d[a] = d[b] => a = b
    /\ cur # None => \A a \in Susp : d[a] < d[cur]
    /\ cur = None => \A a \in Susp : listjlWaiting # <<>> /\ d[a] < d[listjlWaiting[1]]

(* the waiting jobs, the deepest first *)
OrderOf(d) ==
    /\ cur # None => \A j \in waiting : d[j] <= d[cur] + 1
    /\ \A i, k \in DOMAIN listjlWaiting : i < k => d[listjlWaiting[i]] >= d[listjlWaiting[k]]

(* A job that has started waits only to be retrieved next. *)
FreshInv ==
    /\ \A j \in waiting :
          ~fresh[j] => pc = "retrieve" /\ listjlWaiting # <<>> /\ j = listjlWaiting[1]
    /\ pc = "idle" => Live = {}

(* a depth-first search at depths d *)
Dfs(d) == DepthOf(d) /\ PathOf(d) /\ OrderOf(d) /\ FreshInv

(* Depth first, until a job runs into its own ancestor. *)
DfsInv == Cycle \/ (Unparked /\ \E d \in [Job -> Nat] : Dfs(d))

(* The parents of live jobs are live, those of the executing one suspended. *)
LEMMA LiveParents ==
    ASSUME IInv, NEW c \in Live, parent[c] # None
    PROVE  /\ parent[c] \in Live /\ parent[c] \in Job
           /\ parent[c] \in Susp \/ (parent[c] = cur /\ cur # None)
<1> USE DEF IInv
<1>1. parent[c] \in Job
  BY DEF TypeOK, Live
<1>2. ejs[parent[c]] = "Suspended" \/ parent[c] = cur
  BY DEF LiveInv
<1>3. parent[c] = cur => ejs[cur] = "Running"
  BY <1>1 DEF CurInv
<1>4. QED
  BY <1>1, <1>2, <1>3 DEF Live, Susp

(* An ancestor of a live job has a child. *)
LEMMA AncestorHasChild ==
    ASSUME IInv, NEW j \in Live, NEW o \in Ancestors(j)
    PROVE  Children(o) # {}
<1> SUFFICES ASSUME Children(o) = {}  PROVE FALSE
  OBVIOUS
<1> DEFINE S == Live \ {o}
<1>1. S \in SUBSET Job
  BY DEF Live
<1>2. ASSUME NEW c \in S \cup {j}, parent[c] # None  PROVE parent[c] \in S
  <2>1. c \in Live /\ parent[c] # o
    BY DEF Children
  <2>2. QED
    BY <1>2, <2>1, LiveParents
<1>3. o \in S
  BY <1>1, <1>2 DEF Ancestors
<1>4. QED
  BY <1>3

(* Ancestry outlives changes of jobs that are not live. *)
LEMMA AncestorsStay ==
    ASSUME IInv, NEW j \in Live, NEW o \in Ancestors(j), \A c \in Live : parent'[c] = parent[c]
    PROVE  o \in Ancestors(j)'
<1> SUFFICES ASSUME NEW S \in SUBSET Job,
                    \A c \in S \cup {j} : parent'[c] # None => parent'[c] \in S
             PROVE  o \in S
  BY DEF Ancestors
<1> DEFINE T == S \cap Live
<1>1. T \in SUBSET Job
  OBVIOUS
<1>2. ASSUME NEW c \in T \cup {j}, parent[c] # None  PROVE parent[c] \in T
  <2>1. c \in Live /\ c \in S \cup {j} /\ parent'[c] = parent[c]
    OBVIOUS
  <2>2. QED
    BY <1>2, <2>1, LiveParents
<1>3. QED
  BY <1>1, <1>2 DEF Ancestors

(* With one suspended job per depth, all above the executing one, the
   suspended jobs are its ancestors. *)
LEMMA PathIsAncestors ==
    ASSUME IInv, NEW d \in [Job -> Nat], DepthOf(d), PathOf(d), cur # None
    PROVE  Susp = Ancestors(cur)
<1> USE DEF IInv
<1>1. cur \in Job /\ cur \in Live /\ Susp \subseteq Live /\ Susp \subseteq Job
  BY DEF TypeOK, CurInv, Susp, Live
<1>2. ASSUME NEW c \in Susp \cup {cur}, parent[c] # None
      PROVE  parent[c] \in Susp /\ d[c] = d[parent[c]] + 1 /\ d[parent[c]] \in Nat
  <2>1. c \in Live /\ parent[c] \in Job /\ (parent[c] \in Susp \/ parent[c] = cur)
    BY <1>1, <1>2, LiveParents
  <2>2. d[c] = d[parent[c]] + 1 /\ d[parent[c]] \in Nat
    BY <1>2, <2>1 DEF DepthOf
  <2>3. d[c] <= d[cur] /\ d[cur] \in Nat
    BY <1>1 DEF PathOf
  <2>4. parent[c] # cur
    BY <2>2, <2>3
  <2>5. QED
    BY <2>1, <2>2, <2>4
<1>3. ASSUME NEW a \in Ancestors(cur)  PROVE a \in Susp
  <2>1. Susp \in SUBSET Job
    BY <1>1
  <2>2. \A c \in Susp \cup {cur} : parent[c] # None => parent[c] \in Susp
    BY <1>2
  <2>3. QED
    BY <2>1, <2>2 DEF Ancestors
<1>4. ASSUME NEW a \in Susp  PROVE a \in Ancestors(cur)
  <2> SUFFICES ASSUME NEW S \in SUBSET Job,
                      \A c \in S \cup {cur} : parent[c] # None => parent[c] \in S,
                      a \notin S
               PROVE  FALSE
    BY <1>1 DEF Ancestors
  <2> DEFINE X == {x \in (S \cap Susp) \cup {cur} : d[x] > d[a]}
             T == {d[x] : x \in X}
  <2>1. cur \in X
    BY <1>1 DEF PathOf
  <2>2. T \subseteq Nat /\ T # {}
    BY <1>1, <2>1
  <2>3. PICK t \in T : \A y \in T : t <= y
    BY <2>2, LeastNatural
  <2>4. PICK x \in X : t = d[x]
    BY <2>3
  <2>5. x \in Live /\ x \in Susp \cup {cur} /\ d[x] > d[a] /\ d[a] \in Nat /\ d[x] \in Nat
    BY <1>1
  <2>6. parent[x] # None
    BY <2>5 DEF DepthOf
  <2>7. parent[x] \in Susp /\ parent[x] \in S /\ d[x] = d[parent[x]] + 1 /\ d[parent[x]] \in Nat
    BY <1>2, <2>5, <2>6
  <2>8. parent[x] \notin X
    <3>1. parent[x] \in X => t <= d[parent[x]]
      BY <2>3
    <3>2. QED
      BY <2>4, <2>7, <3>1
  <2>9. d[parent[x]] = d[a]
    BY <2>5, <2>7, <2>8
  <2>10. parent[x] = a
    BY <2>7, <2>9 DEF PathOf
  <2>11. QED
    BY <2>7, <2>10
<1>5. QED
  BY <1>3, <1>4

(* The property about the executing job follows. *)
LEMMA DfsIsDepthFirst == IInv /\ DfsInv => DepthFirst /\ ParkedMeansCycle
<1> SUFFICES ASSUME IInv, DfsInv  PROVE DepthFirst /\ ParkedMeansCycle
  OBVIOUS
<1>1. {j \in Live : ejs[j] = "Suspended"} = Susp
  BY DEF Live, Susp
<1>2. CASE Cycle
  BY <1>2 DEF Cycle, DepthFirst, ParkedMeansCycle
<1>3. CASE Unparked /\ \E d \in [Job -> Nat] : Dfs(d)
  BY <1>1, <1>3, PathIsAncestors DEF Unparked, Dfs, DepthFirst, ParkedMeansCycle
<1>4. QED
  BY <1>2, <1>3 DEF DfsInv

(* A job parked behind its own ancestor stays so for ever: the ancestor cannot
   complete, since it has a child, so its queue never completes. *)
LEMMA CycleStays == ASSUME IInv, Cycle, [Next]_vars  PROVE Cycle'
<1> USE DEF IInv
<1>1. PICK j \in Live : Parked(j) /\ owner[pjq[j]] \in Ancestors(j)
  BY DEF Cycle
<1> DEFINE q == pjq[j]
           o == owner[q]
<1>2. /\ j \in Job /\ q \in Queue /\ q # None /\ j \in Range(queued[q]) /\ o # j
      /\ queued[q] \in Seq(Job) /\ queued[q] # <<>> /\ o \in Job
  BY <1>1, EmptyList, JobAssumption DEF Parked, TypeOK, Live, Ancestors
<1>3. Children(o) # {}
  BY <1>1, AncestorHasChild
<1>4. ejs[j] = "Suspended" \/ (j = cur /\ pc = "post" /\ ~result)
  BY <1>1 DEF LiveInv
<1>5. pc = "notify" => pjq[cur] # q
  <2>1. pc = "notify" => cur \in Job /\ Children(cur) = {} /\ owner[pjq[cur]] = cur
    BY CurIsRunning DEF CurInv
  <2>2. QED
    BY <1>3, <2>1
<1> HIDE DEF q, o
<1>6. ASSUME j \in Live', \A c \in Live : parent'[c] = parent[c], pjq'[j] = q,
             owner'[q] = o, j \in Range(queued'[q])
      PROVE  Cycle'
  <2>1. o \in Ancestors(j)'
    BY <1>1, <1>6, AncestorsStay DEF o, q
  <2>2. QED
    BY <1>2, <1>6, <2>1 DEF Cycle, Parked
<1>7. ASSUME UNCHANGED <<parent, pjq, queueVars>>, j \in Live'  PROVE Cycle'
  BY <1>2, <1>6, <1>7 DEF queueVars, q, o
<1>8. ASSUME NEW k \in Job, NEW p, NEW a, NEW l, Create(k, p, a, l), UNCHANGED queueVars  PROVE Cycle'
  <2>1. k \notin Live
    BY <1>8 DEF Create, Live
  <2>2. \A c \in Live : parent'[c] = parent[c] /\ pjq'[c] = pjq[c] /\ c \in Live'
    BY <1>8, <2>1 DEF Create, TypeOK, Live
  <2>3. QED
    BY <1>2, <1>6, <1>8, <2>2 DEF queueVars, q, o
<1>9. CASE (\E k \in Job, p \in Queue : ScheduleMainJob(k, p))
           \/ (\E k \in Job, p \in Queue \cup {None} : AddChild(k, p))
  BY <1>8, <1>9 DEF ScheduleMainJob, AddChild
<1>10. CASE FinalizeSearchStage
  BY <1>2, <1>10 DEF FinalizeSearchStage
<1>11. CASE \E k \in Job : Retrieve(k)
  BY <1>7, <1>11 DEF Retrieve, TypeOK, Live
<1>12. CASE Return \/ ExecuteCompleted \/ NotifyDone \/ BodySuspends \/ UNCHANGED vars
  <2>1. UNCHANGED <<parent, pjq, queueVars, ejs>>
    BY <1>12 DEF Return, ExecuteCompleted, NotifyDone, BodySuspends, vars, jobVars
  <2>2. QED
    BY <1>7, <2>1 DEF Live
<1>13. CASE ExecuteUnqueued
  <2>1. UNCHANGED <<parent, pjq, owner, queued, ejs>>
    BY <1>13 DEF ExecuteUnqueued
  <2>2. QED
    BY <1>2, <1>6, <2>1 DEF Live, q, o
<1>14. CASE BodyCompletes
  <2>1. UNCHANGED <<parent, pjq, owner, queued, ejs>>
    BY <1>14 DEF BodyCompletes, jobVars
  <2>2. QED
    BY <1>2, <1>6, <2>1 DEF Live, q, o
<1>15. CASE ExecuteMain \/ ExecuteQueued
  <2>1. UNCHANGED <<parent, pjq, ejs>>
    BY <1>15 DEF ExecuteMain, ExecuteQueued
  <2>2. cur \in Job
    BY <1>15, CurIsRunning DEF ExecuteMain, ExecuteQueued
  <2>3. owner'[q] = o /\ j \in Range(queued'[q])
    <3>1. CASE ExecuteMain
      <4>1. (owner[pjq[cur]] = cur /\ UNCHANGED <<owner, queued>>)
            \/ (pjq[cur] # q /\ owner' = [owner EXCEPT ![pjq[cur]] = cur]
                             /\ queued' = [queued EXCEPT ![pjq[cur]] = Append(@, cur)])
        BY <1>2, <3>1 DEF ExecuteMain
      <4>2. QED
        BY <1>2, <4>1 DEF TypeOK, o
    <3>2. CASE ExecuteQueued
      <4>1. owner' = owner /\ queued' = [queued EXCEPT ![pjq[cur]] = Append(queued[pjq[cur]], cur)]
        BY <3>2 DEF ExecuteQueued
      <4>2. Range(Append(queued[q], cur)) = Range(queued[q]) \cup {cur}
        BY <1>2, <2>2, RangeAppend
      <4>3. queued'[q] = queued[q] \/ queued'[q] = Append(queued[q], cur)
        BY <1>2, <4>1 DEF TypeOK
      <4>4. QED
        BY <1>2, <4>1, <4>2, <4>3 DEF o
    <3>3. QED
      BY <1>15, <3>1, <3>2
  <2>4. QED
    BY <1>2, <1>6, <2>1, <2>3 DEF Live, q
<1>16. ASSUME NEW k \in Job, NEW r, ResumeParent(k, r), k # j  PROVE j \in Live'
  BY <1>2, <1>16 DEF ResumeParent, TypeOK, Live
<1>17. CASE NotifyOne
  <2>1. /\ UNCHANGED <<parent, pjq, owner>> /\ pc = "notify" /\ cur \in Job
        /\ queued' = [queued EXCEPT ![pjq[cur]] = Tail(@)] /\ queued[pjq[cur]] # <<>>
    BY <1>17, CurIsRunning DEF NotifyOne
  <2>2. pjq[cur] # q /\ pjq[cur] \in Queue
    BY <1>5, <2>1, CurIsRunning DEF CurInv, TypeOK
  <2>3. queued'[q] = queued[q]
    BY <1>2, <2>1, <2>2 DEF TypeOK
  <2>4. Head(queued[pjq[cur]]) # j /\ Head(queued[pjq[cur]]) \in Job
    <3>1. Head(queued[pjq[cur]]) \in Range(queued[pjq[cur]])
      BY <2>1, <2>2, RangeEmpty DEF TypeOK
    <3>2. QED
      BY <2>2, <3>1 DEF QueueInv, q, Live
  <2>5. j \in Live'
    BY <1>16, <1>17, <2>4 DEF NotifyOne, Live
  <2>6. QED
    BY <1>2, <1>6, <2>1, <2>3, <2>5 DEF q, o
<1>18. CASE PostCompleted
  <2>1. j # cur /\ cur \in Job
    BY <1>4, <1>18, CurIsRunning DEF PostCompleted, CurInv
  <2>2. j \in Live' /\ UNCHANGED <<parent, pjq, queueVars>>
    BY <1>16, <1>18, <2>1 DEF PostCompleted
  <2>3. QED
    BY <1>7, <2>2
<1>19. CASE PostRunnable \/ PostSuspended
  <2>1. j \in Live' /\ UNCHANGED <<parent, pjq, queueVars>>
    BY <1>2, <1>19 DEF PostRunnable, PostSuspended, TypeOK, Live
  <2>2. QED
    BY <1>7, <2>1
<1>20. QED
  BY <1>9, <1>10, <1>11, <1>12, <1>13, <1>14, <1>15, <1>17, <1>18, <1>19 DEF Next

-----------------------------------------------------------------------------
(* The steps while no job is parked. *)

(* Steps that leave the queues alone, or only take jobs off a list, park nobody. *)
LEMMA UnparkedStays ==
    ASSUME IInv, Unparked, UNCHANGED <<pjq, owner>>, Live' \subseteq Live,
           \A q \in Queue : Range(queued'[q]) \subseteq Range(queued[q])
    PROVE  Unparked'
<1> SUFFICES ASSUME NEW j \in Live', Parked(j)'  PROVE FALSE
  BY DEF Unparked
<1>1. j \in Live /\ pjq[j] # None /\ pjq[j] \in Queue
  BY DEF Parked, IInv, TypeOK, Live
<1>2. Parked(j)
  BY <1>1 DEF Parked
<1>3. QED
  BY <1>1, <1>2 DEF Unparked

(* A job is handed out, so it is on no list: it is not parked, either. *)
LEMMA UnparkedNew ==
    ASSUME IInv, Unparked, NEW j \in Job, NEW q \in Queue \cup {None}, NEW p, NEW lvl,
           Create(j, q, p, lvl), UNCHANGED queueVars
    PROVE  Unparked'
<1> SUFFICES ASSUME NEW c \in Live', Parked(c)'  PROVE FALSE
  BY DEF Unparked
<1>1. c \in Job /\ j \notin Live /\ (c # j => c \in Live /\ pjq'[c] = pjq[c])
  BY DEF Create, IInv, TypeOK, Live
<1>2. pjq'[j] = q
  BY DEF Create, IInv, TypeOK
<1>3. c # j
  BY <1>1, <1>2 DEF Parked, queueVars, IInv, QueueInv
<1>4. Parked(c)
  BY <1>1, <1>3 DEF Parked, queueVars
<1>5. QED
  BY <1>1, <1>3, <1>4 DEF Unparked

(* A step inside the body of the loop that starts, suspends or completes no
   job leaves the tree of jobs and the list as they are. *)
LEMMA DfsQuiet ==
    ASSUME IInv, NEW d \in [Job -> Nat], Dfs(d),
           UNCHANGED <<ejs, parent, waiting, listjlWaiting, cur>>,
           pc \notin {"idle", "retrieve"}, pc' \notin {"idle", "retrieve"},
           \A j \in waiting : fresh'[j] = fresh[j]
    PROVE  Dfs(d)'
<1>1. Live' = Live /\ Susp' = Susp
  BY DEF Live, Susp
<1>2. DepthOf(d)' /\ PathOf(d)' /\ OrderOf(d)'
  BY <1>1 DEF Dfs, DepthOf, PathOf, OrderOf
<1>3. FreshInv'
  BY <1>1 DEF Dfs, FreshInv
<1>4. QED
  BY <1>2, <1>3 DEF Dfs

(* Those steps: what FExecute does with the queue and the body of the job,
   unless the job gets parked.  NotifyCompleted finds only the main job. *)
LEMMA QuietSteps ==
    ASSUME IInv, ListOK, Unparked, NEW d \in [Job -> Nat], Dfs(d), Push,
           \/ ExecuteUnqueued \/ ExecuteMain \/ ExecuteCompleted
           \/ BodySuspends \/ BodyCompletes \/ NotifyOne \/ NotifyDone
    PROVE  DfsInv'
<1> USE DEF IInv
<1>1. cur \in Job /\ ejs[cur] = "Running" /\ cur \notin waiting
  BY CurIsRunning DEF ListInv, ExecuteUnqueued, ExecuteMain, ExecuteCompleted, BodySuspends,
     BodyCompletes, NotifyOne, NotifyDone
<1>2. ASSUME NotifyOne  PROVE refs[Head(queued[pjq[cur]])] # 1
  <2>1. pjq[cur] \in Queue /\ queued[pjq[cur]] # <<>> /\ queued[pjq[cur]] \in Seq(Job) /\ pc = "notify"
    BY <1>1, <1>2 DEF NotifyOne, TypeOK, CurInv
  <2> DEFINE h == Head(queued[pjq[cur]])
  <2>2. h \in Range(queued[pjq[cur]])
    BY <2>1, RangeEmpty
  <2>3. h \in Live /\ pjq[h] = pjq[cur]
    BY <2>1, <2>2 DEF QueueInv
  <2>4. owner[pjq[cur]] = cur /\ pjq[cur] # None
    BY <1>1, <2>1 DEF CurInv
  <2>5. h = cur
    BY <2>1, <2>2, <2>3, <2>4 DEF Unparked, Parked
  <2>6. refs[cur] = Cardinality(Children(cur)) + ExecPin(cur) + QueuePin(cur)
    BY <2>3, <2>5 DEF RefsExact
  <2>7. ExecPin(cur) = 1 /\ QueuePin(cur) = 1
    BY <2>1, <2>2, <2>4, <2>5 DEF ExecPin, QueuePin, MainPin
  <2>8. Cardinality(Children(cur)) \in Nat
    BY FiniteTree
  <2>9. QED
    BY <2>5, <2>6, <2>7, <2>8
<1>3. /\ UNCHANGED <<ejs, parent, waiting, pjq, cur>>
      /\ pc \notin {"idle", "retrieve"} /\ pc' \notin {"idle", "retrieve"}
  BY <1>2 DEF ExecuteUnqueued, ExecuteMain, ExecuteCompleted, BodySuspends, BodyCompletes,
     NotifyOne, NotifyDone, BeginBody, jobVars, loopVars
<1>4. listjlWaiting' = listjlWaiting
  BY <1>3, PushNothing
<1>5. \A j \in waiting : fresh'[j] = fresh[j]
  <2>1. fresh' = fresh \/ fresh' = [fresh EXCEPT ![cur] = FALSE]
    BY DEF ExecuteUnqueued, ExecuteMain, ExecuteCompleted, BodySuspends, BodyCompletes,
       NotifyOne, NotifyDone, BeginBody, jobVars, loopVars
  <2>2. QED
    BY <1>1, <2>1 DEF TypeOK
<1>6. Dfs(d)'
  BY <1>3, <1>4, <1>5, DfsQuiet
<1>7. Live' = Live
  BY <1>3 DEF Live
<1>8. Unparked'
  <2>1. CASE ExecuteMain
    <3>1. CASE UNCHANGED <<owner, queued>>
      BY <1>3, <1>7, <3>1, UnparkedStays
    <3>2. CASE /\ queued[pjq[cur]] = <<>> /\ pjq[cur] \in Queue
               /\ owner' = [owner EXCEPT ![pjq[cur]] = cur]
               /\ queued' = [queued EXCEPT ![pjq[cur]] = Append(@, cur)]
      <4> SUFFICES ASSUME NEW j \in Live, Parked(j)'  PROVE FALSE
        BY <1>7 DEF Unparked
      <4>1. Range(Append(queued[pjq[cur]], cur)) = {cur}
        <5>1. queued[pjq[cur]] \in Seq(Job) /\ Range(queued[pjq[cur]]) = {}
          BY <3>2, EmptyList DEF TypeOK
        <5>2. QED
          BY <1>1, <5>1, RangeAppend
      <4>2. pjq[j] # pjq[cur]
        BY <1>1, <1>3, <3>2, <4>1 DEF TypeOK, Parked
      <4>3. Parked(j)
        BY <1>3, <3>2, <4>2 DEF TypeOK, Parked
      <4>4. QED
        BY <4>3 DEF Unparked
    <3>3. QED
      BY <1>1, <2>1, <3>1, <3>2 DEF ExecuteMain, TypeOK
  <2>2. CASE NotifyOne
    <3>1. /\ queued' = [queued EXCEPT ![pjq[cur]] = Tail(@)] /\ owner' = owner
          /\ pjq[cur] \in Queue /\ queued[pjq[cur]] # <<>> /\ queued[pjq[cur]] \in Seq(Job)
      BY <1>1, <2>2 DEF NotifyOne, TypeOK, CurInv
    <3>2. Range(Tail(queued[pjq[cur]])) \subseteq Range(queued[pjq[cur]])
      BY <3>1, RangeTail DEF QueueInv
    <3>3. \A q \in Queue : Range(queued'[q]) \subseteq Range(queued[q])
      BY <3>1, <3>2 DEF TypeOK
    <3>4. QED
      BY <1>3, <1>7, <3>1, <3>3, UnparkedStays
  <2>3. CASE ExecuteUnqueued \/ ExecuteCompleted \/ BodySuspends \/ BodyCompletes \/ NotifyDone
    <3>1. UNCHANGED <<owner, queued>>
      BY <2>3 DEF ExecuteUnqueued, ExecuteCompleted, BodySuspends, BodyCompletes, NotifyDone, queueVars
    <3>2. QED
      BY <1>3, <1>7, <3>1, UnparkedStays
  <2>4. QED
    BY <2>1, <2>2, <2>3
<1>9. QED
  BY <1>6, <1>8 DEF DfsInv

(* The first job to be parked runs into a queue whose main job has started and
   is neither executing nor waiting: it is suspended, an ancestor. *)
LEMMA QueuedStep ==
    ASSUME IInv, Unparked, NEW d \in [Job -> Nat], Dfs(d), ExecuteQueued
    PROVE  DfsInv'
<1> USE DEF IInv
<1> DEFINE q == pjq[cur]
           o == owner[q]
<1>1. cur \in Job /\ ejs[cur] = "Running" /\ cur # None /\ q \in Queue /\ q # None
  BY CurIsRunning DEF ExecuteQueued, TypeOK
<1>2. o = Head(queued[q]) /\ ~fresh[o] /\ queued[q] \in Seq(Job) /\ o # cur
  BY <1>1 DEF ExecuteQueued, QueueInv, TypeOK
<1>3. o \in Live
  BY <1>1, <1>2, RangeEmpty DEF ExecuteQueued, QueueInv
<1>4. o \notin waiting
  BY <1>2 DEF Dfs, FreshInv, ExecuteQueued
<1>5. o \in Susp
  BY <1>1, <1>2, <1>3, <1>4 DEF Live, Susp, ListInv, CurInv, TypeOK, EJobState
<1>6. o \in Ancestors(cur)
  BY <1>1, <1>5, PathIsAncestors DEF Dfs
<1>7. UNCHANGED <<ejs, parent, pjq, owner>> /\ queued' = [queued EXCEPT ![q] = Append(@, cur)]
  BY DEF ExecuteQueued
<1>8. cur \in Range(queued'[q])
  BY <1>1, <1>2, <1>7, RangeAppend DEF TypeOK
<1>9. PICK j \in Job : j = cur
  BY <1>1
<1>10. o \in Ancestors(j)'
  BY <1>6, <1>7, <1>9 DEF Ancestors
<1>11. j \in Live' /\ Parked(j)' /\ (owner[pjq[j]])' = o
  BY <1>1, <1>2, <1>7, <1>8, <1>9 DEF Live, Parked
<1>12. QED
  BY <1>10, <1>11 DEF DfsInv, Cycle

(* In the list, a job and its place. *)
LEMMA Placed ==
    ASSUME ListOK
    PROVE  /\ DOMAIN listjlWaiting \subseteq Nat \ {0}
           /\ \A i \in DOMAIN listjlWaiting : listjlWaiting[i] \in waiting
           /\ \A j \in waiting : \E i \in DOMAIN listjlWaiting : j = listjlWaiting[i]
<1>1. DOMAIN listjlWaiting = 1 .. Len(listjlWaiting) /\ Len(listjlWaiting) \in Nat
  BY DEF ListOK
<1>2. QED
  BY <1>1 DEF ListOK, Range

(* PjRetrieve takes one of the deepest waiting jobs. *)
LEMMA PopStep ==
    ASSUME IInv, ListOK, Unparked, NEW d \in [Job -> Nat], Dfs(d), Pop
    PROVE  DfsInv'
<1> USE DEF IInv
<1> DEFINE L == listjlWaiting
<1>1. /\ L # <<>> /\ L[1] \in Job /\ L[1] \in waiting /\ Retrieve(L[1]) /\ L' = Tail(L)
      /\ ListOK' /\ L \in Seq(Job) /\ Distinct(L)
  BY PopOne DEF ListOK
<1> DEFINE x == L[1]
<1>2. /\ waiting' = waiting \ {x} /\ ejs' = [ejs EXCEPT ![x] = "Running"] /\ cur' = x
      /\ UNCHANGED <<parent, pjq, fresh, queueVars>> /\ pc = "retrieve" /\ pc' = "execute"
  BY <1>1 DEF Retrieve
<1>3. cur = None /\ ejs[x] = "Waiting" /\ x # None
  BY <1>1, <1>2, JobAssumption DEF CurInv, ListInv
<1>4. Live' = Live /\ Susp' = Susp /\ Susp \subseteq Job /\ waiting \subseteq Job /\ x \in Live
  BY <1>1, <1>2, <1>3 DEF Live, Susp, TypeOK
<1>5. \A j \in waiting : d[j] <= d[x]
  <2> SUFFICES ASSUME NEW j \in waiting  PROVE d[j] <= d[x]
    OBVIOUS
  <2>1. PICK k \in DOMAIN L : j = L[k]
    BY Placed
  <2>2. 1 \in DOMAIN L /\ (1 < k \/ k = 1)
    BY <1>1, Placed, PopHead
  <2>3. d[x] \in Nat /\ d[j] \in Nat
    BY <1>1, <1>4
  <2>4. QED
    BY <2>1, <2>2, <2>3 DEF Dfs, OrderOf
<1>6. DepthOf(d)'
  BY <1>2, <1>4 DEF Dfs, DepthOf
<1>7. PathOf(d)'
  BY <1>2, <1>3, <1>4 DEF Dfs, PathOf
<1>8. \A j \in waiting' : d[j] <= d[x] + 1
  BY <1>1, <1>2, <1>4, <1>5
<1>9. \A i, k \in DOMAIN Tail(L) : i < k => d[Tail(L)[i]] >= d[Tail(L)[k]]
  <2> SUFFICES ASSUME NEW i \in DOMAIN Tail(L), NEW k \in DOMAIN Tail(L), i < k
               PROVE  d[Tail(L)[i]] >= d[Tail(L)[k]]
    OBVIOUS
  <2>1. /\ i + 1 \in DOMAIN L /\ k + 1 \in DOMAIN L /\ i \in Nat /\ k \in Nat
        /\ Tail(L)[i] = L[i + 1] /\ Tail(L)[k] = L[k + 1]
    BY <1>1, PopHead
  <2>2. i + 1 < k + 1
    BY <2>1
  <2>3. QED
    BY <2>1, <2>2 DEF Dfs, OrderOf
<1>10. OrderOf(d)'
  BY <1>1, <1>2, <1>8, <1>9 DEF OrderOf
<1>11. FreshInv'
  BY <1>2 DEF Dfs, FreshInv
<1>12. Unparked'
  BY <1>2, <1>4, UnparkedStays DEF queueVars
<1>13. QED
  BY <1>6, <1>7, <1>10, <1>11, <1>12 DEF DfsInv, Dfs

(* The jobs of a list are in the order of their depths, the deepest first. *)
Sorted(d, s) == \A i, k \in DOMAIN s : i < k => d[s[i]] >= d[s[k]]

(* Pushing a job that is as deep as any keeps the order. *)
LEMMA PushOrder ==
    ASSUME ListOK, NEW d \in [Job -> Nat], NEW x \in Job,
           listjlWaiting' = <<x>> \o listjlWaiting,
           waiting \subseteq Job, \A j \in waiting : d[j] <= d[x],
           Sorted(d, listjlWaiting)
    PROVE  Sorted(d, listjlWaiting') /\ listjlWaiting' # <<>> /\ listjlWaiting'[1] = x
<1> DEFINE L == listjlWaiting
<1>1. /\ Len(L) \in Nat /\ DOMAIN L' = 1 .. Len(L) + 1 /\ DOMAIN L = 1 .. Len(L)
      /\ L'[1] = x /\ L' # <<>>
      /\ \A n \in 2 .. Len(L) + 1 : L'[n] = L[n - 1]
  BY PushHead DEF ListOK
<1>2. ASSUME NEW i \in DOMAIN L', NEW k \in DOMAIN L', i < k
      PROVE  d[L'[i]] >= d[L'[k]]
  <2>1. k \in 2 .. Len(L) + 1 /\ k - 1 \in DOMAIN L /\ L'[k] = L[k - 1]
    BY <1>1, <1>2
  <2>2. L[k - 1] \in waiting
    BY <2>1, Placed
  <2>3. CASE i = 1
    BY <1>1, <2>1, <2>2, <2>3
  <2>4. CASE i # 1
    <3>1. i \in 2 .. Len(L) + 1 /\ i - 1 \in DOMAIN L /\ L'[i] = L[i - 1] /\ i - 1 < k - 1
      BY <1>1, <1>2, <2>4
    <3>2. QED
      BY <2>1, <3>1 DEF Sorted
  <2>5. QED
    BY <2>3, <2>4
<1>3. QED
  BY <1>1, <1>2 DEF Sorted

(* A new job goes on top of the list, below the executing one in the tree. *)
LEMMA NewStep ==
    ASSUME IInv, ListOK, Unparked, NEW d \in [Job -> Nat], Dfs(d), Push,
           NEW j \in Job, NEW q \in Queue \cup {None}, NEW p, NEW lvl,
           Create(j, q, p, lvl), UNCHANGED <<queueVars, cur>>,
           \/ p = None /\ pc = "idle" /\ pc' = "retrieve"
           \/ p = cur /\ pc = "body" /\ pc' = "body"
    PROVE  DfsInv'
<1> USE DEF IInv
<1> DEFINE L == listjlWaiting
           h == IF p = None THEN 0 ELSE d[p] + 1
           e == [d EXCEPT ![j] = h]
<1>1. /\ j \notin Live /\ j \notin waiting /\ j # cur /\ waiting' = waiting \cup {j}
      /\ Live' = Live \cup {j} /\ Susp' = Susp /\ Susp \subseteq Live /\ waiting \subseteq Live
      /\ Live \subseteq Job
  BY DEF Create, TypeOK, Live, Susp, ListInv, CurInv
<1>2. p = None \/ (p \in Live /\ p \in Job /\ p = cur)
  BY CurIsRunning DEF Live
<1>3. p = None => Live = {} /\ cur = None
  BY JobAssumption, CurIsRunning DEF Dfs, FreshInv, CurInv
<1>4. e \in [Job -> Nat] /\ e[j] = h /\ h \in Nat /\ \A c \in Live : e[c] = d[c]
  BY <1>1, <1>2
<1> HIDE DEF e, h
<1>5. L' = <<j>> \o L /\ ListOK' /\ L \in Seq(Job)
  BY <1>1, PushOne DEF ListOK
<1>6. DepthOf(e)'
  <2> SUFFICES ASSUME NEW c \in Live'
               PROVE  e[c] = IF parent'[c] = None THEN 0 ELSE e[parent'[c]] + 1
    BY DEF DepthOf
  <2>1. CASE c = j
    <3>1. parent'[c] = p
      BY <2>1 DEF Create, TypeOK
    <3>2. QED
      BY <1>2, <1>4, <2>1, <3>1 DEF h
  <2>2. CASE c # j
    <3>1. c \in Live /\ parent'[c] = parent[c]
      BY <1>1, <2>2 DEF Create, TypeOK
    <3>2. parent[c] # None => parent[c] \in Live
      BY <3>1, LiveParents
    <3>3. QED
      BY <1>4, <3>1, <3>2 DEF Dfs, DepthOf
  <2>3. QED
    BY <2>1, <2>2
<1>7. PathOf(e)'
  <2>1. CASE p = None
    BY <1>1, <1>3, <2>1 DEF PathOf
  <2>2. CASE p # None
    BY <1>1, <1>2, <1>4, <2>2 DEF Dfs, PathOf
  <2>3. QED
    BY <2>1, <2>2
<1>8. \A c \in waiting : e[c] <= h /\ e[c] \in Nat
  BY <1>1, <1>2, <1>3, <1>4 DEF Dfs, OrderOf, h
<1>9. cur' # None => \A c \in waiting' : e[c] <= e[cur'] + 1
  BY <1>1, <1>2, <1>3, <1>4, <1>8 DEF h
<1>10. Sorted(e, L')
  <2>1. Sorted(e, L)
    BY <1>1, <1>4, Placed DEF Dfs, OrderOf, Sorted
  <2>2. waiting \subseteq Job /\ \A c \in waiting : e[c] <= e[j]
    BY <1>1, <1>4, <1>8
  <2>3. QED
    BY <1>4, <1>5, <2>1, <2>2, PushOrder
<1>11. OrderOf(e)'
  BY <1>9, <1>10 DEF OrderOf, Sorted
<1>12. FreshInv'
  <2>1. \A c \in waiting : fresh[c] /\ fresh'[c] = fresh[c]
    BY <1>1, <1>3 DEF Dfs, FreshInv, Create, TypeOK
  <2>2. fresh'[j]
    BY DEF Create, TypeOK
  <2>3. QED
    BY <1>1, <2>1, <2>2 DEF FreshInv
<1>13. Unparked'
  BY UnparkedNew
<1>14. QED
  BY <1>4, <1>6, <1>7, <1>11, <1>12, <1>13 DEF DfsInv, Dfs

(* The reference counter of a job that neither executes its operation nor is
   parked counts its children, and the loop itself if it executes the job. *)
LEMMA RefsCountChildren ==
    ASSUME IInv, Unparked, NEW j \in Live, pc \notin {"body", "notify"}
    PROVE  /\ refs[j] = Cardinality(Children(j)) + (IF j = cur THEN 1 ELSE 0)
           /\ IsFiniteSet(Children(j)) /\ Cardinality(Children(j)) \in Nat
<1>1. QueuePin(j) = 0
  BY DEF Unparked, QueuePin, MainPin
<1>2. IsFiniteSet(Children(j)) /\ Cardinality(Children(j)) \in Nat
  BY FiniteTree DEF IInv
<1>3. QED
  BY <1>1, <1>2 DEF IInv, RefsExact, ExecPin

(* A waiting job below the executing one is a child of it or of an ancestor. *)
LEMMA WaitingBelow ==
    ASSUME IInv, NEW d \in [Job -> Nat], Dfs(d), cur # None, NEW j \in waiting, d[j] > d[cur]
    PROVE  j \in Children(cur)
<1> USE DEF IInv
<1>1. j \in Live /\ j \in Job /\ cur \in Job /\ Susp \subseteq Job
  BY DEF ListInv, TypeOK, Live, Susp
<1>2. parent[j] # None
  BY <1>1 DEF Dfs, DepthOf
<1>3. parent[j] \in Job /\ (parent[j] \in Susp \/ parent[j] = cur)
  BY <1>1, <1>2, LiveParents
<1>4. d[j] = d[parent[j]] + 1
  BY <1>1, <1>2 DEF Dfs, DepthOf
<1>5. parent[j] \notin Susp
  <2>1. parent[j] \in Susp => d[parent[j]] < d[cur]
    BY DEF Dfs, PathOf
  <2>2. QED
    BY <1>1, <1>3, <1>4, <2>1
<1>6. QED
  BY <1>1, <1>3, <1>5 DEF Children

(* A live job as deep as the executing one that is another job is waiting. *)
LEMMA DeepIsWaiting ==
    ASSUME IInv, ListOK, NEW d \in [Job -> Nat], Dfs(d), cur # None,
           NEW c \in Live, c # cur, d[c] >= d[cur]
    PROVE  /\ c \in waiting /\ listjlWaiting # <<>> /\ listjlWaiting[1] \in Job
           /\ d[listjlWaiting[1]] >= d[c]
<1> USE DEF IInv
<1> DEFINE L == listjlWaiting
<1>1. c \in Job /\ cur \in Job
  BY DEF TypeOK, Live
<1>2. c \notin Susp
  BY <1>1 DEF Dfs, PathOf
<1>3. c \in waiting
  BY <1>1, <1>2 DEF Live, Susp, ListInv, CurInv, TypeOK, EJobState
<1>4. PICK k \in DOMAIN L : c = L[k]
  BY <1>3, Placed
<1>5. L # <<>> /\ L \in Seq(Job) /\ k \in Nat \ {0}
  BY <1>4, Placed DEF ListOK
<1>6. 1 \in DOMAIN L /\ L[1] \in Job
  BY <1>5, PopHead DEF ListOK
<1>7. k = 1 \/ 1 < k
  BY <1>5
<1>8. d[L[1]] \in Nat /\ d[c] \in Nat
  BY <1>1, <1>6
<1>9. QED
  BY <1>3, <1>4, <1>5, <1>6, <1>7, <1>8 DEF Dfs, OrderOf

(* A suspended job leaves a child at the head of the list. *)
LEMMA SuspendedStep ==
    ASSUME IInv, ListOK, Unparked, NEW d \in [Job -> Nat], Dfs(d), Push, PostSuspended
    PROVE  DfsInv'
<1> USE DEF IInv
<1> DEFINE L == listjlWaiting
<1>1. cur \in Job /\ cur \in Live /\ cur # None /\ ejs[cur] = "Running"
  BY CurIsRunning, JobAssumption DEF PostSuspended, Live
<1>2. PICK c \in Children(cur) : TRUE
  <2>1. Children(cur) # {}
    BY <1>1, RefsCountChildren, FS_EmptySet DEF PostSuspended
  <2>2. QED
    BY <2>1
<1>3. c \in Live /\ parent[c] = cur /\ d[c] = d[cur] + 1
  BY <1>1, <1>2 DEF Children, Dfs, DepthOf
<1>4. L # <<>> /\ L[1] \in Job /\ d[L[1]] >= d[c] /\ c # cur /\ d[cur] \in Nat
  <2>1. c # cur /\ d[c] >= d[cur] /\ d[cur] \in Nat
    BY <1>1, <1>3
  <2>2. QED
    BY <1>1, <1>3, <2>1, DeepIsWaiting
<1>5. /\ waiting' = waiting /\ L' = L /\ cur' = None /\ pc = "post" /\ pc' = "retrieve"
      /\ ejs' = [ejs EXCEPT ![cur] = "Suspended"] /\ UNCHANGED <<parent, pjq, fresh, queueVars>>
  BY PushNothing DEF PostSuspended
<1>6. Live' = Live /\ Susp' = Susp \cup {cur} /\ Susp \subseteq Job
  BY <1>1, <1>5 DEF Live, Susp, TypeOK
<1>7. DepthOf(d)'
  BY <1>5, <1>6 DEF Dfs, DepthOf
<1>8. PathOf(d)'
  <2>1. \A a \in Susp : d[a] < d[cur] /\ d[a] \in Nat
    BY <1>1, <1>6 DEF Dfs, PathOf
  <2>2. \A a, b \in Susp' : d[a] = d[b] => a = b
    BY <1>1, <1>4, <1>6, <2>1 DEF Dfs, PathOf
  <2>3. \A a \in Susp' : d[a] < d[L[1]]
    BY <1>3, <1>4, <1>6, <2>1
  <2>4. QED
    BY <1>4, <1>5, <2>2, <2>3 DEF PathOf
<1>9. OrderOf(d)' /\ FreshInv'
  BY <1>5, <1>6 DEF Dfs, OrderOf, FreshInv
<1>10. Unparked'
  BY <1>5, <1>6, UnparkedStays DEF queueVars
<1>11. QED
  BY <1>7, <1>8, <1>9, <1>10 DEF DfsInv, Dfs

(* A job put back on the list is as deep as any job on it. *)
LEMMA RunnableStep ==
    ASSUME IInv, ListOK, Unparked, NEW d \in [Job -> Nat], Dfs(d), Push, PostRunnable
    PROVE  DfsInv'
<1> USE DEF IInv
<1> DEFINE L == listjlWaiting
<1>1. cur \in Job /\ cur \in Live /\ cur # None /\ ejs[cur] = "Running" /\ cur \notin waiting
  BY CurIsRunning, JobAssumption DEF PostRunnable, Live, ListInv
<1>2. Children(cur) = {}
  <2>1. Cardinality(Children(cur)) = 0 /\ IsFiniteSet(Children(cur))
    BY <1>1, RefsCountChildren DEF PostRunnable
  <2>2. QED
    BY <2>1, FS_EmptySet
<1>3. /\ waiting' = waiting \cup {cur} /\ cur' = None /\ pc = "post" /\ pc' = "retrieve"
      /\ ejs' = [ejs EXCEPT ![cur] = "Waiting"] /\ UNCHANGED <<parent, pjq, fresh, queueVars>>
  BY DEF PostRunnable
<1>4. L' = <<cur>> \o L
  BY <1>1, <1>3, PushOne
<1>5. waiting \subseteq Job /\ \A j \in waiting : d[j] <= d[cur]
  <2>1. waiting \subseteq Job /\ d[cur] \in Nat
    BY <1>1 DEF TypeOK
  <2>2. QED
    BY <1>1, <1>2, <2>1, WaitingBelow
<1>6. Sorted(d, L') /\ L' # <<>> /\ L'[1] = cur
  BY <1>1, <1>4, <1>5, PushOrder DEF Dfs, OrderOf, Sorted
<1>7. Live' = Live /\ Susp' = Susp /\ Susp \subseteq Job
  BY <1>1, <1>3 DEF Live, Susp, TypeOK
<1>8. DepthOf(d)'
  BY <1>3, <1>7 DEF Dfs, DepthOf
<1>9. PathOf(d)'
  BY <1>1, <1>3, <1>6, <1>7 DEF Dfs, PathOf
<1>10. OrderOf(d)'
  BY <1>3, <1>6 DEF OrderOf, Sorted
<1>11. FreshInv'
  BY <1>3, <1>6 DEF Dfs, FreshInv
<1>12. Unparked'
  BY <1>3, <1>7, UnparkedStays DEF queueVars
<1>13. QED
  BY <1>8, <1>9, <1>10, <1>11, <1>12 DEF DfsInv, Dfs

(* A completed job leaves a sibling, or its parent, at the head of the list. *)
LEMMA CompletedStep ==
    ASSUME IInv, ListOK, Unparked, NEW d \in [Job -> Nat], Dfs(d), Push, PostCompleted
    PROVE  DfsInv'
<1> USE DEF IInv
<1> DEFINE L == listjlWaiting
           p == parent[cur]
<1>1. cur \in Job /\ cur \in Live /\ cur # None /\ ejs[cur] = "Running" /\ cur \notin waiting
  BY CurIsRunning, JobAssumption DEF PostCompleted, Live, ListInv
<1>2. Children(cur) = {}
  BY <1>1 DEF PostCompleted, CurInv
<1>3. /\ cur' = None /\ pc = "post" /\ pc' = "retrieve" /\ UNCHANGED <<parent, pjq, fresh, queueVars>>
      /\ ResumeParent(cur, [refs EXCEPT ![cur] = @ - 1])
  BY DEF PostCompleted
<1>4. waiting \subseteq Job /\ waiting \subseteq Live /\ Susp \subseteq Job /\ \A j \in waiting : d[j] <= d[cur]
  <2>1. waiting \subseteq Job /\ waiting \subseteq Live /\ Susp \subseteq Job /\ d[cur] \in Nat
    BY <1>1 DEF TypeOK, Susp, ListInv, Live
  <2>2. QED
    BY <1>1, <1>2, <2>1, WaitingBelow
<1>5. \A a \in Susp : d[a] < d[cur] /\ d[a] \in Nat /\ d[cur] \in Nat
  BY <1>1, <1>4 DEF Dfs, PathOf
<1>6. ASSUME Live' = Live \ {cur}  PROVE DepthOf(d)' /\ Unparked'
  <2>1. DepthOf(d)'
    BY <1>3, <1>6 DEF Dfs, DepthOf
  <2>2. Unparked'
    BY <1>3, <1>6, UnparkedStays DEF queueVars
  <2>3. QED
    BY <2>1, <2>2
<1>7. \A j \in waiting : fresh'[j]
  BY <1>3 DEF Dfs, FreshInv
<1>8. CASE p = None
  <2>1. waiting' = waiting /\ ejs' = [ejs EXCEPT ![cur] = "Free"] /\ L' = L
    BY <1>3, <1>8, PushNothing DEF ResumeParent
  <2>2. Live' = Live \ {cur} /\ Susp' = Susp
    BY <1>1, <2>1 DEF Live, Susp, TypeOK
  <2>3. Susp = {}
    <3>1. d[cur] = 0
      BY <1>1, <1>8 DEF Dfs, DepthOf
    <3>2. QED
      BY <1>5, <3>1
  <2>4. PathOf(d)' /\ OrderOf(d)' /\ FreshInv'
    BY <1>3, <1>7, <2>1, <2>2, <2>3 DEF Dfs, PathOf, OrderOf, FreshInv
  <2>5. QED
    BY <1>6, <2>2, <2>4 DEF DfsInv, Dfs
<1>9. CASE p # None
  <2>1. p \in Susp /\ p \in Live /\ p \in Job /\ p # cur /\ ejs[p] = "Suspended"
    <3>1. p # cur
      BY <1>1, <1>2 DEF Children
    <3>2. QED
      BY <1>1, <1>9, <3>1, LiveParents DEF Susp
  <2>2. d[cur] = d[p] + 1 /\ d[p] \in Nat
    BY <1>1, <1>9, <2>1 DEF Dfs, DepthOf
  <2>3. [refs EXCEPT ![cur] = @ - 1][p] = refs[p]
    BY <2>1 DEF TypeOK
  <2>4. refs[p] = Cardinality(Children(p)) /\ IsFiniteSet(Children(p)) /\ cur \in Children(p)
    <3>1. pc \notin {"body", "notify"}
      BY <1>3
    <3>2. refs[p] = Cardinality(Children(p)) + 0 /\ IsFiniteSet(Children(p)) /\ Cardinality(Children(p)) \in Nat
      BY <2>1, <3>1, RefsCountChildren
    <3>3. QED
      BY <1>1, <3>2 DEF Children
  <2>5. CASE refs[p] = 1
    <3>1. waiting' = waiting \cup {p} /\ ejs' = [ejs EXCEPT ![p] = "Waiting", ![cur] = "Free"]
      BY <1>3, <1>9, <2>3, <2>5 DEF ResumeParent
    <3>2. p \notin waiting
      BY <2>1 DEF ListInv
    <3>3. L' = <<p>> \o L
      BY <2>1, <3>1, <3>2, PushOne
    <3>4. Live' = Live \ {cur} /\ Susp' = Susp \ {p}
      BY <1>1, <2>1, <3>1 DEF Live, Susp, TypeOK
    <3>5. Children(p) = {cur}
      <4>1. PICK c : Children(p) = {c}
        BY <2>4, <2>5, FS_Singleton
      <4>2. QED
        BY <2>4, <4>1
    <3>6. \A j \in waiting : d[j] <= d[p]
      <4> SUFFICES ASSUME NEW j \in waiting, ~(d[j] <= d[p])  PROVE FALSE
        OBVIOUS
      <4>1. j \in Live /\ j \in Job /\ d[j] = d[p] + 1
        BY <1>4, <2>2
      <4>2. parent[j] # None /\ d[j] = d[parent[j]] + 1
        BY <2>2, <4>1 DEF Dfs, DepthOf
      <4>3. parent[j] \in Job /\ (parent[j] \in Susp \/ parent[j] = cur)
        BY <4>1, <4>2, LiveParents
      <4>4. d[parent[j]] = d[p]
        BY <2>2, <4>1, <4>2, <4>3
      <4>5. parent[j] # cur
        BY <2>2, <4>4
      <4>6. parent[j] = p
        BY <2>1, <4>3, <4>4, <4>5 DEF Dfs, PathOf
      <4>7. QED
        BY <1>1, <3>5, <4>1, <4>6 DEF Children
    <3>7. Sorted(d, L') /\ L' # <<>> /\ L'[1] = p
      BY <1>4, <2>1, <3>3, <3>6, PushOrder DEF Dfs, OrderOf, Sorted
    <3>8. PathOf(d)'
      <4>1. \A a \in Susp : d[a] = d[p] => a = p
        BY <2>1 DEF Dfs, PathOf
      <4>2. \A a \in Susp' : d[a] < d[p]
        BY <1>5, <2>2, <3>4, <4>1
      <4>3. QED
        BY <1>3, <3>4, <3>7, <4>2 DEF Dfs, PathOf
    <3>9. OrderOf(d)'
      BY <1>3, <3>7 DEF OrderOf, Sorted
    <3>10. FreshInv'
      BY <1>3, <1>7, <3>1, <3>7 DEF FreshInv
    <3>11. QED
      BY <1>6, <3>4, <3>8, <3>9, <3>10 DEF DfsInv, Dfs
  <2>6. CASE refs[p] # 1
    <3>1. waiting' = waiting /\ ejs' = [ejs EXCEPT ![cur] = "Free"] /\ L' = L
      BY <1>3, <1>9, <2>3, <2>6, PushNothing DEF ResumeParent
    <3>2. Live' = Live \ {cur} /\ Susp' = Susp
      BY <1>1, <3>1 DEF Live, Susp, TypeOK
    <3>3. PICK c \in Children(p) : c # cur
      <4>1. Children(p) # {cur}
        BY <2>4, <2>6, FS_Singleton
      <4>2. QED
        BY <2>4, <4>1
    <3>4. c \in Live /\ d[c] = d[cur]
      BY <1>9, <2>2, <3>3 DEF Children, Dfs, DepthOf
    <3>5. L # <<>> /\ L[1] \in Job /\ d[L[1]] >= d[cur]
      <4>1. d[c] >= d[cur]
        BY <1>1, <3>4
      <4>2. QED
        BY <1>1, <3>3, <3>4, <4>1, DeepIsWaiting
    <3>6. PathOf(d)'
      BY <1>3, <1>5, <3>1, <3>2, <3>5 DEF Dfs, PathOf
    <3>7. OrderOf(d)' /\ FreshInv'
      BY <1>3, <1>7, <3>1 DEF Dfs, OrderOf, FreshInv
    <3>8. QED
      BY <1>6, <3>2, <3>6, <3>7 DEF DfsInv, Dfs
  <2>7. QED
    BY <2>5, <2>6
<1>10. QED
  BY <1>8, <1>9
(* ExecuteJobs returns with nothing left, and the queues are reset then. *)
LEMMA IdleSteps ==
    ASSUME IInv, ListOK, Unparked, NEW d \in [Job -> Nat], Dfs(d), Push,
           Return \/ FinalizeSearchStage
    PROVE  DfsInv'
<1> USE DEF IInv
<1>1. UNCHANGED <<ejs, parent, fresh, waiting, cur, listjlWaiting>>
  BY PushNothing DEF Return, FinalizeSearchStage, jobVars, loopVars
<1>2. Live = {}
  <2>1. CASE FinalizeSearchStage
    BY <2>1 DEF FinalizeSearchStage, Dfs, FreshInv
  <2>2. CASE Return
    <3>1. cur = None /\ waiting = {} /\ \A j \in Job : ejs[j] # "Running"
      BY <2>2, JobAssumption DEF Return, CurInv
    <3>2. listjlWaiting = <<>>
      BY <3>1, RangeEmpty DEF ListOK
    <3>3. Susp = {}
      BY <3>1, <3>2 DEF Dfs, PathOf
    <3>4. QED
      BY <3>1, <3>3 DEF Live, Susp, ListInv, TypeOK, EJobState
  <2>3. QED
    BY <2>1, <2>2
<1>3. Live' = {} /\ Susp' = Susp
  BY <1>1, <1>2 DEF Live, Susp
<1>4. DepthOf(d)' /\ PathOf(d)' /\ OrderOf(d)'
  BY <1>1, <1>3 DEF Dfs, DepthOf, PathOf, OrderOf
<1>5. waiting' = {}
  BY <1>1, <1>2 DEF ListInv, Live
<1>6. FreshInv' /\ Unparked'
  BY <1>3, <1>5 DEF FreshInv, Unparked
<1>7. QED
  BY <1>4, <1>6 DEF DfsInv, Dfs

(* Every step keeps the search depth first. *)
LEMMA DfsStep == ASSUME IInv, ListOK, DfsInv, [LifoNext]_lifoVars  PROVE DfsInv'
<1>1. CASE Cycle
  <2>1. Cycle'
    BY <1>1, LifoStep, CycleStays
  <2>2. QED
    BY <2>1 DEF DfsInv
<1>2. CASE UNCHANGED lifoVars
  BY <1>2 DEF DfsInv, Cycle, Unparked, Ancestors, Parked, Live, Dfs, DepthOf, PathOf, OrderOf,
     FreshInv, Susp, lifoVars, vars, jobVars, queueVars, loopVars
<1>3. CASE Unparked /\ (\E d \in [Job -> Nat] : Dfs(d)) /\ LifoNext
  <2>1. PICK d \in [Job -> Nat] : Dfs(d)
    BY <1>3
  <2>2. CASE Pop
    BY <1>3, <2>1, <2>2, PopStep
  <2>3. CASE Push /\ \E j \in Job, q \in Queue : ScheduleMainJob(j, q)
    <3>1. PICK j \in Job, q \in Queue : ScheduleMainJob(j, q)
      BY <2>3
    <3>2. /\ Create(j, q, None, Level[q]) /\ UNCHANGED <<queueVars, cur>>
          /\ pc = "idle" /\ pc' = "retrieve" /\ q \in Queue \cup {None}
      BY <3>1 DEF ScheduleMainJob
    <3>3. QED
      BY <1>3, <2>1, <2>3, <3>2, NewStep
  <2>4. CASE Push /\ \E j \in Job, q \in Queue \cup {None} : AddChild(j, q)
    <3>1. PICK j \in Job, q \in Queue \cup {None} : AddChild(j, q)
      BY <2>4
    <3>2. /\ Create(j, q, cur, IF q = None THEN level[cur] ELSE Level[q]) /\ UNCHANGED <<queueVars, cur>>
          /\ pc = "body" /\ pc' = "body"
      BY <3>1 DEF AddChild, loopVars
    <3>3. QED
      BY <1>3, <2>1, <2>4, <3>2, NewStep
  <2>5. CASE Push /\ (Return \/ FinalizeSearchStage)
    BY <1>3, <2>1, <2>5, IdleSteps
  <2>6. CASE /\ Push
             /\ \/ ExecuteUnqueued \/ ExecuteMain \/ ExecuteCompleted
                \/ BodySuspends \/ BodyCompletes \/ NotifyOne \/ NotifyDone
    BY <1>3, <2>1, <2>6, QuietSteps
  <2>7. CASE ExecuteQueued
    BY <1>3, <2>1, <2>7, QueuedStep
  <2>8. CASE Push /\ PostSuspended
    BY <1>3, <2>1, <2>8, SuspendedStep
  <2>9. CASE Push /\ PostRunnable
    BY <1>3, <2>1, <2>9, RunnableStep
  <2>10. CASE Push /\ PostCompleted
    BY <1>3, <2>1, <2>10, CompletedStep
  <2>11. QED
    BY <1>3, <2>2, <2>3, <2>4, <2>5, <2>6, <2>7, <2>8, <2>9, <2>10 DEF LifoNext, LoopStep
<1>4. QED
  BY <1>1, <1>2, <1>3 DEF DfsInv

(* Before the first job there is nothing to order. *)
LEMMA DfsInit == LifoInit => DfsInv
<1> SUFFICES ASSUME LifoInit  PROVE DfsInv
  OBVIOUS
<1> DEFINE d == [j \in Job |-> 0]
<1>1. Live = {} /\ Susp = {} /\ waiting = {} /\ cur = None /\ listjlWaiting = <<>> /\ d \in [Job -> Nat]
  BY DEF LifoInit, Init, Live, Susp
<1>2. Dfs(d)
  BY <1>1, EmptyList DEF Dfs, DepthOf, PathOf, OrderOf, FreshInv
<1>3. QED
  BY <1>1, <1>2 DEF DfsInv, Unparked

(* The inductive invariant of the scheduler. *)
LEMMA SchedulerInvariant == LifoSpec => [](IInv /\ ListOK /\ DfsInv)
<1>1. LifoInit => DfsInv
  BY DfsInit
<1>2. (IInv /\ ListOK) /\ DfsInv /\ [LifoNext]_lifoVars => DfsInv'
  BY DfsStep
<1>3. QED
  BY <1>1, <1>2, LifoInductive, PTL DEF LifoSpec

(* The list of CScheduler holds each waiting job once, and while no job is
   parked the suspended jobs are exactly the ancestors of the executing one:
   the scheduler finishes a subtree before it touches a sibling. *)
THEOREM SearchIsDepthFirst == LifoSpec => []LifoInv
<1>1. IInv /\ ListOK /\ DfsInv => LifoInv
  BY DfsIsDepthFirst DEF LifoInv, LifoTypeOK, ListOK, IInv, Distinct
<1>2. QED
  BY <1>1, SchedulerInvariant, PTL

(* CJobQueue::EjqrAdd answers EjqrQueued only to a job that runs into a queue
   its own ancestor is the main job of, or after such a job has been parked:
   whenever jobs are parked, one of them waits for a job that waits for it. *)
THEOREM OnlyCyclesPark == LifoSpec => []ParkedMeansCycle
<1>1. IInv /\ ListOK /\ DfsInv => ParkedMeansCycle
  BY DfsIsDepthFirst
<1>2. QED
  BY <1>1, SchedulerInvariant, PTL

(* On an acyclic memo the ancestors of a job with a queue are on higher levels,
   so no job meets a queue of its own group. *)
LEMMA LevelsForbidCycles == IInv /\ LevelInv => ~Cycle
<1> SUFFICES ASSUME IInv, LevelInv, NEW j \in Live, Parked(j), owner[pjq[j]] \in Ancestors(j)
             PROVE  FALSE
  BY DEF Cycle
<1> USE DEF IInv
<1> DEFINE q == pjq[j]
           o == owner[q]
           S == {a \in Live : level[a] > level[j]}
<1>1. j \in Job /\ q \in Queue /\ q # None /\ queued[q] # <<>> /\ queued[q] \in Seq(Job)
  BY EmptyList DEF Parked, TypeOK, Live
<1>2. level \in [Job -> Nat] /\ S \subseteq Live /\ Live \subseteq Job
  BY DEF TypeOK, Live
<1>3. ASSUME NEW c \in S \cup {j}, parent[c] # None  PROVE parent[c] \in S
  <2>1. c \in Live /\ parent[c] \in Live /\ parent[c] \in Job /\ c \in Job
    BY <1>2, <1>3, LiveParents
  <2>2. level[c] \in Nat /\ level[parent[c]] \in Nat /\ level[j] \in Nat
    BY <1>1, <1>2, <2>1
  <2>3. CASE pjq[c] = None
    BY <1>1, <2>1, <2>2, <2>3 DEF LevelInv
  <2>4. CASE pjq[c] # None
    BY <1>3, <2>1, <2>2, <2>4 DEF LevelInv
  <2>5. QED
    BY <2>3, <2>4
<1>4. o \in S
  <2>1. S \in SUBSET Job
    BY <1>2
  <2>2. QED
    BY <1>3, <2>1 DEF Ancestors
<1>5. pjq[o] = q
  <2>1. CASE fCompleted[q]
    BY <1>1, <2>1, CurIsRunning DEF QueueInv, CurInv
  <2>2. CASE ~fCompleted[q]
    BY <1>1, <2>2, RangeEmpty DEF QueueInv
  <2>3. QED
    BY <2>1, <2>2
<1>6. level[o] = Level[q] /\ level[j] = Level[q] /\ Level[q] \in Nat
  BY <1>1, <1>4, <1>5, JobAssumption DEF LevelInv
<1>7. QED
  BY <1>4, <1>6

(* If jobs only add children on queues of lower groups, EjqrAdd never parks a
   job: a single scheduler completes the main job of a queue before the next
   job of that queue is retrieved. *)
THEOREM NobodyParkedOnAcyclicMemo == ASSUME AcyclicMemo PROVE LifoSpec => []Unparked
<1>1. IInv /\ ListOK /\ DfsInv /\ DrainInv => Unparked
  BY LevelsForbidCycles DEF DfsInv, DrainInv
<1>2. QED
  BY <1>1, SchedulerInvariant, LifoImplementsProtocol, DrainInvariant, PTL
==============================================================================
