--------------------------- MODULE DuplicateGroups ---------------------------
(***************************************************************************)
(* Duplicate groups of the memo.  During exploration a transformation may  *)
(* produce an expression that another group already holds: CEngine marks   *)
(* the two groups as duplicates.  Marks are links from a group to one with *)
(* a larger id.  After exploration CMemo::GroupMerge moves the expressions *)
(* of every marked group to its master and rehashes the memo, which may    *)
(* reveal new duplicates, until there are none; then the statistics that   *)
(* the new expressions made stale are reset and derived again, and another *)
(* search stage may begin.                                                 *)
(*                                                                         *)
(* GroupMerge and everything around it runs in one thread; the model takes *)
(* one step per iteration of each of its loops.  Groups and expressions    *)
(* are numbered in the order of creation, and the number of a group is its *)
(* id.  Scalar groups and physical expressions are left out.               *)
(***************************************************************************)
EXTENDS Naturals, Sequences, FiniteSets

CONSTANTS Query,        \* the initial memo: expression i is the one of group i
          Result,       \* shapes of transformation results: [op, arity]
          MaxExprs,     \* bound: expressions in the memo
          MaxGroups,    \* bound: groups in the memo
          MaxMarks,     \* bound: pairs of groups that transformations mark
          MaxStages,    \* stages of the search strategy
          MaxDepth      \* calls of FResetStats the stack has room for

ASSUME QueryAssumption == Len(Query) \in Nat \ {0}
ASSUME ChildrenAssumption == \A i \in 1..Len(Query) : Query[i].kids \in Seq(1..(i - 1))
ASSUME ResultAssumption == \A res \in Result : res.arity \in Nat
ASSUME BoundAssumption == {MaxExprs, MaxGroups, MaxMarks, MaxStages, MaxDepth} \subseteq Nat

VARIABLES
    pc,         \* the function that runs
    gexprs,     \* operator and child groups of each group expression, and
                \* (history) the group it was made for
    grp,        \* CGroupExpression::m_pgroup
    hidden,     \* expressions in m_listDupGExprs of their group
    at,         \* the bucket of the memo's hash table each is in
    circ,       \* expressions marked ecdCircularDependency
    dup,        \* dup[g]: CGroup::m_pgroupDuplicate, 0 for NULL
    root,       \* CMemo::m_pgroupRoot
    src, dst,   \* pgroupSrc and pgroupDest of AddDuplicateGrp
    toResolve,  \* groups ResolveDuplicateMaster is still to be called on
    target,     \* its pgroupTarget, 0 before it starts
    ret,        \* where MarkDuplicates and MergeGroup resume
    cursor,     \* the group GroupMerge is at
    toRehash,   \* FRehash's list of expressions
    fNewDup,    \* fNewDupGroups
    newOps,     \* groups with m_fHasNewLogicalOperators
    stats,      \* groups with m_pstats
    frames,     \* the calls of FResetStats on the stack
    stage,      \* CEngine::m_ulCurrSearchStage
    asserted,   \* history: the pairs InsertXformResult found equivalent
    before      \* history: stats when ResetStats was called

exprVars  == <<gexprs, grp, hidden, at, circ>>
markVars  == <<src, dst, toResolve, target, ret>>
mergeVars == <<cursor, toRehash, fNewDup>>
statsVars == <<newOps, stats, frames, before>>
vars == <<pc, exprVars, dup, root, markVars, mergeVars, statsVars, stage, asserted>>
-----------------------------------------------------------------------------
NoHash == <<>>
Groups == 1..Len(dup)

(* m_listGExprs of a group *)
InGroup(g) == {i \in DOMAIN grp : grp[i] = g /\ i \notin hidden}
Empty(g) == InGroup(g) = {}

(* CGroupExpression::operator[]: an emptied group stands for its duplicate *)
Child(k) == IF Empty(k) THEN dup[k] ELSE k
Kids(i) == {Child(gexprs[i].kids[k]) : k \in DOMAIN gexprs[i].kids}
Children(g) == UNION {Kids(i) : i \in InGroup(g)}

(* The groups of S and those reachable from them through groups of Via. *)
ReachStep(R, Via) == R \cup UNION {Children(g) : g \in R \cap Via}
ReachRounds(S, Via) ==
    LET r[n \in Nat] == IF n = 0 THEN S ELSE ReachStep(r[n - 1], Via)
    IN  r
ReachVia(S, Via) == ReachRounds(S, Via)[Len(dup)]
Reach(S) == ReachVia(S, Groups)

(* Mutant: a merged group keeps its own hash value. *)
Mut_HashValue(op, kids) == <<op, kids>>

(* CGroupExpression::HashValue over CGroup::HashValue: a group that has been
   merged hashes as its master.  Different values fall in different buckets. *)
HashValue(op, kids) ==
    <<op, [k \in DOMAIN kids |-> IF dup[kids[k]] # 0 /\ Empty(kids[k])
                                 THEN dup[kids[k]] ELSE kids[k]]>>

FDuplicateGroups(g, h) ==
    \/ g = h
    \/ g = dup[h]
    \/ h = dup[g]
    \/ dup[g] # 0 /\ dup[g] = dup[h]

Matches(op, kids, e) ==
    /\ e.op = op
    /\ Len(e.kids) = Len(kids)
    /\ \A k \in DOMAIN kids : FDuplicateGroups(kids[k], e.kids[k])

(* What a lookup in the memo's hash table may find. *)
Find(op, kids) ==
    {i \in DOMAIN grp : at[i] = HashValue(op, kids) /\ Matches(op, kids, gexprs[i])}

(* CGroup::Pstats *)
HasStats(g) == {g, dup[g]} \cap stats # {}

NewExpr(op, kids, g) == [op |-> op, kids |-> kids, home |-> g]
-----------------------------------------------------------------------------
Init ==
    /\ pc = "explore"
    /\ gexprs = [i \in 1..Len(Query) |-> NewExpr(Query[i].op, Query[i].kids, i)]
    /\ grp = [i \in 1..Len(Query) |-> i]
    /\ at = [i \in 1..Len(Query) |-> <<Query[i].op, Query[i].kids>>]
    /\ hidden = {} /\ circ = {}
    /\ dup = [i \in 1..Len(Query) |-> 0]
    /\ root = Len(Query)
    /\ src = 0 /\ dst = 0 /\ toResolve = <<>> /\ target = 0 /\ ret = "explore"
    /\ cursor = 0 /\ toRehash = {} /\ fNewDup = FALSE
    /\ newOps = 1..Len(Query) /\ stats = {} /\ frames = <<>>
    /\ stage = 1
    /\ asserted = {} /\ before = {}

(* Mutant: the link is added from the group given first. *)
Mut_MarkDuplicates(g, h, resume) ==
    /\ src' = g /\ dst' = h
    /\ toResolve' = <<g, h>> /\ target' = 0 /\ ret' = resume
    /\ pc' = "link"

(* CMemo::MarkDuplicates: the call of AddDuplicateGrp, whose source is the
   group with the smaller id, then ResolveDuplicateMaster on both groups. *)
MarkDuplicates(g, h, resume) ==
    /\ IF g > h THEN src' = h /\ dst' = g ELSE src' = g /\ dst' = h
    /\ toResolve' = <<g, h>> /\ target' = 0 /\ ret' = resume
    /\ pc' = "link"

(* An iteration of the loop of AddDuplicateGrp that follows a link. *)
FollowLink ==
    /\ pc = "link" /\ dup[src] \notin {0, dst}
    /\ IF dup[src] > dst THEN src' = dst /\ dst' = dup[src]
                         ELSE src' = dup[src] /\ dst' = dst
    /\ UNCHANGED <<pc, exprVars, dup, root, toResolve, target, ret, mergeVars,
                   statsVars, stage, asserted>>

(* The iteration that adds the link, or the end of the loop when it is there. *)
AddLink ==
    /\ pc = "link" /\ dup[src] \in {0, dst}
    /\ dup' = [dup EXCEPT ![src] = dst]
    /\ pc' = "resolve"
    /\ UNCHANGED <<exprVars, root, markVars, mergeVars, statsVars, stage, asserted>>

(* ResolveDuplicateMaster returns at once for a group without a link, else
   walks from its link. *)
ResolveStart ==
    /\ pc = "resolve" /\ toResolve # <<>> /\ target = 0
    /\ target' = dup[Head(toResolve)]
    /\ toResolve' = IF dup[Head(toResolve)] = 0 THEN Tail(toResolve) ELSE toResolve
    /\ UNCHANGED <<pc, exprVars, dup, root, src, dst, ret, mergeVars, statsVars,
                   stage, asserted>>

ResolveStep ==
    /\ pc = "resolve" /\ target # 0 /\ dup[target] # 0
    /\ target' = dup[target]
    /\ UNCHANGED <<pc, exprVars, dup, root, src, dst, toResolve, ret, mergeVars,
                   statsVars, stage, asserted>>

ResolveEnd ==
    /\ pc = "resolve" /\ target # 0 /\ dup[target] = 0
    /\ dup' = [dup EXCEPT ![Head(toResolve)] = target]
    /\ toResolve' = Tail(toResolve) /\ target' = 0
    /\ UNCHANGED <<pc, exprVars, root, src, dst, ret, mergeVars, statsVars, stage,
                   asserted>>

ResolveReturn ==
    /\ pc = "resolve" /\ toResolve = <<>>
    /\ pc' = ret
    /\ src' = 0 /\ dst' = 0 /\ ret' = "explore"
    /\ UNCHANGED <<exprVars, dup, root, toResolve, target, mergeVars, statsVars, stage,
                   asserted>>
-----------------------------------------------------------------------------
(* The end of CEngine::InsertXformResult for a result whose children are in
   the memo: PgroupInsert into the origin group, and the mark when the
   expression is in another group with the same output columns. *)
PgroupInsert(g, op, kids) ==
    \/ /\ Find(op, kids) = {} /\ Len(gexprs) < MaxExprs
       /\ gexprs' = Append(gexprs, NewExpr(op, kids, g))
       /\ grp' = Append(grp, g)
       /\ at' = Append(at, HashValue(op, kids))
       /\ newOps' = newOps \cup {g}
       /\ UNCHANGED <<pc, markVars, asserted>>
    \/ \E i \in Find(op, kids) :
         /\ grp[i] # g
         /\ Cardinality(asserted) < 2 * MaxMarks
         /\ MarkDuplicates(g, grp[i], "explore")
         /\ asserted' = asserted \cup {<<g, grp[i]>>, <<grp[i], g>>}
         /\ UNCHANGED <<gexprs, grp, at, newOps>>

(* Children of a result are groups with expressions, and it is over groups
   that are not above its own: cycles come from marks only. *)
CanBeBelow(k, g) == ~Empty(k) /\ g \notin Reach({k})

(* A transformation of an expression of a group the exploration reaches; the
   children of its result are groups of the memo, bound or found there. *)
InsertXformResult(g, res, kids) ==
    /\ pc = "explore" /\ ~Empty(g)
    /\ \A k \in DOMAIN kids : CanBeBelow(kids[k], g)
    /\ PgroupInsert(g, res.op, kids)
    /\ UNCHANGED <<hidden, circ, dup, root, mergeVars, stats, frames, before,
                   stage>>

(* The same when the child of the result is not in the memo:
   InsertExpressionChildren makes a group for it first. *)
InsertNewGroup(g, res, child, kids) ==
    /\ pc = "explore" /\ ~Empty(g)
    /\ Len(gexprs) + 1 < MaxExprs /\ Len(dup) < MaxGroups
    /\ \A k \in DOMAIN kids : CanBeBelow(kids[k], g)
    /\ Find(child.op, kids) = {}
    /\ LET n == Len(dup) + 1
       IN  /\ gexprs' = gexprs \o <<NewExpr(child.op, kids, n), NewExpr(res.op, <<n>>, g)>>
           /\ grp' = grp \o <<n, g>>
           /\ at' = at \o <<HashValue(child.op, kids), <<res.op, <<n>>>>>>
           /\ dup' = Append(dup, 0)
           /\ newOps' = newOps \cup {n, g}
    /\ UNCHANGED <<pc, hidden, circ, root, markVars, mergeVars, stats, frames,
                   before, stage, asserted>>

(* CGroupExpression::ContainsCircularDependencies of an unexplored group *)
Circular(i) ==
    \/ i \in circ
    \/ \E k \in DOMAIN gexprs[i].kids : dup[gexprs[i].kids[k]] = grp[i]

(* A return of the recursion of PstatsRecursiveDerive, which transformations
   that need statistics start: PgexprBestPromise checks every expression of
   the group and passes over the circular ones. *)
PstatsRecursiveDerive(g) ==
    /\ pc = "explore" /\ g \notin stats /\ dup[g] = 0
    /\ \E i \in InGroup(g) : ~Circular(i) /\ \A k \in Kids(i) : HasStats(k)
    /\ stats' = stats \cup {g}
    /\ circ' = circ \cup {i \in InGroup(g) : Circular(i)}
    /\ UNCHANGED <<pc, gexprs, grp, hidden, at, dup, root, markVars, mergeVars, newOps, frames, before, stage, asserted>>

(* The exploration job of the root completes. *)
FinishExploration ==
    /\ pc = "explore"
    /\ cursor' = Len(dup)
    /\ pc' = "merge"
    /\ UNCHANGED <<exprVars, dup, root, markVars, toRehash, fNewDup, newOps, stats,
                   frames, before, stage, asserted>>
-----------------------------------------------------------------------------
(* GroupMerge goes through the list of groups, the newest first.  MergeGroup
   does nothing for a group that is not marked ... *)
MergeSkip ==
    /\ pc = "merge" /\ cursor # 0 /\ dup[cursor] = 0
    /\ cursor' = cursor - 1
    /\ UNCHANGED <<pc, exprVars, dup, root, markVars, toRehash, fNewDup, statsVars,
                   stage, asserted>>

(* ... resolves the master of one that is ... *)
MergeGroup ==
    /\ pc = "merge" /\ cursor # 0 /\ dup[cursor] # 0
    /\ toResolve' = <<cursor>> /\ target' = 0 /\ ret' = "move"
    /\ pc' = "resolve"
    /\ UNCHANGED <<exprVars, dup, root, src, dst, mergeVars, statsVars, stage, asserted>>

(* ... and moves its expressions there. *)
MoveExpressions ==
    /\ pc = "move"
    /\ grp' = [i \in DOMAIN grp |-> IF i \in InGroup(cursor) THEN dup[cursor] ELSE grp[i]]
    /\ newOps' = IF Empty(cursor) THEN newOps ELSE newOps \cup {dup[cursor]}
    /\ cursor' = cursor - 1
    /\ pc' = "merge"
    /\ UNCHANGED <<gexprs, hidden, at, circ, dup, root, markVars, toRehash, fNewDup,
                   stats, frames, before, stage, asserted>>

(* Mutant: FRehash keeps the expressions in the buckets they were in. *)
Mut_KeepTable ==
    /\ pc = "merge" /\ cursor = 0
    /\ root' = IF dup[root] # 0 THEN dup[root] ELSE root
    /\ toRehash' = {}
    /\ UNCHANGED at
    /\ fNewDup' = FALSE
    /\ pc' = "rehash"
    /\ UNCHANGED <<gexprs, grp, hidden, circ, dup, markVars, cursor, statsVars, stage,
                   asserted>>

(* Mutant: fNewDupGroups is not cleared before the next pass. *)
Mut_StaleFlag ==
    /\ pc = "merge" /\ cursor = 0
    /\ root' = IF dup[root] # 0 THEN dup[root] ELSE root
    /\ toRehash' = (DOMAIN grp) \ hidden
    /\ at' = [i \in DOMAIN at |-> NoHash]
    /\ UNCHANGED fNewDup
    /\ pc' = "rehash"
    /\ UNCHANGED <<gexprs, grp, hidden, circ, dup, markVars, cursor, statsVars, stage,
                   asserted>>

(* After the last group: the root moves to its master, and FRehash empties
   the hash table into its list. *)
StartRehash ==
    /\ pc = "merge" /\ cursor = 0
    /\ root' = IF dup[root] # 0 THEN dup[root] ELSE root
    /\ toRehash' = (DOMAIN grp) \ hidden
    /\ at' = [i \in DOMAIN at |-> NoHash]
    /\ fNewDup' = FALSE
    /\ pc' = "rehash"
    /\ UNCHANGED <<gexprs, grp, hidden, circ, dup, markVars, cursor, statsVars, stage,
                   asserted>>

(* An expression that FRehash does not find goes back into the table. *)
RehashInsert(i) ==
    /\ pc = "rehash" /\ i \in toRehash
    /\ Find(gexprs[i].op, gexprs[i].kids) = {}
    /\ at' = [at EXCEPT ![i] = HashValue(gexprs[i].op, gexprs[i].kids)]
    /\ toRehash' = toRehash \ {i}
    /\ UNCHANGED <<pc, gexprs, grp, hidden, circ, dup, root, markVars, cursor, fNewDup,
                   statsVars, stage, asserted>>

(* The condition under which FRehash marks the groups of two expressions that
   match. *)
FNewDuplicates(g, h) ==
    g # h /\ ((dup[g] = 0 /\ dup[h] = 0) \/ dup[g] # dup[h])

(* An expression that it finds moves to the list of duplicates of its group,
   and the two groups are marked. *)
RehashDuplicate(i) ==
    /\ pc = "rehash" /\ i \in toRehash
    /\ \E f \in Find(gexprs[i].op, gexprs[i].kids) :
         IF FNewDuplicates(grp[i], grp[f])
         THEN MarkDuplicates(grp[i], grp[f], "rehash") /\ fNewDup' = TRUE
         ELSE UNCHANGED <<pc, markVars, fNewDup>>
    /\ hidden' = hidden \cup {i}
    /\ toRehash' = toRehash \ {i}
    /\ UNCHANGED <<gexprs, grp, at, circ, dup, root, cursor, statsVars, stage, asserted>>

(* FRehash found new duplicates: GroupMerge starts again. *)
MergeAgain ==
    /\ pc = "rehash" /\ toRehash = {} /\ fNewDup
    /\ cursor' = Len(dup)
    /\ pc' = "merge"
    /\ UNCHANGED <<exprVars, dup, root, markVars, toRehash, fNewDup, statsVars, stage,
                   asserted>>
-----------------------------------------------------------------------------
(* A call of FResetStats that gets past its early return. *)
Frame(g) == [grp |-> g, todo |-> Children(g), reset |-> g \in newOps]

Top == frames[Len(frames)]
Below == SubSeq(frames, 1, Len(frames) - 1)

(* The end of GroupMerge, and the call of CMemo::ResetStats: FResetStats
   returns early for a group without statistics. *)
ResetStats ==
    /\ pc = "rehash" /\ toRehash = {} /\ ~fNewDup
    /\ before' = stats
    /\ IF HasStats(root) THEN pc' = "reset" /\ frames' = <<Frame(root)>>
                         ELSE pc' = "derive" /\ frames' = <<>>
    /\ UNCHANGED <<exprVars, dup, root, markVars, mergeVars, newOps, stats,
                   stage, asserted>>

(* FResetStats calls itself on a child: an early return, a new frame, or the
   exception of GPOS_CHECK_STACK_SIZE. *)
VisitChild(c) ==
    /\ pc = "reset" /\ c \in Top.todo
    /\ LET rest == [Top EXCEPT !.todo = @ \ {c}]
       IN  \/ /\ ~HasStats(c)
              /\ frames' = Append(Below, [rest EXCEPT !.reset = TRUE])
              /\ UNCHANGED pc
           \/ /\ HasStats(c) /\ Len(frames) < MaxDepth
              /\ frames' = Below \o <<rest, Frame(c)>>
              /\ UNCHANGED pc
           \/ /\ HasStats(c) /\ Len(frames) = MaxDepth
              /\ pc' = "raised"
              /\ UNCHANGED frames
    /\ UNCHANGED <<exprVars, dup, root, markVars, mergeVars, newOps, stats,
                   before, stage, asserted>>

(* Mutant: the answer of the children is not passed on. *)
Mut_ReturnReset ==
    /\ pc = "reset" /\ Top.todo = {}
    /\ stats' = IF Top.reset THEN stats \ {Top.grp} ELSE stats
    /\ frames' = Below
    /\ pc' = IF Len(frames) = 1 THEN "derive" ELSE "reset"
    /\ UNCHANGED <<exprVars, dup, root, markVars, mergeVars, newOps, before,
                   stage, asserted>>

(* It has visited all children: it resets the group's own statistics if need
   be, and returns to its caller. *)
ReturnReset ==
    /\ pc = "reset" /\ Top.todo = {}
    /\ stats' = IF Top.reset THEN stats \ {Top.grp} ELSE stats
    /\ frames' = IF Top.reset /\ Len(frames) > 1
                 THEN [Below EXCEPT ![Len(Below)].reset = TRUE] ELSE Below
    /\ pc' = IF Len(frames) = 1 THEN "derive" ELSE "reset"
    /\ UNCHANGED <<exprVars, dup, root, markVars, mergeVars, newOps, before,
                   stage, asserted>>

(* CEngine::DeriveStats and CMemo::DeriveStatsIfAbsent *)
DeriveStats ==
    /\ pc = "derive"
    /\ stats' = stats \cup {g \in Groups : dup[g] = 0}
    /\ before' = {}
    /\ pc' = "search"
    /\ UNCHANGED <<exprVars, dup, root, markVars, mergeVars, newOps, frames,
                   stage, asserted>>

(* The rest of the stage, which leaves this state alone, FinalizeSearchStage
   and CMemo::ResetGroupStates *)
FinalizeSearchStage ==
    /\ pc = "search" /\ stage < MaxStages
    /\ stage' = stage + 1
    /\ newOps' = {}
    /\ pc' = "explore"
    /\ UNCHANGED <<exprVars, dup, root, markVars, mergeVars, stats, frames, before, asserted>>
-----------------------------------------------------------------------------
Explore ==
    \/ \E g \in Groups, res \in Result : \E kids \in [1..res.arity -> Groups] :
         InsertXformResult(g, res, kids)
    \/ \E g \in Groups, res \in Result, child \in Result :
         /\ res.arity = 1
         /\ \E kids \in [1..child.arity -> Groups] : InsertNewGroup(g, res, child, kids)
    \/ \E g \in Groups : PstatsRecursiveDerive(g)

Mark == FollowLink \/ AddLink \/ ResolveStart \/ ResolveStep \/ ResolveEnd \/ ResolveReturn

Finalize ==
    \/ MergeSkip \/ MergeGroup \/ MoveExpressions
    \/ StartRehash \/ MergeAgain
    \/ \E i \in toRehash : RehashInsert(i) \/ RehashDuplicate(i)
    \/ ResetStats \/ ReturnReset
    \/ \E c \in Groups : VisitChild(c)
    \/ DeriveStats

Next == Explore \/ Mark \/ FinishExploration \/ Finalize \/ FinalizeSearchStage

Spec == Init /\ [][Next]_vars
FairSpec == Spec /\ WF_vars(Mark \/ Finalize)
-----------------------------------------------------------------------------
(* Types *)
MemoTypeOK ==
    /\ pc \in {"explore", "link", "resolve", "merge", "move", "rehash", "reset",
               "derive", "search", "raised"}
    /\ \A i \in DOMAIN gexprs :
         /\ grp[i] \in Groups
         /\ \A k \in DOMAIN gexprs[i].kids : gexprs[i].kids[k] \in Groups
    /\ \A g \in Groups : dup[g] \in Groups \cup {0}
    /\ root \in Groups /\ target \in Groups \cup {0}
    /\ cursor \in 0..Len(dup)
    /\ toRehash \subseteq DOMAIN gexprs
    /\ newOps \cup stats \subseteq Groups

(* The links ascend: AddDuplicateGrp makes links from smaller to larger ids
   only, whatever chains it has to follow and swap over, so that they have no
   cycle and ResolveDuplicateMaster, which asserts it, ends. *)
LinksAscend == \A g \in Groups : dup[g] = 0 \/ dup[g] > g

(* When GroupMerge is done, no marked group holds expressions, every link
   goes straight to a group that holds some, and the root is such a group: so
   operator[] never gives a group without expressions. *)
MergeComplete ==
    pc \in {"reset", "derive", "search"} =>
      /\ \A g \in Groups : Empty(g) <=> dup[g] # 0
      /\ \A g \in Groups : dup[g] # 0 => ~Empty(dup[g])
      /\ ~Empty(root)

Master(g) == IF dup[g] = 0 THEN g ELSE dup[g]

(* The least equivalence of groups that contains the asserted pairs and, with
   the children of two expressions of the same operator, their home groups.
   Every round adds a pair of groups or is the last. *)
CongruenceStep(R) ==
    R \cup {<<p[1][1], p[2][2]>> : p \in {q \in R \X R : q[1][2] = q[2][1]}}
      \cup {<<gexprs[p[1]].home, gexprs[p[2]].home>> :
              p \in {q \in (DOMAIN gexprs) \X (DOMAIN gexprs) :
                       /\ gexprs[q[1]].op = gexprs[q[2]].op
                       /\ Len(gexprs[q[1]].kids) = Len(gexprs[q[2]].kids)
                       /\ \A k \in DOMAIN gexprs[q[1]].kids :
                            <<gexprs[q[1]].kids[k], gexprs[q[2]].kids[k]>> \in R}}
CongruenceStart == {<<g, g>> : g \in Groups} \cup asserted
CongruenceRounds ==
    LET c[n \in Nat] == IF n = 0 THEN CongruenceStart ELSE CongruenceStep(c[n - 1])
    IN  c
Congruence == CongruenceRounds[Len(dup) * Len(dup)]

(* GroupMerge computes the congruence closure of the marks: it merges all
   groups that the marks and the expressions they share make equal, cascades
   through parents included, and no others. *)
ExactDuplicates ==
    pc = "derive" =>
      LET R == Congruence
      IN  \A g, h \in Groups : Master(g) = Master(h) <=> <<g, h>> \in R

(* The hash table is current whenever expressions are looked up for a
   transformation: each expression of a group is in the bucket of the value
   it has now, and outside of exploration no two of them match. *)
TableCurrent ==
    pc \in {"explore", "reset", "derive", "search"} =>
      \A i \in DOMAIN gexprs :
        i \notin hidden =>
          /\ at[i] = HashValue(gexprs[i].op, gexprs[i].kids)
          /\ pc # "explore" => Find(gexprs[i].op, gexprs[i].kids) = {i}

(* Of the groups that FResetStats reaches through groups with statistics,
   those that keep them are the ones from which it reaches no group with new
   expressions or without statistics: its early return at groups already
   reset, and groups shared by many parents, change nothing. *)
ResetExact ==
    pc = "derive" =>
      LET had == {g \in Groups : {g, dup[g]} \cap before # {}}
      IN  \A g \in ReachVia({root}, had) \cap had :
            HasStats(g) <=> ReachVia({g}, had) \cap (newOps \cup (Groups \ had)) = {}

(* GroupMerge and the reset of statistics end. *)
MergeEnds == (pc = "merge") ~> (pc \in {"search", "raised"})

(* GroupMerge merges what is equal, and finishes what it merges. *)
MergeInv == MemoTypeOK /\ MergeComplete /\ ExactDuplicates
=============================================================================
