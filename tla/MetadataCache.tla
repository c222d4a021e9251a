---------------------------- MODULE MetadataCache ----------------------------
(***************************************************************************)
(* The metadata cache (CMDCache over CCache) and the optimizations that    *)
(* read it through a CMDAccessor.  The cache is a hash table whose clock   *)
(* hand is an invalid element kept in one of the chains; it counts its     *)
(* bytes and evicts entries when they exceed a quota.  An object carries   *)
(* one reference of its entry and one of the optimization that has it in   *)
(* its local table.  Fetching an object asks a provider, which may ask the *)
(* same accessor for further objects before it answers.  The catalog can   *)
(* change at any time; the next optimization then replaces the cache.      *)
(* One optimization runs at a time: it is a task of the only worker.       *)
(***************************************************************************)
EXTENDS Integers, Sequences, FiniteSets, SequencesExt, FiniteSetsExt

CONSTANTS
    Key,            \* metadata ids
    Ctas,           \* those of type EmdidGPDBCtas, which bypass the cache
    Bucket,         \* Bucket[k]: CSyncHashtable::GetBucketIndex of a key
    NumBuckets,
    Bytes,          \* Bytes[k]: the size of the pool of an object
    Needs,          \* Needs[k]: what the provider asks for while it fetches k
    Quotas,         \* the values optimizer_mdcache_size takes; 0: unlimited
    ClockInit,      \* CCACHE_GCLOCK_INIT_COUNTER
    MaxObjects      \* bound: objects in existence

ASSUME CacheAssumption ==
    /\ Ctas \subseteq Key
    /\ NumBuckets \in Nat \ {0}
    /\ Bucket \in [Key -> 0 .. NumBuckets - 1]
    /\ Bytes \in [Key -> Nat \ {0}]
    /\ Needs \in [Key -> SUBSET Key]
    /\ Quotas \subseteq Nat
    /\ ClockInit \in Nat \ {0}
    /\ MaxObjects \in Nat

Object == 1 .. MaxObjects
Invalid == 0        \* the invalid element of CSyncHashtableIter
None == -1          \* NULL

VARIABLES
    m_pcache,               \* the cache exists
    chain,                  \* chain[b]: entries of bucket b, head first
    key,                    \* key[o]: the metadata id of an object
    refs,                   \* refs[o]: its reference count
    counter,                \* counter[o]: gclock counter of its entry
    alive,                  \* objects whose memory pool exists
    m_cache_size,
    m_cache_quota,
    m_bucket_idx,           \* the bucket the clock hand is at
    m_clock_hand_advanced,
    local,                  \* the local table of the accessor
    fetch,                  \* keys it is fetching, innermost last
    fetched,                \* an object that is about to be inserted
    pc,                     \* "idle", "run", "evict" or "evicted"
    retry, freed, goal,     \* locals of EvictEntries
    changed,                \* MDCacheNeedsReset: a change was not yet seen
    old,                    \* objects older than the last change (history)
    since                   \* the running optimization saw one (history)

table == <<m_pcache, chain, m_bucket_idx, m_clock_hand_advanced>>
objects == <<key, refs, counter, alive>>
locals == <<retry, freed, goal>>
history == <<changed, old, since>>
vars == <<table, objects, m_cache_size, m_cache_quota, local, fetch, fetched,
          pc, locals, history>>

BucketIdx == 0 .. NumBuckets - 1
Cached == {o \in Object : \E b \in BucketIdx : Contains(chain[b], o)}
Fresh == Min(Object \ alive)    \* the object that is allocated next

(* CSyncHashtableAccessByKey::Find: the first entry of a chain that has    *)
(* the key.  CCache::Get also skips entries that are marked for deletion,  *)
(* which the optimizer never does.                                         *)
Find(k) ==
    LET c == chain[Bucket[k]]
        match == {i \in DOMAIN c : c[i] # Invalid /\ key[c[i]] = k}
    IN  IF match = {} THEN None ELSE c[Min(match)]

(* CMDAccessor::GetImdObj: the local table already holds the object. *)
InLocal(k) == \E o \in local : key[o] = k

(* Mutant: a new cache starts with the size of the one it replaces. *)
Mut_EmptyTable ==
    /\ chain' = [b \in BucketIdx |-> <<>>]
    /\ m_bucket_idx' = 0
    /\ m_clock_hand_advanced' = FALSE
    /\ UNCHANGED m_cache_size

(* CCache::CCache: an empty table with the hand at its first bucket. *)
EmptyTable ==
    /\ chain' = [b \in BucketIdx |-> <<>>]
    /\ m_bucket_idx' = 0
    /\ m_clock_hand_advanced' = FALSE
    /\ m_cache_size' = 0

Init ==
    /\ m_pcache = FALSE
    /\ chain = [b \in BucketIdx |-> <<>>]
    /\ key \in [Object -> {None}]
    /\ refs = [o \in Object |-> 0]
    /\ counter = [o \in Object |-> 0]
    /\ alive = {}
    /\ m_cache_size = 0 /\ m_cache_quota = 0
    /\ m_bucket_idx = 0 /\ m_clock_hand_advanced = FALSE
    /\ local = {} /\ fetch = <<>> /\ fetched = None
    /\ pc = "idle"
    /\ retry = 0 /\ freed = 0 /\ goal = 0
    /\ changed = TRUE /\ old = {} /\ since = FALSE

(* The memory of the objects of D is released. *)
Destroy(D, refsNow) ==
    /\ alive' = alive \ D
    /\ refs' = [o \in Object |-> IF o \in D THEN 0 ELSE refsNow[o]]
    /\ key' = [o \in Object |-> IF o \in D THEN None ELSE key[o]]
    /\ counter' = [o \in Object |-> IF o \in D THEN 0 ELSE counter[o]]
    /\ old' = old \ D
-----------------------------------------------------------------------------
(* The catalog changes: an invalidation callback counts it. *)
CatalogChange ==
    /\ pc \in {"idle", "run"}
    /\ changed' = TRUE
    /\ old' = alive
    /\ since' = (pc = "run")
    /\ UNCHANGED <<table, objects, m_cache_size, m_cache_quota, local, fetch,
                   fetched, pc, locals>>

OverQuota(size, quota) == quota # 0 /\ size > quota

(* CCache::EvictEntries: what is above nine tenths of the quota is to go. *)
EvictEntries(quota) ==
    /\ pc' = "evict"
    /\ goal' = (10 * m_cache_size - 9 * quota) \div 10
    /\ retry' = 0 /\ freed' = 0

NoEviction == retry' = 0 /\ freed' = 0 /\ goal' = 0
Skip == pc' = "evicted" /\ NoEviction

(* CWorkerPoolManager::RegisterWorker: gpos_exec registers a worker for    *)
(* the time its task runs, and asserts that none is registered; nothing    *)
(* that an optimization calls may start another one.                       *)
NoWorker == pc = "idle"

(* Mutant: a changed quota is applied before a change of the catalog is    *)
(* looked at.                                                              *)
Mut_OptimizeTask(quota) ==
    /\ NoWorker
    /\ changed' = FALSE
    /\ m_pcache' = TRUE
    /\ m_cache_quota' = quota
    /\ IF ~m_pcache \/ (changed /\ quota = m_cache_quota)
       THEN EmptyTable /\ Destroy(Cached, refs) /\ Skip
       ELSE /\ IF OverQuota(m_cache_size, quota) THEN EvictEntries(quota) ELSE Skip
            /\ UNCHANGED <<chain, m_bucket_idx, m_clock_hand_advanced, objects,
                           m_cache_size, old>>
    /\ UNCHANGED <<local, fetch, fetched, since>>

(* COptTasks::OptimizeTask up to the construction of the accessor: the     *)
(* cache is created, replaced or resized.                                  *)
OptimizeTask(quota) ==
    /\ NoWorker
    /\ changed' = FALSE
    /\ m_pcache' = TRUE
    /\ m_cache_quota' = quota
    /\ IF ~m_pcache \/ changed
       THEN EmptyTable /\ Destroy(Cached, refs) /\ Skip
       ELSE /\ IF quota # m_cache_quota /\ OverQuota(m_cache_size, quota)
               THEN EvictEntries(quota) ELSE Skip
            /\ UNCHANGED <<chain, m_bucket_idx, m_clock_hand_advanced, objects,
                           m_cache_size, old>>
    /\ UNCHANGED <<local, fetch, fetched, since>>

(* ... and the accessor, with an empty local table. *)
ConstructAccessor ==
    /\ pc = "evicted" /\ fetched = None
    /\ pc' = "run"
    /\ NoEviction
    /\ UNCHANGED <<table, objects, m_cache_size, m_cache_quota, local, fetch, fetched, history>>

(* The accessor asks for k: the optimizer does, or the provider while it   *)
(* fetches another object.                                                 *)
Asks(k) ==
    /\ pc = "run"
    /\ fetch # <<>> => k \in Needs[Last(fetch)]
    /\ ~InLocal(k)

(* Mutant: the reference of the cache accessor is never given up. *)
Mut_GetImdObj(k) ==
    /\ Asks(k) /\ Find(k) # None
    /\ LET o == Find(k)
       IN  /\ refs' = [refs EXCEPT ![o] = @ + 2]
           /\ counter' = [counter EXCEPT ![o] = ClockInit]
           /\ local' = local \cup {o}
    /\ UNCHANGED <<table, key, alive, m_cache_size, m_cache_quota,
                   fetch, fetched, pc, locals, history>>

(* CMDAccessor::GetImdObj finds the object in the cache.  Lookup takes one *)
(* reference for the cache accessor, which is given up at the end, and one *)
(* for the local table.                                                    *)
GetImdObj(k) ==
    /\ Asks(k) /\ Find(k) # None
    /\ LET o == Find(k)
       IN  /\ refs' = [refs EXCEPT ![o] = @ + 1]
           /\ counter' = [counter EXCEPT ![o] = ClockInit]
           /\ local' = local \cup {o}
    /\ UNCHANGED <<table, key, alive, m_cache_size, m_cache_quota,
                   fetch, fetched, pc, locals, history>>

(* It does not: the provider is asked. *)
GetMDObjDXLStr(k) ==
    /\ Asks(k) /\ Find(k) = None
    /\ ~Contains(fetch, k)
    /\ fetch' = Append(fetch, k)
    /\ UNCHANGED <<table, objects, m_cache_size, m_cache_quota, local, fetched,
                   pc, locals, history>>

(* The object is built from what the provider answered. *)
NewObject(k) ==
    /\ alive' = alive \cup {Fresh}
    /\ key' = [key EXCEPT ![Fresh] = k]
    /\ refs' = [refs EXCEPT ![Fresh] = 1]
    /\ UNCHANGED counter

(* An object of a CTAS id goes straight to the local table. *)
ParseCtas ==
    /\ pc = "run" /\ fetch # <<>> /\ Object # alive
    /\ Last(fetch) \in Ctas
    /\ NewObject(Last(fetch))
    /\ local' = local \cup {Fresh}
    /\ fetch' = Front(fetch)
    /\ UNCHANGED <<table, m_cache_size, m_cache_quota, fetched, pc, locals,
                   history>>

(* Any other is inserted into the cache, which may have to evict first. *)
ParseDXLToIMDIdCacheObj ==
    /\ pc = "run" /\ fetch # <<>> /\ Object # alive
    /\ Last(fetch) \notin Ctas
    /\ NewObject(Last(fetch))
    /\ fetched' = Fresh
    /\ IF OverQuota(m_cache_size, m_cache_quota)
       THEN EvictEntries(m_cache_quota) ELSE Skip
    /\ UNCHANGED <<table, m_cache_size, m_cache_quota, local, fetch, history>>

(* CCacheAccessor::Insert with InsertEntry, the local table, and the end   *)
(* of the cache accessor.  If the key is taken the entry found is held     *)
(* until then, and the pool of the new object is destroyed with it.        *)
Insert ==
    /\ pc = "evicted" /\ fetched # None
    /\ pc' = "run"
    /\ fetch' = Front(fetch)
    /\ fetched' = None
    /\ local' = IF InLocal(key[fetched]) THEN local ELSE local \cup {fetched}
    /\ LET k == key[fetched]
           found == Find(k)
           held == IF InLocal(k) THEN 0 ELSE 1
       IN  IF found = None
           THEN /\ chain' = [chain EXCEPT ![Bucket[k]] = <<fetched>> \o @]
                /\ m_cache_size' = m_cache_size + Bytes[k]
                /\ refs' = [refs EXCEPT ![fetched] = 1 + held]
                /\ counter' = [counter EXCEPT ![fetched] = ClockInit]
                /\ UNCHANGED <<key, alive, old>>
           ELSE /\ alive' = alive \ {fetched} /\ old' = old \ {fetched}
                /\ key' = [key EXCEPT ![fetched] = None]
                /\ refs' = [refs EXCEPT ![fetched] = 0]
                /\ counter' = [counter EXCEPT ![found] = ClockInit]
                /\ UNCHANGED <<chain, m_cache_size>>
    /\ NoEviction
    /\ UNCHANGED <<m_pcache, m_bucket_idx, m_clock_hand_advanced, m_cache_quota, changed, since>>
-----------------------------------------------------------------------------
(* CSyncHashtableIter.  The hand is the invalid element in front of the    *)
(* entry it points at.                                                     *)
Inserted == Contains(chain[m_bucket_idx], Invalid)

(* the position of the hand in its chain *)
Hand(c) == SelectInSeq(c, LAMBDA e : e = Invalid)

(* InsertInvalidElement: at the head of the first chain with an entry *)
InsertInvalidElement(ch, from) ==
    LET filled == {b \in from .. NumBuckets - 1 : ch[b] # <<>>}
    IN  IF filled = {} THEN [idx |-> NumBuckets, ch |-> ch]
        ELSE [idx |-> Min(filled),
              ch |-> [ch EXCEPT ![Min(filled)] = <<Invalid>> \o @]]

(* Advance, with AdvanceInvalidElement *)
Advance ==
    IF m_bucket_idx \notin BucketIdx \/ ~Inserted
    THEN InsertInvalidElement(chain, m_bucket_idx)
    ELSE LET c == chain[m_bucket_idx]
             p == Hand(c)
         IN  IF p + 1 < Len(c)
             THEN [idx |-> m_bucket_idx,
                   ch |-> [chain EXCEPT ![m_bucket_idx] =
                             [c EXCEPT ![p] = c[p + 1], ![p + 1] = Invalid]]]
             ELSE InsertInvalidElement(
                    [chain EXCEPT ![m_bucket_idx] = RemoveAt(c, p)],
                    m_bucket_idx + 1)

(* Value, with FirstValid: the entry behind the hand *)
Value(c) == IF Hand(c) < Len(c) THEN c[Hand(c) + 1] ELSE None

(* Mutant: the hand moves only when it is not in the table. *)
Mut_HandNext ==
    IF m_bucket_idx \in BucketIdx /\ Inserted
    THEN [idx |-> m_bucket_idx, ch |-> chain] ELSE Advance

(* The hand for the next iteration; it is not moved after a removal. *)
HandNext ==
    IF m_clock_hand_advanced THEN [idx |-> m_bucket_idx, ch |-> chain] ELSE Advance

(* An entry can be evicted that is cold and that nobody else refers to. *)
Evictable(o) == counter[o] = 0 /\ refs[o] = 1

(* DecrementGClockCounter, unless the counter is zero *)
CountDown(o) == [counter EXCEPT ![o] = IF @ = 0 THEN 0 ELSE @ - 1]

(* An iteration of EvictEntriesOnePass: an entry with counter 0 that       *)
(* nobody else refers to is removed and its object destroyed, which moves  *)
(* the hand; a counter above 0 is decremented.                             *)
EvictEntriesOnePass ==
    /\ pc = "evict" /\ freed < goal
    /\ LET h == HandNext
           o == Value(h.ch[h.idx])
       IN  /\ h.idx < NumBuckets
           /\ m_bucket_idx' = h.idx
           /\ IF o # None /\ Evictable(o)
              THEN /\ chain' = [h.ch EXCEPT ![h.idx] = RemoveAt(@, Hand(@) + 1)]
                   /\ m_clock_hand_advanced' = TRUE
                   /\ m_cache_size' = m_cache_size - Bytes[key[o]]
                   /\ freed' = freed + Bytes[key[o]]
                   /\ Destroy({o}, refs)
              ELSE /\ chain' = h.ch
                   /\ m_clock_hand_advanced' = FALSE
                   /\ counter' = IF o # None THEN CountDown(o) ELSE counter
                   /\ UNCHANGED <<m_cache_size, freed, key, refs, alive, old>>
    /\ UNCHANGED <<m_pcache, m_cache_quota, local, fetch, fetched, pc, retry,
                   goal, changed, since>>

(* Mutant: one pass too few. *)
Mut_Passes ==
    /\ pc = "evict" /\ freed < goal
    /\ HandNext.idx = NumBuckets
    /\ chain' = HandNext.ch
    /\ m_bucket_idx' = 0
    /\ retry' = retry + 1
    /\ pc' = IF retry' < ClockInit THEN "evict" ELSE "evicted"
    /\ UNCHANGED <<m_pcache, m_clock_hand_advanced, objects, m_cache_size,
                   m_cache_quota, local, fetch, fetched, freed, goal, history>>

(* The pass ends with the table: the hand is rewound, and all but the last *)
(* pass are followed by another one.                                       *)
Rewind ==
    /\ pc = "evict" /\ freed < goal
    /\ HandNext.idx = NumBuckets
    /\ chain' = HandNext.ch
    /\ m_bucket_idx' = 0
    /\ retry' = retry + 1
    /\ pc' = IF retry' < ClockInit + 1 THEN "evict" ELSE "evicted"
    /\ UNCHANGED <<m_pcache, m_clock_hand_advanced, objects, m_cache_size,
                   m_cache_quota, local, fetch, fetched, freed, goal, history>>

(* Enough has been freed. *)
EvictionDone ==
    /\ pc = "evict" /\ freed >= goal
    /\ pc' = "evicted"
    /\ UNCHANGED <<table, objects, m_cache_size, m_cache_quota, local, fetch,
                   fetched, locals, history>>
-----------------------------------------------------------------------------
(* The accessor is destroyed and lets go of the objects in its table; what *)
(* nobody refers to is destroyed.  Then the cache is, if it is shut down.  *)
(* The task ends with it, and its worker is removed.                       *)
DestroyAccessor(shutdown) ==
    LET released == [o \in Object |->
                       IF o \in local THEN refs[o] - 1 ELSE refs[o]]
        unused == {o \in local : released[o] = 0}
    IN  /\ local' = {}
        /\ since' = FALSE
        /\ pc' = "idle"
        /\ IF shutdown
           THEN m_pcache' = FALSE /\ EmptyTable /\ Destroy(unused \cup Cached, released)
           ELSE UNCHANGED <<table, m_cache_size>> /\ Destroy(unused, released)

(* The optimization ends; without optimizer_metadata_caching the cache is  *)
(* shut down.                                                              *)
EndOptimization(caching) ==
    /\ pc = "run" /\ fetch = <<>>
    /\ DestroyAccessor(~caching)
    /\ UNCHANGED <<m_cache_quota, fetch, fetched, locals, changed>>

(* An exception ends it, in a provider for instance; the cache is shut     *)
(* down.                                                                   *)
RaiseException ==
    /\ pc = "run"
    /\ DestroyAccessor(TRUE)
    /\ fetch' = <<>>
    /\ UNCHANGED <<m_cache_quota, fetched, locals, changed>>

Next ==
    \/ CatalogChange
    \/ \E quota \in Quotas : OptimizeTask(quota)
    \/ ConstructAccessor
    \/ \E k \in Key : GetImdObj(k) \/ GetMDObjDXLStr(k)
    \/ ParseCtas
    \/ ParseDXLToIMDIdCacheObj
    \/ Insert
    \/ EvictEntriesOnePass
    \/ Rewind
    \/ EvictionDone
    \/ \E caching \in BOOLEAN : EndOptimization(caching)
    \/ RaiseException

CacheSpec == Init /\ [][Next]_vars

(* An eviction runs to its end: nothing in it waits. *)
FairCacheSpec ==
    CacheSpec /\ WF_vars(EvictEntriesOnePass \/ Rewind \/ EvictionDone)
-----------------------------------------------------------------------------
(* The type of the state; the counters of entries stay in their range. *)
CacheTypeOK ==
    /\ m_pcache \in BOOLEAN
    /\ \A b \in BucketIdx : ToSet(chain[b]) \subseteq Object \cup {Invalid}
    /\ key \in [Object -> Key \cup {None}]
    /\ refs \in [Object -> Nat]
    /\ counter \in [Object -> 0 .. ClockInit]
    /\ alive \subseteq Object
    /\ m_cache_size \in Nat /\ m_cache_quota \in Quotas \cup {0}
    /\ m_bucket_idx \in 0 .. NumBuckets
    /\ m_clock_hand_advanced \in BOOLEAN
    /\ local \subseteq Object
    /\ ToSet(fetch) \subseteq Key
    /\ fetched \in Object \cup {None}
    /\ pc \in {"idle", "run", "evict", "evicted"}
    /\ retry \in 0 .. ClockInit + 1 /\ freed \in Nat /\ goal \in Int
    /\ changed \in BOOLEAN /\ old \subseteq Object /\ since \in BOOLEAN

(* Whatever the optimization keeps in its table, and whatever the cache    *)
(* keeps, exists until it lets go of it: eviction, replacing the cache and *)
(* shutting it down destroy nothing that is in use (the assertion of       *)
(* CCache::DestroyCacheEntryWithRefCountTest).                             *)
UsedIsAlive ==
    /\ local \subseteq alive
    /\ Cached \subseteq alive
    /\ fetched # None => fetched \in alive

(* The reference count of an object is exactly the number of its owners:   *)
(* its entry, the local table, the call of GetImdObj that built it.  One   *)
(* too many keeps it in the cache for ever, one too few destroys it.       *)
RefsMatchOwners ==
    \A o \in alive :
        refs[o] = (IF o \in Cached THEN 1 ELSE 0)
                  + (IF o \in local THEN 1 ELSE 0)
                  + (IF o = fetched THEN 1 ELSE 0)

(* The size that decides about evictions is the size of what is cached.    *)
SizeExact == m_cache_size = SumFunction([o \in Cached |-> Bytes[key[o]]])

(* The cache holds at most one object per key (fUnique), although lookup   *)
(* and insertion of one are separated by a fetch that inserts others, and  *)
(* none of a CTAS id; and so does the local table.                         *)
UniqueObjects ==
    /\ \A o, p \in Cached : key[o] = key[p] => o = p
    /\ \A o \in Cached : key[o] \notin Ctas
    /\ \A o, p \in local : key[o] = key[p] => o = p

(* The clock hand is usable whenever an eviction can start: it is not      *)
(* exhausted (assertion of Advance), it is in the chain it thinks it is    *)
(* in and in no other, and it is there when the next iteration does not    *)
(* move it first (assertion of Value).                                     *)
HandValid ==
    /\ \A b \in BucketIdx :
         Cardinality({p \in DOMAIN chain[b] : chain[b][p] = Invalid})
           <= IF b = m_bucket_idx THEN 1 ELSE 0
    /\ m_bucket_idx \in BucketIdx
    /\ m_clock_hand_advanced => Inserted

(* No optimization uses metadata from before a change of the catalog that  *)
(* had happened when it started, through failures, shutdowns, and changes  *)
(* while it or another one before it runs.                                 *)
FreshMetadata == local \cap old # {} => since

(* An eviction that could not free enough has counted every entry down to  *)
(* zero: no entry was passed over by the hand, wherever it started.        *)
EvictionThorough ==
    pc = "evicted" /\ freed < goal => \A o \in Cached : counter[o] = 0

(* Every eviction ends. *)
EvictionEnds == pc = "evict" ~> pc = "evicted"

(* Reference counts are exact, so what is in use exists and what is not goes. *)
CountsInv == CacheTypeOK /\ UsedIsAlive /\ RefsMatchOwners

(* The table is intact: its size, its keys and its clock hand, through nested  *)
(* fetches, evictions and replacements of the cache.                           *)
TableInv == SizeExact /\ UniqueObjects /\ HandValid
=============================================================================
