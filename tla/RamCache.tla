------------------------------ MODULE RamCache ------------------------------
(***************************************************************************)
(* One shard of the RAM cache.  Shards share nothing, so one stands for    *)
(* all.  put runs under the shard's write lock and is followed loop        *)
(* iteration by loop iteration; get holds the read lock, gives it up, and  *)
(* only then tries the write lock to note the access, by which time the    *)
(* entry may be gone.                                                      *)
(***************************************************************************)
EXTENDS Integers, Sequences, FiniteSets, Filter

CONSTANTS
    RamKeys,      \* keys that fall into the shard
    RamSizes,     \* sizes of entries
    RamCapacity,  \* capacity of the shard
    RamReaders,   \* concurrent get calls
    MaxPending    \* bound: accesses noted between two puts

ASSUME RamAssumption ==
    /\ IsFiniteSet(RamKeys) /\ RamSizes \subseteq Nat \ {0}
    /\ RamCapacity \in Nat \ {0} /\ MaxPending \in Nat

VARIABLES
    algorithm,    \* eviction_algorithm
    ramData,      \* data: the size of the entry held under a key
    ramSize,      \* current_size
    lruOrder,     \* eviction.lru_order, coldest first
    pending,      \* pending_accesses
    putting,      \* the put that holds the write lock, or NoPut
    noting        \* keys the readers have read and not yet noted

ramVars == <<algorithm, ramData, ramSize, lruOrder, pending, putting, noting>>

NoPut == [key |-> "none", size |-> 0]
Held == DOMAIN ramData
Unlocked == putting = NoPut
NoKey == "none"

RamInit ==
    /\ algorithm \in {"LRU", "TinyLFU"}
    /\ ramData = <<>> /\ ramSize = 0
    /\ lruOrder = <<>> /\ pending = <<>>
    /\ putting = NoPut
    /\ noting = [r \in RamReaders |-> NoKey]

-----------------------------------------------------------------------------

Untracked(order, k) == IF \E i \in DOMAIN order : order[i] = k
                       THEN RemoveFirst(order, k) ELSE order
Tracked(order, k) == IF algorithm = "LRU" THEN Append(order, k) ELSE order
Touched(order, k) == Tracked(Untracked(order, k), k)
SaturatingSub(a, b) == IF a > b THEN a - b ELSE 0

\* data.remove, current_size and the tracking, as put and both invalidations do.
Forget(ks) ==
    /\ ramData' = [k \in Held \ ks |-> ramData[k]]
    /\ ramSize' = FoldLeft(LAMBDA s, k : SaturatingSub(s, ramData[k]), ramSize,
                           SetToSeq(ks \cap Held))
    /\ lruOrder' = FoldLeft(Untracked, lruOrder, SetToSeq(ks \cap Held))

\* One hit in eight is noted, and only when the write lock is free then.
RamGet(r) ==
    /\ Unlocked /\ noting[r] = NoKey /\ algorithm = "LRU"
    /\ \E k \in Held : noting' = [noting EXCEPT ![r] = k]
    /\ UNCHANGED <<algorithm, ramData, ramSize, lruOrder, pending, putting>>

NoteAccess(r) ==
    /\ noting[r] # NoKey
    /\ \/ Unlocked /\ Len(pending) < MaxPending /\ pending' = Append(pending, noting[r])
       \/ ~Unlocked /\ UNCHANGED pending
    /\ noting' = [noting EXCEPT ![r] = NoKey]
    /\ UNCHANGED <<algorithm, ramData, ramSize, lruOrder, putting>>

\* Seeded fault: noted keys are moved to the hot end whether held or not.
FaultDrainUnfiltered(order) == FoldLeft(Touched, order, pending)
\* The noted accesses of entries that are still held, in order.
Drained(order) ==
    FoldLeft(Touched, order, Keep(pending, Held))

\* put takes the write lock and applies the noted accesses; an entry that
\* could never fit is dropped.
RamPut(k, size) ==
    /\ Unlocked
    /\ pending' = <<>>
    /\ lruOrder' = Drained(lruOrder)
    /\ putting' = IF size > RamCapacity THEN NoPut ELSE [key |-> k, size |-> size]
    /\ UNCHANGED <<algorithm, ramData, ramSize, noting>>

MustEvict == ramSize + putting.size > RamCapacity /\ Held # {}
\* The head of lru_order, or the entry with the least decayed frequency.
IsVictim(k) ==
    IF algorithm = "LRU" THEN lruOrder # <<>> /\ k = Head(lruOrder) ELSE k \in Held

RamEvict ==
    /\ ~Unlocked /\ MustEvict
    /\ \E k \in Held : IsVictim(k) /\ Forget({k})
    /\ UNCHANGED <<algorithm, pending, putting, noting>>

\* The loop ends when the entry fits, the shard is empty, or no victim is
\* found among the entries; the entry under the same key is replaced.
RamInsert ==
    /\ ~Unlocked
    /\ ~MustEvict \/ ~\E k \in Held : IsVictim(k)
    /\ LET old == IF putting.key \in Held THEN ramData[putting.key] ELSE 0
           ghost == MustEvict /\ lruOrder # <<>>
           order == IF ghost THEN Tail(lruOrder) ELSE lruOrder IN
       /\ ramData' = [k \in Held \cup {putting.key} |->
                        IF k = putting.key THEN putting.size ELSE ramData[k]]
       /\ ramSize' = SaturatingSub(ramSize, old) + putting.size
       /\ lruOrder' = Tracked(IF old > 0 THEN Untracked(order, putting.key) ELSE order,
                              putting.key)
    /\ putting' = NoPut
    /\ UNCHANGED <<algorithm, pending, noting>>

\* invalidate, and invalidate_by_prefix of the keys with one prefix.
RamInvalidate(ks) ==
    /\ Unlocked /\ ks \cap Held # {}
    /\ Forget(ks)
    /\ UNCHANGED <<algorithm, pending, putting, noting>>

RamNext ==
    \/ \E r \in RamReaders : RamGet(r) \/ NoteAccess(r)
    \/ \E k \in RamKeys, size \in RamSizes : RamPut(k, size)
    \/ RamEvict \/ RamInsert
    \/ \E ks \in SUBSET RamKeys : RamInvalidate(ks)

RamSpec == RamInit /\ [][RamNext]_ramVars

-----------------------------------------------------------------------------

\* The shard never holds more than its capacity, current_size is the sum of
\* what it holds, and under LRU every entry, and nothing else, is in lru_order
\* once: accesses noted after their entry was evicted, invalidated or replaced
\* leave no key behind that would end the eviction loop early.
RamShardConsistent ==
    /\ ramSize = FoldFunctionOnSet(+, 0, ramData, Held)
    /\ ramSize <= RamCapacity
    /\ algorithm = "LRU" => /\ ToSet(lruOrder) = Held
                            /\ Len(lruOrder) = Cardinality(Held)

=============================================================================
