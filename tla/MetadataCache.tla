---------------------------- MODULE MetadataCache ----------------------------
(***************************************************************************)
(* The RAM cache of .meta contents.  put and invalidate hold the locks of  *)
(* the entries and of the order together; get gives the first up before it *)
(* takes the second, so that it may put a key into the order whose entry   *)
(* was evicted or invalidated in between.                                  *)
(***************************************************************************)
EXTENDS Integers, Sequences, FiniteSets, Filter

CONSTANTS
    MetaKeys,         \* cache keys
    MetaCapacity,     \* max_entries
    MetaReaders,      \* concurrent lookups
    RefreshInterval   \* refresh_interval

ASSUME MetadataCacheAssumption ==
    /\ IsFiniteSet(MetaKeys) /\ MetaCapacity \in Nat \ {0} /\ RefreshInterval \in Nat

VARIABLES
    metaEntries,  \* entries: the age of the snapshot held under a key
    metaOrder,    \* lru_order, coldest first
    lookup        \* the lookups: pc and key

metaVars == <<metaEntries, metaOrder, lookup>>

Cached == DOMAIN metaEntries
NoLookup == [pc |-> "idle", key |-> "none"]

MetaInit ==
    /\ metaEntries = <<>> /\ metaOrder = <<>>
    /\ lookup = [t \in MetaReaders |-> NoLookup]

Dropped(order, k) == Keep(order, ToSet(order) \ {k})

\* get finds a fresh snapshot, or the caller goes on to read .meta.
MetaGet(t, k) ==
    /\ lookup[t].pc = "idle"
    /\ lookup' = [lookup EXCEPT ![t] =
        [pc |-> IF k \in Cached /\ metaEntries[k] < RefreshInterval THEN "touch" ELSE "load",
         key |-> k]]
    /\ UNCHANGED <<metaEntries, metaOrder>>

\* Seeded fault: the key is appended and its old place kept.
FaultNoRetain(order, k) == Append(order, k)
\* update_lru_order, after the entries were unlocked.
MovedToBack(order, k) == Append(Dropped(order, k), k)
MetaTouch(t) ==
    /\ lookup[t].pc = "touch"
    /\ metaOrder' = MovedToBack(metaOrder, lookup[t].key)
    /\ lookup' = [lookup EXCEPT ![t] = NoLookup]
    /\ UNCHANGED metaEntries

\* The eviction loop pops the order until an entry was among what it popped;
\* one pop in the usual case, more when the order holds keys without entry.
Pops ==
    IF Cardinality(Cached) < MetaCapacity THEN 0
    ELSE LET hits == {n \in DOMAIN metaOrder :
                        Cardinality(Cached \ ToSet(SubSeq(metaOrder, 1, n))) < MetaCapacity}
         IN IF hits = {} THEN Len(metaOrder) ELSE CHOOSE n \in hits : \A x \in hits : n <= x

\* get_metadata_cached has read .meta and puts what it read.
MetaPut(t) ==
    /\ lookup[t].pc = "load"
    /\ LET k == lookup[t].key
           popped == SubSeq(metaOrder, 1, Pops)
           rest == SubSeq(metaOrder, Pops + 1, Len(metaOrder))
           kept == Cached \ ToSet(popped) IN
       /\ metaEntries' = [x \in kept \cup {k} |-> IF x = k THEN 0 ELSE metaEntries[x]]
       /\ metaOrder' = Append(IF k \in kept THEN Dropped(rest, k) ELSE rest, k)
    /\ lookup' = [lookup EXCEPT ![t] = NoLookup]

\* .meta is missing, unreadable, or lists no range: nothing is put.
MetaNotLoaded(t) ==
    /\ lookup[t].pc = "load"
    /\ lookup' = [lookup EXCEPT ![t] = NoLookup]
    /\ UNCHANGED <<metaEntries, metaOrder>>

MetaInvalidate(k) ==
    /\ k \in Cached
    /\ metaEntries' = [x \in Cached \ {k} |-> metaEntries[x]]
    /\ metaOrder' = Dropped(metaOrder, k)
    /\ UNCHANGED lookup

MetaAge ==
    /\ \E k \in Cached : metaEntries[k] < RefreshInterval
    /\ metaEntries' = [k \in Cached |-> IF metaEntries[k] < RefreshInterval
                                        THEN metaEntries[k] + 1 ELSE RefreshInterval]
    /\ UNCHANGED <<metaOrder, lookup>>

MetaNext ==
    \/ \E t \in MetaReaders :
        \/ \E k \in MetaKeys : MetaGet(t, k)
        \/ MetaTouch(t) \/ MetaPut(t) \/ MetaNotLoaded(t)
    \/ \E k \in MetaKeys : MetaInvalidate(k)
    \/ MetaAge

MetaSpec == MetaInit /\ [][MetaNext]_metaVars

-----------------------------------------------------------------------------

\* How often a key is in the order.
Occurrences(order, k) == Cardinality(Places(order, k))

\* The cache keeps its limit, every snapshot stays evictable, and the keys
\* that a lookup leaves in the order after their entry is gone cannot pile up:
\* no key is in the order more than twice.
MetadataCacheBounded ==
    /\ Cardinality(Cached) <= MetaCapacity
    /\ Cached \subseteq ToSet(metaOrder)
    /\ \A k \in MetaKeys : Occurrences(metaOrder, k) <= 2

=============================================================================
