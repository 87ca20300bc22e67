--------------------------- MODULE VersionedStore ---------------------------
(***************************************************************************)
(* The disk tier of one cache key, shared by several proxy instances over  *)
(* one volume: the `.meta` file, the range `.bin` files, the pending       *)
(* journal entries and every task that reads or writes them.               *)
(*                                                                         *)
(*   store   DiskCacheManager::store_range and claim_object_version        *)
(*   cons    JournalConsolidator::consolidate_object                       *)
(*   evict   DiskCacheManager::batch_delete_ranges and the Remove entries  *)
(*           its caller journals afterwards                                *)
(*   head    CacheManager::store_head_cache_entry_unified                  *)
(*   upd     invalidate_cache_hierarchy / invalidate_all_ranges, and a     *)
(*           write-cached PUT, which continues it                          *)
(*   read    RangeHandler::find_cached_ranges and                          *)
(*           load_range_data_from_new_storage, one response                *)
(*                                                                         *)
(* An object version is a number; an ETag identifies a version.  A range   *)
(* file is named for its extent and for the version of its bytes.  What a  *)
(* file holds is kept apart from its name: `files` maps a name to the      *)
(* version whose bytes are on disk under it.  A step that unlinks several  *)
(* files does so at once; reading, unlinking, writing `.meta` and          *)
(* journalling are different steps, because nothing but the per-key lock   *)
(* (where the code takes it) keeps other tasks out in between.             *)
(***************************************************************************)
EXTENDS Naturals, FiniteSets

CONSTANTS
    Instances,      \* proxy processes sharing the volume
    Extents,        \* byte extents of the object that can be cached
    MaxVersion,     \* bound: versions of the object S3 ever holds
    MaxStamp,       \* bound: no task starts once the clock has reached it
    LastModified,   \* Last-Modified of a version, in S3's one-second clock
    LockExclusive,  \* TRUE: the per-key lock excludes other instances
    Faults,         \* TRUE: unlinks, writes and appends may fail
    Ops             \* the operations enabled in this instance

Versions == 1..MaxVersion
NoVersion == 0      \* the empty ETag; also a file name without a version
Etags == Versions \cup {NoVersion}
Stamps == Nat

\* The name of a range file, and the bytes that are on disk under it.
Names == Extents \X Etags
Absent == MaxVersion + 1
Contents == Etags \cup {Absent}

RangeSpec == [ext : Extents, ver : Etags, created : Stamps]
Metadata == [file : {"missing", "parsed"}, etag : Etags, ranges : SUBSET RangeSpec]
NoMeta == [file |-> "missing", etag |-> NoVersion, ranges |-> {}]
Present(m) == m.file = "parsed"
JournalEntry ==
    [op : {"Add", "Remove"}, ext : Extents, ver : Etags,
     created : Stamps, stamp : Stamps]

\* The tasks: a program counter, what the task carries, what it has read.
StoreTask ==
    [pc : {"idle", "claim", "identify", "publish", "journal"},
     ext : Extents, ver : Etags, created : Stamps, lock : {"none", "held"}]
ConsTask ==
    [pc : {"idle", "unlink", "write", "cleanup"}, etag : Etags,
     ranges : SUBSET RangeSpec, valid : SUBSET JournalEntry,
     drop : SUBSET JournalEntry]
EvictTask ==
    [pc : {"idle", "rewrite", "journal"}, etag : Etags,
     ranges : SUBSET RangeSpec, removed : SUBSET RangeSpec]
HeadTask == [pc : {"idle", "write"}, etag : Etags, ranges : SUBSET RangeSpec]
UpdTask ==
    [pc : {"idle", "unlink", "delete", "finalize", "supersede", "commit"},
     ver : Etags, created : Stamps]
ReadTask ==
    [pc : {"idle", "load"}, etag : Etags, todo : SUBSET Extents,
     got : SUBSET Contents]

OpNames == {"store", "late", "consolidate", "evict", "head", "invalidate",
            "put", "overwrite", "read", "crash", "legacy"}

ASSUME MaxVersionAssumption == MaxVersion \in Nat \ {0}
ASSUME MaxStampAssumption == MaxStamp \in Nat
ASSUME ExtentsAssumption == Extents # {}
\* S3 timestamps successive versions in order, ties included.
ASSUME LastModifiedAssumption ==
    /\ LastModified \in [Versions -> Nat]
    /\ \A v, w \in Versions : v <= w => LastModified[v] <= LastModified[w]
ASSUME FlagsAssumption == LockExclusive \in BOOLEAN /\ Faults \in BOOLEAN
ASSUME OpsAssumption == Ops \subseteq OpNames

VARIABLES
    origin,     \* the version S3 holds
    clock,      \* SystemTime::now(); every reading is later than the last
    meta,       \* the `.meta` file
    files,      \* the range files: name -> version of the bytes, or Absent
    journal,    \* entries pending in all journal files
    confirmed,  \* ConfirmedVersions of each instance
    store,      \* one store_range task per instance
    cons,       \* one consolidate_object task per instance
    evict,      \* the eviction task (the global eviction lock admits one)
    head,       \* one refresh by a HEAD response per instance
    upd,        \* one invalidation or PUT
    read        \* one response being assembled from the cache

vars == <<origin, clock, meta, files, journal, confirmed,
          store, cons, evict, upd, read, head>>

-----------------------------------------------------------------------------
(* Names and unlinking                                                     *)

\* Seeded fault: the name leaves the version out.
FaultUnversionedName(ext, etag) == <<ext, NoVersion>>

\* The file name of a range: key, extent and object_version_id(etag).
RangeFileName(ext, etag) == <<ext, etag>>

NameOf(x) == RangeFileName(x.ext, x.ver)
OnDisk(x) == files[NameOf(x)] # Absent

\* range_file_belongs_to: only a versioned name belongs to a version.
BelongsTo(x, etag) == x.ver = etag /\ etag # NoVersion

\* Unlinks that may fail with the file still in place.
FailedUnlinks(names) == IF Faults THEN SUBSET names ELSE {{}}
Without(names) == [n \in Names |-> IF n \in names THEN Absent ELSE files[n]]

\* Seeded fault: a record no reader of the journal knows.
FaultUnknownOperation(ranges) ==
    {[op |-> "Evict", ext |-> r.ext, ver |-> r.ver,
      created |-> clock, stamp |-> clock] : r \in ranges}

RemoveEntries(ranges) ==
    {[op |-> "Remove", ext |-> r.ext, ver |-> r.ver,
      created |-> clock, stamp |-> clock] : r \in ranges}

\* write_eviction_journal_entries: a failed append is only logged.
AppendRemoves(ranges) ==
    IF ranges = {} THEN UNCHANGED <<journal, clock>>
    ELSE /\ clock' = clock + 1
         /\ \/ journal' = journal \cup RemoveEntries(ranges)
            \/ Faults /\ journal' = journal

-----------------------------------------------------------------------------
(* The per-key metadata lock: who is inside                                *)

IdleStore == [pc |-> "idle", ext |-> CHOOSE e \in Extents : TRUE,
              ver |-> NoVersion, created |-> 0, lock |-> "none"]
IdleCons == [pc |-> "idle", etag |-> NoVersion, ranges |-> {},
             valid |-> {}, drop |-> {}]
IdleEvict == [pc |-> "idle", etag |-> NoVersion, ranges |-> {}, removed |-> {}]
IdleHead == [pc |-> "idle", etag |-> NoVersion, ranges |-> {}]
IdleUpd == [pc |-> "idle", ver |-> NoVersion, created |-> 0]
IdleRead == [pc |-> "idle", etag |-> NoVersion, todo |-> {}, got |-> {}]

StoreHolds(i) == store[i].lock = "held"
ConsHolds(i) == cons[i].pc \in {"unlink", "write"}
EvictHolds == evict.pc = "rewrite"
HeadHolds(i) == head[i].pc = "write"

\* Within an instance the lock manager's own mutex always excludes; across
\* instances (and against eviction's own flock) only LockExclusive says so.
CanLock(i) ==
    /\ ~StoreHolds(i) /\ ~ConsHolds(i) /\ ~HeadHolds(i)
    /\ LockExclusive =>
        /\ \A j \in Instances : ~StoreHolds(j) /\ ~ConsHolds(j) /\ ~HeadHolds(j)
        /\ ~EvictHolds
CanLockForEviction ==
    LockExclusive =>
        \A j \in Instances : ~StoreHolds(j) /\ ~ConsHolds(j) /\ ~HeadHolds(j)

-----------------------------------------------------------------------------
(* store_range: cache one response                                         *)

\* The version of a response is the one S3 held when it answered: the current
\* one, or (op "late") an earlier one whose response was slow.
Answered == {v \in Versions : IF "late" \in Ops THEN v <= origin ELSE v = origin}

\* The body has arrived and the RangeSpec is stamped.
ReceiveResponse(i) ==
    /\ "store" \in Ops
    /\ store[i].pc = "idle"
    /\ clock < MaxStamp
    /\ clock' = clock + 1
    /\ \E e \in Extents, v \in Answered :
          store' = [store EXCEPT ![i] =
              [pc |-> "claim", ext |-> e, ver |-> v,
               created |-> clock, lock |-> "none"]]
    /\ UNCHANGED <<origin, meta, files, journal, confirmed,
                   cons, evict, upd, read, head>>

\* A version this process confirmed skips the lock.
ClaimConfirmed(i) ==
    /\ store[i].pc = "claim"
    /\ confirmed[i] = store[i].ver
    /\ store' = [store EXCEPT ![i].pc = "publish"]
    /\ UNCHANGED <<origin, clock, meta, files, journal, confirmed,
                   cons, evict, upd, read, head>>

\* Seeded fault: a version of the same second replaces the cached one.
FaultReplaceOnTie(cached, ver) ==
    Present(cached) /\ cached.etag # NoVersion
        => LastModified[ver] >= LastModified[cached.etag]

\* Another version replaces the cached one only if strictly newer.
MayReplace(cached, ver) ==
    Present(cached) /\ cached.etag # NoVersion
        => LastModified[ver] > LastModified[cached.etag]

\* prepare_object_version under the lock, the `.meta` already names it.
ClaimSameVersion(i) ==
    /\ store[i].pc = "claim"
    /\ confirmed[i] # store[i].ver
    /\ CanLock(i)
    /\ Present(meta) /\ meta.etag = store[i].ver
    /\ confirmed' = [confirmed EXCEPT ![i] = store[i].ver]
    /\ store' = [store EXCEPT ![i] = [@ EXCEPT !.pc = "publish", !.lock = "held"]]
    /\ UNCHANGED <<origin, clock, meta, files, journal, cons, evict, upd, read, head>>

\* CacheVersionMismatch: the store gives up and the lock is dropped.
ClaimRefused(i) ==
    /\ store[i].pc = "claim"
    /\ confirmed[i] # store[i].ver
    /\ CanLock(i)
    /\ Present(meta) /\ meta.etag # store[i].ver
    /\ ~MayReplace(meta, store[i].ver)
    /\ store' = [store EXCEPT ![i] = IdleStore]
    /\ UNCHANGED <<origin, clock, meta, files, journal, confirmed,
                   cons, evict, upd, read, head>>

\* retire_object_version: unlink the old version's files and journal their
\* removal.  A failed unlink ends the store with the old `.meta` in place.
ClaimRetire(i) ==
    /\ store[i].pc = "claim"
    /\ confirmed[i] # store[i].ver
    /\ CanLock(i)
    /\ meta.etag # store[i].ver
    /\ MayReplace(meta, store[i].ver)
    /\ LET old == {r \in meta.ranges : OnDisk(r)} IN
       \E failed \in FailedUnlinks({NameOf(r) : r \in old}) :
        LET removed == {r \in old : NameOf(r) \notin failed} IN
        /\ files' = Without({NameOf(r) : r \in removed})
        /\ AppendRemoves(removed)
        /\ store' = [store EXCEPT ![i] =
              IF failed = {} THEN [@ EXCEPT !.pc = "identify", !.lock = "held"]
              ELSE IdleStore]
    /\ UNCHANGED <<origin, meta, confirmed, cons, evict, upd, read, head>>

\* The fresh `.meta` names the new version and lists no range yet.
ClaimIdentify(i) ==
    /\ store[i].pc = "identify"
    /\ meta' = [file |-> "parsed", etag |-> store[i].ver, ranges |-> {}]
    /\ confirmed' = [confirmed EXCEPT ![i] = store[i].ver]
    /\ store' = [store EXCEPT ![i].pc = "publish"]
    /\ UNCHANGED <<origin, clock, files, journal, cons, evict, upd, read, head>>

\* Rename the finished temporary file to its versioned name.
PublishRange(i) ==
    /\ store[i].pc = "publish"
    /\ files' = [files EXCEPT ![NameOf(store[i])] = store[i].ver]
    /\ store' = [store EXCEPT ![i].pc = "journal"]
    /\ UNCHANGED <<origin, clock, meta, journal, confirmed,
                   cons, evict, upd, read, head>>

\* Append the Add entry; the lock, if held, is dropped with the task.
JournalRange(i) ==
    /\ store[i].pc = "journal"
    /\ clock' = clock + 1
    /\ \/ journal' = journal \cup
            {[op |-> "Add", ext |-> store[i].ext, ver |-> store[i].ver,
              created |-> store[i].created, stamp |-> clock]}
       \/ Faults /\ journal' = journal
    /\ store' = [store EXCEPT ![i] = IdleStore]
    /\ UNCHANGED <<origin, meta, files, confirmed, cons, evict, upd, read, head>>

\* The lock could not be had, or a write or rename failed: the task ends, the
\* temporary file is removed and the lock dropped.
StoreFails(i) ==
    /\ Faults
    /\ store[i].pc \in {"claim", "identify", "publish"}
    /\ store' = [store EXCEPT ![i] = IdleStore]
    /\ UNCHANGED <<origin, clock, meta, files, journal, confirmed,
                   cons, evict, upd, read, head>>

StoreStep(i) ==
    \/ ReceiveResponse(i) \/ ClaimConfirmed(i) \/ ClaimSameVersion(i)
    \/ ClaimRefused(i) \/ ClaimRetire(i) \/ ClaimIdentify(i)
    \/ PublishRange(i) \/ JournalRange(i) \/ StoreFails(i)

-----------------------------------------------------------------------------
(* consolidate_object: merge the key's journal entries into `.meta`         *)

Adds(entries) == {e \in entries : e.op = "Add"}
Removes(entries) == {e \in entries : e.op = "Remove"}
SpecOf(e) == [ext |-> e.ext, ver |-> e.ver, created |-> e.created]

\* Seeded fault: entries of every version are merged.
FaultMatchAnyVersion(e, etag) == TRUE

\* matches_object_version: a Remove of an unversioned file matches any ETag.
Matches(e, etag) ==
    IF e.op = "Remove" THEN e.ver \in {NoVersion, etag} ELSE BelongsTo(e, etag)

\* Seeded fault: entries are merged without looking for their file.
FaultUnvalidatedEntries == journal

\* validate_journal_entries_with_staleness: removals always, other entries
\* once their file is visible.
ValidEntries == Removes(journal) \cup {e \in Adds(journal) : OnDisk(e)}
\* Entries whose file is missing: dropped once older than the stale timeout,
\* which may or may not have passed.
StaleEntries == {e \in Adds(journal) : ~OnDisk(e)}

Newest(entries) == {e \in entries : \A f \in entries : f.stamp <= e.stamp}

\* load_or_create_metadata_with_journal_entries: without a `.meta` the newest
\* byte publication chooses the version; removals alone give an empty ETag.
LoadOrCreate(valid) ==
    IF Present(meta) THEN {meta}
    ELSE LET ver == IF Adds(valid) = {} THEN {NoVersion}
                    ELSE {e.ver : e \in Newest(Adds(valid))}
         IN  {[file |-> "parsed", etag |-> v, ranges |-> {}] : v \in ver}

\* Take the lock without waiting, then read the journal and the `.meta`.
\* Only stale entries: nothing to merge, they are dropped and the lock is free.
ConsolidateBegin(i) ==
    /\ "consolidate" \in Ops
    /\ cons[i].pc = "idle"
    /\ CanLock(i)
    /\ \E stale \in {StaleEntries, {}} :
        \/ /\ ValidEntries = {} /\ stale # {}
           /\ cons' = [cons EXCEPT ![i] =
                 [IdleCons EXCEPT !.pc = "cleanup", !.drop = stale]]
        \/ /\ ValidEntries # {}
           /\ \E m \in LoadOrCreate(ValidEntries) :
               cons' = [cons EXCEPT ![i] =
                 [pc |-> "unlink", etag |-> m.etag, ranges |-> m.ranges,
                  valid |-> ValidEntries, drop |-> stale]]
    /\ UNCHANGED <<origin, clock, meta, files, journal, confirmed,
                   store, evict, upd, read, head>>

Matching(c) == {e \in c.valid : Matches(e, c.etag)}
\* Files of rejected publications, unless the snapshot or a match owns them.
Rejected(c) ==
    {NameOf(e) : e \in Adds(c.valid) \ Matching(c)}
        \ {NameOf(x) : x \in c.ranges \cup Matching(c)}
\* Ranges of the snapshot that are not named for its version.
Foreign(c) == {r \in c.ranges : ~BelongsTo(r, c.etag)}

\* Unlink the bytes of rejected entries and of foreign ranges.  What could not
\* be unlinked keeps its journal entry or its place in the metadata.
ConsolidateUnlink(i) ==
    /\ cons[i].pc = "unlink"
    /\ LET c == cons[i]
           targets == {n \in Rejected(c) \cup {NameOf(r) : r \in Foreign(c)} :
                           files[n] # Absent}
       IN \E failed \in FailedUnlinks(targets) :
           /\ files' = Without(targets \ failed)
           /\ cons' = [cons EXCEPT ![i] =
                [c EXCEPT !.pc = "write",
                          !.ranges = {r \in c.ranges :
                              BelongsTo(r, c.etag) \/ NameOf(r) \in failed},
                          !.drop = @ \cup {e \in c.valid :
                              Matches(e, c.etag) \/ NameOf(e) \notin failed}]]
    /\ UNCHANGED <<origin, clock, meta, journal, confirmed,
                   store, evict, upd, read, head>>

\* resolve_conflicts: a publication newer than the range replaces it.
Resolved(ranges, adds) ==
    IF adds = {} THEN {ranges}
    ELSE LET newest == Newest(adds)
             newer(r) == {SpecOf(e) : e \in {f \in newest : f.stamp > r.created}}
         IN  IF \E r \in ranges : newer(r) # {}
             THEN {{s} : s \in UNION {newer(r) : r \in ranges}}
             ELSE {ranges}

\* A Remove strips the range of the same file unless created after it.
Strips(e, r) == e.ver = r.ver /\ r.created <= e.stamp

\* apply_journal_entries at one extent: journal files are read in directory
\* order, so any order of Adds and Removes.  An Add of an extent that is
\* already listed is skipped.
Applied(ranges, adds, removes) ==
    LET stripped(r) == \E e \in removes : Strips(e, r)
        added == {{SpecOf(e)} : e \in adds}
    IN  IF ranges # {}
        THEN IF \A r \in ranges : stripped(r) THEN added \cup {{}} ELSE {ranges}
        ELSE added \cup (IF adds = {} \/ \E e \in adds : stripped(SpecOf(e))
                         THEN {{}} ELSE {})

\* The ranges an extent may end up with.
Outcomes(c, ext) ==
    LET at(S) == {x \in S : x.ext = ext}
        adds == at(Adds(Matching(c)))
        removes == at(Removes(Matching(c)))
    IN  UNION {Applied(rs, adds, removes) : rs \in Resolved(at(c.ranges), adds)}

\* Write the merged `.meta` and drop the lock, or fail and retry next cycle.
ConsolidateWrite(i) ==
    /\ cons[i].pc = "write"
    /\ \/ \E f \in [Extents -> UNION {Outcomes(cons[i], e) : e \in Extents}] :
            /\ \A e \in Extents : f[e] \in Outcomes(cons[i], e)
            /\ meta' = [file |-> "parsed", etag |-> cons[i].etag,
                        ranges |-> UNION {f[e] : e \in Extents}]
            /\ cons' = [cons EXCEPT ![i] =
                  [IdleCons EXCEPT !.pc = "cleanup", !.drop = cons[i].drop]]
       \/ /\ Faults
          /\ cons' = [cons EXCEPT ![i] = IdleCons]
          /\ UNCHANGED meta
    /\ UNCHANGED <<origin, clock, files, journal, confirmed,
                   store, evict, upd, read, head>>

\* cleanup_consolidated_entries, after the key lock is gone.
ConsolidateCleanup(i) ==
    /\ cons[i].pc = "cleanup"
    /\ journal' = journal \ cons[i].drop
    /\ cons' = [cons EXCEPT ![i] = IdleCons]
    /\ UNCHANGED <<origin, clock, meta, files, confirmed,
                   store, evict, upd, read, head>>

ConsolidateStep(i) ==
    \/ ConsolidateBegin(i) \/ ConsolidateUnlink(i)
    \/ ConsolidateWrite(i) \/ ConsolidateCleanup(i)

-----------------------------------------------------------------------------
(* batch_delete_ranges: evict some ranges of the object                    *)

\* Under the flock: unlink the files of the chosen extents, which an earlier
\* scan picked and `.meta` may no longer list.  A missing file still loses its
\* entry, a failed unlink keeps it.
EvictUnlink ==
    /\ "evict" \in Ops
    /\ evict.pc = "idle"
    /\ clock < MaxStamp
    /\ CanLockForEviction
    /\ Present(meta)
    /\ \E exts \in (SUBSET Extents) \ {{}} :
        LET chosen == {r \in meta.ranges : r.ext \in exts}
            live == {r \in chosen : OnDisk(r)}
        IN \E failed \in FailedUnlinks({NameOf(r) : r \in live}) :
            LET kept == {r \in live : NameOf(r) \in failed} IN
            /\ files' = Without({NameOf(r) : r \in live \ kept})
            /\ evict' = [pc |-> "rewrite", etag |-> meta.etag,
                         ranges |-> (meta.ranges \ chosen) \cup kept,
                         removed |-> live \ kept]
    /\ UNCHANGED <<origin, clock, meta, journal, confirmed,
                   store, cons, upd, read, head>>

Evicted == [pc |-> "journal", etag |-> NoVersion, ranges |-> {},
            removed |-> evict.removed]

\* Rewrite `.meta`, or delete it with its lock file when no range is left.  A
\* failed rewrite ends the eviction, a failed deletion is only logged.
EvictRewrite ==
    /\ evict.pc = "rewrite"
    /\ \/ /\ meta' = IF evict.ranges = {} THEN NoMeta
                     ELSE [file |-> "parsed", etag |-> evict.etag,
                           ranges |-> evict.ranges]
          /\ evict' = Evicted
       \/ /\ Faults
          /\ evict' = IF evict.ranges = {} THEN Evicted ELSE IdleEvict
          /\ UNCHANGED meta
    /\ UNCHANGED <<origin, clock, files, journal, confirmed,
                   store, cons, upd, read, head>>

\* The caller journals the removals later, the lock released.
EvictJournal ==
    /\ evict.pc = "journal"
    /\ AppendRemoves(evict.removed)
    /\ evict' = IdleEvict
    /\ UNCHANGED <<origin, meta, files, confirmed, store, cons, upd, read, head>>

EvictStep == EvictUnlink \/ EvictRewrite \/ EvictJournal

-----------------------------------------------------------------------------
(* store_head_cache_entry_unified: a HEAD response refreshes `.meta`       *)

\* update_metadata_head_fields, under the lock.  A response of the version that
\* `.meta` names keeps its ranges; any other version, an older one too, drops
\* them with their files and journals the removals.  A failed unlink ends the
\* refresh with `.meta` as it was.
HeadRefresh(i) ==
    /\ "head" \in Ops
    /\ head[i].pc = "idle"
    /\ clock < MaxStamp
    /\ CanLock(i)
    /\ clock' = clock + 1
    /\ \E v \in Answered :
        LET old == IF meta.etag = v THEN {} ELSE {r \in meta.ranges : OnDisk(r)} IN
        \E failed \in FailedUnlinks({NameOf(r) : r \in old}) :
         LET removed == {r \in old : NameOf(r) \notin failed} IN
         /\ files' = Without({NameOf(r) : r \in removed})
         /\ \/ journal' = journal \cup RemoveEntries(removed)
            \/ Faults /\ journal' = journal
         /\ head' = [head EXCEPT ![i] =
               IF failed # {} THEN IdleHead
               ELSE [pc |-> "write", etag |-> v,
                     ranges |-> IF meta.etag = v THEN meta.ranges ELSE {}]]
    /\ UNCHANGED <<origin, meta, confirmed, store, cons, evict, upd, read>>

\* The rename, here or in create_head_only_metadata, or its failure.
HeadWrite(i) ==
    /\ head[i].pc = "write"
    /\ \/ meta' = [file |-> "parsed", etag |-> head[i].etag, ranges |-> head[i].ranges]
       \/ Faults /\ UNCHANGED meta
    /\ head' = [head EXCEPT ![i] = IdleHead]
    /\ UNCHANGED <<origin, clock, files, journal, confirmed,
                   store, cons, evict, upd, read>>

HeadStep(i) == HeadRefresh(i) \/ HeadWrite(i)

-----------------------------------------------------------------------------
(* Invalidation and write-cached PUT: no lock at any step                  *)

\* An ETag mismatch seen by a lookup starts a plain invalidation.
InvalidateBegin ==
    /\ "invalidate" \in Ops
    /\ upd.pc = "idle"
    /\ clock < MaxStamp
    /\ upd' = [IdleUpd EXCEPT !.pc = "unlink"]
    /\ UNCHANGED <<origin, clock, meta, files, journal, confirmed,
                   store, cons, evict, read, head>>

\* S3 accepted a client's PUT through this proxy.
PutAccepted ==
    /\ "put" \in Ops
    /\ upd.pc = "idle"
    /\ clock < MaxStamp
    /\ origin < MaxVersion
    /\ origin' = origin + 1
    /\ upd' = [IdleUpd EXCEPT !.pc = "unlink", !.ver = origin + 1]
    /\ UNCHANGED <<clock, meta, files, journal, confirmed,
                   store, cons, evict, read, head>>

\* A plain invalidation, or a PUT that is not write-cached, ends here.
AfterInvalidation ==
    IF upd.ver = NoVersion THEN {IdleUpd}
    ELSE {IdleUpd, [upd EXCEPT !.pc = "finalize"]}

\* Read `.meta` and unlink the files it lists; failures are only logged.
InvalidateUnlink ==
    /\ upd.pc = "unlink"
    /\ \/ /\ ~Present(meta)
          /\ upd' \in AfterInvalidation
          /\ UNCHANGED files
       \/ /\ Present(meta)
          /\ \E failed \in FailedUnlinks({NameOf(r) : r \in meta.ranges}) :
               files' = Without({NameOf(r) : r \in meta.ranges} \ failed)
          /\ upd' = [upd EXCEPT !.pc = "delete"]
    /\ UNCHANGED <<origin, clock, meta, journal, confirmed,
                   store, cons, evict, read, head>>

\* Delete whatever `.meta` is there now; a failure is only logged.
InvalidateDelete ==
    /\ upd.pc = "delete"
    /\ \/ meta' = NoMeta
       \/ Faults /\ UNCHANGED meta
    /\ upd' \in AfterInvalidation
    /\ UNCHANGED <<origin, clock, files, journal, confirmed,
                   store, cons, evict, read, head>>

PutExtent == CHOOSE e \in Extents : TRUE
PutRange == [ext |-> PutExtent, ver |-> upd.ver, created |-> upd.created]

\* sink.finalize(): the uploaded bytes appear under their versioned name.
PutFinalize ==
    /\ upd.pc = "finalize"
    /\ files' = [files EXCEPT ![RangeFileName(PutExtent, upd.ver)] = upd.ver]
    /\ clock' = clock + 1
    /\ upd' = [upd EXCEPT !.pc = "supersede", !.created = clock]
    /\ UNCHANGED <<origin, meta, journal, confirmed,
                   store, cons, evict, read, head>>

\* store_streamed_write_cache_metadata: dereference what `.meta` lists.
PutSupersede ==
    /\ upd.pc = "supersede"
    /\ LET old == {r \in meta.ranges :
                       NameOf(r) # NameOf(PutRange) /\ OnDisk(r)} IN
       \E failed \in FailedUnlinks({NameOf(r) : r \in old}) :
        LET removed == {r \in old : NameOf(r) \notin failed} IN
        /\ files' = Without({NameOf(r) : r \in removed})
        /\ AppendRemoves(removed)
    /\ upd' = [upd EXCEPT !.pc = "commit"]
    /\ UNCHANGED <<origin, meta, confirmed, store, cons, evict, read, head>>

\* store_new_metadata: replace `.meta` outright, or fail and leave the file.
PutCommit ==
    /\ upd.pc = "commit"
    /\ \/ meta' = [file |-> "parsed", etag |-> upd.ver, ranges |-> {PutRange}]
       \/ Faults /\ UNCHANGED meta
    /\ upd' = IdleUpd
    /\ UNCHANGED <<origin, clock, files, journal, confirmed,
                   store, cons, evict, read, head>>

UpdateStep ==
    \/ InvalidateBegin \/ PutAccepted \/ InvalidateUnlink \/ InvalidateDelete
    \/ PutFinalize \/ PutSupersede \/ PutCommit

-----------------------------------------------------------------------------
(* Serving a response from cached ranges                                   *)

\* find_cached_ranges: the response takes its ETag from the `.meta` read now.
ReadLookup ==
    /\ "read" \in Ops
    /\ read.pc = "idle"
    /\ Present(meta) /\ meta.ranges # {}
    /\ \E want \in SUBSET {r.ext : r \in meta.ranges} :
        /\ want # {}
        /\ read' = [pc |-> "load", etag |-> meta.etag, todo |-> want, got |-> {}]
    /\ UNCHANGED <<origin, clock, meta, files, journal, confirmed,
                   store, cons, evict, upd, head>>

\* The spec to load: from `.meta`, else from a pending Add of the same version.
LoadableSpecs(ext) ==
    LET listed == {r \in meta.ranges :
                      Present(meta) /\ r.ext = ext /\ BelongsTo(r, read.etag)}
    IN  IF listed # {} THEN listed
        ELSE {SpecOf(e) : e \in {f \in Adds(journal) :
                  f.ext = ext /\ Matches(f, read.etag)}}

\* load_range_data_from_new_storage: re-read `.meta`; give up if it now names
\* another version, else read the file that is named for the response's one.
ReadLoad ==
    /\ read.pc = "load"
    /\ \E ext \in read.todo :
        \/ /\ ~(Present(meta) /\ meta.etag # read.etag)
           /\ \E r \in LoadableSpecs(ext) :
               /\ BelongsTo(r, read.etag)
               /\ OnDisk(r)
               /\ read' = [read EXCEPT !.todo = @ \ {ext},
                                       !.got = @ \cup {files[NameOf(r)]}]
        \/ /\ \/ Present(meta) /\ meta.etag # read.etag
              \/ ~ \E r \in LoadableSpecs(ext) : OnDisk(r)
           /\ read' = IdleRead
    /\ UNCHANGED <<origin, clock, meta, files, journal, confirmed,
                   store, cons, evict, upd, head>>

\* All ranges loaded: the response goes out.
ReadServe ==
    /\ read.pc = "load" /\ read.todo = {}
    /\ read' = IdleRead
    /\ UNCHANGED <<origin, clock, meta, files, journal, confirmed,
                   store, cons, evict, upd, head>>

ReadStep == ReadLookup \/ ReadLoad \/ ReadServe

-----------------------------------------------------------------------------
(* Environment                                                             *)

\* Someone else overwrites the object directly in S3.
Overwrite ==
    /\ "overwrite" \in Ops
    /\ origin < MaxVersion
    /\ origin' = origin + 1
    /\ UNCHANGED <<clock, meta, files, journal, confirmed,
                   store, cons, evict, upd, read, head>>

\* A process dies: its tasks stop where they are, the kernel drops its lock.
Crash(i) ==
    /\ "crash" \in Ops
    /\ store' = [store EXCEPT ![i] = IdleStore]
    /\ cons' = [cons EXCEPT ![i] = IdleCons]
    /\ confirmed' = [confirmed EXCEPT ![i] = NoVersion]
    /\ evict' \in {evict, IdleEvict}
    /\ upd' \in {upd, IdleUpd}
    /\ head' = [head EXCEPT ![i] = IdleHead]
    /\ UNCHANGED <<origin, clock, meta, files, journal, read>>

-----------------------------------------------------------------------------
\* An empty cache, or one object cached by a release that did not put the
\* version into file names.
LegacyRanges == {[ext |-> e, ver |-> NoVersion, created |-> 0] : e \in Extents}

Init ==
    /\ origin = 1
    /\ clock = 0
    /\ \/ /\ meta = NoMeta
          /\ files = [n \in Names |-> Absent]
       \/ /\ "legacy" \in Ops
          /\ meta = [file |-> "parsed", etag |-> 1, ranges |-> LegacyRanges]
          /\ files = [n \in Names |-> IF n[2] = NoVersion THEN NoVersion
                                      ELSE Absent]
    /\ journal = {}
    /\ confirmed = [i \in Instances |-> NoVersion]
    /\ store = [i \in Instances |-> IdleStore]
    /\ cons = [i \in Instances |-> IdleCons]
    /\ evict = IdleEvict
    /\ head = [i \in Instances |-> IdleHead]
    /\ upd = IdleUpd
    /\ read = IdleRead

Next ==
    \/ \E i \in Instances :
          StoreStep(i) \/ ConsolidateStep(i) \/ HeadStep(i) \/ Crash(i)
    \/ EvictStep \/ UpdateStep \/ ReadStep
    \/ Overwrite

Spec == Init /\ [][Next]_vars

-----------------------------------------------------------------------------
(* Properties                                                              *)

\* Every variable stays in its domain; in particular every journal record is
\* one a reader of the journal understands (JournalOperation).
TypeOK ==
    /\ origin \in Versions
    /\ clock \in Nat
    /\ meta \in Metadata
    /\ files \in [Names -> Contents]
    /\ journal \subseteq JournalEntry
    /\ confirmed \in [Instances -> Etags]
    /\ store \in [Instances -> StoreTask]
    /\ cons \in [Instances -> ConsTask]
    /\ evict \in EvictTask
    /\ head \in [Instances -> HeadTask]
    /\ upd \in UpdTask
    /\ read \in ReadTask

\* Every range a `.meta` lists is named for the version that `.meta` names, or
\* for none (a file from before versioned names).  Six writers replace the
\* file, two of them without the lock and three from a snapshot read earlier.
MetaNamesItsVersion ==
    \A r \in meta.ranges : r.ver \in {meta.etag, NoVersion}

\* A response assembled from the cache carries the bytes of the one version
\* whose ETag it carries, whatever was published, retired, evicted or
\* overwritten between its lookup and each of its loads.
ResponseOfOneVersion == read.got \subseteq {read.etag}

\* The lock holder's unlink and rewrite are two steps.
BetweenUnlinkAndRewrite ==
    \/ \E i \in Instances : store[i].pc = "identify"
    \/ \E i \in Instances : head[i].pc = "write" /\ head[i].etag # meta.etag
    \/ evict.pc = "rewrite"

\* Every versioned range `.meta` lists has its file: neither a consolidation
\* that validated its entries earlier, nor the removal of a rejected version's
\* bytes, nor a lock-free publication leaves a reference to nothing.
ListedRangesAreOnDisk ==
    \/ BetweenUnlinkAndRewrite
    \/ \A r \in meta.ranges : r.ver # NoVersion => OnDisk(r)

\* While `.meta` exists its identity is replaced only by a version with a
\* strictly newer Last-Modified (or where it had no ETag): a delayed response
\* or an old journal entry never takes a key back to a superseded version.  A
\* HEAD response is exempt: it takes `.meta` to its version, newer or not.
IdentityMovesForward ==
    [][Present(meta) /\ Present(meta') /\ meta.etag \notin {NoVersion, meta'.etag}
         => \/ \E i \in Instances : HeadWrite(i)
            \/ /\ meta'.etag # NoVersion
               /\ LastModified[meta'.etag] > LastModified[meta.etag]]_vars

=============================================================================
