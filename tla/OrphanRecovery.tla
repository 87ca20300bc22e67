--------------------------- MODULE OrphanRecovery ---------------------------
(***************************************************************************)
(* The background sweep that looks for range files no .meta lists, and     *)
(* takes each of them back into .meta or deletes it, while the writers of  *)
(* the key go on: stores of S3 responses, uploads, consolidation,          *)
(* eviction and invalidation.  One key and one extent, so that a range     *)
(* file is named by the ETag of its bytes; "legacy" is a file written      *)
(* before names carried a version.  What the other writers do under the    *)
(* key's lock is one step here (VersionedStore takes it apart); the sweep  *)
(* has a step for each of its reads and writes.                            *)
(***************************************************************************)
EXTENDS Naturals, Sequences, FiniteSets

CONSTANTS
    ObjectHistory,  \* the ETags of the versions S3 comes to hold, in order
    OddSized,       \* ETags whose file is outside the size the sweep expects
    Storers,        \* instances that store responses of S3
    Sweepers        \* recovery tasks, of one instance or of several

ASSUME HistoryAssumption == ObjectHistory \in Seq(STRING) /\ ObjectHistory # <<>>
\* A holder of the key's lock is told from every other, and from none.
ASSUME HolderAssumption == Storers \cap Sweepers = {} /\ "free" \notin Storers \cup Sweepers

VARIABLES
    head,        \* the version S3 holds: an index of ObjectHistory
    rmeta,       \* the .meta file, or NoRecord: the object it names, whether a PUT
                 \* wrote it (is_write_cached), the files it lists
    rfiles,      \* range files on disk
    adds,        \* Add entries pending in the journals
    merged,      \* entries a cycle has applied and not yet cleaned up
    keyLock,     \* holder of the key's metadata lock, or "free"
    confirmed,   \* Storers -> the ETag it has confirmed for the key, or ""
    storing,     \* Storers -> the store in progress
    uploading,   \* the version an upload is publishing, or 0
    sweep        \* Sweepers -> the recovery task

recoveryVars == <<head, rmeta, rfiles, adds, merged, keyLock, confirmed, storing, uploading, sweep>>

\* The identity object_metadata gives: an ETag, and the version whose
\* Last-Modified it has.
Object(v) == [etag |-> ObjectHistory[v], version |-> v]
NoObject == [etag |-> "", version |-> 0]
NoRecord == [object |-> [etag |-> "absent", version |-> 0], writeCached |-> FALSE, ranges |-> {}]
NewRecord(object) == [object |-> object, writeCached |-> FALSE, ranges |-> {}]
IdleStore == [pc |-> "idle", version |-> 0, locked |-> FALSE]
IdleSweep == [pc |-> "idle", file |-> "", object |-> NoObject]

RecoveryInit ==
    /\ head = 1 /\ rmeta = NoRecord /\ rfiles \in {{}, {"legacy"}} /\ adds = {} /\ merged = {}
    /\ keyLock = "free" /\ confirmed = [s \in Storers |-> ""]
    /\ storing = [s \in Storers |-> IdleStore] /\ uploading = 0
    /\ sweep = [t \in Sweepers |-> IdleSweep]

-----------------------------------------------------------------------------
(* The writers of the key *)

\* The object is replaced, not through this cache.
ObjectReplaced ==
    /\ head < Len(ObjectHistory) /\ head' = head + 1
    /\ UNCHANGED <<rmeta, rfiles, adds, merged, keyLock, confirmed, storing, uploading, sweep>>

\* store_range has the response of a version S3 holds or held.
StoreArrives(s) ==
    /\ storing[s].pc = "idle"
    /\ \E v \in 1..head : storing' = [storing EXCEPT ![s] = [pc |-> "claim", version |-> v, locked |-> FALSE]]
    /\ UNCHANGED <<head, rmeta, rfiles, adds, merged, keyLock, confirmed, uploading, sweep>>

\* prepare_object_version: .meta names this version already, or an older one
\* or none.
Claimable(v) ==
    \/ rmeta.object.etag \in {"absent", "", ObjectHistory[v]}
    \/ v > rmeta.object.version

\* claim_object_version: a version this instance has confirmed before needs no lock.
StoreConfirmed(s) ==
    /\ storing[s].pc = "claim" /\ confirmed[s] = ObjectHistory[storing[s].version]
    /\ storing' = [storing EXCEPT ![s].pc = "publish"]
    /\ UNCHANGED <<head, rmeta, rfiles, adds, merged, keyLock, confirmed, uploading, sweep>>

\* Otherwise the lock is taken and kept until the store ends, and the ranges of
\* another version are removed with their .meta.
StoreClaims(s) ==
    LET object == Object(storing[s].version)
    IN  /\ storing[s].pc = "claim" /\ confirmed[s] # object.etag
        /\ keyLock = "free" /\ Claimable(object.version)
        /\ IF rmeta.object.etag = object.etag
           THEN UNCHANGED <<rmeta, rfiles>>
           ELSE rfiles' = rfiles \ rmeta.ranges /\ rmeta' = NewRecord(object)
        /\ keyLock' = s /\ confirmed' = [confirmed EXCEPT ![s] = object.etag]
        /\ storing' = [storing EXCEPT ![s].pc = "publish", ![s].locked = TRUE]
        /\ UNCHANGED <<head, adds, merged, uploading, sweep>>

\* A response that is not newer than what .meta names is not stored.
StoreRefused(s) ==
    /\ storing[s].pc = "claim" /\ confirmed[s] # ObjectHistory[storing[s].version]
    /\ keyLock = "free" /\ ~Claimable(storing[s].version)
    /\ storing' = [storing EXCEPT ![s] = IdleStore]
    /\ UNCHANGED <<head, rmeta, rfiles, adds, merged, keyLock, confirmed, uploading, sweep>>

\* The temporary file is renamed to the name of its version.
StorePublishes(s) ==
    /\ storing[s].pc = "publish"
    /\ rfiles' = rfiles \cup {ObjectHistory[storing[s].version]}
    /\ storing' = [storing EXCEPT ![s].pc = "journal"]
    /\ UNCHANGED <<head, rmeta, adds, merged, keyLock, confirmed, uploading, sweep>>

\* The Add is journalled, or the append fails or the process dies and the
\* file stays behind; either way the lock is released.
StoreEnds(s) ==
    LET object == Object(storing[s].version)
    IN  /\ storing[s].pc = "journal"
        /\ adds' \in {adds, adds \cup {[file |-> object.etag, object |-> object]}}
        /\ keyLock' = IF storing[s].locked THEN "free" ELSE keyLock
        /\ storing' = [storing EXCEPT ![s] = IdleStore]
        /\ UNCHANGED <<head, rmeta, rfiles, merged, confirmed, uploading, sweep>>

\* A streamed PUT that S3 accepted renames its file first.  It takes no lock.
UploadPublishes ==
    /\ uploading = 0 /\ head < Len(ObjectHistory)
    /\ head' = head + 1 /\ uploading' = head + 1
    /\ rfiles' = rfiles \cup {ObjectHistory[head + 1]}
    /\ UNCHANGED <<rmeta, adds, merged, keyLock, confirmed, storing, sweep>>

\* Then it removes the ranges of the .meta it finds and replaces it.
UploadStoresMeta ==
    LET object == Object(uploading)
    IN  /\ uploading # 0 /\ uploading' = 0
        /\ rfiles' = rfiles \ (rmeta.ranges \ {object.etag})
        /\ rmeta' = [object |-> object, writeCached |-> TRUE, ranges |-> {object.etag}]
        /\ UNCHANGED <<head, adds, merged, keyLock, confirmed, storing, sweep>>

MatchesVersion(entry, etag) == entry.file = etag /\ entry.object.etag \in {"", etag}

\* load_or_create_metadata_with_journal_entries: the .meta there is, or one
\* for the object of an entry that knows its ETag.
Loaded(valid) ==
    LET versioned == {a \in valid : a.object.etag # ""}
    IN  IF rmeta # NoRecord THEN {rmeta}
        ELSE IF versioned = {} THEN {NewRecord(NoObject)}
        ELSE {NewRecord(a.object) : a \in versioned}

\* One key's consolidation under its lock: files of rejected entries and listed
\* files of another version are deleted, matching entries are listed.
ConsolidateKey ==
    LET valid == {a \in adds : a.file \in rfiles}
    IN  /\ keyLock = "free" /\ valid # {} /\ merged = {}
        /\ \E meta \in Loaded(valid) :
            LET matching == {a \in valid : MatchesVersion(a, meta.object.etag)}
                foreign == {f \in meta.ranges : f # meta.object.etag}
                retained == meta.ranges \cup {a.file : a \in matching}
                rejected == {a.file : a \in valid \ matching} \ retained
            IN  /\ rfiles' = rfiles \ (rejected \cup foreign)
                /\ rmeta' = [meta EXCEPT !.ranges = retained \ foreign]
        /\ merged' = valid
        /\ UNCHANGED <<head, adds, keyLock, confirmed, storing, uploading, sweep>>

\* The applied and rejected entries leave the journals after the lock is released.
CleanUpJournal ==
    /\ merged # {} /\ adds' = adds \ merged /\ merged' = {}
    /\ UNCHANGED <<head, rmeta, rfiles, keyLock, confirmed, storing, uploading, sweep>>

\* Entries whose file stays missing are dropped.
DropStaleAdds ==
    /\ merged = {} /\ \E a \in adds : a.file \notin rfiles
    /\ adds' = {a \in adds : a.file \in rfiles}
    /\ UNCHANGED <<head, rmeta, rfiles, merged, keyLock, confirmed, storing, uploading, sweep>>

\* Eviction deletes what .meta lists, under the lock.
EvictRanges ==
    /\ keyLock = "free" /\ rmeta.ranges # {}
    /\ rfiles' = rfiles \ rmeta.ranges /\ rmeta' = [rmeta EXCEPT !.ranges = {}]
    /\ UNCHANGED <<head, adds, merged, keyLock, confirmed, storing, uploading, sweep>>

\* Invalidation deletes the listed files and .meta, without the lock.  An
\* unlink may fail, and the file then stays without an owner.
InvalidateKey ==
    /\ rmeta # NoRecord
    /\ rfiles' \in {rfiles, rfiles \ rmeta.ranges} /\ rmeta' = NoRecord
    /\ UNCHANGED <<head, adds, merged, keyLock, confirmed, storing, uploading, sweep>>

-----------------------------------------------------------------------------
(* The sweep *)

\* scan_shard_for_orphans lists the directory.
SweepLists(t) ==
    /\ sweep[t].pc = "idle"
    /\ \E f \in rfiles : sweep' = [sweep EXCEPT ![t] = [IdleSweep EXCEPT !.pc = "judge", !.file = f]]
    /\ UNCHANGED <<head, rmeta, rfiles, adds, merged, keyLock, confirmed, storing, uploading>>

\* validate_orphan_version against a .meta that names etag.
OrphanStatus(f, etag) ==
    IF f = "legacy" THEN "Invalid"
    ELSE IF etag \in {"absent", ""} THEN "Unknown"
    ELSE IF f # etag \/ f \notin rfiles \/ f \in OddSized THEN "Invalid"
    ELSE "Valid"

\* The scan reads .meta, not the journals; what .meta lists is no orphan, and
\* what cannot be judged is not queued.
SweepJudges(t) ==
    LET f == sweep[t].file
        status == OrphanStatus(f, rmeta.object.etag)
    IN  /\ sweep[t].pc = "judge"
        /\ sweep' = [sweep EXCEPT ![t] =
                        IF f \in rmeta.ranges \/ status = "Unknown" THEN IdleSweep
                        ELSE [@ EXCEPT !.pc = IF status = "Valid" THEN "add" ELSE "clean"]]
        /\ UNCHANGED <<head, rmeta, rfiles, adds, merged, keyLock, confirmed, storing, uploading>>

\* add_range_to_metadata takes the object's metadata from .meta when that still
\* names the file's version, and none otherwise.
AddReadsMeta(t) ==
    /\ sweep[t].pc = "add"
    /\ sweep' = [sweep EXCEPT ![t].pc = "write",
                              ![t].object = IF rmeta.object.etag = sweep[t].file
                                             THEN rmeta.object ELSE NoObject]
    /\ UNCHANGED <<head, rmeta, rfiles, adds, merged, keyLock, confirmed, storing, uploading>>

FaultEtagUnchecked(object, cached) == FALSE

\* write_immediate_only compares the ETag of a .meta that has one.
AddRefused(object, cached) == cached \notin {"absent", ""} /\ cached # object

AddMismatch(t) ==
    /\ sweep[t].pc = "write" /\ keyLock = "free"
    /\ AddRefused(sweep[t].object.etag, rmeta.object.etag)
    /\ sweep' = [sweep EXCEPT ![t] = IdleSweep]
    /\ UNCHANGED <<head, rmeta, rfiles, adds, merged, keyLock, confirmed, storing, uploading>>

\* write_hybrid under the lock: .meta is loaded or created and lists the file;
\* a .meta without an ETag takes the object's and drops its ranges.
AddWrites(t) ==
    LET meta == IF rmeta = NoRecord THEN NewRecord(NoObject) ELSE rmeta
        object == sweep[t].object
        adopted == IF meta.object.etag = "" /\ object # NoObject THEN [meta EXCEPT !.object = object, !.ranges = {}]
                   ELSE meta
    IN  /\ sweep[t].pc = "write" /\ keyLock = "free"
        /\ ~AddRefused(object.etag, rmeta.object.etag)
        /\ rmeta' = [adopted EXCEPT !.ranges = @ \cup {sweep[t].file}]
        /\ sweep' = [sweep EXCEPT ![t].pc = "append"]
        /\ UNCHANGED <<head, rfiles, adds, merged, keyLock, confirmed, storing, uploading>>

\* The lock or the write fails: the entry is journalled all the same.
AddWriteFails(t) ==
    /\ sweep[t].pc = "write"
    /\ sweep' = [sweep EXCEPT ![t].pc = "append"]
    /\ UNCHANGED <<head, rmeta, rfiles, adds, merged, keyLock, confirmed, storing, uploading>>

\* The Add is appended after the lock is released; a failed append is ignored.
AddJournals(t) ==
    /\ sweep[t].pc = "append"
    /\ adds' \in {adds, adds \cup {[file |-> sweep[t].file, object |-> sweep[t].object]}}
    /\ sweep' = [sweep EXCEPT ![t] = IdleSweep]
    /\ UNCHANGED <<head, rmeta, rfiles, merged, keyLock, confirmed, storing, uploading>>

\* cleanup_invalid_orphan takes the lock and leaves a file alone that a pending
\* entry names.
CleanReadsJournal(t) ==
    /\ sweep[t].pc = "clean" /\ keyLock = "free"
    /\ IF \E a \in adds : a.file = sweep[t].file
       THEN sweep' = [sweep EXCEPT ![t] = IdleSweep] /\ UNCHANGED keyLock
       ELSE sweep' = [sweep EXCEPT ![t].pc = "recheck"] /\ keyLock' = t
    /\ UNCHANGED <<head, rmeta, rfiles, adds, merged, confirmed, storing, uploading>>

FaultListingIgnored(f, meta) ==
    f # "legacy" /\ OrphanStatus(f, meta.object.etag) \in {"Valid", "Unknown"}

\* A file that .meta lists by now, or that no longer is invalid.
Spared(f, meta) ==
    \/ f \in meta.ranges
    \/ f # "legacy" /\ OrphanStatus(f, meta.object.etag) \in {"Valid", "Unknown"}

CleanReadsMeta(t) ==
    /\ sweep[t].pc = "recheck"
    /\ IF Spared(sweep[t].file, rmeta)
       THEN sweep' = [sweep EXCEPT ![t] = IdleSweep] /\ keyLock' = "free"
       ELSE sweep' = [sweep EXCEPT ![t].pc = "unlink"] /\ UNCHANGED keyLock
    /\ UNCHANGED <<head, rmeta, rfiles, adds, merged, confirmed, storing, uploading>>

\* The file is removed, or the removal fails.
CleanUnlinks(t) ==
    /\ sweep[t].pc = "unlink" /\ keyLock' = "free"
    /\ rfiles' \in {rfiles, rfiles \ {sweep[t].file}}
    /\ sweep' = [sweep EXCEPT ![t] = IdleSweep]
    /\ UNCHANGED <<head, rmeta, adds, merged, confirmed, storing, uploading>>

StoreStep(s) ==
    \/ StoreArrives(s) \/ StoreConfirmed(s) \/ StoreClaims(s) \/ StoreRefused(s)
    \/ StorePublishes(s) \/ StoreEnds(s)

SweepStep(t) ==
    \/ SweepLists(t) \/ SweepJudges(t)
    \/ AddReadsMeta(t) \/ AddMismatch(t) \/ AddWrites(t) \/ AddWriteFails(t) \/ AddJournals(t)
    \/ CleanReadsJournal(t) \/ CleanReadsMeta(t) \/ CleanUnlinks(t)

RecoveryNext ==
    \/ ObjectReplaced \/ UploadPublishes \/ UploadStoresMeta
    \/ ConsolidateKey \/ CleanUpJournal \/ DropStaleAdds \/ EvictRanges \/ InvalidateKey
    \/ \E s \in Storers : StoreStep(s)
    \/ \E t \in Sweepers : SweepStep(t)

RecoverySpec == RecoveryInit /\ [][RecoveryNext]_recoveryVars

-----------------------------------------------------------------------------
(* Properties *)

\* A .meta that names a version lists files of that version only, although the
\* sweep adds a file it judged against an earlier .meta (add_range_to_metadata,
\* write_immediate_only).
RecoveredOfMetaVersion ==
    rmeta.object.etag \notin {"absent", ""} => rmeta.ranges \subseteq {rmeta.object.etag}

\* cleanup_invalid_orphan deletes no file that .meta lists, whatever was stored,
\* merged or recovered since the scan judged the file an orphan.  A .meta that a
\* PUT wrote is exempt: PUTs store it without the lock the cleanup relies on.
CleanupSparesListed ==
    [][\A t \in Sweepers :
        LET f == sweep[t].file
        IN  (sweep[t].pc = "unlink" /\ f \in rfiles \ rfiles' /\ f \in rmeta.ranges)
              => rmeta.writeCached]_recoveryVars

=============================================================================
