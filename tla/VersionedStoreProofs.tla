------------------------ MODULE VersionedStoreProofs ------------------------
(***************************************************************************)
(* For any number of instances, extents, versions and clock readings, with *)
(* or without an exclusive lock, with or without failing calls, and for    *)
(* every set of enabled operations: `.meta` lists only ranges of the       *)
(* version it names, and a response served from the cache carries the      *)
(* bytes of the version whose ETag it carries.                             *)
(*                                                                         *)
(* Where the per-key lock excludes and no write-cached PUT goes past it,   *)
(* the identity of `.meta` only moves to newer versions (HEAD apart); if   *)
(* moreover no call fails, no process stops and nothing is invalidated,    *)
(* every versioned range that `.meta` lists has its file.                  *)
(***************************************************************************)
EXTENDS VersionedStore, TLAPS

\* What a file holds is what its name says: the reason why the name check of
\* servable_range_path is enough, with no lock, at load time.
FilesHoldTheirVersion == \A n \in Names : files[n] \in {n[2], Absent}

\* Consolidation, eviction and HEAD rewrite `.meta` from a snapshot they read
\* earlier; the snapshot is as consistent as the file was.
ConsSnapshotNamesItsVersion ==
    \A i \in Instances : \A r \in cons[i].ranges :
        r.ver \in {cons[i].etag, NoVersion}
EvictSnapshotNamesItsVersion ==
    \A r \in evict.ranges : r.ver \in {evict.etag, NoVersion}
HeadSnapshotNamesItsVersion ==
    \A i \in Instances : \A r \in head[i].ranges :
        r.ver \in {head[i].etag, NoVersion}

\* The inductive strengthening of the two safety properties.
IInv ==
    /\ TypeOK
    /\ MetaNamesItsVersion
    /\ FilesHoldTheirVersion
    /\ ConsSnapshotNamesItsVersion
    /\ EvictSnapshotNamesItsVersion
    /\ HeadSnapshotNamesItsVersion
    /\ ResponseOfOneVersion

-----------------------------------------------------------------------------
(* Facts about the operators                                               *)

\* The constant types, opened once.
LEMMA ConstantTypes ==
    /\ NoVersion \in Etags /\ Versions \subseteq Etags
    /\ Etags \subseteq Contents /\ Absent \in Contents
    /\ 1 \in Versions /\ 0 \in Stamps
    /\ \A e \in Extents, v \in Etags : <<e, v>> \in Names
  BY MaxVersionAssumption DEF Versions, Etags, Contents, Absent, Names,
     NoVersion, Stamps

\* Absent is no version, so a file that is there holds some version's bytes.
LEMMA AbsentIsNoVersion == Absent \notin Etags
  BY MaxVersionAssumption DEF Absent, Etags, Versions, NoVersion

\* IdleStore names some extent: there is one.
LEMMA IdleTypes ==
    /\ IdleStore \in StoreTask
    /\ IdleCons \in ConsTask
    /\ IdleEvict \in EvictTask
    /\ IdleHead \in HeadTask
    /\ IdleUpd \in UpdTask
    /\ IdleRead \in ReadTask
    /\ NoMeta \in Metadata
    /\ PutExtent \in Extents
  <1>1. PICK e \in Extents : TRUE
    BY ExtentsAssumption
  <1>2. (CHOOSE x \in Extents : TRUE) \in Extents
    BY <1>1
  <1> QED
    BY <1>2, ConstantTypes DEF IdleStore, IdleCons, IdleEvict, IdleHead,
       IdleUpd, IdleRead, NoMeta, Metadata, PutExtent, StoreTask, ConsTask, EvictTask,
       HeadTask, UpdTask, ReadTask

\* A store task keeps its type when it moves on or takes the lock.
LEMMA StoreTaskUpdates ==
    \A t \in StoreTask : \A p \in {"identify", "publish", "journal"} :
        /\ [t EXCEPT !.pc = p] \in StoreTask
        /\ [t EXCEPT !.pc = p, !.lock = "held"] \in StoreTask
  BY DEF StoreTask

\* What a store task carries.
LEMMA StoreTaskFields ==
    \A t \in StoreTask : t.ext \in Extents /\ t.ver \in Etags /\ t.created \in Nat
  BY DEF StoreTask, Stamps

\* Unlinking leaves a directory of the same shape in which every file that is
\* still there holds what it held.
LEMMA WithoutKeeps ==
    ASSUME files \in [Names -> Contents], FilesHoldTheirVersion, NEW S
    PROVE  /\ Without(S) \in [Names -> Contents]
           /\ \A n \in Names : Without(S)[n] \in {n[2], Absent}
  BY ConstantTypes DEF Without, FilesHoldTheirVersion

\* Publishing version v's bytes under a name for v keeps names truthful.
LEMMA PublishKeeps ==
    ASSUME files \in [Names -> Contents], FilesHoldTheirVersion,
           NEW e \in Extents, NEW v \in Etags
    PROVE  LET f == [files EXCEPT ![RangeFileName(e, v)] = v] IN
           /\ f \in [Names -> Contents]
           /\ \A n \in Names : f[n] \in {n[2], Absent}
  <1>1. <<e, v>> \in Names /\ v \in Contents
    BY ConstantTypes
  <1>2. \A n \in Names : n = <<e, v>> => n[2] = v
    OBVIOUS
  <1> QED
    BY <1>1, <1>2 DEF RangeFileName, FilesHoldTheirVersion

\* Remove entries are well-formed.
LEMMA RemoveEntriesType ==
    ASSUME clock \in Nat, NEW S \in SUBSET RangeSpec
    PROVE  RemoveEntries(S) \subseteq JournalEntry
  BY DEF RemoveEntries, RangeSpec, JournalEntry, Stamps

\* Appending them keeps the clock and the journal in their types.
LEMMA AppendRemovesType ==
    ASSUME clock \in Nat, journal \subseteq JournalEntry,
           NEW S \in SUBSET RangeSpec, AppendRemoves(S)
    PROVE  clock' \in Nat /\ journal' \subseteq JournalEntry
  <1>1. RemoveEntries(S) \subseteq JournalEntry
    BY RemoveEntriesType
  <1> QED
    BY <1>1 DEF AppendRemoves

\* A reading of the clock moves it on.
LEMMA ClockAdvances == ASSUME clock \in Nat, clock' = clock + 1 PROVE clock' \in Nat
  OBVIOUS

\* The range of an Add entry.
LEMMA SpecOfType ==
    \A e \in JournalEntry : SpecOf(e) \in RangeSpec /\ SpecOf(e).ver = e.ver
  BY DEF SpecOf, JournalEntry, RangeSpec

\* What a consolidation can leave at one extent comes from its snapshot or from
\* a publication that matches the snapshot's version.
LEMMA OutcomesNameTheVersion ==
    ASSUME NEW c, NEW ext, NEW rs,
           c.ranges \subseteq RangeSpec, c.valid \subseteq JournalEntry,
           \A r \in c.ranges : r.ver \in {c.etag, NoVersion},
           rs \in Outcomes(c, ext)
    PROVE  rs \subseteq RangeSpec /\ \A r \in rs : r.ver \in {c.etag, NoVersion}
  <1> DEFINE Good(S) == /\ S \subseteq RangeSpec
                        /\ \A r \in S : r.ver \in {c.etag, NoVersion}
             at(S) == {x \in S : x.ext = ext}
             adds == at(Adds(Matching(c)))
             removes == at(Removes(Matching(c)))
  <1>1. \A e \in adds : e \in JournalEntry /\ e.ver = c.etag
    BY DEF Adds, Matching, Matches, BelongsTo
  <1>2. \A e \in adds : Good({SpecOf(e)})
    BY <1>1, SpecOfType
  <1>3. Good(at(c.ranges))
    OBVIOUS
  <1>4. ASSUME NEW base \in Resolved(at(c.ranges), adds)
        PROVE  Good(base)
    <2>1. base = at(c.ranges) \/ \E e \in adds : base = {SpecOf(e)}
      BY <1>4 DEF Resolved, Newest
    <2> QED
      BY <2>1, <1>2, <1>3
  <1>5. ASSUME NEW base, Good(base), NEW res \in Applied(base, adds, removes)
        PROVE  Good(res)
    <2>1. res = base \/ res = {} \/ \E e \in adds : res = {SpecOf(e)}
      BY <1>5 DEF Applied
    <2> QED
      BY <2>1, <1>2, <1>5
  <1>6. PICK base \in Resolved(at(c.ranges), adds) :
            rs \in Applied(base, adds, removes)
    BY DEF Outcomes
  <1> QED
    BY <1>4, <1>5, <1>6

-----------------------------------------------------------------------------
(* The invariant holds initially and is kept by every step                 *)

\* An empty cache and a legacy one (files named for no version) satisfy it.
LEMMA InitIInv == Init => IInv
  <1> SUFFICES ASSUME Init PROVE IInv
    OBVIOUS
  <1> USE ConstantTypes, IdleTypes DEF Init
  <1>1. LegacyRanges \subseteq RangeSpec
    BY DEF LegacyRanges, RangeSpec
  <1>2. meta \in Metadata /\ files \in [Names -> Contents]
    BY <1>1 DEF Metadata
  <1>3. TypeOK
    BY <1>2 DEF TypeOK
  <1>4. MetaNamesItsVersion
    BY DEF MetaNamesItsVersion, NoMeta, LegacyRanges
  <1>5. FilesHoldTheirVersion
    BY DEF FilesHoldTheirVersion
  <1>6. /\ ConsSnapshotNamesItsVersion /\ EvictSnapshotNamesItsVersion
        /\ HeadSnapshotNamesItsVersion
    BY DEF ConsSnapshotNamesItsVersion, EvictSnapshotNamesItsVersion,
    HeadSnapshotNamesItsVersion,
           IdleCons, IdleEvict, IdleHead
  <1>7. ResponseOfOneVersion
    BY DEF ResponseOfOneVersion, IdleRead
  <1> QED
    BY <1>3, <1>4, <1>5, <1>6, <1>7 DEF IInv

\* Steps of store_range disturb the directory, the journal, the task and,
\* where they name a new version, `.meta`.
LEMMA StoreKeepsIInv ==
    ASSUME IInv, NEW i \in Instances, StoreStep(i)
    PROVE  IInv'
  <1> USE ConstantTypes, IdleTypes, StoreTaskUpdates, StoreTaskFields DEF IInv
  <1>0. store[i] \in StoreTask
    BY DEF TypeOK
  <1>1. CASE ReceiveResponse(i)
    <2>1. PICK e \in Extents, v \in Answered : store' = [store EXCEPT ![i] =
              [pc |-> "claim", ext |-> e, ver |-> v,
               created |-> clock, lock |-> "none"]]
      BY <1>1 DEF ReceiveResponse
    <2>2. [pc |-> "claim", ext |-> e, ver |-> v,
           created |-> clock, lock |-> "none"] \in StoreTask
      BY DEF StoreTask, Stamps, TypeOK, Answered
    <2>3. store' \in [Instances -> StoreTask]
      BY <2>1, <2>2 DEF TypeOK
    <2>4. clock' \in Nat
      BY <1>1, ClockAdvances DEF ReceiveResponse, TypeOK
    <2>5. TypeOK'
      BY <1>1, <2>3, <2>4 DEF ReceiveResponse, TypeOK
    <2> QED
      BY <1>1, <2>5 DEF ReceiveResponse, MetaNamesItsVersion,
         FilesHoldTheirVersion, ConsSnapshotNamesItsVersion,
         EvictSnapshotNamesItsVersion,
         HeadSnapshotNamesItsVersion, ResponseOfOneVersion
  <1>2. CASE ClaimConfirmed(i)
    <2>1. TypeOK'
      BY <1>0, <1>2 DEF ClaimConfirmed, TypeOK
    <2> QED
      BY <1>2, <2>1 DEF ClaimConfirmed, MetaNamesItsVersion,
         FilesHoldTheirVersion, ConsSnapshotNamesItsVersion,
         EvictSnapshotNamesItsVersion,
         HeadSnapshotNamesItsVersion, ResponseOfOneVersion
  <1>3. CASE ClaimSameVersion(i)
    <2>1. TypeOK'
      BY <1>0, <1>3 DEF ClaimSameVersion, TypeOK
    <2> QED
      BY <1>3, <2>1 DEF ClaimSameVersion, MetaNamesItsVersion,
         FilesHoldTheirVersion, ConsSnapshotNamesItsVersion,
         EvictSnapshotNamesItsVersion,
         HeadSnapshotNamesItsVersion, ResponseOfOneVersion
  <1>4. CASE ClaimRefused(i)
    BY <1>4 DEF ClaimRefused, TypeOK, MetaNamesItsVersion,
       FilesHoldTheirVersion, ConsSnapshotNamesItsVersion,
       EvictSnapshotNamesItsVersion, HeadSnapshotNamesItsVersion, ResponseOfOneVersion
  <1>5. CASE ClaimRetire(i)
    <2>1. PICK old, failed :
            LET removed == {r \in old : NameOf(r) \notin failed} IN
            /\ old \subseteq meta.ranges
            /\ files' = Without({NameOf(r) : r \in removed})
            /\ AppendRemoves(removed)
            /\ store' = [store EXCEPT ![i] =
                 IF failed = {}
                 THEN [@ EXCEPT !.pc = "identify", !.lock = "held"]
                 ELSE IdleStore]
      BY <1>5 DEF ClaimRetire
    <2>2. {r \in old : NameOf(r) \notin failed} \in SUBSET RangeSpec
      BY <2>1 DEF TypeOK, Metadata
    <2>3. clock' \in Nat /\ journal' \subseteq JournalEntry
      BY <2>1, <2>2, AppendRemovesType DEF TypeOK
    <2>4. files' \in [Names -> Contents] /\ FilesHoldTheirVersion'
      BY <2>1, WithoutKeeps DEF TypeOK, FilesHoldTheirVersion
    <2>5. store' \in [Instances -> StoreTask]
      BY <1>0, <2>1 DEF TypeOK
    <2>6. TypeOK'
      BY <1>5, <2>3, <2>4, <2>5 DEF ClaimRetire, TypeOK
    <2> QED
      BY <1>5, <2>4, <2>6 DEF ClaimRetire, MetaNamesItsVersion,
         ConsSnapshotNamesItsVersion, EvictSnapshotNamesItsVersion,
         HeadSnapshotNamesItsVersion,
         ResponseOfOneVersion
  <1>6. CASE ClaimIdentify(i)
    <2>1. [file |-> "parsed", etag |-> store[i].ver, ranges |-> {}] \in Metadata
      BY <1>0 DEF Metadata
    <2>2. TypeOK'
      BY <1>0, <1>6, <2>1 DEF ClaimIdentify, TypeOK
    <2>3. MetaNamesItsVersion'
      BY <1>6 DEF ClaimIdentify, MetaNamesItsVersion
    <2> QED
      BY <1>6, <2>2, <2>3 DEF ClaimIdentify, FilesHoldTheirVersion,
         ConsSnapshotNamesItsVersion, EvictSnapshotNamesItsVersion,
         HeadSnapshotNamesItsVersion,
         ResponseOfOneVersion
  <1>7. CASE PublishRange(i)
    <2>1. store[i].ext \in Extents /\ store[i].ver \in Etags
      BY <1>0
    <2>2. files' \in [Names -> Contents] /\ FilesHoldTheirVersion'
      BY <1>7, <2>1, PublishKeeps
         DEF PublishRange, NameOf, TypeOK, FilesHoldTheirVersion
    <2>3. TypeOK'
      BY <1>0, <1>7, <2>2 DEF PublishRange, TypeOK
    <2> QED
      BY <1>7, <2>2, <2>3 DEF PublishRange, MetaNamesItsVersion,
         ConsSnapshotNamesItsVersion, EvictSnapshotNamesItsVersion,
         HeadSnapshotNamesItsVersion,
         ResponseOfOneVersion
  <1>8. CASE JournalRange(i)
    <2>1. [op |-> "Add", ext |-> store[i].ext, ver |-> store[i].ver,
           created |-> store[i].created, stamp |-> clock] \in JournalEntry
      BY <1>0 DEF TypeOK, JournalEntry, Stamps
    <2>2. journal' \subseteq JournalEntry /\ clock' \in Nat
      BY <1>8, <2>1, ClockAdvances DEF JournalRange, TypeOK
    <2>3. store' \in [Instances -> StoreTask]
      BY <1>8 DEF JournalRange, TypeOK
    <2>4. TypeOK'
      BY <1>8, <2>2, <2>3 DEF JournalRange, TypeOK
    <2> QED
      BY <1>8, <2>4 DEF JournalRange, MetaNamesItsVersion,
         FilesHoldTheirVersion, ConsSnapshotNamesItsVersion,
         EvictSnapshotNamesItsVersion,
         HeadSnapshotNamesItsVersion, ResponseOfOneVersion
  <1>9. CASE StoreFails(i)
    BY <1>9 DEF StoreFails, TypeOK, MetaNamesItsVersion,
       FilesHoldTheirVersion, ConsSnapshotNamesItsVersion,
       EvictSnapshotNamesItsVersion, HeadSnapshotNamesItsVersion, ResponseOfOneVersion
  <1> QED
    BY <1>1, <1>2, <1>3, <1>4, <1>5, <1>6, <1>7, <1>8, <1>9 DEF StoreStep

\* Consolidation disturbs its own snapshot, the directory, `.meta` and, last,
\* the journal.
LEMMA ConsolidateKeepsIInv ==
    ASSUME IInv, NEW i \in Instances, ConsolidateStep(i)
    PROVE  IInv'
  <1> USE ConstantTypes, IdleTypes DEF IInv
  <1>0. /\ cons[i] \in ConsTask
        /\ cons[i].etag \in Etags
        /\ cons[i].ranges \subseteq RangeSpec
        /\ cons[i].valid \subseteq JournalEntry
        /\ cons[i].drop \subseteq JournalEntry
        /\ \A r \in cons[i].ranges : r.ver \in {cons[i].etag, NoVersion}
    BY DEF TypeOK, ConsTask, ConsSnapshotNamesItsVersion
  <1>1. CASE ConsolidateBegin(i)
    <2>1. PICK t \in ConsTask :
            /\ cons' = [cons EXCEPT ![i] = t]
            /\ \A r \in t.ranges : r.ver \in {t.etag, NoVersion}
      <3>1. ValidEntries \subseteq JournalEntry /\ StaleEntries \subseteq JournalEntry
        BY DEF ValidEntries, StaleEntries, Adds, Removes, TypeOK
      <3>2. ASSUME NEW m \in LoadOrCreate(ValidEntries)
            PROVE  /\ m.etag \in Etags /\ m.ranges \subseteq RangeSpec
                   /\ \A r \in m.ranges : r.ver \in {m.etag, NoVersion}
        <4>1. CASE m = meta
          BY <4>1 DEF TypeOK, Metadata, MetaNamesItsVersion
        <4>2. CASE \E v \in Etags :
                     m = [file |-> "parsed", etag |-> v, ranges |-> {}]
          BY <4>2
        <4>3. \A e \in ValidEntries : e.ver \in Etags
          BY <3>1 DEF JournalEntry
        <4> QED
          BY <4>1, <4>2, <4>3 DEF LoadOrCreate, Newest, Adds
      <3>3. PICK stale \in {StaleEntries, {}} :
              \/ cons' = [cons EXCEPT ![i] =
                   [IdleCons EXCEPT !.pc = "cleanup", !.drop = stale]]
              \/ \E m \in LoadOrCreate(ValidEntries) :
                   cons' = [cons EXCEPT ![i] =
                     [pc |-> "unlink", etag |-> m.etag, ranges |-> m.ranges,
                      valid |-> ValidEntries, drop |-> stale]]
        BY <1>1 DEF ConsolidateBegin
      <3>4. stale \subseteq JournalEntry
        BY <3>1
      <3>5. [IdleCons EXCEPT !.pc = "cleanup", !.drop = stale] \in ConsTask
        BY <3>4 DEF IdleCons, ConsTask
      <3>6. [IdleCons EXCEPT !.pc = "cleanup", !.drop = stale].ranges = {}
        BY DEF IdleCons
      <3>7. ASSUME NEW m \in LoadOrCreate(ValidEntries)
            PROVE  [pc |-> "unlink", etag |-> m.etag, ranges |-> m.ranges,
                    valid |-> ValidEntries, drop |-> stale] \in ConsTask
        BY <3>1, <3>2, <3>4 DEF ConsTask
      <3> QED
        BY <3>2, <3>3, <3>5, <3>6, <3>7
    <2>2. TypeOK'
      BY <1>1, <2>1 DEF ConsolidateBegin, TypeOK
    <2>3. ConsSnapshotNamesItsVersion'
      BY <2>1 DEF ConsSnapshotNamesItsVersion, TypeOK
    <2> QED
      BY <1>1, <2>2, <2>3 DEF ConsolidateBegin, MetaNamesItsVersion,
         FilesHoldTheirVersion, EvictSnapshotNamesItsVersion,
         HeadSnapshotNamesItsVersion,
         ResponseOfOneVersion
  <1>2. CASE ConsolidateUnlink(i)
    <2> DEFINE c == cons[i]
               targets == {n \in Rejected(c) \cup {NameOf(r) : r \in Foreign(c)} :
                              files[n] # Absent}
               keep(failed) == {r \in c.ranges :
                   BelongsTo(r, c.etag) \/ NameOf(r) \in failed}
               done(failed) == {e \in c.valid :
                   Matches(e, c.etag) \/ NameOf(e) \notin failed}
    <2>1. PICK failed :
            /\ files' = Without(targets \ failed)
            /\ cons' = [cons EXCEPT ![i] =
                 [c EXCEPT !.pc = "write", !.ranges = keep(failed),
                           !.drop = @ \cup done(failed)]]
      BY <1>2 DEF ConsolidateUnlink
    <2> DEFINE t == [c EXCEPT !.pc = "write", !.ranges = keep(failed),
                              !.drop = @ \cup done(failed)]
    <2>2. t \in ConsTask /\ t.ranges \subseteq c.ranges /\ t.etag = c.etag
      BY <1>0 DEF ConsTask
    <2>3. cons' \in [Instances -> ConsTask]
      BY <2>1, <2>2 DEF TypeOK
    <2>4. files' \in [Names -> Contents] /\ FilesHoldTheirVersion'
      BY <2>1, WithoutKeeps DEF TypeOK, FilesHoldTheirVersion
    <2>5. TypeOK'
      BY <1>2, <2>3, <2>4 DEF ConsolidateUnlink, TypeOK
    <2>6. ConsSnapshotNamesItsVersion'
      BY <1>0, <2>1, <2>2 DEF ConsSnapshotNamesItsVersion, TypeOK
    <2> QED
      BY <1>2, <2>4, <2>5, <2>6 DEF ConsolidateUnlink, MetaNamesItsVersion,
         EvictSnapshotNamesItsVersion,
         HeadSnapshotNamesItsVersion, ResponseOfOneVersion
  <1>3. CASE ConsolidateWrite(i)
    <2>1. CASE UNCHANGED meta /\ cons' = [cons EXCEPT ![i] = IdleCons]
      <3>1. TypeOK'
        BY <1>3, <2>1 DEF ConsolidateWrite, TypeOK
      <3>2. ConsSnapshotNamesItsVersion'
        BY <2>1 DEF ConsSnapshotNamesItsVersion, TypeOK, IdleCons
      <3> QED
        BY <1>3, <2>1, <3>1, <3>2 DEF ConsolidateWrite, MetaNamesItsVersion,
           FilesHoldTheirVersion, EvictSnapshotNamesItsVersion,
           HeadSnapshotNamesItsVersion,
           ResponseOfOneVersion
    <2>2. CASE \E f \in [Extents -> UNION {Outcomes(cons[i], e) : e \in Extents}] :
                 /\ \A e \in Extents : f[e] \in Outcomes(cons[i], e)
                 /\ meta' = [file |-> "parsed", etag |-> cons[i].etag,
                             ranges |-> UNION {f[e] : e \in Extents}]
                 /\ cons' = [cons EXCEPT ![i] =
                      [IdleCons EXCEPT !.pc = "cleanup", !.drop = cons[i].drop]]
      <3>1. PICK f : /\ \A e \in Extents : f[e] \in Outcomes(cons[i], e)
                     /\ meta' = [file |-> "parsed", etag |-> cons[i].etag,
                                 ranges |-> UNION {f[e] : e \in Extents}]
        BY <2>2
      <3>2. \A e \in Extents :
              /\ f[e] \subseteq RangeSpec
              /\ \A r \in f[e] : r.ver \in {cons[i].etag, NoVersion}
        BY <1>0, <3>1, OutcomesNameTheVersion
      <3>3. meta' \in Metadata
        BY <1>0, <3>1, <3>2 DEF Metadata
      <3>4. MetaNamesItsVersion'
        BY <3>1, <3>2 DEF MetaNamesItsVersion
      <3>5. [IdleCons EXCEPT !.pc = "cleanup", !.drop = cons[i].drop] \in ConsTask
        BY <1>0 DEF IdleCons, ConsTask
      <3>6. [IdleCons EXCEPT !.pc = "cleanup", !.drop = cons[i].drop].ranges = {}
        BY DEF IdleCons
      <3>7. cons' \in [Instances -> ConsTask]
        BY <2>2, <3>5 DEF TypeOK
      <3>8. TypeOK'
        BY <1>3, <3>3, <3>7 DEF ConsolidateWrite, TypeOK
      <3>9. ConsSnapshotNamesItsVersion'
        BY <2>2, <3>6 DEF ConsSnapshotNamesItsVersion, TypeOK
      <3> QED
        BY <1>3, <3>4, <3>8, <3>9 DEF ConsolidateWrite, FilesHoldTheirVersion,
           EvictSnapshotNamesItsVersion,
           HeadSnapshotNamesItsVersion, ResponseOfOneVersion
    <2> QED
      BY <1>3, <2>1, <2>2 DEF ConsolidateWrite
  <1>4. CASE ConsolidateCleanup(i)
    <2>1. TypeOK'
      BY <1>4 DEF ConsolidateCleanup, TypeOK
    <2>2. ConsSnapshotNamesItsVersion'
      BY <1>4 DEF ConsolidateCleanup, ConsSnapshotNamesItsVersion, TypeOK, IdleCons
    <2> QED
      BY <1>4, <2>1, <2>2 DEF ConsolidateCleanup, MetaNamesItsVersion,
         FilesHoldTheirVersion, EvictSnapshotNamesItsVersion,
         HeadSnapshotNamesItsVersion,
         ResponseOfOneVersion
  <1> QED
    BY <1>1, <1>2, <1>3, <1>4 DEF ConsolidateStep

\* Eviction rewrites `.meta` from the ranges it kept of its own snapshot.
LEMMA EvictKeepsIInv ==
    ASSUME IInv, EvictStep
    PROVE  IInv'
  <1> USE ConstantTypes, IdleTypes DEF IInv
  <1>0. /\ evict.etag \in Etags
        /\ evict.ranges \subseteq RangeSpec
        /\ evict.removed \subseteq RangeSpec
        /\ meta.etag \in Etags /\ meta.ranges \subseteq RangeSpec
    BY DEF TypeOK, EvictTask, Metadata
  <1>1. CASE EvictUnlink
    <2>a. PICK exts \in SUBSET Extents :
            LET chosen == {r \in meta.ranges : r.ext \in exts}
                live == {r \in chosen : OnDisk(r)}
            IN  \E failed \in FailedUnlinks({NameOf(r) : r \in live}) :
                  LET kept == {r \in live : NameOf(r) \in failed} IN
                  /\ files' = Without({NameOf(r) : r \in live \ kept})
                  /\ evict' = [pc |-> "rewrite", etag |-> meta.etag,
                               ranges |-> (meta.ranges \ chosen) \cup kept,
                               removed |-> live \ kept]
      BY <1>1, Zenon DEF EvictUnlink
    <2>0. PICK failed :
            LET chosen == {r \in meta.ranges : r.ext \in exts}
                live == {r \in chosen : OnDisk(r)}
                kept == {r \in live : NameOf(r) \in failed}
            IN  /\ files' = Without({NameOf(r) : r \in live \ kept})
                /\ evict' = [pc |-> "rewrite", etag |-> meta.etag,
                             ranges |-> (meta.ranges \ chosen) \cup kept,
                             removed |-> live \ kept]
      BY <2>a, Zenon
    <2> DEFINE chosen == {r \in meta.ranges : r.ext \in exts}
               live == {r \in chosen : OnDisk(r)}
               kept == {r \in live : NameOf(r) \in failed}
               gone == {NameOf(r) : r \in live \ kept}
               keep == (meta.ranges \ chosen) \cup kept
               out == live \ kept
    <2>1. /\ files' = Without(gone)
          /\ evict' = [pc |-> "rewrite", etag |-> meta.etag,
                       ranges |-> keep, removed |-> out]
          /\ keep \subseteq meta.ranges /\ out \subseteq meta.ranges
      BY <2>0
    <2> HIDE DEF gone, keep, out
    <2>2. evict' \in EvictTask
      BY <1>0, <2>1 DEF EvictTask
    <2>3. files' \in [Names -> Contents] /\ FilesHoldTheirVersion'
      BY <2>1, WithoutKeeps DEF TypeOK, FilesHoldTheirVersion
    <2>4. TypeOK'
      BY <1>1, <2>2, <2>3 DEF EvictUnlink, TypeOK
    <2>5. EvictSnapshotNamesItsVersion'
      BY <2>1 DEF EvictSnapshotNamesItsVersion, MetaNamesItsVersion
    <2> QED
      BY <1>1, <2>3, <2>4, <2>5 DEF EvictUnlink, MetaNamesItsVersion,
         ConsSnapshotNamesItsVersion, HeadSnapshotNamesItsVersion,
         ResponseOfOneVersion
  <1>2. CASE EvictRewrite
    <2>1. meta' \in Metadata /\ MetaNamesItsVersion'
      BY <1>0, <1>2 DEF EvictRewrite, TypeOK, Metadata, NoMeta,
         MetaNamesItsVersion, EvictSnapshotNamesItsVersion
    <2>2. evict' \in EvictTask /\ evict'.ranges = {}
      <3> DEFINE t == [pc |-> "journal", etag |-> NoVersion, ranges |-> {},
                       removed |-> evict.removed]
      <3>1. evict' = IdleEvict \/ evict' = t
        BY <1>2 DEF EvictRewrite, Evicted
      <3>2. t \in EvictTask /\ t.ranges = {}
        BY <1>0 DEF EvictTask
      <3>3. IdleEvict.ranges = {}
        BY DEF IdleEvict
      <3> QED
        BY <3>1, <3>2, <3>3
    <2>3. TypeOK'
      BY <1>2, <2>1, <2>2 DEF EvictRewrite, TypeOK
    <2> QED
      BY <1>2, <2>1, <2>2, <2>3 DEF EvictRewrite, FilesHoldTheirVersion,
         ConsSnapshotNamesItsVersion, EvictSnapshotNamesItsVersion,
         HeadSnapshotNamesItsVersion,
         ResponseOfOneVersion
  <1>3. CASE EvictJournal
    <2>1. clock' \in Nat /\ journal' \subseteq JournalEntry
      BY <1>0, <1>3, AppendRemovesType DEF EvictJournal, TypeOK
    <2>2. TypeOK'
      BY <1>3, <2>1 DEF EvictJournal, TypeOK
    <2> QED
      BY <1>3, <2>2 DEF EvictJournal, MetaNamesItsVersion, IdleEvict,
         FilesHoldTheirVersion, ConsSnapshotNamesItsVersion,
         EvictSnapshotNamesItsVersion,
         HeadSnapshotNamesItsVersion, ResponseOfOneVersion
  <1> QED
    BY <1>1, <1>2, <1>3 DEF EvictStep

\* A HEAD refresh disturbs the directory, the journal and its own snapshot,
\* then `.meta`.
LEMMA HeadKeepsIInv ==
    ASSUME IInv, NEW i \in Instances, HeadStep(i)
    PROVE  IInv'
  <1> USE ConstantTypes, IdleTypes DEF IInv
  <1>0. /\ head[i] \in HeadTask /\ head[i].etag \in Etags
        /\ head[i].ranges \subseteq RangeSpec
        /\ meta.ranges \subseteq RangeSpec
        /\ IdleHead.ranges = {}
    BY DEF TypeOK, HeadTask, Metadata, IdleHead
  <1>1. CASE HeadRefresh(i)
    <2>1. PICK v \in Versions, removed \in SUBSET meta.ranges :
            /\ files' = Without({NameOf(r) : r \in removed})
            /\ \/ journal' = journal \cup RemoveEntries(removed)
               \/ journal' = journal
            /\ \/ head' = [head EXCEPT ![i] = IdleHead]
               \/ head' = [head EXCEPT ![i] =
                     [pc |-> "write", etag |-> v,
                      ranges |-> IF meta.etag = v THEN meta.ranges ELSE {}]]
      <3> DEFINE Old(v) == IF meta.etag = v THEN {} ELSE {r \in meta.ranges : OnDisk(r)}
      <3>0. PICK v \in Answered :
              LET old == Old(v) IN
              \E failed \in FailedUnlinks({NameOf(r) : r \in old}) :
               LET removed == {r \in old : NameOf(r) \notin failed} IN
               /\ files' = Without({NameOf(r) : r \in removed})
               /\ \/ journal' = journal \cup RemoveEntries(removed)
                  \/ Faults /\ journal' = journal
               /\ head' = [head EXCEPT ![i] =
                    IF failed # {} THEN IdleHead
                    ELSE [pc |-> "write", etag |-> v,
                          ranges |-> IF meta.etag = v THEN meta.ranges ELSE {}]]
        BY <1>1, Zenon DEF HeadRefresh
      <3> DEFINE old == Old(v)
      <3>1. PICK failed :
              LET removed == {r \in old : NameOf(r) \notin failed} IN
              /\ files' = Without({NameOf(r) : r \in removed})
              /\ \/ journal' = journal \cup RemoveEntries(removed)
                 \/ Faults /\ journal' = journal
              /\ head' = [head EXCEPT ![i] =
                   IF failed # {} THEN IdleHead
                   ELSE [pc |-> "write", etag |-> v,
                         ranges |-> IF meta.etag = v THEN meta.ranges ELSE {}]]
        BY <3>0, Zenon
      <3>2. v \in Versions /\ {r \in old : NameOf(r) \notin failed} \in SUBSET meta.ranges
        BY DEF Answered
      <3> QED
        BY <3>1, <3>2
    <2> DEFINE t == [pc |-> "write", etag |-> v,
                     ranges |-> IF meta.etag = v THEN meta.ranges ELSE {}]
    <2>2. /\ t \in HeadTask
          /\ \A r \in t.ranges : r.ver \in {t.etag, NoVersion}
      BY <1>0 DEF HeadTask, MetaNamesItsVersion
    <2>3. head' \in [Instances -> HeadTask] /\ HeadSnapshotNamesItsVersion'
      BY <1>0, <2>1, <2>2 DEF TypeOK, HeadSnapshotNamesItsVersion
    <2>4. journal' \subseteq JournalEntry
      BY <1>0, <2>1, RemoveEntriesType DEF TypeOK
    <2>5. clock' \in Nat
      BY <1>1, ClockAdvances DEF HeadRefresh, TypeOK
    <2>6. files' \in [Names -> Contents] /\ FilesHoldTheirVersion'
      BY <2>1, WithoutKeeps DEF TypeOK, FilesHoldTheirVersion
    <2>7. TypeOK'
      BY <1>1, <2>3, <2>4, <2>5, <2>6 DEF HeadRefresh, TypeOK
    <2> QED
      BY <1>1, <2>3, <2>6, <2>7 DEF HeadRefresh, MetaNamesItsVersion,
         ConsSnapshotNamesItsVersion, EvictSnapshotNamesItsVersion,
         ResponseOfOneVersion
  <1>2. CASE HeadWrite(i)
    <2>1. meta' \in Metadata /\ MetaNamesItsVersion'
      BY <1>0, <1>2 DEF HeadWrite, TypeOK, Metadata, MetaNamesItsVersion,
         HeadSnapshotNamesItsVersion
    <2>2. head' \in [Instances -> HeadTask] /\ HeadSnapshotNamesItsVersion'
      BY <1>0, <1>2 DEF HeadWrite, TypeOK, HeadSnapshotNamesItsVersion
    <2>3. TypeOK'
      BY <1>2, <2>1, <2>2 DEF HeadWrite, TypeOK
    <2> QED
      BY <1>2, <2>1, <2>2, <2>3 DEF HeadWrite, FilesHoldTheirVersion,
         ConsSnapshotNamesItsVersion, EvictSnapshotNamesItsVersion,
         ResponseOfOneVersion
  <1> QED
    BY <1>1, <1>2 DEF HeadStep

\* Invalidation and PUT write `.meta` without the lock, but whole.
LEMMA UpdateKeepsIInv ==
    ASSUME IInv, UpdateStep
    PROVE  IInv'
  <1> USE ConstantTypes, IdleTypes DEF IInv
  <1>0. /\ upd \in UpdTask /\ upd.ver \in Etags /\ upd.created \in Stamps
        /\ \A p \in {"delete", "finalize", "supersede", "commit"} :
              [upd EXCEPT !.pc = p] \in UpdTask
        /\ AfterInvalidation \subseteq UpdTask
    BY DEF TypeOK, UpdTask, AfterInvalidation
  <1>1. CASE InvalidateBegin
    <2>1. upd' \in UpdTask
      BY <1>1 DEF InvalidateBegin, IdleUpd, UpdTask
    <2>2. TypeOK'
      BY <1>1, <2>1 DEF InvalidateBegin, TypeOK
    <2> QED
      BY <1>1, <2>2 DEF InvalidateBegin, MetaNamesItsVersion,
         FilesHoldTheirVersion, ConsSnapshotNamesItsVersion,
         EvictSnapshotNamesItsVersion,
         HeadSnapshotNamesItsVersion, ResponseOfOneVersion
  <1>2. CASE PutAccepted
    <2>1. origin' \in Versions /\ origin + 1 \in Etags
      BY <1>2, MaxVersionAssumption DEF PutAccepted, TypeOK, Versions, Etags
    <2>2. upd' \in UpdTask
      BY <1>2, <2>1 DEF PutAccepted, IdleUpd, UpdTask
    <2>3. TypeOK'
      BY <1>2, <2>1, <2>2 DEF PutAccepted, TypeOK
    <2> QED
      BY <1>2, <2>3 DEF PutAccepted, MetaNamesItsVersion,
         FilesHoldTheirVersion, ConsSnapshotNamesItsVersion,
         EvictSnapshotNamesItsVersion,
         HeadSnapshotNamesItsVersion, ResponseOfOneVersion
  <1>3. CASE InvalidateUnlink
    <2>1. files' = files \/ \E S : files' = Without(S)
      BY <1>3 DEF InvalidateUnlink
    <2>2. files' \in [Names -> Contents] /\ FilesHoldTheirVersion'
      BY <2>1, WithoutKeeps DEF TypeOK, FilesHoldTheirVersion
    <2>3. upd' \in UpdTask
      BY <1>0, <1>3 DEF InvalidateUnlink
    <2>4. TypeOK'
      BY <1>3, <2>2, <2>3 DEF InvalidateUnlink, TypeOK
    <2> QED
      BY <1>3, <2>2, <2>4 DEF InvalidateUnlink, MetaNamesItsVersion,
         ConsSnapshotNamesItsVersion, EvictSnapshotNamesItsVersion,
         HeadSnapshotNamesItsVersion,
         ResponseOfOneVersion
  <1>4. CASE InvalidateDelete
    <2>1. TypeOK'
      BY <1>0, <1>4 DEF InvalidateDelete, TypeOK
    <2>2. MetaNamesItsVersion'
      BY <1>4 DEF InvalidateDelete, MetaNamesItsVersion, NoMeta
    <2> QED
      BY <1>4, <2>1, <2>2 DEF InvalidateDelete, FilesHoldTheirVersion,
         ConsSnapshotNamesItsVersion, EvictSnapshotNamesItsVersion,
         HeadSnapshotNamesItsVersion,
         ResponseOfOneVersion
  <1>5. CASE PutFinalize
    <2>1. files' \in [Names -> Contents] /\ FilesHoldTheirVersion'
      BY <1>0, <1>5, PublishKeeps DEF PutFinalize, TypeOK, FilesHoldTheirVersion
    <2>2. upd' \in UpdTask
      BY <1>0, <1>5 DEF PutFinalize, UpdTask, TypeOK, Stamps
    <2>3. clock' \in Nat
      BY <1>5, ClockAdvances DEF PutFinalize, TypeOK
    <2>4. TypeOK'
      BY <1>5, <2>1, <2>2, <2>3 DEF PutFinalize, TypeOK
    <2> QED
      BY <1>5, <2>1, <2>4 DEF PutFinalize, MetaNamesItsVersion,
         ConsSnapshotNamesItsVersion, EvictSnapshotNamesItsVersion,
         HeadSnapshotNamesItsVersion,
         ResponseOfOneVersion
  <1>6. CASE PutSupersede
    <2>1. PICK removed \in SUBSET meta.ranges :
            /\ files' = Without({NameOf(r) : r \in removed})
            /\ AppendRemoves(removed)
      <3> DEFINE old == {r \in meta.ranges :
                           NameOf(r) # NameOf(PutRange) /\ OnDisk(r)}
      <3>1. PICK failed :
              LET removed == {r \in old : NameOf(r) \notin failed} IN
              /\ files' = Without({NameOf(r) : r \in removed})
              /\ AppendRemoves(removed)
        BY <1>6 DEF PutSupersede
      <3>2. {r \in old : NameOf(r) \notin failed} \in SUBSET meta.ranges
        OBVIOUS
      <3> QED
        BY <3>1, <3>2
    <2>2. removed \in SUBSET RangeSpec
      BY DEF TypeOK, Metadata
    <2>3. clock' \in Nat /\ journal' \subseteq JournalEntry
      BY <2>1, <2>2, AppendRemovesType DEF TypeOK
    <2>4. files' \in [Names -> Contents] /\ FilesHoldTheirVersion'
      BY <2>1, WithoutKeeps DEF TypeOK, FilesHoldTheirVersion
    <2>5. TypeOK'
      BY <1>0, <1>6, <2>3, <2>4 DEF PutSupersede, TypeOK
    <2> QED
      BY <1>6, <2>4, <2>5 DEF PutSupersede, MetaNamesItsVersion,
         ConsSnapshotNamesItsVersion, EvictSnapshotNamesItsVersion,
         HeadSnapshotNamesItsVersion,
         ResponseOfOneVersion
  <1>7. CASE PutCommit
    <2>1. PutRange \in RangeSpec /\ PutRange.ver = upd.ver
      BY <1>0 DEF PutRange, RangeSpec
    <2>2. [file |-> "parsed", etag |-> upd.ver, ranges |-> {PutRange}] \in Metadata
      BY <1>0, <2>1 DEF Metadata
    <2>3. TypeOK'
      BY <1>7, <2>2 DEF PutCommit, TypeOK
    <2>4. MetaNamesItsVersion'
      BY <1>7, <2>1 DEF PutCommit, MetaNamesItsVersion
    <2> QED
      BY <1>7, <2>3, <2>4 DEF PutCommit, FilesHoldTheirVersion,
         ConsSnapshotNamesItsVersion, EvictSnapshotNamesItsVersion,
         HeadSnapshotNamesItsVersion,
         ResponseOfOneVersion
  <1> QED
    BY <1>1, <1>2, <1>3, <1>4, <1>5, <1>6, <1>7 DEF UpdateStep

\* A load adds the bytes of the file whose name belongs to the response's
\* version; names are truthful, so these are that version's bytes.
LEMMA ReadKeepsIInv ==
    ASSUME IInv, ReadStep
    PROVE  IInv'
  <1> USE ConstantTypes, IdleTypes DEF IInv
  <1>1. CASE ReadLookup
    <2>1. PICK want \in SUBSET {r.ext : r \in meta.ranges} :
            read' = [pc |-> "load", etag |-> meta.etag, todo |-> want, got |-> {}]
      BY <1>1 DEF ReadLookup
    <2>2. want \subseteq Extents /\ meta.etag \in Etags
      BY DEF TypeOK, Metadata, RangeSpec
    <2>3. read' \in ReadTask /\ ResponseOfOneVersion'
      BY <2>1, <2>2 DEF ReadTask, ResponseOfOneVersion
    <2>4. TypeOK'
      BY <1>1, <2>3 DEF ReadLookup, TypeOK
    <2> QED
      BY <1>1, <2>3, <2>4 DEF ReadLookup, MetaNamesItsVersion,
         FilesHoldTheirVersion, ConsSnapshotNamesItsVersion,
         EvictSnapshotNamesItsVersion, HeadSnapshotNamesItsVersion
  <1>2. CASE ReadLoad
    <2>1. CASE read' = IdleRead
      <3>1. TypeOK'
        BY <1>2, <2>1 DEF ReadLoad, TypeOK
      <3> QED
        BY <1>2, <2>1, <3>1 DEF ReadLoad, MetaNamesItsVersion, IdleRead,
           FilesHoldTheirVersion, ConsSnapshotNamesItsVersion,
           EvictSnapshotNamesItsVersion,
           HeadSnapshotNamesItsVersion, ResponseOfOneVersion
    <2>2. CASE \E ext \in read.todo : \E r \in LoadableSpecs(ext) :
                 /\ BelongsTo(r, read.etag)
                 /\ OnDisk(r)
                 /\ read' = [read EXCEPT !.todo = @ \ {ext},
                                         !.got = @ \cup {files[NameOf(r)]}]
      <3>0. PICK ext \in read.todo : \E r \in LoadableSpecs(ext) :
              /\ BelongsTo(r, read.etag)
              /\ OnDisk(r)
              /\ read' = [read EXCEPT !.todo = @ \ {ext},
                                      !.got = @ \cup {files[NameOf(r)]}]
        BY <2>2
      <3>1. PICK r \in LoadableSpecs(ext) :
              /\ BelongsTo(r, read.etag)
              /\ OnDisk(r)
              /\ read' = [read EXCEPT !.todo = @ \ {ext},
                                      !.got = @ \cup {files[NameOf(r)]}]
        BY <3>0
      <3>2. r \in RangeSpec
        <4>1. LoadableSpecs(ext) \subseteq meta.ranges
                \cup {SpecOf(e) : e \in Adds(journal)}
          BY DEF LoadableSpecs, Adds
        <4>2. meta.ranges \subseteq RangeSpec /\ Adds(journal) \subseteq JournalEntry
          BY DEF TypeOK, Metadata, Adds
        <4> QED
          BY <4>1, <4>2, SpecOfType
      <3>3. /\ NameOf(r) \in Names /\ NameOf(r)[2] = r.ver
            /\ r.ver = read.etag
        BY <3>1, <3>2 DEF NameOf, RangeFileName, RangeSpec, BelongsTo
      <3>4. files[NameOf(r)] = read.etag
        BY <3>1, <3>3 DEF FilesHoldTheirVersion, OnDisk
      <3>5. read' \in ReadTask /\ ResponseOfOneVersion'
        BY <3>1, <3>4 DEF TypeOK, ReadTask, ResponseOfOneVersion
      <3>6. TypeOK'
        BY <1>2, <3>5 DEF ReadLoad, TypeOK
      <3> QED
        BY <1>2, <3>5, <3>6 DEF ReadLoad, MetaNamesItsVersion,
           FilesHoldTheirVersion, ConsSnapshotNamesItsVersion,
           EvictSnapshotNamesItsVersion, HeadSnapshotNamesItsVersion
    <2> QED
      BY <1>2, <2>1, <2>2 DEF ReadLoad
  <1>3. CASE ReadServe
    <2>1. TypeOK'
      BY <1>3 DEF ReadServe, TypeOK
    <2> QED
      BY <1>3, <2>1 DEF ReadServe, MetaNamesItsVersion, IdleRead,
         FilesHoldTheirVersion, ConsSnapshotNamesItsVersion,
         EvictSnapshotNamesItsVersion,
         HeadSnapshotNamesItsVersion, ResponseOfOneVersion
  <1> QED
    BY <1>1, <1>2, <1>3 DEF ReadStep

\* A process that dies and a version written by someone else.
LEMMA EnvironmentKeepsIInv ==
    ASSUME IInv, Overwrite \/ \E i \in Instances : Crash(i)
    PROVE  IInv'
  <1> USE ConstantTypes, IdleTypes DEF IInv
  <1>1. CASE Overwrite
    <2>1. origin' \in Versions
      BY <1>1, MaxVersionAssumption DEF Overwrite, TypeOK, Versions
    <2>2. TypeOK'
      BY <1>1, <2>1 DEF Overwrite, TypeOK
    <2> QED
      BY <1>1, <2>2 DEF Overwrite, MetaNamesItsVersion,
         FilesHoldTheirVersion, ConsSnapshotNamesItsVersion,
         EvictSnapshotNamesItsVersion,
         HeadSnapshotNamesItsVersion, ResponseOfOneVersion
  <1>2. ASSUME NEW i \in Instances, Crash(i)
        PROVE  IInv'
    <2>1. TypeOK'
      BY <1>2 DEF Crash, TypeOK
    <2>2. /\ ConsSnapshotNamesItsVersion' /\ EvictSnapshotNamesItsVersion'
          /\ HeadSnapshotNamesItsVersion'
      BY <1>2 DEF Crash, TypeOK, ConsSnapshotNamesItsVersion,
         EvictSnapshotNamesItsVersion,
         HeadSnapshotNamesItsVersion, IdleCons, IdleEvict, IdleHead
    <2> QED
      BY <1>2, <2>1, <2>2 DEF Crash, MetaNamesItsVersion,
         FilesHoldTheirVersion, ResponseOfOneVersion
  <1> QED
    BY <1>1, <1>2

-----------------------------------------------------------------------------
(* The results                                                             *)

\* IInv is an invariant of the whole system: it holds in an empty or a legacy
\* cache and every step of every task keeps it.
THEOREM StoreInvariant == Spec => []IInv
  <1>1. IInv /\ [Next]_vars => IInv'
    <2> SUFFICES ASSUME IInv, [Next]_vars PROVE IInv'
      OBVIOUS
    <2>1. CASE UNCHANGED vars
      BY <2>1 DEF vars, IInv, TypeOK, MetaNamesItsVersion,
         FilesHoldTheirVersion, ConsSnapshotNamesItsVersion,
         EvictSnapshotNamesItsVersion,
         HeadSnapshotNamesItsVersion, ResponseOfOneVersion
    <2>2. CASE Next
      BY <2>2, StoreKeepsIInv, ConsolidateKeepsIInv, EvictKeepsIInv,
         HeadKeepsIInv, UpdateKeepsIInv, ReadKeepsIInv, EnvironmentKeepsIInv DEF Next
    <2> QED
      BY <2>1, <2>2
  <1> QED
    BY <1>1, InitIInv, PTL DEF Spec

\* Every variable keeps its type.
THEOREM TypeCorrect == Spec => []TypeOK
  <1>1. IInv => TypeOK
    BY DEF IInv
  <1> QED
    BY <1>1, StoreInvariant, PTL

\* `.meta` never lists a range of another version than the one it names,
\* although PUT, invalidation and confirmed stores run without the lock and
\* consolidation and eviction write from earlier snapshots.
THEOREM MetaConsistent == Spec => []MetaNamesItsVersion
  <1>1. IInv => MetaNamesItsVersion
    BY DEF IInv
  <1> QED
    BY <1>1, StoreInvariant, PTL

\* A response assembled from the cache carries only bytes of the version whose
\* ETag it carries: what ConfirmedVersions' comment promises of a stale entry.
THEOREM NoMixedResponse == Spec => []ResponseOfOneVersion
  <1>1. IInv => ResponseOfOneVersion
    BY DEF IInv
  <1> QED
    BY <1>1, StoreInvariant, PTL

-----------------------------------------------------------------------------
(* Under an exclusive per-key lock: the identity of `.meta`                *)

\* At most one task is between taking the key lock and dropping it.
HoldersExclude ==
    /\ \A i, j \in Instances :
        /\ StoreHolds(i) => /\ ~ConsHolds(j) /\ ~HeadHolds(j)
                            /\ i # j => ~StoreHolds(j)
        /\ ConsHolds(i) => /\ ~HeadHolds(j)
                           /\ i # j => ~ConsHolds(j)
        /\ HeadHolds(i) /\ i # j => ~HeadHolds(j)
    /\ EvictHolds =>
        \A j \in Instances : ~StoreHolds(j) /\ ~ConsHolds(j) /\ ~HeadHolds(j)

\* A store that is about to name its version still may: it holds the lock, and
\* `.meta` is as old as it was when the two versions were compared.
ReplacementStillDue ==
    \A i \in Instances :
        /\ store[i].pc # "idle" => store[i].ver \in Versions
        /\ store[i].pc = "identify" =>
            StoreHolds(i) /\ MayReplace(meta, store[i].ver)

\* The snapshot a lock holder writes back names the version `.meta` still
\* names, unless an invalidation has deleted `.meta` meanwhile.
SnapshotsAreCurrent ==
    /\ \A i \in Instances :
        ConsHolds(i) /\ Present(meta) => meta.etag = cons[i].etag
    /\ EvictHolds /\ Present(meta) => meta.etag = evict.etag

\* Without PUT the only update is an invalidation.
OnlyInvalidations ==
    upd.ver = NoVersion /\ upd.pc \in {"idle", "unlink", "delete"}

LockInv ==
    /\ HoldersExclude
    /\ ReplacementStillDue
    /\ SnapshotsAreCurrent
    /\ OnlyInvalidations

\* The task that has retired the old version: lock held, its version kept.
LEMMA ClaimedTask ==
    ASSUME NEW t \in StoreTask, NEW u,
           u = [t EXCEPT !.pc = "identify", !.lock = "held"]
    PROVE  u.pc = "identify" /\ u.lock = "held" /\ u.ver = t.ver
  BY DEF StoreTask

LEMMA InitLockInv == Init => LockInv
  BY DEF Init, LockInv, HoldersExclude, ReplacementStillDue,
     SnapshotsAreCurrent, OnlyInvalidations, StoreHolds, ConsHolds, HeadHolds,
     EvictHolds, IdleStore, IdleCons, IdleEvict, IdleHead, IdleUpd

\* A step that leaves `.meta` and every task that may hold the lock as they are
\* keeps LockInv.
LEMMA LockInvFrame ==
    ASSUME LockInv, OnlyInvalidations',
           UNCHANGED <<meta, store, cons, evict, head>>
    PROVE  LockInv'
  BY DEF LockInv, HoldersExclude, ReplacementStillDue,
     SnapshotsAreCurrent, StoreHolds, ConsHolds, HeadHolds, EvictHolds

\* A store task takes the lock only when it is free, and only the holder names
\* a version.
LEMMA StoreKeepsLockInv ==
    ASSUME LockExclusive, TypeOK, LockInv, NEW i \in Instances, StoreStep(i)
    PROVE  LockInv'
  <1> USE DEF LockInv
  <1> DEFINE Frame == UNCHANGED <<cons, evict, head, upd>>
  <1>0. store \in [Instances -> StoreTask] /\ store[i] \in StoreTask
    BY DEF TypeOK
  <1>1. CASE ReceiveResponse(i)
    <2>0. PICK e \in Extents, v \in Answered : store' = [store EXCEPT ![i] =
              [pc |-> "claim", ext |-> e, ver |-> v,
               created |-> clock, lock |-> "none"]]
      BY <1>1 DEF ReceiveResponse
    <2> DEFINE t == [pc |-> "claim", ext |-> e, ver |-> v,
                     created |-> clock, lock |-> "none"]
    <2>1. /\ store' = [store EXCEPT ![i] = t]
          /\ t.pc = "claim" /\ t.ver \in Versions /\ t.lock = "none"
      BY <2>0 DEF Answered
    <2> HIDE DEF t
    <2>2. Frame /\ UNCHANGED meta
      BY <1>1 DEF ReceiveResponse
    <2> QED
      BY <1>0, <2>1, <2>2 DEF HoldersExclude, ReplacementStillDue,
         SnapshotsAreCurrent, OnlyInvalidations, StoreHolds, ConsHolds,
         HeadHolds, EvictHolds
  <1>2. CASE ClaimConfirmed(i)
    BY <1>0, <1>2 DEF ClaimConfirmed, StoreTask, HoldersExclude,
       ReplacementStillDue, SnapshotsAreCurrent, OnlyInvalidations, StoreHolds,
       ConsHolds, HeadHolds, EvictHolds
  <1>3. CASE ClaimSameVersion(i)
    BY <1>0, <1>3 DEF ClaimSameVersion, CanLock, StoreTask, HoldersExclude,
       ReplacementStillDue, SnapshotsAreCurrent, OnlyInvalidations, StoreHolds,
       ConsHolds, HeadHolds, EvictHolds
  <1>4. CASE ClaimRefused(i) \/ StoreFails(i)
    BY <1>0, <1>4 DEF ClaimRefused, StoreFails, IdleStore, HoldersExclude,
       ReplacementStillDue, SnapshotsAreCurrent, OnlyInvalidations, StoreHolds,
       ConsHolds, HeadHolds, EvictHolds
  <1>5. CASE ClaimRetire(i)
    <2>1. PICK t : /\ store' = [store EXCEPT ![i] = t]
                   /\ t \in {[store[i] EXCEPT !.pc = "identify", !.lock = "held"],
                             IdleStore}
      BY <1>5 DEF ClaimRetire
    <2>2. /\ Frame /\ UNCHANGED meta /\ CanLock(i)
          /\ MayReplace(meta, store[i].ver) /\ store[i].pc = "claim"
      BY <1>5 DEF ClaimRetire
    <2>3. \/ t.pc = "idle" /\ t.lock = "none"
          \/ t.pc = "identify" /\ t.lock = "held" /\ t.ver = store[i].ver
      <3>1. CASE t = IdleStore
        BY <3>1 DEF IdleStore
      <3>2. CASE t = [store[i] EXCEPT !.pc = "identify", !.lock = "held"]
        BY <1>0, <3>2, ClaimedTask
      <3> QED
        BY <2>1, <3>1, <3>2
    <2>4. MayReplace(meta', store[i].ver)
      BY <2>2 DEF MayReplace, Present
    <2> QED
      BY <1>0, <2>1, <2>2, <2>3, <2>4 DEF CanLock, HoldersExclude, ReplacementStillDue,
         SnapshotsAreCurrent, OnlyInvalidations, StoreHolds, ConsHolds,
         HeadHolds, EvictHolds
  <1>6. CASE ClaimIdentify(i)
    <2>1. StoreHolds(i) /\ store'[i].pc = "publish"
      BY <1>0, <1>6 DEF ClaimIdentify, ReplacementStillDue
    <2>2. \A j \in Instances : ~ConsHolds(j) /\ ~EvictHolds /\ ~HeadHolds(j)
      BY <2>1 DEF HoldersExclude
    <2>3. \A j \in Instances : j # i => ~StoreHolds(j) /\ store[j].pc # "identify"
      BY <2>1 DEF HoldersExclude, ReplacementStillDue
    <2> QED
      BY <1>0, <1>6, <2>1, <2>2, <2>3 DEF ClaimIdentify, HoldersExclude,
         ReplacementStillDue, SnapshotsAreCurrent, OnlyInvalidations, StoreHolds,
         ConsHolds, HeadHolds, EvictHolds
  <1>7. CASE PublishRange(i)
    BY <1>0, <1>7 DEF PublishRange, StoreTask, HoldersExclude,
       ReplacementStillDue, SnapshotsAreCurrent, OnlyInvalidations, StoreHolds,
       ConsHolds, HeadHolds, EvictHolds
  <1>8. CASE JournalRange(i)
    BY <1>0, <1>8 DEF JournalRange, IdleStore, HoldersExclude,
       ReplacementStillDue, SnapshotsAreCurrent, OnlyInvalidations, StoreHolds,
       ConsHolds, HeadHolds, EvictHolds
  <1> QED
    BY <1>1, <1>2, <1>3, <1>4, <1>5, <1>6, <1>7, <1>8 DEF StoreStep

\* A consolidation snapshots `.meta` with the lock in hand and is the only one
\* to write until it drops it.
LEMMA ConsolidateKeepsLockInv ==
    ASSUME LockExclusive, TypeOK, LockInv, NEW i \in Instances, ConsolidateStep(i)
    PROVE  LockInv'
  <1> USE DEF LockInv
  <1>0. cons \in [Instances -> ConsTask] /\ cons[i] \in ConsTask
    BY DEF TypeOK
  <1>1. CASE ConsolidateBegin(i)
    <2>1. /\ cons'[i].pc \in {"cleanup", "unlink"}
          /\ cons'[i].pc = "unlink" /\ Present(meta) => cons'[i].etag = meta.etag
          /\ \A j \in Instances : j # i => cons'[j] = cons[j]
      <3>1. PICK stale \in {StaleEntries, {}} :
              \/ cons' = [cons EXCEPT ![i] =
                    [IdleCons EXCEPT !.pc = "cleanup", !.drop = stale]]
              \/ \E m \in LoadOrCreate(ValidEntries) :
                   cons' = [cons EXCEPT ![i] =
                     [pc |-> "unlink", etag |-> m.etag, ranges |-> m.ranges,
                      valid |-> ValidEntries, drop |-> stale]]
        BY <1>1, Zenon DEF ConsolidateBegin
      <3>2. CASE cons' = [cons EXCEPT ![i] =
                    [IdleCons EXCEPT !.pc = "cleanup", !.drop = stale]]
        BY <1>0, <3>2 DEF IdleCons
      <3>3. CASE \E m \in LoadOrCreate(ValidEntries) :
                   cons' = [cons EXCEPT ![i] =
                     [pc |-> "unlink", etag |-> m.etag, ranges |-> m.ranges,
                      valid |-> ValidEntries, drop |-> stale]]
        <4>1. PICK m \in LoadOrCreate(ValidEntries) :
                   cons' = [cons EXCEPT ![i] =
                     [pc |-> "unlink", etag |-> m.etag, ranges |-> m.ranges,
                      valid |-> ValidEntries, drop |-> stale]]
          BY <3>3
        <4>2. Present(meta) => m = meta
          BY DEF LoadOrCreate
        <4> QED
          BY <1>0, <4>1, <4>2
      <3> QED
        BY <3>1, <3>2, <3>3
    <2>2. UNCHANGED <<meta, store, evict, head, upd>> /\ CanLock(i)
      BY <1>1 DEF ConsolidateBegin
    <2> QED
      BY <1>0, <2>1, <2>2 DEF CanLock, HoldersExclude, ReplacementStillDue,
         SnapshotsAreCurrent, OnlyInvalidations, StoreHolds, ConsHolds,
         HeadHolds, EvictHolds, Present, MayReplace
  <1>2. CASE ConsolidateUnlink(i)
    <2>0. PICK rs, dr : cons' = [cons EXCEPT ![i] =
              [cons[i] EXCEPT !.pc = "write", !.ranges = rs, !.drop = dr]]
      BY <1>2, Zenon DEF ConsolidateUnlink
    <2>1. /\ cons'[i].pc = "write" /\ cons'[i].etag = cons[i].etag
          /\ \A j \in Instances : j # i => cons'[j] = cons[j]
      <3>1. /\ cons'[i] = [cons[i] EXCEPT !.pc = "write", !.ranges = rs, !.drop = dr]
            /\ \A j \in Instances : j # i => cons'[j] = cons[j]
        BY <1>0, <2>0, Zenon
      <3> QED
        BY <1>0, <3>1 DEF ConsTask
    <2>2. ConsHolds(i) /\ UNCHANGED <<meta, store, evict, head, upd>>
      BY <1>2 DEF ConsolidateUnlink, ConsHolds
    <2> QED
      BY <1>0, <2>1, <2>2 DEF HoldersExclude, ReplacementStillDue,
         SnapshotsAreCurrent, OnlyInvalidations, StoreHolds, ConsHolds,
         HeadHolds, EvictHolds, Present, MayReplace
  <1>3. CASE ConsolidateWrite(i)
    <2>1. cons'[i].pc \notin {"unlink", "write"} /\ \A j \in Instances : j # i => cons'[j] = cons[j]
      <3>1. \/ cons' = [cons EXCEPT ![i] = IdleCons]
            \/ cons' = [cons EXCEPT ![i] =
                  [IdleCons EXCEPT !.pc = "cleanup", !.drop = cons[i].drop]]
        BY <1>3, Zenon DEF ConsolidateWrite
      <3>2. CASE cons' = [cons EXCEPT ![i] = IdleCons]
        BY <1>0, <3>2 DEF IdleCons
      <3>3. CASE cons' = [cons EXCEPT ![i] =
                  [IdleCons EXCEPT !.pc = "cleanup", !.drop = cons[i].drop]]
        BY <1>0, <3>3 DEF IdleCons
      <3> QED
        BY <3>1, <3>2, <3>3
    <2>2. ConsHolds(i) /\ UNCHANGED <<store, evict, head, upd>>
      BY <1>3 DEF ConsolidateWrite, ConsHolds
    <2>3. \A j \in Instances : ~StoreHolds(j) /\ ~HeadHolds(j) /\ ~EvictHolds
                               /\ (j # i => ~ConsHolds(j))
      BY <2>2 DEF HoldersExclude
    <2> QED
      BY <1>0, <2>1, <2>2, <2>3 DEF HoldersExclude, ReplacementStillDue,
         SnapshotsAreCurrent, OnlyInvalidations, StoreHolds, ConsHolds,
         HeadHolds, EvictHolds
  <1>4. CASE ConsolidateCleanup(i)
    BY <1>0, <1>4 DEF ConsolidateCleanup, IdleCons, HoldersExclude,
       ReplacementStillDue, SnapshotsAreCurrent, OnlyInvalidations, StoreHolds,
       ConsHolds, HeadHolds, EvictHolds
  <1> QED
    BY <1>1, <1>2, <1>3, <1>4 DEF ConsolidateStep

\* Eviction and HEAD too write back under the lock they read under.
LEMMA EvictKeepsLockInv ==
    ASSUME LockExclusive, TypeOK, LockInv, EvictStep
    PROVE  LockInv'
  <1> USE DEF LockInv
  <1>1. CASE EvictUnlink
    <2>1. evict'.pc = "rewrite" /\ evict'.etag = meta.etag
      BY <1>1 DEF EvictUnlink
    <2>2. UNCHANGED <<meta, store, cons, head, upd>> /\ CanLockForEviction
      BY <1>1 DEF EvictUnlink
    <2> QED
      BY <2>1, <2>2 DEF CanLockForEviction, HoldersExclude, ReplacementStillDue,
         SnapshotsAreCurrent, OnlyInvalidations, StoreHolds, ConsHolds,
         HeadHolds, EvictHolds, Present, MayReplace
  <1>2. CASE EvictRewrite
    <2>1. evict'.pc # "rewrite"
      BY <1>2 DEF EvictRewrite, Evicted, IdleEvict
    <2>2. EvictHolds /\ UNCHANGED <<store, cons, head, upd>>
      BY <1>2 DEF EvictRewrite, EvictHolds
    <2>3. \A j \in Instances : ~StoreHolds(j) /\ ~HeadHolds(j) /\ ~ConsHolds(j)
      BY <2>2 DEF HoldersExclude
    <2> QED
      BY <2>1, <2>2, <2>3 DEF HoldersExclude, ReplacementStillDue,
         SnapshotsAreCurrent, OnlyInvalidations, StoreHolds, ConsHolds,
         HeadHolds, EvictHolds
  <1>3. CASE EvictJournal
    <2>1. evict'.pc = "idle" /\ UNCHANGED <<meta, store, cons, head, upd>>
      BY <1>3 DEF EvictJournal, IdleEvict
    <2> QED
      BY <2>1 DEF HoldersExclude, ReplacementStillDue,
         SnapshotsAreCurrent, OnlyInvalidations, StoreHolds, ConsHolds,
         HeadHolds, EvictHolds, Present, MayReplace
  <1> QED
    BY <1>1, <1>2, <1>3 DEF EvictStep

LEMMA HeadKeepsLockInv ==
    ASSUME LockExclusive, TypeOK, LockInv, NEW i \in Instances, HeadStep(i)
    PROVE  LockInv'
  <1> USE DEF LockInv
  <1>0. head \in [Instances -> HeadTask]
    BY DEF TypeOK
  <1>1. CASE HeadRefresh(i)
    <2>1. PICK t : head' = [head EXCEPT ![i] = t]
      BY <1>1 DEF HeadRefresh
    <2>2. UNCHANGED <<meta, store, cons, evict, upd>> /\ CanLock(i)
      BY <1>1 DEF HeadRefresh
    <2> QED
      BY <1>0, <2>1, <2>2 DEF CanLock, HoldersExclude, ReplacementStillDue,
         SnapshotsAreCurrent, OnlyInvalidations, StoreHolds, ConsHolds,
         HeadHolds, EvictHolds, Present, MayReplace
  <1>2. CASE HeadWrite(i)
    <2>1. head'[i].pc = "idle" /\ \A j \in Instances : j # i => head'[j] = head[j]
      BY <1>0, <1>2 DEF HeadWrite, IdleHead
    <2>2. HeadHolds(i) /\ UNCHANGED <<store, cons, evict, upd>>
      BY <1>2 DEF HeadWrite, HeadHolds
    <2>3. \A j \in Instances : ~StoreHolds(j) /\ ~ConsHolds(j) /\ ~EvictHolds
                               /\ (j # i => ~HeadHolds(j))
      BY <2>2 DEF HoldersExclude
    <2> QED
      BY <2>1, <2>2, <2>3 DEF HoldersExclude, ReplacementStillDue,
         SnapshotsAreCurrent, OnlyInvalidations, StoreHolds, ConsHolds,
         HeadHolds, EvictHolds
  <1> QED
    BY <1>1, <1>2 DEF HeadStep

\* An invalidation deletes `.meta` under the holder's feet, and a crash drops
\* the lock with the task: neither makes a snapshot name another version.
LEMMA UpdateKeepsLockInv ==
    ASSUME "put" \notin Ops, TypeOK, LockInv, UpdateStep
    PROVE  LockInv'
  <1> USE DEF LockInv
  <1>1. CASE InvalidateDelete
    <2>1. UNCHANGED <<store, cons, evict, head>> /\ (UNCHANGED meta \/ ~Present(meta'))
      BY <1>1 DEF InvalidateDelete, NoMeta, Present
    <2>2. OnlyInvalidations'
      BY <1>1 DEF InvalidateDelete, AfterInvalidation, IdleUpd, OnlyInvalidations
    <2> QED
      BY <2>1, <2>2 DEF HoldersExclude, ReplacementStillDue,
         SnapshotsAreCurrent, StoreHolds, ConsHolds,
         HeadHolds, EvictHolds, Present, MayReplace
  <1>2. CASE InvalidateBegin \/ InvalidateUnlink
    <2>1. UNCHANGED <<meta, store, cons, evict, head>>
      BY <1>2 DEF InvalidateBegin, InvalidateUnlink
    <2>2. \/ upd' = [IdleUpd EXCEPT !.pc = "unlink"] \/ upd' \in AfterInvalidation
          \/ upd' = [upd EXCEPT !.pc = "delete"]
      BY <1>2, Zenon DEF InvalidateBegin, InvalidateUnlink
    <2>3. OnlyInvalidations'
      BY <2>2 DEF AfterInvalidation, IdleUpd, OnlyInvalidations, TypeOK, UpdTask
    <2> QED
      BY <2>1, <2>3, LockInvFrame
  <1>3. ~PutAccepted /\ ~PutFinalize /\ ~PutSupersede /\ ~PutCommit
    BY DEF PutAccepted, PutFinalize, PutSupersede, PutCommit, OnlyInvalidations
  <1> QED
    BY <1>1, <1>2, <1>3 DEF UpdateStep

LEMMA EnvironmentKeepsLockInv ==
    ASSUME TypeOK, LockInv,
           ReadStep \/ Overwrite \/ (\E i \in Instances : Crash(i))
    PROVE  LockInv'
  <1> USE DEF LockInv
  <1>1. CASE ReadStep \/ Overwrite
    <2>1. UNCHANGED <<meta, store, cons, evict, head, upd>>
      BY <1>1 DEF ReadStep, ReadLookup, ReadLoad, ReadServe, Overwrite
    <2> QED
      BY <2>1, LockInvFrame DEF OnlyInvalidations
  <1>2. ASSUME NEW i \in Instances, Crash(i)
        PROVE  LockInv'
    <2>1. /\ store' = [store EXCEPT ![i] = IdleStore]
          /\ cons' = [cons EXCEPT ![i] = IdleCons]
          /\ head' = [head EXCEPT ![i] = IdleHead]
          /\ evict' = evict \/ evict' = IdleEvict
          /\ upd' = upd \/ upd' = IdleUpd
          /\ UNCHANGED meta
      BY <1>2 DEF Crash
    <2>2. /\ IdleStore.pc = "idle" /\ IdleStore.lock = "none"
          /\ IdleCons.pc = "idle" /\ IdleHead.pc = "idle" /\ IdleEvict.pc = "idle"
          /\ IdleUpd.pc = "idle" /\ IdleUpd.ver = NoVersion
      BY DEF IdleStore, IdleCons, IdleHead, IdleEvict, IdleUpd
    <2>3. /\ store \in [Instances -> StoreTask] /\ cons \in [Instances -> ConsTask]
          /\ head \in [Instances -> HeadTask]
      BY DEF TypeOK
    <2>4. HoldersExclude'
      BY <2>1, <2>2, <2>3 DEF HoldersExclude, StoreHolds, ConsHolds, HeadHolds, EvictHolds
    <2>5. ReplacementStillDue'
      BY <2>1, <2>2, <2>3 DEF ReplacementStillDue, StoreHolds, MayReplace, Present
    <2>6. SnapshotsAreCurrent' /\ OnlyInvalidations'
      BY <2>1, <2>2, <2>3 DEF SnapshotsAreCurrent, OnlyInvalidations, ConsHolds,
         EvictHolds, Present
    <2> QED
      BY <2>4, <2>5, <2>6
  <1> QED
    BY <1>1, <1>2

\* LockInv holds as long as the lock excludes and no PUT goes past it: with
\* failing calls, crashes and invalidations.
THEOREM LockInvariant ==
    ASSUME LockExclusive, "put" \notin Ops
    PROVE  Spec => []LockInv
  <1>1. TypeOK /\ LockInv /\ [Next]_vars => LockInv'
    <2> SUFFICES ASSUME TypeOK, LockInv, [Next]_vars PROVE LockInv'
      OBVIOUS
    <2>1. CASE UNCHANGED vars
      <3>1. UNCHANGED <<meta, store, cons, evict, head, upd>>
        BY <2>1 DEF vars
      <3> QED
        BY <3>1, LockInvFrame DEF LockInv, OnlyInvalidations
    <2>2. CASE Next
      BY <2>2, StoreKeepsLockInv, ConsolidateKeepsLockInv, EvictKeepsLockInv,
         HeadKeepsLockInv, UpdateKeepsLockInv, EnvironmentKeepsLockInv DEF Next
    <2> QED
      BY <2>1, <2>2
  <1> QED
    BY <1>1, InitLockInv, TypeCorrect, PTL DEF Spec

\* IdentityMovesForward: while the lock excludes and no PUT goes past it, only a
\* HEAD response ever takes `.meta` to a version that is not strictly newer,
\* whatever fails, crashes, is invalidated or arrives late.
THEOREM IdentityForward ==
    ASSUME LockExclusive, "put" \notin Ops
    PROVE  Spec => IdentityMovesForward
  <1> DEFINE Replaced == /\ Present(meta) /\ Present(meta')
                         /\ meta.etag \notin {NoVersion, meta'.etag}
             Newer == /\ meta'.etag # NoVersion
                      /\ LastModified[meta'.etag] > LastModified[meta.etag]
             Forward == Replaced => (\E i \in Instances : HeadWrite(i)) \/ Newer
  <1>1. TypeOK /\ LockInv /\ [Next]_vars => [Forward]_vars
    <2> SUFFICES ASSUME TypeOK, LockInv, Next, Replaced,
                        ~ \E i \in Instances : HeadWrite(i)
                 PROVE  Newer
      OBVIOUS
    <2>0. meta' # meta
      OBVIOUS
    <2>1. ASSUME NEW i \in Instances, StoreStep(i)
          PROVE  Newer
      <3>1. ClaimIdentify(i)
        BY <2>0, <2>1 DEF StoreStep, ReceiveResponse, ClaimConfirmed,
           ClaimSameVersion, ClaimRefused, ClaimRetire, PublishRange,
           JournalRange, StoreFails
      <3>2. store[i].ver \in Versions /\ MayReplace(meta, store[i].ver)
        BY <3>1 DEF ClaimIdentify, LockInv, ReplacementStillDue
      <3>3. meta'.etag = store[i].ver
        BY <3>1 DEF ClaimIdentify
      <3> QED
        BY <3>2, <3>3 DEF MayReplace, Versions, NoVersion
    <2>2. ASSUME NEW i \in Instances, ConsolidateStep(i)
          PROVE  FALSE
      <3>1. ConsolidateWrite(i)
        BY <2>0, <2>2 DEF ConsolidateStep, ConsolidateBegin, ConsolidateUnlink,
           ConsolidateCleanup
      <3>2. PICK rs : meta' = [file |-> "parsed", etag |-> cons[i].etag, ranges |-> rs]
        BY <2>0, <3>1, Zenon DEF ConsolidateWrite
      <3>3. meta.etag = cons[i].etag
        BY <3>1 DEF ConsolidateWrite, LockInv, SnapshotsAreCurrent, ConsHolds
      <3> QED
        BY <3>2, <3>3
    <2>3. ~EvictStep
      <3>1. ASSUME EvictRewrite PROVE FALSE
        <4>1. meta.etag = evict.etag
          BY <3>1 DEF EvictRewrite, LockInv, SnapshotsAreCurrent, EvictHolds
        <4>2. meta' = NoMeta \/ meta'.etag = evict.etag
          BY <2>0, <3>1 DEF EvictRewrite
        <4> QED
          BY <4>1, <4>2 DEF NoMeta, Present
      <3> QED
        BY <2>0, <3>1 DEF EvictStep, EvictUnlink, EvictJournal
    <2>4. ~UpdateStep
      <3>1. ~InvalidateDelete
        BY <2>0 DEF InvalidateDelete, NoMeta, Present
      <3>2. ~PutCommit
        BY DEF PutCommit, LockInv, OnlyInvalidations
      <3> QED
        BY <2>0, <3>1, <3>2 DEF UpdateStep, InvalidateBegin, PutAccepted,
           InvalidateUnlink, PutFinalize, PutSupersede
    <2>5. ASSUME NEW i \in Instances PROVE ~HeadStep(i) /\ ~Crash(i)
      BY <2>0 DEF HeadStep, HeadRefresh, Crash
    <2>6. ~ReadStep /\ ~Overwrite
      BY <2>0 DEF ReadStep, ReadLookup, ReadLoad, ReadServe, Overwrite
    <2> QED
      BY <2>1, <2>2, <2>3, <2>4, <2>5, <2>6 DEF Next
  <1> QED
    BY <1>1, LockInvariant, TypeCorrect, PTL DEF Spec, IdentityMovesForward

-----------------------------------------------------------------------------
(* Under an exclusive lock, nothing failing: listed ranges are on disk     *)

\* The versioned ranges of a set have their files.
Backed(ranges) == \A r \in ranges : r.ver # NoVersion => OnDisk(r)

\* What a consolidation may list when it writes: its snapshot, and the
\* publications of the snapshot's version that it validated.
ConsWillListFiles ==
    \A i \in Instances : ConsHolds(i) =>
        /\ Backed(cons[i].ranges)
        /\ \A e \in Adds(Matching(cons[i])) : OnDisk(e)
EvictWillListFiles == EvictHolds => Backed(evict.ranges)
HeadWillListFiles == \A i \in Instances : HeadHolds(i) => Backed(head[i].ranges)

\* No `.meta`, no ranges.
MissingListsNothing == Present(meta) \/ meta.ranges = {}

DiskInv ==
    /\ ListedRangesAreOnDisk
    /\ MissingListsNothing
    /\ ConsWillListFiles
    /\ EvictWillListFiles
    /\ HeadWillListFiles
    /\ upd.pc = "idle"

\* Names tell extents and versions apart.
LEMMA NamesDiffer ==
    ASSUME NEW x, NEW y, x.ver # y.ver \/ x.ext # y.ext
    PROVE  NameOf(x) # NameOf(y)
  BY DEF NameOf, RangeFileName

LEMMA SpecHasTheName == \A e : NameOf(SpecOf(e)) = NameOf(e)
  BY DEF NameOf, RangeFileName, SpecOf

LEMMA NameIsAName ==
    /\ \A r \in RangeSpec : NameOf(r) \in Names
    /\ \A e \in JournalEntry : NameOf(e) \in Names
  BY ConstantTypes DEF NameOf, RangeFileName, RangeSpec, JournalEntry

\* Unlinking other files leaves a file on disk.
LEMMA UnlinkOthers ==
    ASSUME NEW S, files' = Without(S), NEW x, NameOf(x) \in Names,
           NameOf(x) \notin S, OnDisk(x)
    PROVE  files'[NameOf(x)] # Absent
  BY DEF Without, OnDisk

\* Everything a consolidation lists is in its snapshot or a publication of the
\* snapshot's version that it had found on disk.
LEMMA OutcomesComeFrom ==
    ASSUME NEW c, NEW ext, NEW rs \in Outcomes(c, ext), NEW r \in rs
    PROVE  r \in c.ranges \/ \E e \in Adds(Matching(c)) : r = SpecOf(e)
  <1> DEFINE at(S) == {x \in S : x.ext = ext}
             adds == at(Adds(Matching(c)))
             removes == at(Removes(Matching(c)))
  <1>1. PICK base \in Resolved(at(c.ranges), adds) :
            rs \in Applied(base, adds, removes)
    BY DEF Outcomes
  <1>2. base = at(c.ranges) \/ \E e \in adds : base = {SpecOf(e)}
    BY <1>1 DEF Resolved, Newest
  <1>3. rs = base \/ rs = {} \/ \E e \in adds : rs = {SpecOf(e)}
    BY <1>1 DEF Applied
  <1> QED
    BY <1>2, <1>3

\* Who takes the lock finds nobody between an unlink and a rewrite.
LEMMA LockFreeNoGap ==
    ASSUME LockInv,
           \A j \in Instances : ~StoreHolds(j) /\ ~ConsHolds(j) /\ ~HeadHolds(j),
           ~EvictHolds
    PROVE  ~BetweenUnlinkAndRewrite
  BY DEF LockInv, ReplacementStillDue, BetweenUnlinkAndRewrite, HeadHolds, EvictHolds

\* A step that leaves the files and `.meta` alone, opens no snapshot and closes
\* no gap.
LEMMA DiskFrame ==
    ASSUME DiskInv, UNCHANGED <<meta, files, cons, evict, head, upd>>,
           \A j \in Instances : store[j].pc = "identify" => store'[j].pc = "identify"
    PROVE  DiskInv'
  <1>1. ListedRangesAreOnDisk'
    BY DEF DiskInv, ListedRangesAreOnDisk, BetweenUnlinkAndRewrite, OnDisk
  <1> QED
    BY <1>1 DEF DiskInv, MissingListsNothing, Present, ConsWillListFiles,
       EvictWillListFiles,
       HeadWillListFiles, ConsHolds, EvictHolds, HeadHolds, Backed, OnDisk,
       Adds, Matching, Matches, BelongsTo

LEMMA StoreKeepsDiskInv ==
    ASSUME LockExclusive, ~Faults, IInv, LockInv, DiskInv,
           NEW i \in Instances, StoreStep(i)
    PROVE  DiskInv'
  <1>0. store \in [Instances -> StoreTask] /\ store[i] \in StoreTask
        /\ files \in [Names -> Contents]
    BY DEF IInv, TypeOK
  <1>1. CASE \/ ReceiveResponse(i) \/ ClaimConfirmed(i) \/ ClaimSameVersion(i)
             \/ ClaimRefused(i) \/ JournalRange(i)
    <2>1. UNCHANGED <<meta, files, cons, evict, head, upd>> /\ store[i].pc # "identify"
      BY <1>1 DEF ReceiveResponse, ClaimConfirmed, ClaimSameVersion,
         ClaimRefused, JournalRange
    <2>2. \A j \in Instances : j # i => store'[j] = store[j]
      BY <1>0, <1>1 DEF ReceiveResponse, ClaimConfirmed, ClaimSameVersion,
         ClaimRefused, JournalRange
    <2> QED
      BY <2>1, <2>2, DiskFrame
  <1>2. CASE ClaimRetire(i)
    <2>1. PICK failed :
            /\ failed = {}
            /\ store' = [store EXCEPT ![i] =
                 IF failed = {} THEN [@ EXCEPT !.pc = "identify", !.lock = "held"]
                 ELSE IdleStore]
      BY <1>2 DEF ClaimRetire, FailedUnlinks
    <2>2. store'[i].pc = "identify"
      BY <1>0, <2>1 DEF StoreTask
    <2>3. UNCHANGED <<meta, cons, evict, head, upd>> /\ CanLock(i)
      BY <1>2 DEF ClaimRetire
    <2>4. ListedRangesAreOnDisk'
      BY <2>2 DEF ListedRangesAreOnDisk, BetweenUnlinkAndRewrite
    <2> QED
      BY <2>3, <2>4 DEF CanLock, DiskInv, MissingListsNothing, Present, ConsWillListFiles,
       EvictWillListFiles,
         HeadWillListFiles, ConsHolds, EvictHolds, HeadHolds
  <1>3. CASE ClaimIdentify(i)
    <2>1. meta'.ranges = {} /\ UNCHANGED <<files, cons, evict, head, upd>>
      BY <1>3 DEF ClaimIdentify
    <2>2. ListedRangesAreOnDisk'
      BY <2>1 DEF ListedRangesAreOnDisk
    <2> QED
      BY <2>1, <2>2 DEF DiskInv, MissingListsNothing, Present, ConsWillListFiles,
       EvictWillListFiles,
         HeadWillListFiles, ConsHolds, EvictHolds, HeadHolds, Backed, OnDisk,
         Adds, Matching, Matches, BelongsTo
  <1>4. CASE PublishRange(i)
    <2>1. /\ UNCHANGED <<meta, cons, evict, head, upd>> /\ store[i].pc # "identify"
          /\ files' = [files EXCEPT ![NameOf(store[i])] = store[i].ver]
          /\ \A j \in Instances : j # i => store'[j] = store[j]
      BY <1>0, <1>4 DEF PublishRange
    <2>2. store[i].ver # Absent
      BY <1>0, AbsentIsNoVersion, StoreTaskFields
    <2>3. \A x : NameOf(x) \in Names /\ OnDisk(x) => files'[NameOf(x)] # Absent
      BY <1>0, <2>1, <2>2 DEF OnDisk
    <2>4. /\ meta.ranges \subseteq RangeSpec
          /\ \A j \in Instances : /\ cons[j].ranges \subseteq RangeSpec
                                  /\ cons[j].valid \subseteq JournalEntry
                                  /\ head[j].ranges \subseteq RangeSpec
          /\ evict.ranges \subseteq RangeSpec
      BY DEF IInv, TypeOK, Metadata, ConsTask, HeadTask, EvictTask
    <2>5. ListedRangesAreOnDisk'
      BY <2>1, <2>3, <2>4, NameIsAName DEF DiskInv, ListedRangesAreOnDisk,
         BetweenUnlinkAndRewrite, OnDisk
    <2>6. ConsWillListFiles'
      BY <2>1, <2>3, <2>4, NameIsAName DEF DiskInv, ConsWillListFiles, ConsHolds,
         Backed, OnDisk, Adds, Matching, Matches, BelongsTo
    <2>7. EvictWillListFiles' /\ HeadWillListFiles'
      BY <2>1, <2>3, <2>4, NameIsAName DEF DiskInv, EvictWillListFiles,
         HeadWillListFiles, EvictHolds, HeadHolds, Backed, OnDisk
    <2> QED
      BY <2>1, <2>5, <2>6, <2>7 DEF DiskInv, MissingListsNothing, Present
  <1>5. ~StoreFails(i)
    BY DEF StoreFails
  <1> QED
    BY <1>1, <1>2, <1>3, <1>4, <1>5 DEF StoreStep

LEMMA ConsolidateKeepsDiskInv ==
    ASSUME LockExclusive, ~Faults, IInv, LockInv, DiskInv,
           NEW i \in Instances, ConsolidateStep(i)
    PROVE  DiskInv'
  <1>0. /\ cons \in [Instances -> ConsTask] /\ cons[i] \in ConsTask
        /\ files \in [Names -> Contents]
        /\ meta.ranges \subseteq RangeSpec
        /\ cons[i].ranges \subseteq RangeSpec /\ cons[i].valid \subseteq JournalEntry
    BY DEF IInv, TypeOK, ConsTask, Metadata
  <1>1. CASE ConsolidateBegin(i)
    <2>1. UNCHANGED <<meta, files, store, evict, head, upd>> /\ CanLock(i)
      BY <1>1 DEF ConsolidateBegin
    <2>2. Backed(meta.ranges)
      BY <2>1, LockFreeNoGap DEF CanLock, DiskInv, ListedRangesAreOnDisk, Backed
    <2>3. /\ \A j \in Instances : j # i => cons'[j] = cons[j]
          /\ cons'[i].pc \in {"cleanup", "unlink"}
          /\ cons'[i].pc = "unlink" =>
                /\ cons'[i].ranges \subseteq meta.ranges
                /\ cons'[i].valid = ValidEntries
      <3>1. PICK stale \in {StaleEntries, {}} :
              \/ cons' = [cons EXCEPT ![i] =
                    [IdleCons EXCEPT !.pc = "cleanup", !.drop = stale]]
              \/ \E m \in LoadOrCreate(ValidEntries) :
                   cons' = [cons EXCEPT ![i] =
                     [pc |-> "unlink", etag |-> m.etag, ranges |-> m.ranges,
                      valid |-> ValidEntries, drop |-> stale]]
        BY <1>1, Zenon DEF ConsolidateBegin
      <3>2. CASE cons' = [cons EXCEPT ![i] =
                    [IdleCons EXCEPT !.pc = "cleanup", !.drop = stale]]
        BY <1>0, <3>2 DEF IdleCons
      <3>3. CASE \E m \in LoadOrCreate(ValidEntries) :
                   cons' = [cons EXCEPT ![i] =
                     [pc |-> "unlink", etag |-> m.etag, ranges |-> m.ranges,
                      valid |-> ValidEntries, drop |-> stale]]
        <4>1. PICK m \in LoadOrCreate(ValidEntries) :
                   cons' = [cons EXCEPT ![i] =
                     [pc |-> "unlink", etag |-> m.etag, ranges |-> m.ranges,
                      valid |-> ValidEntries, drop |-> stale]]
          BY <3>3
        <4>2. m.ranges \subseteq meta.ranges
          BY DEF LoadOrCreate
        <4> QED
          BY <1>0, <4>1, <4>2
      <3> QED
        BY <3>1, <3>2, <3>3
    <2>4. \A e \in Adds(ValidEntries) : OnDisk(e)
      BY DEF ValidEntries, Adds, Removes
    <2>5. ConsWillListFiles'
      BY <2>1, <2>2, <2>3, <2>4 DEF DiskInv, ConsWillListFiles, ConsHolds, Backed,
         OnDisk, Adds, Matching, Matches, BelongsTo
    <2>6. ListedRangesAreOnDisk'
      BY <2>1, <2>2 DEF ListedRangesAreOnDisk, Backed, OnDisk
    <2> QED
      BY <2>1, <2>5, <2>6 DEF DiskInv, MissingListsNothing, Present, EvictWillListFiles,
         HeadWillListFiles, EvictHolds, HeadHolds, Backed, OnDisk
  <1>2. CASE ConsolidateUnlink(i)
    <2> DEFINE c == cons[i]
               targets == {n \in Rejected(c) \cup {NameOf(r) : r \in Foreign(c)} :
                              files[n] # Absent}
    <2>1. /\ UNCHANGED <<meta, store, evict, head, upd>> /\ ConsHolds(i)
          /\ files' = Without(targets)
      BY <1>2 DEF ConsolidateUnlink, FailedUnlinks, ConsHolds
    <2>2. /\ \A j \in Instances : j # i => cons'[j] = cons[j]
          /\ cons'[i].pc = "write" /\ cons'[i].etag = c.etag
          /\ cons'[i].valid = c.valid /\ cons'[i].ranges \subseteq c.ranges
      <3>1. PICK failed : \E dr : cons' = [cons EXCEPT ![i] =
              [c EXCEPT !.pc = "write",
                        !.ranges = {r \in c.ranges :
                            BelongsTo(r, c.etag) \/ NameOf(r) \in failed},
                        !.drop = dr]]
        BY <1>2, Zenon DEF ConsolidateUnlink
      <3>2. PICK dr : cons' = [cons EXCEPT ![i] =
              [c EXCEPT !.pc = "write",
                        !.ranges = {r \in c.ranges :
                            BelongsTo(r, c.etag) \/ NameOf(r) \in failed},
                        !.drop = dr]]
        BY <3>1
      <3>3. /\ cons'[i] = [c EXCEPT !.pc = "write",
                        !.ranges = {r \in c.ranges :
                            BelongsTo(r, c.etag) \/ NameOf(r) \in failed},
                        !.drop = dr]
            /\ \A j \in Instances : j # i => cons'[j] = cons[j]
        BY <1>0, <3>2, Zenon
      <3> QED
        BY <1>0, <3>3 DEF ConsTask
    <2>3. /\ \A r \in c.ranges : r.ver # NoVersion => r.ver = c.etag
          /\ \A r \in meta.ranges : r.ver # NoVersion => r.ver = c.etag
      <3>1. meta.ranges # {} => Present(meta)
        BY DEF DiskInv, MissingListsNothing
      <3> QED
        BY <2>1, <3>1 DEF IInv, ConsSnapshotNamesItsVersion, MetaNamesItsVersion,
           LockInv, SnapshotsAreCurrent
    <2>4. ASSUME NEW x, x.ver = c.etag, c.etag # NoVersion
          PROVE  NameOf(x) \notin targets
      <3>1. \A e \in Adds(c.valid) \ Matching(c) : e.ver # c.etag
        BY <2>4 DEF Adds, Matching, Matches, BelongsTo
      <3>2. \A r \in Foreign(c) : r.ver # c.etag
        BY <2>4 DEF Foreign, BelongsTo
      <3> QED
        BY <2>4, <3>1, <3>2, NamesDiffer DEF Rejected
    <2>5. ASSUME NEW x, NameOf(x) \in Names, x.ver = c.etag, c.etag # NoVersion, OnDisk(x)
          PROVE  files'[NameOf(x)] # Absent
      BY <2>1, <2>4, <2>5, UnlinkOthers
    <2> HIDE DEF targets
    <2>6. \A r \in meta.ranges : r.ver # NoVersion /\ OnDisk(r) => files'[NameOf(r)] # Absent
      BY <1>0, <2>3, <2>5, NameIsAName
    <2>7. \A r \in c.ranges : r.ver # NoVersion /\ OnDisk(r) => files'[NameOf(r)] # Absent
      BY <1>0, <2>3, <2>5, NameIsAName
    <2>8. \A e \in Adds(Matching(c)) : OnDisk(e) => files'[NameOf(e)] # Absent
      <3>1. \A e \in Adds(Matching(c)) :
                e \in JournalEntry /\ e.ver = c.etag /\ c.etag # NoVersion
        BY <1>0 DEF Adds, Matching, Matches, BelongsTo
      <3> QED
        BY <3>1, <2>5, NameIsAName
    <2>9. \A j \in Instances : j # i => ~ConsHolds(j)
      BY <2>1 DEF LockInv, HoldersExclude
    <2>10. ~EvictHolds /\ \A j \in Instances : ~HeadHolds(j) /\ ~StoreHolds(j)
      BY <2>1 DEF LockInv, HoldersExclude
    <2>11. ~BetweenUnlinkAndRewrite
      BY <2>10 DEF LockInv, ReplacementStillDue, BetweenUnlinkAndRewrite,
         HeadHolds, EvictHolds
    <2>12. ListedRangesAreOnDisk'
      BY <2>1, <2>6, <2>11 DEF DiskInv, ListedRangesAreOnDisk, OnDisk
    <2>13. Adds(Matching(cons'[i])) = Adds(Matching(c))
      BY <2>2 DEF Matching
    <2>14. ConsWillListFiles'
      BY <2>1, <2>2, <2>7, <2>8, <2>9, <2>13 DEF DiskInv, ConsWillListFiles, ConsHolds, Backed,
         OnDisk, Adds, Matching, Matches, BelongsTo
    <2> QED
      BY <2>1, <2>10, <2>12, <2>14 DEF DiskInv, MissingListsNothing, Present, EvictWillListFiles, HeadWillListFiles,
         EvictHolds, HeadHolds
  <1>3. CASE ConsolidateWrite(i)
    <2>1. UNCHANGED <<files, store, evict, head, upd>> /\ ConsHolds(i)
      BY <1>3 DEF ConsolidateWrite, ConsHolds
    <2>2. \A j \in Instances : /\ ~HeadHolds(j) /\ (j # i => ~ConsHolds(j))
                               /\ ~EvictHolds
      BY <2>1 DEF LockInv, HoldersExclude
    <2>3. PICK f \in [Extents -> UNION {Outcomes(cons[i], e) : e \in Extents}] :
            /\ \A e \in Extents : f[e] \in Outcomes(cons[i], e)
            /\ meta' = [file |-> "parsed", etag |-> cons[i].etag,
                        ranges |-> UNION {f[e] : e \in Extents}]
            /\ cons' = [cons EXCEPT ![i] =
                  [IdleCons EXCEPT !.pc = "cleanup", !.drop = cons[i].drop]]
      BY <1>3, Zenon DEF ConsolidateWrite
    <2>4. meta'.ranges = UNION {f[e] : e \in Extents}
      BY <2>3
    <2>5. ASSUME NEW r \in meta'.ranges, r.ver # NoVersion
          PROVE  files'[NameOf(r)] # Absent
      <3>1. PICK e \in Extents : r \in f[e]
        BY <2>4
      <3>2. f[e] \in Outcomes(cons[i], e)
        BY <2>3
      <3>3. r \in cons[i].ranges \/ \E a \in Adds(Matching(cons[i])) : r = SpecOf(a)
        BY <3>1, <3>2, OutcomesComeFrom
      <3> QED
        BY <2>1, <2>5, <3>3, SpecHasTheName DEF DiskInv, ConsWillListFiles, Backed, OnDisk
    <2>6. ListedRangesAreOnDisk'
      BY <2>5 DEF ListedRangesAreOnDisk, OnDisk
    <2>7. \A j \in Instances : ~ConsHolds(j)'
      <3>1. cons'[i].pc = "cleanup" /\ \A j \in Instances : j # i => cons'[j] = cons[j]
        BY <1>0, <2>3 DEF IdleCons
      <3> QED
        BY <3>1, <2>2 DEF ConsHolds
    <2> QED
      BY <2>1, <2>2, <2>3, <2>6, <2>7 DEF DiskInv, MissingListsNothing, Present, ConsWillListFiles, EvictWillListFiles,
         HeadWillListFiles, EvictHolds, HeadHolds
  <1>4. CASE ConsolidateCleanup(i)
    <2>1. UNCHANGED <<meta, files, store, evict, head, upd>>
      BY <1>4 DEF ConsolidateCleanup
    <2>2. cons'[i].pc = "idle" /\ \A j \in Instances : j # i => cons'[j] = cons[j]
      BY <1>0, <1>4 DEF ConsolidateCleanup, IdleCons
    <2>3. ListedRangesAreOnDisk'
      BY <2>1 DEF DiskInv, ListedRangesAreOnDisk, BetweenUnlinkAndRewrite, OnDisk
    <2>4. ConsWillListFiles'
      BY <2>1, <2>2 DEF DiskInv, ConsWillListFiles, ConsHolds, Backed,
         OnDisk, Adds, Matching, Matches, BelongsTo
    <2> QED
      BY <2>1, <2>3, <2>4 DEF DiskInv, MissingListsNothing, Present, EvictWillListFiles, HeadWillListFiles,
         EvictHolds, HeadHolds, Backed, OnDisk
  <1> QED
    BY <1>1, <1>2, <1>3, <1>4 DEF ConsolidateStep

LEMMA EvictKeepsDiskInv ==
    ASSUME LockExclusive, ~Faults, IInv, LockInv, DiskInv, EvictStep
    PROVE  DiskInv'
  <1>0. files \in [Names -> Contents] /\ meta.ranges \subseteq RangeSpec
    BY DEF IInv, TypeOK, Metadata
  <1>1. CASE EvictUnlink
    <2>1. /\ UNCHANGED <<meta, store, cons, head, upd>> /\ CanLockForEviction
          /\ evict.pc = "idle"
      BY <1>1 DEF EvictUnlink
    <2>2. /\ \A j \in Instances : ~StoreHolds(j) /\ ~ConsHolds(j) /\ ~HeadHolds(j)
          /\ ~EvictHolds
      BY <2>1 DEF CanLockForEviction, EvictHolds
    <2>3. Backed(meta.ranges)
      BY <2>2, LockFreeNoGap DEF DiskInv, ListedRangesAreOnDisk, Backed
    <2>4. PICK exts \in (SUBSET Extents) \ {{}} :
            LET chosen == {r \in meta.ranges : r.ext \in exts}
                live == {r \in chosen : OnDisk(r)}
            IN \E failed \in FailedUnlinks({NameOf(r) : r \in live}) :
                LET kept == {r \in live : NameOf(r) \in failed} IN
                /\ files' = Without({NameOf(r) : r \in live \ kept})
                /\ evict' = [pc |-> "rewrite", etag |-> meta.etag,
                             ranges |-> (meta.ranges \ chosen) \cup kept,
                             removed |-> live \ kept]
      BY <1>1, Zenon DEF EvictUnlink
    <2> DEFINE live == {r \in meta.ranges : r.ext \in exts /\ OnDisk(r)}
    <2>5. /\ evict'.pc = "rewrite"
          /\ evict'.ranges = {r \in meta.ranges : r.ext \notin exts}
          /\ files' = Without({NameOf(r) : r \in live})
      <3> DEFINE chosen == {r \in meta.ranges : r.ext \in exts}
                 livec == {r \in chosen : OnDisk(r)}
                 kept(failed) == {r \in livec : NameOf(r) \in failed}
      <3>1. PICK failed \in FailedUnlinks({NameOf(r) : r \in livec}) :
                /\ files' = Without({NameOf(r) : r \in livec \ kept(failed)})
                /\ evict' = [pc |-> "rewrite", etag |-> meta.etag,
                             ranges |-> (meta.ranges \ chosen) \cup kept(failed),
                             removed |-> livec \ kept(failed)]
        BY <2>4, Zenon
      <3>2. failed = {}
        BY DEF FailedUnlinks
      <3>3. kept(failed) = {} /\ livec = live
        BY <3>2
      <3>4. livec \ kept(failed) = live
        BY <3>3
      <3>5. (meta.ranges \ chosen) \cup kept(failed) = {r \in meta.ranges : r.ext \notin exts}
        BY <3>3
      <3> QED
        BY <3>1, <3>4, <3>5
    <2>6. \A r \in meta.ranges : r.ext \notin exts => NameOf(r) \notin {NameOf(l) : l \in live}
      BY NamesDiffer
    <2> HIDE DEF live
    <2>7. \A r \in evict'.ranges : r.ver # NoVersion => files'[NameOf(r)] # Absent
      BY <1>0, <2>3, <2>5, <2>6, NameIsAName, UnlinkOthers DEF Backed
    <2>8. EvictWillListFiles'
      BY <2>7 DEF EvictWillListFiles, Backed, OnDisk
    <2>9. ListedRangesAreOnDisk'
      BY <2>5 DEF ListedRangesAreOnDisk, BetweenUnlinkAndRewrite
    <2> QED
      BY <2>1, <2>2, <2>8, <2>9 DEF DiskInv, MissingListsNothing, Present,
         ConsWillListFiles, HeadWillListFiles, ConsHolds, HeadHolds
  <1>2. CASE EvictRewrite
    <2>1. UNCHANGED <<files, store, cons, head, upd>> /\ EvictHolds
      BY <1>2 DEF EvictRewrite, EvictHolds
    <2>2. evict'.pc = "journal"
      BY <1>2 DEF EvictRewrite, Evicted
    <2>3. meta'.ranges = evict.ranges /\ MissingListsNothing'
      BY <1>2 DEF EvictRewrite, NoMeta, MissingListsNothing, Present
    <2>4. ListedRangesAreOnDisk'
      BY <2>1, <2>3 DEF ListedRangesAreOnDisk, DiskInv, EvictWillListFiles, Backed, OnDisk
    <2> QED
      BY <2>1, <2>2, <2>3, <2>4 DEF DiskInv, EvictWillListFiles, ConsWillListFiles,
         HeadWillListFiles, EvictHolds, ConsHolds, HeadHolds, Backed, OnDisk,
         Adds, Matching, Matches, BelongsTo
  <1>3. CASE EvictJournal
    <2>1. /\ UNCHANGED <<meta, files, store, cons, head, upd>>
          /\ evict.pc = "journal" /\ evict'.pc = "idle"
      BY <1>3 DEF EvictJournal, IdleEvict
    <2>2. ListedRangesAreOnDisk'
      BY <2>1 DEF DiskInv, ListedRangesAreOnDisk, BetweenUnlinkAndRewrite, OnDisk
    <2> QED
      BY <2>1, <2>2 DEF DiskInv, MissingListsNothing, Present, EvictWillListFiles,
         ConsWillListFiles, HeadWillListFiles, EvictHolds, ConsHolds, HeadHolds,
         Backed, OnDisk, Adds, Matching, Matches, BelongsTo
  <1> QED
    BY <1>1, <1>2, <1>3 DEF EvictStep

LEMMA HeadKeepsDiskInv ==
    ASSUME LockExclusive, ~Faults, IInv, LockInv, DiskInv,
           NEW i \in Instances, HeadStep(i)
    PROVE  DiskInv'
  <1>0. /\ files \in [Names -> Contents] /\ meta.ranges \subseteq RangeSpec
        /\ head \in [Instances -> HeadTask]
    BY DEF IInv, TypeOK, Metadata
  <1>1. CASE HeadRefresh(i)
    <2>1. UNCHANGED <<meta, store, cons, evict, upd>> /\ CanLock(i)
      BY <1>1 DEF HeadRefresh
    <2>2. /\ \A j \in Instances : ~StoreHolds(j) /\ ~ConsHolds(j) /\ ~HeadHolds(j)
          /\ ~EvictHolds
      BY <2>1 DEF CanLock
    <2>3. Backed(meta.ranges)
      BY <2>2, LockFreeNoGap DEF DiskInv, ListedRangesAreOnDisk, Backed
    <2>4. PICK v \in Answered :
            LET old == IF meta.etag = v THEN {} ELSE {r \in meta.ranges : OnDisk(r)} IN
            \E failed \in FailedUnlinks({NameOf(r) : r \in old}) :
             LET removed == {r \in old : NameOf(r) \notin failed} IN
             /\ files' = Without({NameOf(r) : r \in removed})
             /\ \/ journal' = journal \cup RemoveEntries(removed)
                \/ Faults /\ journal' = journal
             /\ head' = [head EXCEPT ![i] =
                   IF failed # {} THEN IdleHead
                   ELSE [pc |-> "write", etag |-> v,
                         ranges |-> IF meta.etag = v THEN meta.ranges ELSE {}]]
      BY <1>1, Zenon DEF HeadRefresh
    <2>5. head' = [head EXCEPT ![i] =
                   [pc |-> "write", etag |-> v,
                    ranges |-> IF meta.etag = v THEN meta.ranges ELSE {}]]
      BY <2>4 DEF FailedUnlinks
    <2>6. /\ head'[i].pc = "write" /\ head'[i].etag = v
          /\ head'[i].ranges = IF meta.etag = v THEN meta.ranges ELSE {}
          /\ \A j \in Instances : j # i => head'[j] = head[j]
      BY <1>0, <2>5
    <2>7. meta.etag = v => files' = files
      BY <1>0, <2>4 DEF FailedUnlinks, Without
    <2>8. ListedRangesAreOnDisk'
      BY <2>1, <2>3, <2>6, <2>7 DEF ListedRangesAreOnDisk, BetweenUnlinkAndRewrite,
         Backed, OnDisk
    <2>9. HeadWillListFiles'
      BY <2>2, <2>3, <2>6, <2>7 DEF HeadWillListFiles, HeadHolds, Backed, OnDisk
    <2> QED
      BY <2>1, <2>2, <2>8, <2>9 DEF DiskInv, MissingListsNothing, Present,
         ConsWillListFiles, EvictWillListFiles, ConsHolds, EvictHolds
  <1>2. CASE HeadWrite(i)
    <2>1. /\ UNCHANGED <<files, store, cons, evict, upd>> /\ HeadHolds(i)
          /\ meta' = [file |-> "parsed", etag |-> head[i].etag, ranges |-> head[i].ranges]
      BY <1>2 DEF HeadWrite, HeadHolds
    <2>2. head'[i].pc = "idle" /\ \A j \in Instances : j # i => head'[j] = head[j]
      BY <1>0, <1>2 DEF HeadWrite, IdleHead
    <2>3. meta'.ranges = head[i].ranges /\ Present(meta')
      BY <2>1 DEF Present
    <2>4. ListedRangesAreOnDisk'
      BY <2>1, <2>3 DEF ListedRangesAreOnDisk, DiskInv, HeadWillListFiles, Backed, OnDisk
    <2> QED
      BY <2>1, <2>2, <2>3, <2>4 DEF DiskInv, MissingListsNothing, Present,
         EvictWillListFiles, ConsWillListFiles, HeadWillListFiles, EvictHolds,
         ConsHolds, HeadHolds, Backed, OnDisk, Adds, Matching, Matches, BelongsTo
  <1> QED
    BY <1>1, <1>2 DEF HeadStep

\* ListedRangesAreOnDisk: while the lock excludes and calls succeed, every
\* versioned range that `.meta` lists has its file, except between the two
\* steps of a lock holder that retires it.  Confirmed stores publish without
\* the lock, and journal entries are cleaned up after it is dropped.
THEOREM ListedOnDisk ==
    ASSUME LockExclusive, ~Faults, Ops \cap {"put", "invalidate", "crash"} = {}
    PROVE  Spec => []ListedRangesAreOnDisk
  <1>1. Init => DiskInv
    <2> SUFFICES ASSUME Init PROVE DiskInv
      OBVIOUS
    <2>1. \A r \in meta.ranges : r.ver = NoVersion
      BY DEF Init, NoMeta, LegacyRanges
    <2> QED
      BY <2>1 DEF Init, DiskInv, ListedRangesAreOnDisk, MissingListsNothing, Present,
         NoMeta, ConsWillListFiles, EvictWillListFiles, HeadWillListFiles, ConsHolds,
         EvictHolds, HeadHolds, IdleCons, IdleEvict, IdleHead, IdleUpd
  <1>2. IInv /\ LockInv /\ DiskInv /\ [Next]_vars => DiskInv'
    <2> SUFFICES ASSUME IInv, LockInv, DiskInv, [Next]_vars PROVE DiskInv'
      OBVIOUS
    <2>1. CASE \/ UNCHANGED vars \/ ReadStep \/ Overwrite
      <3>1. UNCHANGED <<meta, files, store, cons, evict, head, upd>>
        BY <2>1 DEF vars, ReadStep, ReadLookup, ReadLoad, ReadServe, Overwrite
      <3> QED
        BY <3>1, DiskFrame
    <2>2. ~UpdateStep /\ \A i \in Instances : ~Crash(i)
      BY DEF DiskInv, UpdateStep, InvalidateBegin, PutAccepted, InvalidateUnlink,
         InvalidateDelete, PutFinalize, PutSupersede, PutCommit, Crash
    <2> QED
      BY <2>1, <2>2, StoreKeepsDiskInv, ConsolidateKeepsDiskInv, EvictKeepsDiskInv,
         HeadKeepsDiskInv DEF Next
  <1>3. DiskInv => ListedRangesAreOnDisk
    BY DEF DiskInv
  <1>4. "put" \notin Ops
    OBVIOUS
  <1>5. Spec => []LockInv
    BY <1>4, LockInvariant
  <1> QED
    BY <1>1, <1>2, <1>3, <1>5, StoreInvariant, PTL DEF Spec
=============================================================================
