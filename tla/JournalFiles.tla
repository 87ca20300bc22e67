---------------------------- MODULE JournalFiles ----------------------------
(***************************************************************************)
(* The files behind the journal of one proxy instance: the journal, the    *)
(* .tmp both its writer and its cleaner rename over it, the .lock file the *)
(* two coordinate by, and the fresh journals the writer falls back to.     *)
(* The writer is serialised by its mutex; the cleaner is whichever         *)
(* instance holds the global consolidation lock; the cache-hit buffer      *)
(* appends in place and takes no lock.                                     *)
(***************************************************************************)
EXTENDS Naturals, FiniteSets

CONSTANTS
    RangeEntries,   \* journal entries of stored ranges
    HitEntries      \* buffered access and TTL updates

ASSUME JournalAssumption == IsFiniteSet(RangeEntries) /\ RangeEntries \cap HitEntries = {}

Entries == RangeEntries \cup HitEntries
File(lines) == [there |-> TRUE, lines |-> lines]
NoFile == [there |-> FALSE, lines |-> {}]
Inodes == 1..3
NoInode == 0

VARIABLES
    journal,    \* <instance>.journal
    tmp,        \* <instance>.journal.tmp
    fresh,      \* entries that have a fresh journal of their own
    lockAt,     \* inode of <instance>.journal.lock
    writer,     \* append_range_entry: pc, lock inode, entry, content read
    cleaner,    \* the consolidation cycle: pc, lock inode, batch, remainder
    buffer,     \* CacheHitUpdateBuffer::buffer
    flushing,   \* the flush: pc and the entries it took
    appended,   \* history: entries whose append returned Ok
    applied,    \* entries applied to .meta
    causes      \* history: what happened that may lose entries

journalVars == <<journal, tmp, fresh, lockAt, writer, cleaner, buffer, flushing,
                 appended, applied, causes>>

NoWriter == [pc |-> "idle", lock |-> NoInode, entry |-> "none", read |-> {}]
NoCycle == [pc |-> "idle", lock |-> NoInode, seen |-> FALSE, batch |-> {}, rest |-> {}]
NoFlush == [pc |-> "idle", taken |-> {}]

JournalInit ==
    /\ journal = NoFile /\ tmp = NoFile /\ fresh = {} /\ lockAt = NoInode
    /\ writer = NoWriter /\ cleaner = NoCycle
    /\ buffer = {} /\ flushing = NoFlush
    /\ appended = {} /\ applied = {} /\ causes = {}

-----------------------------------------------------------------------------
(* File system                                                             *)

\* OpenOptions::create on the lock file: the inode at the path, or a new one.
OpenLock ==
    IF lockAt # NoInode THEN lockAt
    ELSE CHOOSE i \in Inodes : i \notin {writer.lock, cleaner.lock}

WriterHolds(i) == writer.pc \in {"locked", "read", "written"} /\ writer.lock = i
CleanerHolds(i) == cleaner.pc \in {"locked", "remove", "rewrite", "written"} /\ cleaner.lock = i

\* The file at the path is replaced or removed: a flush that has it open now
\* writes into a file nobody will read.
JournalBecomes(file) ==
    /\ journal' = file
    /\ flushing' = [flushing EXCEPT !.pc = IF @ = "open" THEN "detached" ELSE @]

-----------------------------------------------------------------------------
(* append_range_entry, append_range_entries_batch                          *)

AppendStart(e) ==
    /\ writer.pc = "idle" /\ e \notin appended
    /\ lockAt' = OpenLock
    /\ writer' = [NoWriter EXCEPT !.pc = "try", !.lock = OpenLock, !.entry = e]
    /\ UNCHANGED <<journal, tmp, fresh, cleaner, buffer, flushing, appended, applied, causes>>

\* try_lock_exclusive.  A busy lock means a cleanup is running, and the entry
\* goes into a fresh journal.
AppendLock ==
    /\ writer.pc = "try"
    /\ IF CleanerHolds(writer.lock)
       THEN /\ fresh' = fresh \cup {writer.entry}
            /\ appended' = appended \cup {writer.entry}
            /\ writer' = NoWriter
       ELSE /\ writer' = [writer EXCEPT !.pc = "locked"]
            /\ UNCHANGED <<fresh, appended>>
    /\ UNCHANGED <<journal, tmp, lockAt, cleaner, buffer, flushing, applied, causes>>

AppendRead ==
    /\ writer.pc = "locked"
    /\ writer' = [writer EXCEPT !.pc = "read", !.read = journal.lines]
    /\ UNCHANGED <<journal, tmp, fresh, lockAt, cleaner, buffer, flushing, appended, applied, causes>>

\* A journal that cannot be read is taken for an empty one.
AppendReadFails ==
    /\ writer.pc = "locked" /\ journal.there
    /\ writer' = [writer EXCEPT !.pc = "read", !.read = {}]
    /\ causes' = causes \cup {"unreadable journal"}
    /\ UNCHANGED <<journal, tmp, fresh, lockAt, cleaner, buffer, flushing, appended, applied>>

AppendWrite ==
    /\ writer.pc = "read"
    /\ tmp' = File(writer.read \cup {writer.entry})
    /\ writer' = [writer EXCEPT !.pc = "written"]
    /\ UNCHANGED <<journal, fresh, lockAt, cleaner, buffer, flushing, appended, applied, causes>>

AppendRename ==
    /\ writer.pc = "written" /\ tmp.there
    /\ JournalBecomes(tmp) /\ tmp' = NoFile
    /\ appended' = appended \cup {writer.entry}
    /\ writer' = NoWriter
    /\ UNCHANGED <<fresh, lockAt, cleaner, buffer, applied, causes>>

\* The write or the rename fails: the caller gets an error.
AppendFails ==
    /\ writer.pc \in {"read", "written"}
    /\ tmp' = NoFile /\ writer' = NoWriter
    /\ UNCHANGED <<journal, fresh, lockAt, cleaner, buffer, flushing, appended, applied, causes>>

-----------------------------------------------------------------------------
(* CacheHitUpdateBuffer                                                    *)

RecordHit(h) ==
    /\ writer.pc # "dead" /\ h \notin buffer \cup flushing.taken \cup journal.lines \cup applied
    /\ buffer' = buffer \cup {h}
    /\ UNCHANGED <<journal, tmp, fresh, lockAt, writer, cleaner, flushing, appended, applied, causes>>

\* The buffer is drained and the journal opened for appending, or created; a
\* failed open drops what was taken.
FlushOpen ==
    /\ flushing.pc = "idle" /\ buffer # {} /\ writer.pc # "dead"
    /\ buffer' = {}
    /\ \/ /\ flushing' = [pc |-> "open", taken |-> buffer]
          /\ journal' = File(journal.lines)
       \/ UNCHANGED <<flushing, journal>>
    /\ UNCHANGED <<tmp, fresh, lockAt, writer, cleaner, appended, applied, causes>>

FlushWrite ==
    /\ flushing.pc \in {"open", "detached"}
    /\ \/ flushing.pc = "open" /\ journal' = File(journal.lines \cup flushing.taken)
       \/ UNCHANGED journal
    /\ flushing' = NoFlush
    /\ UNCHANGED <<tmp, fresh, lockAt, writer, cleaner, buffer, appended, applied, causes>>

-----------------------------------------------------------------------------
(* The cycle: discovery, consolidation, cleanup                            *)

\* Entries are read without a lock and applied to .meta; a key that is
\* skipped or fails keeps its entries.
CycleConsolidates ==
    /\ cleaner.pc = "idle"
    /\ \E batch \in SUBSET (journal.lines \cup fresh) :
        /\ batch # {}
        /\ applied' = applied \cup batch
        /\ cleaner' = [NoCycle EXCEPT !.pc = "clean", !.seen = journal.lines # {},
                                      !.batch = batch]
    /\ UNCHANGED <<journal, tmp, fresh, lockAt, writer, buffer, flushing, appended, causes>>

\* The file name of every journal has a colon in it, so an emptied journal is
\* unlinked whether it is fresh or not.
CleanFresh(e) ==
    /\ cleaner.pc = "clean" /\ e \in fresh \cap cleaner.batch
    /\ fresh' = fresh \ {e}
    /\ UNCHANGED <<journal, tmp, lockAt, writer, cleaner, buffer, flushing, appended, applied, causes>>

CleanOpen ==
    /\ cleaner.pc = "clean"
    /\ IF cleaner.seen /\ journal.there
       THEN /\ lockAt' = OpenLock
            /\ cleaner' = [cleaner EXCEPT !.pc = "wait", !.lock = OpenLock]
       ELSE cleaner' = [cleaner EXCEPT !.pc = "stale"] /\ UNCHANGED lockAt
    /\ UNCHANGED <<journal, tmp, fresh, writer, buffer, flushing, appended, applied, causes>>

\* Seeded fault: the cleaner does not wait for the writer.
FaultLockIgnored(i) == TRUE
\* lock_exclusive blocks while the writer holds the same inode.
Lockable(i) == ~WriterHolds(i)
CleanLock ==
    /\ cleaner.pc = "wait" /\ Lockable(cleaner.lock)
    /\ cleaner' = [cleaner EXCEPT !.pc = "locked"]
    /\ UNCHANGED <<journal, tmp, fresh, lockAt, writer, buffer, flushing, appended, applied, causes>>

CycleReleased == [NoCycle EXCEPT !.pc = "stale"]
CleanRead ==
    /\ cleaner.pc = "locked"
    /\ LET rest == journal.lines \ cleaner.batch IN
       cleaner' = IF rest = journal.lines THEN CycleReleased
                  ELSE [cleaner EXCEPT !.pc = IF rest = {} THEN "remove" ELSE "rewrite",
                                       !.rest = rest]
    /\ UNCHANGED <<journal, tmp, fresh, lockAt, writer, buffer, flushing, appended, applied, causes>>

CleanRemove ==
    /\ cleaner.pc = "remove"
    /\ JournalBecomes(NoFile)
    /\ cleaner' = CycleReleased
    /\ UNCHANGED <<tmp, fresh, lockAt, writer, buffer, appended, applied, causes>>

CleanWrite ==
    /\ cleaner.pc = "rewrite"
    /\ tmp' = File(cleaner.rest)
    /\ cleaner' = [cleaner EXCEPT !.pc = "written"]
    /\ UNCHANGED <<journal, fresh, lockAt, writer, buffer, flushing, appended, applied, causes>>

CleanRename ==
    /\ cleaner.pc = "written" /\ tmp.there
    /\ JournalBecomes(tmp) /\ tmp' = NoFile
    /\ cleaner' = CycleReleased
    /\ UNCHANGED <<fresh, lockAt, writer, buffer, appended, applied, causes>>

\* An unlink, a write or a rename fails: the entries stay for the next cycle.
CleanFails ==
    /\ cleaner.pc \in {"remove", "rewrite", "written"}
    /\ tmp' = IF cleaner.pc = "remove" THEN tmp ELSE NoFile
    /\ cleaner' = CycleReleased
    /\ UNCHANGED <<journal, fresh, lockAt, writer, buffer, flushing, appended, applied, causes>>

\* cleanup_stale_lock_files: a lock file without journal is unlinked, and
\* nobody asks whether it is locked.
StaleCheck ==
    /\ cleaner.pc = "stale"
    /\ cleaner' = IF lockAt # NoInode /\ ~journal.there
                  THEN [cleaner EXCEPT !.pc = "unlink", !.lock = NoInode] ELSE NoCycle
    /\ UNCHANGED <<journal, tmp, fresh, lockAt, writer, buffer, flushing, appended, applied, causes>>

StaleUnlink ==
    /\ cleaner.pc = "unlink"
    /\ causes' = IF lockAt # NoInode /\ writer.lock = lockAt
                 THEN causes \cup {"lock file unlinked in use"} ELSE causes
    /\ lockAt' = NoInode
    /\ cleaner' = NoCycle
    /\ UNCHANGED <<journal, tmp, fresh, writer, buffer, flushing, appended, applied>>

-----------------------------------------------------------------------------

\* The instance dies, its flock with it.
InstanceDies ==
    /\ writer.pc # "dead"
    /\ writer' = [NoWriter EXCEPT !.pc = "dead"]
    /\ buffer' = {} /\ flushing' = NoFlush
    /\ UNCHANGED <<journal, tmp, fresh, lockAt, cleaner, appended, applied, causes>>

\* cleanup_dead_instance_journals of the next process on the host.
RemoveDeadJournals ==
    /\ writer.pc = "dead" /\ (journal.there \/ tmp.there \/ fresh # {})
    /\ journal' = NoFile /\ tmp' = NoFile /\ fresh' = {} /\ lockAt' = NoInode
    /\ causes' = causes \cup {"dead instance"}
    /\ UNCHANGED <<writer, cleaner, buffer, flushing, appended, applied>>

CleanerStep ==
    \/ CycleConsolidates \/ (\E e \in RangeEntries : CleanFresh(e))
    \/ CleanOpen \/ CleanLock \/ CleanRead \/ CleanRemove \/ CleanWrite \/ CleanRename
    \/ CleanFails \/ StaleCheck \/ StaleUnlink

JournalNext ==
    \/ \E e \in RangeEntries : AppendStart(e)
    \/ AppendLock \/ AppendRead \/ AppendReadFails \/ AppendWrite \/ AppendRename \/ AppendFails
    \/ \E h \in HitEntries : RecordHit(h)
    \/ FlushOpen \/ FlushWrite
    \/ CleanerStep
    \/ InstanceDies \/ RemoveDeadJournals

JournalSpec == JournalInit /\ [][JournalNext]_journalVars

-----------------------------------------------------------------------------

\* "Uses file-level locking (flock) to prevent races with append operations
\* from other instances" (journal_consolidator.rs:4053).  An entry whose append
\* succeeded is in a journal until it is applied, unless the journal could not
\* be read, its instance died, or the lock file was unlinked under its holder.
RangeEntriesSurvive ==
    causes = {} => appended \subseteq applied \cup journal.lines \cup fresh

=============================================================================
