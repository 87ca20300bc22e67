-------------------------- MODULE SharedFilesProofs --------------------------
(***************************************************************************)
(* The files the proxies share outside the ranges of an object:            *)
(*                                                                         *)
(*   - the journal of an instance: an entry whose append returned Ok is in *)
(*     a journal until it is applied;                                      *)
(*   - the staging directory of a multipart upload: what is published      *)
(*     under S3's ETag is what S3 assembled;                               *)
(*   - the staged versions of an object and write_cache_size, which is     *)
(*     never below what is staged;                                         *)
(*   - files that no .meta lists: what the sweep recovers joins the .meta  *)
(*     of its own version only, and what it deletes is in no .meta, but    *)
(*     for one a PUT wrote.                                                *)
(*                                                                         *)
(* For any sets of entries, parts, attempts, completions, PUTs, reads,     *)
(* store tasks and sweeps, and any history of the object.  The four have   *)
(* no state in common.                                                     *)
(***************************************************************************)
EXTENDS JournalFiles, MultipartUpload, StagingTier, OrphanRecovery, FiniteSetTheorems, TLAPS

-----------------------------------------------------------------------------
(***************************************************************************)
(* THE JOURNAL OF AN INSTANCE                                              *)
(***************************************************************************)

Files == [there : BOOLEAN, lines : SUBSET Entries]
WriterPcs == {"idle", "try", "locked", "read", "written", "dead"}
CleanerPcs == {"idle", "clean", "wait", "locked", "remove", "rewrite", "written",
               "stale", "unlink"}

JournalTypeOK ==
    /\ journal \in Files /\ tmp \in Files
    /\ fresh \subseteq Entries /\ appended \subseteq Entries
    /\ lockAt \in Inodes \cup {NoInode}
    /\ writer \in [pc : WriterPcs, lock : Inodes \cup {NoInode},
                   entry : Entries \cup {"none"}, read : SUBSET Entries]
    /\ cleaner \in [pc : CleanerPcs, lock : Inodes \cup {NoInode}, seen : BOOLEAN,
                    batch : SUBSET Entries, rest : SUBSET Entries]
    /\ buffer \subseteq Entries
    /\ flushing \in [pc : {"idle", "open", "detached"}, taken : SUBSET Entries]
    /\ writer.pc \notin {"idle", "dead"} => writer.entry \in Entries

\* What a cycle cleans up it has applied.
BatchApplied == cleaner.batch \subseteq applied

\* A writer that is idle has closed its lock file.
IdleClosed ==
    writer.pc \in {"idle", "dead"} => writer.lock = NoInode

\* The two tasks have the lock file open that is at the path, and only one of
\* them holds its lock.
WriterOpen == writer.pc \in {"try", "locked", "read", "written"}
CleanerOpen == cleaner.pc \in {"wait", "locked", "remove", "rewrite", "written"}
SameLockFile ==
    /\ WriterOpen => writer.lock = lockAt /\ lockAt # NoInode
    /\ CleanerOpen => cleaner.lock = lockAt /\ lockAt # NoInode
    /\ ~(/\ writer.pc \in {"locked", "read", "written"}
         /\ cleaner.pc \in {"locked", "remove", "rewrite", "written"})

\* Entries that are in the shared journal only.
Owed == appended \ (applied \cup fresh)

\* What a lock holder will rename over the journal, or leave of it, has them.
CopiesAreWhole ==
    /\ Owed \subseteq journal.lines
    /\ writer.pc = "read" => Owed \subseteq writer.read
    /\ writer.pc = "written" => Owed \cup {writer.entry} \subseteq tmp.lines
    /\ cleaner.pc = "remove" => Owed = {}
    /\ cleaner.pc = "rewrite" => Owed \subseteq cleaner.rest
    /\ cleaner.pc = "written" => Owed \subseteq tmp.lines

JournalInv ==
    /\ JournalTypeOK
    /\ BatchApplied
    /\ IdleClosed
    /\ causes = {} => SameLockFile /\ CopiesAreWhole

-----------------------------------------------------------------------------
(* The steps of the writer, the buffer and the cleaner                     *)

LEMMA FileOK == \A lines \in SUBSET Entries : File(lines) \in Files
  BY DEF File, Files

LEMMA OpensAnInode ==
    ASSUME JournalTypeOK
    PROVE  /\ OpenLock \in Inodes /\ OpenLock # NoInode
           /\ lockAt # NoInode => OpenLock = lockAt
  <1>1. \E i \in Inodes : i \notin {writer.lock, cleaner.lock}
    <2>1. 1 \in Inodes /\ 2 \in Inodes /\ 3 \in Inodes
      BY DEF Inodes
    <2> QED
      BY <2>1
  <1> QED
    BY <1>1 DEF OpenLock, Inodes, NoInode, JournalTypeOK

LEMMA JournalInitOK == JournalInit => JournalInv
  BY DEF JournalInit, JournalInv, JournalTypeOK, Files, WriterPcs, CleanerPcs, NoWriter,
     NoCycle, NoFlush, NoFile, Inodes, NoInode, BatchApplied, IdleClosed, SameLockFile,
     WriterOpen, CleanerOpen, CopiesAreWhole, Owed

LEMMA AppendStartKeeps ==
    ASSUME NEW e \in RangeEntries, JournalInv, AppendStart(e)
    PROVE  JournalInv'
  <1>1. JournalTypeOK'
    BY OpensAnInode DEF AppendStart, NoWriter, NoInode, JournalInv, JournalTypeOK,
        Files, WriterPcs, Entries
  <1>2. BatchApplied' /\ IdleClosed'
    BY OpensAnInode DEF AppendStart, NoWriter, NoInode, JournalInv, JournalTypeOK,
        BatchApplied, IdleClosed
  <1>3. ASSUME causes' = {} PROVE SameLockFile'
    BY <1>3, OpensAnInode DEF AppendStart, NoWriter, NoInode, JournalInv,
        JournalTypeOK, IdleClosed, SameLockFile, WriterOpen, CleanerOpen
  <1>4. ASSUME causes' = {} PROVE CopiesAreWhole'
    BY <1>4 DEF AppendStart, NoWriter, NoInode, JournalInv, JournalTypeOK,
        BatchApplied, SameLockFile, CopiesAreWhole, Owed
  <1> QED
    BY <1>1, <1>2, <1>3, <1>4 DEF JournalInv

LEMMA AppendLockKeeps ==
    ASSUME JournalInv, AppendLock
    PROVE  JournalInv'
  <1>1. JournalTypeOK'
    BY DEF AppendLock, NoWriter, NoInode, JournalInv, JournalTypeOK, Files, WriterPcs
  <1>2. BatchApplied' /\ IdleClosed'
    BY DEF AppendLock, NoWriter, NoInode, JournalInv, JournalTypeOK, BatchApplied,
        IdleClosed
  <1>3. ASSUME causes' = {} PROVE SameLockFile'
    BY <1>3 DEF AppendLock, NoWriter, NoInode, JournalInv, JournalTypeOK, IdleClosed,
        SameLockFile, WriterOpen, CleanerOpen, WriterHolds, CleanerHolds
  <1>4. ASSUME causes' = {} PROVE CopiesAreWhole'
    BY <1>4 DEF AppendLock, NoWriter, NoInode, JournalInv, JournalTypeOK, BatchApplied,
        SameLockFile, CopiesAreWhole, Owed
  <1> QED
    BY <1>1, <1>2, <1>3, <1>4 DEF JournalInv

LEMMA AppendReadKeeps ==
    ASSUME JournalInv, AppendRead
    PROVE  JournalInv'
  <1>1. JournalTypeOK'
    BY DEF AppendRead, JournalInv, JournalTypeOK, Files, WriterPcs
  <1>2. BatchApplied' /\ IdleClosed'
    BY DEF AppendRead, JournalInv, JournalTypeOK, BatchApplied, IdleClosed
  <1>3. ASSUME causes' = {} PROVE SameLockFile'
    BY <1>3 DEF AppendRead, JournalInv, JournalTypeOK, IdleClosed, SameLockFile,
        WriterOpen, CleanerOpen
  <1>4. ASSUME causes' = {} PROVE CopiesAreWhole'
    BY <1>4 DEF AppendRead, JournalInv, JournalTypeOK, BatchApplied, SameLockFile,
        CopiesAreWhole, Owed
  <1> QED
    BY <1>1, <1>2, <1>3, <1>4 DEF JournalInv

LEMMA AppendReadFailsKeeps ==
    ASSUME JournalInv, AppendReadFails
    PROVE  JournalInv'
  <1>1. JournalTypeOK'
    BY DEF AppendReadFails, JournalInv, JournalTypeOK, Files, WriterPcs
  <1>2. BatchApplied' /\ IdleClosed'
    BY DEF AppendReadFails, JournalInv, JournalTypeOK, BatchApplied, IdleClosed
  <1>3. ASSUME causes' = {} PROVE SameLockFile'
    BY <1>3 DEF AppendReadFails, JournalInv, JournalTypeOK, IdleClosed, SameLockFile,
        WriterOpen, CleanerOpen
  <1>4. ASSUME causes' = {} PROVE CopiesAreWhole'
    BY <1>4 DEF AppendReadFails, JournalInv, JournalTypeOK, BatchApplied, SameLockFile,
        CopiesAreWhole, Owed
  <1> QED
    BY <1>1, <1>2, <1>3, <1>4 DEF JournalInv

LEMMA AppendWriteKeeps ==
    ASSUME JournalInv, AppendWrite
    PROVE  JournalInv'
  <1>1. JournalTypeOK'
    BY DEF AppendWrite, File, JournalInv, JournalTypeOK, Files, WriterPcs
  <1>2. BatchApplied' /\ IdleClosed'
    BY DEF AppendWrite, File, JournalInv, JournalTypeOK, BatchApplied, IdleClosed
  <1>3. ASSUME causes' = {} PROVE SameLockFile'
    BY <1>3 DEF AppendWrite, File, JournalInv, JournalTypeOK, IdleClosed, SameLockFile,
        WriterOpen, CleanerOpen
  <1>4. ASSUME causes' = {} PROVE CopiesAreWhole'
    BY <1>4 DEF AppendWrite, File, JournalInv, JournalTypeOK, BatchApplied,
        SameLockFile, CopiesAreWhole, Owed
  <1> QED
    BY <1>1, <1>2, <1>3, <1>4 DEF JournalInv

LEMMA AppendRenameKeeps ==
    ASSUME JournalInv, AppendRename
    PROVE  JournalInv'
  <1>1. JournalTypeOK'
    BY DEF AppendRename, NoWriter, NoInode, NoFile, JournalBecomes, JournalInv,
        JournalTypeOK, Files, WriterPcs
  <1>2. BatchApplied' /\ IdleClosed'
    BY DEF AppendRename, NoWriter, NoInode, NoFile, JournalBecomes, JournalInv,
        JournalTypeOK, BatchApplied, IdleClosed
  <1>3. ASSUME causes' = {} PROVE SameLockFile'
    BY <1>3 DEF AppendRename, NoWriter, NoInode, NoFile, JournalBecomes, JournalInv,
        JournalTypeOK, IdleClosed, SameLockFile, WriterOpen, CleanerOpen
  <1>4. ASSUME causes' = {} PROVE CopiesAreWhole'
    BY <1>4 DEF AppendRename, NoWriter, NoInode, NoFile, JournalBecomes, JournalInv,
        JournalTypeOK, BatchApplied, SameLockFile, CopiesAreWhole, Owed
  <1> QED
    BY <1>1, <1>2, <1>3, <1>4 DEF JournalInv

LEMMA AppendFailsKeeps ==
    ASSUME JournalInv, AppendFails
    PROVE  JournalInv'
  <1>1. JournalTypeOK'
    BY DEF AppendFails, NoWriter, NoInode, NoFile, JournalInv, JournalTypeOK, Files,
        WriterPcs
  <1>2. BatchApplied' /\ IdleClosed'
    BY DEF AppendFails, NoWriter, NoInode, NoFile, JournalInv, JournalTypeOK,
        BatchApplied, IdleClosed
  <1>3. ASSUME causes' = {} PROVE SameLockFile'
    BY <1>3 DEF AppendFails, NoWriter, NoInode, NoFile, JournalInv, JournalTypeOK,
        IdleClosed, SameLockFile, WriterOpen, CleanerOpen
  <1>4. ASSUME causes' = {} PROVE CopiesAreWhole'
    BY <1>4 DEF AppendFails, NoWriter, NoInode, NoFile, JournalInv, JournalTypeOK,
        BatchApplied, SameLockFile, CopiesAreWhole, Owed
  <1> QED
    BY <1>1, <1>2, <1>3, <1>4 DEF JournalInv

LEMMA RecordHitKeeps ==
    ASSUME NEW h \in HitEntries, JournalInv, RecordHit(h)
    PROVE  JournalInv'
  <1>1. JournalTypeOK'
    BY DEF RecordHit, JournalInv, JournalTypeOK, Files, Entries
  <1>2. BatchApplied' /\ IdleClosed'
    BY DEF RecordHit, JournalInv, JournalTypeOK, BatchApplied, IdleClosed
  <1>3. ASSUME causes' = {} PROVE SameLockFile'
    BY <1>3 DEF RecordHit, JournalInv, JournalTypeOK, IdleClosed, SameLockFile,
        WriterOpen, CleanerOpen
  <1>4. ASSUME causes' = {} PROVE CopiesAreWhole'
    BY <1>4 DEF RecordHit, JournalInv, JournalTypeOK, BatchApplied, SameLockFile,
        CopiesAreWhole, Owed
  <1> QED
    BY <1>1, <1>2, <1>3, <1>4 DEF JournalInv

LEMMA FlushOpenKeeps ==
    ASSUME JournalInv, FlushOpen
    PROVE  JournalInv'
  <1>1. JournalTypeOK'
    <2>1. journal' \in Files
      <3>1. journal \in Files /\ journal.lines \subseteq Entries
        BY DEF JournalInv, JournalTypeOK, Files
      <3> QED
        BY <3>1, FileOK DEF FlushOpen
    <2> QED
      BY <2>1 DEF FlushOpen, JournalInv, JournalTypeOK
  <1>2. BatchApplied' /\ IdleClosed'
    BY DEF FlushOpen, File, JournalInv, JournalTypeOK, BatchApplied, IdleClosed
  <1>3. ASSUME causes' = {} PROVE SameLockFile'
    BY <1>3 DEF FlushOpen, File, JournalInv, JournalTypeOK, IdleClosed, SameLockFile,
        WriterOpen, CleanerOpen
  <1>4. ASSUME causes' = {} PROVE CopiesAreWhole'
    BY <1>4 DEF FlushOpen, File, JournalInv, JournalTypeOK, BatchApplied, SameLockFile,
        CopiesAreWhole, Owed
  <1> QED
    BY <1>1, <1>2, <1>3, <1>4 DEF JournalInv

LEMMA FlushWriteKeeps ==
    ASSUME JournalInv, FlushWrite
    PROVE  JournalInv'
  <1>1. JournalTypeOK'
    <2>1. journal' \in Files
      <3>1. journal \in Files /\ journal.lines \cup flushing.taken \subseteq Entries
        BY DEF JournalInv, JournalTypeOK, Files
      <3> QED
        BY <3>1, FileOK DEF FlushWrite
    <2> QED
      BY <2>1 DEF FlushWrite, NoFlush, JournalInv, JournalTypeOK
  <1>2. BatchApplied' /\ IdleClosed'
    BY DEF FlushWrite, NoFlush, File, JournalInv, JournalTypeOK, BatchApplied,
        IdleClosed
  <1>3. ASSUME causes' = {} PROVE SameLockFile'
    BY <1>3 DEF FlushWrite, NoFlush, File, JournalInv, JournalTypeOK, IdleClosed,
        SameLockFile, WriterOpen, CleanerOpen
  <1>4. ASSUME causes' = {} PROVE CopiesAreWhole'
    BY <1>4 DEF FlushWrite, NoFlush, File, JournalInv, JournalTypeOK, BatchApplied,
        SameLockFile, CopiesAreWhole, Owed
  <1> QED
    BY <1>1, <1>2, <1>3, <1>4 DEF JournalInv

LEMMA CycleConsolidatesKeeps ==
    ASSUME JournalInv, CycleConsolidates
    PROVE  JournalInv'
  <1>1. JournalTypeOK'
    BY DEF CycleConsolidates, NoCycle, NoInode, JournalInv, JournalTypeOK, Files,
        CleanerPcs
  <1>2. BatchApplied' /\ IdleClosed'
    BY DEF CycleConsolidates, NoCycle, NoInode, JournalInv, JournalTypeOK,
        BatchApplied, IdleClosed
  <1>3. ASSUME causes' = {} PROVE SameLockFile'
    BY <1>3 DEF CycleConsolidates, NoCycle, NoInode, JournalInv, JournalTypeOK,
        IdleClosed, SameLockFile, WriterOpen, CleanerOpen
  <1>4. ASSUME causes' = {} PROVE CopiesAreWhole'
    BY <1>4 DEF CycleConsolidates, NoCycle, NoInode, JournalInv, JournalTypeOK,
        BatchApplied, SameLockFile, CopiesAreWhole, Owed
  <1> QED
    BY <1>1, <1>2, <1>3, <1>4 DEF JournalInv

LEMMA CleanFreshKeeps ==
    ASSUME NEW e \in RangeEntries, JournalInv, CleanFresh(e)
    PROVE  JournalInv'
  <1>1. JournalTypeOK'
    BY DEF CleanFresh, JournalInv, JournalTypeOK, Files, Entries
  <1>2. BatchApplied' /\ IdleClosed'
    BY DEF CleanFresh, JournalInv, JournalTypeOK, BatchApplied, IdleClosed
  <1>3. ASSUME causes' = {} PROVE SameLockFile'
    BY <1>3 DEF CleanFresh, JournalInv, JournalTypeOK, IdleClosed, SameLockFile,
        WriterOpen, CleanerOpen
  <1>4. ASSUME causes' = {} PROVE CopiesAreWhole'
    BY <1>4 DEF CleanFresh, JournalInv, JournalTypeOK, BatchApplied, SameLockFile,
        CopiesAreWhole, Owed
  <1> QED
    BY <1>1, <1>2, <1>3, <1>4 DEF JournalInv

LEMMA CleanOpenKeeps ==
    ASSUME JournalInv, CleanOpen
    PROVE  JournalInv'
  <1>1. JournalTypeOK'
    BY OpensAnInode DEF CleanOpen, JournalInv, JournalTypeOK, Files, CleanerPcs
  <1>2. BatchApplied' /\ IdleClosed'
    BY OpensAnInode DEF CleanOpen, JournalInv, JournalTypeOK, BatchApplied, IdleClosed
  <1>3. ASSUME causes' = {} PROVE SameLockFile'
    BY <1>3, OpensAnInode DEF CleanOpen, JournalInv, JournalTypeOK, IdleClosed,
        SameLockFile, WriterOpen, CleanerOpen
  <1>4. ASSUME causes' = {} PROVE CopiesAreWhole'
    BY <1>4 DEF CleanOpen, JournalInv, JournalTypeOK, BatchApplied, SameLockFile,
        CopiesAreWhole, Owed
  <1> QED
    BY <1>1, <1>2, <1>3, <1>4 DEF JournalInv

LEMMA CleanLockKeeps ==
    ASSUME JournalInv, CleanLock
    PROVE  JournalInv'
  <1>1. JournalTypeOK'
    BY DEF CleanLock, JournalInv, JournalTypeOK, Files, CleanerPcs
  <1>2. BatchApplied' /\ IdleClosed'
    BY DEF CleanLock, JournalInv, JournalTypeOK, BatchApplied, IdleClosed
  <1>3. ASSUME causes' = {} PROVE SameLockFile'
    BY <1>3 DEF CleanLock, JournalInv, JournalTypeOK, IdleClosed, SameLockFile,
        WriterOpen, CleanerOpen, Lockable, WriterHolds
  <1>4. ASSUME causes' = {} PROVE CopiesAreWhole'
    BY <1>4 DEF CleanLock, JournalInv, JournalTypeOK, BatchApplied, SameLockFile,
        CopiesAreWhole, Owed
  <1> QED
    BY <1>1, <1>2, <1>3, <1>4 DEF JournalInv

LEMMA CleanReadKeeps ==
    ASSUME JournalInv, CleanRead
    PROVE  JournalInv'
  <1>1. JournalTypeOK'
    BY DEF CleanRead, CycleReleased, NoCycle, NoInode, JournalInv, JournalTypeOK,
        Files, CleanerPcs
  <1>2. BatchApplied' /\ IdleClosed'
    BY DEF CleanRead, CycleReleased, NoCycle, NoInode, JournalInv, JournalTypeOK,
        BatchApplied, IdleClosed
  <1>3. ASSUME causes' = {} PROVE SameLockFile'
    BY <1>3 DEF CleanRead, CycleReleased, NoCycle, NoInode, JournalInv, JournalTypeOK,
        IdleClosed, SameLockFile, WriterOpen, CleanerOpen
  <1>4. ASSUME causes' = {} PROVE CopiesAreWhole'
    BY <1>4 DEF CleanRead, CycleReleased, NoCycle, NoInode, JournalInv, JournalTypeOK,
        BatchApplied, SameLockFile, CopiesAreWhole, Owed
  <1> QED
    BY <1>1, <1>2, <1>3, <1>4 DEF JournalInv

LEMMA CleanRemoveKeeps ==
    ASSUME JournalInv, CleanRemove
    PROVE  JournalInv'
  <1>1. JournalTypeOK'
    BY DEF CleanRemove, CycleReleased, NoCycle, NoInode, NoFile, JournalBecomes,
        JournalInv, JournalTypeOK, Files, CleanerPcs
  <1>2. BatchApplied' /\ IdleClosed'
    BY DEF CleanRemove, CycleReleased, NoCycle, NoInode, NoFile, JournalBecomes,
        JournalInv, JournalTypeOK, BatchApplied, IdleClosed
  <1>3. ASSUME causes' = {} PROVE SameLockFile'
    BY <1>3 DEF CleanRemove, CycleReleased, NoCycle, NoInode, NoFile, JournalBecomes,
        JournalInv, JournalTypeOK, IdleClosed, SameLockFile, WriterOpen, CleanerOpen
  <1>4. ASSUME causes' = {} PROVE CopiesAreWhole'
    BY <1>4 DEF CleanRemove, CycleReleased, NoCycle, NoInode, NoFile, JournalBecomes,
        JournalInv, JournalTypeOK, BatchApplied, SameLockFile, CopiesAreWhole, Owed
  <1> QED
    BY <1>1, <1>2, <1>3, <1>4 DEF JournalInv

LEMMA CleanWriteKeeps ==
    ASSUME JournalInv, CleanWrite
    PROVE  JournalInv'
  <1>1. JournalTypeOK'
    BY DEF CleanWrite, File, JournalInv, JournalTypeOK, Files, CleanerPcs
  <1>2. BatchApplied' /\ IdleClosed'
    BY DEF CleanWrite, File, JournalInv, JournalTypeOK, BatchApplied, IdleClosed
  <1>3. ASSUME causes' = {} PROVE SameLockFile'
    BY <1>3 DEF CleanWrite, File, JournalInv, JournalTypeOK, IdleClosed, SameLockFile,
        WriterOpen, CleanerOpen
  <1>4. ASSUME causes' = {} PROVE CopiesAreWhole'
    BY <1>4 DEF CleanWrite, File, JournalInv, JournalTypeOK, BatchApplied,
        SameLockFile, CopiesAreWhole, Owed
  <1> QED
    BY <1>1, <1>2, <1>3, <1>4 DEF JournalInv

LEMMA CleanRenameKeeps ==
    ASSUME JournalInv, CleanRename
    PROVE  JournalInv'
  <1>1. JournalTypeOK'
    BY DEF CleanRename, CycleReleased, NoCycle, NoInode, NoFile, JournalBecomes,
        JournalInv, JournalTypeOK, Files, CleanerPcs
  <1>2. BatchApplied' /\ IdleClosed'
    BY DEF CleanRename, CycleReleased, NoCycle, NoInode, NoFile, JournalBecomes,
        JournalInv, JournalTypeOK, BatchApplied, IdleClosed
  <1>3. ASSUME causes' = {} PROVE SameLockFile'
    BY <1>3 DEF CleanRename, CycleReleased, NoCycle, NoInode, NoFile, JournalBecomes,
        JournalInv, JournalTypeOK, IdleClosed, SameLockFile, WriterOpen, CleanerOpen
  <1>4. ASSUME causes' = {} PROVE CopiesAreWhole'
    BY <1>4 DEF CleanRename, CycleReleased, NoCycle, NoInode, NoFile, JournalBecomes,
        JournalInv, JournalTypeOK, BatchApplied, SameLockFile, CopiesAreWhole, Owed
  <1> QED
    BY <1>1, <1>2, <1>3, <1>4 DEF JournalInv

LEMMA CleanFailsKeeps ==
    ASSUME JournalInv, CleanFails
    PROVE  JournalInv'
  <1>1. JournalTypeOK'
    BY DEF CleanFails, CycleReleased, NoCycle, NoInode, NoFile, JournalInv,
        JournalTypeOK, Files, CleanerPcs
  <1>2. BatchApplied' /\ IdleClosed'
    BY DEF CleanFails, CycleReleased, NoCycle, NoInode, NoFile, JournalInv,
        JournalTypeOK, BatchApplied, IdleClosed
  <1>3. ASSUME causes' = {} PROVE SameLockFile'
    BY <1>3 DEF CleanFails, CycleReleased, NoCycle, NoInode, NoFile, JournalInv,
        JournalTypeOK, IdleClosed, SameLockFile, WriterOpen, CleanerOpen
  <1>4. ASSUME causes' = {} PROVE CopiesAreWhole'
    BY <1>4 DEF CleanFails, CycleReleased, NoCycle, NoInode, NoFile, JournalInv,
        JournalTypeOK, BatchApplied, SameLockFile, CopiesAreWhole, Owed
  <1> QED
    BY <1>1, <1>2, <1>3, <1>4 DEF JournalInv

LEMMA StaleCheckKeeps ==
    ASSUME JournalInv, StaleCheck
    PROVE  JournalInv'
  <1>1. JournalTypeOK'
    BY DEF StaleCheck, NoCycle, NoInode, JournalInv, JournalTypeOK, Files, CleanerPcs
  <1>2. BatchApplied' /\ IdleClosed'
    BY DEF StaleCheck, NoCycle, NoInode, JournalInv, JournalTypeOK, BatchApplied,
        IdleClosed
  <1>3. ASSUME causes' = {} PROVE SameLockFile'
    BY <1>3 DEF StaleCheck, NoCycle, NoInode, JournalInv, JournalTypeOK, IdleClosed,
        SameLockFile, WriterOpen, CleanerOpen
  <1>4. ASSUME causes' = {} PROVE CopiesAreWhole'
    BY <1>4 DEF StaleCheck, NoCycle, NoInode, JournalInv, JournalTypeOK, BatchApplied,
        SameLockFile, CopiesAreWhole, Owed
  <1> QED
    BY <1>1, <1>2, <1>3, <1>4 DEF JournalInv

LEMMA StaleUnlinkKeeps ==
    ASSUME JournalInv, StaleUnlink
    PROVE  JournalInv'
  <1>1. JournalTypeOK'
    BY DEF StaleUnlink, NoCycle, NoInode, JournalInv, JournalTypeOK, Files, CleanerPcs
  <1>2. BatchApplied' /\ IdleClosed'
    BY DEF StaleUnlink, NoCycle, NoInode, JournalInv, JournalTypeOK, BatchApplied,
        IdleClosed
  <1>3. ASSUME causes' = {} PROVE SameLockFile'
    BY <1>3 DEF StaleUnlink, NoCycle, NoInode, JournalInv, JournalTypeOK, IdleClosed,
        SameLockFile, WriterOpen, CleanerOpen
  <1>4. ASSUME causes' = {} PROVE CopiesAreWhole'
    BY <1>4 DEF StaleUnlink, NoCycle, NoInode, JournalInv, JournalTypeOK, BatchApplied,
        SameLockFile, CopiesAreWhole, Owed
  <1> QED
    BY <1>1, <1>2, <1>3, <1>4 DEF JournalInv

LEMMA InstanceDiesKeeps ==
    ASSUME JournalInv, InstanceDies
    PROVE  JournalInv'
  <1>1. JournalTypeOK'
    BY DEF InstanceDies, NoWriter, NoInode, NoFlush, JournalInv, JournalTypeOK, Files,
        WriterPcs
  <1>2. BatchApplied' /\ IdleClosed'
    BY DEF InstanceDies, NoWriter, NoInode, NoFlush, JournalInv, JournalTypeOK,
        BatchApplied, IdleClosed
  <1>3. ASSUME causes' = {} PROVE SameLockFile'
    BY <1>3 DEF InstanceDies, NoWriter, NoInode, NoFlush, JournalInv, JournalTypeOK,
        IdleClosed, SameLockFile, WriterOpen, CleanerOpen
  <1>4. ASSUME causes' = {} PROVE CopiesAreWhole'
    BY <1>4 DEF InstanceDies, NoWriter, NoInode, NoFlush, JournalInv, JournalTypeOK,
        BatchApplied, SameLockFile, CopiesAreWhole, Owed
  <1> QED
    BY <1>1, <1>2, <1>3, <1>4 DEF JournalInv

LEMMA RemoveDeadJournalsKeeps ==
    ASSUME JournalInv, RemoveDeadJournals
    PROVE  JournalInv'
  <1>1. JournalTypeOK'
    BY DEF RemoveDeadJournals, NoFile, NoInode, JournalInv, JournalTypeOK, Files
  <1>2. BatchApplied' /\ IdleClosed'
    BY DEF RemoveDeadJournals, NoFile, NoInode, JournalInv, JournalTypeOK,
        BatchApplied, IdleClosed
  <1>3. ASSUME causes' = {} PROVE SameLockFile'
    BY <1>3 DEF RemoveDeadJournals, NoFile, NoInode, JournalInv, JournalTypeOK,
        IdleClosed, SameLockFile, WriterOpen, CleanerOpen
  <1>4. ASSUME causes' = {} PROVE CopiesAreWhole'
    BY <1>4 DEF RemoveDeadJournals, NoFile, NoInode, JournalInv, JournalTypeOK,
        BatchApplied, SameLockFile, CopiesAreWhole, Owed
  <1> QED
    BY <1>1, <1>2, <1>3, <1>4 DEF JournalInv

LEMMA JournalNextKeeps == JournalInv /\ [JournalNext]_journalVars => JournalInv'
  <1> SUFFICES ASSUME JournalInv, [JournalNext]_journalVars PROVE JournalInv'
    OBVIOUS
  <1>1. CASE UNCHANGED journalVars
    BY <1>1 DEF journalVars, JournalInv, JournalTypeOK, BatchApplied, IdleClosed,
        SameLockFile, WriterOpen, CleanerOpen, CopiesAreWhole, Owed
  <1>2. CASE JournalNext
    BY <1>2, AppendStartKeeps, AppendLockKeeps, AppendReadKeeps, AppendReadFailsKeeps,
       AppendWriteKeeps, AppendRenameKeeps, AppendFailsKeeps, RecordHitKeeps,
       FlushOpenKeeps, FlushWriteKeeps, CycleConsolidatesKeeps, CleanFreshKeeps,
       CleanOpenKeeps, CleanLockKeeps, CleanReadKeeps, CleanRemoveKeeps, CleanWriteKeeps,
       CleanRenameKeeps, CleanFailsKeeps, StaleCheckKeeps, StaleUnlinkKeeps,
       InstanceDiesKeeps, RemoveDeadJournalsKeeps DEF JournalNext, CleanerStep
  <1> QED
    BY <1>1, <1>2

\* Every step of the writer, the cleaner, the cache-hit buffer and of the removal of
\* dead instances' files keeps the two lock holders apart and their copies whole.
THEOREM JournalInvariant == JournalSpec => []JournalInv
  BY JournalInitOK, JournalNextKeeps, PTL DEF JournalSpec

\* append_range_entry against cleanup_consolidated_entries: an entry whose append
\* returned Ok is in a journal until it is applied, but for the causes named.
THEOREM EntriesSurvive == JournalSpec => []RangeEntriesSurvive
  <1>1. JournalInv => RangeEntriesSurvive
    BY DEF JournalInv, CopiesAreWhole, Owed, RangeEntriesSurvive
  <1> QED
    BY <1>1, JournalInvariant, PTL

-----------------------------------------------------------------------------
(***************************************************************************)
(* A MULTIPART UPLOAD                                                      *)
(***************************************************************************)

PartMaps == UNION {[ps -> Nat] : ps \in SUBSET MpuParts}
Stages == [dir : BOOLEAN, gen : Nat, bin : [MpuParts -> Nat], rec : [MpuParts -> Nat]]
PartTasks == [pc : {"idle", "sent", "stored", "opened", "locked", "published", "done"},
              tmp : BOOLEAN, lock : Nat]
Uploads == [state : {"open", "completed", "aborted"}, parts : [MpuParts -> Nat],
            object : PartMaps]
Finishes == [pc : {"idle", "await", "opened", "load", "metalock", "move", "remove", "done"},
             lock : Nat, want : PartMaps, seen : PartMaps, moved : PartMaps]
CachedObjects == [what : {"old", "none", "new"}, parts : PartMaps]

MpuTypeOK ==
    /\ stage \in Stages
    /\ partTask \in [Tries -> PartTasks]
    /\ s3Upload \in Uploads
    /\ finish \in [Completers -> Finishes]
    /\ cachedAs \in CachedObjects

-----------------------------------------------------------------------------
(* Attempts                                                                *)

\* Unpublished bytes are in a directory, and an attempt that has opened its
\* part's lock since holds the one of that directory.
TempInPlace(t) ==
    partTask[t].tmp =>
        /\ partTask[t].pc \in {"sent", "stored", "opened", "locked"} /\ stage.dir
        /\ partTask[t].pc \in {"opened", "locked"} => partTask[t].lock = stage.gen

LockOfPast(t) ==
    partTask[t].pc \in {"opened", "locked", "published"} => partTask[t].lock <= stage.gen

\* A part's lock of one directory has one holder.
PartLockExcludes ==
    \A t, u \in Tries :
        /\ t[1] = u[1] /\ t # u
        /\ partTask[t].pc \in {"locked", "published"} /\ partTask[u].pc \in {"locked", "published"}
        => partTask[t].lock # partTask[u].lock

\* Where the attempt is whose bytes S3, a .bin or a record stands for.
AttemptsKnown ==
    \A p \in MpuParts :
        /\ s3Upload.parts[p] # NoAttempt =>
              /\ <<p, s3Upload.parts[p]>> \in Tries
              /\ partTask[<<p, s3Upload.parts[p]>>].pc \notin {"idle", "sent"}
        /\ stage.bin[p] # NoAttempt =>
              /\ <<p, stage.bin[p]>> \in Tries
              /\ partTask[<<p, stage.bin[p]>>].pc \in {"published", "done"}
        /\ stage.rec[p] # NoAttempt =>
              /\ <<p, stage.rec[p]>> \in Tries
              /\ partTask[<<p, stage.rec[p]>>].pc = "done"

\* An attempt about to be recorded left its bytes in a directory.  If that one
\* is gone, the bytes staged since are of an attempt S3 stored later.
LateRecord ==
    \A t, u \in Tries :
        /\ t[1] = u[1] /\ t # u
        /\ partTask[t].pc = "published" /\ partTask[t].lock < stage.gen
        /\ partTask[u].tmp /\ partTask[u].pc # "sent"
        => s3Upload.parts[t[1]] # t[2]

PublishedBytes(t) ==
    partTask[t].pc = "published" =>
        stage.bin[t[1]] \in {t[2], NoAttempt} \/ s3Upload.parts[t[1]] # t[2]

\* Bytes and record of a part agree, unless the record is of no attempt S3 holds.
RecordOfBytes(p) ==
    /\ stage.bin[p] # NoAttempt /\ stage.rec[p] = s3Upload.parts[p]
    /\ stage.rec[p] # NoAttempt
    /\ \A t \in Tries : t[1] = p => partTask[t].pc # "published"
    => stage.bin[p] = stage.rec[p]

AttemptsOK ==
    /\ \A t \in Tries : TempInPlace(t) /\ LockOfPast(t) /\ PublishedBytes(t)
    /\ PartLockExcludes /\ AttemptsKnown /\ LateRecord
    /\ mpuMishaps = {} => \A p \in MpuParts : RecordOfBytes(p)

-----------------------------------------------------------------------------
(* The completed object                                                    *)

Completed == s3Upload.state = "completed"

ObjectAssembled ==
    /\ Completed =>
        /\ DOMAIN s3Upload.object # {}
        /\ \A p \in DOMAIN s3Upload.object :
            s3Upload.object[p] = s3Upload.parts[p] /\ s3Upload.object[p] # NoAttempt
    /\ ~Completed => cachedAs.what # "new" /\ \A c \in Completers : finish[c].pc = "idle"

\* A completion starts with the parts of the object, or with none read.
Wanted(f) ==
    /\ f.pc \in {"await", "opened", "load", "metalock", "move"} =>
          f.want = s3Upload.object \/ DOMAIN f.want = {}
    /\ f.pc \in {"await", "opened"} => DOMAIN f.seen = {} /\ DOMAIN f.moved = {}

\* The bytes that S3 assembled are no longer staged, nor will be again.
Spent(p) ==
    /\ stage.bin[p] # s3Upload.object[p]
    /\ ~partTask[<<p, s3Upload.object[p]>>].tmp
AllSpent == Completed /\ \A p \in DOMAIN s3Upload.object : Spent(p)

\* Until then the directory is the one the completions found, and its
\* upload.lock has one holder.
Locking(f) == f.pc \in {"load", "metalock", "move"}
InDirectory(f) ==
    f.pc \in {"opened", "load", "metalock", "move"} => stage.dir /\ f.lock = stage.gen
UploadLockExcludes ==
    ~AllSpent =>
        /\ \A c \in Completers : InDirectory(finish[c])
        /\ \A c, d \in Completers : Locking(finish[c]) /\ Locking(finish[d]) => c = d

\* A record that agrees with the request stands for the bytes in place.
LoadedOfBytes(f) ==
    f.pc = "load" =>
        \A p \in DOMAIN f.seen \cap DOMAIN f.want :
            f.seen[p] = f.want[p] => stage.bin[p] \in {NoAttempt, f.want[p]}

\* What was compared is what will be moved, and what was moved is gone.
MovesWhatItCompared(f) ==
    /\ f.pc \in {"load", "metalock"} => DOMAIN f.moved = {}
    /\ f.pc \in {"metalock", "move"} =>
        \A p \in DOMAIN f.want :
            /\ p \in DOMAIN f.moved => f.moved[p] = f.want[p] /\ Spent(p)
            /\ p \notin DOMAIN f.moved => stage.bin[p] = f.want[p]
    /\ f.pc = "remove" => AllSpent

CompletionOK ==
    /\ ObjectAssembled /\ UploadLockExcludes
    /\ \A c \in Completers : Wanted(finish[c])
    /\ mpuMishaps = {} =>
        /\ \A c \in Completers : LoadedOfBytes(finish[c]) /\ MovesWhatItCompared(finish[c])
        /\ PublishedAsAssembled

MpuInv == MpuTypeOK /\ AttemptsOK /\ CompletionOK

-----------------------------------------------------------------------------

LEMMA TryFacts ==
    \A t \in Tries : /\ t[1] \in MpuParts /\ t[2] \in Nat /\ t[2] # NoAttempt
                     /\ t = <<t[1], t[2]>>
  BY MultipartAssumption DEF NoAttempt

LEMMA EmptyMap == <<>> \in PartMaps /\ DOMAIN <<>> = {}
  <1>1. DOMAIN <<>> = {}
    OBVIOUS
  <1>2. <<>> \in [{} -> Nat]
    BY <1>1
  <1> QED
    BY <1>1, <1>2 DEF PartMaps

LEMMA RestingTypes ==
    /\ NoStage \in Stages /\ NoTask \in PartTasks /\ NoFinish \in Finishes
    /\ NoParts \in [MpuParts -> Nat] /\ \A p \in MpuParts : NoParts[p] = NoAttempt
  BY EmptyMap DEF NoStage, NoTask, NoFinish, NoParts, NoAttempt, Stages, PartTasks, Finishes

LEMMA MpuInitOK == MpuInit => MpuInv
  <1> SUFFICES ASSUME MpuInit PROVE MpuInv
    OBVIOUS
  <1>1. MpuTypeOK
    BY RestingTypes, EmptyMap DEF MpuInit, MpuTypeOK, Uploads, CachedObjects
  <1>2. AttemptsOK
    <2>1. \A t \in Tries : partTask[t].pc = "idle" /\ ~partTask[t].tmp
      BY DEF MpuInit, NoTask
    <2>2. \A p \in MpuParts : /\ s3Upload.parts[p] = NoAttempt /\ stage.bin[p] = NoAttempt
                              /\ stage.rec[p] = NoAttempt
      BY RestingTypes DEF MpuInit, NoStage
    <2> QED
      BY <2>1, <2>2 DEF AttemptsOK, TempInPlace, LockOfPast, PublishedBytes, PartLockExcludes,
          AttemptsKnown, LateRecord, RecordOfBytes
  <1>3. CompletionOK
    <2>1. \A c \in Completers : finish[c].pc = "idle"
      BY DEF MpuInit, NoFinish
    <2>2. ~Completed /\ cachedAs.what = "old"
      BY DEF MpuInit, Completed
    <2> QED
      BY <2>1, <2>2 DEF CompletionOK, ObjectAssembled, UploadLockExcludes, Wanted, InDirectory,
          Locking, LoadedOfBytes, MovesWhatItCompared, PublishedAsAssembled
  <1> QED
    BY <1>1, <1>2, <1>3 DEF MpuInv

-----------------------------------------------------------------------------
(* Frames: what a step of one side leaves of the other                     *)

LEMMA ObjectParts ==
    ASSUME MpuInv, Completed, NEW p \in DOMAIN s3Upload.object
    PROVE  /\ p \in MpuParts
           /\ s3Upload.object[p] = s3Upload.parts[p] /\ s3Upload.object[p] # NoAttempt
           /\ <<p, s3Upload.object[p]>> \in Tries
           /\ partTask[<<p, s3Upload.object[p]>>].pc \notin {"idle", "sent"}
  <1>1. p \in MpuParts
    BY DEF MpuInv, MpuTypeOK, Uploads, PartMaps
  <1> QED
    BY <1>1 DEF MpuInv, CompletionOK, ObjectAssembled, AttemptsOK, AttemptsKnown

\* No step makes spent bytes appear again.
LEMMA SpentStays ==
    ASSUME MpuInv, Completed, NEW p \in DOMAIN s3Upload.object, Spent(p),
           s3Upload'.object = s3Upload.object,
           \A t \in Tries : partTask'[t].tmp => partTask[t].tmp \/ partTask[t].pc = "idle",
           \/ stage'.bin[p] \in {stage.bin[p], NoAttempt}
           \/ <<p, stage'.bin[p]>> \in Tries /\ partTask[<<p, stage'.bin[p]>>].tmp
    PROVE  Spent(p)'
  BY ObjectParts DEF Spent

\* A step of the part uploads: the completion finds its object and what it
\* compared, unless bytes were renamed beside it.
LEMMA UploadsKeepCompletion ==
    ASSUME MpuInv, MpuTypeOK', UNCHANGED <<finish, cachedAs>>,
           s3Upload'.state = s3Upload.state, s3Upload'.object = s3Upload.object,
           Completed => s3Upload'.parts = s3Upload.parts,
           \A t \in Tries : partTask'[t].tmp => partTask[t].tmp \/ partTask[t].pc = "idle",
           \A p \in MpuParts :
               \/ stage'.bin[p] = stage.bin[p]
               \/ /\ <<p, stage'.bin[p]>> \in Tries /\ partTask[<<p, stage'.bin[p]>>].tmp
                  /\ mpuMishaps' = {} =>
                        \A c \in Completers : Locking(finish[c]) => p \notin DOMAIN finish[c].want,
           stage'.gen = stage.gen, stage.dir => stage'.dir,
           mpuMishaps' = {} => mpuMishaps = {}
    PROVE  CompletionOK'
  <1>1. ASSUME Completed, NEW p \in DOMAIN s3Upload.object, Spent(p) PROVE Spent(p)'
    <2>1. p \in MpuParts
      BY DEF MpuInv, MpuTypeOK, Uploads, PartMaps
    <2> QED
      BY <1>1, <2>1, SpentStays
  <1>2. AllSpent => AllSpent'
    BY <1>1 DEF AllSpent, Completed
  <1>3. ObjectAssembled' /\ \A c \in Completers : Wanted(finish[c])'
    BY DEF MpuInv, CompletionOK, ObjectAssembled, Completed, Wanted
  <1>4. UploadLockExcludes'
    BY <1>2 DEF MpuInv, CompletionOK, UploadLockExcludes, InDirectory, Locking
  <1>5. ASSUME mpuMishaps' = {}, NEW c \in Completers
        PROVE  LoadedOfBytes(finish[c])' /\ MovesWhatItCompared(finish[c])'
    <2>1. LoadedOfBytes(finish[c]) /\ MovesWhatItCompared(finish[c]) /\ Wanted(finish[c])
      BY <1>5 DEF MpuInv, CompletionOK
    <2>2. finish'[c] = finish[c] /\ DOMAIN finish[c].want \subseteq MpuParts
      BY DEF MpuInv, MpuTypeOK, Finishes, PartMaps
    <2>3. ASSUME NEW p \in DOMAIN finish[c].want, Locking(finish[c])
          PROVE  stage'.bin[p] = stage.bin[p]
      BY <1>5, <2>2, <2>3
    <2>4. finish[c].pc # "idle" => Completed
      BY DEF MpuInv, CompletionOK, ObjectAssembled
    <2>5. LoadedOfBytes(finish[c])'
      BY <2>1, <2>2, <2>3 DEF LoadedOfBytes, Locking
    <2>6. ASSUME finish[c].pc \in {"metalock", "move"}, NEW p \in DOMAIN finish[c].want, Spent(p)
          PROVE  Spent(p)'
      BY <1>1, <2>1, <2>4, <2>6 DEF Wanted
    <2>7. MovesWhatItCompared(finish[c])'
      BY <1>2, <2>1, <2>2, <2>3, <2>6 DEF MovesWhatItCompared, Locking
    <2> QED
      BY <2>5, <2>7
  <1>6. mpuMishaps' = {} => PublishedAsAssembled'
    BY DEF MpuInv, CompletionOK, PublishedAsAssembled
  <1> QED
    BY <1>3, <1>4, <1>5, <1>6 DEF CompletionOK

\* A step of the completions that touches neither the staging nor S3.
LEMMA CompletionKeepsAttempts ==
    ASSUME MpuInv, UNCHANGED <<stage, partTask>>, s3Upload'.parts = s3Upload.parts,
           mpuMishaps' = {} => mpuMishaps = {}
    PROVE  AttemptsOK'
  BY DEF MpuInv, AttemptsOK, TempInPlace, LockOfPast, PublishedBytes, PartLockExcludes,
      AttemptsKnown, LateRecord, RecordOfBytes

\* The finalization of c moves on, and touches neither the staging nor S3.
LEMMA FinishMoves ==
    ASSUME MpuInv, Completed, NEW c \in Completers,
           NEW f \in Finishes, finish' = [finish EXCEPT ![c] = f],
           UNCHANGED <<stage, partTask, s3Upload>>, mpuMishaps' = {} => mpuMishaps = {},
           cachedAs' \in CachedObjects,
           Wanted(f),
           ~AllSpent => /\ InDirectory(f)
                        /\ Locking(f) => \A d \in Completers : Locking(finish[d]) => c = d,
           mpuMishaps' = {} => /\ LoadedOfBytes(f) /\ MovesWhatItCompared(f)
                               /\ PublishedAsAssembled'
    PROVE  MpuInv'
  <1>1. /\ finish'[c] = f /\ \A d \in Completers : d # c => finish'[d] = finish[d]
        /\ finish' \in [Completers -> Finishes]
    BY DEF MpuInv, MpuTypeOK
  <1>2. MpuTypeOK'
    BY <1>1 DEF MpuInv, MpuTypeOK
  <1>3. AttemptsOK'
    BY CompletionKeepsAttempts
  <1>4. ObjectAssembled'
    BY DEF MpuInv, CompletionOK, ObjectAssembled, Completed
  <1>5. AllSpent' <=> AllSpent
    BY DEF AllSpent, Completed, Spent
  <1>6. UploadLockExcludes'
    BY <1>1, <1>5 DEF MpuInv, CompletionOK, UploadLockExcludes, InDirectory, Locking
  <1>7. \A d \in Completers : Wanted(finish[d])'
    BY <1>1 DEF MpuInv, CompletionOK, Wanted
  <1>8. ASSUME mpuMishaps' = {}, NEW d \in Completers
        PROVE  LoadedOfBytes(finish[d])' /\ MovesWhatItCompared(finish[d])'
    <2>1. LoadedOfBytes(finish'[d]) /\ MovesWhatItCompared(finish'[d])
      BY <1>1, <1>8 DEF MpuInv, CompletionOK
    <2> QED
      BY <1>5, <2>1 DEF LoadedOfBytes, MovesWhatItCompared, Spent
  <1> QED
    BY <1>2, <1>3, <1>4, <1>6, <1>7, <1>8 DEF MpuInv, CompletionOK

\* The directory is removed.  After the completion that spends every part; a
\* finalization that still has parts to move would lose them.
LEMMA StageRemoved ==
    ASSUME MpuInv, RemoveStage, finish' \in [Completers -> Finishes],
           \A c \in Completers :
               finish'[c] = finish[c] \/ (finish[c].pc # "idle" /\ finish'[c].pc = "done"),
           s3Upload'.parts = s3Upload.parts, s3Upload'.object = s3Upload.object,
           s3Upload' \in Uploads, Completed' <=> Completed,
           UNCHANGED cachedAs, mpuMishaps' = {} => mpuMishaps = {},
           mpuMishaps' = {} =>
               \A c \in Completers :
                   finish'[c].pc \in {"metalock", "move"} =>
                       \A p \in DOMAIN finish[c].want : stage.bin[p] # finish[c].want[p]
    PROVE  MpuInv'
  <1>1. /\ stage' \in Stages /\ ~stage'.dir /\ stage'.gen = stage.gen + 1
        /\ \A p \in MpuParts : stage'.bin[p] = NoAttempt /\ stage'.rec[p] = NoAttempt
    <2>1. stage' = [dir |-> FALSE, gen |-> stage.gen + 1, bin |-> NoParts, rec |-> NoParts]
      BY DEF RemoveStage, NoStage
    <2>2. stage.gen + 1 \in Nat
      BY DEF MpuInv, MpuTypeOK, Stages
    <2> QED
      BY <2>1, <2>2, RestingTypes DEF Stages
  <1>2. /\ partTask' \in [Tries -> PartTasks]
        /\ \A t \in Tries : /\ partTask'[t].pc = partTask[t].pc /\ ~partTask'[t].tmp
                            /\ partTask'[t].lock = partTask[t].lock
    BY DEF RemoveStage, MpuInv, MpuTypeOK, PartTasks
  <1>3. MpuTypeOK'
    BY <1>1, <1>2 DEF MpuInv, MpuTypeOK
  <1>4. AttemptsOK'
    <2>1. \A t \in Tries : TempInPlace(t)' /\ PublishedBytes(t)'
      BY <1>1, <1>2, TryFacts DEF TempInPlace, PublishedBytes
    <2>2. \A t \in Tries : LockOfPast(t)'
      BY <1>1, <1>2 DEF MpuInv, MpuTypeOK, Stages, PartTasks, AttemptsOK, LockOfPast
    <2>3. PartLockExcludes'
      BY <1>2 DEF MpuInv, AttemptsOK, PartLockExcludes
    <2>4. AttemptsKnown'
      <3>1. ASSUME NEW p \in MpuParts, s3Upload.parts[p] # NoAttempt
            PROVE  /\ <<p, s3Upload.parts[p]>> \in Tries
                   /\ partTask'[<<p, s3Upload.parts[p]>>].pc \notin {"idle", "sent"}
        BY <1>2, <3>1 DEF MpuInv, AttemptsOK, AttemptsKnown
      <3> QED
        BY <1>1, <3>1 DEF AttemptsKnown
    <2>5. LateRecord' /\ \A p \in MpuParts : RecordOfBytes(p)'
      BY <1>1, <1>2 DEF LateRecord, RecordOfBytes
    <2> QED
      BY <2>1, <2>2, <2>3, <2>4, <2>5 DEF AttemptsOK
  <1>5. ObjectAssembled' /\ \A c \in Completers : Wanted(finish[c])'
    BY DEF MpuInv, CompletionOK, ObjectAssembled, Completed, Wanted
  <1>6. ASSUME Completed, NEW p \in DOMAIN s3Upload.object PROVE Spent(p)'
    BY <1>1, <1>2, <1>6, ObjectParts DEF Spent
  <1>7. Completed => AllSpent'
    BY <1>6 DEF AllSpent, Completed
  <1>8. UploadLockExcludes'
    <2>1. ~Completed => \A c \in Completers : finish'[c].pc = "idle"
      BY DEF MpuInv, CompletionOK, ObjectAssembled
    <2> QED
      BY <1>7, <2>1 DEF UploadLockExcludes, InDirectory, Locking
  <1>9. ASSUME mpuMishaps' = {}, NEW c \in Completers
        PROVE  LoadedOfBytes(finish[c])' /\ MovesWhatItCompared(finish[c])'
    <2>1. CASE finish'[c].pc = "done"
      BY <2>1 DEF LoadedOfBytes, MovesWhatItCompared
    <2>2. CASE finish'[c] = finish[c]
      <3>1. MovesWhatItCompared(finish[c]) /\ Wanted(finish[c])
        BY <1>9 DEF MpuInv, CompletionOK
      <3>2. DOMAIN finish[c].want \subseteq MpuParts /\ DOMAIN finish[c].seen \subseteq MpuParts
        BY DEF MpuInv, MpuTypeOK, Finishes, PartMaps
      <3>3. LoadedOfBytes(finish[c])'
        BY <1>1, <2>2, <3>2 DEF LoadedOfBytes
      <3>4. finish[c].pc # "idle" => Completed
        BY DEF MpuInv, CompletionOK, ObjectAssembled
      <3>5. ASSUME finish[c].pc \in {"metalock", "move"}, NEW p \in DOMAIN finish[c].want
            PROVE  p \in DOMAIN finish[c].moved /\ finish[c].moved[p] = finish[c].want[p] /\ Spent(p)'
        BY <1>6, <1>9, <2>2, <3>1, <3>4, <3>5 DEF MovesWhatItCompared, Wanted
      <3>6. MovesWhatItCompared(finish[c])'
        BY <1>7, <2>2, <3>1, <3>4, <3>5 DEF MovesWhatItCompared
      <3> QED
        BY <3>3, <3>6
    <2> QED
      BY <2>1, <2>2
  <1>10. mpuMishaps' = {} => PublishedAsAssembled'
    BY DEF MpuInv, CompletionOK, PublishedAsAssembled
  <1> QED
    BY <1>3, <1>4, <1>5, <1>8, <1>9, <1>10 DEF MpuInv, CompletionOK

\* Of two finalizations that hold an upload.lock one has nothing left to move.
LEMMA SoleMover ==
    ASSUME MpuInv, mpuMishaps = {}, NEW c \in Completers, NEW d \in Completers, c # d,
           Locking(finish[c]) \/ AllSpent, finish[d].pc \in {"metalock", "move"},
           NEW p \in DOMAIN finish[d].want
    PROVE  p \in DOMAIN finish[d].moved /\ stage.bin[p] # finish[d].want[p]
  <1>1. finish[d].want = s3Upload.object
    BY DEF MpuInv, CompletionOK, Wanted
  <1>2. MovesWhatItCompared(finish[d]) /\ Completed
    BY DEF MpuInv, CompletionOK, ObjectAssembled
  <1>3. CASE AllSpent
    BY <1>1, <1>2, <1>3 DEF AllSpent, Spent, MovesWhatItCompared
  <1>4. CASE ~AllSpent
    BY <1>4 DEF MpuInv, CompletionOK, UploadLockExcludes, Locking
  <1> QED
    BY <1>3, <1>4

\* The finalization of c deletes or moves bytes.
LEMMA BytesLeave ==
    ASSUME MpuInv, NEW c \in Completers, Locking(finish[c]),
           NEW f \in Finishes, finish' = [finish EXCEPT ![c] = f],
           f.pc \in {"metalock", "move"}, f.want = finish[c].want, f.lock = finish[c].lock,
           stage' \in Stages, stage'.dir = stage.dir, stage'.gen = stage.gen,
           stage'.rec = stage.rec,
           \A p \in MpuParts : stage'.bin[p] \in {stage.bin[p], NoAttempt},
           UNCHANGED <<partTask, s3Upload, cachedAs, mpuMishaps>>,
           mpuMishaps = {} => MovesWhatItCompared(f)'
    PROVE  MpuInv'
  <1>1. /\ finish'[c] = f /\ \A d \in Completers : d # c => finish'[d] = finish[d]
        /\ finish' \in [Completers -> Finishes]
    BY DEF MpuInv, MpuTypeOK
  <1>2. MpuTypeOK'
    BY <1>1 DEF MpuInv, MpuTypeOK
  <1>3. AttemptsOK'
    <2>1. \A t \in Tries : TempInPlace(t)' /\ LockOfPast(t)'
      BY DEF MpuInv, AttemptsOK, TempInPlace, LockOfPast
    <2>2. \A t \in Tries : PublishedBytes(t)'
      BY TryFacts DEF MpuInv, AttemptsOK, PublishedBytes
    <2>3. PartLockExcludes' /\ LateRecord'
      BY DEF MpuInv, AttemptsOK, PartLockExcludes, LateRecord
    <2>4. AttemptsKnown'
      BY DEF MpuInv, AttemptsOK, AttemptsKnown
    <2>5. ASSUME mpuMishaps' = {}, NEW p \in MpuParts PROVE RecordOfBytes(p)'
      BY <2>5 DEF MpuInv, AttemptsOK, RecordOfBytes
    <2> QED
      BY <2>1, <2>2, <2>3, <2>4, <2>5 DEF AttemptsOK
  <1>4. Completed /\ Completed' /\ ObjectAssembled'
    BY <1>1 DEF MpuInv, CompletionOK, ObjectAssembled, Completed, Locking
  <1>5. ASSUME NEW p \in DOMAIN s3Upload.object, Spent(p) PROVE Spent(p)'
    BY <1>4, <1>5, ObjectParts, SpentStays
  <1>6. AllSpent => AllSpent'
    BY <1>5 DEF AllSpent, Completed
  <1>7. UploadLockExcludes'
    BY <1>1, <1>6 DEF MpuInv, CompletionOK, UploadLockExcludes, InDirectory, Locking
  <1>8. \A d \in Completers : Wanted(finish[d])'
    BY <1>1 DEF MpuInv, CompletionOK, Wanted, Locking
  <1>9. ASSUME mpuMishaps' = {}, NEW d \in Completers
        PROVE  LoadedOfBytes(finish[d])' /\ MovesWhatItCompared(finish[d])'
    <2>1. CASE d = c
      BY <1>1, <1>9, <2>1 DEF LoadedOfBytes, MovesWhatItCompared
    <2>2. CASE d # c
      <3>1. /\ finish'[d] = finish[d] /\ LoadedOfBytes(finish[d]) /\ Wanted(finish[d])
            /\ MovesWhatItCompared(finish[d])
        BY <1>1, <1>9, <2>2 DEF MpuInv, CompletionOK
      <3>2. DOMAIN finish[d].want \subseteq MpuParts
        BY DEF MpuInv, MpuTypeOK, Finishes, PartMaps
      <3>3. LoadedOfBytes(finish[d])'
        BY <3>1, <3>2 DEF LoadedOfBytes
      <3>4. ASSUME finish[d].pc \in {"metalock", "move"}, NEW p \in DOMAIN finish[d].want
            PROVE  /\ p \in DOMAIN finish[d].moved /\ finish[d].moved[p] = finish[d].want[p]
                   /\ Spent(p)'
        BY <1>5, <1>9, <2>2, <3>1, <3>4, SoleMover DEF MovesWhatItCompared, Wanted
      <3>5. MovesWhatItCompared(finish[d])'
        BY <1>6, <3>1, <3>4 DEF MovesWhatItCompared
      <3> QED
        BY <3>3, <3>5
    <2> QED
      BY <2>1, <2>2
  <1>10. mpuMishaps' = {} => PublishedAsAssembled'
    BY DEF MpuInv, CompletionOK, PublishedAsAssembled
  <1> QED
    BY <1>2, <1>3, <1>4, <1>7, <1>8, <1>9, <1>10 DEF MpuInv, CompletionOK

-----------------------------------------------------------------------------
(* The steps of an attempt                                                 *)

\* Where an attempt may get without bytes, records or S3 changing.
MayMove(t, q) ==
    /\ partTask[t].pc \notin {"published", "done"} /\ q.pc \notin {"idle", "published"}
    /\ partTask[t].pc \notin {"idle", "sent"} => q.pc # "sent"
    /\ q.tmp => /\ partTask[t].tmp \/ (partTask[t].pc = "idle" /\ q.pc = "sent")
                /\ partTask[t].pc = "sent" => q.pc = "sent"
                /\ q.pc \in {"sent", "stored", "opened", "locked"} /\ stage'.dir
                /\ q.pc \in {"opened", "locked"} => q.lock = stage.gen
    /\ q.pc \in {"opened", "locked"} => q.lock <= stage.gen
    /\ q.pc = "locked" => ~PartLocked(t[1], q.lock)

\* The attempt t moves on.
LEMMA TaskMoves ==
    ASSUME MpuInv, NEW t \in Tries, NEW q \in PartTasks,
           partTask' = [partTask EXCEPT ![t] = q], MayMove(t, q),
           stage' \in {stage, WithDir}, UNCHANGED <<s3Upload, finish, cachedAs, mpuMishaps>>
    PROVE  MpuInv'
  <1>1. /\ partTask'[t] = q /\ \A u \in Tries : u # t => partTask'[u] = partTask[u]
        /\ partTask' \in [Tries -> PartTasks]
    BY DEF MpuInv, MpuTypeOK
  <1>2. /\ stage' \in Stages /\ stage'.gen = stage.gen /\ stage'.bin = stage.bin
        /\ stage'.rec = stage.rec /\ (stage.dir => stage'.dir)
    BY DEF WithDir, MpuInv, MpuTypeOK, Stages
  <1>3. MpuTypeOK'
    BY <1>1, <1>2 DEF MpuInv, MpuTypeOK
  <1>4. CompletionOK'
    BY <1>1, <1>2, <1>3, UploadsKeepCompletion DEF MayMove
  <1>5. \A u \in Tries : TempInPlace(u)' /\ LockOfPast(u)'
    BY <1>1, <1>2 DEF MayMove, MpuInv, AttemptsOK, TempInPlace, LockOfPast
  <1>6. \A u \in Tries : PublishedBytes(u)'
    BY <1>1, <1>2 DEF MayMove, MpuInv, AttemptsOK, PublishedBytes
  <1>7. PartLockExcludes'
    <2>1. \A u \in Tries : u[1] = t[1] /\ q.pc = "locked" /\ partTask[u].pc \in {"locked", "published"}
            => partTask[u].lock # q.lock
      BY DEF MayMove, PartLocked
    <2> QED
      BY <1>1, <2>1 DEF MayMove, MpuInv, AttemptsOK, PartLockExcludes
  <1>8. AttemptsKnown'
    BY <1>1, <1>2 DEF MayMove, MpuInv, AttemptsOK, AttemptsKnown
  <1>9. LateRecord'
    BY <1>1, <1>2 DEF MayMove, MpuInv, AttemptsOK, LateRecord
  <1>10. ASSUME mpuMishaps' = {}, NEW p \in MpuParts PROVE RecordOfBytes(p)'
    BY <1>1, <1>2, <1>10 DEF MayMove, MpuInv, AttemptsOK, RecordOfBytes
  <1> QED
    BY <1>3, <1>4, <1>5, <1>6, <1>7, <1>8, <1>9, <1>10 DEF MpuInv, AttemptsOK

LEMMA CreateUploadKeeps == ASSUME MpuInv, CreateUpload PROVE MpuInv'
  <1>1. /\ stage' \in Stages /\ stage'.dir /\ stage'.gen = stage.gen
        /\ stage'.bin = stage.bin /\ stage'.rec = stage.rec
    BY DEF CreateUpload, WithDir, MpuInv, MpuTypeOK, Stages
  <1>2. MpuTypeOK'
    BY <1>1 DEF CreateUpload, MpuInv, MpuTypeOK
  <1>3. CompletionOK'
    BY <1>1, <1>2, UploadsKeepCompletion DEF CreateUpload
  <1>4. AttemptsOK'
    BY <1>1 DEF CreateUpload, MpuInv, AttemptsOK, TempInPlace, LockOfPast, PublishedBytes,
        PartLockExcludes, AttemptsKnown, LateRecord, RecordOfBytes
  <1> QED
    BY <1>2, <1>3, <1>4 DEF MpuInv

LEMMA UploadPartKeeps == ASSUME MpuInv, NEW t \in Tries, UploadPart(t) PROVE MpuInv'
  <1>1. PICK sinking \in BOOLEAN :
           /\ partTask' = [partTask EXCEPT ![t] = [NoTask EXCEPT !.pc = "sent", !.tmp = sinking]]
           /\ stage' = IF sinking THEN WithDir ELSE stage
    BY DEF UploadPart
  <1> DEFINE q == [NoTask EXCEPT !.pc = "sent", !.tmp = sinking]
  <1>2. q \in PartTasks /\ q.pc = "sent" /\ q.tmp = sinking
    BY DEF NoTask, PartTasks
  <1>3. sinking => stage'.dir
    BY <1>1 DEF WithDir, MpuInv, MpuTypeOK, Stages
  <1> HIDE DEF q
  <1>4. partTask[t].pc = "idle" /\ UNCHANGED <<s3Upload, finish, cachedAs, mpuMishaps>>
    BY DEF UploadPart, TaskAt
  <1>5. partTask' = [partTask EXCEPT ![t] = q] /\ stage' \in {stage, WithDir}
    BY <1>1 DEF q
  <1> QED
    BY <1>2, <1>3, <1>4, <1>5, TaskMoves DEF MayMove

LEMMA PartDiscardedKeeps == ASSUME MpuInv, NEW t \in Tries, PartDiscarded(t) PROVE MpuInv'
  <1> DEFINE q == [NoTask EXCEPT !.pc = "done"]
  <1>1. q \in PartTasks /\ q.pc = "done" /\ ~q.tmp
    BY DEF NoTask, PartTasks
  <1>2. /\ partTask' = [partTask EXCEPT ![t] = q] /\ partTask[t].pc \in {"sent", "stored"}
        /\ UNCHANGED <<stage, s3Upload, finish, cachedAs, mpuMishaps>>
    BY DEF PartDiscarded
  <1> HIDE DEF q
  <1> QED
    BY <1>1, <1>2, TaskMoves DEF MayMove

LEMMA PartOpensLockKeeps == ASSUME MpuInv, NEW t \in Tries, PartOpensLock(t) PROVE MpuInv'
  <1>1. stage.gen \in Nat /\ stage.gen <= stage.gen
    BY DEF MpuInv, MpuTypeOK, Stages
  <1>2. [partTask[t] EXCEPT !.pc = "opened", !.lock = stage.gen] \in PartTasks
    BY <1>1 DEF MpuInv, MpuTypeOK, PartTasks
  <1>3. PICK q \in PartTasks : q = [partTask[t] EXCEPT !.pc = "opened", !.lock = stage.gen]
    BY <1>2
  <1>4. /\ partTask' = [partTask EXCEPT ![t] = q] /\ partTask[t].pc = "stored"
        /\ q.pc = "opened" /\ (q.tmp => partTask[t].tmp) /\ q.lock = stage.gen
    BY <1>3 DEF PartOpensLock, TaskAt, MpuInv, MpuTypeOK, PartTasks
  <1>5. stage'.dir /\ stage' = WithDir /\ UNCHANGED <<s3Upload, finish, cachedAs, mpuMishaps>>
    BY DEF PartOpensLock, WithDir, MpuInv, MpuTypeOK, Stages
  <1>6. MayMove(t, q)
    BY <1>1, <1>4, <1>5 DEF MayMove
  <1> QED
    BY <1>4, <1>5, <1>6, TaskMoves

LEMMA PartLocksKeeps == ASSUME MpuInv, NEW t \in Tries, PartLocks(t) PROVE MpuInv'
  <1>1. [partTask[t] EXCEPT !.pc = "locked"] \in PartTasks
    BY DEF MpuInv, MpuTypeOK, PartTasks
  <1>2. PICK q \in PartTasks : q = [partTask[t] EXCEPT !.pc = "locked"]
    BY <1>1
  <1>3. /\ partTask' = [partTask EXCEPT ![t] = q] /\ partTask[t].pc = "opened"
        /\ q.pc = "locked" /\ (q.tmp => partTask[t].tmp) /\ q.lock = partTask[t].lock
    BY <1>2 DEF PartLocks, TaskAt, MpuInv, MpuTypeOK, PartTasks
  <1>4. ~PartLocked(t[1], q.lock) /\ UNCHANGED <<stage, s3Upload, finish, cachedAs, mpuMishaps>>
    BY <1>3 DEF PartLocks
  <1>5. q.lock <= stage.gen /\ (q.tmp => stage'.dir /\ q.lock = stage.gen)
    BY <1>3, <1>4 DEF MpuInv, AttemptsOK, TempInPlace, LockOfPast
  <1>6. MayMove(t, q)
    BY <1>3, <1>4, <1>5 DEF MayMove
  <1> QED
    BY <1>3, <1>4, <1>6, TaskMoves

\* S3 holds this attempt from now on; what was staged before is of others.
LEMMA S3StoresPartKeeps == ASSUME MpuInv, NEW t \in Tries, S3StoresPart(t) PROVE MpuInv'
  <1>1. /\ partTask[t].pc = "sent" /\ ~Completed
        /\ UNCHANGED <<stage, finish, cachedAs, mpuMishaps>>
    BY DEF S3StoresPart, TaskAt, Completed
  <1>2. /\ partTask' \in [Tries -> PartTasks]
        /\ partTask'[t].pc = "stored" /\ partTask'[t].tmp = partTask[t].tmp
        /\ partTask'[t].lock = partTask[t].lock
        /\ \A u \in Tries : u # t => partTask'[u] = partTask[u]
    BY DEF S3StoresPart, MpuInv, MpuTypeOK, PartTasks
  <1>3. /\ s3Upload' \in Uploads
        /\ s3Upload'.state = s3Upload.state /\ s3Upload'.object = s3Upload.object
        /\ s3Upload'.parts[t[1]] = t[2]
        /\ \A p \in MpuParts : p # t[1] => s3Upload'.parts[p] = s3Upload.parts[p]
    BY TryFacts DEF S3StoresPart, MpuInv, MpuTypeOK, Uploads
  <1>4. MpuTypeOK'
    BY <1>1, <1>2, <1>3 DEF MpuInv, MpuTypeOK
  <1>5. CompletionOK'
    <2>1. \A u \in Tries : partTask'[u].tmp => partTask[u].tmp
      BY <1>2
    <2> QED
      BY <1>1, <1>3, <1>4, <2>1, UploadsKeepCompletion
  <1>6. \A u \in Tries : TempInPlace(u)' /\ LockOfPast(u)'
    BY <1>1, <1>2 DEF MpuInv, AttemptsOK, TempInPlace, LockOfPast
  <1>7. PartLockExcludes'
    BY <1>1, <1>2 DEF MpuInv, AttemptsOK, PartLockExcludes
  <1>8. \A u \in Tries : u # t /\ u[1] = t[1] => u[2] # t[2]
    BY TryFacts
  <1>9. \A u \in Tries : PublishedBytes(u)'
    BY <1>1, <1>2, <1>3, <1>8, TryFacts DEF MpuInv, AttemptsOK, PublishedBytes
  <1>10. LateRecord'
    BY <1>1, <1>2, <1>3, <1>8, TryFacts DEF MpuInv, AttemptsOK, LateRecord
  <1>11. AttemptsKnown'
    <2>1. t = <<t[1], t[2]>> /\ t[1] \in MpuParts /\ t[2] # NoAttempt
      BY TryFacts
    <2>2. ASSUME NEW u \in Tries
          PROVE  /\ partTask[u].pc \notin {"idle", "sent"} => partTask'[u].pc \notin {"idle", "sent"}
                 /\ partTask[u].pc \in {"published", "done"} => partTask'[u].pc = partTask[u].pc
      BY <1>1, <1>2
    <2>3. ASSUME NEW p \in MpuParts, s3Upload'.parts[p] # NoAttempt
          PROVE  /\ <<p, s3Upload'.parts[p]>> \in Tries
                 /\ partTask'[<<p, s3Upload'.parts[p]>>].pc \notin {"idle", "sent"}
      <3>1. CASE p = t[1]
        BY <1>2, <1>3, <2>1, <3>1
      <3>2. CASE p # t[1]
        BY <1>3, <2>2, <2>3, <3>2 DEF MpuInv, AttemptsOK, AttemptsKnown
      <3> QED
        BY <3>1, <3>2
    <2> QED
      BY <1>1, <2>2, <2>3 DEF MpuInv, AttemptsOK, AttemptsKnown
  <1>12. ASSUME mpuMishaps' = {}, NEW p \in MpuParts PROVE RecordOfBytes(p)'
    <2>1. stage.rec[p] # NoAttempt => <<p, stage.rec[p]>> # t
      BY <1>1 DEF MpuInv, AttemptsOK, AttemptsKnown
    <2>2. RecordOfBytes(p)
      BY <1>1, <1>12 DEF MpuInv, AttemptsOK
    <2> QED
      BY <1>1, <1>2, <1>3, <2>1, <2>2, TryFacts DEF RecordOfBytes
  <1> QED
    BY <1>4, <1>5, <1>6, <1>7, <1>9, <1>10, <1>11, <1>12 DEF MpuInv, AttemptsOK

\* sink.finalize under the part's lock.  Another attempt that is about to be
\* recorded holds the lock of an earlier directory, and is not the one S3 has.
LEMMA PartPublishesKeeps == ASSUME MpuInv, NEW t \in Tries, PartPublishes(t) PROVE MpuInv'
  <1>1. CASE ~(partTask[t].tmp /\ stage.dir)
    <2> DEFINE q == [NoTask EXCEPT !.pc = "done"]
    <2>1. q \in PartTasks /\ q.pc = "done" /\ ~q.tmp
      BY DEF NoTask, PartTasks
    <2>2. /\ partTask' = [partTask EXCEPT ![t] = q] /\ partTask[t].pc = "locked"
          /\ UNCHANGED <<stage, s3Upload, finish, cachedAs, mpuMishaps>>
      BY <1>1 DEF PartPublishes, TaskAt
    <2> HIDE DEF q
    <2> QED
      BY <2>1, <2>2, TaskMoves DEF MayMove
  <1>2. CASE partTask[t].tmp /\ stage.dir
    <2>1. /\ partTask[t].pc = "locked" /\ UNCHANGED <<s3Upload, finish, cachedAs>>
          /\ partTask[t].lock = stage.gen
      BY <1>2 DEF PartPublishes, TaskAt, MpuInv, AttemptsOK, TempInPlace
    <2>2. /\ partTask' \in [Tries -> PartTasks]
          /\ partTask'[t].pc = "published" /\ ~partTask'[t].tmp
          /\ partTask'[t].lock = partTask[t].lock
          /\ \A u \in Tries : u # t => partTask'[u] = partTask[u]
      <3>1. partTask' = [partTask EXCEPT ![t].pc = "published", ![t].tmp = FALSE]
        BY <1>2 DEF PartPublishes
      <3> QED
        BY <3>1 DEF MpuInv, MpuTypeOK, PartTasks
    <2>3. /\ stage' \in Stages /\ stage'.gen = stage.gen /\ stage'.dir = stage.dir
          /\ stage'.rec = stage.rec /\ stage'.bin[t[1]] = t[2]
          /\ \A p \in MpuParts : p # t[1] => stage'.bin[p] = stage.bin[p]
      <3>1. stage' = [stage EXCEPT !.bin[t[1]] = t[2]]
        BY <1>2 DEF PartPublishes
      <3> QED
        BY <3>1, TryFacts DEF MpuInv, MpuTypeOK, Stages
    <2>4. /\ mpuMishaps' = {} => mpuMishaps = {}
          /\ mpuMishaps' = {} =>
                \A c \in Completers : Locking(finish[c]) => t[1] \notin DOMAIN finish[c].want
      BY <1>2 DEF PartPublishes, Finalizing, Locking
    <2>5. MpuTypeOK'
      BY <2>1, <2>2, <2>3 DEF MpuInv, MpuTypeOK
    <2>6. t = <<t[1], t[2]>> /\ \A u \in Tries : u # t /\ u[1] = t[1] => u[2] # t[2]
      BY TryFacts
    <2>7. CompletionOK'
      <3>1. \A u \in Tries : partTask'[u].tmp => partTask[u].tmp
        BY <2>2
      <3>2. ASSUME NEW p \in MpuParts
            PROVE  \/ stage'.bin[p] = stage.bin[p]
                   \/ /\ <<p, stage'.bin[p]>> \in Tries /\ partTask[<<p, stage'.bin[p]>>].tmp
                      /\ mpuMishaps' = {} => \A c \in Completers :
                            Locking(finish[c]) => p \notin DOMAIN finish[c].want
        BY <1>2, <2>3, <2>4, <2>6
      <3> QED
        BY <2>1, <2>3, <2>4, <2>5, <3>1, <3>2, UploadsKeepCompletion
    <2>8. \A u \in Tries : TempInPlace(u)' /\ LockOfPast(u)'
      BY <2>1, <2>2, <2>3 DEF MpuInv, AttemptsOK, TempInPlace, LockOfPast
    <2>9. PartLockExcludes'
      BY <2>1, <2>2 DEF MpuInv, AttemptsOK, PartLockExcludes
    <2>10. LateRecord'
      <3>1. \A n \in Nat : ~(n < n)
        OBVIOUS
      <3>2. stage.gen \in Nat
        BY DEF MpuInv, MpuTypeOK, Stages
      <3> QED
        BY <2>1, <2>2, <2>3, <3>1, <3>2 DEF MpuInv, AttemptsOK, LateRecord
    <2>11. AttemptsKnown'
      <3>1. ASSUME NEW u \in Tries
            PROVE  /\ partTask[u].pc \notin {"idle", "sent"} => partTask'[u].pc \notin {"idle", "sent"}
                   /\ partTask[u].pc \in {"published", "done"} => partTask'[u].pc = partTask[u].pc
        BY <2>1, <2>2
      <3>2. ASSUME NEW p \in MpuParts, stage'.bin[p] # NoAttempt
            PROVE  /\ <<p, stage'.bin[p]>> \in Tries
                   /\ partTask'[<<p, stage'.bin[p]>>].pc \in {"published", "done"}
        <4>1. CASE p = t[1]
          BY <2>2, <2>3, <2>6, <4>1
        <4>2. CASE p # t[1]
          BY <2>3, <3>1, <3>2, <4>2 DEF MpuInv, AttemptsOK, AttemptsKnown
        <4> QED
          BY <4>1, <4>2
      <3> QED
        BY <2>1, <2>3, <3>1, <3>2 DEF MpuInv, AttemptsOK, AttemptsKnown
    <2>12. ASSUME NEW u \in Tries PROVE PublishedBytes(u)'
      <3>1. CASE u = t
        BY <2>3, <3>1 DEF PublishedBytes
      <3>2. CASE u # t /\ u[1] # t[1]
        BY <2>1, <2>2, <2>3, <3>2, TryFacts DEF MpuInv, AttemptsOK, PublishedBytes
      <3>3. CASE u # t /\ u[1] = t[1] /\ partTask[u].pc = "published"
        <4>1. partTask[u].lock # partTask[t].lock /\ partTask[u].lock <= stage.gen
          BY <2>1, <3>3 DEF MpuInv, AttemptsOK, PartLockExcludes, LockOfPast
        <4>2. partTask[u].lock < stage.gen
          BY <2>1, <4>1 DEF MpuInv, MpuTypeOK, PartTasks, Stages
        <4>3. s3Upload.parts[u[1]] # u[2]
          BY <1>2, <2>1, <3>3, <4>2 DEF MpuInv, AttemptsOK, LateRecord
        <4> QED
          BY <2>1, <4>3 DEF PublishedBytes
      <3> QED
        BY <2>2, <3>1, <3>2, <3>3 DEF PublishedBytes
    <2>13. ASSUME mpuMishaps' = {}, NEW p \in MpuParts PROVE RecordOfBytes(p)'
      <3>1. RecordOfBytes(p)
        BY <2>4, <2>13 DEF MpuInv, AttemptsOK
      <3> QED
        BY <2>1, <2>2, <2>3, <3>1 DEF RecordOfBytes
    <2> QED
      BY <2>5, <2>7, <2>8, <2>9, <2>10, <2>11, <2>12, <2>13 DEF MpuInv, AttemptsOK
  <1> QED
    BY <1>1, <1>2

\* record_part_blocking: the record of the bytes that are in place, if they
\* are the ones S3 has; or the record is lost.
LEMMA PartRecordsKeeps == ASSUME MpuInv, NEW t \in Tries, PartRecords(t) PROVE MpuInv'
  <1>1. partTask[t].pc = "published" /\ UNCHANGED <<s3Upload, finish, cachedAs>>
    BY DEF PartRecords, TaskAt
  <1>2. /\ partTask' \in [Tries -> PartTasks]
        /\ partTask'[t].pc = "done" /\ ~partTask'[t].tmp
        /\ \A u \in Tries : u # t => partTask'[u] = partTask[u]
    BY RestingTypes DEF PartRecords, NoTask, MpuInv, MpuTypeOK, PartTasks
  <1>3. /\ stage' \in Stages /\ stage'.gen = stage.gen /\ (stage.dir => stage'.dir)
        /\ stage'.bin = stage.bin
        /\ \A p \in MpuParts : p # t[1] => stage'.rec[p] = stage.rec[p]
        /\ stage'.rec[t[1]] \in {t[2], stage.rec[t[1]]}
        /\ mpuMishaps' = {} => mpuMishaps = {} /\ stage'.rec[t[1]] = t[2]
    <2>1. CASE stage' = [stage EXCEPT !.rec[t[1]] = t[2]] /\ UNCHANGED mpuMishaps
      BY <2>1, TryFacts DEF MpuInv, MpuTypeOK, Stages
    <2>2. CASE UNCHANGED stage /\ mpuMishaps' = mpuMishaps \cup {"record lost"}
      BY <2>2 DEF MpuInv, MpuTypeOK
    <2> QED
      BY <2>1, <2>2 DEF PartRecords
  <1>4. MpuTypeOK'
    BY <1>1, <1>2, <1>3 DEF MpuInv, MpuTypeOK
  <1>5. CompletionOK'
    <2>1. \A u \in Tries : partTask'[u].tmp => partTask[u].tmp
      BY <1>2
    <2> QED
      BY <1>1, <1>3, <1>4, <2>1, UploadsKeepCompletion
  <1>6. \A u \in Tries : TempInPlace(u)' /\ LockOfPast(u)' /\ PublishedBytes(u)'
    BY <1>1, <1>2, <1>3 DEF MpuInv, AttemptsOK, TempInPlace, LockOfPast, PublishedBytes
  <1>7. PartLockExcludes' /\ LateRecord'
    BY <1>1, <1>2, <1>3 DEF MpuInv, AttemptsOK, PartLockExcludes, LateRecord
  <1>8. AttemptsKnown'
    <2>1. \A u \in Tries : partTask'[u].pc = partTask[u].pc \/ u = t
      BY <1>2
    <2>2. t = <<t[1], t[2]>>
      BY TryFacts
    <2>3. ASSUME NEW p \in MpuParts, stage'.rec[p] # NoAttempt
          PROVE  <<p, stage'.rec[p]>> \in Tries /\ partTask'[<<p, stage'.rec[p]>>].pc = "done"
      <3>1. CASE stage'.rec[p] = stage.rec[p]
        BY <1>2, <2>1, <2>3, <3>1 DEF MpuInv, AttemptsOK, AttemptsKnown
      <3>2. CASE p = t[1] /\ stage'.rec[p] = t[2]
        BY <1>2, <2>2, <3>2
      <3> QED
        BY <1>3, <3>1, <3>2
    <2>4. ASSUME NEW p \in MpuParts, stage.bin[p] # NoAttempt
          PROVE  /\ <<p, stage.bin[p]>> \in Tries
                 /\ partTask'[<<p, stage.bin[p]>>].pc \in {"published", "done"}
      BY <1>2, <2>1, <2>4 DEF MpuInv, AttemptsOK, AttemptsKnown
    <2>5. ASSUME NEW p \in MpuParts, s3Upload.parts[p] # NoAttempt
          PROVE  /\ <<p, s3Upload.parts[p]>> \in Tries
                 /\ partTask'[<<p, s3Upload.parts[p]>>].pc \notin {"idle", "sent"}
      BY <1>2, <2>1, <2>5 DEF MpuInv, AttemptsOK, AttemptsKnown
    <2> QED
      BY <1>1, <1>3, <2>3, <2>4, <2>5 DEF AttemptsKnown
  <1>9. ASSUME mpuMishaps' = {}, NEW p \in MpuParts PROVE RecordOfBytes(p)'
    <2>1. RecordOfBytes(p) /\ PublishedBytes(t)
      BY <1>3, <1>9 DEF MpuInv, AttemptsOK
    <2>2. CASE p = t[1]
      BY <1>1, <1>3, <1>9, <2>1, <2>2 DEF RecordOfBytes, PublishedBytes
    <2>3. CASE p # t[1]
      BY <1>1, <1>2, <1>3, <2>1, <2>3 DEF RecordOfBytes
    <2> QED
      BY <2>2, <2>3
  <1> QED
    BY <1>4, <1>5, <1>6, <1>7, <1>8, <1>9 DEF MpuInv, AttemptsOK

-----------------------------------------------------------------------------
(* The steps of a completion                                               *)

Ended == [NoFinish EXCEPT !.pc = "done"]

LEMMA EndedFacts ==
    /\ Ended \in Finishes /\ Ended.pc = "done"
    /\ Wanted(Ended) /\ InDirectory(Ended) /\ ~Locking(Ended)
    /\ LoadedOfBytes(Ended) /\ MovesWhatItCompared(Ended)
  <1>1. Ended \in Finishes /\ Ended.pc = "done"
    BY EmptyMap DEF Ended, NoFinish, Finishes
  <1> QED
    BY <1>1 DEF Wanted, InDirectory, Locking, LoadedOfBytes, MovesWhatItCompared

LEMMA Underway ==
    ASSUME MpuInv, NEW c \in Completers, finish[c].pc # "idle"
    PROVE  Completed
  BY DEF MpuInv, CompletionOK, ObjectAssembled

\* A finalization returns early and leaves everything as it is.
LEMMA ReturnsKeeps ==
    ASSUME MpuInv, NEW c \in Completers, finish[c].pc # "idle", Returned(c),
           UNCHANGED <<stage, partTask, s3Upload, cachedAs, mpuMishaps>>
    PROVE  MpuInv'
  <1>1. finish' = [finish EXCEPT ![c] = Ended]
    BY DEF Returned, Ended
  <1>2. mpuMishaps' = {} => PublishedAsAssembled'
    BY DEF MpuInv, CompletionOK, PublishedAsAssembled
  <1>3. cachedAs' \in CachedObjects
    BY DEF MpuInv, MpuTypeOK
  <1> QED
    BY <1>1, <1>2, <1>3, EndedFacts, Underway, FinishMoves

\* A finalization gives up or ends, and removes the directory.
LEMMA RemovesKeeps ==
    ASSUME MpuInv, NEW c \in Completers, Returned(c), RemoveStage,
           Locking(finish[c]) \/ finish[c].pc = "remove",
           UNCHANGED <<s3Upload, cachedAs, mpuMishaps>>
    PROVE  MpuInv'
  <1>1. finish' = [finish EXCEPT ![c] = Ended]
    BY DEF Returned, Ended
  <1>2. /\ finish'[c].pc = "done" /\ \A d \in Completers : d # c => finish'[d] = finish[d]
        /\ finish' \in [Completers -> Finishes]
    BY <1>1, EndedFacts DEF MpuInv, MpuTypeOK
  <1>3. ASSUME mpuMishaps' = {}, NEW d \in Completers, finish'[d].pc \in {"metalock", "move"},
               NEW p \in DOMAIN finish[d].want
        PROVE  stage.bin[p] # finish[d].want[p]
    <2>1. d # c /\ finish[d].pc \in {"metalock", "move"}
      BY <1>2, <1>3
    <2>2. finish[c].pc = "remove" => AllSpent
      BY <1>3 DEF MpuInv, CompletionOK, MovesWhatItCompared
    <2> QED
      BY <1>3, <2>1, <2>2, SoleMover
  <1>4. finish[c].pc # "idle"
    BY DEF Locking
  <1>5. s3Upload \in Uploads
    BY DEF MpuInv, MpuTypeOK
  <1>6. Completed' <=> Completed
    BY DEF Completed
  <1> QED
    BY <1>2, <1>3, <1>4, <1>5, <1>6, StageRemoved

LEMMA CompleteKeeps == ASSUME MpuInv, NEW c \in Completers, Complete(c) PROVE MpuInv'
  <1>1. PICK ps \in SUBSET {p \in MpuParts : s3Upload.parts[p] # NoAttempt} :
           /\ ps # {} /\ (Completed => ps = DOMAIN s3Upload.object)
           /\ s3Upload' = [s3Upload EXCEPT !.state = "completed",
                                           !.object = [p \in ps |-> s3Upload.parts[p]]]
           /\ \E want \in {[p \in ps |-> s3Upload.parts[p]], <<>>} :
                finish' = [finish EXCEPT ![c] = [NoFinish EXCEPT !.pc = "await", !.want = want]]
    BY DEF Complete, Completed
  <1>2. PICK request \in PartMaps : request = [p \in ps |-> s3Upload.parts[p]]
    <2>1. [p \in ps |-> s3Upload.parts[p]] \in [ps -> Nat]
      BY DEF MpuInv, MpuTypeOK, Uploads
    <2> QED
      BY <2>1 DEF PartMaps
  <1>3. PICK want \in {request, <<>>} :
           finish' = [finish EXCEPT ![c] = [NoFinish EXCEPT !.pc = "await", !.want = want]]
    BY <1>1, <1>2
  <1>4. PICK f \in Finishes : /\ finish' = [finish EXCEPT ![c] = f]
                              /\ f.pc = "await" /\ f.want \in {request, <<>>}
                              /\ f.seen = <<>> /\ f.moved = <<>>
    <2>1. [NoFinish EXCEPT !.pc = "await", !.want = want] \in Finishes
      BY <1>2, <1>3, EmptyMap, RestingTypes DEF Finishes
    <2>2. /\ [NoFinish EXCEPT !.pc = "await", !.want = want].pc = "await"
          /\ [NoFinish EXCEPT !.pc = "await", !.want = want].want = want
          /\ [NoFinish EXCEPT !.pc = "await", !.want = want].seen = <<>>
          /\ [NoFinish EXCEPT !.pc = "await", !.want = want].moved = <<>>
      BY DEF NoFinish
    <2> QED
      BY <1>3, <2>1, <2>2
  <1>5. /\ s3Upload' \in Uploads /\ s3Upload'.state = "completed" /\ s3Upload'.object = request
        /\ s3Upload'.parts = s3Upload.parts
    BY <1>1, <1>2 DEF MpuInv, MpuTypeOK, Uploads
  <1>6. UNCHANGED <<stage, partTask, cachedAs, mpuMishaps>> /\ cachedAs \in CachedObjects
    BY DEF Complete, MpuInv, MpuTypeOK
  <1>7. CASE Completed
    <2>1. request = s3Upload.object
      <3>1. DOMAIN request = DOMAIN s3Upload.object
        BY <1>1, <1>2, <1>7
      <3>2. \A p \in DOMAIN request : request[p] = s3Upload.object[p]
        BY <1>1, <1>2, <1>7 DEF MpuInv, CompletionOK, ObjectAssembled
      <3> QED
        BY <3>1, <3>2 DEF MpuInv, MpuTypeOK, Uploads, PartMaps
    <2>2. UNCHANGED s3Upload
      BY <1>1, <1>2, <1>7, <2>1 DEF Completed, MpuInv, MpuTypeOK, Uploads
    <2>3. /\ Wanted(f) /\ InDirectory(f) /\ ~Locking(f) /\ LoadedOfBytes(f)
          /\ MovesWhatItCompared(f)
      BY <1>4, <2>1, EmptyMap DEF Wanted, InDirectory, Locking, LoadedOfBytes, MovesWhatItCompared
    <2>4. mpuMishaps' = {} => PublishedAsAssembled'
      BY <1>6, <2>2 DEF MpuInv, CompletionOK, PublishedAsAssembled
    <2> QED
      BY <1>4, <1>6, <1>7, <2>2, <2>3, <2>4, FinishMoves
  <1>8. CASE ~Completed
    <2>1. /\ finish'[c] = f /\ \A d \in Completers : d # c => finish'[d] = finish[d]
          /\ finish' \in [Completers -> Finishes]
      BY <1>4 DEF MpuInv, MpuTypeOK
    <2>2. cachedAs.what # "new" /\ \A d \in Completers : finish[d].pc = "idle"
      BY <1>8 DEF MpuInv, CompletionOK, ObjectAssembled
    <2>3. \A d \in Completers : finish'[d].pc \in {"idle", "await"}
      BY <1>4, <2>1, <2>2
    <2>4. MpuTypeOK' /\ AttemptsOK'
      BY <1>5, <1>6, <2>1, CompletionKeepsAttempts DEF MpuInv, MpuTypeOK
    <2>5. ObjectAssembled'
      <3>1. DOMAIN request = ps /\ \A p \in ps : request[p] = s3Upload.parts[p]
        BY <1>2
      <3> QED
        BY <1>1, <1>5, <3>1 DEF ObjectAssembled, Completed
    <2>6. \A d \in Completers : Wanted(finish[d])'
      BY <1>4, <1>5, <2>1, <2>2, EmptyMap DEF Wanted
    <2>7. /\ UploadLockExcludes'
          /\ \A d \in Completers : LoadedOfBytes(finish[d])' /\ MovesWhatItCompared(finish[d])'
      BY <2>3 DEF UploadLockExcludes, InDirectory, Locking, LoadedOfBytes, MovesWhatItCompared
    <2>8. PublishedAsAssembled'
      BY <1>6, <2>2 DEF PublishedAsAssembled
    <2> QED
      BY <2>4, <2>5, <2>6, <2>7, <2>8 DEF MpuInv, CompletionOK
  <1> QED
    BY <1>7, <1>8

LEMMA CompleteUnreadKeeps ==
    ASSUME MpuInv, NEW c \in Completers, CompleteUnread(c) PROVE MpuInv'
  BY ReturnsKeeps DEF CompleteUnread

LEMMA FinalizeFailsKeeps ==
    ASSUME MpuInv, NEW c \in Completers, FinalizeFails(c) PROVE MpuInv'
  BY ReturnsKeeps DEF FinalizeFails

LEMMA FinalizeRemovesKeeps ==
    ASSUME MpuInv, NEW c \in Completers, FinalizeRemoves(c) PROVE MpuInv'
  BY RemovesKeeps DEF FinalizeRemoves

\* What FinishMoves asks for, when the cached object stays.
LEMMA CacheStays ==
    ASSUME MpuInv, UNCHANGED <<s3Upload, cachedAs>>, mpuMishaps' = {} => mpuMishaps = {}
    PROVE  /\ cachedAs' \in CachedObjects
           /\ mpuMishaps' = {} => PublishedAsAssembled'
  BY DEF MpuInv, MpuTypeOK, CompletionOK, PublishedAsAssembled

LEMMA FinalizeOpensLockKeeps ==
    ASSUME MpuInv, NEW c \in Completers, FinalizeOpensLock(c) PROVE MpuInv'
  <1>1. /\ finish[c].pc = "await" /\ UNCHANGED <<stage, partTask, s3Upload, cachedAs, mpuMishaps>>
        /\ finish[c] \in Finishes /\ stage.gen \in Nat /\ Wanted(finish[c])
    BY DEF FinalizeOpensLock, MpuInv, MpuTypeOK, Stages, CompletionOK
  <1>2. CASE stage.dir
    <2>1. [finish[c] EXCEPT !.pc = "opened", !.lock = stage.gen] \in Finishes
      BY <1>1 DEF Finishes
    <2>2. PICK f \in Finishes : f = [finish[c] EXCEPT !.pc = "opened", !.lock = stage.gen]
      BY <2>1
    <2>3. /\ f.pc = "opened" /\ f.lock = stage.gen /\ f.want = finish[c].want
          /\ f.seen = finish[c].seen /\ f.moved = finish[c].moved
          /\ finish' = [finish EXCEPT ![c] = f]
      BY <1>1, <1>2, <2>2 DEF FinalizeOpensLock, MpuInv, MpuTypeOK, Finishes
    <2>4. /\ Wanted(f) /\ InDirectory(f) /\ ~Locking(f) /\ LoadedOfBytes(f)
          /\ MovesWhatItCompared(f)
      BY <1>1, <1>2, <2>3 DEF Wanted, InDirectory, Locking, LoadedOfBytes, MovesWhatItCompared
    <2> QED
      BY <1>1, <2>3, <2>4, CacheStays, Underway, FinishMoves
  <1>3. CASE ~stage.dir
    BY <1>1, <1>3, ReturnsKeeps DEF FinalizeOpensLock
  <1> QED
    BY <1>2, <1>3

LEMMA FinalizeLocksKeeps ==
    ASSUME MpuInv, NEW c \in Completers, FinalizeLocks(c) PROVE MpuInv'
  <1>1. /\ finish[c].pc = "opened" /\ UNCHANGED <<stage, partTask, s3Upload, cachedAs, mpuMishaps>>
        /\ finish[c] \in Finishes /\ Wanted(finish[c])
    BY DEF FinalizeLocks, MpuInv, MpuTypeOK, CompletionOK
  <1>2. PICK f \in Finishes : f = [finish[c] EXCEPT !.pc = "load"]
    <2>1. [finish[c] EXCEPT !.pc = "load"] \in Finishes
      BY <1>1 DEF Finishes
    <2> QED
      BY <2>1
  <1>3. /\ f.pc = "load" /\ f.lock = finish[c].lock /\ f.want = finish[c].want
        /\ f.seen = finish[c].seen /\ f.moved = finish[c].moved
        /\ finish' = [finish EXCEPT ![c] = f]
    BY <1>1, <1>2 DEF FinalizeLocks, MpuInv, MpuTypeOK, Finishes
  <1>4. Wanted(f) /\ LoadedOfBytes(f) /\ MovesWhatItCompared(f)
    BY <1>1, <1>3 DEF Wanted, LoadedOfBytes, MovesWhatItCompared
  <1>5. ASSUME ~AllSpent
        PROVE  InDirectory(f) /\ \A d \in Completers : ~Locking(finish[d])
    <2>1. InDirectory(finish[c]) /\ \A d \in Completers : InDirectory(finish[d])
      BY <1>5 DEF MpuInv, CompletionOK, UploadLockExcludes
    <2> QED
      BY <1>1, <1>3, <2>1 DEF FinalizeLocks, UploadLocked, InDirectory, Locking
  <1> QED
    BY <1>1, <1>3, <1>4, <1>5, CacheStays, Underway, FinishMoves

\* load_tracker_blocking: a record read beside no task of its part stands for
\* the bytes in place if it is of the attempt that was asked for.
LEMMA LoadRecordKeeps ==
    ASSUME MpuInv, NEW c \in Completers, NEW p \in MpuParts, LoadRecord(c, p) PROVE MpuInv'
  <1>1. /\ finish[c].pc = "load" /\ UNCHANGED <<stage, partTask, s3Upload, cachedAs>>
        /\ finish[c] \in Finishes /\ Wanted(finish[c]) /\ p \notin DOMAIN finish[c].seen
        /\ stage.rec[p] \in Nat
    BY DEF LoadRecord, MpuInv, MpuTypeOK, CompletionOK, Stages
  <1>2. /\ mpuMishaps' = {} => mpuMishaps = {}
        /\ mpuMishaps' = {} => \A t \in Tries : t[1] = p => partTask[t].pc # "published"
    BY DEF LoadRecord, TaskAt
  <1>3. PICK seen \in PartMaps :
           seen = [q \in DOMAIN finish[c].seen \cup {p} |->
                      IF q = p THEN stage.rec[p] ELSE finish[c].seen[q]]
    <2>1. PICK ps \in SUBSET MpuParts : finish[c].seen \in [ps -> Nat]
      BY <1>1 DEF Finishes, PartMaps
    <2>2. [q \in DOMAIN finish[c].seen \cup {p} |->
              IF q = p THEN stage.rec[p] ELSE finish[c].seen[q]] \in [ps \cup {p} -> Nat]
      BY <1>1, <2>1
    <2>3. ps \cup {p} \in SUBSET MpuParts
      BY <2>1
    <2> QED
      BY <2>2, <2>3 DEF PartMaps
  <1>4. PICK f \in Finishes : f = [finish[c] EXCEPT !.seen = seen]
    <2>1. [finish[c] EXCEPT !.seen = seen] \in Finishes
      BY <1>1, <1>3 DEF Finishes
    <2> QED
      BY <2>1
  <1>5. /\ f.pc = "load" /\ f.lock = finish[c].lock /\ f.want = finish[c].want
        /\ f.seen = seen /\ f.moved = finish[c].moved
    BY <1>1, <1>4 DEF Finishes
  <1>6. finish' = [finish EXCEPT ![c] = f]
    BY <1>1, <1>3, <1>4 DEF LoadRecord, MpuInv, MpuTypeOK, Finishes
  <1>7. Wanted(f)
    BY <1>1, <1>5 DEF Wanted
  <1>8. ASSUME ~AllSpent
        PROVE  InDirectory(f) /\ \A d \in Completers : Locking(finish[d]) => c = d
    BY <1>1, <1>5, <1>8 DEF MpuInv, CompletionOK, UploadLockExcludes, InDirectory, Locking
  <1>9. ASSUME mpuMishaps' = {} PROVE LoadedOfBytes(f) /\ MovesWhatItCompared(f)
    <2>1. LoadedOfBytes(finish[c]) /\ MovesWhatItCompared(finish[c]) /\ RecordOfBytes(p)
      BY <1>2, <1>9 DEF MpuInv, CompletionOK, AttemptsOK
    <2>2. MovesWhatItCompared(f)
      BY <1>1, <1>5, <2>1 DEF MovesWhatItCompared
    <2>3. ASSUME NEW q \in DOMAIN seen \cap DOMAIN f.want, seen[q] = f.want[q]
          PROVE  stage.bin[q] \in {NoAttempt, f.want[q]}
      <3>1. CASE q # p
        <4>1. q \in DOMAIN finish[c].seen /\ seen[q] = finish[c].seen[q]
          BY <1>3, <2>3, <3>1
        <4> QED
          BY <1>1, <1>5, <2>1, <2>3, <4>1 DEF LoadedOfBytes
      <3>2. CASE q = p
        <4>1. seen[p] = stage.rec[p] /\ f.want = s3Upload.object
          BY <1>3, <1>5, <1>7, <2>3, <3>2 DEF Wanted
        <4>2. s3Upload.object[p] = s3Upload.parts[p] /\ s3Upload.object[p] # NoAttempt
          BY <1>1, <2>3, <3>2, <4>1, Underway, ObjectParts
        <4> QED
          BY <1>2, <1>9, <2>1, <2>3, <3>2, <4>1, <4>2 DEF RecordOfBytes
      <3> QED
        BY <3>1, <3>2
    <2>4. LoadedOfBytes(f)
      BY <1>5, <2>3 DEF LoadedOfBytes
    <2> QED
      BY <2>2, <2>4
  <1> QED
    BY <1>1, <1>2, <1>6, <1>7, <1>8, <1>9, CacheStays, Underway, FinishMoves

\* The checks before anything is moved: what passes them is in place.
LEMMA FinalizeChecksKeeps ==
    ASSUME MpuInv, NEW c \in Completers, FinalizeChecks(c) PROVE MpuInv'
  <1>1. /\ finish[c].pc = "load" /\ UNCHANGED <<s3Upload, cachedAs, mpuMishaps>>
        /\ finish[c] \in Finishes /\ DOMAIN finish[c].seen = MpuParts
        /\ DOMAIN finish[c].want \subseteq MpuParts
    BY DEF FinalizeChecks, MpuInv, MpuTypeOK, Finishes, PartMaps
  <1>2. CASE RemoveStage /\ Returned(c)
    BY <1>1, <1>2, RemovesKeeps DEF Locking
  <1>3. CASE Returned(c) /\ UNCHANGED <<stage, partTask>>
    BY <1>1, <1>3, ReturnsKeeps
  <1>4. CASE /\ \A p \in DOMAIN finish[c].want : stage.bin[p] # NoAttempt
             /\ EtagsAgree(c)
             /\ stage' = [stage EXCEPT !.bin = [p \in MpuParts |->
                            IF p \in Recorded(c) \ DOMAIN finish[c].want
                            THEN NoAttempt ELSE stage.bin[p]]]
             /\ finish' = [finish EXCEPT ![c].pc = "metalock"]
             /\ UNCHANGED partTask
    <2>1. PICK f \in Finishes : f = [finish[c] EXCEPT !.pc = "metalock"]
      <3>1. [finish[c] EXCEPT !.pc = "metalock"] \in Finishes
        BY <1>1 DEF Finishes
      <3> QED
        BY <3>1
    <2>2. /\ f.pc = "metalock" /\ f.lock = finish[c].lock /\ f.want = finish[c].want
          /\ f.moved = finish[c].moved /\ finish' = [finish EXCEPT ![c] = f]
      BY <1>1, <1>4, <2>1 DEF MpuInv, MpuTypeOK, Finishes
    <2>3. /\ stage' \in Stages /\ stage'.dir = stage.dir /\ stage'.gen = stage.gen
          /\ stage'.rec = stage.rec
          /\ \A p \in MpuParts : stage'.bin[p] \in {stage.bin[p], NoAttempt}
          /\ \A p \in DOMAIN finish[c].want : stage'.bin[p] = stage.bin[p]
      BY <1>1, <1>4 DEF MpuInv, MpuTypeOK, Stages, NoAttempt
    <2>4. ASSUME mpuMishaps = {} PROVE MovesWhatItCompared(f)'
      <3>1. LoadedOfBytes(finish[c]) /\ MovesWhatItCompared(finish[c])
        BY <2>4 DEF MpuInv, CompletionOK
      <3>2. DOMAIN f.moved = {}
        BY <1>1, <2>2, <3>1 DEF MovesWhatItCompared
      <3>3. ASSUME NEW p \in DOMAIN f.want PROVE stage'.bin[p] = f.want[p]
        BY <1>1, <1>4, <2>2, <2>3, <3>1, <3>3 DEF LoadedOfBytes, EtagsAgree
      <3> QED
        BY <2>2, <3>2, <3>3 DEF MovesWhatItCompared
    <2> QED
      BY <1>1, <1>4, <2>2, <2>3, <2>4, BytesLeave DEF Locking
  <1> QED
    BY <1>2, <1>3, <1>4 DEF FinalizeChecks

LEMMA FinalizeInvalidatesKeeps ==
    ASSUME MpuInv, NEW c \in Completers, FinalizeInvalidates(c) PROVE MpuInv'
  <1>1. /\ finish[c].pc = "metalock" /\ UNCHANGED <<s3Upload, mpuMishaps>>
        /\ finish[c] \in Finishes /\ Wanted(finish[c])
    BY DEF FinalizeInvalidates, MpuInv, MpuTypeOK, CompletionOK
  <1>2. CASE /\ cachedAs' = [what |-> "none", parts |-> <<>>]
             /\ finish' = [finish EXCEPT ![c].pc = "move"]
             /\ UNCHANGED <<stage, partTask>>
    <2>1. PICK f \in Finishes : f = [finish[c] EXCEPT !.pc = "move"]
      <3>1. [finish[c] EXCEPT !.pc = "move"] \in Finishes
        BY <1>1 DEF Finishes
      <3> QED
        BY <3>1
    <2>2. /\ f.pc = "move" /\ f.lock = finish[c].lock /\ f.want = finish[c].want
          /\ f.moved = finish[c].moved /\ finish' = [finish EXCEPT ![c] = f]
      BY <1>1, <1>2, <2>1 DEF MpuInv, MpuTypeOK, Finishes
    <2>3. Wanted(f) /\ LoadedOfBytes(f)
      BY <1>1, <2>2 DEF Wanted, LoadedOfBytes
    <2>4. mpuMishaps = {} => MovesWhatItCompared(f)
      BY <1>1, <2>2 DEF MpuInv, CompletionOK, MovesWhatItCompared
    <2>5. ASSUME ~AllSpent
          PROVE  InDirectory(f) /\ \A d \in Completers : Locking(finish[d]) => c = d
      BY <1>1, <2>2, <2>5 DEF MpuInv, CompletionOK, UploadLockExcludes, InDirectory, Locking
    <2>6. cachedAs' \in CachedObjects /\ PublishedAsAssembled'
      BY <1>2, EmptyMap DEF CachedObjects, PublishedAsAssembled
    <2> QED
      BY <1>1, <1>2, <2>2, <2>3, <2>4, <2>5, <2>6, Underway, FinishMoves
  <1>3. CASE RemoveStage /\ Returned(c) /\ UNCHANGED cachedAs
    BY <1>1, <1>3, RemovesKeeps DEF Locking
  <1> QED
    BY <1>2, <1>3 DEF FinalizeInvalidates

\* A part's bytes are renamed to the object's range file, once.
LEMMA FinalizeMovesKeeps ==
    ASSUME MpuInv, NEW c \in Completers, NEW p \in MpuParts, FinalizeMoves(c, p) PROVE MpuInv'
  <1>1. /\ finish[c].pc = "move" /\ UNCHANGED <<partTask, s3Upload, cachedAs, mpuMishaps>>
        /\ finish[c] \in Finishes /\ Wanted(finish[c])
        /\ p \in DOMAIN finish[c].want /\ p \notin DOMAIN finish[c].moved
        /\ stage.bin[p] \in Nat
    BY DEF FinalizeMoves, MpuInv, MpuTypeOK, CompletionOK, Stages
  <1>2. finish[c].want = s3Upload.object /\ Completed
    BY <1>1, Underway DEF Wanted
  <1>3. PICK moved \in PartMaps :
           moved = [q \in DOMAIN finish[c].moved \cup {p} |->
                       IF q = p THEN stage.bin[p] ELSE finish[c].moved[q]]
    <2>1. PICK ps \in SUBSET MpuParts : finish[c].moved \in [ps -> Nat]
      BY <1>1 DEF Finishes, PartMaps
    <2>2. [q \in DOMAIN finish[c].moved \cup {p} |->
              IF q = p THEN stage.bin[p] ELSE finish[c].moved[q]] \in [ps \cup {p} -> Nat]
      BY <1>1, <2>1
    <2>3. ps \cup {p} \in SUBSET MpuParts
      BY <2>1
    <2> QED
      BY <2>2, <2>3 DEF PartMaps
  <1>4. PICK f \in Finishes : f = [finish[c] EXCEPT !.moved = moved]
    <2>1. [finish[c] EXCEPT !.moved = moved] \in Finishes
      BY <1>1, <1>3 DEF Finishes
    <2> QED
      BY <2>1
  <1>5. /\ f.pc = "move" /\ f.lock = finish[c].lock /\ f.want = finish[c].want
        /\ f.moved = moved
    BY <1>1, <1>4 DEF Finishes
  <1>6. finish' = [finish EXCEPT ![c] = f]
    BY <1>1, <1>3, <1>4 DEF FinalizeMoves, MpuInv, MpuTypeOK, Finishes
  <1>7. /\ stage' \in Stages /\ stage'.dir = stage.dir /\ stage'.gen = stage.gen
        /\ stage'.rec = stage.rec /\ stage'.bin[p] = NoAttempt
        /\ \A q \in MpuParts : q # p => stage'.bin[q] = stage.bin[q]
    BY DEF FinalizeMoves, MpuInv, MpuTypeOK, Stages, NoAttempt
  <1>8. ASSUME mpuMishaps = {} PROVE MovesWhatItCompared(f)'
    <2>1. MovesWhatItCompared(finish[c]) /\ stage.bin[p] = s3Upload.object[p]
      BY <1>1, <1>2, <1>8 DEF MpuInv, CompletionOK, MovesWhatItCompared
    <2>2. Spent(p)'
      <3>1. s3Upload.object[p] # NoAttempt /\ <<p, s3Upload.object[p]>> \in Tries
        BY <1>1, <1>2, ObjectParts
      <3>2. partTask[<<p, stage.bin[p]>>].pc \in {"published", "done"}
        BY <2>1, <3>1 DEF MpuInv, AttemptsOK, AttemptsKnown
      <3>3. ~partTask[<<p, s3Upload.object[p]>>].tmp
        BY <2>1, <3>1, <3>2 DEF MpuInv, AttemptsOK, TempInPlace
      <3> QED
        BY <1>1, <1>7, <3>1, <3>3 DEF Spent
    <2>3. ASSUME NEW q \in DOMAIN f.want
          PROVE  /\ q \in DOMAIN moved => moved[q] = f.want[q] /\ Spent(q)'
                 /\ q \notin DOMAIN moved => stage'.bin[q] = f.want[q]
      <3>1. q \in MpuParts /\ q \in DOMAIN s3Upload.object
        BY <1>2, <1>5, <2>3, ObjectParts
      <3>2. CASE q = p
        BY <1>2, <1>3, <1>5, <2>1, <2>2, <3>2
      <3>3. CASE q # p /\ q \in DOMAIN finish[c].moved
        <4>1. finish[c].moved[q] = f.want[q] /\ Spent(q)
          BY <1>1, <1>5, <2>1, <2>3, <3>3 DEF MovesWhatItCompared
        <4>2. Spent(q)'
          BY <1>1, <1>2, <1>7, <3>1, <3>3, <4>1, SpentStays
        <4> QED
          BY <1>3, <3>3, <4>1, <4>2
      <3>4. CASE q # p /\ q \notin DOMAIN finish[c].moved
        BY <1>1, <1>3, <1>5, <1>7, <2>1, <2>3, <3>1, <3>4 DEF MovesWhatItCompared
      <3> QED
        BY <3>2, <3>3, <3>4
    <2> QED
      BY <1>5, <2>3 DEF MovesWhatItCompared
  <1> QED
    BY <1>1, <1>5, <1>6, <1>7, <1>8, BytesLeave DEF Locking

\* S3's ETag counts the parts: a body the proxy could not read, which asks for
\* none, is found out here, and .meta lists what was moved.
LEMMA FinalizePublishesKeeps ==
    ASSUME MpuInv, NEW c \in Completers, FinalizePublishes(c) PROVE MpuInv'
  <1>1. /\ finish[c].pc = "move" /\ UNCHANGED <<stage, partTask, s3Upload, mpuMishaps>>
        /\ finish[c] \in Finishes /\ Wanted(finish[c])
        /\ DOMAIN finish[c].moved = DOMAIN finish[c].want
    BY DEF FinalizePublishes, MpuInv, MpuTypeOK, CompletionOK
  <1>2. Completed
    BY <1>1, Underway
  <1>3. CASE Cardinality(DOMAIN s3Upload.object) = Cardinality(DOMAIN finish[c].want)
    <2>1. finish[c].want = s3Upload.object
      <3>1. DOMAIN s3Upload.object # {} /\ DOMAIN s3Upload.object \subseteq MpuParts
        BY <1>2 DEF MpuInv, CompletionOK, ObjectAssembled, MpuTypeOK, Uploads, PartMaps
      <3>2. IsFiniteSet(DOMAIN s3Upload.object)
        BY <3>1, MultipartAssumption, FS_Subset
      <3>3. Cardinality(DOMAIN s3Upload.object) # 0 /\ Cardinality({}) = 0
        BY <3>1, <3>2, FS_EmptySet
      <3>4. DOMAIN finish[c].want # {}
        BY <1>3, <3>3
      <3> QED
        BY <1>1, <3>4 DEF Wanted
    <2>2. PICK f \in Finishes : f = [NoFinish EXCEPT !.pc = "remove"]
      BY EmptyMap DEF NoFinish, Finishes
    <2>3. f.pc = "remove" /\ finish' = [finish EXCEPT ![c] = f]
      BY <1>3, <2>2 DEF FinalizePublishes, NoFinish
    <2>4. cachedAs' = [what |-> "new", parts |-> finish[c].moved]
      BY <1>3 DEF FinalizePublishes
    <2>5. cachedAs' \in CachedObjects
      BY <1>1, <2>4 DEF CachedObjects, Finishes
    <2>6. ASSUME mpuMishaps = {} PROVE AllSpent /\ finish[c].moved = s3Upload.object
      <3>1. \A p \in DOMAIN s3Upload.object : finish[c].moved[p] = s3Upload.object[p] /\ Spent(p)
        BY <1>1, <2>1, <2>6 DEF MpuInv, CompletionOK, MovesWhatItCompared
      <3>2. finish[c].moved = s3Upload.object
        BY <1>1, <2>1, <3>1 DEF MpuInv, MpuTypeOK, Uploads, Finishes, PartMaps
      <3> QED
        BY <1>2, <3>1, <3>2 DEF AllSpent
    <2>7. Wanted(f) /\ LoadedOfBytes(f) /\ InDirectory(f) /\ ~Locking(f)
      BY <2>3 DEF Wanted, LoadedOfBytes, InDirectory, Locking
    <2>8. mpuMishaps = {} => MovesWhatItCompared(f)
      BY <2>3, <2>6 DEF MovesWhatItCompared
    <2>9. mpuMishaps = {} => PublishedAsAssembled'
      BY <1>1, <2>4, <2>6 DEF PublishedAsAssembled
    <2> QED
      BY <1>1, <1>2, <2>3, <2>5, <2>7, <2>8, <2>9, FinishMoves
  <1>4. CASE Returned(c) /\ UNCHANGED cachedAs
    BY <1>1, <1>4, ReturnsKeeps
  <1> QED
    BY <1>3, <1>4 DEF FinalizePublishes

\* The directory is removed by an abort or by a starting proxy; beside a
\* finalization that is a mishap.
LEMMA StageRemovalKeeps ==
    ASSUME MpuInv, RemoveStage, NoteRemoval, UNCHANGED <<finish, cachedAs>>,
           s3Upload' \in Uploads, s3Upload'.parts = s3Upload.parts,
           s3Upload'.object = s3Upload.object, Completed' <=> Completed
    PROVE  MpuInv'
  <1>1. mpuMishaps' = {} => mpuMishaps = {} /\ \A c \in Completers : ~Locking(finish[c])
    BY DEF NoteRemoval, UnderFinalization, Finalizing, Locking
  <1>2. mpuMishaps' = {} => \A c \in Completers : finish'[c].pc \notin {"metalock", "move"}
    BY <1>1 DEF Locking
  <1>3. finish' \in [Completers -> Finishes] /\ \A c \in Completers : finish'[c] = finish[c]
    BY DEF MpuInv, MpuTypeOK
  <1> QED
    BY <1>1, <1>2, <1>3, StageRemoved

LEMMA AbortKeeps == ASSUME MpuInv, Abort PROVE MpuInv'
  <1>1. /\ s3Upload' \in Uploads /\ s3Upload'.parts = s3Upload.parts
        /\ s3Upload'.object = s3Upload.object /\ (Completed' <=> Completed)
    BY DEF Abort, MpuInv, MpuTypeOK, Uploads, Completed
  <1> QED
    BY <1>1, StageRemovalKeeps DEF Abort

LEMMA StageExpiresKeeps == ASSUME MpuInv, StageExpires PROVE MpuInv'
  <1>1. /\ s3Upload' \in Uploads /\ s3Upload'.parts = s3Upload.parts
        /\ s3Upload'.object = s3Upload.object /\ (Completed' <=> Completed)
    BY DEF StageExpires, MpuInv, MpuTypeOK, Completed
  <1> QED
    BY <1>1, StageRemovalKeeps DEF StageExpires

LEMMA MpuNextKeeps == ASSUME MpuInv, [MpuNext]_mpuVars PROVE MpuInv'
  <1>1. CASE CreateUpload
    BY <1>1, CreateUploadKeeps
  <1>2. ASSUME NEW t \in Tries,
               \/ UploadPart(t) \/ S3StoresPart(t) \/ PartDiscarded(t)
               \/ PartOpensLock(t) \/ PartLocks(t) \/ PartPublishes(t) \/ PartRecords(t)
        PROVE  MpuInv'
    BY <1>2, UploadPartKeeps, S3StoresPartKeeps, PartDiscardedKeeps, PartOpensLockKeeps,
        PartLocksKeeps, PartPublishesKeeps, PartRecordsKeeps
  <1>3. ASSUME NEW c \in Completers,
               \/ Complete(c) \/ CompleteUnread(c) \/ FinalizeOpensLock(c) \/ FinalizeLocks(c)
               \/ FinalizeChecks(c) \/ FinalizeInvalidates(c) \/ FinalizeFails(c)
               \/ FinalizePublishes(c) \/ FinalizeRemoves(c)
        PROVE  MpuInv'
    BY <1>3, CompleteKeeps, CompleteUnreadKeeps, FinalizeOpensLockKeeps, FinalizeLocksKeeps,
        FinalizeChecksKeeps, FinalizeInvalidatesKeeps, FinalizeFailsKeeps,
        FinalizePublishesKeeps, FinalizeRemovesKeeps
  <1>4. ASSUME NEW c \in Completers, NEW p \in MpuParts,
               LoadRecord(c, p) \/ FinalizeMoves(c, p)
        PROVE  MpuInv'
    BY <1>4, LoadRecordKeeps, FinalizeMovesKeeps
  <1>5. CASE Abort \/ StageExpires
    BY <1>5, AbortKeeps, StageExpiresKeeps
  <1>6. CASE UNCHANGED mpuVars
    BY <1>6 DEF mpuVars, MpuInv, MpuTypeOK, AttemptsOK, TempInPlace, LockOfPast, PublishedBytes,
        PartLockExcludes, AttemptsKnown, LateRecord, RecordOfBytes, CompletionOK, Completed,
        ObjectAssembled, UploadLockExcludes, AllSpent, Spent, InDirectory, Locking, Wanted,
        LoadedOfBytes, MovesWhatItCompared, PublishedAsAssembled
  <1> QED
    BY <1>1, <1>2, <1>3, <1>4, <1>5, <1>6 DEF MpuNext

\* What every step of the attempts, their cache tasks, S3, the finalizations and
\* the removals of the directory keeps: a record that S3 holds the attempt of
\* stands for the bytes beside it, and what a finalization compared is what it
\* moves, in one directory under one upload.lock until S3's bytes are gone.
THEOREM MpuInvariant == MpuSpec => []MpuInv
  <1>1. MpuInit => MpuInv
    BY MpuInitOK
  <1>2. MpuInv /\ [MpuNext]_mpuVars => MpuInv'
    BY MpuNextKeeps
  <1> QED
    BY <1>1, <1>2, PTL DEF MpuSpec

\* finalize_multipart_upload: what is published under S3's ETag is, part for part,
\* what S3 assembled, but for the mishaps named, for any number of attempts of a
\* part and of retried completions.
THEOREM PublishedExact == MpuSpec => []PublishedAsAssembled
  <1>1. MpuInv => PublishedAsAssembled
    BY DEF MpuInv, CompletionOK, PublishedAsAssembled
  <1> QED
    BY <1>1, MpuInvariant, PTL

-----------------------------------------------------------------------------
(***************************************************************************)
(* THE STAGING TIER                                                        *)
(***************************************************************************)

Metas == [ver : StagedPuts \cup {0}, wc : BOOLEAN, acct : BOOLEAN, born : Nat]
PutTasks == [pc : {"idle", "read", "removed", "stored", "done"}, old : Metas, born : Nat]
GradTasks == [pc : {"idle", "read", "stored", "done"}, copy : Metas,
              how : {"refresh", "backfill"}]
GradEntries == StageReaders \X StagedPuts
CycleTasks == [pc : {"idle", "locked", "written"}, copy : Metas,
               read : SUBSET GradEntries, debit : BOOLEAN]
LedgerEntries == [at : Nat, by : StagedPuts \cup {0}]
KeptFiles == [file : LedgerFiles, entries : SUBSET LedgerEntries]
PassTasks == [pc : {"idle", "verify", "evict", "unlink", "delete", "retire", "rewrite"},
              read : SUBSET LedgerEntries, copy : Metas, freed : BOOLEAN,
              retire : SUBSET LedgerEntries, left : SUBSET LedgerFiles,
              kept : KeptFiles \cup {{}}]

StagingTypeOK ==
    /\ smeta \in Metas /\ bins \subseteq StagedPuts /\ created \in Nat
    /\ put \in [StagedPuts -> PutTasks]
    /\ grad \in [StageReaders -> GradTasks] /\ grads \subseteq GradEntries
    /\ cycle \in CycleTasks
    /\ ledger \in [LedgerFiles -> SUBSET LedgerEntries]
    /\ pass \in [PassNames -> PassTasks]
    /\ \A p \in PassNames : pass[p].pc = "rewrite" => pass[p].kept \in KeptFiles
    /\ staged \in Int

\* A .meta, or a copy of one, is of a version whose PUT has stored it.
Known(m) ==
    IF m.ver = 0 THEN m = NoMeta ELSE put[m.ver].pc \in {"stored", "done"}
VersionsKnown ==
    /\ Known(smeta) /\ Known(cycle.copy)
    /\ \A v \in StagedPuts : Known(put[v].old)
    /\ \A p \in PassNames : Known(pass[p].copy)
    /\ \A r \in StageReaders :
        /\ Known(grad[r].copy)
        /\ grad[r].pc \in {"read", "stored"} => grad[r].copy.wc
    /\ \A e \in grads \cup cycle.read : put[e[2]].pc \in {"stored", "done"}
    /\ cycle.pc # "idle" => cycle.copy.ver # 0 /\ cycle.read # {}

\* Only a version that was stored can lose its range file.
OwnFiles == \A v \in StagedPuts : put[v].pc \in {"read", "removed"} => v \in bins
Unlinked == pass["evict"].pc = "delete" => pass["evict"].copy.ver \notin bins

\* Who has a Graduation entry is no longer staged.
GraduatedOnce ==
    /\ \A e \in grads \cup cycle.read : smeta.ver = e[2] => ~smeta.wc
    /\ \A r \in StageReaders :
        grad[r].pc = "stored" /\ smeta.ver = grad[r].copy.ver => ~smeta.wc

\* A version is staged first, then graduated, and its token is set once.
ReadEarlier ==
    \A v \in StagedPuts :
        put[v].old.ver = smeta.ver => /\ smeta.wc => put[v].old.wc
                                      /\ put[v].old.acct => smeta.acct

\* A staged version whose file is gone: somebody is replacing or evicting it.
EvictPending ==
    /\ pass["evict"].pc = "delete" /\ pass["evict"].freed
    /\ pass["evict"].copy.ver = smeta.ver
GoneForReason ==
    smeta.wc /\ smeta.ver \notin bins =>
        \/ EvictPending
        \/ \E v \in StagedPuts : put[v].pc = "removed" /\ put[v].old.ver = smeta.ver

\* The counter, with the credits that are due, covers the debit that is due and
\* the version that is still to be debited: it is staged, or it graduated and
\* its token is not set.
Credits == Cardinality({v \in StagedPuts : put[v].pc = "stored"})
DebitDue ==
    /\ cycle.pc = "written" /\ cycle.debit
    /\ \A e \in cycle.read : e[2] = cycle.copy.ver
Undebited ==
    \/ smeta.wc /\ (smeta.ver \in bins \/ EvictPending)
    \/ ~smeta.wc /\ ~smeta.acct /\ smeta.ver # 0
One(b) == IF b THEN 1 ELSE 0
Balanced == staged + Credits >= One(DebitDue) + One(Undebited)
Sound == tierMishaps = {} /\ ~WillLoseUpdate

StagingInv ==
    /\ StagingTypeOK /\ VersionsKnown /\ OwnFiles /\ Unlinked
    /\ tierMishaps = {} => GraduatedOnce /\ ReadEarlier /\ GoneForReason
    /\ Sound => Balanced

-----------------------------------------------------------------------------

LEMMA StagingTypes ==
    /\ NoMeta \in Metas /\ NoMeta.ver = 0 /\ ~NoMeta.wc /\ ~NoMeta.acct
    /\ IdlePut \in PutTasks /\ IdleGrad \in GradTasks /\ IdleCycle \in CycleTasks
    /\ IdlePass \in PassTasks
    /\ \A entries \in SUBSET LedgerEntries : Retiring(entries) \in PassTasks
  BY DEF NoMeta, IdlePut, IdleGrad, IdleCycle, IdlePass, Retiring, Metas, PutTasks, GradTasks,
      CycleTasks, PassTasks

LEMMA StagingInitOK == StagingInit => StagingInv
  <1> SUFFICES ASSUME StagingInit PROVE StagingInv
    OBVIOUS
  <1>1. StagingTypeOK
    BY StagingTypes DEF StagingInit, StagingTypeOK, IdlePass
  <1>2. /\ smeta = NoMeta /\ cycle.copy = NoMeta /\ cycle.read = {} /\ cycle.pc = "idle"
        /\ grads = {} /\ staged = 0
        /\ \A v \in StagedPuts : put[v].pc = "idle" /\ put[v].old = NoMeta
        /\ \A r \in StageReaders : grad[r].pc = "idle" /\ grad[r].copy = NoMeta
        /\ \A p \in PassNames : pass[p].copy = NoMeta /\ pass[p].pc = "idle"
    BY DEF StagingInit, IdleCycle, IdlePut, IdleGrad, IdlePass
  <1>3. "evict" \in PassNames
    BY DEF PassNames
  <1>4. VersionsKnown /\ OwnFiles /\ Unlinked
    BY <1>2, <1>3, StagingTypes DEF VersionsKnown, Known, OwnFiles, Unlinked
  <1>5. GraduatedOnce /\ ReadEarlier /\ GoneForReason
    BY <1>2, StagingTypes DEF GraduatedOnce, ReadEarlier, GoneForReason
  <1>6. Balanced
    <2>1. {v \in StagedPuts : put[v].pc = "stored"} = {}
      BY <1>2
    <2>2. Credits = 0
      BY <2>1, FS_EmptySet DEF Credits
    <2>3. ~DebitDue /\ ~Undebited
      BY <1>2, StagingTypes DEF DebitDue, Undebited
    <2> QED
      BY <1>2, <2>2, <2>3 DEF Balanced, One
  <1> QED
    BY <1>1, <1>4, <1>5, <1>6 DEF StagingInv

LEMMA CreditsCount ==
    /\ IsFiniteSet({v \in StagedPuts : put[v].pc = "stored"}) /\ Credits \in Nat
    /\ One(DebitDue) \in {0, 1} /\ One(Undebited) \in {0, 1}
  <1>1. IsFiniteSet({v \in StagedPuts : put[v].pc = "stored"})
    BY StagingAssumption, FS_Subset
  <1> QED
    BY <1>1, FS_CardinalityType DEF Credits, One

-----------------------------------------------------------------------------
(* Passes                                                                  *)

\* Steps that leave the object and its accounting alone; the eviction is not
\* between its unlink and its deletion of the .meta, or it stays there.
LEMMA PassFrame ==
    ASSUME StagingInv, StagingTypeOK',
           UNCHANGED <<smeta, bins, put, grad, grads, cycle, staged, tierMishaps>>,
           \A p \in PassNames : pass'[p].copy \in {pass[p].copy, NoMeta, smeta},
           \/ pass'["evict"] = pass["evict"]
           \/ pass["evict"].pc # "delete" /\ pass'["evict"].pc # "delete"
    PROVE  StagingInv'
  <1>1. VersionsKnown'
    BY StagingTypes DEF StagingInv, VersionsKnown, Known
  <1>2. OwnFiles' /\ Unlinked'
    BY DEF StagingInv, OwnFiles, Unlinked
  <1>3. EvictPending' <=> EvictPending
    BY DEF EvictPending
  <1>4. tierMishaps' = {} => GraduatedOnce' /\ ReadEarlier' /\ GoneForReason'
    BY <1>3 DEF StagingInv, GraduatedOnce, ReadEarlier, GoneForReason
  <1>5. Sound' => Balanced'
    BY <1>3 DEF StagingInv, Sound, WillLoseUpdate, Balanced, Credits, DebitDue, Undebited, One
  <1> QED
    BY <1>1, <1>2, <1>4, <1>5 DEF StagingInv

LEMMA LedgeredOK == ASSUME StagingTypeOK PROVE Ledgered \in SUBSET LedgerEntries
  BY DEF StagingTypeOK, Ledgered

\* Where a pass may get by itself.
LEMMA PassMoves ==
    ASSUME StagingInv, NEW p \in PassNames, NEW q \in PassTasks,
           pass' = [pass EXCEPT ![p] = q], pass[p].pc # "delete", q.pc # "delete",
           q.copy \in {pass[p].copy, NoMeta, smeta},
           q.pc = "rewrite" => q.kept \in KeptFiles,
           ledger' \in [LedgerFiles -> SUBSET LedgerEntries],
           UNCHANGED <<smeta, bins, created, put, grad, grads, cycle, staged, tierMishaps>>
    PROVE  StagingInv'
  <1>1. /\ pass'[p] = q /\ \A o \in PassNames : o # p => pass'[o] = pass[o]
        /\ pass' \in [PassNames -> PassTasks] /\ "evict" \in PassNames
    BY DEF StagingInv, StagingTypeOK, PassNames
  <1>2. StagingTypeOK'
    BY <1>1 DEF StagingInv, StagingTypeOK
  <1>3. \A o \in PassNames : pass'[o].copy \in {pass[o].copy, NoMeta, smeta}
    BY <1>1
  <1>4. \/ pass'["evict"] = pass["evict"]
        \/ pass["evict"].pc # "delete" /\ pass'["evict"].pc # "delete"
    BY <1>1
  <1> QED
    BY <1>2, <1>3, <1>4, PassFrame

LEMMA PassReadsKeeps == ASSUME StagingInv, NEW p \in PassNames, PassReads(p) PROVE StagingInv'
  <1>1. [IdlePass EXCEPT !.pc = "verify", !.read = Ledgered] \in PassTasks
    BY LedgeredOK, StagingTypes DEF StagingInv, PassTasks
  <1>2. PICK q \in PassTasks : q = [IdlePass EXCEPT !.pc = "verify", !.read = Ledgered]
    BY <1>1
  <1>3. q.pc = "verify" /\ q.copy = NoMeta
    BY <1>2 DEF IdlePass
  <1>4. ledger' \in [LedgerFiles -> SUBSET LedgerEntries] /\ pass[p].pc = "idle"
    BY DEF PassReads, StagingInv, StagingTypeOK
  <1> QED
    BY <1>2, <1>3, <1>4, PassMoves DEF PassReads

LEMMA RetiringFacts ==
    ASSUME NEW entries \in SUBSET LedgerEntries
    PROVE  /\ Retiring(entries) \in PassTasks
           /\ Retiring(entries).pc = "retire" /\ Retiring(entries).copy = NoMeta
  BY StagingTypes DEF Retiring, IdlePass

LEMMA PassVerifiesKeeps ==
    ASSUME StagingInv, NEW p \in PassNames, PassVerifies(p) PROVE StagingInv'
  <1>1. /\ pass[p] \in PassTasks /\ pass[p].read \in SUBSET LedgerEntries
        /\ pass[p].pc = "verify" /\ ledger' \in [LedgerFiles -> SUBSET LedgerEntries]
    BY DEF PassVerifies, StagingInv, StagingTypeOK, PassTasks
  <1>2. PICK q \in PassTasks :
           q = IF ~Evictable(pass[p].read) THEN Retiring(pass[p].read)
               ELSE IF p = "evict" THEN [pass[p] EXCEPT !.pc = "evict"] ELSE Retiring({})
    <2>1. Retiring(pass[p].read) \in PassTasks /\ Retiring({}) \in PassTasks
      BY <1>1, RetiringFacts
    <2>2. [pass[p] EXCEPT !.pc = "evict"] \in PassTasks
      BY <1>1 DEF PassTasks
    <2> QED
      BY <2>1, <2>2
  <1>3. q.pc \in {"retire", "evict"} /\ q.copy \in {NoMeta, pass[p].copy}
    <2>1. /\ Retiring(pass[p].read).pc = "retire" /\ Retiring(pass[p].read).copy = NoMeta
          /\ Retiring({}).pc = "retire" /\ Retiring({}).copy = NoMeta
      BY <1>1, RetiringFacts
    <2>2. /\ [pass[p] EXCEPT !.pc = "evict"].pc = "evict"
          /\ [pass[p] EXCEPT !.pc = "evict"].copy = pass[p].copy
      BY <1>1 DEF PassTasks
    <2> QED
      BY <1>2, <2>1, <2>2
  <1>4. pass' = [pass EXCEPT ![p] = q]
    BY <1>2 DEF PassVerifies, StagingInv, StagingTypeOK
  <1> QED
    BY <1>1, <1>3, <1>4, PassMoves DEF PassVerifies

LEMMA PassCannotReadKeeps ==
    ASSUME StagingInv, NEW p \in PassNames, PassCannotRead(p) PROVE StagingInv'
  <1>1. pass[p].pc = "verify" /\ ledger' \in [LedgerFiles -> SUBSET LedgerEntries]
    BY DEF PassCannotRead, StagingInv, StagingTypeOK
  <1>2. PICK q \in PassTasks : /\ q = IF p = "evict" THEN IdlePass ELSE Retiring({})
                               /\ q.pc \in {"idle", "retire"} /\ q.copy = NoMeta
    <2>1. /\ Retiring({}) \in PassTasks
          /\ Retiring({}).pc = "retire" /\ Retiring({}).copy = NoMeta
      BY RetiringFacts
    <2>2. IdlePass \in PassTasks /\ IdlePass.pc = "idle" /\ IdlePass.copy = NoMeta
      BY StagingTypes DEF IdlePass
    <2> QED
      BY <2>1, <2>2
  <1> QED
    BY <1>1, <1>2, PassMoves DEF PassCannotRead

LEMMA EvictReadsKeeps == ASSUME StagingInv, EvictReads PROVE StagingInv'
  <1>1. /\ pass["evict"] \in PassTasks /\ pass["evict"].pc = "evict" /\ "evict" \in PassNames
        /\ ledger' \in [LedgerFiles -> SUBSET LedgerEntries] /\ smeta \in Metas
    BY DEF EvictReads, StagingInv, StagingTypeOK, PassNames
  <1>2. CASE smeta.ver = 0
    <2>1. IdlePass \in PassTasks /\ IdlePass.pc = "idle" /\ IdlePass.copy = NoMeta
      BY StagingTypes DEF IdlePass
    <2> QED
      BY <1>1, <1>2, <2>1, PassMoves DEF EvictReads
  <1>3. CASE smeta.ver # 0
    <2>1. [pass["evict"] EXCEPT !.pc = "unlink", !.copy = smeta] \in PassTasks
      BY <1>1 DEF PassTasks
    <2>2. PICK q \in PassTasks : q = [pass["evict"] EXCEPT !.pc = "unlink", !.copy = smeta]
      BY <2>1
    <2>3. q.pc = "unlink" /\ q.copy = smeta /\ pass' = [pass EXCEPT !["evict"] = q]
      BY <1>1, <1>3, <2>2 DEF EvictReads, PassTasks, StagingInv, StagingTypeOK
    <2> QED
      BY <1>1, <2>3, PassMoves DEF EvictReads
  <1> QED
    BY <1>2, <1>3

LEMMA RetireReadsKeeps ==
    ASSUME StagingInv, NEW p \in PassNames, NEW f \in LedgerFiles, RetireReads(p, f)
    PROVE  StagingInv'
  <1>1. /\ pass[p] \in PassTasks /\ pass[p].pc = "retire"
        /\ ledger' \in [LedgerFiles -> SUBSET LedgerEntries] /\ ledger[f] \in SUBSET LedgerEntries
    BY DEF RetireReads, StagingInv, StagingTypeOK
  <1>2. PICK k \in KeptFiles : k = [file |-> f, entries |-> ledger[f] \ pass[p].retire]
    BY <1>1 DEF KeptFiles
  <1>3. PICK q \in PassTasks : q = [pass[p] EXCEPT !.pc = "rewrite", !.kept = k]
    <2>1. [pass[p] EXCEPT !.pc = "rewrite", !.kept = k] \in PassTasks
      BY <1>1, <1>2 DEF PassTasks
    <2> QED
      BY <2>1
  <1>4. q.pc = "rewrite" /\ q.copy = pass[p].copy /\ q.kept = k
    BY <1>1, <1>3 DEF PassTasks
  <1>5. pass' = [pass EXCEPT ![p] = q]
    BY <1>1, <1>2, <1>3 DEF RetireReads, PassTasks, StagingInv, StagingTypeOK
  <1> QED
    BY <1>1, <1>2, <1>4, <1>5, PassMoves DEF RetireReads

LEMMA RetireRewritesKeeps ==
    ASSUME StagingInv, NEW p \in PassNames, RetireRewrites(p) PROVE StagingInv'
  <1>1. pass[p] \in PassTasks /\ pass[p].pc = "rewrite" /\ pass[p].kept \in KeptFiles
    BY DEF RetireRewrites, StagingInv, StagingTypeOK
  <1>2. ledger' \in [LedgerFiles -> SUBSET LedgerEntries]
    BY <1>1 DEF RetireRewrites, StagingInv, StagingTypeOK, KeptFiles
  <1>3. PICK left \in SUBSET LedgerFiles : left = pass[p].left \ {pass[p].kept.file}
    BY <1>1 DEF PassTasks
  <1>4. PICK q \in PassTasks :
           /\ q = IF left = {} THEN IdlePass
                  ELSE [pass[p] EXCEPT !.pc = "retire", !.left = left, !.kept = {}]
           /\ q.pc \in {"idle", "retire"} /\ q.copy \in {NoMeta, pass[p].copy}
    <2>1. IdlePass \in PassTasks /\ IdlePass.pc = "idle" /\ IdlePass.copy = NoMeta
      BY StagingTypes DEF IdlePass
    <2>2. [pass[p] EXCEPT !.pc = "retire", !.left = left, !.kept = {}] \in PassTasks
      BY <1>1, <1>3 DEF PassTasks
    <2>3. /\ [pass[p] EXCEPT !.pc = "retire", !.left = left, !.kept = {}].pc = "retire"
          /\ [pass[p] EXCEPT !.pc = "retire", !.left = left, !.kept = {}].copy = pass[p].copy
      BY <1>1 DEF PassTasks
    <2> QED
      BY <2>1, <2>2, <2>3
  <1>5. pass' = [pass EXCEPT ![p] = q]
    BY <1>3, <1>4 DEF RetireRewrites, StagingInv, StagingTypeOK
  <1> QED
    BY <1>1, <1>2, <1>4, <1>5, PassMoves DEF RetireRewrites

LEMMA ScanReappendsKeeps ==
    ASSUME StagingInv, NEW f \in LedgerFiles, ScanReappends(f) PROVE StagingInv'
  <1>1. UNCHANGED <<smeta, bins, created, put, grad, grads, cycle, pass, staged, tierMishaps>>
    BY DEF ScanReappends
  <1>2. StagingTypeOK'
    BY <1>1 DEF ScanReappends, StagingInv, StagingTypeOK, LedgerEntries
  <1> QED
    BY <1>1, <1>2, PassFrame

-----------------------------------------------------------------------------
(* Graduation and consolidation                                            *)

\* Steps that leave the .meta, the range files and the counter alone.
LEMMA JournalFrame ==
    ASSUME StagingInv, StagingTypeOK', UNCHANGED <<smeta, bins, put, pass, staged, tierMishaps>>,
           Known(cycle.copy)', cycle'.pc # "idle" => cycle'.copy.ver # 0 /\ cycle'.read # {},
           \A r \in StageReaders :
               /\ Known(grad[r].copy)' /\ (grad'[r].pc \in {"read", "stored"} => grad'[r].copy.wc)
               /\ tierMishaps = {} =>
                     (grad'[r].pc = "stored" /\ smeta.ver = grad'[r].copy.ver => ~smeta.wc),
           \A e \in grads' \cup cycle'.read :
               /\ put[e[2]].pc \in {"stored", "done"}
               /\ tierMishaps = {} => (smeta.ver = e[2] => ~smeta.wc),
           DebitDue' => DebitDue
    PROVE  StagingInv'
  <1>1. VersionsKnown'
    BY DEF StagingInv, VersionsKnown, Known
  <1>2. OwnFiles' /\ Unlinked' /\ (EvictPending' <=> EvictPending)
    BY DEF StagingInv, OwnFiles, Unlinked, EvictPending
  <1>3. tierMishaps' = {} => GraduatedOnce' /\ ReadEarlier' /\ GoneForReason'
    BY <1>2 DEF StagingInv, GraduatedOnce, ReadEarlier, GoneForReason
  <1>4. Sound' => Balanced'
    <2>1. Sound' => Sound
      BY DEF Sound, WillLoseUpdate
    <2>2. Credits' = Credits /\ (Undebited' <=> Undebited)
      BY <1>2 DEF Credits, Undebited
    <2>3. staged \in Int
      BY DEF StagingInv, StagingTypeOK
    <2> QED
      BY <2>1, <2>2, <2>3, CreditsCount DEF StagingInv, Balanced, One
  <1> QED
    BY <1>1, <1>2, <1>3, <1>4 DEF StagingInv

LEMMA GradReadsKeeps ==
    ASSUME StagingInv, NEW r \in StageReaders, GradReads(r) PROVE StagingInv'
  <1>1. /\ smeta.wc /\ UNCHANGED <<smeta, bins, created, put, grads, cycle, ledger, pass, staged, tierMishaps>>
    BY DEF GradReads
  <1>2. PICK how \in {"refresh", "backfill"} :
           grad' = [grad EXCEPT ![r] = [pc |-> "read", copy |-> smeta, how |-> how]]
    BY DEF GradReads
  <1>3. /\ grad'[r].pc = "read" /\ grad'[r].copy = smeta /\ grad' \in [StageReaders -> GradTasks]
        /\ \A q \in StageReaders : q # r => grad'[q] = grad[q]
    BY <1>2 DEF StagingInv, StagingTypeOK, GradTasks
  <1>4. StagingTypeOK'
    BY <1>1, <1>3 DEF StagingInv, StagingTypeOK
  <1>5. DebitDue' <=> DebitDue
    BY <1>1 DEF DebitDue
  <1>6. \A q \in StageReaders :
           /\ Known(grad[q].copy)' /\ (grad'[q].pc \in {"read", "stored"} => grad'[q].copy.wc)
           /\ tierMishaps = {} =>
                 (grad'[q].pc = "stored" /\ smeta.ver = grad'[q].copy.ver => ~smeta.wc)
    BY <1>1, <1>3 DEF StagingInv, VersionsKnown, Known, GraduatedOnce
  <1>7. /\ Known(cycle.copy)' /\ (cycle'.pc # "idle" => cycle'.copy.ver # 0 /\ cycle'.read # {})
        /\ \A e \in grads' \cup cycle'.read :
             /\ put[e[2]].pc \in {"stored", "done"}
             /\ tierMishaps = {} => (smeta.ver = e[2] => ~smeta.wc)
    BY <1>1 DEF StagingInv, VersionsKnown, Known, GraduatedOnce
  <1> QED
    BY <1>1, <1>4, <1>5, <1>6, <1>7, JournalFrame

LEMMA GradJournalsKeeps ==
    ASSUME StagingInv, NEW r \in StageReaders, GradJournals(r) PROVE StagingInv'
  <1>1. /\ grad[r].pc = "stored"
        /\ UNCHANGED <<smeta, bins, created, put, cycle, ledger, pass, staged, tierMishaps>>
        /\ grads' \in {grads \cup {<<r, grad[r].copy.ver>>}, grads}
    BY DEF GradJournals
  <1>2. /\ grad'[r].pc = "done" /\ grad'[r].copy = NoMeta /\ grad' \in [StageReaders -> GradTasks]
        /\ \A q \in StageReaders : q # r => grad'[q] = grad[q]
    BY StagingTypes DEF GradJournals, IdleGrad, StagingInv, StagingTypeOK, GradTasks
  <1>3. grad[r].copy \in Metas /\ grad[r].copy.wc /\ Known(grad[r].copy)
    BY <1>1 DEF StagingInv, StagingTypeOK, GradTasks, VersionsKnown
  <1>4. grad[r].copy.ver \in StagedPuts /\ put[grad[r].copy.ver].pc \in {"stored", "done"}
    BY <1>3, StagingTypes DEF Known, Metas
  <1>5. StagingTypeOK'
    BY <1>1, <1>2, <1>4 DEF StagingInv, StagingTypeOK, GradEntries
  <1>6. DebitDue' <=> DebitDue
    BY <1>1 DEF DebitDue
  <1>7. \A q \in StageReaders :
           /\ Known(grad[q].copy)' /\ (grad'[q].pc \in {"read", "stored"} => grad'[q].copy.wc)
           /\ tierMishaps = {} =>
                 (grad'[q].pc = "stored" /\ smeta.ver = grad'[q].copy.ver => ~smeta.wc)
    BY <1>1, <1>2, StagingTypes DEF StagingInv, VersionsKnown, Known, GraduatedOnce
  <1>8. /\ Known(cycle.copy)' /\ (cycle'.pc # "idle" => cycle'.copy.ver # 0 /\ cycle'.read # {})
    BY <1>1 DEF StagingInv, VersionsKnown, Known
  <1>9. ASSUME NEW e \in grads' \cup cycle'.read
        PROVE  /\ put[e[2]].pc \in {"stored", "done"}
               /\ tierMishaps = {} => (smeta.ver = e[2] => ~smeta.wc)
    <2>1. CASE e \in grads \cup cycle.read
      BY <2>1 DEF StagingInv, VersionsKnown, GraduatedOnce
    <2>2. CASE e = <<r, grad[r].copy.ver>>
      BY <1>1, <1>4, <2>2 DEF StagingInv, GraduatedOnce
    <2> QED
      BY <1>1, <2>1, <2>2
  <1> QED
    BY <1>1, <1>5, <1>6, <1>7, <1>8, <1>9, JournalFrame

\* A step of the consolidation that writes nothing.
LEMMA CycleFrame ==
    ASSUME StagingInv, UNCHANGED <<smeta, bins, created, put, grad, ledger, pass, staged, tierMishaps>>,
           cycle' \in CycleTasks, cycle'.pc # "written", cycle'.copy \in {NoMeta, smeta},
           cycle'.pc # "idle" => cycle'.copy.ver # 0 /\ cycle'.read # {},
           grads' \subseteq grads, cycle'.read \subseteq grads
    PROVE  StagingInv'
  <1>1. StagingTypeOK'
    BY DEF StagingInv, StagingTypeOK
  <1>2. ~DebitDue'
    BY DEF DebitDue
  <1>3. \A q \in StageReaders :
           /\ Known(grad[q].copy)' /\ (grad'[q].pc \in {"read", "stored"} => grad'[q].copy.wc)
           /\ tierMishaps = {} =>
                 (grad'[q].pc = "stored" /\ smeta.ver = grad'[q].copy.ver => ~smeta.wc)
    BY DEF StagingInv, VersionsKnown, Known, GraduatedOnce
  <1>4. /\ Known(cycle.copy)'
        /\ \A e \in grads' \cup cycle'.read :
             /\ put[e[2]].pc \in {"stored", "done"}
             /\ tierMishaps = {} => (smeta.ver = e[2] => ~smeta.wc)
    BY StagingTypes DEF StagingInv, VersionsKnown, Known, GraduatedOnce
  <1> QED
    BY <1>1, <1>2, <1>3, <1>4, JournalFrame

LEMMA CycleReadsKeeps == ASSUME StagingInv, CycleReads PROVE StagingInv'
  <1>1. cycle' \in CycleTasks
    BY DEF CycleReads, CycleTasks, StagingInv, StagingTypeOK
  <1> QED
    BY <1>1, CycleFrame DEF CycleReads

LEMMA CycleFailsKeeps == ASSUME StagingInv, CycleFails PROVE StagingInv'
  <1>1. cycle' \in CycleTasks /\ cycle'.pc = "idle" /\ cycle'.copy = NoMeta /\ cycle'.read = {}
    BY StagingTypes DEF CycleFails, IdleCycle
  <1> QED
    BY <1>1, CycleFrame DEF CycleFails

LEMMA CycleDropsStaleKeeps == ASSUME StagingInv, CycleDropsStale PROVE StagingInv'
  <1>1. StagingTypeOK' /\ DebitDue' = DebitDue
    BY DEF CycleDropsStale, StagingInv, StagingTypeOK, DebitDue
  <1>2. \A q \in StageReaders :
           /\ Known(grad[q].copy)' /\ (grad'[q].pc \in {"read", "stored"} => grad'[q].copy.wc)
           /\ tierMishaps = {} =>
                 (grad'[q].pc = "stored" /\ smeta.ver = grad'[q].copy.ver => ~smeta.wc)
    BY DEF CycleDropsStale, StagingInv, VersionsKnown, Known, GraduatedOnce
  <1>3. /\ Known(cycle.copy)' /\ (cycle'.pc # "idle" => cycle'.copy.ver # 0 /\ cycle'.read # {})
        /\ \A e \in grads' \cup cycle'.read :
             /\ put[e[2]].pc \in {"stored", "done"}
             /\ tierMishaps = {} => (smeta.ver = e[2] => ~smeta.wc)
    BY DEF CycleDropsStale, StagingInv, VersionsKnown, Known, GraduatedOnce
  <1> QED
    BY <1>1, <1>2, <1>3, JournalFrame DEF CycleDropsStale

\* The debit of the cycle was due, unless its token was another version's.
LEMMA CycleSettlesKeeps == ASSUME StagingInv, CycleSettles PROVE StagingInv'
  <1>1. /\ cycle.pc = "written" /\ cycle' = IdleCycle /\ grads' \subseteq grads
        /\ UNCHANGED <<smeta, bins, created, put, grad, ledger, pass>>
        /\ tierMishaps' = {} => tierMishaps = {} /\ \A e \in cycle.read : e[2] = cycle.copy.ver
        /\ staged' = IF cycle.debit THEN staged - 1 ELSE staged
    BY DEF CycleSettles, Debit
  <1>2. cycle' \in CycleTasks /\ cycle'.pc = "idle" /\ cycle'.copy = NoMeta /\ cycle'.read = {}
    BY <1>1, StagingTypes DEF IdleCycle
  <1>3. StagingTypeOK'
    BY <1>1, <1>2 DEF StagingInv, StagingTypeOK
  <1>4. VersionsKnown'
    BY <1>1, <1>2, StagingTypes DEF StagingInv, VersionsKnown, Known
  <1>5. OwnFiles' /\ Unlinked' /\ (EvictPending' <=> EvictPending)
    BY <1>1 DEF StagingInv, OwnFiles, Unlinked, EvictPending
  <1>6. tierMishaps' = {} => GraduatedOnce' /\ ReadEarlier' /\ GoneForReason'
    BY <1>1, <1>2, <1>5 DEF StagingInv, GraduatedOnce, ReadEarlier, GoneForReason
  <1>7. ASSUME Sound' PROVE Balanced'
    <2>1. Sound /\ (cycle.debit => DebitDue) /\ ~DebitDue'
      BY <1>1, <1>2, <1>7 DEF Sound, WillLoseUpdate, DebitDue
    <2>2. Credits' = Credits /\ (Undebited' <=> Undebited)
      BY <1>1, <1>5 DEF Credits, Undebited
    <2>3. staged \in Int /\ cycle.debit \in BOOLEAN
      BY DEF StagingInv, StagingTypeOK, CycleTasks
    <2> QED
      BY <1>1, <2>1, <2>2, <2>3, CreditsCount DEF StagingInv, Balanced, One
  <1> QED
    BY <1>3, <1>4, <1>5, <1>6, <1>7 DEF StagingInv

LEMMA ReplacesFacts ==
    ASSUME NEW copy, Replaces(copy)
    PROVE  tierMishaps' = {} => tierMishaps = {} /\ smeta = copy
  BY DEF Replaces

\* A version graduates.  If its range file is gone a PUT has debited it, which
\* will store its .meta over this one; otherwise the debit of the token is open.
LEMMA GradStoresKeeps ==
    ASSUME StagingInv, NEW r \in StageReaders, GradStores(r) PROVE StagingInv'
  <1>1. /\ grad[r].pc = "read"
        /\ UNCHANGED <<bins, created, put, grads, cycle, ledger, pass, staged>>
        /\ grad[r].copy \in Metas /\ grad[r].copy.wc /\ Known(grad[r].copy)
    BY DEF GradStores, StagingInv, StagingTypeOK, GradTasks, VersionsKnown
  <1>2. CASE /\ grad' = [grad EXCEPT ![r] = [IdleGrad EXCEPT !.pc = "done"]]
             /\ UNCHANGED <<smeta, tierMishaps>>
    <2>1. /\ grad'[r].pc = "done" /\ grad'[r].copy = NoMeta /\ grad' \in [StageReaders -> GradTasks]
          /\ \A q \in StageReaders : q # r => grad'[q] = grad[q]
      BY <1>2, StagingTypes DEF IdleGrad, StagingInv, StagingTypeOK, GradTasks
    <2>2. StagingTypeOK' /\ DebitDue' = DebitDue
      BY <1>1, <1>2, <2>1 DEF StagingInv, StagingTypeOK, DebitDue
    <2>3. \A q \in StageReaders :
             /\ Known(grad[q].copy)' /\ (grad'[q].pc \in {"read", "stored"} => grad'[q].copy.wc)
             /\ tierMishaps = {} =>
                   (grad'[q].pc = "stored" /\ smeta.ver = grad'[q].copy.ver => ~smeta.wc)
      BY <1>1, <1>2, <2>1, StagingTypes DEF StagingInv, VersionsKnown, Known, GraduatedOnce
    <2>4. /\ Known(cycle.copy)' /\ (cycle'.pc # "idle" => cycle'.copy.ver # 0 /\ cycle'.read # {})
          /\ \A e \in grads' \cup cycle'.read :
               /\ put[e[2]].pc \in {"stored", "done"}
               /\ tierMishaps = {} => (smeta.ver = e[2] => ~smeta.wc)
      BY <1>1, <1>2 DEF StagingInv, VersionsKnown, Known, GraduatedOnce
    <2> QED
      BY <1>1, <1>2, <2>2, <2>3, <2>4, JournalFrame
  <1>3. CASE /\ smeta' = [grad[r].copy EXCEPT !.wc = FALSE]
             /\ grad' = [grad EXCEPT ![r].pc = "stored"] /\ Replaces(grad[r].copy)
    <2>1. /\ smeta' \in Metas /\ ~smeta'.wc /\ smeta'.ver = grad[r].copy.ver
          /\ smeta'.acct = grad[r].copy.acct
      BY <1>1, <1>3 DEF Metas
    <2>2. /\ grad' \in [StageReaders -> GradTasks]
          /\ grad'[r].pc = "stored" /\ grad'[r].copy = grad[r].copy
          /\ \A q \in StageReaders : q # r => grad'[q] = grad[q]
      BY <1>3 DEF StagingInv, StagingTypeOK, GradTasks
    <2>3. StagingTypeOK'
      BY <1>1, <2>1, <2>2 DEF StagingInv, StagingTypeOK
    <2>4. grad[r].copy.ver # 0
      BY <1>1, StagingTypes DEF Known
    <2>5. VersionsKnown'
      <3>1. Known(smeta)'
        BY <1>1, <2>1, <2>4 DEF Known
      <3>2. \A q \in StageReaders :
              Known(grad[q].copy)' /\ (grad'[q].pc \in {"read", "stored"} => grad'[q].copy.wc)
        BY <1>1, <2>2 DEF StagingInv, VersionsKnown, Known
      <3> QED
        BY <1>1, <3>1, <3>2 DEF StagingInv, VersionsKnown, Known
    <2>6. OwnFiles' /\ Unlinked'
      BY <1>1 DEF StagingInv, OwnFiles, Unlinked
    <2>7. tierMishaps' = {} => tierMishaps = {} /\ smeta = grad[r].copy
      BY <1>3, ReplacesFacts
    <2>8. tierMishaps' = {} => GraduatedOnce' /\ ReadEarlier' /\ GoneForReason'
      BY <1>1, <2>1, <2>7 DEF StagingInv, GraduatedOnce, ReadEarlier, GoneForReason
    <2>9. ASSUME Sound' PROVE Balanced'
      <3>1. tierMishaps = {} /\ smeta = grad[r].copy
        BY <2>7, <2>9 DEF Sound
      <3>2. \A v \in StagedPuts : put[v].pc = "removed" => ~put[v].old.wc
        BY <1>1, <2>1, <2>9 DEF Sound, WillLoseUpdate
      <3>3. Sound
        BY <3>1, <3>2 DEF Sound, WillLoseUpdate
      <3>4. Undebited
        BY <1>1, <3>1, <3>2 DEF StagingInv, GoneForReason, ReadEarlier, Undebited
      <3>5. Credits' = Credits /\ DebitDue' = DebitDue /\ staged \in Int
        BY <1>1 DEF Credits, DebitDue, StagingInv, StagingTypeOK
      <3> QED
        BY <1>1, <3>3, <3>4, <3>5, CreditsCount DEF StagingInv, Balanced, One
    <2> QED
      BY <2>3, <2>5, <2>6, <2>8, <2>9 DEF StagingInv
  <1> QED
    BY <1>2, <1>3 DEF GradStores

\* The token of the version is set, and the debit is the cycle's.
LEMMA CycleWritesKeeps == ASSUME StagingInv, CycleWrites PROVE StagingInv'
  <1>1. /\ cycle.pc = "locked" /\ Replaces(cycle.copy)
        /\ UNCHANGED <<bins, created, put, grad, grads, ledger, pass, staged>>
        /\ cycle \in CycleTasks /\ cycle.copy \in Metas
        /\ cycle.copy.ver # 0 /\ cycle.read # {} /\ Known(cycle.copy)
    BY DEF CycleWrites, StagingInv, StagingTypeOK, CycleTasks, VersionsKnown
  <1>2. /\ smeta' \in Metas /\ smeta'.ver = cycle.copy.ver /\ smeta'.wc = cycle.copy.wc
        /\ smeta'.acct
    BY <1>1 DEF CycleWrites, Metas
  <1>3. /\ cycle' \in CycleTasks /\ cycle'.pc = "written" /\ cycle'.copy = cycle.copy
        /\ cycle'.read = cycle.read /\ cycle'.debit = ~cycle.copy.acct
    BY <1>1 DEF CycleWrites, Chargeable, CycleTasks, Metas
  <1>4. StagingTypeOK'
    BY <1>1, <1>2, <1>3 DEF StagingInv, StagingTypeOK
  <1>5. VersionsKnown'
    <2>1. Known(smeta)' /\ Known(cycle.copy)'
      BY <1>1, <1>2, <1>3 DEF Known
    <2> QED
      BY <1>1, <1>3, <2>1 DEF StagingInv, VersionsKnown, Known
  <1>6. OwnFiles' /\ Unlinked'
    BY <1>1 DEF StagingInv, OwnFiles, Unlinked
  <1>7. tierMishaps' = {} => tierMishaps = {} /\ smeta = cycle.copy
    BY <1>1, ReplacesFacts
  <1>8. ASSUME tierMishaps' = {} PROVE EvictPending' <=> EvictPending
    BY <1>1, <1>2, <1>7, <1>8 DEF EvictPending
  <1>9. tierMishaps' = {} => GraduatedOnce' /\ ReadEarlier' /\ GoneForReason'
    BY <1>1, <1>2, <1>3, <1>7, <1>8 DEF StagingInv, GraduatedOnce, ReadEarlier, GoneForReason
  <1>10. ASSUME Sound' PROVE Balanced'
    <2>1. tierMishaps = {} /\ smeta = cycle.copy /\ (EvictPending' <=> EvictPending)
      BY <1>7, <1>8, <1>10 DEF Sound
    <2>2. ASSUME NEW v \in StagedPuts, put[v].pc = "removed", put[v].old.wc
          PROVE  put[v].old = smeta
      <3>1. put[v].old = smeta'
        BY <1>1, <1>10, <2>2 DEF Sound, WillLoseUpdate
      <3>2. smeta.acct
        BY <1>2, <2>1, <3>1 DEF StagingInv, ReadEarlier
      <3>3. smeta' = smeta
        BY <1>1, <2>1, <3>2 DEF CycleWrites, Metas
      <3> QED
        BY <3>1, <3>3
    <2>3. Sound
      BY <2>1, <2>2 DEF Sound, WillLoseUpdate
    <2>4. DebitDue' => ~cycle.copy.acct /\ ~cycle.copy.wc
      BY <1>1, <1>3, <2>1 DEF DebitDue, StagingInv, GraduatedOnce
    <2>5. ~DebitDue /\ (Undebited' => Undebited /\ cycle.copy.wc) /\ (DebitDue' => Undebited)
      BY <1>1, <1>2, <2>1, <2>4 DEF DebitDue, Undebited
    <2>6. Credits' = Credits /\ staged \in Int /\ staged' = staged
      BY <1>1 DEF Credits, StagingInv, StagingTypeOK
    <2> QED
      BY <2>3, <2>4, <2>5, <2>6, CreditsCount DEF StagingInv, Balanced, One
  <1> QED
    BY <1>4, <1>5, <1>6, <1>9, <1>10 DEF StagingInv

-----------------------------------------------------------------------------
(* Eviction                                                                *)

LEMMA EvictUnlinksKeeps == ASSUME StagingInv, EvictUnlinks PROVE StagingInv'
  <1>1. /\ pass["evict"].pc = "unlink" /\ bins' = bins \ {pass["evict"].copy.ver}
        /\ UNCHANGED <<smeta, created, put, grad, grads, cycle, ledger, staged, tierMishaps>>
        /\ pass["evict"] \in PassTasks /\ "evict" \in PassNames /\ Known(pass["evict"].copy)
    BY DEF EvictUnlinks, StagingInv, StagingTypeOK, PassNames, VersionsKnown
  <1>2. /\ pass' \in [PassNames -> PassTasks] /\ pass'["evict"].pc = "delete"
        /\ pass'["evict"].copy = pass["evict"].copy
        /\ pass'["evict"].freed = (pass["evict"].copy.ver \in bins)
        /\ \A p \in PassNames : p # "evict" => pass'[p] = pass[p]
    <2>1. PICK gone \in BOOLEAN : gone = (pass["evict"].copy.ver \in bins)
      <3>1. (pass["evict"].copy.ver \in bins) \in BOOLEAN
        OBVIOUS
      <3> QED
        BY <3>1, Zenon
    <2>2. PICK q \in PassTasks : q = [pass["evict"] EXCEPT !.pc = "delete", !.freed = gone]
      <3>1. [pass["evict"] EXCEPT !.pc = "delete", !.freed = gone] \in PassTasks
        BY <1>1, <2>1 DEF PassTasks
      <3> QED
        BY <3>1
    <2>3. q.pc = "delete" /\ q.copy = pass["evict"].copy /\ q.freed = gone
      BY <1>1, <2>2 DEF PassTasks
    <2>4. pass' = [pass EXCEPT !["evict"] = q]
      BY <1>1, <2>1, <2>2 DEF EvictUnlinks, StagingInv, StagingTypeOK
    <2> QED
      BY <1>1, <2>1, <2>3, <2>4 DEF StagingInv, StagingTypeOK
  <1>3. StagingTypeOK'
    BY <1>1, <1>2 DEF StagingInv, StagingTypeOK
  <1>4. VersionsKnown'
    BY <1>1, <1>2 DEF StagingInv, VersionsKnown, Known
  <1>5. OwnFiles' /\ Unlinked'
    <2>1. ASSUME NEW v \in StagedPuts, put[v].pc \in {"read", "removed"}
          PROVE  v # pass["evict"].copy.ver
      BY <1>1, <2>1, StagingAssumption DEF Known
    <2> QED
      BY <1>1, <1>2, <2>1 DEF StagingInv, OwnFiles, Unlinked
  <1>6. tierMishaps' = {} => GraduatedOnce' /\ ReadEarlier' /\ GoneForReason'
    BY <1>1, <1>2 DEF StagingInv, GraduatedOnce, ReadEarlier, GoneForReason, EvictPending
  <1>7. ASSUME Sound' PROVE Balanced'
    <2>1. Sound /\ Credits' = Credits /\ DebitDue' = DebitDue
      BY <1>1, <1>7 DEF Sound, WillLoseUpdate, Credits, DebitDue
    <2>2. Undebited' => Undebited
      BY <1>1, <1>2 DEF Undebited, EvictPending
    <2>3. staged \in Int
      BY DEF StagingInv, StagingTypeOK
    <2> QED
      BY <1>1, <2>1, <2>2, <2>3, CreditsCount DEF StagingInv, Balanced, One
  <1> QED
    BY <1>3, <1>4, <1>5, <1>6, <1>7 DEF StagingInv

\* The version that is debited is the one that was staged.
LEMMA EvictDeletesMetaKeeps == ASSUME StagingInv, EvictDeletesMeta PROVE StagingInv'
  <1> DEFINE copy == pass["evict"].copy
             freed == pass["evict"].freed
  <1>1. /\ pass["evict"].pc = "delete" /\ smeta' = NoMeta /\ Replaces(copy)
        /\ staged' = IF copy.wc /\ freed THEN staged - 1 ELSE staged
        /\ UNCHANGED <<bins, created, put, grad, grads, cycle, ledger>>
        /\ pass["evict"] \in PassTasks /\ "evict" \in PassNames
    BY DEF EvictDeletesMeta, Debit, StagingInv, StagingTypeOK, PassNames
  <1>2. /\ pass' \in [PassNames -> PassTasks] /\ pass'["evict"].pc = "retire"
        /\ pass'["evict"].copy = NoMeta
        /\ \A p \in PassNames : p # "evict" => pass'[p] = pass[p]
    <2>1. pass["evict"].read \in SUBSET LedgerEntries
      BY <1>1 DEF PassTasks
    <2>2. pass' = [pass EXCEPT !["evict"] = Retiring(pass["evict"].read)]
      BY DEF EvictDeletesMeta
    <2> QED
      BY <1>1, <2>1, <2>2, RetiringFacts DEF StagingInv, StagingTypeOK
  <1>3. StagingTypeOK'
    BY <1>1, <1>2, StagingTypes DEF StagingInv, StagingTypeOK
  <1>4. VersionsKnown'
    BY <1>1, <1>2, StagingTypes DEF StagingInv, VersionsKnown, Known
  <1>5. OwnFiles' /\ Unlinked'
    BY <1>1, <1>2 DEF StagingInv, OwnFiles, Unlinked
  <1>6. tierMishaps' = {} => tierMishaps = {} /\ smeta = copy
    BY <1>1, ReplacesFacts
  <1>7. tierMishaps' = {} => GraduatedOnce' /\ ReadEarlier' /\ GoneForReason'
    <2>1. \A v \in StagedPuts : put[v].old.ver = 0 => ~put[v].old.acct
      BY StagingTypes DEF StagingInv, VersionsKnown, Known
    <2> QED
      BY <1>1, <2>1, StagingTypes DEF GraduatedOnce, ReadEarlier, GoneForReason
  <1>8. ASSUME Sound' PROVE Balanced'
    <2>1. tierMishaps = {} /\ smeta = copy
      BY <1>6, <1>8 DEF Sound
    <2>2. \A v \in StagedPuts : put[v].pc = "removed" => ~put[v].old.wc
      BY <1>1, <1>8, StagingTypes DEF Sound, WillLoseUpdate
    <2>3. Sound
      BY <2>1, <2>2 DEF Sound, WillLoseUpdate
    <2>4. ~Undebited' /\ Credits' = Credits /\ DebitDue' = DebitDue
      BY <1>1, StagingTypes DEF Undebited, Credits, DebitDue
    <2>5. copy.wc /\ freed => Undebited
      BY <1>1, <2>1 DEF Undebited, EvictPending
    <2>6. staged \in Int
      BY DEF StagingInv, StagingTypeOK
    <2>7. staged + Credits >= One(DebitDue) + One(Undebited)
      BY <2>3 DEF StagingInv, Balanced
    <2>8. CASE copy.wc /\ freed
      <3>1. One(Undebited) = 1 /\ One(Undebited') = 0 /\ staged' = staged - 1
        BY <1>1, <2>4, <2>5, <2>8 DEF One
      <3> QED
        BY <2>4, <2>6, <2>7, <3>1, CreditsCount DEF Balanced
    <2>9. CASE ~(copy.wc /\ freed)
      <3>1. One(Undebited') = 0 /\ staged' = staged
        BY <1>1, <2>4, <2>9 DEF One
      <3> QED
        BY <2>4, <2>6, <2>7, <3>1, CreditsCount DEF Balanced
    <2> QED
      BY <2>8, <2>9
  <1> QED
    BY <1>3, <1>4, <1>5, <1>7, <1>8 DEF StagingInv

-----------------------------------------------------------------------------
(* The steps of a PUT                                                      *)

\* What a PUT has stored stays stored.
LEMMA KnownStays ==
    ASSUME NEW m \in Metas, Known(m), NEW v \in StagedPuts,
           \A u \in StagedPuts : u # v => put'[u] = put[u],
           put[v].pc \in {"stored", "done"} => put'[v].pc \in {"stored", "done"}
    PROVE  IF m.ver = 0 THEN m = NoMeta ELSE put'[m.ver].pc \in {"stored", "done"}
  BY DEF Known, Metas

\* The copies that nobody but a PUT has.
LEMMA OthersKnown ==
    ASSUME StagingInv, NEW v \in StagedPuts, UNCHANGED <<grad, grads, cycle, pass>>,
           \A u \in StagedPuts : u # v => put'[u] = put[u],
           put[v].pc \in {"stored", "done"} => put'[v].pc \in {"stored", "done"},
           Known(smeta)', Known(put[v].old)'
    PROVE  VersionsKnown'
  <1>1. /\ cycle.copy \in Metas /\ \A r \in StageReaders : grad[r].copy \in Metas
        /\ \A p \in PassNames : pass[p].copy \in Metas
        /\ \A u \in StagedPuts : put[u].old \in Metas
        /\ \A e \in grads \cup cycle.read : e[2] \in StagedPuts
    BY DEF StagingInv, StagingTypeOK, CycleTasks, GradTasks, PassTasks, PutTasks, GradEntries
  <1>2. Known(cycle.copy)' /\ \A p \in PassNames : Known(pass[p].copy)'
    BY <1>1, KnownStays DEF StagingInv, VersionsKnown, Known
  <1>3. \A r \in StageReaders : Known(grad[r].copy)'
    BY <1>1, KnownStays DEF StagingInv, VersionsKnown, Known
  <1>4. \A u \in StagedPuts : Known(put[u].old)'
    BY <1>1, KnownStays DEF StagingInv, VersionsKnown, Known
  <1>5. \A e \in grads \cup cycle.read : put'[e[2]].pc \in {"stored", "done"}
    BY <1>1 DEF StagingInv, VersionsKnown
  <1> QED
    BY <1>2, <1>3, <1>4, <1>5 DEF StagingInv, VersionsKnown

LEMMA PutReadsOldKeeps ==
    ASSUME StagingInv, NEW v \in StagedPuts, PutReadsOld(v) PROVE StagingInv'
  <1>1. /\ put[v].pc = "idle" /\ bins' = bins \cup {v}
        /\ UNCHANGED <<smeta, grad, grads, cycle, ledger, pass, staged, tierMishaps>>
        /\ smeta \in Metas /\ created \in Nat /\ Known(smeta)
    BY DEF PutReadsOld, StagingInv, StagingTypeOK, VersionsKnown
  <1>2. /\ put' \in [StagedPuts -> PutTasks] /\ put'[v].pc = "read" /\ put'[v].old = smeta
        /\ \A u \in StagedPuts : u # v => put'[u] = put[u]
    BY <1>1 DEF PutReadsOld, StagingInv, StagingTypeOK, PutTasks
  <1>3. StagingTypeOK'
    BY <1>1, <1>2 DEF PutReadsOld, StagingInv, StagingTypeOK
  <1>4. Known(smeta)' /\ Known(put[v].old)'
    BY <1>1, <1>2, KnownStays DEF Known
  <1>5. VersionsKnown'
    BY <1>1, <1>2, <1>4, OthersKnown
  <1>6. OwnFiles' /\ Unlinked'
    <2>1. pass["evict"].copy.ver # v
      <3>1. Known(pass["evict"].copy) /\ pass["evict"].copy \in Metas
        BY DEF StagingInv, VersionsKnown, StagingTypeOK, PassTasks, PassNames
      <3> QED
        BY <1>1, <3>1, StagingAssumption DEF Known, Metas
    <2> QED
      BY <1>1, <1>2, <2>1 DEF StagingInv, OwnFiles, Unlinked
  <1>7. EvictPending' <=> EvictPending
    BY <1>1 DEF EvictPending
  <1>8. tierMishaps' = {} => GraduatedOnce' /\ ReadEarlier' /\ GoneForReason'
    <2>1. tierMishaps' = {} => GraduatedOnce'
      BY <1>1 DEF StagingInv, GraduatedOnce
    <2>2. tierMishaps' = {} => ReadEarlier'
      BY <1>1, <1>2 DEF StagingInv, ReadEarlier
    <2>3. tierMishaps' = {} => GoneForReason'
      BY <1>1, <1>2, <1>7 DEF StagingInv, GoneForReason
    <2> QED
      BY <2>1, <2>2, <2>3
  <1>9. ASSUME Sound' PROVE Balanced'
    <2>1. Sound
      BY <1>1, <1>2, <1>9 DEF Sound, WillLoseUpdate
    <2>2. smeta.ver # v
      BY <1>1, StagingAssumption DEF Known
    <2>3. {u \in StagedPuts : put'[u].pc = "stored"} = {u \in StagedPuts : put[u].pc = "stored"}
      BY <1>1, <1>2
    <2>4. Credits' = Credits /\ DebitDue' = DebitDue /\ (Undebited' <=> Undebited)
      BY <1>1, <1>7, <2>2, <2>3 DEF Credits, DebitDue, Undebited
    <2> QED
      BY <1>1, <2>1, <2>4 DEF StagingInv, Balanced, One
  <1> QED
    BY <1>3, <1>5, <1>6, <1>8, <1>9 DEF StagingInv

\* The PUT debits the version it read if its file is still there: it is the
\* staged one, or the PUT will store over a .meta written since.
LEMMA PutRemovesOldKeeps ==
    ASSUME StagingInv, NEW v \in StagedPuts, PutRemovesOld(v) PROVE StagingInv'
  <1> DEFINE old == put[v].old
  <1>1. /\ put[v].pc = "read" /\ bins' = bins \ {old.ver}
        /\ staged' = IF old.wc /\ old.ver \in bins THEN staged - 1 ELSE staged
        /\ UNCHANGED <<smeta, created, grad, grads, cycle, ledger, pass, tierMishaps>>
        /\ old \in Metas /\ Known(old) /\ Known(smeta) /\ smeta \in Metas
    BY DEF PutRemovesOld, Debit, StagingInv, StagingTypeOK, PutTasks, VersionsKnown
  <1>2. /\ put' \in [StagedPuts -> PutTasks] /\ put'[v].pc = "removed" /\ put'[v].old = old
        /\ \A u \in StagedPuts : u # v => put'[u] = put[u]
    BY <1>1 DEF PutRemovesOld, StagingInv, StagingTypeOK, PutTasks
  <1>3. StagingTypeOK'
    BY <1>1, <1>2 DEF StagingInv, StagingTypeOK
  <1>4. Known(smeta)' /\ Known(put[v].old)'
    BY <1>1, <1>2, KnownStays DEF Known
  <1>5. VersionsKnown'
    BY <1>1, <1>2, <1>4, OthersKnown
  <1>6. OwnFiles' /\ Unlinked'
    <2>1. ASSUME NEW u \in StagedPuts, put[u].pc \in {"read", "removed"}
          PROVE  u # old.ver
      BY <1>1, <2>1, StagingAssumption DEF Known
    <2> QED
      BY <1>1, <1>2, <2>1 DEF StagingInv, OwnFiles, Unlinked
  <1>7. EvictPending' <=> EvictPending
    BY <1>1 DEF EvictPending
  <1>8. tierMishaps' = {} => GraduatedOnce' /\ ReadEarlier' /\ GoneForReason'
    <2>1. tierMishaps' = {} => GraduatedOnce'
      BY <1>1 DEF StagingInv, GraduatedOnce
    <2>2. tierMishaps' = {} => ReadEarlier'
      BY <1>1, <1>2 DEF StagingInv, ReadEarlier
    <2>3. tierMishaps' = {} => GoneForReason'
      BY <1>1, <1>2, <1>7 DEF StagingInv, GoneForReason
    <2> QED
      BY <2>1, <2>2, <2>3
  <1>9. ASSUME Sound' PROVE Balanced'
    <2>1. Sound /\ (old.wc => old = smeta)
      BY <1>1, <1>2, <1>9 DEF Sound, WillLoseUpdate
    <2>2. {u \in StagedPuts : put'[u].pc = "stored"} = {u \in StagedPuts : put[u].pc = "stored"}
      BY <1>1, <1>2
    <2>3. Credits' = Credits /\ DebitDue' = DebitDue /\ (Undebited' => Undebited)
      BY <1>1, <1>7, <2>2 DEF Credits, DebitDue, Undebited
    <2>4. staged \in Int
      BY DEF StagingInv, StagingTypeOK
    <2>5. staged + Credits >= One(DebitDue) + One(Undebited)
      BY <2>1 DEF StagingInv, Balanced
    <2>6. CASE old.wc /\ old.ver \in bins
      <3>1. Undebited /\ ~Undebited'
        BY <1>1, <1>7, <2>1, <2>6 DEF Undebited, EvictPending, StagingInv, Unlinked
      <3>2. One(Undebited) = 1 /\ One(Undebited') = 0 /\ staged' = staged - 1
        BY <1>1, <2>6, <3>1 DEF One
      <3> QED
        BY <2>3, <2>4, <2>5, <3>2, CreditsCount DEF Balanced
    <2>7. CASE ~(old.wc /\ old.ver \in bins)
      <3>1. staged' = staged
        BY <1>1, <2>7
      <3> QED
        BY <2>3, <2>4, <2>5, <3>1, CreditsCount DEF Balanced, One
    <2> QED
      BY <2>6, <2>7
  <1> QED
    BY <1>3, <1>5, <1>6, <1>8, <1>9 DEF StagingInv

\* The new version is staged, and its credit is due.
LEMMA PutStoresMetaKeeps ==
    ASSUME StagingInv, NEW v \in StagedPuts, PutStoresMeta(v) PROVE StagingInv'
  <1>1. /\ put[v].pc = "removed" /\ Replaces(put[v].old)
        /\ UNCHANGED <<bins, created, grad, grads, cycle, ledger, pass, staged>>
        /\ put[v] \in PutTasks /\ put[v].old \in Metas /\ Known(put[v].old) /\ v \in bins
    BY DEF PutStoresMeta, StagingInv, StagingTypeOK, PutTasks, VersionsKnown, OwnFiles
  <1>2. /\ put' \in [StagedPuts -> PutTasks] /\ put'[v].pc = "stored" /\ put'[v].old = put[v].old
        /\ \A u \in StagedPuts : u # v => put'[u] = put[u]
    BY <1>1 DEF PutStoresMeta, StagingInv, StagingTypeOK, PutTasks
  <1>3. /\ smeta' \in Metas /\ smeta'.ver = v /\ smeta'.wc /\ ~smeta'.acct /\ v # 0
    BY <1>1, StagingAssumption DEF PutStoresMeta, Metas, PutTasks
  <1>4. StagingTypeOK'
    BY <1>1, <1>2, <1>3 DEF StagingInv, StagingTypeOK
  <1>5. Known(smeta)' /\ Known(put[v].old)'
    BY <1>1, <1>2, <1>3, KnownStays DEF Known
  <1>6. VersionsKnown'
    BY <1>1, <1>2, <1>5, OthersKnown
  <1>7. OwnFiles' /\ Unlinked'
    BY <1>1, <1>2 DEF StagingInv, OwnFiles, Unlinked
  <1>8. tierMishaps' = {} => tierMishaps = {} /\ smeta = put[v].old
    BY <1>1, ReplacesFacts
  <1>9. \A u \in StagedPuts : put[u].old.ver # v
    <2>1. \A u \in StagedPuts : Known(put[u].old)
      BY DEF StagingInv, VersionsKnown
    <2> QED
      BY <1>1, <1>3, <2>1 DEF Known
  <1>10. GraduatedOnce' /\ ReadEarlier' /\ GoneForReason'
    <2>1. \A e \in grads \cup cycle.read : e[2] # v
      BY <1>1 DEF StagingInv, VersionsKnown
    <2>2. \A r \in StageReaders : grad[r].copy.ver # v
      BY <1>1, <1>3 DEF StagingInv, VersionsKnown, Known
    <2>3. GraduatedOnce'
      BY <1>1, <1>3, <2>1, <2>2 DEF GraduatedOnce
    <2>4. ReadEarlier'
      BY <1>2, <1>3, <1>9 DEF ReadEarlier
    <2>5. GoneForReason'
      BY <1>1, <1>3 DEF GoneForReason
    <2> QED
      BY <2>3, <2>4, <2>5
  <1>11. ASSUME Sound' PROVE Balanced'
    <2>1. tierMishaps = {} /\ smeta = put[v].old
      BY <1>8, <1>11 DEF Sound
    <2>2. ASSUME NEW u \in StagedPuts, put[u].pc = "removed", put[u].old.wc
          PROVE  put[u].old = smeta
      <3>1. CASE u = v
        BY <2>1, <3>1
      <3>2. CASE u # v
        BY <1>2, <1>3, <1>9, <1>11, <2>2, <3>2 DEF Sound, WillLoseUpdate
      <3> QED
        BY <3>1, <3>2
    <2>3. Sound
      BY <2>1, <2>2 DEF Sound, WillLoseUpdate
    <2>4. Credits' = Credits + 1
      <3>1. {u \in StagedPuts : put'[u].pc = "stored"}
              = {u \in StagedPuts : put[u].pc = "stored"} \cup {v}
        BY <1>2
      <3>2. v \notin {u \in StagedPuts : put[u].pc = "stored"}
        BY <1>1
      <3> QED
        BY <3>1, <3>2, CreditsCount, FS_AddElement DEF Credits
    <2>5. DebitDue' = DebitDue /\ staged' = staged /\ staged \in Int
      BY <1>1 DEF DebitDue, StagingInv, StagingTypeOK
    <2>6. staged + Credits >= One(DebitDue) + One(Undebited)
      BY <2>3 DEF StagingInv, Balanced
    <2>7. One(DebitDue') = One(DebitDue) /\ One(Undebited') \in {0, 1}
      BY <2>5 DEF One
    <2> QED
      BY <2>4, <2>5, <2>6, <2>7, CreditsCount DEF Balanced
  <1> QED
    BY <1>4, <1>6, <1>7, <1>10, <1>11 DEF StagingInv

LEMMA PutCreditsKeeps ==
    ASSUME StagingInv, NEW v \in StagedPuts, NEW f \in LedgerFiles, PutCredits(v, f)
    PROVE  StagingInv'
  <1>1. /\ put[v].pc = "stored" /\ staged' = staged + 1
        /\ UNCHANGED <<smeta, bins, created, grad, grads, cycle, pass, tierMishaps>>
        /\ smeta \in Metas /\ Known(smeta)
    BY DEF PutCredits, StagingInv, StagingTypeOK, VersionsKnown
  <1>2. /\ put' \in [StagedPuts -> PutTasks] /\ put'[v].pc = "done" /\ put'[v].old = NoMeta
        /\ \A u \in StagedPuts : u # v => put'[u] = put[u]
    BY StagingTypes DEF PutCredits, IdlePut, StagingInv, StagingTypeOK, PutTasks
  <1>3. ledger' \in [LedgerFiles -> SUBSET LedgerEntries]
    BY DEF PutCredits, StagingInv, StagingTypeOK, LedgerEntries
  <1>4. StagingTypeOK'
    BY <1>1, <1>2, <1>3 DEF StagingInv, StagingTypeOK
  <1>5. Known(smeta)' /\ Known(put[v].old)'
    BY <1>1, <1>2, KnownStays, StagingTypes DEF Known
  <1>6. VersionsKnown'
    BY <1>1, <1>2, <1>5, OthersKnown
  <1>7. OwnFiles' /\ Unlinked' /\ (EvictPending' <=> EvictPending)
    BY <1>1, <1>2 DEF StagingInv, OwnFiles, Unlinked, EvictPending
  <1>8. tierMishaps' = {} => GraduatedOnce' /\ ReadEarlier' /\ GoneForReason'
    <2>1. tierMishaps' = {} => GraduatedOnce'
      BY <1>1 DEF StagingInv, GraduatedOnce
    <2>2. smeta.ver = 0 => ~smeta.wc
      BY <1>1, StagingTypes DEF Known
    <2>3. tierMishaps' = {} => ReadEarlier'
      BY <1>1, <1>2, <2>2, StagingTypes DEF StagingInv, ReadEarlier
    <2>4. tierMishaps' = {} => GoneForReason'
      BY <1>1, <1>2, <1>7 DEF StagingInv, GoneForReason
    <2> QED
      BY <2>1, <2>3, <2>4
  <1>9. ASSUME Sound' PROVE Balanced'
    <2>1. Sound
      BY <1>1, <1>2, <1>9 DEF Sound, WillLoseUpdate
    <2>2. Credits' = Credits - 1
      <3>1. {u \in StagedPuts : put'[u].pc = "stored"}
              = {u \in StagedPuts : put[u].pc = "stored"} \ {v}
        BY <1>2
      <3>2. v \in {u \in StagedPuts : put[u].pc = "stored"}
        BY <1>1
      <3> QED
        BY <3>1, <3>2, CreditsCount, FS_RemoveElement DEF Credits
    <2>3. DebitDue' = DebitDue /\ Undebited' = Undebited /\ staged \in Int
      BY <1>1, <1>7 DEF DebitDue, Undebited, StagingInv, StagingTypeOK
    <2>4. staged + Credits >= One(DebitDue) + One(Undebited)
      BY <2>1 DEF StagingInv, Balanced
    <2> QED
      BY <1>1, <2>2, <2>3, <2>4, CreditsCount DEF Balanced, One
  <1> QED
    BY <1>4, <1>6, <1>7, <1>8, <1>9 DEF StagingInv

LEMMA StagingNextKeeps == StagingInv /\ [StagingNext]_stagingVars => StagingInv'
  <1> SUFFICES ASSUME StagingInv, [StagingNext]_stagingVars PROVE StagingInv'
    OBVIOUS
  <1>1. ASSUME NEW v \in StagedPuts, PutStep(v) PROVE StagingInv'
    BY <1>1, PutReadsOldKeeps, PutRemovesOldKeeps, PutStoresMetaKeeps, PutCreditsKeeps DEF PutStep
  <1>2. ASSUME NEW r \in StageReaders, GradReads(r) \/ GradStores(r) \/ GradJournals(r)
        PROVE  StagingInv'
    BY <1>2, GradReadsKeeps, GradStoresKeeps, GradJournalsKeeps
  <1>3. CASE CycleReads \/ CycleWrites \/ CycleSettles \/ CycleFails \/ CycleDropsStale
    BY <1>3, CycleReadsKeeps, CycleWritesKeeps, CycleSettlesKeeps, CycleFailsKeeps,
       CycleDropsStaleKeeps
  <1>4. ASSUME NEW p \in PassNames, PassStep(p) PROVE StagingInv'
    BY <1>4, PassReadsKeeps, PassVerifiesKeeps, PassCannotReadKeeps, RetireReadsKeeps,
       RetireRewritesKeeps DEF PassStep
  <1>5. CASE EvictStep
    BY <1>5, EvictReadsKeeps, EvictUnlinksKeeps, EvictDeletesMetaKeeps DEF EvictStep
  <1>6. CASE UNCHANGED stagingVars
    <2>1. UNCHANGED <<smeta, bins, created, put, grad, grads, cycle, ledger, pass, staged, tierMishaps>>
      BY <1>6 DEF stagingVars
    <2>2. StagingTypeOK'
      BY <2>1 DEF StagingInv, StagingTypeOK
    <2> QED
      BY <2>1, <2>2, PassFrame
  <1> QED
    BY <1>1, <1>2, <1>3, <1>4, <1>5, <1>6, ScanReappendsKeeps DEF StagingNext

\* What every step of PUTs, graduations, consolidation, eviction and compaction
\* keeps: the counter covers the debit that is due and the version to be debited.
THEOREM StagingInvariant == StagingSpec => []StagingInv
  BY StagingInitOK, StagingNextKeeps, PTL DEF StagingSpec

\* write_cache_size is at least what is staged, for any number of PUTs, reads and
\* ledger files, but for the lost updates and foreign tokens named.
THEOREM NeverUnderstated == StagingSpec => []StagedNeverUnderstated
  <1>1. StagingInv => StagedNeverUnderstated
    <2>1. ASSUME StagingInv, tierMishaps = {}, ~WillLoseUpdate, smeta.wc, smeta.ver \in bins
          PROVE  staged + Cardinality({v \in StagedPuts : put[v].pc = "stored"}) >= 1
      <3>1. Sound /\ Undebited
        BY <2>1 DEF Sound, Undebited
      <3>2. staged \in Int /\ staged + Credits >= One(DebitDue) + 1
        BY <2>1, <3>1 DEF StagingInv, StagingTypeOK, Balanced, One
      <3> QED
        BY <3>2, CreditsCount DEF Credits
    <2> QED
      BY <2>1 DEF StagedNeverUnderstated
  <1> QED
    BY <1>1, StagingInvariant, PTL

-----------------------------------------------------------------------------
(***************************************************************************)
(* THE SWEEP OF ORPHANED FILES                                             *)
(***************************************************************************)

Versions == 1..Len(ObjectHistory)
Names == {"", "absent", "legacy"} \cup {ObjectHistory[v] : v \in Versions}
Objects == [etag : Names, version : Versions \cup {0}]
Records == [object : Objects, writeCached : BOOLEAN, ranges : SUBSET Names]
Storing == [pc : {"idle", "claim", "publish", "journal"}, version : Versions \cup {0},
            locked : BOOLEAN]
Sweeping == [pc : {"idle", "judge", "add", "write", "append", "clean", "recheck", "unlink"},
             file : Names, object : Objects]

RecoveryTypeOK ==
    /\ head \in Versions /\ uploading \in Versions \cup {0}
    /\ rmeta \in Records /\ rfiles \subseteq Names
    /\ adds \subseteq [file : Names, object : Objects] /\ merged \subseteq adds
    /\ keyLock \in Storers \cup Sweepers \cup {"free"}
    /\ confirmed \in [Storers -> Names]
    /\ storing \in [Storers -> Storing] /\ sweep \in [Sweepers -> Sweeping]

\* A task past its claim has a version.
Claims(q) == q.pc # "idle" => q.version \in Versions

\* The key's lock has the holder that thinks it holds it.
KeyLockHeld ==
    /\ \A s \in Storers : storing[s].locked => keyLock = s
    /\ \A t \in Sweepers : sweep[t].pc \in {"recheck", "unlink"} => keyLock = t

\* The object a recovery writes is the one of its file's version, or unknown.
RecoversOwnVersion ==
    \A t \in Sweepers :
        sweep[t].pc = "write" =>
            sweep[t].object = NoObject \/ sweep[t].object.etag = sweep[t].file

\* A file about to be deleted has been listed since by a PUT only.
Doomed(t) == sweep[t].pc = "unlink" /\ sweep[t].file \in rmeta.ranges => rmeta.writeCached

RecoveryInv ==
    /\ RecoveryTypeOK
    /\ \A s \in Storers : Claims(storing[s])
    /\ KeyLockHeld
    /\ RecoversOwnVersion
    /\ RecoveredOfMetaVersion
    /\ \A t \in Sweepers : Doomed(t)

-----------------------------------------------------------------------------
(* The values of the model                                                 *)

LEMMA VersionFacts ==
    /\ Len(ObjectHistory) \in Nat
    /\ \A v \in Versions : \A u \in 1..v : u \in Versions
    /\ \A v \in Versions : v < Len(ObjectHistory) => v + 1 \in Versions
  <1>1. Len(ObjectHistory) \in Nat
    BY HistoryAssumption
  <1> QED
    BY <1>1 DEF Versions

LEMMA HistoryFacts ==
    /\ Len(ObjectHistory) \in Nat /\ 1 \in Versions /\ Versions \subseteq Nat
    /\ \A v \in Versions : /\ ObjectHistory[v] \in Names
                           /\ Object(v) \in Objects
                           /\ Object(v).etag = ObjectHistory[v] /\ Object(v).version = v
    /\ NoObject \in Objects /\ NoObject.etag = ""
  <1>1. Len(ObjectHistory) \in Nat /\ Len(ObjectHistory) # 0
    BY HistoryAssumption
  <1>2. 1 \in Versions /\ Versions \subseteq Nat
    BY <1>1 DEF Versions
  <1>3. \A v \in Versions : ObjectHistory[v] \in Names
    BY DEF Names
  <1> QED
    BY <1>1, <1>2, <1>3 DEF Object, Objects, NoObject, Names

LEMMA RecordFacts ==
    /\ NoRecord \in Records /\ NoRecord.object.etag = "absent" /\ NoRecord.ranges = {}
    /\ \A o \in Objects : /\ NewRecord(o) \in Records /\ NewRecord(o).object = o
                          /\ NewRecord(o).ranges = {} /\ ~NewRecord(o).writeCached
    /\ IdleStore \in Storing /\ IdleStore.pc = "idle" /\ IdleStore.locked = FALSE
    /\ IdleSweep \in Sweeping /\ IdleSweep.pc = "idle"
  BY HistoryFacts DEF Records, NoRecord, NewRecord, IdleStore, Storing, IdleSweep, Sweeping,
                      Objects, Names

-----------------------------------------------------------------------------
(* A store task, the .meta, or a sweep moves                               *)

OfOneVersion(m) == m.object.etag \notin {"absent", ""} => m.ranges \subseteq {m.object.etag}

\* The .meta may change under a free lock; without it only to one a PUT wrote or
\* to one that lists nothing.
MayReplace(m) ==
    /\ m \in Records /\ OfOneVersion(m)
    /\ m = rmeta \/ keyLock = "free" \/ m.writeCached \/ m.ranges = {}

LEMMA MetaReplaced ==
    ASSUME RecoveryInv, MayReplace(rmeta'), UNCHANGED sweep
    PROVE  /\ RecoversOwnVersion' /\ RecoveredOfMetaVersion'
           /\ \A t \in Sweepers : Doomed(t)'
  <1>1. RecoversOwnVersion' /\ RecoveredOfMetaVersion'
    BY DEF RecoveryInv, RecoversOwnVersion, RecoveredOfMetaVersion, MayReplace, OfOneVersion
  <1>2. ASSUME NEW t \in Sweepers PROVE Doomed(t)'
    <2>1. sweep[t].pc = "unlink" => keyLock = t /\ keyLock # "free"
      BY HolderAssumption DEF RecoveryInv, KeyLockHeld
    <2>2. Doomed(t)
      BY DEF RecoveryInv
    <2> QED
      BY <2>1, <2>2 DEF Doomed, MayReplace
  <1> QED
    BY <1>1, <1>2

LEMMA StoreMoves ==
    ASSUME RecoveryInv, NEW s \in Storers, NEW q \in Storing, Claims(q),
           storing' = [storing EXCEPT ![s] = q], UNCHANGED sweep,
           MayReplace(rmeta'), q.locked => keyLock' = s,
           keyLock' = keyLock \/ keyLock = "free" \/ (keyLock = s /\ ~q.locked),
           RecoveryTypeOK'
    PROVE  RecoveryInv'
  <1>1. /\ storing'[s] = q /\ \A u \in Storers : u # s => storing'[u] = storing[u]
    BY DEF RecoveryInv, RecoveryTypeOK
  <1>2. \A u \in Storers : Claims(storing'[u])
    BY <1>1 DEF RecoveryInv
  <1>3. KeyLockHeld'
    <2>1. ASSUME NEW u \in Storers, storing'[u].locked PROVE keyLock' = u
      <3>1. CASE u = s
        BY <1>1, <2>1, <3>1
      <3>2. CASE u # s
        <4>1. keyLock = u /\ keyLock # "free" /\ keyLock # s
          BY <1>1, <2>1, <3>2, HolderAssumption DEF RecoveryInv, KeyLockHeld
        <4> QED
          BY <4>1
      <3> QED
        BY <3>1, <3>2
    <2>2. ASSUME NEW t \in Sweepers, sweep'[t].pc \in {"recheck", "unlink"} PROVE keyLock' = t
      <3>1. keyLock = t /\ keyLock # "free" /\ keyLock # s
        BY <2>2, HolderAssumption DEF RecoveryInv, KeyLockHeld
      <3> QED
        BY <3>1
    <2> QED
      BY <2>1, <2>2 DEF KeyLockHeld
  <1> QED
    BY <1>2, <1>3, MetaReplaced DEF RecoveryInv

LEMMA MetaMoves ==
    ASSUME RecoveryInv, MayReplace(rmeta'), UNCHANGED <<sweep, storing, keyLock>>, RecoveryTypeOK'
    PROVE  RecoveryInv'
  <1>1. KeyLockHeld' /\ \A s \in Storers : Claims(storing'[s])
    BY DEF RecoveryInv, KeyLockHeld
  <1> QED
    BY <1>1, MetaReplaced DEF RecoveryInv

\* What a sweep may come to be while .meta stays.
SweepOK(t, q) ==
    /\ q \in Sweeping
    /\ q.pc = "write" => q.object = NoObject \/ q.object.etag = q.file
    /\ q.pc \in {"recheck", "unlink"} => keyLock' = t
    /\ q.pc = "unlink" /\ q.file \in rmeta'.ranges => rmeta'.writeCached

LEMMA SweepMoves ==
    ASSUME RecoveryInv, NEW t \in Sweepers, NEW q, SweepOK(t, q),
           sweep' = [sweep EXCEPT ![t] = q], UNCHANGED storing,
           keyLock' = keyLock \/ keyLock = "free" \/ keyLock = t,
           MayReplace(rmeta'), RecoveryTypeOK'
    PROVE  RecoveryInv'
  <1>1. /\ sweep'[t] = q /\ \A u \in Sweepers : u # t => sweep'[u] = sweep[u]
    BY DEF RecoveryInv, RecoveryTypeOK
  <1>2. \A s \in Storers : Claims(storing'[s])
    BY DEF RecoveryInv
  <1>3. KeyLockHeld'
    <2>1. ASSUME NEW s \in Storers, storing'[s].locked PROVE keyLock' = s
      <3>1. keyLock = s /\ keyLock # "free" /\ keyLock # t
        BY <2>1, HolderAssumption DEF RecoveryInv, KeyLockHeld
      <3> QED
        BY <3>1
    <2>2. ASSUME NEW u \in Sweepers, sweep'[u].pc \in {"recheck", "unlink"} PROVE keyLock' = u
      <3>1. CASE u = t
        BY <1>1, <2>2, <3>1 DEF SweepOK
      <3>2. CASE u # t
        <4>1. keyLock = u /\ keyLock # "free" /\ keyLock # t
          BY <1>1, <2>2, <3>2, HolderAssumption DEF RecoveryInv, KeyLockHeld
        <4> QED
          BY <4>1
      <3> QED
        BY <3>1, <3>2
    <2> QED
      BY <2>1, <2>2 DEF KeyLockHeld
  <1>4. RecoversOwnVersion'
    BY <1>1 DEF RecoveryInv, RecoversOwnVersion, SweepOK
  <1>5. RecoveredOfMetaVersion'
    BY DEF RecoveredOfMetaVersion, MayReplace, OfOneVersion
  <1>6. ASSUME NEW u \in Sweepers PROVE Doomed(u)'
    <2>1. CASE u = t
      BY <1>1, <2>1 DEF Doomed, SweepOK
    <2>2. CASE u # t
      <3>1. sweep[u].pc = "unlink" => keyLock = u /\ keyLock # "free"
        BY HolderAssumption DEF RecoveryInv, KeyLockHeld
      <3>2. Doomed(u) /\ sweep'[u] = sweep[u]
        BY <1>1, <2>2 DEF RecoveryInv
      <3> QED
        BY <3>1, <3>2 DEF Doomed, MayReplace
    <2> QED
      BY <2>1, <2>2
  <1> QED
    BY <1>2, <1>3, <1>4, <1>5, <1>6 DEF RecoveryInv

\* The .meta that stays.
LEMMA MetaStays ==
    ASSUME RecoveryInv, UNCHANGED rmeta
    PROVE  MayReplace(rmeta')
  BY DEF RecoveryInv, RecoveryTypeOK, MayReplace, OfOneVersion, RecoveredOfMetaVersion

-----------------------------------------------------------------------------
(* The writers of the key                                                  *)

LEMMA ReplacedKeeps ==
    ASSUME RecoveryInv, ObjectReplaced
    PROVE  RecoveryInv'
  <1>1. UNCHANGED <<rmeta, rfiles, adds, merged, keyLock, confirmed, storing, uploading, sweep>>
    BY DEF ObjectReplaced
  <1>2. head' \in Versions
    <2>1. head \in Versions /\ head < Len(ObjectHistory) /\ head' = head + 1
      BY DEF ObjectReplaced, RecoveryInv, RecoveryTypeOK
    <2> QED
      BY <2>1, VersionFacts
  <1>3. RecoveryTypeOK'
    BY <1>1, <1>2 DEF RecoveryInv, RecoveryTypeOK
  <1> QED
    BY <1>1, <1>3, MetaStays, MetaMoves

\* A store task as its step finds it.
LEMMA StoreHere ==
    ASSUME RecoveryInv, NEW s \in Storers
    PROVE  /\ storing[s] \in Storing /\ Claims(storing[s])
           /\ storing[s].locked => keyLock = s
  BY DEF RecoveryInv, RecoveryTypeOK, KeyLockHeld

LEMMA StoreArrivesKeeps ==
    ASSUME RecoveryInv, NEW s \in Storers, StoreArrives(s)
    PROVE  RecoveryInv'
  <1>1. PICK v \in 1..head :
          storing' = [storing EXCEPT ![s] = [pc |-> "claim", version |-> v, locked |-> FALSE]]
    BY DEF StoreArrives
  <1>2. UNCHANGED <<head, rmeta, rfiles, adds, merged, keyLock, confirmed, uploading, sweep>>
    BY DEF StoreArrives
  <1> DEFINE q == [pc |-> "claim", version |-> v, locked |-> FALSE]
  <1>3. v \in Versions
    BY VersionFacts DEF RecoveryInv, RecoveryTypeOK
  <1>4. q \in Storing /\ Claims(q) /\ q.locked = FALSE
    BY <1>3 DEF Storing, Claims
  <1>5. storing' = [storing EXCEPT ![s] = q]
    BY <1>1
  <1> HIDE DEF q
  <1>6. RecoveryTypeOK'
    BY <1>2, <1>4, <1>5 DEF RecoveryInv, RecoveryTypeOK
  <1> QED
    BY <1>2, <1>4, <1>5, <1>6, MetaStays, StoreMoves

LEMMA StoreConfirmedKeeps ==
    ASSUME RecoveryInv, NEW s \in Storers, StoreConfirmed(s)
    PROVE  RecoveryInv'
  <1> DEFINE q == [storing[s] EXCEPT !.pc = "publish"]
  <1>1. /\ storing[s].pc = "claim" /\ storing' = [storing EXCEPT ![s] = q]
        /\ UNCHANGED <<head, rmeta, rfiles, adds, merged, keyLock, confirmed, uploading, sweep>>
    BY DEF StoreConfirmed
  <1>2. q \in Storing /\ Claims(q) /\ q.locked = storing[s].locked
    BY <1>1, StoreHere DEF Storing, Claims
  <1> HIDE DEF q
  <1>3. RecoveryTypeOK'
    BY <1>1, <1>2 DEF RecoveryInv, RecoveryTypeOK
  <1> QED
    BY <1>1, <1>2, <1>3, StoreHere, MetaStays, StoreMoves

LEMMA StoreRefusedKeeps ==
    ASSUME RecoveryInv, NEW s \in Storers, StoreRefused(s)
    PROVE  RecoveryInv'
  <1>1. /\ storing' = [storing EXCEPT ![s] = IdleStore]
        /\ UNCHANGED <<head, rmeta, rfiles, adds, merged, keyLock, confirmed, uploading, sweep>>
    BY DEF StoreRefused
  <1>2. IdleStore \in Storing /\ Claims(IdleStore) /\ IdleStore.locked = FALSE
    BY RecordFacts DEF Claims
  <1>3. RecoveryTypeOK'
    BY <1>1, <1>2 DEF RecoveryInv, RecoveryTypeOK
  <1> QED
    BY <1>1, <1>2, <1>3, MetaStays, StoreMoves

LEMMA StoreClaimsKeeps ==
    ASSUME RecoveryInv, NEW s \in Storers, StoreClaims(s)
    PROVE  RecoveryInv'
  <1> DEFINE o == Object(storing[s].version)
             q == [storing[s] EXCEPT !.pc = "publish", !.locked = TRUE]
  <1>1. /\ storing[s].pc = "claim" /\ keyLock = "free" /\ keyLock' = s
        /\ confirmed' = [confirmed EXCEPT ![s] = o.etag]
        /\ UNCHANGED <<head, adds, merged, uploading, sweep>>
        /\ \/ UNCHANGED <<rmeta, rfiles>>
           \/ rfiles' = rfiles \ rmeta.ranges /\ rmeta' = NewRecord(o)
    BY DEF StoreClaims
  <1>2. storing' = [storing EXCEPT ![s] = q]
    BY DEF StoreClaims
  <1>3. o \in Objects /\ o.etag \in Names
    BY <1>1, StoreHere, HistoryFacts DEF Claims
  <1>4. q \in Storing /\ Claims(q)
    BY <1>1, StoreHere DEF Storing, Claims
  <1> HIDE DEF o, q
  <1>5. MayReplace(rmeta')
    BY <1>1, <1>3, RecordFacts, MetaStays DEF MayReplace, OfOneVersion
  <1>6. RecoveryTypeOK'
    BY <1>1, <1>2, <1>3, <1>4, <1>5 DEF RecoveryInv, RecoveryTypeOK, MayReplace
  <1> QED
    BY <1>1, <1>2, <1>4, <1>5, <1>6, StoreMoves

LEMMA StorePublishesKeeps ==
    ASSUME RecoveryInv, NEW s \in Storers, StorePublishes(s)
    PROVE  RecoveryInv'
  <1> DEFINE q == [storing[s] EXCEPT !.pc = "journal"]
  <1>1. /\ storing[s].pc = "publish" /\ storing' = [storing EXCEPT ![s] = q]
        /\ rfiles' = rfiles \cup {ObjectHistory[storing[s].version]}
        /\ UNCHANGED <<head, rmeta, adds, merged, keyLock, confirmed, uploading, sweep>>
    BY DEF StorePublishes
  <1>2. q \in Storing /\ Claims(q) /\ q.locked = storing[s].locked
    BY <1>1, StoreHere DEF Storing, Claims
  <1>3. ObjectHistory[storing[s].version] \in Names
    BY <1>1, StoreHere, HistoryFacts DEF Claims
  <1> HIDE DEF q
  <1>4. RecoveryTypeOK'
    BY <1>1, <1>2, <1>3 DEF RecoveryInv, RecoveryTypeOK
  <1> QED
    BY <1>1, <1>2, <1>4, StoreHere, MetaStays, StoreMoves

LEMMA StoreEndsKeeps ==
    ASSUME RecoveryInv, NEW s \in Storers, StoreEnds(s)
    PROVE  RecoveryInv'
  <1> DEFINE o == Object(storing[s].version)
             e == [file |-> o.etag, object |-> o]
  <1>1. /\ storing[s].pc = "journal" /\ storing' = [storing EXCEPT ![s] = IdleStore]
        /\ adds' = adds \/ adds' = adds \cup {e}
        /\ keyLock' = (IF storing[s].locked THEN "free" ELSE keyLock)
        /\ UNCHANGED <<head, rmeta, rfiles, merged, confirmed, uploading, sweep>>
    BY DEF StoreEnds
  <1>2. IdleStore \in Storing /\ Claims(IdleStore) /\ IdleStore.locked = FALSE
    BY RecordFacts DEF Claims
  <1>3. o \in Objects /\ o.etag \in Names
    BY <1>1, StoreHere, HistoryFacts DEF Claims
  <1>4. e \in [file : Names, object : Objects]
    BY <1>3
  <1> HIDE DEF e, o
  <1>5. RecoveryTypeOK'
    BY <1>1, <1>2, <1>4 DEF RecoveryInv, RecoveryTypeOK
  <1> QED
    BY <1>1, <1>2, <1>5, StoreHere, MetaStays, StoreMoves

LEMMA UploadPublishesKeeps ==
    ASSUME RecoveryInv, UploadPublishes
    PROVE  RecoveryInv'
  <1>1. /\ head \in Versions /\ head < Len(ObjectHistory)
        /\ head' = head + 1 /\ uploading' = head + 1
        /\ rfiles' = rfiles \cup {ObjectHistory[head + 1]}
        /\ UNCHANGED <<rmeta, adds, merged, keyLock, confirmed, storing, sweep>>
    BY DEF UploadPublishes, RecoveryInv, RecoveryTypeOK
  <1>2. head + 1 \in Versions
    BY <1>1, VersionFacts
  <1>3. RecoveryTypeOK'
    BY <1>1, <1>2, HistoryFacts DEF RecoveryInv, RecoveryTypeOK
  <1> QED
    BY <1>1, <1>3, MetaStays, MetaMoves

LEMMA UploadStoresMetaKeeps ==
    ASSUME RecoveryInv, UploadStoresMeta
    PROVE  RecoveryInv'
  <1> DEFINE o == Object(uploading)
             m == [object |-> o, writeCached |-> TRUE, ranges |-> {o.etag}]
  <1>1. /\ uploading # 0 /\ uploading' = 0 /\ rmeta' = m
        /\ rfiles' = rfiles \ (rmeta.ranges \ {o.etag})
        /\ UNCHANGED <<head, adds, merged, keyLock, confirmed, storing, sweep>>
    BY DEF UploadStoresMeta
  <1>2. o \in Objects /\ o.etag \in Names
    BY <1>1, HistoryFacts DEF RecoveryInv, RecoveryTypeOK
  <1> HIDE DEF o
  <1>3. m \in Records /\ m.writeCached /\ m.ranges = {o.etag} /\ m.object = o
    BY <1>2 DEF Records
  <1> HIDE DEF m
  <1>4. MayReplace(rmeta')
    BY <1>1, <1>3 DEF MayReplace, OfOneVersion
  <1>5. RecoveryTypeOK'
    BY <1>1, <1>3 DEF RecoveryInv, RecoveryTypeOK
  <1> QED
    BY <1>1, <1>4, <1>5, MetaMoves

LEMMA ConsolidateKeeps ==
    ASSUME RecoveryInv, ConsolidateKey
    PROVE  RecoveryInv'
  <1> DEFINE valid == {a \in adds : a.file \in rfiles}
  <1>1. keyLock = "free" /\ merged' = valid
        /\ UNCHANGED <<head, adds, keyLock, confirmed, storing, uploading, sweep>>
    BY DEF ConsolidateKey
  <1>2. PICK meta \in Loaded(valid) :
            LET matching == {a \in valid : MatchesVersion(a, meta.object.etag)}
                foreign == {f \in meta.ranges : f # meta.object.etag}
                retained == meta.ranges \cup {a.file : a \in matching}
                rejected == {a.file : a \in valid \ matching} \ retained
            IN  /\ rfiles' = rfiles \ (rejected \cup foreign)
                /\ rmeta' = [meta EXCEPT !.ranges = retained \ foreign]
    BY DEF ConsolidateKey
  <1> DEFINE R == (meta.ranges \cup {a.file : a \in {b \in valid : MatchesVersion(b, meta.object.etag)}})
                    \ {f \in meta.ranges : f # meta.object.etag}
  <1>3. rfiles' \subseteq rfiles /\ rmeta' = [meta EXCEPT !.ranges = R]
    BY <1>2
  <1>4. meta \in Records
    <2>1. \A a \in valid : a.object \in Objects
      BY DEF RecoveryInv, RecoveryTypeOK
    <2>2. rmeta \in Records
      BY DEF RecoveryInv, RecoveryTypeOK
    <2> HIDE DEF valid
    <2>3. \A a \in valid : NewRecord(a.object) \in Records
      BY <2>1, RecordFacts
    <2>4. NewRecord(NoObject) \in Records
      BY RecordFacts, HistoryFacts
    <2> QED
      BY <2>2, <2>3, <2>4, Zenon DEF Loaded
  <1>5. R \subseteq {meta.object.etag} /\ R \subseteq Names
    <2>1. \A a \in valid : MatchesVersion(a, meta.object.etag) => a.file = meta.object.etag
      BY DEF MatchesVersion
    <2>2. meta.object.etag \in Names
      BY <1>4 DEF Records, Objects
    <2> HIDE DEF valid
    <2> QED
      BY <2>1, <2>2
  <1> HIDE DEF R, valid
  <1>6. rmeta' \in Records /\ rmeta'.ranges = R /\ rmeta'.object = meta.object
    BY <1>3, <1>4, <1>5 DEF Records
  <1>7. MayReplace(rmeta')
    BY <1>1, <1>5, <1>6 DEF MayReplace, OfOneVersion
  <1>8. RecoveryTypeOK'
    <2>1. valid \subseteq adds
      BY DEF valid
    <2> QED
      BY <1>1, <1>3, <1>6, <2>1 DEF RecoveryInv, RecoveryTypeOK
  <1> QED
    BY <1>1, <1>7, <1>8, MetaMoves

LEMMA JournalKeeps ==
    ASSUME RecoveryInv, CleanUpJournal \/ DropStaleAdds
    PROVE  RecoveryInv'
  <1>1. UNCHANGED <<head, rmeta, rfiles, keyLock, confirmed, storing, uploading, sweep>>
    BY DEF CleanUpJournal, DropStaleAdds
  <1>2. adds' \subseteq adds /\ merged' \subseteq adds'
    BY DEF CleanUpJournal, DropStaleAdds
  <1>3. RecoveryTypeOK'
    BY <1>1, <1>2 DEF RecoveryInv, RecoveryTypeOK
  <1> QED
    BY <1>1, <1>3, MetaStays, MetaMoves

LEMMA RemovalKeeps ==
    ASSUME RecoveryInv, EvictRanges \/ InvalidateKey
    PROVE  RecoveryInv'
  <1>1. /\ UNCHANGED <<head, adds, merged, keyLock, confirmed, storing, uploading, sweep>>
        /\ rfiles' \subseteq rfiles
        /\ rmeta' = NoRecord \/ rmeta' = [rmeta EXCEPT !.ranges = {}]
    BY DEF EvictRanges, InvalidateKey
  <1>2. rmeta' \in Records /\ rmeta'.ranges = {}
    BY <1>1, RecordFacts DEF RecoveryInv, RecoveryTypeOK, Records
  <1>3. MayReplace(rmeta')
    BY <1>2 DEF MayReplace, OfOneVersion
  <1>4. RecoveryTypeOK'
    BY <1>1, <1>2 DEF RecoveryInv, RecoveryTypeOK
  <1> QED
    BY <1>1, <1>3, <1>4, MetaMoves

-----------------------------------------------------------------------------
(* The sweep                                                               *)

LEMMA SweepHere ==
    ASSUME RecoveryInv, NEW t \in Sweepers
    PROVE  /\ sweep[t] \in Sweeping /\ sweep[t].file \in Names /\ sweep[t].object \in Objects
           /\ sweep[t].pc \in {"recheck", "unlink"} => keyLock = t
           /\ rmeta \in Records /\ rmeta.object \in Objects
  BY DEF RecoveryInv, RecoveryTypeOK, KeyLockHeld, Sweeping, Records

\* A sweep that gives up, whether it held the lock or not.
LEMMA SweepGivesUp ==
    ASSUME RecoveryInv, NEW t \in Sweepers, sweep' = [sweep EXCEPT ![t] = IdleSweep],
           keyLock' = keyLock \/ (keyLock = t /\ keyLock' = "free"),
           rfiles' \subseteq rfiles,
           adds' \subseteq [file : Names, object : Objects], adds \subseteq adds',
           UNCHANGED <<head, rmeta, merged, confirmed, storing, uploading>>
    PROVE  RecoveryInv'
  <1>1. SweepOK(t, IdleSweep)
    BY RecordFacts DEF SweepOK
  <1>2. RecoveryTypeOK'
    BY RecordFacts DEF RecoveryInv, RecoveryTypeOK
  <1> QED
    BY <1>1, <1>2, MetaStays, SweepMoves

\* A sweep that goes on, and touches nothing but itself.
LEMMA SweepGoesOn ==
    ASSUME RecoveryInv, NEW t \in Sweepers, NEW q, SweepOK(t, q),
           sweep' = [sweep EXCEPT ![t] = q],
           UNCHANGED <<head, rmeta, rfiles, adds, merged, keyLock, confirmed, storing, uploading>>
    PROVE  RecoveryInv'
  <1>1. RecoveryTypeOK'
    BY DEF RecoveryInv, RecoveryTypeOK, SweepOK
  <1> QED
    BY <1>1, MetaStays, SweepMoves

LEMMA SweepListsKeeps ==
    ASSUME RecoveryInv, NEW t \in Sweepers, SweepLists(t)
    PROVE  RecoveryInv'
  <1>1. PICK f \in rfiles :
          sweep' = [sweep EXCEPT ![t] = [IdleSweep EXCEPT !.pc = "judge", !.file = f]]
    BY DEF SweepLists
  <1> DEFINE q == [IdleSweep EXCEPT !.pc = "judge", !.file = f]
  <1>2. f \in Names
    BY DEF RecoveryInv, RecoveryTypeOK
  <1>3. q \in Sweeping /\ q.pc = "judge"
    BY <1>2, RecordFacts DEF Sweeping
  <1>4. sweep' = [sweep EXCEPT ![t] = q]
    BY <1>1
  <1> HIDE DEF q
  <1>5. SweepOK(t, q)
    BY <1>3 DEF SweepOK
  <1> QED
    BY <1>4, <1>5, SweepGoesOn DEF SweepLists

LEMMA SweepJudgesKeeps ==
    ASSUME RecoveryInv, NEW t \in Sweepers, SweepJudges(t)
    PROVE  RecoveryInv'
  <1> DEFINE a == [sweep[t] EXCEPT !.pc = "add"]
             c == [sweep[t] EXCEPT !.pc = "clean"]
  <1>1. \/ sweep' = [sweep EXCEPT ![t] = IdleSweep]
        \/ sweep' = [sweep EXCEPT ![t] = a]
        \/ sweep' = [sweep EXCEPT ![t] = c]
    <2>1. /\ t \in DOMAIN sweep
          /\ sweep' = [sweep EXCEPT ![t] =
                   IF \/ sweep[t].file \in rmeta.ranges
                      \/ OrphanStatus(sweep[t].file, rmeta.object.etag) = "Unknown"
                   THEN IdleSweep
                   ELSE [sweep[t] EXCEPT !.pc =
                           IF OrphanStatus(sweep[t].file, rmeta.object.etag) = "Valid"
                           THEN "add" ELSE "clean"]]
      BY DEF SweepJudges, RecoveryInv, RecoveryTypeOK
    <2> QED
      BY <2>1
  <1>2. a \in Sweeping /\ a.pc = "add" /\ c \in Sweeping /\ c.pc = "clean"
    BY SweepHere DEF Sweeping
  <1> HIDE DEF a, c
  <1>3. SweepOK(t, a) /\ SweepOK(t, c) /\ SweepOK(t, IdleSweep)
    BY <1>2, RecordFacts DEF SweepOK
  <1>4. UNCHANGED <<head, rmeta, rfiles, adds, merged, keyLock, confirmed, storing, uploading>>
    BY DEF SweepJudges
  <1> QED
    BY <1>1, <1>3, <1>4, SweepGoesOn

LEMMA AddReadsMetaKeeps ==
    ASSUME RecoveryInv, NEW t \in Sweepers, AddReadsMeta(t)
    PROVE  RecoveryInv'
  <1> DEFINE o == IF rmeta.object.etag = sweep[t].file THEN rmeta.object ELSE NoObject
             q == [sweep[t] EXCEPT !.pc = "write", !.object = o]
  <1>1. sweep' = [sweep EXCEPT ![t] = q]
    BY DEF AddReadsMeta
  <1>2. o \in Objects /\ (o = NoObject \/ o.etag = sweep[t].file)
    BY SweepHere, HistoryFacts
  <1> HIDE DEF o
  <1>3. q \in Sweeping /\ q.pc = "write" /\ q.object = o /\ q.file = sweep[t].file
    BY <1>2, SweepHere DEF Sweeping
  <1> HIDE DEF q
  <1>4. SweepOK(t, q)
    BY <1>2, <1>3 DEF SweepOK
  <1> QED
    BY <1>1, <1>4, SweepGoesOn DEF AddReadsMeta

LEMMA AddMismatchKeeps ==
    ASSUME RecoveryInv, NEW t \in Sweepers, AddMismatch(t)
    PROVE  RecoveryInv'
  <1>1. SweepOK(t, IdleSweep)
    BY RecordFacts DEF SweepOK
  <1> QED
    BY <1>1, SweepGoesOn DEF AddMismatch

\* A sweep about to journal its Add.
LEMMA AppendOK ==
    ASSUME RecoveryInv, NEW t \in Sweepers
    PROVE  SweepOK(t, [sweep[t] EXCEPT !.pc = "append"])
  <1> DEFINE q == [sweep[t] EXCEPT !.pc = "append"]
  <1>1. q \in Sweeping /\ q.pc = "append"
    BY SweepHere DEF Sweeping
  <1> HIDE DEF q
  <1>2. SweepOK(t, q)
    BY <1>1 DEF SweepOK
  <1> QED
    BY <1>2 DEF q

LEMMA AddWritesKeeps ==
    ASSUME RecoveryInv, NEW t \in Sweepers, AddWrites(t)
    PROVE  RecoveryInv'
  <1> DEFINE meta == IF rmeta = NoRecord THEN NewRecord(NoObject) ELSE rmeta
             o == sweep[t].object
             f == sweep[t].file
             adopted == IF meta.object.etag = "" /\ o # NoObject
                        THEN [meta EXCEPT !.object = o, !.ranges = {}] ELSE meta
             R == adopted.ranges \cup {f}
  <1>1. /\ sweep[t].pc = "write" /\ keyLock = "free"
        /\ ~AddRefused(o.etag, rmeta.object.etag)
        /\ rmeta' = [adopted EXCEPT !.ranges = R]
        /\ sweep' = [sweep EXCEPT ![t] = [sweep[t] EXCEPT !.pc = "append"]]
        /\ UNCHANGED <<head, rfiles, adds, merged, keyLock, confirmed, storing, uploading>>
    BY DEF AddWrites
  <1>2. o \in Objects /\ f \in Names /\ (o = NoObject \/ o.etag = f)
    BY <1>1, SweepHere DEF RecoveryInv, RecoversOwnVersion
  <1>3. meta \in Records /\ OfOneVersion(meta) /\ (meta = rmeta \/ meta.object = NoObject)
    BY SweepHere, RecordFacts, HistoryFacts
       DEF RecoveryInv, RecoveredOfMetaVersion, OfOneVersion
  <1>4. AddRefused(o.etag, rmeta.object.etag)
          <=> rmeta.object.etag \notin {"absent", ""} /\ rmeta.object.etag # o.etag
    BY DEF AddRefused
  <1> HIDE DEF meta, o, f
  <1>5. adopted \in Records
    BY <1>2, <1>3 DEF Records
  <1>6. adopted.object.etag \notin {"absent", ""} =>
          /\ adopted.ranges \subseteq {adopted.object.etag} /\ f = adopted.object.etag
    <2>1. CASE meta.object.etag = "" /\ o # NoObject
      <3>1. adopted.object = o /\ adopted.ranges = {}
        BY <1>3, <2>1 DEF Records
      <3> QED
        BY <1>2, <2>1, <3>1
    <2>2. CASE ~(meta.object.etag = "" /\ o # NoObject)
      <3>1. adopted = meta
        BY <2>2
      <3> HIDE DEF adopted
      <3>2. ASSUME meta.object.etag \notin {"absent", ""} PROVE meta.object.etag = o.etag /\ f = o.etag
        <4>1. meta = rmeta
          BY <1>3, <3>2, HistoryFacts
        <4>2. rmeta.object.etag = o.etag
          BY <1>1, <1>4, <3>2, <4>1
        <4>3. o # NoObject
          BY <3>2, <4>1, <4>2, HistoryFacts
        <4> QED
          BY <1>2, <4>1, <4>2, <4>3
      <3> QED
        BY <1>3, <3>1, <3>2 DEF OfOneVersion
    <2> QED
      BY <2>1, <2>2
  <1> HIDE DEF adopted
  <1>7. rmeta' \in Records /\ rmeta'.ranges = R /\ rmeta'.object = adopted.object
    BY <1>1, <1>2, <1>5 DEF Records
  <1>8. MayReplace(rmeta')
    BY <1>1, <1>6, <1>7 DEF MayReplace, OfOneVersion
  <1>9. SweepOK(t, [sweep[t] EXCEPT !.pc = "append"])
    BY AppendOK
  <1>10. RecoveryTypeOK'
    BY <1>1, <1>7, <1>9 DEF RecoveryInv, RecoveryTypeOK, SweepOK
  <1> QED
    BY <1>1, <1>8, <1>9, <1>10, SweepMoves

LEMMA AddWriteFailsKeeps ==
    ASSUME RecoveryInv, NEW t \in Sweepers, AddWriteFails(t)
    PROVE  RecoveryInv'
  <1>1. sweep' = [sweep EXCEPT ![t] = [sweep[t] EXCEPT !.pc = "append"]]
    BY DEF AddWriteFails
  <1> QED
    BY <1>1, AppendOK, SweepGoesOn DEF AddWriteFails

LEMMA AddJournalsKeeps ==
    ASSUME RecoveryInv, NEW t \in Sweepers, AddJournals(t)
    PROVE  RecoveryInv'
  <1> DEFINE e == [file |-> sweep[t].file, object |-> sweep[t].object]
  <1>1. /\ adds' = adds \/ adds' = adds \cup {e}
        /\ sweep' = [sweep EXCEPT ![t] = IdleSweep]
        /\ UNCHANGED <<head, rmeta, rfiles, merged, keyLock, confirmed, storing, uploading>>
    BY DEF AddJournals
  <1>2. e \in [file : Names, object : Objects]
    BY SweepHere
  <1> HIDE DEF e
  <1>3. adds' \subseteq [file : Names, object : Objects] /\ adds \subseteq adds'
    BY <1>1, <1>2 DEF RecoveryInv, RecoveryTypeOK
  <1> QED
    BY <1>1, <1>3, SweepGivesUp

LEMMA CleanReadsJournalKeeps ==
    ASSUME RecoveryInv, NEW t \in Sweepers, CleanReadsJournal(t)
    PROVE  RecoveryInv'
  <1> DEFINE q == [sweep[t] EXCEPT !.pc = "recheck"]
  <1>1. /\ keyLock = "free"
        /\ UNCHANGED <<head, rmeta, rfiles, adds, merged, confirmed, storing, uploading>>
        /\ \/ sweep' = [sweep EXCEPT ![t] = IdleSweep] /\ UNCHANGED keyLock
           \/ sweep' = [sweep EXCEPT ![t] = q] /\ keyLock' = t
    BY DEF CleanReadsJournal
  <1>2. CASE sweep' = [sweep EXCEPT ![t] = IdleSweep] /\ UNCHANGED keyLock
    BY <1>1, <1>2, SweepGivesUp DEF RecoveryInv, RecoveryTypeOK
  <1>3. CASE sweep' = [sweep EXCEPT ![t] = q] /\ keyLock' = t
    <2>1. q \in Sweeping /\ q.pc = "recheck"
      BY SweepHere DEF Sweeping
    <2> HIDE DEF q
    <2>2. SweepOK(t, q)
      BY <1>3, <2>1 DEF SweepOK
    <2>3. RecoveryTypeOK'
      BY <1>1, <1>3, <2>1 DEF RecoveryInv, RecoveryTypeOK
    <2> QED
      BY <1>1, <1>3, <2>2, <2>3, MetaStays, SweepMoves
  <1> QED
    BY <1>1, <1>2, <1>3

LEMMA CleanReadsMetaKeeps ==
    ASSUME RecoveryInv, NEW t \in Sweepers, CleanReadsMeta(t)
    PROVE  RecoveryInv'
  <1> DEFINE q == [sweep[t] EXCEPT !.pc = "unlink"]
  <1>1. /\ sweep[t].pc = "recheck" /\ keyLock = t
        /\ UNCHANGED <<head, rmeta, rfiles, adds, merged, confirmed, storing, uploading>>
    BY SweepHere DEF CleanReadsMeta
  <1>2. \/ sweep' = [sweep EXCEPT ![t] = IdleSweep] /\ keyLock' = "free"
        \/ /\ sweep' = [sweep EXCEPT ![t] = q] /\ UNCHANGED keyLock
           /\ ~Spared(sweep[t].file, rmeta)
    BY DEF CleanReadsMeta
  <1>3. CASE sweep' = [sweep EXCEPT ![t] = IdleSweep] /\ keyLock' = "free"
    BY <1>1, <1>3, SweepGivesUp DEF RecoveryInv, RecoveryTypeOK
  <1>4. CASE /\ sweep' = [sweep EXCEPT ![t] = q] /\ UNCHANGED keyLock
             /\ ~Spared(sweep[t].file, rmeta)
    <2>1. q \in Sweeping /\ q.pc = "unlink" /\ q.file = sweep[t].file
      BY SweepHere DEF Sweeping
    <2>2. q.file \notin rmeta.ranges
      BY <1>4, <2>1 DEF Spared
    <2> HIDE DEF q
    <2>3. SweepOK(t, q)
      BY <1>1, <1>4, <2>1, <2>2 DEF SweepOK
    <2> QED
      BY <1>1, <1>4, <2>3, SweepGoesOn
  <1> QED
    BY <1>2, <1>3, <1>4

LEMMA CleanUnlinksKeeps ==
    ASSUME RecoveryInv, NEW t \in Sweepers, CleanUnlinks(t)
    PROVE  RecoveryInv'
  <1>1. /\ keyLock = t /\ keyLock' = "free" /\ rfiles' \subseteq rfiles
        /\ sweep' = [sweep EXCEPT ![t] = IdleSweep]
        /\ UNCHANGED <<head, rmeta, adds, merged, confirmed, storing, uploading>>
    BY SweepHere DEF CleanUnlinks
  <1> QED
    BY <1>1, SweepGivesUp DEF RecoveryInv, RecoveryTypeOK

-----------------------------------------------------------------------------
(* The theorems                                                            *)

LEMMA RecoveryInitOK == RecoveryInit => RecoveryInv
  <1> SUFFICES ASSUME RecoveryInit PROVE RecoveryInv
    OBVIOUS
  <1>1. RecoveryTypeOK
    <2>1. "" \in Names /\ "legacy" \in Names
      BY DEF Names
    <2> QED
      BY <2>1, RecordFacts, HistoryFacts DEF RecoveryInit, RecoveryTypeOK
  <1>2. \A s \in Storers : Claims(storing[s])
    BY RecordFacts DEF RecoveryInit, Claims
  <1>3. KeyLockHeld /\ RecoversOwnVersion /\ \A t \in Sweepers : Doomed(t)
    BY RecordFacts DEF RecoveryInit, KeyLockHeld, RecoversOwnVersion, Doomed
  <1>4. RecoveredOfMetaVersion
    BY RecordFacts DEF RecoveryInit, RecoveredOfMetaVersion
  <1> QED
    BY <1>1, <1>2, <1>3, <1>4 DEF RecoveryInv

LEMMA RecoveryNextKeeps == RecoveryInv /\ [RecoveryNext]_recoveryVars => RecoveryInv'
  <1> SUFFICES ASSUME RecoveryInv, [RecoveryNext]_recoveryVars PROVE RecoveryInv'
    OBVIOUS
  <1>1. ASSUME NEW s \in Storers, StoreStep(s) PROVE RecoveryInv'
    BY <1>1, StoreArrivesKeeps, StoreConfirmedKeeps, StoreClaimsKeeps, StoreRefusedKeeps,
       StorePublishesKeeps, StoreEndsKeeps DEF StoreStep
  <1>2. ASSUME NEW t \in Sweepers, SweepStep(t) PROVE RecoveryInv'
    BY <1>2, SweepListsKeeps, SweepJudgesKeeps, AddReadsMetaKeeps, AddMismatchKeeps,
       AddWritesKeeps, AddWriteFailsKeeps, AddJournalsKeeps, CleanReadsJournalKeeps,
       CleanReadsMetaKeeps, CleanUnlinksKeeps DEF SweepStep
  <1>3. CASE UNCHANGED recoveryVars
    <2>1. UNCHANGED <<sweep, storing, keyLock, rmeta>> /\ RecoveryTypeOK'
      BY <1>3 DEF recoveryVars, RecoveryInv, RecoveryTypeOK
    <2> QED
      BY <2>1, MetaStays, MetaMoves
  <1> QED
    BY <1>1, <1>2, <1>3, ReplacedKeeps, UploadPublishesKeeps, UploadStoresMetaKeeps,
       ConsolidateKeeps, JournalKeeps, RemovalKeeps DEF RecoveryNext

\* The invariant that every step of the sweep and of the key's writers keeps.
THEOREM RecoveryInvariant == RecoverySpec => []RecoveryInv
  BY RecoveryInitOK, RecoveryNextKeeps, PTL DEF RecoverySpec

\* A .meta that names a version lists files of that version only, although the
\* sweep adds a file it judged against an earlier .meta (add_range_to_metadata,
\* write_immediate_only).
THEOREM RecoveredVersion == RecoverySpec => []RecoveredOfMetaVersion
  <1>1. RecoveryInv => RecoveredOfMetaVersion
    BY DEF RecoveryInv
  <1> QED
    BY <1>1, RecoveryInvariant, PTL

\* cleanup_invalid_orphan deletes no file that .meta lists by then, unless a PUT,
\* which takes no lock, wrote that .meta.
THEOREM CleanupSafe == RecoverySpec => CleanupSparesListed
  <1>1. RecoveryInv => \A t \in Sweepers :
                  LET f == sweep[t].file
                  IN  (sweep[t].pc = "unlink" /\ f \in rfiles \ rfiles' /\ f \in rmeta.ranges)
                        => rmeta.writeCached
    BY DEF RecoveryInv, Doomed
  <1> QED
    BY <1>1, RecoveryInvariant, PTL DEF CleanupSparesListed

=============================================================================
