--------------------------- MODULE MultipartUpload ---------------------------
(***************************************************************************)
(* One multipart upload through proxies that share a cache volume: the     *)
(* uploads of its parts, the task that stages each part's bytes and record *)
(* under part{N}.lock, and the finalization after S3 completed the object, *)
(* which takes upload.lock and no part lock.                               *)
(*                                                                         *)
(* An attempt stands for its bytes and their ETag; a client may attempt a  *)
(* part number more than once.  Removing the directory is one step.        *)
(***************************************************************************)
EXTENDS Naturals, FiniteSets

CONSTANTS
    MpuParts,        \* part numbers
    Tries,           \* attempts to upload a part: <<part number, attempt>>
    Completers,      \* CompleteMultipartUpload requests: the first and retries
    MaxGenerations   \* bound: how often the staging directory is made

ASSUME MultipartAssumption ==
    /\ MpuParts \subseteq Nat \ {0} /\ IsFiniteSet(MpuParts)
    /\ Tries \subseteq MpuParts \X (Nat \ {0}) /\ MaxGenerations \in Nat

VARIABLES
    stage,     \* the staging directory: exists, how many there were before,
               \* and the attempt in each part{N}.bin and part{N}.json
    partTask,  \* run_streaming_part_cache_write of every attempt
    s3Upload,  \* S3: the state of the upload, its parts, and the object made
    finish,    \* finalize_multipart_upload of every completer
    cachedAs,  \* the object in the cache: the old one, none, or the upload's
    mpuMishaps    \* history: what may come between a part's bytes and its record

mpuVars == <<stage, partTask, s3Upload, finish, cachedAs, mpuMishaps>>

NoAttempt == 0
NoParts == [p \in MpuParts |-> NoAttempt]
NoStage == [dir |-> FALSE, gen |-> 0, bin |-> NoParts, rec |-> NoParts]
NoTask == [pc |-> "idle", tmp |-> FALSE, lock |-> 0]
NoFinish == [pc |-> "idle", lock |-> 0, want |-> <<>>, seen |-> <<>>, moved |-> <<>>]

MpuInit ==
    /\ stage = NoStage
    /\ partTask = [t \in Tries |-> NoTask]
    /\ s3Upload = [state |-> "open", parts |-> NoParts, object |-> <<>>]
    /\ finish = [c \in Completers |-> NoFinish]
    /\ cachedAs = [what |-> "old", parts |-> <<>>]
    /\ mpuMishaps = {}

-----------------------------------------------------------------------------

WithDir == [stage EXCEPT !.dir = TRUE]
TaskAt(t, pc) == partTask[t].pc = pc
PartLocked(p, gen) ==
    \E t \in Tries : /\ t[1] = p /\ partTask[t].lock = gen
                    /\ partTask[t].pc \in {"locked", "published"}
UploadLocked(gen) ==
    \E c \in Completers : finish[c].pc \in {"load", "metalock", "move"} /\ finish[c].lock = gen

\* remove_dir_all: records, bytes and unpublished .tmp files go.
RemoveStage ==
    /\ stage' = [NoStage EXCEPT !.gen = stage.gen + 1]
    /\ partTask' = [t \in DOMAIN partTask |-> [partTask[t] EXCEPT !.tmp = FALSE]]

Finalizing(c) == finish[c].pc \in {"load", "metalock", "move"}

-----------------------------------------------------------------------------
(* CreateMultipartUpload and UploadPart                                    *)

CreateUpload ==
    /\ s3Upload.state = "open" /\ ~stage.dir /\ stage.gen = 0
    /\ stage' = WithDir
    /\ UNCHANGED <<partTask, s3Upload, finish, cachedAs, mpuMishaps>>

\* The part is forwarded, with its sink open or past the cache.
UploadPart(t) ==
    /\ TaskAt(t, "idle")
    /\ \E staged \in BOOLEAN :
        /\ partTask' = [partTask EXCEPT ![t] = [NoTask EXCEPT !.pc = "sent", !.tmp = staged]]
        /\ stage' = IF staged THEN WithDir ELSE stage
    /\ UNCHANGED <<s3Upload, finish, cachedAs, mpuMishaps>>

S3StoresPart(t) ==
    /\ TaskAt(t, "sent") /\ s3Upload.state = "open"
    /\ s3Upload' = [s3Upload EXCEPT !.parts[t[1]] = t[2]]
    /\ partTask' = [partTask EXCEPT ![t].pc = "stored"]
    /\ UNCHANGED <<stage, finish, cachedAs, mpuMishaps>>

\* S3 refused the part, the answer was lost, nothing was staged, or the staged
\* bytes are given up: a decode, write or capacity error, or a wrong length.
PartDiscarded(t) ==
    /\ partTask[t].pc \in {"sent", "stored"}
    /\ partTask' = [partTask EXCEPT ![t] = [NoTask EXCEPT !.pc = "done"]]
    /\ UNCHANGED <<stage, s3Upload, finish, cachedAs, mpuMishaps>>

\* finalize_and_record_cached_part: the directory may be made again here.
PartOpensLock(t) ==
    /\ TaskAt(t, "stored") /\ stage.gen <= MaxGenerations
    /\ stage' = WithDir
    /\ partTask' = [partTask EXCEPT ![t].pc = "opened", ![t].lock = stage.gen]
    /\ UNCHANGED <<s3Upload, finish, cachedAs, mpuMishaps>>

PartLocks(t) ==
    /\ TaskAt(t, "opened") /\ ~PartLocked(t[1], partTask[t].lock)
    /\ partTask' = [partTask EXCEPT ![t].pc = "locked"]
    /\ UNCHANGED <<stage, s3Upload, finish, cachedAs, mpuMishaps>>

\* sink.finalize renames the attempt's own .tmp, if it is still there.
PartPublishes(t) ==
    /\ TaskAt(t, "locked")
    /\ IF partTask[t].tmp /\ stage.dir
       THEN /\ stage' = [stage EXCEPT !.bin[t[1]] = t[2]]
            /\ partTask' = [partTask EXCEPT ![t].pc = "published", ![t].tmp = FALSE]
            /\ mpuMishaps' = IF \E c \in Completers : Finalizing(c) /\ t[1] \in DOMAIN finish[c].want
                          THEN mpuMishaps \cup {"part task beside finalization"} ELSE mpuMishaps
       ELSE /\ partTask' = [partTask EXCEPT ![t] = [NoTask EXCEPT !.pc = "done"]]
            /\ UNCHANGED <<stage, mpuMishaps>>
    /\ UNCHANGED <<s3Upload, finish, cachedAs>>

\* record_part_blocking, which fails when the directory is gone or on an I/O
\* error; the bytes stay.
PartRecords(t) ==
    /\ TaskAt(t, "published")
    /\ partTask' = [partTask EXCEPT ![t] = [NoTask EXCEPT !.pc = "done"]]
    /\ \/ stage.dir /\ stage' = [stage EXCEPT !.rec[t[1]] = t[2]] /\ UNCHANGED mpuMishaps
       \/ UNCHANGED stage /\ mpuMishaps' = mpuMishaps \cup {"record lost"}
    /\ UNCHANGED <<s3Upload, finish, cachedAs>>

-----------------------------------------------------------------------------
(* CompleteMultipartUpload and AbortMultipartUpload                        *)

\* S3 checks every ETag of the request against the part it holds, and answers
\* a retry as it answered the first request.  The proxy's reading of the body
\* finds the same parts, or none when the markup is not the plain one; a body
\* it cannot read at all skips finalization.
Complete(c) ==
    /\ finish[c].pc = "idle" /\ s3Upload.state # "aborted"
    /\ \E ps \in SUBSET {p \in MpuParts : s3Upload.parts[p] # NoAttempt} :
        /\ ps # {}
        /\ s3Upload.state = "completed" => ps = DOMAIN s3Upload.object
        /\ LET request == [p \in ps |-> s3Upload.parts[p]] IN
           /\ s3Upload' = [s3Upload EXCEPT !.state = "completed", !.object = request]
           /\ \E want \in {request, <<>>} :
               finish' = [finish EXCEPT ![c] = [NoFinish EXCEPT !.pc = "await", !.want = want]]
    /\ UNCHANGED <<stage, partTask, cachedAs, mpuMishaps>>

Returned(c) == finish' = [finish EXCEPT ![c] = [NoFinish EXCEPT !.pc = "done"]]

CompleteUnread(c) ==
    /\ finish[c].pc = "await"
    /\ Returned(c)
    /\ UNCHANGED <<stage, partTask, s3Upload, cachedAs, mpuMishaps>>

\* Without a directory there is nothing to do.  await_tracker_parts gives up
\* after MULTIPART_COMPLETE_CACHE_WAIT, so it never keeps the step from
\* happening.
FinalizeOpensLock(c) ==
    /\ finish[c].pc = "await"
    /\ IF stage.dir THEN finish' = [finish EXCEPT ![c].pc = "opened", ![c].lock = stage.gen]
                    ELSE Returned(c)
    /\ UNCHANGED <<stage, partTask, s3Upload, cachedAs, mpuMishaps>>

FinalizeLocks(c) ==
    /\ finish[c].pc = "opened" /\ ~UploadLocked(finish[c].lock)
    /\ finish' = [finish EXCEPT ![c].pc = "load"]
    /\ UNCHANGED <<stage, partTask, s3Upload, cachedAs, mpuMishaps>>

\* load_tracker_blocking reads one record after the other, under no part lock.
LoadRecord(c, p) ==
    /\ finish[c].pc = "load" /\ p \notin DOMAIN finish[c].seen
    /\ finish' = [finish EXCEPT ![c].seen = [q \in DOMAIN @ \cup {p} |->
                                    IF q = p THEN stage.rec[p] ELSE @[q]]]
    /\ mpuMishaps' = IF \E t \in Tries : t[1] = p /\ TaskAt(t, "published")
                  THEN mpuMishaps \cup {"part task beside finalization"} ELSE mpuMishaps
    /\ UNCHANGED <<stage, partTask, s3Upload, cachedAs>>

\* Seeded fault: the recorded ETags are not compared with the requested ones.
FaultEtagIgnored(c) == TRUE
EtagsAgree(c) == \A p \in DOMAIN finish[c].want : finish[c].seen[p] = finish[c].want[p]
Recorded(c) == {p \in MpuParts : finish[c].seen[p] # NoAttempt}

FinalizeChecks(c) ==
    /\ finish[c].pc = "load" /\ DOMAIN finish[c].seen = MpuParts
    /\ LET want == DOMAIN finish[c].want IN
       \/ \* nothing recorded, bytes missing, or another attempt recorded
          /\ \/ Recorded(c) = {}
             \/ want \subseteq Recorded(c) /\ \E p \in want : stage.bin[p] = NoAttempt
             \/ want \subseteq Recorded(c) /\ ~EtagsAgree(c)
          /\ RemoveStage /\ Returned(c)
       \/ \* a requested part has no record: the staging is kept
          /\ Recorded(c) # {} /\ ~(want \subseteq Recorded(c))
          /\ Returned(c) /\ UNCHANGED <<stage, partTask>>
       \/ \* the bytes of parts that were not requested are deleted
          /\ Recorded(c) # {} /\ want \subseteq Recorded(c)
          /\ \A p \in want : stage.bin[p] # NoAttempt
          /\ EtagsAgree(c)
          /\ stage' = [stage EXCEPT !.bin = [p \in MpuParts |->
                         IF p \in Recorded(c) \ want THEN NoAttempt ELSE @[p]]]
          /\ finish' = [finish EXCEPT ![c].pc = "metalock"]
          /\ UNCHANGED partTask
    /\ UNCHANGED <<s3Upload, cachedAs, mpuMishaps>>

\* The metadata lock of the object is taken and the old entry invalidated;
\* without the lock the staging is given up.
FinalizeInvalidates(c) ==
    /\ finish[c].pc = "metalock"
    /\ \/ /\ cachedAs' = [what |-> "none", parts |-> <<>>]
          /\ finish' = [finish EXCEPT ![c].pc = "move"]
          /\ UNCHANGED <<stage, partTask>>
       \/ RemoveStage /\ Returned(c) /\ UNCHANGED cachedAs
    /\ UNCHANGED <<s3Upload, mpuMishaps>>

\* Part by part, in order; a .bin that is gone is passed over.
FinalizeMoves(c, p) ==
    /\ finish[c].pc = "move" /\ p \in DOMAIN finish[c].want \ DOMAIN finish[c].moved
    /\ \A q \in DOMAIN finish[c].want \ DOMAIN finish[c].moved : p <= q
    /\ finish' = [finish EXCEPT ![c].moved = [q \in DOMAIN @ \cup {p} |->
                                    IF q = p THEN stage.bin[p] ELSE @[q]]]
    /\ stage' = [stage EXCEPT !.bin[p] = NoAttempt]
    /\ UNCHANGED <<partTask, s3Upload, cachedAs, mpuMishaps>>

\* A rename, or the write of .meta, fails: the moved files belong to nobody.
FinalizeFails(c) ==
    /\ finish[c].pc = "move"
    /\ Returned(c)
    /\ UNCHANGED <<stage, partTask, s3Upload, cachedAs, mpuMishaps>>

\* The number of parts in S3's ETag, compared only now; then .meta.
FinalizePublishes(c) ==
    /\ finish[c].pc = "move" /\ DOMAIN finish[c].moved = DOMAIN finish[c].want
    /\ IF Cardinality(DOMAIN s3Upload.object) = Cardinality(DOMAIN finish[c].want)
       THEN /\ cachedAs' = [what |-> "new", parts |-> finish[c].moved]
            /\ finish' = [finish EXCEPT ![c] = [NoFinish EXCEPT !.pc = "remove"]]
       ELSE Returned(c) /\ UNCHANGED cachedAs
    /\ UNCHANGED <<stage, partTask, s3Upload, mpuMishaps>>

FinalizeRemoves(c) ==
    /\ finish[c].pc = "remove"
    /\ RemoveStage /\ Returned(c)
    /\ UNCHANGED <<s3Upload, cachedAs, mpuMishaps>>

UnderFinalization == \E c \in Completers : Finalizing(c)
NoteRemoval ==
    mpuMishaps' = IF UnderFinalization THEN mpuMishaps \cup {"staging removed"} ELSE mpuMishaps

\* The staging is removed whatever S3 answers, and without upload.lock.
Abort ==
    /\ stage.dir
    /\ s3Upload' = IF s3Upload.state = "open" THEN [s3Upload EXCEPT !.state = "aborted"]
                   ELSE s3Upload
    /\ RemoveStage /\ NoteRemoval
    /\ UNCHANGED <<finish, cachedAs>>

\* evict_incomplete_uploads of a starting proxy: the lock is tried, given up,
\* and then the directory is emptied; or an abort that S3 did not take.
StageExpires ==
    /\ stage.dir
    /\ RemoveStage /\ NoteRemoval
    /\ UNCHANGED <<s3Upload, finish, cachedAs>>

MpuNext ==
    \/ CreateUpload
    \/ \E t \in Tries :
        \/ UploadPart(t) \/ S3StoresPart(t) \/ PartDiscarded(t)
        \/ PartOpensLock(t) \/ PartLocks(t) \/ PartPublishes(t) \/ PartRecords(t)
    \/ \E c \in Completers :
        \/ Complete(c) \/ CompleteUnread(c) \/ FinalizeOpensLock(c) \/ FinalizeLocks(c)
        \/ \E p \in MpuParts : LoadRecord(c, p) \/ FinalizeMoves(c, p)
        \/ FinalizeChecks(c) \/ FinalizeInvalidates(c) \/ FinalizeFails(c)
        \/ FinalizePublishes(c) \/ FinalizeRemoves(c)
    \/ Abort \/ StageExpires

MpuSpec == MpuInit /\ [][MpuNext]_mpuVars

-----------------------------------------------------------------------------

\* "a retried part with different bytes must never leave the on-disk file and
\* the recorded ETag disagreeing" (signed_put_handler.rs:1735).  What is
\* published under S3's ETag is, part for part, what S3 assembled, with as many
\* parts, however the attempts, their cache tasks, retried completions and
\* removals of the directory interleave; unless a part's record was lost after
\* its bytes were renamed, a part's task ran beside the finalization, which
\* does not take its lock, or the directory was removed under it.
PublishedAsAssembled ==
    mpuMishaps = {} /\ cachedAs.what = "new" => cachedAs.parts = s3Upload.object

=============================================================================
