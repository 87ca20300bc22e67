---------------------------- MODULE MetadataLock ----------------------------
(***************************************************************************)
(* MetadataLockManager: the per-key lock file `.meta.lock` that tasks of   *)
(* several proxy processes, on one or several hosts, contend for.          *)
(*                                                                         *)
(* Two mechanisms are layered.  In a process an async mutex per key (the   *)
(* guard) admits one attempt or holder at a time.  Between processes the   *)
(* attempt flocks the file it opened.  A flock belongs to an inode, while  *)
(* everything else the manager does (write and verify the content, judge   *)
(* staleness, break, unlink on drop) goes through the path, so the model   *)
(* keeps the two apart: `path` is the inode the path names, `content` what *)
(* that file holds.  (A file is only read through the path, so the content *)
(* of an unlinked one is not kept.)                                        *)
(***************************************************************************)
EXTENDS Naturals, FiniteSets

CONSTANTS
    Tasks,          \* tasks that lock this key
    Procs,          \* proxy processes
    HostOf,         \* the host of each process
    Deployments,    \* the process of each task; whether lock files are deleted
    MaxRetries,     \* MetadataLockManager::max_retries
    MaxEpoch,       \* bound: a lock with this epoch is not taken over again
    MaxPid,         \* bound: one more than the processes that die
    Ops             \* environment events enabled in this instance

Nobody == "nobody"
NoInode == 0
\* Every task refers to two inodes at most, and the path to one.
Inodes == 1..(2 * Cardinality(Tasks) + 1)
Epochs == 0..MaxEpoch
Pids == 1..MaxPid

\* LockFileContent; a file just created or truncated has no owner.
Content == [owner : Procs \cup {Nobody}, pid : 0..MaxPid, epoch : Epochs]
Empty == [owner |-> Nobody, pid |-> 0, epoch |-> 0]

Pcs == {"idle", "queued", "open", "flock", "stale", "break", "unlink",
        "overwrite", "refill", "recheck", "takeover", "reopen", "wait",
        "write", "fill", "verify", "held", "closing"}
\* ino: the open lock file; wino: the file being rewritten; epoch: the fence
\* epoch to write; tries: retries left.
Task == [pc : Pcs, ino : Inodes \cup {NoInode}, wino : Inodes \cup {NoInode},
         epoch : Epochs, tries : 0..MaxRetries]
IdleTask == [pc |-> "idle", ino |-> NoInode, wino |-> NoInode,
             epoch |-> 0, tries |-> 0]

OpNames == {"crash", "writeFailure", "timeout"}

ASSUME TasksAssumption == IsFiniteSet(Tasks) /\ Nobody \notin Tasks
ASSUME ProcsAssumption == Nobody \notin Procs
ASSUME DeploymentsAssumption ==
    Deployments \subseteq [proc : [Tasks -> Procs], unlinks : {"never", "possible"}]
ASSUME BoundsAssumption ==
    MaxRetries \in Nat /\ MaxEpoch \in Nat /\ MaxPid \in Nat \ {0}
ASSUME OpsAssumption == Ops \subseteq OpNames

VARIABLES
    proc,       \* the process of each task
    unlinks,    \* whether the key is ever invalidated or fully evicted
    path,       \* the inode at the lock path, or NoInode
    content,    \* the content of the file at the path
    flock,      \* the task whose open file holds the flock of each inode
    guard,      \* the task that holds each process's local mutex
    pid,        \* the current incarnation of each process
    task        \* the tasks

vars == <<proc, unlinks, path, content, flock, guard, pid, task>>

-----------------------------------------------------------------------------
(* The file system                                                         *)

Referenced == {path} \cup UNION {{task[t].ino, task[t].wino} : t \in Tasks}
\* open(O_CREAT): the inode at the path, or a new one.
OpenOrCreate ==
    IF path # NoInode THEN path
    ELSE CHOOSE i \in Inodes \ Referenced : TRUE

\* Closing a file drops the flock held through it.
Unlocked(t) == [i \in Inodes |-> IF flock[i] = t THEN Nobody ELSE flock[i]]

\* A write to an open inode: seen through the path if the path still names it.
WriteTo(i, c) == content' = IF i = path THEN c ELSE content

\* Seeded fault: the epoch is incremented once more when it is written.
FaultEpochOffByOne(t) ==
    [owner |-> proc[t], pid |-> pid[proc[t]], epoch |-> task[t].epoch + 1]

Mine(t) == [owner |-> proc[t], pid |-> pid[proc[t]], epoch |-> task[t].epoch]

Goto(t, pc) == task' = [task EXCEPT ![t].pc = pc]

-----------------------------------------------------------------------------
(* acquire_lock, try_acquire_lock                                          *)

\* acquire_lock queues for the local mutex.
Queue(t) ==
    /\ task[t].pc = "idle"
    /\ Goto(t, "queued")
    /\ UNCHANGED <<proc, unlinks, path, content, flock, guard, pid>>

\* Seeded fault: acquire_lock does not queue behind the local mutex.
FaultNoLocalQueue(t) ==
    /\ task[t].pc = "queued"
    /\ guard' = [guard EXCEPT ![proc[t]] = t]
    /\ task' = [task EXCEPT ![t] =
          [IdleTask EXCEPT !.pc = "open", !.tries = MaxRetries]]
    /\ UNCHANGED <<proc, unlinks, path, content, flock, pid>>

\* A queued task gets the mutex; its attempt may be repeated.
TakeGuard(t) ==
    /\ task[t].pc = "queued"
    /\ guard[proc[t]] = Nobody
    /\ guard' = [guard EXCEPT ![proc[t]] = t]
    /\ task' = [task EXCEPT ![t] =
          [IdleTask EXCEPT !.pc = "open", !.tries = MaxRetries]]
    /\ UNCHANGED <<proc, unlinks, path, content, flock, pid>>

\* try_acquire_lock: one attempt, and only if the mutex is free.
TryStart(t) ==
    /\ task[t].pc = "idle"
    /\ guard[proc[t]] = Nobody
    /\ guard' = [guard EXCEPT ![proc[t]] = t]
    /\ Goto(t, "open")
    /\ UNCHANGED <<proc, unlinks, path, content, flock, pid>>

\* An attempt ends in an error: the file is closed, and the attempt repeated
\* after a backoff or the mutex released.
FailWith(t, locks) ==
    /\ flock' = locks
    /\ IF task[t].tries > 0
       THEN /\ task' = [task EXCEPT ![t] =
                  [IdleTask EXCEPT !.pc = "open", !.tries = task[t].tries - 1]]
            /\ UNCHANGED guard
       ELSE /\ task' = [task EXCEPT ![t] = IdleTask]
            /\ guard' = [guard EXCEPT ![proc[t]] = Nobody]
Fail(t) == FailWith(t, Unlocked(t))

-----------------------------------------------------------------------------
(* try_acquire_lock_once                                                   *)

\* Open or create the lock file.
Open(t) ==
    /\ task[t].pc = "open"
    /\ LET i == OpenOrCreate IN
        /\ path' = i
        /\ content' = IF path = NoInode THEN Empty ELSE content
        /\ task' = [task EXCEPT ![t] = [@ EXCEPT !.pc = "flock", !.ino = i]]
    /\ UNCHANGED <<proc, unlinks, flock, guard, pid>>

\* try_lock_exclusive on the opened inode, whatever the path names by now.
\* Without the flock the open file is of no further use.
TryFlock(t) ==
    /\ task[t].pc = "flock"
    /\ IF flock[task[t].ino] = Nobody
       THEN /\ flock' = [flock EXCEPT ![task[t].ino] = t]
            /\ Goto(t, "write")
       ELSE /\ task' = [task EXCEPT ![t] =
                 [@ EXCEPT !.pc = "stale", !.ino = NoInode]]
            /\ UNCHANGED flock
    /\ UNCHANGED <<proc, unlinks, path, content, guard, pid>>

\* is_lock_stale: no file is stale; an empty one, or another host's, once the
\* timeout has passed (it may or may not have); on this host by PID.
TimedOut == IF "timeout" \in Ops THEN BOOLEAN ELSE {FALSE}
StaleVerdicts(t) ==
    IF path = NoInode THEN {TRUE}
    ELSE IF content.owner = Nobody THEN TimedOut
    ELSE IF HostOf[content.owner] = HostOf[proc[t]]
    THEN {content.pid # pid[content.owner]}
    ELSE TimedOut

CheckStale(t) ==
    /\ task[t].pc = "stale"
    /\ \E stale \in StaleVerdicts(t) :
        IF stale THEN Goto(t, "break") /\ UNCHANGED <<flock, guard>>
        ELSE Fail(t)
    /\ UNCHANGED <<proc, unlinks, path, content, pid>>

\* break_stale_lock reads the file again to choose how to break the lock.
BreakChoose(t) ==
    /\ task[t].pc = "break"
    /\ LET foreign == /\ path # NoInode
                      /\ content.owner # Nobody
                      /\ HostOf[content.owner] # HostOf[proc[t]]
       IN  IF ~foreign THEN Goto(t, "unlink") /\ UNCHANGED <<flock, guard>>
           ELSE IF content.epoch = MaxEpoch THEN Fail(t)  \* the bound
           ELSE /\ task' = [task EXCEPT ![t] =
                     [@ EXCEPT !.pc = "overwrite",
                               !.epoch = content.epoch + 1]]
                /\ UNCHANGED <<flock, guard>>
    /\ UNCHANGED <<proc, unlinks, path, content, pid>>

\* Same host or unparseable: delete the file, an error if it is gone.
BreakUnlink(t) ==
    /\ task[t].pc = "unlink"
    /\ IF path = NoInode THEN Fail(t) /\ UNCHANGED path
       ELSE /\ path' = NoInode
            /\ Goto(t, "takeover")
            /\ UNCHANGED <<flock, guard>>
    /\ content' = Empty
    /\ UNCHANGED <<proc, unlinks, pid>>

\* Another host's lock: truncate it in place.
BreakOverwrite(t) ==
    /\ task[t].pc = "overwrite"
    /\ IF path = NoInode THEN Fail(t) /\ UNCHANGED content
       ELSE /\ content' = Empty
            /\ task' = [task EXCEPT ![t] =
                 [@ EXCEPT !.pc = "refill", !.wino = path]]
            /\ UNCHANGED <<flock, guard>>
    /\ UNCHANGED <<proc, unlinks, path, pid>>

\* ... write the new epoch into it ...
BreakRefill(t) ==
    /\ task[t].pc = "refill"
    /\ WriteTo(task[t].wino, Mine(t))
    /\ task' = [task EXCEPT ![t] = [@ EXCEPT !.pc = "recheck", !.wino = NoInode]]
    /\ UNCHANGED <<proc, unlinks, path, flock, guard, pid>>

\* The path names a readable file with the epoch the task wrote.
EpochVerified(t) ==
    /\ path # NoInode
    /\ content.owner # Nobody
    /\ content.epoch = task[t].epoch

\* ... and re-read it through the path.
BreakVerify(t) ==
    /\ task[t].pc = "recheck"
    /\ IF EpochVerified(t) THEN Goto(t, "takeover") /\ UNCHANGED <<flock, guard>>
       ELSE Fail(t)
    /\ UNCHANGED <<proc, unlinks, path, content, pid>>

\* The lock was broken: read the epoch to take over with, 0 if there is none.
ReadTakeoverEpoch(t) ==
    /\ task[t].pc = "takeover"
    /\ task' = [task EXCEPT ![t] =
         [@ EXCEPT !.pc = "reopen",
                   !.epoch = IF path = NoInode THEN 0 ELSE content.epoch]]
    /\ UNCHANGED <<proc, unlinks, path, content, flock, guard, pid>>

\* Open the file again, truncating it.
Reopen(t) ==
    /\ task[t].pc = "reopen"
    /\ LET i == OpenOrCreate IN
        /\ path' = i
        /\ content' = Empty
        /\ task' = [task EXCEPT ![t] = [@ EXCEPT !.pc = "wait", !.ino = i]]
    /\ UNCHANGED <<proc, unlinks, flock, guard, pid>>

\* lock_exclusive: blocks until the inode's flock is free.
WaitFlock(t) ==
    /\ task[t].pc = "wait"
    /\ flock[task[t].ino] = Nobody
    /\ flock' = [flock EXCEPT ![task[t].ino] = t]
    /\ Goto(t, "write")
    /\ UNCHANGED <<proc, unlinks, path, content, guard, pid>>

-----------------------------------------------------------------------------
(* write_and_verify_lock_content                                           *)

\* Open the path, create the file if it is gone, truncate it.
WriteTruncate(t) ==
    /\ task[t].pc = "write"
    /\ LET i == OpenOrCreate IN
        /\ path' = i
        /\ content' = Empty
        /\ task' = [task EXCEPT ![t] = [@ EXCEPT !.pc = "fill", !.wino = i]]
    /\ UNCHANGED <<proc, unlinks, flock, guard, pid>>

\* Write and fsync; a failure unlinks the path and ends the attempt.
WriteContent(t) ==
    /\ task[t].pc = "fill"
    /\ \/ /\ WriteTo(task[t].wino, Mine(t))
          /\ task' = [task EXCEPT ![t] =
               [@ EXCEPT !.pc = "verify", !.wino = NoInode]]
          /\ UNCHANGED <<path, flock, guard>>
       \/ /\ "writeFailure" \in Ops
          /\ path' = NoInode
          /\ content' = Empty
          /\ Fail(t)
    /\ UNCHANGED <<proc, unlinks, pid>>

\* Re-read through the path; the same epoch makes the task the holder.
VerifyEpoch(t) ==
    /\ task[t].pc = "verify"
    /\ IF EpochVerified(t) THEN Goto(t, "held") /\ UNCHANGED <<flock, guard>>
       ELSE Fail(t)
    /\ UNCHANGED <<proc, unlinks, path, content, pid>>

-----------------------------------------------------------------------------
(* Drop for MetadataLock: the path, then the file, then the mutex          *)

\* Whatever file the path names is removed.
DropUnlink(t) ==
    /\ task[t].pc = "held"
    /\ path' = NoInode
    /\ content' = Empty
    /\ Goto(t, "closing")
    /\ UNCHANGED <<proc, unlinks, flock, guard, pid>>

\* Seeded fault: the mutex guard outlives the lock.
FaultGuardKept(t) ==
    /\ task[t].pc = "closing"
    /\ flock' = Unlocked(t)
    /\ task' = [task EXCEPT ![t] = IdleTask]
    /\ UNCHANGED <<proc, unlinks, path, content, guard, pid>>

\* The file is closed, and last of all the mutex released.
DropClose(t) ==
    /\ task[t].pc = "closing"
    /\ flock' = Unlocked(t)
    /\ guard' = [guard EXCEPT ![proc[t]] = Nobody]
    /\ task' = [task EXCEPT ![t] = IdleTask]
    /\ UNCHANGED <<proc, unlinks, path, content, pid>>

-----------------------------------------------------------------------------
(* Environment                                                             *)

\* A process dies and is restarted with a new PID: its tasks are gone and the
\* kernel closes its files.
Crash(p) ==
    /\ "crash" \in Ops
    /\ \E t \in Tasks : proc[t] = p
    /\ \E new \in Pids : /\ \A q \in Procs : pid[q] < new
                         /\ pid' = [pid EXCEPT ![p] = new]
    /\ LET dead == {t \in Tasks : proc[t] = p} IN
        /\ task' = [t \in Tasks |-> IF t \in dead THEN IdleTask ELSE task[t]]
        /\ flock' = [i \in Inodes |-> IF flock[i] \in dead THEN Nobody
                                      ELSE flock[i]]
    /\ guard' = [guard EXCEPT ![p] = Nobody]
    /\ UNCHANGED <<proc, unlinks, path, content>>

\* Invalidation and the eviction of a last range delete the lock file.
ForeignUnlink ==
    /\ unlinks = "possible"
    /\ path # NoInode
    /\ path' = NoInode
    /\ content' = Empty
    /\ UNCHANGED <<proc, unlinks, flock, guard, pid, task>>

-----------------------------------------------------------------------------
Init ==
    /\ \E d \in Deployments : proc = d.proc /\ unlinks = d.unlinks
    /\ path = NoInode
    /\ content = Empty
    /\ flock = [i \in Inodes |-> Nobody]
    /\ guard = [p \in Procs |-> Nobody]
    /\ pid = [p \in Procs |-> 1]
    /\ task = [t \in Tasks |-> IdleTask]

AttemptStep(t) ==
    \/ Open(t) \/ TryFlock(t) \/ CheckStale(t) \/ BreakChoose(t)
    \/ BreakUnlink(t) \/ BreakOverwrite(t) \/ BreakRefill(t)
    \/ BreakVerify(t) \/ ReadTakeoverEpoch(t) \/ Reopen(t)
    \/ WriteTruncate(t) \/ WriteContent(t) \/ VerifyEpoch(t)
BlockingStep(t) == TakeGuard(t) \/ WaitFlock(t)
DropStep(t) == DropUnlink(t) \/ DropClose(t)

Next ==
    \/ \E t \in Tasks : \/ Queue(t) \/ TryStart(t)
                        \/ AttemptStep(t) \/ BlockingStep(t) \/ DropStep(t)
    \/ \E p \in Procs : Crash(p)
    \/ ForeignUnlink

\* A started attempt keeps running, a holder finishes its critical section,
\* and neither the mutex (first in, first out) nor the kernel's flock starves
\* a waiter for ever.
Fairness ==
    \A t \in Tasks : /\ WF_vars(AttemptStep(t))
                     /\ WF_vars(DropStep(t))
                     /\ SF_vars(TakeGuard(t))
                     /\ SF_vars(WaitFlock(t))

Spec == Init /\ [][Next]_vars
FairSpec == Spec /\ Fairness

-----------------------------------------------------------------------------
(* Properties                                                              *)

\* Every variable stays in its domain: epochs written to the lock file are
\* ones a takeover computed, and inodes and pids suffice.
TypeOK ==
    /\ proc \in [Tasks -> Procs]
    /\ unlinks \in {"never", "possible"}
    /\ path \in Inodes \cup {NoInode}
    /\ content \in Content
    /\ flock \in [Inodes -> Tasks \cup {Nobody}]
    /\ guard \in [Procs -> Tasks \cup {Nobody}]
    /\ pid \in [Procs -> Pids]
    /\ task \in [Tasks -> Task]

Holds(t) == task[t].pc = "held"

\* acquire_lock's promise, "an exclusive metadata lock": at most one task is
\* in the critical section.
Exclusive == \A t, u \in Tasks : Holds(t) /\ Holds(u) => t = u

OneProcess == \A t, u \in Tasks : proc[t] = proc[u]

\* While one process uses the volume and nothing else deletes lock files, the
\* lock is exclusive, every open lock file is the one the path names (so no
\* attempt locks an inode that has been unlinked), and no attempt meets a
\* locked file or breaks a lock: the mutex is released only after the file.
SingleProcessLock ==
    OneProcess /\ unlinks = "never" =>
        /\ Exclusive
        /\ \A t \in Tasks :
            /\ task[t].pc \in {"flock", "write", "fill", "verify", "held"}
                 => path = task[t].ino
            /\ task[t].pc \notin {"stale", "break", "unlink", "overwrite",
                                  "takeover", "reopen", "wait"}

\* Every attempt ends, with the lock or with an error: neither the bounded
\* retries, nor the blocking flock of a takeover while the local mutex is held,
\* nor a holder's death leaves a task waiting for ever.
AttemptEnds ==
    \A t \in Tasks : task[t].pc # "idle" ~> task[t].pc \in {"idle", "held"}
=============================================================================
