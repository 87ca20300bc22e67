------------------------- MODULE MetadataLockProofs -------------------------
(***************************************************************************)
(* For any number of tasks, processes, hosts, retries and deaths: the      *)
(* variables keep their types (the inodes of the model suffice), and while *)
(* one process uses the volume and nothing else deletes lock files, the    *)
(* lock excludes.                                                          *)
(***************************************************************************)
EXTENDS MetadataLock, FiniteSetTheorems, TLAPS

Active(k) == k.pc \notin {"idle", "queued"}
Locking(k) == k.pc \in {"write", "fill", "verify", "held", "closing"}
OnPath(k) == k.pc \in {"flock", "write", "fill", "verify", "held"}
HasFile(k) == OnPath(k) \/ k.pc = "wait"
BreakSteps == {"break", "unlink", "overwrite", "refill", "recheck", "takeover",
               "reopen"}
Breaking(k) == k.pc \in BreakSteps \cup {"stale", "wait"}

\* From its attempt's start to the drop, a task holds its process's mutex.
GuardHeld == \A t \in Tasks : Active(task[t]) => guard[proc[t]] = t

\* A flock is held through the file its holder has open, and only there.
FlockOwned ==
    \A i \in Inodes, t \in Tasks :
        flock[i] = t => Locking(task[t]) /\ task[t].ino = i

\* An open lock file is an inode.
OpenFiles == \A t \in Tasks : HasFile(task[t]) => task[t].ino \in Inodes

\* With one process and no foreign unlink, an attempt works on the file the
\* path names and never has to break a lock.
AloneOnPath ==
    OneProcess /\ unlinks = "never" =>
        \A t \in Tasks : /\ OnPath(task[t]) => path = task[t].ino
                         /\ ~Breaking(task[t])

\* The inductive strengthening of SingleProcessLock.
IInv ==
    /\ TypeOK
    /\ GuardHeld
    /\ FlockOwned
    /\ OpenFiles
    /\ AloneOnPath

-----------------------------------------------------------------------------
(* Facts about the operators                                               *)

LEMMA ConstantTypes ==
    /\ NoInode \notin Inodes /\ Empty \in Content /\ IdleTask \in Task
    /\ Cardinality(Tasks) \in Nat /\ Inodes \subseteq Nat
    /\ 0 \in Epochs /\ 1 \in Pids /\ 0 \in 0..MaxRetries
  <1>1. Cardinality(Tasks) \in Nat
    BY TasksAssumption, FS_CardinalityType
  <1> QED
    BY <1>1, BoundsAssumption DEF NoInode, Inodes, Empty, Content, IdleTask, Task,
       Pcs, Epochs, Pids

LEMMA IdleTaskFields ==
    /\ IdleTask.pc = "idle" /\ IdleTask.ino = NoInode
    /\ \A n \in 0..MaxRetries :
        LET k == [IdleTask EXCEPT !.pc = "open", !.tries = n] IN
        k \in Task /\ k.pc = "open"
  <1>1. IdleTask.pc = "idle" /\ IdleTask.ino = NoInode
    BY DEF IdleTask
  <1>2. ASSUME NEW n \in 0..MaxRetries
        PROVE  LET k == [IdleTask EXCEPT !.pc = "open", !.tries = n] IN
               k \in Task /\ k.pc = "open"
    BY ConstantTypes DEF IdleTask, Task, Pcs
  <1> QED
    BY <1>1, <1>2

\* What a task writes into the lock file is lock content.
LEMMA MineType ==
    ASSUME TypeOK, NEW t \in Tasks
    PROVE  Mine(t) \in Content
  BY BoundsAssumption DEF TypeOK, Mine, Content, Pids, Task

\* The tasks refer to at most two inodes each: if the path names none, one of
\* the model's inodes is free.
LEMMA FreshInode ==
    ASSUME TypeOK
    PROVE  /\ OpenOrCreate \in Inodes
           /\ path # NoInode => OpenOrCreate = path
  <1> DEFINE D == Tasks \X (1..2)
             U == UNION {{task[t].ino, task[t].wino} : t \in Tasks}
             f == [x \in D |-> IF x[2] = 1 THEN task[x[1]].ino ELSE task[x[1]].wino]
             n == Cardinality(Tasks)
  <1>1. CASE path # NoInode
    BY <1>1 DEF OpenOrCreate, TypeOK
  <1>2. CASE path = NoInode
    <2>1. IsFiniteSet(1..2) /\ Cardinality(1..2) = 2
      <3>1. 1 \in Int /\ 2 \in Int
        OBVIOUS
      <3>2. IsFiniteSet(1..2) /\ Cardinality(1..2) = IF 1 > 2 THEN 0 ELSE 2 - 1 + 1
        BY <3>1, FS_Interval, Zenon
      <3> QED
        BY <3>2
    <2>2. IsFiniteSet(D) /\ Cardinality(D) = n * 2
      BY <2>1, TasksAssumption, FS_Product
    <2>3. f \in Surjection(D, U)
      <3>1. f \in [D -> U]
        OBVIOUS
      <3>2. ASSUME NEW u \in U PROVE \E x \in D : f[x] = u
        <4>1. PICK t \in Tasks : u = task[t].ino \/ u = task[t].wino
          OBVIOUS
        <4>2. /\ <<t, 1>> \in D /\ <<t, 2>> \in D
              /\ f[<<t, 1>>] = task[t].ino /\ f[<<t, 2>>] = task[t].wino
          OBVIOUS
        <4> QED
          BY <4>1, <4>2
      <3> QED
        BY <3>1, <3>2 DEF Surjection
    <2> HIDE DEF f, D, U
    <2>4. IsFiniteSet(U) /\ Cardinality(U) <= n * 2
      BY <2>2, <2>3, FS_Surjection
    <2>5. n \in Nat /\ Cardinality(U) \in Nat
      BY <2>4, ConstantTypes, FS_CardinalityType
    <2>6. Cardinality(Inodes) = 2 * n + 1
      BY <2>5, FS_Interval DEF Inodes
    <2>7. ~(Inodes \subseteq U)
      <3>1. SUFFICES ASSUME Inodes \subseteq U PROVE FALSE
        OBVIOUS
      <3>2. Cardinality(Inodes) <= Cardinality(U)
        BY <2>4, <3>1, FS_Subset
      <3> QED
        BY <2>4, <2>5, <2>6, <3>2
    <2>8. Referenced = {path} \cup U
      BY DEF Referenced, U
    <2>9. PICK i : i \in Inodes \ Referenced
      BY <1>2, <2>7, <2>8, ConstantTypes
    <2>10. (CHOOSE j \in Inodes \ Referenced : TRUE) \in Inodes \ Referenced
      BY <2>9
    <2> QED
      BY <1>2, <2>10 DEF OpenOrCreate
  <1> QED
    BY <1>1, <1>2

\* Two active tasks of one process are one.
LEMMA OneActive ==
    ASSUME GuardHeld, NEW t \in Tasks, NEW u \in Tasks,
           Active(task[t]), Active(task[u]), OneProcess
    PROVE  t = u
  BY DEF GuardHeld, OneProcess

-----------------------------------------------------------------------------
(* The shapes of a step                                                    *)

\* An attempt moves on: its process keeps the mutex, and what it does to the
\* path and the flocks is described by its new state r.
LEMMA AttemptMoves ==
    ASSUME IInv, NEW t \in Tasks, NEW r \in Task,
           task' = [task EXCEPT ![t] = r], Active(task[t]), Active(r),
           UNCHANGED <<proc, unlinks, pid, guard>>,
           flock' \in [Inodes -> Tasks \cup {Nobody}],
           \A i \in Inodes : flock'[i] # flock[i] => flock'[i] \in {t, Nobody},
           \A i \in Inodes : flock'[i] = t => Locking(r) /\ r.ino = i,
           path' \in Inodes \cup {NoInode}, content' \in Content,
           HasFile(r) => r.ino \in Inodes,
           OneProcess /\ unlinks = "never" =>
               (OnPath(r) => path' = r.ino) /\ ~Breaking(r)
    PROVE  IInv'
  <1>0. task \in [Tasks -> Task] /\ task'[t] = r
        /\ \A u \in Tasks : u # t => task'[u] = task[u]
    BY DEF IInv, TypeOK
  <1>1. TypeOK'
    BY <1>0 DEF IInv, TypeOK
  <1>2. GuardHeld'
    BY <1>0 DEF IInv, GuardHeld
  <1>3. FlockOwned'
    BY <1>0, TasksAssumption DEF IInv, FlockOwned
  <1>4. OpenFiles'
    BY <1>0 DEF IInv, OpenFiles
  <1>5. AloneOnPath'
    <2> SUFFICES ASSUME OneProcess', unlinks' = "never", NEW u \in Tasks
                 PROVE  (OnPath(task'[u]) => path' = task'[u].ino) /\ ~Breaking(task'[u])
      BY DEF AloneOnPath
    <2>1. OneProcess /\ unlinks = "never"
      BY DEF OneProcess
    <2>2. CASE u = t
      BY <1>0, <2>1, <2>2
    <2>3. CASE u # t
      <3>1. ~Active(task[u])
        BY <2>1, <2>3, OneActive DEF IInv
      <3> QED
        BY <1>0, <2>3, <3>1 DEF Active, OnPath, Breaking, BreakSteps
    <2> QED
      BY <2>2, <2>3
  <1> QED
    BY <1>1, <1>2, <1>3, <1>4, <1>5 DEF IInv

\* An attempt or a holder ends, or starts over: its flocks are gone.
LEMMA AttemptEnded ==
    ASSUME IInv, NEW t \in Tasks, NEW r \in Task, Active(task[t]),
           task' = [task EXCEPT ![t] = r],
           \/ r.pc = "open" /\ UNCHANGED guard
           \/ r.pc = "idle" /\ guard' = [guard EXCEPT ![proc[t]] = Nobody],
           UNCHANGED <<proc, unlinks, pid>>,
           flock' = Unlocked(t),
           path' \in Inodes \cup {NoInode}, content' \in Content
    PROVE  IInv'
  <1>0. task \in [Tasks -> Task] /\ task'[t] = r
        /\ (\A u \in Tasks : u # t => task'[u] = task[u])
        /\ guard \in [Procs -> Tasks \cup {Nobody}] /\ proc \in [Tasks -> Procs]
        /\ flock \in [Inodes -> Tasks \cup {Nobody}]
    BY DEF IInv, TypeOK
  <1>1. TypeOK'
    BY <1>0 DEF IInv, TypeOK, Unlocked
  <1>2. GuardHeld'
    <2> SUFFICES ASSUME NEW u \in Tasks, Active(task'[u])
                 PROVE  guard'[proc[u]] = u
      BY DEF GuardHeld
    <2>1. CASE u = t
      BY <1>0, <2>1 DEF Active, IInv, GuardHeld
    <2>2. CASE u # t
      <3>1. guard[proc[u]] = u /\ guard[proc[t]] = t
        BY <1>0, <2>2 DEF IInv, GuardHeld
      <3> QED
        BY <1>0, <2>2, <3>1
    <2> QED
      BY <2>1, <2>2
  <1>3. FlockOwned'
    BY <1>0, TasksAssumption DEF IInv, FlockOwned, Unlocked
  <1>4. OpenFiles'
    BY <1>0 DEF IInv, OpenFiles, HasFile, OnPath
  <1>5. AloneOnPath'
    <2> SUFFICES ASSUME OneProcess', unlinks' = "never", NEW u \in Tasks
                 PROVE  ~OnPath(task'[u]) /\ ~Breaking(task'[u])
      BY DEF AloneOnPath
    <2>1. OneProcess
      BY DEF OneProcess
    <2>2. CASE u = t
      BY <1>0, <2>2 DEF OnPath, Breaking, BreakSteps
    <2>3. CASE u # t
      <3>1. ~Active(task[u])
        BY <2>1, <2>3, OneActive DEF IInv
      <3> QED
        BY <1>0, <2>3, <3>1 DEF Active, OnPath, Breaking, BreakSteps
    <2> QED
      BY <2>2, <2>3
  <1> QED
    BY <1>1, <1>2, <1>3, <1>4, <1>5 DEF IInv

LEMMA FailKeepsIInv ==
    ASSUME IInv, NEW t \in Tasks, Active(task[t]), Fail(t),
           UNCHANGED <<proc, unlinks, pid>>,
           path' \in Inodes \cup {NoInode}, content' \in Content
    PROVE  IInv'
  <1>0. task[t].tries \in 0..MaxRetries /\ flock' = Unlocked(t)
    BY DEF IInv, TypeOK, Task, Fail, FailWith
  <1>1. CASE task[t].tries > 0
    <2> DEFINE r == [IdleTask EXCEPT !.pc = "open", !.tries = task[t].tries - 1]
    <2>1. task' = [task EXCEPT ![t] = r] /\ UNCHANGED guard
      BY <1>1 DEF Fail, FailWith
    <2>2. task[t].tries - 1 \in 0..MaxRetries
      BY <1>0, <1>1, BoundsAssumption
    <2>3. r \in Task /\ r.pc = "open"
      BY <2>2, IdleTaskFields
    <2> HIDE DEF r
    <2> QED
      BY <1>0, <2>1, <2>3, AttemptEnded
  <1>2. CASE ~(task[t].tries > 0)
    <2>1. task' = [task EXCEPT ![t] = IdleTask] /\ guard' = [guard EXCEPT ![proc[t]] = Nobody]
      BY <1>2 DEF Fail, FailWith
    <2> QED
      BY <1>0, <2>1, AttemptEnded, IdleTaskFields, ConstantTypes
  <1> QED
    BY <1>1, <1>2

-----------------------------------------------------------------------------
(* The invariant holds initially and is kept by every step                 *)

LEMMA InitIInv == Init => IInv
  <1> SUFFICES ASSUME Init PROVE IInv
    OBVIOUS
  <1>1. proc \in [Tasks -> Procs] /\ unlinks \in {"never", "possible"}
    BY DeploymentsAssumption DEF Init
  <1>2. TypeOK
    BY <1>1, ConstantTypes DEF Init, TypeOK
  <1> QED
    BY <1>2, IdleTaskFields, TasksAssumption DEF Init, IInv, GuardHeld, FlockOwned,
       OpenFiles, AloneOnPath, Active, HasFile, OnPath, Breaking, BreakSteps

\* The local mutex: queued tasks are not yet attempts, and an attempt starts
\* only when its process's mutex is free.
LEMMA StartKeepsIInv ==
    ASSUME IInv, NEW t \in Tasks, Queue(t) \/ TakeGuard(t) \/ TryStart(t)
    PROVE  IInv'
  <1>0. /\ task \in [Tasks -> Task] /\ task[t] \in Task
        /\ guard \in [Procs -> Tasks \cup {Nobody}] /\ proc \in [Tasks -> Procs]
        /\ ~Active(task[t]) /\ ~Locking(task[t])
        /\ UNCHANGED <<proc, unlinks, path, content, flock, pid>>
    BY DEF IInv, TypeOK, Active, Locking, Queue, TakeGuard, TryStart
  <1>1. \A i \in Inodes : flock[i] # t
    BY <1>0 DEF IInv, FlockOwned
  <1>2. PICK r \in Task :
          /\ task' = [task EXCEPT ![t] = r]
          /\ \/ r.pc = "queued" /\ UNCHANGED guard
             \/ /\ r.pc = "open" /\ guard[proc[t]] = Nobody
                /\ guard' = [guard EXCEPT ![proc[t]] = t]
    <2>1. CASE Queue(t) \/ TryStart(t)
      <3> DEFINE r(pc) == [task[t] EXCEPT !.pc = pc]
      <3>1. \A pc \in Pcs : r(pc) \in Task /\ r(pc).pc = pc
        BY <1>0 DEF Task
      <3>2. "queued" \in Pcs /\ "open" \in Pcs
        BY DEF Pcs
      <3> QED
        BY <2>1, <3>1, <3>2 DEF Queue, TryStart, Goto
    <2>2. CASE TakeGuard(t)
      <3>1. MaxRetries \in 0..MaxRetries
        BY BoundsAssumption
      <3> QED
        BY <2>2, <3>1, IdleTaskFields DEF TakeGuard
    <2> QED
      BY <2>1, <2>2
  <1>3. task'[t] = r /\ \A u \in Tasks : u # t => task'[u] = task[u]
    BY <1>0, <1>2
  <1>4. TypeOK'
    BY <1>0, <1>2 DEF IInv, TypeOK
  <1>5. GuardHeld'
    <2> SUFFICES ASSUME NEW u \in Tasks, Active(task'[u])
                 PROVE  guard'[proc[u]] = u
      BY <1>0 DEF GuardHeld
    <2>1. CASE u = t
      BY <1>0, <1>2, <1>3, <2>1 DEF Active
    <2>2. CASE u # t
      <3>1. guard[proc[u]] = u
        BY <1>3, <2>2 DEF IInv, GuardHeld
      <3> QED
        BY <1>0, <1>2, <3>1, TasksAssumption
    <2> QED
      BY <2>1, <2>2
  <1>6. FlockOwned'
    BY <1>0, <1>1, <1>3 DEF IInv, FlockOwned
  <1>7. ~HasFile(r) /\ ~OnPath(r) /\ ~Breaking(r)
    BY <1>2 DEF HasFile, OnPath, Breaking, BreakSteps
  <1>8. OpenFiles' /\ AloneOnPath'
    BY <1>0, <1>3, <1>7 DEF IInv, OpenFiles, AloneOnPath, OneProcess
  <1> QED
    BY <1>4, <1>5, <1>6, <1>8 DEF IInv

\* Opening the lock file and locking the inode that was opened.
LEMMA OpenKeepsIInv ==
    ASSUME IInv, NEW t \in Tasks,
           \/ Open(t) \/ TryFlock(t) \/ Reopen(t) \/ WaitFlock(t)
    PROVE  IInv'
  <1>0. /\ TypeOK /\ task[t] \in Task
        /\ path \in Inodes \cup {NoInode} /\ content \in Content
        /\ flock \in [Inodes -> Tasks \cup {Nobody}]
        /\ Active(task[t]) /\ UNCHANGED <<proc, unlinks, pid, guard>>
        /\ OpenOrCreate \in Inodes
    BY FreshInode DEF IInv, TypeOK, Active, Open, TryFlock, Reopen, WaitFlock
  <1>1. CASE Open(t) \/ Reopen(t)
    <2>1. PICK pc \in {"flock", "wait"} :
            /\ task' = [task EXCEPT ![t] = [@ EXCEPT !.pc = pc, !.ino = OpenOrCreate]]
            /\ pc = "wait" => task[t].pc = "reopen"
      BY <1>1 DEF Open, Reopen
    <2>2. /\ path' = OpenOrCreate /\ content' \in Content /\ UNCHANGED flock
          /\ ~Locking(task[t])
      BY <1>0, <1>1, ConstantTypes DEF Open, Reopen, Locking
    <2> DEFINE r == [task[t] EXCEPT !.pc = pc, !.ino = OpenOrCreate]
    <2>3. r \in Task /\ r.pc = pc /\ r.ino = OpenOrCreate
      BY <1>0 DEF Task, Pcs
    <2>4. task' = [task EXCEPT ![t] = r]
      BY <2>1
    <2> HIDE DEF r
    <2>5. \A i \in Inodes : flock[i] # t
      BY <2>2 DEF IInv, FlockOwned
    <2>6. OneProcess /\ unlinks = "never" => pc = "flock"
      BY <2>1 DEF IInv, AloneOnPath, Breaking, BreakSteps, BreakSteps
    <2> QED
      BY <1>0, <2>2, <2>3, <2>4, <2>5, <2>6, AttemptMoves
         DEF Active, HasFile, OnPath, Breaking, BreakSteps
  <1>2. CASE WaitFlock(t) \/ (TryFlock(t) /\ flock[task[t].ino] = Nobody)
    <2>1. /\ task' = [task EXCEPT ![t] = [@ EXCEPT !.pc = "write"]]
          /\ flock' = [flock EXCEPT ![task[t].ino] = t]
          /\ UNCHANGED <<path, content>> /\ ~Locking(task[t])
          /\ task[t].pc \in {"flock", "wait"}
      BY <1>2 DEF WaitFlock, TryFlock, Goto, Locking
    <2> DEFINE r == [task[t] EXCEPT !.pc = "write"]
    <2>2. r \in Task /\ r.pc = "write" /\ r.ino = task[t].ino
      BY <1>0 DEF Task, Pcs
    <2>3. task' = [task EXCEPT ![t] = r]
      BY <2>1
    <2> HIDE DEF r
    <2>4. task[t].ino \in Inodes
      BY <2>1 DEF IInv, OpenFiles, HasFile, OnPath
    <2>5. \A i \in Inodes : flock'[i] = IF i = task[t].ino THEN t ELSE flock[i]
      BY <1>0, <2>1, <2>4
    <2>6. \A i \in Inodes : flock[i] # t
      BY <2>1 DEF IInv, FlockOwned
    <2>7. flock' \in [Inodes -> Tasks \cup {Nobody}]
      BY <1>0, <2>1
    <2>8. OneProcess /\ unlinks = "never" => path = task[t].ino
      BY <2>1 DEF IInv, AloneOnPath, OnPath, Breaking, BreakSteps
    <2>9. Active(r) /\ Locking(r) /\ ~Breaking(r)
      BY <2>2 DEF Active, Locking, Breaking, BreakSteps
    <2>10. \A i \in Inodes : /\ flock'[i] # flock[i] => flock'[i] \in {t, Nobody}
                             /\ flock'[i] = t => Locking(r) /\ r.ino = i
      BY <2>2, <2>5, <2>6, <2>9
    <2> QED
      <3>1. /\ path' \in Inodes \cup {NoInode} /\ content' \in Content
            /\ UNCHANGED <<proc, unlinks, pid, guard>> /\ Active(task[t])
        BY <1>0, <2>1
      <3>2. /\ HasFile(r) => r.ino \in Inodes
            /\ OneProcess /\ unlinks = "never" =>
                 (OnPath(r) => path' = r.ino) /\ ~Breaking(r)
        BY <2>1, <2>2, <2>4, <2>8, <2>9
      <3> HIDE DEF r
      <3> QED
        BY <2>2, <2>3, <2>7, <2>9, <2>10, <3>1, <3>2, AttemptMoves
  <1>3. CASE TryFlock(t) /\ flock[task[t].ino] # Nobody
    <2>1. /\ task' = [task EXCEPT ![t] = [@ EXCEPT !.pc = "stale", !.ino = NoInode]]
          /\ UNCHANGED <<path, content, flock>> /\ task[t].pc = "flock"
      BY <1>3 DEF TryFlock
    <2> DEFINE r == [task[t] EXCEPT !.pc = "stale", !.ino = NoInode]
    <2>2. r \in Task /\ r.pc = "stale"
      BY <1>0 DEF Task, Pcs
    <2>3. task' = [task EXCEPT ![t] = r]
      BY <2>1
    <2> HIDE DEF r
    <2>4. \A i \in Inodes : flock[i] # t
      BY <2>1 DEF IInv, FlockOwned, Locking
    <2>5. task[t].ino \in Inodes
      BY <2>1 DEF IInv, OpenFiles, HasFile, OnPath
    <2>6. PICK u \in Tasks : flock[task[t].ino] = u
      BY <1>0, <1>3, <2>5
    <2>7. Active(task[u]) /\ u # t
      BY <2>4, <2>5, <2>6 DEF IInv, FlockOwned, Locking, Active
    <2>8. ~OneProcess
      BY <1>0, <2>7, OneActive DEF IInv
    <2> QED
      BY <1>0, <2>1, <2>2, <2>3, <2>4, <2>8, AttemptMoves
         DEF Active, Locking, HasFile, OnPath, Breaking, BreakSteps
  <1> QED
    BY <1>1, <1>2, <1>3

\* Breaking a lock: never reached by the only process of a volume.
LEMMA BreakKeepsIInv ==
    ASSUME IInv, NEW t \in Tasks,
           \/ CheckStale(t) \/ BreakChoose(t) \/ BreakUnlink(t) \/ BreakOverwrite(t)
           \/ BreakRefill(t) \/ BreakVerify(t) \/ ReadTakeoverEpoch(t)
    PROVE  IInv'
  <1>0. /\ TypeOK /\ task[t] \in Task
        /\ path \in Inodes \cup {NoInode} /\ content \in Content
        /\ flock \in [Inodes -> Tasks \cup {Nobody}]
        /\ Active(task[t]) /\ ~Locking(task[t]) /\ UNCHANGED <<proc, unlinks, pid>>
    BY DEF IInv, TypeOK, Active, Locking, CheckStale, BreakChoose, BreakUnlink,
       BreakOverwrite, BreakRefill, BreakVerify, ReadTakeoverEpoch
  <1>1. \A i \in Inodes : flock[i] # t
    BY <1>0 DEF IInv, FlockOwned
  <1>2. path' \in Inodes \cup {NoInode} /\ content' \in Content
    BY <1>0, ConstantTypes, MineType DEF CheckStale, BreakChoose, BreakUnlink,
       BreakOverwrite, BreakRefill, BreakVerify, ReadTakeoverEpoch, WriteTo
  <1>3. \/ Fail(t)
        \/ /\ UNCHANGED <<flock, guard>>
           /\ \E r \in Task :
                /\ task' = [task EXCEPT ![t] = r]
                /\ r.pc \in BreakSteps
    <2>1. \A pc \in Pcs : LET r == [task[t] EXCEPT !.pc = pc] IN r \in Task /\ r.pc = pc
      BY <1>0 DEF Task
    <2>2. {"break", "unlink", "overwrite", "refill", "recheck", "takeover", "reopen"}
            \subseteq Pcs
      BY DEF Pcs
    <2>3. CASE CheckStale(t)
      BY <2>1, <2>2, <2>3 DEF CheckStale, Goto, BreakSteps
    <2>4. CASE BreakChoose(t)
      <3>1. CASE Fail(t) \/ (Goto(t, "unlink") /\ UNCHANGED <<flock, guard>>)
        BY <2>1, <2>2, <3>1 DEF Goto, BreakSteps
      <3>2. CASE /\ content.epoch # MaxEpoch
                 /\ task' = [task EXCEPT ![t] =
                       [@ EXCEPT !.pc = "overwrite", !.epoch = content.epoch + 1]]
                 /\ UNCHANGED <<flock, guard>>
        <4> DEFINE r == [task[t] EXCEPT !.pc = "overwrite", !.epoch = content.epoch + 1]
        <4>1. content.epoch + 1 \in Epochs
          BY <1>0, <3>2, BoundsAssumption DEF Content, Epochs
        <4>2. r \in Task /\ r.pc = "overwrite"
          BY <1>0, <4>1 DEF Task, Pcs
        <4>3. task' = [task EXCEPT ![t] = r]
          BY <3>2
        <4> QED
          BY <3>2, <4>2, <4>3 DEF BreakSteps
      <3> QED
        BY <2>4, <3>1, <3>2 DEF BreakChoose
    <2>5. CASE BreakUnlink(t) \/ BreakVerify(t)
      BY <2>1, <2>2, <2>5 DEF BreakUnlink, BreakVerify, Goto, BreakSteps
    <2>6. CASE BreakOverwrite(t)
      <3> DEFINE r == [task[t] EXCEPT !.pc = "refill", !.wino = path]
      <3>1. r \in Task /\ r.pc = "refill"
        BY <1>0 DEF Task, Pcs
      <3> QED
        BY <2>6, <3>1 DEF BreakOverwrite, BreakSteps
    <2>7. CASE BreakRefill(t)
      <3> DEFINE r == [task[t] EXCEPT !.pc = "recheck", !.wino = NoInode]
      <3>1. r \in Task /\ r.pc = "recheck"
        BY <1>0 DEF Task, Pcs
      <3> QED
        BY <2>7, <3>1 DEF BreakRefill, BreakSteps
    <2>8. CASE ReadTakeoverEpoch(t)
      <3> DEFINE e == IF path = NoInode THEN 0 ELSE content.epoch
                 r == [task[t] EXCEPT !.pc = "reopen", !.epoch = e]
      <3>1. e \in Epochs
        BY <1>0, ConstantTypes DEF Content
      <3>2. r \in Task /\ r.pc = "reopen"
        BY <1>0, <3>1 DEF Task, Pcs
      <3> QED
        BY <2>8, <3>2 DEF ReadTakeoverEpoch, BreakSteps
    <2> QED
      BY <2>3, <2>4, <2>5, <2>6, <2>7, <2>8
  <1>4. ~(OneProcess /\ unlinks = "never")
    BY DEF IInv, AloneOnPath, Breaking, BreakSteps, CheckStale, BreakChoose, BreakUnlink,
       BreakOverwrite, BreakRefill, BreakVerify, ReadTakeoverEpoch
  <1>5. CASE Fail(t)
    BY <1>0, <1>2, <1>5, FailKeepsIInv
  <1>6. CASE ~Fail(t)
    <2>1. PICK r \in Task : /\ task' = [task EXCEPT ![t] = r]
                            /\ r.pc \in BreakSteps
      BY <1>3, <1>6
    <2>2. UNCHANGED <<flock, guard>>
      BY <1>3, <1>6
    <2>3. Active(r) /\ ~HasFile(r) /\ ~OnPath(r)
      BY <2>1 DEF BreakSteps, Active, HasFile, OnPath
    <2> QED
      BY <1>0, <1>1, <1>2, <1>4, <2>1, <2>2, <2>3, AttemptMoves
  <1> QED
    BY <1>5, <1>6

\* Writing the content through the path: of the only process's attempts, the
\* file that is opened to write is the one that is locked.
LEMMA WriteKeepsIInv ==
    ASSUME IInv, NEW t \in Tasks, WriteTruncate(t) \/ WriteContent(t) \/ VerifyEpoch(t)
    PROVE  IInv'
  <1>0. /\ TypeOK /\ task[t] \in Task
        /\ path \in Inodes \cup {NoInode} /\ content \in Content
        /\ flock \in [Inodes -> Tasks \cup {Nobody}]
        /\ Active(task[t]) /\ OnPath(task[t])
        /\ UNCHANGED <<proc, unlinks, pid>>
    BY DEF IInv, TypeOK, Active, OnPath, WriteTruncate, WriteContent, VerifyEpoch
  <1>1. /\ task[t].ino \in Inodes
        /\ OneProcess /\ unlinks = "never" => path = task[t].ino
        /\ \A i \in Inodes : flock[i] = t => task[t].ino = i
    BY <1>0 DEF IInv, OpenFiles, HasFile, AloneOnPath, FlockOwned
  <1>2. ASSUME NEW r \in Task, task' = [task EXCEPT ![t] = r],
               r.pc \in {"fill", "verify", "held"}, r.ino = task[t].ino,
               UNCHANGED <<flock, guard>>, path' \in Inodes \cup {NoInode},
               path # NoInode => path' = path, content' \in Content
        PROVE  IInv'
    <2>1. Active(r) /\ Locking(r) /\ ~Breaking(r)
      BY <1>2 DEF Active, Locking, Breaking, BreakSteps
    <2>2. OneProcess /\ unlinks = "never" => path' = r.ino
      BY <1>1, <1>2, ConstantTypes
    <2> QED
      BY <1>0, <1>1, <1>2, <2>1, <2>2, AttemptMoves
  <1>3. CASE WriteTruncate(t)
    <2> DEFINE r == [task[t] EXCEPT !.pc = "fill", !.wino = OpenOrCreate]
    <2>1. OpenOrCreate \in Inodes /\ (path # NoInode => OpenOrCreate = path)
      BY <1>0, FreshInode
    <2>2. r \in Task /\ r.pc = "fill" /\ r.ino = task[t].ino
      BY <1>0, <2>1 DEF Task, Pcs
    <2>3. /\ task' = [task EXCEPT ![t] = r] /\ path' = OpenOrCreate
          /\ content' = Empty /\ UNCHANGED <<flock, guard>>
      BY <1>3 DEF WriteTruncate
    <2> HIDE DEF r
    <2> QED
      BY <1>2, <2>1, <2>2, <2>3, ConstantTypes
  <1>4. CASE WriteContent(t)
    <2>1. CASE /\ WriteTo(task[t].wino, Mine(t))
               /\ task' = [task EXCEPT ![t] =
                             [@ EXCEPT !.pc = "verify", !.wino = NoInode]]
               /\ UNCHANGED <<path, flock, guard>>
      <3> DEFINE r == [task[t] EXCEPT !.pc = "verify", !.wino = NoInode]
      <3>1. r \in Task /\ r.pc = "verify" /\ r.ino = task[t].ino
        BY <1>0 DEF Task, Pcs
      <3>2. task' = [task EXCEPT ![t] = r]
        BY <2>1
      <3>3. content' \in Content
        BY <1>0, <2>1, MineType DEF WriteTo
      <3> HIDE DEF r
      <3> QED
        BY <1>0, <1>2, <2>1, <3>1, <3>2, <3>3
    <2>2. CASE path' = NoInode /\ content' = Empty /\ Fail(t)
      BY <1>0, <2>2, FailKeepsIInv, ConstantTypes
    <2> QED
      BY <1>4, <2>1, <2>2 DEF WriteContent
  <1>5. CASE VerifyEpoch(t)
    <2>1. CASE Goto(t, "held") /\ UNCHANGED <<path, content, flock, guard>>
      <3> DEFINE r == [task[t] EXCEPT !.pc = "held"]
      <3>1. r \in Task /\ r.pc = "held" /\ r.ino = task[t].ino
        BY <1>0 DEF Task, Pcs
      <3>2. task' = [task EXCEPT ![t] = r]
        BY <2>1 DEF Goto
      <3> HIDE DEF r
      <3> QED
        BY <1>0, <1>2, <2>1, <3>1, <3>2
    <2>2. CASE Fail(t) /\ UNCHANGED <<path, content>>
      BY <1>0, <2>2, FailKeepsIInv
    <2> QED
      BY <1>5, <2>1, <2>2 DEF VerifyEpoch
  <1> QED
    BY <1>3, <1>4, <1>5

\* The drop releases the mutex last, when the flock is gone.
LEMMA DropKeepsIInv ==
    ASSUME IInv, NEW t \in Tasks, DropUnlink(t) \/ DropClose(t)
    PROVE  IInv'
  <1>0. /\ TypeOK /\ task[t] \in Task
        /\ path \in Inodes \cup {NoInode} /\ content \in Content
        /\ flock \in [Inodes -> Tasks \cup {Nobody}]
        /\ Active(task[t]) /\ UNCHANGED <<proc, unlinks, pid>>
    BY DEF IInv, TypeOK, Active, DropUnlink, DropClose
  <1>1. CASE DropUnlink(t)
    <2> DEFINE r == [task[t] EXCEPT !.pc = "closing"]
    <2>1. r \in Task /\ r.pc = "closing" /\ r.ino = task[t].ino
      BY <1>0 DEF Task, Pcs
    <2>2. /\ task' = [task EXCEPT ![t] = r] /\ path' = NoInode
          /\ content' = Empty /\ UNCHANGED <<flock, guard>>
      BY <1>1 DEF DropUnlink, Goto
    <2> HIDE DEF r
    <2>3. Active(r) /\ Locking(r) /\ ~Breaking(r) /\ ~HasFile(r) /\ ~OnPath(r)
      BY <2>1 DEF Active, Locking, Breaking, BreakSteps, HasFile, OnPath
    <2>4. \A i \in Inodes : flock[i] = t => r.ino = i
      BY <2>1 DEF IInv, FlockOwned
    <2> QED
      BY <1>0, <2>1, <2>2, <2>3, <2>4, AttemptMoves, ConstantTypes
  <1>2. CASE DropClose(t)
    <2>1. /\ task' = [task EXCEPT ![t] = IdleTask] /\ flock' = Unlocked(t)
          /\ guard' = [guard EXCEPT ![proc[t]] = Nobody]
          /\ UNCHANGED <<path, content>>
      BY <1>2 DEF DropClose
    <2> QED
      BY <1>0, <2>1, AttemptEnded, IdleTaskFields, ConstantTypes
  <1> QED
    BY <1>1, <1>2

\* A death frees the flocks and the mutex of the process with its tasks.
LEMMA CrashKeepsIInv ==
    ASSUME IInv, NEW p \in Procs, Crash(p)
    PROVE  IInv'
  <1>0. /\ TypeOK /\ task \in [Tasks -> Task] /\ proc \in [Tasks -> Procs]
        /\ guard \in [Procs -> Tasks \cup {Nobody}] /\ pid \in [Procs -> Pids]
        /\ flock \in [Inodes -> Tasks \cup {Nobody}]
        /\ UNCHANGED <<proc, unlinks, path, content>>
        /\ guard' = [guard EXCEPT ![p] = Nobody]
    BY DEF IInv, TypeOK, Crash
  <1>1. /\ task' = [t \in Tasks |-> IF proc[t] = p THEN IdleTask ELSE task[t]]
        /\ flock' = [i \in Inodes |->
             IF flock[i] \in {t \in Tasks : proc[t] = p} THEN Nobody ELSE flock[i]]
    BY <1>0 DEF Crash
  <1>2. /\ ~Active(IdleTask) /\ ~HasFile(IdleTask) /\ ~OnPath(IdleTask)
        /\ ~Breaking(IdleTask)
    BY IdleTaskFields DEF Active, HasFile, OnPath, Breaking, BreakSteps
  <1>3. TypeOK'
    <2>1. PICK new \in Pids : pid' = [pid EXCEPT ![p] = new]
      BY DEF Crash
    <2>2. task' \in [Tasks -> Task] /\ flock' \in [Inodes -> Tasks \cup {Nobody}]
      BY <1>0, <1>1, ConstantTypes
    <2> QED
      BY <1>0, <2>1, <2>2 DEF TypeOK
  <1>4. GuardHeld'
    BY <1>0, <1>1, <1>2 DEF IInv, GuardHeld
  <1>5. FlockOwned'
    <2> SUFFICES ASSUME NEW i \in Inodes, NEW t \in Tasks, flock'[i] = t
                 PROVE  Locking(task'[t]) /\ task'[t].ino = i
      BY DEF FlockOwned
    <2>1. flock[i] = t /\ proc[t] # p
      BY <1>0, <1>1, TasksAssumption
    <2> QED
      BY <1>1, <2>1 DEF IInv, FlockOwned
  <1>6. OpenFiles' /\ AloneOnPath'
    BY <1>0, <1>1, <1>2 DEF IInv, OpenFiles, AloneOnPath, OneProcess
  <1> QED
    BY <1>3, <1>4, <1>5, <1>6 DEF IInv

LEMMA ForeignUnlinkKeepsIInv ==
    ASSUME IInv, ForeignUnlink
    PROVE  IInv'
  BY ConstantTypes DEF IInv, TypeOK, GuardHeld, FlockOwned, OpenFiles, AloneOnPath,
     ForeignUnlink

LEMMA NextKeepsIInv == IInv /\ [Next]_vars => IInv'
  <1> SUFFICES ASSUME IInv, [Next]_vars PROVE IInv'
    OBVIOUS
  <1>1. CASE UNCHANGED vars
    BY <1>1 DEF vars, IInv, TypeOK, GuardHeld, FlockOwned, OpenFiles, AloneOnPath,
       OneProcess
  <1>2. ASSUME NEW t \in Tasks,
               \/ Queue(t) \/ TryStart(t) \/ AttemptStep(t) \/ BlockingStep(t)
               \/ DropStep(t)
        PROVE  IInv'
    BY <1>2, StartKeepsIInv, OpenKeepsIInv, BreakKeepsIInv, WriteKeepsIInv,
       DropKeepsIInv DEF AttemptStep, BlockingStep, DropStep
  <1>3. ASSUME NEW p \in Procs, Crash(p) PROVE IInv'
    BY <1>3, CrashKeepsIInv
  <1>4. CASE ForeignUnlink
    BY <1>4, ForeignUnlinkKeepsIInv
  <1> QED
    BY <1>1, <1>2, <1>3, <1>4 DEF Next

-----------------------------------------------------------------------------
(* The theorems                                                            *)

\* In every deployment, with any number of deaths, timeouts and failed writes:
\* the mutex is held from the start of an attempt to the end of the drop, and a
\* flock is held through the open file of a task that may hold the lock.
THEOREM LockInvariant == Spec => []IInv
  BY InitIInv, NextKeepsIInv, PTL DEF Spec

\* Every variable keeps its type; in particular the model's inodes are enough
\* for every file that open(O_CREAT) may have to create.
THEOREM TypeCorrect == Spec => []TypeOK
  <1>1. IInv => TypeOK
    BY DEF IInv
  <1> QED
    BY <1>1, LockInvariant, PTL

\* While one process uses the volume and nothing else deletes lock files, at
\* most one task holds the lock, no attempt locks an unlinked inode, and none
\* meets a locked file or breaks a lock, however often the process dies.
THEOREM SingleProcess == Spec => []SingleProcessLock
  <1>1. IInv => SingleProcessLock
    <2> SUFFICES ASSUME IInv, OneProcess, unlinks = "never" PROVE
          /\ Exclusive
          /\ \A t \in Tasks : (OnPath(task[t]) => path = task[t].ino)
                              /\ ~Breaking(task[t])
      BY DEF SingleProcessLock, OnPath, Breaking, BreakSteps
    <2>1. Exclusive
      BY OneActive DEF IInv, Exclusive, Holds, Active
    <2> QED
      BY <2>1 DEF IInv, AloneOnPath
  <1> QED
    BY <1>1, LockInvariant, PTL
=============================================================================
