------------------------ MODULE SizeAccountingProofs ------------------------
(***************************************************************************)
(* For any number of processes, stores and files, and any failures: the    *)
(* tracked size and the deltas on their way to it add up to what the       *)
(* processes recorded.                                                     *)
(***************************************************************************)
EXTENDS SizeAccounting, FoldTheorems

Collecting == {"collect", "discover", "keys"}

\* A cycle holds a delta only while it writes one, and a sum only while it
\* collects.
CycleOK(c) ==
    /\ c \in Cycle
    /\ IF c.pc = "write" THEN c.out # 0 ELSE c.out = 0
    /\ c.pc # "collect" => c.sum = 0

PassOK(e) ==
    /\ e \in Pass
    /\ IF e.pc = "write" THEN e.out # 0 ELSE e.out = 0

\* What a process holds in memory.
Memory(a, c, e) == a + c.out + c.sum + e.out

\* A call that has been started has a file.
CallOK(q) == q \in Call /\ (q.pc # "idle" => q.file \in Files)

World ==
    /\ disk \subseteq Files /\ journal \in Nat /\ total \in Nat
    /\ recent \in [Instances -> SUBSET Files] /\ seq \in [Instances -> Nat]
    /\ store \in [Workers -> Call] /\ \A w \in Workers : CallOK(store[w])
    /\ conLock \in Instances \cup {None} /\ evLock \in Instances \cup {None}
    /\ up \subseteq Instances
    /\ net \in Int /\ drift \in Int
    /\ bound \in [stores : 0..MaxStores, faults : 0..MaxFaults]

\* A flush to come finds its file name unused.
DeltaFiles ==
    /\ DOMAIN files \subseteq DeltaNames /\ IsFiniteSet(DOMAIN files)
    /\ files = [n \in DOMAIN files |-> files[n]]
    /\ \A n \in DOMAIN files : files[n] \in Int /\ files[n] # 0 /\ n[2] < seq[n[1]]

Processes ==
    /\ acc \in [Instances -> Int] /\ cyc \in [Instances -> Cycle] /\ ev \in [Instances -> Pass]
    /\ \A i \in Instances : CycleOK(cyc[i]) /\ PassOK(ev[i])

\* The global lock lets one process collect and consolidate, so the entries it
\* discovered are in the journal until it removes them.
OneCollector ==
    \A i \in Instances :
        /\ cyc[i].pc \in Collecting => conLock = i
        /\ cyc[i].pc = "keys" => cyc[i].found <= journal

FilesSum == Sum(files, DOMAIN files)
MemorySum == Sum(InMemory, Instances)
Balanced == total + FilesSum + MemorySum = net + drift

IInv == World /\ DeltaFiles /\ Processes /\ OneCollector /\ Balanced

-----------------------------------------------------------------------------
(* Sums                                                                    *)

\* The folds of the module are sums.
LEMMA PendingIsSum ==
    /\ Pending = FilesSum + MemorySum
    /\ \A S : Bytes(S) = Sum(Size, S)
  <1>1. DOMAIN InMemory = Instances
    BY DEF InMemory
  <1>2. FoldFunction(+, 0, InMemory) = Sum(InMemory, Instances)
    BY <1>1 DEF FoldFunction, Sum
  <1>3. FoldFunction(+, 0, files) = Sum(files, DOMAIN files)
    BY DEF FoldFunction, Sum
  <1>4. \A S : Bytes(S) = Sum(Size, S)
    BY DEF Bytes, Sum
  <1> QED
    BY <1>2, <1>3, <1>4 DEF Pending, FilesSum, MemorySum

\* The bytes of a set of files are a number.
LEMMA BytesInt ==
    ASSUME NEW S \in SUBSET Files
    PROVE  IsFiniteSet(S) /\ Bytes(S) \in Int
  <1>1. IsFiniteSet(S)
    BY FS_Subset, SizeAssumption
  <1>2. \A f \in S : Size[f] \in Int
    BY SizeAssumption
  <1>3. Sum(Size, S) \in Int
    BY <1>1, <1>2, SumInt
  <1> QED
    BY <1>1, <1>3, PendingIsSum

LEMMA FilesSumInt ==
    ASSUME DeltaFiles
    PROVE  FilesSum \in Int
  <1>1. IsFiniteSet(DOMAIN files) /\ \A n \in DOMAIN files : files[n] \in Int
    BY DEF DeltaFiles
  <1> QED
    BY <1>1, SumInt DEF FilesSum

\* A delta file of a new name: its delta is added.
LEMMA DeltaWritten ==
    ASSUME World, DeltaFiles, NEW i \in Instances, NEW d \in Int, d # 0, WriteDelta(i, d)
    PROVE  /\ DeltaFiles' /\ seq' \in [Instances -> Nat]
           /\ FilesSum' = FilesSum + d
  <1> DEFINE name == <<i, seq[i]>>
             D == DOMAIN files \cup {name}
  <1>0. seq \in [Instances -> Nat]
    BY DEF World
  <1>1. /\ files' = [n \in D |-> IF n = name THEN d ELSE files[n]]
        /\ seq' = [seq EXCEPT ![i] = @ + 1]
    BY DEF WriteDelta, DeltaName
  <1>2. name \in DeltaNames /\ name[1] = i /\ name[2] = seq[i] /\ seq[i] \in Nat
    BY <1>0 DEF DeltaNames
  <1>3. name \notin DOMAIN files
    BY <1>2 DEF DeltaFiles
  <1>4. seq' \in [Instances -> Nat] /\ \A j \in Instances : seq[j] <= seq'[j]
    BY <1>0, <1>1
  <1>4a. seq'[i] = seq[i] + 1
    BY <1>0, <1>1
  <1> HIDE DEF name
  <1>5. DOMAIN files' = D /\ IsFiniteSet(D)
    <2>1. IsFiniteSet(DOMAIN files)
      BY DEF DeltaFiles
    <2> QED
      BY <1>1, <2>1, FS_AddElement
  <1>6. /\ files'[name] = d
        /\ \A n \in DOMAIN files : n \in D /\ n # name /\ files'[n] = files[n]
    BY <1>1, <1>3
  <1>7. DeltaFiles'
    <2>1. DOMAIN files' \subseteq DeltaNames
      BY <1>2, <1>5 DEF DeltaFiles
    <2>2. ASSUME NEW n \in DOMAIN files'
          PROVE  files'[n] \in Int /\ files'[n] # 0 /\ n[2] < seq'[n[1]]
      <3>1. CASE n = name
        BY <3>1, <1>2, <1>4a, <1>6
      <3>2. CASE n # name
        <4>1. n \in DOMAIN files
          BY <3>2, <1>5
        <4>2. files[n] \in Int /\ files[n] # 0 /\ n[2] < seq[n[1]] /\ n[1] \in Instances /\ n[2] \in Nat
          BY <4>1 DEF DeltaFiles, DeltaNames
        <4>3. seq[n[1]] \in Nat /\ seq'[n[1]] \in Nat /\ seq[n[1]] <= seq'[n[1]]
          BY <4>2, <1>0, <1>4
        <4>4. n[2] < seq'[n[1]]
          BY <4>2, <4>3
        <4> QED
          BY <4>1, <4>2, <4>4, <1>6
      <3> QED
        BY <3>1, <3>2
    <2>3. files' = [n \in DOMAIN files' |-> files'[n]]
      BY <1>1
    <2> QED
      BY <2>1, <2>2, <2>3, <1>5 DEF DeltaFiles
  <1>8. FilesSum' = FilesSum + d
    <2>1. \A n \in D : files'[n] \in Int
      BY <1>5, <1>7 DEF DeltaFiles
    <2>2. Sum(files', D) = files'[name] + Sum(files', D \ {name})
      BY <1>5, <2>1, SumRemove
    <2>3. D \ {name} = DOMAIN files
      BY <1>3
    <2>4. Sum(files', DOMAIN files) = Sum(files, DOMAIN files)
      <3>1. IsFiniteSet(DOMAIN files) /\ \A n \in DOMAIN files : files'[n] = files[n]
        BY <1>6 DEF DeltaFiles
      <3> QED
        BY <3>1, SumSame
    <2>5. FilesSum' = Sum(files', D)
      BY <1>5 DEF FilesSum
    <2>6. FilesSum \in Int
      BY FilesSumInt
    <2>7. FilesSum' = d + FilesSum
      BY <2>2, <2>3, <2>4, <2>5, <1>6 DEF FilesSum
    <2> QED
      BY <2>6, <2>7
  <1> QED
    BY <1>4, <1>7, <1>8

\* A delta file is deleted: its delta leaves.
LEMMA DeltaRemoved ==
    ASSUME DeltaFiles, NEW name \in DOMAIN files, files' = Without(name), UNCHANGED seq
    PROVE  /\ DeltaFiles' /\ files[name] \in Int
           /\ FilesSum = FilesSum' + files[name]
  <1> DEFINE D == DOMAIN files \ {name}
  <1>1. DOMAIN files' = D /\ \A n \in D : files'[n] = files[n]
    BY DEF Without
  <1>2. IsFiniteSet(D)
    BY FS_Subset DEF DeltaFiles
  <1>3. DeltaFiles'
    <2>1. files' = [n \in DOMAIN files' |-> files'[n]]
      BY DEF Without
    <2> QED
      BY <1>1, <1>2, <2>1 DEF DeltaFiles
  <1>4. files[name] \in Int
    BY DEF DeltaFiles
  <1>5. Sum(files, DOMAIN files) = files[name] + Sum(files, D)
    <2>1. IsFiniteSet(DOMAIN files) /\ \A n \in DOMAIN files : files[n] \in Int
      BY DEF DeltaFiles
    <2> QED
      BY <2>1, SumRemove
  <1>6. Sum(files', D) = Sum(files, D)
    BY <1>1, <1>2, SumSame
  <1>7. FilesSum' = Sum(files, D)
    BY <1>1, <1>6 DEF FilesSum
  <1>8. FilesSum' \in Int
    <2>1. IsFiniteSet(D) /\ \A n \in D : files[n] \in Int
      BY <1>2 DEF DeltaFiles
    <2> QED
      BY <2>1, <1>7, SumInt
  <1>9. FilesSum = files[name] + FilesSum'
    BY <1>5, <1>7 DEF FilesSum
  <1> QED
    BY <1>3, <1>4, <1>8, <1>9

\* A sequence number is passed over.
LEMMA SequenceSkipped ==
    ASSUME World, DeltaFiles, NEW i \in Instances, seq' = [seq EXCEPT ![i] = @ + 1],
           UNCHANGED files
    PROVE  /\ DeltaFiles' /\ seq' \in [Instances -> Nat]
           /\ FilesSum' = FilesSum
  <1>1. /\ seq \in [Instances -> Nat] /\ seq' \in [Instances -> Nat]
        /\ \A j \in Instances : seq[j] <= seq'[j]
    BY DEF World
  <1>2. ASSUME NEW n \in DOMAIN files PROVE n[2] < seq'[n[1]]
    <2>1. n[1] \in Instances /\ n[2] \in Nat /\ n[2] < seq[n[1]]
      BY DEF DeltaFiles, DeltaNames
    <2>2. seq[n[1]] \in Nat /\ seq'[n[1]] \in Nat /\ seq[n[1]] <= seq'[n[1]]
      BY <1>1, <2>1
    <2> QED
      BY <2>1, <2>2
  <1>3. DeltaFiles'
    BY <1>2 DEF DeltaFiles
  <1>4. FilesSum' = FilesSum
    BY DEF FilesSum
  <1> QED
    BY <1>1, <1>3, <1>4

-----------------------------------------------------------------------------
(* One process moves                                                       *)

\* Process i comes to hold a, c and e; the last conjunct is what the step may do
\* to the global lock and to the journal.
MovesTo(i, a, c, e) ==
    /\ a \in Int /\ CycleOK(c) /\ PassOK(e)
    /\ acc' = [acc EXCEPT ![i] = a]
    /\ cyc' = [cyc EXCEPT ![i] = c]
    /\ ev' = [ev EXCEPT ![i] = e]

Guarded(i, c) ==
    /\ conLock' # conLock => conLock \in {None, i}
    /\ journal' < journal => conLock = i
    /\ c.pc \in Collecting => conLock' = i
    /\ c.pc = "keys" => c.found <= journal'

\* What leaves one place arrives in another.
Settles(i, a, c, e) ==
    total' + FilesSum' + Memory(a, c, e) - net' - drift'
      = total + FilesSum + Memory(acc[i], cyc[i], ev[i]) - net - drift

LEMMA MemoryInt ==
    ASSUME NEW a \in Int, NEW c, CycleOK(c), NEW e, PassOK(e)
    PROVE  /\ c.out \in Int /\ c.sum \in Int /\ e.out \in Int
           /\ Memory(a, c, e) \in Int
  <1>1. c.out \in Int /\ c.sum \in Int /\ e.out \in Int
    BY DEF CycleOK, PassOK, Cycle, Pass
  <1> QED
    BY <1>1 DEF Memory

LEMMA NothingHeld ==
    /\ CycleOK(NoCycle) /\ NoCycle \in Cycle /\ NoCycle.pc = "idle"
    /\ NoCycle.out = 0 /\ NoCycle.sum = 0
    /\ PassOK(NoPass) /\ NoPass \in Pass /\ NoPass.pc = "idle" /\ NoPass.out = 0
  <1>1. NoCycle \in Cycle
    BY DEF NoCycle, Cycle, CycPcs
  <1>2. <<>> \in Seq(Files)
    OBVIOUS
  <1>3. NoPass \in Pass
    BY <1>2 DEF NoPass, Pass, EvPcs
  <1> QED
    BY <1>1, <1>3 DEF CycleOK, PassOK, NoCycle, NoPass

LEMMA ProcessMoves ==
    ASSUME Processes, NEW i \in Instances, NEW a, NEW c, NEW e, MovesTo(i, a, c, e)
    PROVE  /\ Processes'
           /\ cyc'[i] = c /\ \A j \in Instances : j # i => cyc'[j] = cyc[j]
           /\ MemorySum \in Int /\ MemorySum' \in Int
           /\ MemorySum' = MemorySum - Memory(acc[i], cyc[i], ev[i]) + Memory(a, c, e)
  <1>1. c \in Cycle /\ e \in Pass /\ a \in Int /\ CycleOK(c) /\ PassOK(e)
    BY DEF MovesTo, CycleOK, PassOK
  <1>2. /\ acc' \in [Instances -> Int] /\ cyc' \in [Instances -> Cycle] /\ ev' \in [Instances -> Pass]
        /\ acc'[i] = a /\ cyc'[i] = c /\ ev'[i] = e
        /\ \A j \in Instances : j # i => /\ acc'[j] = acc[j] /\ cyc'[j] = cyc[j]
                                         /\ ev'[j] = ev[j]
    BY <1>1 DEF MovesTo, Processes
  <1>3. Processes'
    BY <1>1, <1>2 DEF Processes
  <1> DEFINE f == InMemory
             g == InMemory'
  <1>4. \A j \in Instances : /\ f[j] = Memory(acc[j], cyc[j], ev[j])
                             /\ g[j] = Memory(acc'[j], cyc'[j], ev'[j])
    BY DEF InMemory, Memory
  <1>5. \A j \in Instances : Memory(acc[j], cyc[j], ev[j]) \in Int
    BY MemoryInt DEF Processes
  <1>6. Memory(a, c, e) \in Int
    BY <1>1, MemoryInt
  <1> HIDE DEF f, g
  <1>7. DiffersAt(f, g, Instances, i)
    BY <1>2, <1>4, <1>5, <1>6 DEF DiffersAt
  <1>8. /\ Sum(g, Instances) \in Int /\ Sum(f, Instances) \in Int
        /\ Sum(g, Instances) = Sum(f, Instances) - f[i] + g[i]
    BY <1>7, SumUpdate, InstanceAssumption
  <1>9. f[i] = Memory(acc[i], cyc[i], ev[i]) /\ g[i] = Memory(a, c, e)
    BY <1>2, <1>4
  <1> QED
    BY <1>2, <1>3, <1>8, <1>9 DEF MemorySum, f, g

LEMMA SettlesKeepsBalance ==
    ASSUME NEW t \in Int, NEW t1 \in Int, NEW f \in Int, NEW f1 \in Int, NEW m \in Int,
           NEW m1 \in Int, NEW n \in Int, NEW n1 \in Int, NEW d \in Int, NEW d1 \in Int,
           NEW old \in Int, NEW new \in Int,
           t + f + m = n + d, m1 = m - old + new,
           t1 + f1 + new - n1 - d1 = t + f + old - n - d
    PROVE  t1 + f1 + m1 = n1 + d1
  OBVIOUS

LEMMA ProcessStep ==
    ASSUME IInv, NEW i \in Instances, NEW a, NEW c, NEW e,
           MovesTo(i, a, c, e), Guarded(i, c), Settles(i, a, c, e), World', DeltaFiles'
    PROVE  IInv'
  <1>1. /\ Processes' /\ cyc'[i] = c /\ \A j \in Instances : j # i => cyc'[j] = cyc[j]
        /\ MemorySum \in Int /\ MemorySum' \in Int
        /\ MemorySum' = MemorySum - Memory(acc[i], cyc[i], ev[i]) + Memory(a, c, e)
    BY ProcessMoves DEF IInv
  <1>2. OneCollector'
    <2>1. SUFFICES ASSUME NEW j \in Instances
                   PROVE  /\ cyc'[j].pc \in Collecting => conLock' = j
                          /\ cyc'[j].pc = "keys" => cyc'[j].found <= journal'
      BY DEF OneCollector
    <2>2. CASE j = i
      BY <1>1, <2>2 DEF Guarded
    <2>3. CASE j # i
      <3>1. cyc'[j] = cyc[j] /\ cyc[j] \in Cycle
        BY <1>1, <2>3 DEF IInv, Processes
      <3>2. ASSUME cyc[j].pc \in Collecting PROVE conLock' = j /\ journal' >= journal
        <4>1. conLock = j /\ conLock # None /\ conLock # i
          BY <3>2, <2>3, InstanceAssumption DEF IInv, OneCollector
        <4>2. journal \in Nat /\ journal' \in Nat
          BY DEF IInv, World
        <4> QED
          BY <4>1, <4>2 DEF Guarded
      <3>3. ASSUME cyc[j].pc = "keys" PROVE cyc[j].found <= journal'
        <4>1. cyc[j].pc \in Collecting
          BY <3>3 DEF Collecting
        <4>2. journal \in Nat /\ journal' \in Nat /\ cyc[j].found \in Nat
          BY <3>1 DEF IInv, World, Cycle
        <4>3. cyc[j].found <= journal
          BY <3>3 DEF IInv, OneCollector
        <4> QED
          BY <3>2, <4>1, <4>2, <4>3
      <3> QED
        BY <3>1, <3>2, <3>3
    <2> QED
      BY <2>2, <2>3
  <1>3. Balanced'
    <2>1. /\ total \in Int /\ net \in Int /\ drift \in Int /\ FilesSum \in Int
          /\ total' \in Int /\ net' \in Int /\ drift' \in Int
          /\ Memory(acc[i], cyc[i], ev[i]) \in Int /\ Memory(a, c, e) \in Int
      BY FilesSumInt, MemoryInt DEF IInv, World, Processes, MovesTo
    <2>2. FilesSum' \in Int
      <3>1. IsFiniteSet(DOMAIN files') /\ \A n \in DOMAIN files' : files'[n] \in Int
        BY DEF DeltaFiles
      <3> QED
        BY <3>1, SumInt DEF FilesSum
    <2>3. total + FilesSum + MemorySum = net + drift
      BY DEF IInv, Balanced
    <2>4. total' + FilesSum' + Memory(a, c, e) - net' - drift'
            = total + FilesSum + Memory(acc[i], cyc[i], ev[i]) - net - drift
      BY DEF Settles
    <2>5. total' + FilesSum' + MemorySum' = net' + drift'
      <3>1. /\ MemorySum \in Int /\ MemorySum' \in Int
            /\ MemorySum' = MemorySum - Memory(acc[i], cyc[i], ev[i]) + Memory(a, c, e)
        BY <1>1
      <3> QED
        BY <2>1, <2>2, <2>3, <2>4, <3>1, SettlesKeepsBalance
    <2> QED
      BY <2>5 DEF Balanced
  <1> QED
    BY <1>1, <1>2, <1>3 DEF IInv

\* The process as the step finds it.
LEMMA Here ==
    ASSUME IInv, NEW i \in Instances
    PROVE  /\ acc[i] \in Int /\ CycleOK(cyc[i]) /\ PassOK(ev[i])
           /\ cyc[i] \in Cycle /\ ev[i] \in Pass
           /\ acc = [acc EXCEPT ![i] = acc[i]]
           /\ cyc = [cyc EXCEPT ![i] = cyc[i]]
           /\ ev = [ev EXCEPT ![i] = ev[i]]
           /\ cyc[i].pc \in Collecting => conLock = i
           /\ cyc[i].pc = "keys" => cyc[i].found <= journal
           /\ journal \in Nat /\ total \in Nat /\ net \in Int /\ drift \in Int
           /\ FilesSum \in Int
           /\ cyc[i].out \in Int /\ cyc[i].sum \in Int /\ ev[i].out \in Int
  BY FilesSumInt, MemoryInt DEF IInv, World, Processes, OneCollector

LEMMA SameFiles ==
    ASSUME DeltaFiles, UNCHANGED <<files, seq>>
    PROVE  DeltaFiles' /\ FilesSum' = FilesSum
  BY DEF DeltaFiles, FilesSum

\* A step that leaves the accumulators, the tasks and the deltas alone.
LEMMA Quiet ==
    ASSUME IInv, NEW i \in Instances, World',
           UNCHANGED <<acc, cyc, ev, conLock, total, files, seq, net, drift>>,
           journal' >= journal
    PROVE  IInv'
  <1>1. MovesTo(i, acc[i], cyc[i], ev[i])
    BY Here DEF MovesTo
  <1>2. Guarded(i, cyc[i])
    <2>1. journal \in Nat /\ journal' \in Nat /\ cyc[i].found \in Nat
      BY Here DEF World, Cycle
    <2> QED
      BY <2>1, Here DEF Guarded
  <1>3. DeltaFiles' /\ FilesSum' = FilesSum
    BY SameFiles DEF IInv
  <1>4. Settles(i, acc[i], cyc[i], ev[i])
    BY <1>3 DEF Settles
  <1> QED
    BY <1>1, <1>2, <1>3, <1>4, ProcessStep

-----------------------------------------------------------------------------
(* The steps of a store                                                    *)

LEMMA FaultBounds ==
    ASSUME World, NEW name, Fault(name)
    PROVE  bound' \in [stores : 0..MaxStores, faults : 0..MaxFaults]
  <1>1. bound \in [stores : 0..MaxStores, faults : 0..MaxFaults] /\ bound.faults < MaxFaults
    BY DEF World, Fault
  <1>2. bound.faults + 1 \in 0..MaxFaults
    BY <1>1, BoundAssumption
  <1> QED
    BY <1>1, <1>2 DEF Fault

LEMMA CallMoves ==
    ASSUME World, NEW w \in Workers, NEW q, CallOK(q), store' = [store EXCEPT ![w] = q]
    PROVE  store' \in [Workers -> Call] /\ \A v \in Workers : CallOK(store'[v])
  BY DEF World, CallOK

LEMMA StoreChecks ==
    ASSUME IInv, NEW w \in Workers, StoreCheck(w)
    PROVE  IInv'
  <1>1. HostOf[w] \in Instances
    BY HostAssumption
  <1>2. World'
    <2>1. PICK f \in Files : store' = [store EXCEPT ![w] =
                                  [pc |-> "publish", file |-> f, existed |-> f \in disk]]
      BY DEF StoreCheck, SetCall
    <2>2. CallOK([pc |-> "publish", file |-> f, existed |-> f \in disk])
      BY DEF Call, CallOK
    <2>3. store' \in [Workers -> Call] /\ \A v \in Workers : CallOK(store'[v])
      BY <2>1, <2>2, CallMoves DEF IInv
    <2>4. bound' \in [stores : 0..MaxStores, faults : 0..MaxFaults]
      <3>1. bound \in [stores : 0..MaxStores, faults : 0..MaxFaults] /\ bound.stores < MaxStores
        BY DEF IInv, World, StoreCheck
      <3>2. bound.stores + 1 \in 0..MaxStores
        BY <3>1, BoundAssumption
      <3> QED
        BY <3>1, <3>2 DEF StoreCheck
    <2> QED
      BY <2>3, <2>4 DEF IInv, World, StoreCheck, ledger
  <1>3. UNCHANGED <<acc, cyc, ev, conLock, total, files, seq, net, drift, journal>>
    BY DEF StoreCheck, ledger
  <1>4. journal' >= journal
    BY <1>3 DEF IInv, World
  <1> QED
    BY <1>1, <1>2, <1>3, <1>4, Quiet

LEMMA StorePublishes ==
    ASSUME IInv, NEW w \in Workers, StorePublish(w)
    PROVE  IInv'
  <1>1. HostOf[w] \in Instances
    BY HostAssumption
  <1>2. World'
    <2>1. store[w] \in Call /\ store[w].file \in Files
      BY DEF IInv, World, StorePublish, CallOK
    <2>2. CallOK([store[w] EXCEPT !.pc = "credit"]) /\ CallOK(NoCall)
      BY <2>1 DEF Call, CallOK, NoCall
    <2>3. store' \in [Workers -> Call] /\ \A v \in Workers : CallOK(store'[v])
      BY <2>2, CallMoves DEF IInv, StorePublish, SetCall
    <2>4. bound' \in [stores : 0..MaxStores, faults : 0..MaxFaults]
      BY FaultBounds DEF StorePublish, IInv, World
    <2>5. disk' \subseteq Files
      BY <2>1 DEF IInv, World, StorePublish
    <2>6. journal' \in Nat
      BY DEF IInv, World, StorePublish
    <2> QED
      BY <2>3, <2>4, <2>5, <2>6 DEF IInv, World, StorePublish, ledger
  <1>3. UNCHANGED <<acc, cyc, ev, conLock, total, files, seq, net, drift>>
    BY DEF StorePublish, ledger
  <1>4. journal' >= journal
    BY DEF IInv, World, StorePublish
  <1> QED
    BY <1>1, <1>2, <1>3, <1>4, Quiet

LEMMA StoreCredits ==
    ASSUME IInv, NEW w \in Workers, StoreCredit(w)
    PROVE  IInv'
  <1> DEFINE i == HostOf[w]
             S == Credited(w)
             a == acc[i] + Bytes(S)
  <1>1. i \in Instances
    BY HostAssumption
  <1>2. S \in SUBSET Files /\ Bytes(S) \in Int
    <2>1. store[w].file \in Files
      BY DEF IInv, World, CallOK, StoreCredit
    <2>2. S \in SUBSET Files
      BY <2>1 DEF Credited
    <2> QED
      BY <2>2, BytesInt
  <1>3. /\ acc' = [acc EXCEPT ![i] = a] /\ net' = net + Bytes(S)
        /\ recent' = [recent EXCEPT ![i] = @ \cup S]
        /\ UNCHANGED <<cyc, ev, conLock, journal, total, files, seq, drift>>
    BY DEF StoreCredit
  <1> HIDE DEF S, i
  <1>4. acc[i] \in Int /\ a \in Int
    BY <1>1, <1>2, Here
  <1>5. World'
    <2>1. CallOK(NoCall)
      BY DEF CallOK, Call, NoCall
    <2>2. store' \in [Workers -> Call] /\ \A v \in Workers : CallOK(store'[v])
      BY <2>1, CallMoves DEF IInv, StoreCredit, SetCall
    <2>3. recent' \in [Instances -> SUBSET Files] /\ net' \in Int
      BY <1>1, <1>2, <1>3 DEF IInv, World
    <2> QED
      BY <2>2, <2>3 DEF IInv, World, StoreCredit
  <1>6. MovesTo(i, a, cyc[i], ev[i])
    BY <1>1, <1>3, <1>4, Here DEF MovesTo
  <1>7. Guarded(i, cyc[i])
    BY <1>1, <1>3, Here DEF Guarded
  <1>8. DeltaFiles' /\ FilesSum' = FilesSum
    BY <1>3, SameFiles DEF IInv
  <1>9. Settles(i, a, cyc[i], ev[i])
    <2>1. /\ total \in Int /\ net \in Int /\ drift \in Int /\ FilesSum \in Int
          /\ cyc[i].out \in Int /\ cyc[i].sum \in Int /\ ev[i].out \in Int
      BY <1>1, Here
    <2> QED
      BY <1>2, <1>3, <1>4, <1>8, <2>1 DEF Settles, Memory
  <1> QED
    BY <1>1, <1>5, <1>6, <1>7, <1>8, <1>9, ProcessStep

-----------------------------------------------------------------------------
(* The steps of a cycle                                                    *)

LEMMA CycleStarts ==
    ASSUME IInv, NEW i \in Instances, CycleStart(i)
    PROVE  IInv'
  <1> DEFINE c == [NoCycle EXCEPT !.out = acc[i],
                                  !.pc = IF acc[i] = 0 THEN "lock" ELSE "write"]
  <1>1. /\ acc' = [acc EXCEPT ![i] = 0] /\ cyc' = [cyc EXCEPT ![i] = c]
        /\ cyc[i].pc = "idle"
        /\ UNCHANGED <<ev, conLock, journal, total, files, seq, net, drift>>
    BY DEF CycleStart, SetCyc, ledger
  <1>2. /\ acc[i] \in Int /\ cyc[i].out = 0 /\ cyc[i].sum = 0 /\ ev[i].out \in Int
        /\ PassOK(ev[i]) /\ ev' = [ev EXCEPT ![i] = ev[i]]
        /\ total \in Int /\ net \in Int /\ drift \in Int /\ FilesSum \in Int
    BY <1>1, Here DEF CycleOK
  <1>3. /\ c \in Cycle /\ c.out = acc[i] /\ c.sum = 0
        /\ c.pc = (IF acc[i] = 0 THEN "lock" ELSE "write")
    <2>1. (IF acc[i] = 0 THEN "lock" ELSE "write") \in CycPcs
      BY DEF CycPcs
    <2> QED
      BY <1>2, <2>1, NothingHeld DEF Cycle, NoCycle
  <1> HIDE DEF c
  <1>3a. CycleOK(c)
    BY <1>2, <1>3 DEF CycleOK
  <1>4. MovesTo(i, 0, c, ev[i])
    <2>1. 0 \in Int
      OBVIOUS
    <2> QED
      BY <1>1, <1>2, <1>3a, <2>1, Zenon DEF MovesTo
  <1>5. Guarded(i, c)
    BY <1>1, <1>3 DEF Guarded, Collecting, IInv, World
  <1>6. DeltaFiles' /\ FilesSum' = FilesSum
    BY <1>1, SameFiles DEF IInv
  <1>7. Settles(i, 0, c, ev[i])
    BY <1>1, <1>2, <1>3, <1>6 DEF Settles, Memory
  <1>8. World'
    BY DEF IInv, World, CycleStart, ledger
  <1> QED
    BY <1>4, <1>5, <1>6, <1>7, <1>8, ProcessStep

LEMMA CycleFlushes ==
    ASSUME IInv, NEW i \in Instances, CycleFlush(i)
    PROVE  IInv'
  <1> DEFINE c == [cyc[i] EXCEPT !.pc = "lock", !.out = 0]
  <1>1. /\ cyc' = [cyc EXCEPT ![i] = c] /\ cyc[i].pc = "write"
        /\ UNCHANGED <<ev, conLock, journal, total, net, drift>>
    BY DEF CycleFlush, SetCyc
  <1>2. /\ acc[i] \in Int /\ cyc[i].out \in Int /\ cyc[i].out # 0 /\ cyc[i].sum = 0
        /\ ev[i].out \in Int /\ PassOK(ev[i]) /\ ev' = [ev EXCEPT ![i] = ev[i]]
        /\ total \in Int /\ net \in Int /\ drift \in Int /\ FilesSum \in Int
        /\ cyc[i] \in Cycle
    BY <1>1, Here DEF CycleOK
  <1>3. c \in Cycle /\ c.out = 0 /\ c.sum = 0 /\ c.pc = "lock"
    BY <1>2 DEF Cycle, CycPcs
  <1> HIDE DEF c
  <1>4. CycleOK(c)
    BY <1>3 DEF CycleOK
  <1>5. Guarded(i, c)
    BY <1>1, <1>3 DEF Guarded, Collecting, IInv, World
  <1>6. CASE WriteDelta(i, cyc[i].out) /\ UNCHANGED <<acc, bound>>
    <2>1. DeltaFiles' /\ seq' \in [Instances -> Nat] /\ FilesSum' = FilesSum + cyc[i].out
      BY <1>2, <1>6, DeltaWritten DEF IInv
    <2>2. MovesTo(i, acc[i], c, ev[i])
      BY <1>1, <1>2, <1>4, <1>6, Here DEF MovesTo
    <2>3. Settles(i, acc[i], c, ev[i])
      BY <1>1, <1>2, <1>3, <2>1 DEF Settles, Memory
    <2>4. World'
      BY <1>6, <2>1 DEF IInv, World, CycleFlush
    <2> QED
      BY <1>5, <2>1, <2>2, <2>3, <2>4, ProcessStep
  <1>7. CASE FlushFails(i, cyc[i].out) /\ UNCHANGED files
    <2> DEFINE a == acc[i] + cyc[i].out
    <2>1. acc' = [acc EXCEPT ![i] = a] /\ seq' = [seq EXCEPT ![i] = @ + 1] /\ Fault("write")
      BY <1>7 DEF FlushFails, Restored
    <2>2. DeltaFiles' /\ seq' \in [Instances -> Nat] /\ FilesSum' = FilesSum
      BY <1>7, <2>1, SequenceSkipped DEF IInv
    <2>2a. a \in Int
      BY <1>2
    <2>3. MovesTo(i, a, c, ev[i])
      BY <1>1, <1>2, <1>4, <2>1, <2>2a DEF MovesTo
    <2>4. Settles(i, a, c, ev[i])
      BY <1>1, <1>2, <1>3, <2>2 DEF Settles, Memory
    <2>5. bound' \in [stores : 0..MaxStores, faults : 0..MaxFaults]
      BY <2>1, FaultBounds DEF IInv
    <2>6. World'
      BY <2>2, <2>5 DEF IInv, World, CycleFlush
    <2> QED
      BY <1>5, <2>2, <2>3, <2>4, <2>6, ProcessStep
  <1> QED
    BY <1>6, <1>7 DEF CycleFlush

LEMMA CycleLocks ==
    ASSUME IInv, NEW i \in Instances, CycleLock(i)
    PROVE  IInv'
  <1>1. /\ cyc[i].pc = "lock"
        /\ UNCHANGED <<acc, ev, journal, total, files, seq, net, drift>>
    BY DEF CycleLock, ledger
  <1>2. /\ acc[i] \in Int /\ cyc[i].out = 0 /\ cyc[i].sum = 0 /\ ev[i].out \in Int
        /\ PassOK(ev[i]) /\ cyc[i] \in Cycle
        /\ ev' = [ev EXCEPT ![i] = ev[i]] /\ acc' = [acc EXCEPT ![i] = acc[i]]
        /\ journal \in Nat
    BY <1>1, Here DEF CycleOK
  <1>3. DeltaFiles' /\ FilesSum' = FilesSum
    BY <1>1, SameFiles DEF IInv
  <1>4. CASE /\ conLock = None /\ conLock' = i
             /\ SetCyc(i, [cyc[i] EXCEPT !.pc = "collect", !.todo = DOMAIN files])
    <2> DEFINE c == [cyc[i] EXCEPT !.pc = "collect", !.todo = DOMAIN files]
    <2>1. cyc' = [cyc EXCEPT ![i] = c]
      BY <1>4 DEF SetCyc
    <2>2. c \in Cycle /\ c.out = 0 /\ c.sum = 0 /\ c.pc = "collect"
      BY <1>2 DEF Cycle, CycPcs, IInv, DeltaFiles
    <2> HIDE DEF c
    <2>3. CycleOK(c)
      BY <2>2 DEF CycleOK
    <2>4. MovesTo(i, acc[i], c, ev[i])
      BY <1>2, <2>1, <2>3, Zenon DEF MovesTo
    <2>5. Guarded(i, c)
      BY <1>1, <1>2, <1>4, <2>2 DEF Guarded
    <2>6. Settles(i, acc[i], c, ev[i])
      BY <1>1, <1>2, <1>3, <2>2 DEF Settles, Memory
    <2>7. World'
      BY <1>4 DEF IInv, World, CycleLock, ledger
    <2> QED
      BY <1>3, <2>4, <2>5, <2>6, <2>7, ProcessStep
  <1>5. CASE conLock # None /\ SetCyc(i, NoCycle) /\ UNCHANGED conLock
    <2>1. cyc' = [cyc EXCEPT ![i] = NoCycle]
      BY <1>5 DEF SetCyc
    <2>2. MovesTo(i, acc[i], NoCycle, ev[i])
      BY <1>2, <2>1, NothingHeld, Zenon DEF MovesTo
    <2>3. Guarded(i, NoCycle)
      BY <1>1, <1>2, <1>5, NothingHeld DEF Guarded, Collecting
    <2>4. Settles(i, acc[i], NoCycle, ev[i])
      BY <1>1, <1>2, <1>3, NothingHeld DEF Settles, Memory
    <2>5. World'
      BY <1>5 DEF IInv, World, CycleLock, ledger
    <2> QED
      BY <1>3, <2>2, <2>3, <2>4, <2>5, ProcessStep
  <1> QED
    BY <1>4, <1>5 DEF CycleLock

LEMMA CollectsDelta ==
    ASSUME IInv, NEW i \in Instances, CollectDelta(i)
    PROVE  IInv'
  <1>1. PICK name \in DOMAIN files \ cyc[i].kept :
          LET read == [cyc[i] EXCEPT !.sum = @ + files[name], !.todo = @ \ {name}]
          IN  \/ /\ files' = Without(name)
                 /\ SetCyc(i, read)
                 /\ UNCHANGED <<drift, bound>>
              \/ /\ Fault("unlink")
                 /\ drift' = drift + files[name]
                 /\ SetCyc(i, [read EXCEPT !.kept = @ \cup {name}])
                 /\ UNCHANGED files
    BY DEF CollectDelta
  <1> DEFINE r == [cyc[i] EXCEPT !.sum = @ + files[name], !.todo = @ \ {name}]
             k == [r EXCEPT !.kept = @ \cup {name}]
  <1>2. /\ cyc[i].pc = "collect"
        /\ UNCHANGED <<acc, ev, conLock, journal, total, seq, net>>
    BY DEF CollectDelta
  <1>3. /\ acc[i] \in Int /\ cyc[i].out = 0 /\ cyc[i].sum \in Int /\ ev[i].out \in Int
        /\ PassOK(ev[i]) /\ cyc[i] \in Cycle /\ CycleOK(cyc[i])
        /\ ev' = [ev EXCEPT ![i] = ev[i]] /\ acc' = [acc EXCEPT ![i] = acc[i]]
        /\ journal \in Nat /\ conLock = i
        /\ total \in Int /\ net \in Int /\ drift \in Int /\ FilesSum \in Int
    <2>1. cyc[i].pc \in Collecting
      BY <1>2 DEF Collecting
    <2> QED
      BY <1>2, <2>1, Here DEF CycleOK
  <1>4. files[name] \in Int /\ name \in DeltaNames
    BY DEF IInv, DeltaFiles
  <1>5. /\ r \in Cycle /\ r.pc = "collect" /\ r.out = 0 /\ r.sum = cyc[i].sum + files[name]
        /\ k \in Cycle /\ k.pc = "collect" /\ k.out = 0 /\ k.sum = cyc[i].sum + files[name]
    <2> HIDE DEF k
    <2>1. cyc[i].sum + files[name] \in Int
      BY <1>3, <1>4
    <2>2. r \in Cycle /\ r.pc = "collect" /\ r.out = 0 /\ r.sum = cyc[i].sum + files[name]
      BY <1>2, <1>3, <2>1 DEF Cycle
    <2> HIDE DEF r
    <2> USE DEF k
    <2>3. k \in Cycle /\ k.pc = r.pc /\ k.out = r.out /\ k.sum = r.sum
      BY <1>4, <2>2 DEF Cycle
    <2> QED
      BY <2>2, <2>3
  <1>6. \/ files' = Without(name) /\ cyc' = [cyc EXCEPT ![i] = r] /\ UNCHANGED <<drift, bound>>
        \/ /\ Fault("unlink") /\ drift' = drift + files[name]
           /\ cyc' = [cyc EXCEPT ![i] = k] /\ UNCHANGED files
    BY <1>1, Zenon DEF SetCyc
  <1> HIDE DEF r, k
  <1>7. CycleOK(r) /\ CycleOK(k) /\ Guarded(i, r) /\ Guarded(i, k)
    BY <1>2, <1>3, <1>5 DEF CycleOK, Guarded
  <1>8. CASE files' = Without(name) /\ cyc' = [cyc EXCEPT ![i] = r] /\ UNCHANGED <<drift, bound>>
    <2>1. DeltaFiles' /\ FilesSum = FilesSum' + files[name]
      BY <1>2, <1>8, DeltaRemoved DEF IInv
    <2>2. MovesTo(i, acc[i], r, ev[i])
      BY <1>3, <1>7, <1>8, Zenon DEF MovesTo
    <2>3. FilesSum' \in Int
      <3>1. IsFiniteSet(DOMAIN files') /\ \A n \in DOMAIN files' : files'[n] \in Int
        BY <2>1 DEF DeltaFiles
      <3> QED
        BY <3>1, SumInt DEF FilesSum
    <2>4. Settles(i, acc[i], r, ev[i])
      BY <1>2, <1>3, <1>4, <1>5, <1>8, <2>1, <2>3 DEF Settles, Memory
    <2>5. World'
      BY <1>8 DEF IInv, World, CollectDelta
    <2> QED
      BY <1>7, <2>1, <2>2, <2>4, <2>5, ProcessStep
  <1>9. CASE /\ Fault("unlink") /\ drift' = drift + files[name]
             /\ cyc' = [cyc EXCEPT ![i] = k] /\ UNCHANGED files
    <2>1. DeltaFiles' /\ FilesSum' = FilesSum
      BY <1>2, <1>9, SameFiles DEF IInv
    <2>2. MovesTo(i, acc[i], k, ev[i])
      BY <1>3, <1>7, <1>9, Zenon DEF MovesTo
    <2>3. Settles(i, acc[i], k, ev[i])
      BY <1>2, <1>3, <1>4, <1>5, <1>9, <2>1 DEF Settles, Memory
    <2>4. bound' \in [stores : 0..MaxStores, faults : 0..MaxFaults] /\ drift' \in Int
      BY <1>3, <1>4, <1>9, FaultBounds DEF IInv
    <2>5. World'
      BY <2>4 DEF IInv, World, CollectDelta
    <2> QED
      BY <1>7, <2>1, <2>2, <2>3, <2>5, ProcessStep
  <1> QED
    BY <1>6, <1>8, <1>9

LEMMA UpdatesTotal ==
    ASSUME IInv, NEW i \in Instances, UpdateTotal(i)
    PROVE  IInv'
  <1> DEFINE c == [cyc[i] EXCEPT !.pc = "discover", !.sum = 0]
             sum == cyc[i].sum
  <1>1. /\ cyc[i].pc = "collect" /\ cyc' = [cyc EXCEPT ![i] = c]
        /\ UNCHANGED <<acc, ev, conLock, journal, files, seq, net>>
    BY DEF UpdateTotal, SetCyc
  <1>2. /\ acc[i] \in Int /\ cyc[i].out = 0 /\ sum \in Int /\ ev[i].out \in Int
        /\ PassOK(ev[i]) /\ cyc[i] \in Cycle
        /\ ev' = [ev EXCEPT ![i] = ev[i]] /\ acc' = [acc EXCEPT ![i] = acc[i]]
        /\ journal \in Nat /\ conLock = i
        /\ total \in Nat /\ net \in Int /\ drift \in Int /\ FilesSum \in Int
    <2>1. cyc[i].pc \in Collecting
      BY <1>1 DEF Collecting
    <2> QED
      BY <1>1, <2>1, Here DEF CycleOK
  <1>3. c \in Cycle /\ c.pc = "discover" /\ c.out = 0 /\ c.sum = 0
    BY <1>2 DEF Cycle, CycPcs
  <1>4. /\ total' \in Nat /\ drift' \in Int /\ total' - drift' = total + sum - drift
        /\ bound' \in [stores : 0..MaxStores, faults : 0..MaxFaults]
    <2>1. CASE /\ total' = SaturatingAdd(total, sum) /\ drift' = drift + Clamped(total, sum)
               /\ UNCHANGED bound
      <3>1. bound' \in [stores : 0..MaxStores, faults : 0..MaxFaults]
        BY <2>1 DEF IInv, World
      <3> QED
        BY <1>2, <2>1, <3>1 DEF SaturatingAdd, Clamped
    <2>2. CASE sum # 0 /\ Fault("update") /\ drift' = drift - sum /\ UNCHANGED total
      <3>1. bound' \in [stores : 0..MaxStores, faults : 0..MaxFaults]
        BY <2>2, FaultBounds DEF IInv
      <3> QED
        BY <1>2, <2>2, <3>1
    <2> QED
      BY <2>1, <2>2 DEF UpdateTotal
  <1> HIDE DEF c
  <1>5. DeltaFiles' /\ FilesSum' = FilesSum
    BY <1>1, SameFiles DEF IInv
  <1>6. CycleOK(c) /\ Guarded(i, c)
    BY <1>1, <1>2, <1>3 DEF CycleOK, Guarded
  <1>7. MovesTo(i, acc[i], c, ev[i])
    BY <1>1, <1>2, <1>6, Zenon DEF MovesTo
  <1>8. Settles(i, acc[i], c, ev[i])
    BY <1>1, <1>2, <1>3, <1>4, <1>5 DEF Settles, Memory
  <1>9. World'
    BY <1>4 DEF IInv, World, UpdateTotal
  <1> QED
    BY <1>5, <1>6, <1>7, <1>8, <1>9, ProcessStep

LEMMA Discovers ==
    ASSUME IInv, NEW i \in Instances, Discover(i)
    PROVE  IInv'
  <1> DEFINE c == [cyc[i] EXCEPT !.found = journal, !.pc = "keys"]
  <1>1. /\ cyc[i].pc = "discover" /\ cyc' = [cyc EXCEPT ![i] = c]
        /\ UNCHANGED <<acc, ev, conLock, journal, total, files, seq, net, drift>>
    BY DEF Discover, SetCyc, ledger
  <1>2. /\ acc[i] \in Int /\ cyc[i].out = 0 /\ cyc[i].sum = 0 /\ ev[i].out \in Int
        /\ PassOK(ev[i]) /\ cyc[i] \in Cycle
        /\ ev' = [ev EXCEPT ![i] = ev[i]] /\ acc' = [acc EXCEPT ![i] = acc[i]]
        /\ journal \in Nat /\ conLock = i
    <2>1. cyc[i].pc \in Collecting
      BY <1>1 DEF Collecting
    <2> QED
      BY <1>1, <2>1, Here DEF CycleOK
  <1>3. c \in Cycle /\ c.pc = "keys" /\ c.out = 0 /\ c.sum = 0 /\ c.found = journal
    BY <1>2 DEF Cycle, CycPcs
  <1> HIDE DEF c
  <1>4. DeltaFiles' /\ FilesSum' = FilesSum
    BY <1>1, SameFiles DEF IInv
  <1>5. CycleOK(c) /\ Guarded(i, c)
    BY <1>1, <1>2, <1>3 DEF CycleOK, Guarded
  <1>6. MovesTo(i, acc[i], c, ev[i])
    BY <1>1, <1>2, <1>5, Zenon DEF MovesTo
  <1>7. Settles(i, acc[i], c, ev[i])
    BY <1>1, <1>2, <1>3, <1>4 DEF Settles, Memory
  <1>8. World'
    BY DEF IInv, World, Discover, ledger
  <1> QED
    BY <1>4, <1>5, <1>6, <1>7, <1>8, ProcessStep

LEMMA Consolidates ==
    ASSUME IInv, NEW i \in Instances, Consolidate(i)
    PROVE  IInv'
  <1> DEFINE e == IF TriggersEviction(i) THEN [NoPass EXCEPT !.pc = "check"] ELSE ev[i]
  <1>1. /\ cyc[i].pc = "keys" /\ cyc' = [cyc EXCEPT ![i] = NoCycle] /\ conLock' = None
        /\ UNCHANGED <<acc, total, files, seq, net, drift>>
    BY DEF Consolidate, SetCyc, ledger
  <1>2. /\ acc[i] \in Int /\ cyc[i].out = 0 /\ cyc[i].sum = 0 /\ ev[i].out \in Int
        /\ PassOK(ev[i]) /\ cyc[i] \in Cycle
        /\ acc' = [acc EXCEPT ![i] = acc[i]]
        /\ journal \in Nat /\ conLock = i /\ cyc[i].found <= journal
    <2>1. cyc[i].pc \in Collecting
      BY <1>1 DEF Collecting
    <2> QED
      BY <1>1, <2>1, Here DEF CycleOK
  <1>3. PassOK(e) /\ e.out = ev[i].out /\ ev' = [ev EXCEPT ![i] = e]
    <2>1. CASE TriggersEviction(i)
      <3>1. ev[i].out = 0
        BY <1>2, <2>1 DEF TriggersEviction, PassOK
      <3>2. /\ [NoPass EXCEPT !.pc = "check"] \in Pass
            /\ [NoPass EXCEPT !.pc = "check"].out = 0
            /\ [NoPass EXCEPT !.pc = "check"].pc = "check"
        BY NothingHeld DEF Pass, EvPcs
      <3> QED
        BY <2>1, <3>1, <3>2 DEF PassOK, Consolidate, SetEv
    <2>2. CASE ~TriggersEviction(i)
      BY <1>2, <2>2, Here DEF Consolidate
    <2> QED
      BY <2>1, <2>2
  <1>4. /\ journal' \in Nat
        /\ bound' \in [stores : 0..MaxStores, faults : 0..MaxFaults]
    <2>1. CASE journal' = journal - cyc[i].found /\ UNCHANGED bound
      <3>1. cyc[i].found \in Nat
        BY <1>2 DEF Cycle
      <3>2. journal' \in Nat
        BY <1>2, <2>1, <3>1
      <3> QED
        BY <2>1, <3>2 DEF IInv, World
    <2>2. CASE Fault("skip") /\ UNCHANGED journal
      BY <1>2, <2>2, FaultBounds DEF IInv
    <2> QED
      BY <2>1, <2>2 DEF Consolidate
  <1> HIDE DEF e
  <1>5. DeltaFiles' /\ FilesSum' = FilesSum
    BY <1>1, SameFiles DEF IInv
  <1>6. Guarded(i, NoCycle)
    BY <1>2, NothingHeld DEF Guarded, Collecting
  <1>7. MovesTo(i, acc[i], NoCycle, e)
    BY <1>1, <1>2, <1>3, NothingHeld, Zenon DEF MovesTo
  <1>8. Settles(i, acc[i], NoCycle, e)
    BY <1>1, <1>2, <1>3, <1>5, NothingHeld DEF Settles, Memory
  <1>9. World'
    BY <1>1, <1>4 DEF IInv, World, Consolidate, ledger
  <1> QED
    BY <1>5, <1>6, <1>7, <1>8, <1>9, ProcessStep

-----------------------------------------------------------------------------
(* The steps of an eviction pass                                           *)

\* The pass moves and holds what it held.
LEMMA PassMoves ==
    ASSUME IInv, NEW i \in Instances, NEW e, PassOK(e), e.out = ev[i].out,
           ev' = [ev EXCEPT ![i] = e], World',
           UNCHANGED <<acc, cyc, conLock, journal, total, files, seq, net, drift>>
    PROVE  IInv'
  <1>1. /\ acc[i] \in Int /\ CycleOK(cyc[i]) /\ journal \in Nat
        /\ acc' = [acc EXCEPT ![i] = acc[i]] /\ cyc' = [cyc EXCEPT ![i] = cyc[i]]
    BY Here
  <1>2. MovesTo(i, acc[i], cyc[i], e)
    BY <1>1, Zenon DEF MovesTo
  <1>3. Guarded(i, cyc[i])
    BY <1>1, Here DEF Guarded
  <1>4. DeltaFiles' /\ FilesSum' = FilesSum
    BY SameFiles DEF IInv
  <1>5. Settles(i, acc[i], cyc[i], e)
    BY <1>4 DEF Settles, Memory
  <1> QED
    BY <1>2, <1>3, <1>4, <1>5, ProcessStep

LEMMA EvictionStarts ==
    ASSUME IInv, NEW i \in Instances, EvictionStart(i)
    PROVE  IInv'
  <1>1. /\ ev[i] \in Pass /\ ev[i].pc = "check" /\ ev[i].out = 0
        /\ UNCHANGED <<acc, cyc, conLock, journal, total, files, seq, net, drift>>
    BY Here DEF EvictionStart, PassOK, ledger
  <1>2. World'
    BY DEF IInv, World, EvictionStart, ledger
  <1>3. /\ PassOK([ev[i] EXCEPT !.pc = "recheck"])
        /\ [ev[i] EXCEPT !.pc = "recheck"].out = 0
    BY <1>1 DEF Pass, PassOK, EvPcs
  <1>4. \/ ev' = [ev EXCEPT ![i] = [ev[i] EXCEPT !.pc = "recheck"]]
        \/ ev' = [ev EXCEPT ![i] = NoPass]
    BY DEF EvictionStart, SetEv
  <1> QED
    BY <1>1, <1>2, <1>3, <1>4, NothingHeld, PassMoves

LEMMA EvictionRechecks ==
    ASSUME IInv, NEW i \in Instances, EvictionRecheck(i)
    PROVE  IInv'
  <1>1. /\ ev[i] \in Pass /\ ev[i].pc = "recheck" /\ ev[i].out = 0
        /\ UNCHANGED <<acc, cyc, conLock, journal, total, files, seq, net, drift>>
    BY Here DEF EvictionRecheck, PassOK, ledger
  <1>2. World'
    BY DEF IInv, World, EvictionRecheck, ledger
  <1>3. CASE ev' = [ev EXCEPT ![i] = [ev[i] EXCEPT !.pc = "unlock"]]
    <2>1. /\ PassOK([ev[i] EXCEPT !.pc = "unlock"])
          /\ [ev[i] EXCEPT !.pc = "unlock"].out = 0
      BY <1>1 DEF Pass, PassOK, EvPcs
    <2> QED
      BY <1>1, <1>2, <1>3, <2>1, PassMoves
  <1>4. ASSUME total > MaxSize, NEW S \in Candidates(BytesToFree),
               ev' = [ev EXCEPT ![i] = [ev[i] EXCEPT !.pc = "unlink", !.need = BytesToFree,
                                                     !.todo = S]]
        PROVE  IInv'
    <2>1. BytesToFree \in Nat
      BY <1>4, LimitAssumption DEF BytesToFree, IInv, World
    <2>2. S \in SUBSET Files
      BY DEF Candidates, IInv, World
    <2> DEFINE e == [ev[i] EXCEPT !.pc = "unlink", !.need = BytesToFree, !.todo = S]
    <2>3. e \in Pass /\ e.out = 0 /\ e.pc = "unlink"
      BY <1>1, <2>1, <2>2 DEF Pass, EvPcs
    <2> HIDE DEF e
    <2>4. PassOK(e)
      BY <2>3 DEF PassOK
    <2>5. ev' = [ev EXCEPT ![i] = e]
      BY <1>4 DEF e
    <2> QED
      BY <1>1, <1>2, <2>3, <2>4, <2>5, PassMoves
  <1> QED
    BY <1>3, <1>4 DEF EvictionRecheck, SetEv

LEMMA Unlinks ==
    ASSUME IInv, NEW i \in Instances, Unlink(i)
    PROVE  IInv'
  <1>1. /\ ev[i] \in Pass /\ ev[i].pc = "unlink" /\ ev[i].out = 0
        /\ UNCHANGED <<acc, cyc, conLock, journal, total, files, seq, net, drift>>
    BY Here DEF Unlink, PassOK, ledger
  <1>2. PICK f \in ev[i].todo :
          \/ /\ f \in disk
             /\ disk' = disk \ {f}
             /\ SetEv(i, [ev[i] EXCEPT !.todo = @ \ {f}, !.results = Append(@, f)])
             /\ UNCHANGED bound
          \/ /\ Fault("skip")
             /\ SetEv(i, [ev[i] EXCEPT !.todo = @ \ {f}])
             /\ UNCHANGED disk
    BY DEF Unlink
  <1>3. World'
    <2>1. bound' \in [stores : 0..MaxStores, faults : 0..MaxFaults]
      BY <1>2, FaultBounds DEF IInv, World
    <2>2. disk' \subseteq Files
      BY <1>2 DEF IInv, World
    <2> QED
      BY <2>1, <2>2 DEF IInv, World, Unlink, ledger
  <1> DEFINE e == [ev[i] EXCEPT !.todo = @ \ {f}, !.results = Append(@, f)]
             d == [ev[i] EXCEPT !.todo = @ \ {f}]
  <1>4. e \in Pass /\ e.out = 0 /\ e.pc = "unlink"
    <2>1. f \in Files /\ ev[i].results \in Seq(Files)
      BY <1>1 DEF Pass
    <2>2. Append(ev[i].results, f) \in Seq(Files)
      BY <2>1
    <2> QED
      BY <1>1, <2>2 DEF Pass
  <1>5. d \in Pass /\ d.out = 0 /\ d.pc = "unlink"
    BY <1>1 DEF Pass
  <1>6. ev' = [ev EXCEPT ![i] = e] \/ ev' = [ev EXCEPT ![i] = d]
    BY <1>2, Zenon DEF SetEv
  <1> HIDE DEF e, d
  <1>7. PassOK(e) /\ PassOK(d)
    BY <1>4, <1>5 DEF PassOK
  <1> QED
    BY <1>1, <1>3, <1>4, <1>5, <1>6, <1>7, PassMoves

\* The accounted results are files.
LEMMA AccountedFiles ==
    ASSUME NEW results \in Seq(Files), NEW need
    PROVE  Accounted(results, need) \in SUBSET Files
  <1>1. \A k \in DOMAIN results : results[k] \in Files
    OBVIOUS
  <1> QED
    BY <1>1 DEF Accounted

LEMMA Debits ==
    ASSUME IInv, NEW i \in Instances, Debit(i)
    PROVE  IInv'
  <1> DEFINE S == Accounted(ev[i].results, ev[i].need)
             e == [ev[i] EXCEPT !.pc = IF S = {} THEN "unlock" ELSE "flush", !.debited = S]
             a == acc[i] - Bytes(S)
  <1>1. /\ ev[i].pc = "unlink" /\ acc' = [acc EXCEPT ![i] = a] /\ net' = net - Bytes(S)
        /\ recent' = [recent EXCEPT ![i] = @ \ S] /\ ev' = [ev EXCEPT ![i] = e]
        /\ UNCHANGED <<cyc, conLock, journal, total, files, seq, drift>>
    BY DEF Debit, SetEv
  <1>2. /\ acc[i] \in Int /\ CycleOK(cyc[i]) /\ ev[i] \in Pass /\ ev[i].out = 0
        /\ cyc' = [cyc EXCEPT ![i] = cyc[i]] /\ cyc[i].out \in Int /\ cyc[i].sum \in Int
        /\ journal \in Nat /\ total \in Int /\ net \in Int /\ drift \in Int /\ FilesSum \in Int
    BY <1>1, Here DEF PassOK
  <1>3. S \in SUBSET Files /\ Bytes(S) \in Int
    <2>1. ev[i].results \in Seq(Files)
      BY <1>2 DEF Pass
    <2>2. S \in SUBSET Files
      BY <2>1, AccountedFiles
    <2> QED
      BY <2>2, BytesInt
  <1> HIDE DEF S
  <1>4. e \in Pass /\ e.out = 0 /\ e.pc = (IF S = {} THEN "unlock" ELSE "flush")
    <2>1. (IF S = {} THEN "unlock" ELSE "flush") \in EvPcs
      BY DEF EvPcs
    <2> QED
      BY <1>2, <1>3, <2>1 DEF Pass
  <1> HIDE DEF e
  <1>5. PassOK(e) /\ a \in Int
    BY <1>2, <1>3, <1>4 DEF PassOK
  <1>6. MovesTo(i, a, cyc[i], e)
    BY <1>1, <1>2, <1>5, Zenon DEF MovesTo
  <1>7. Guarded(i, cyc[i])
    BY <1>1, <1>2, Here DEF Guarded
  <1>8. DeltaFiles' /\ FilesSum' = FilesSum
    BY <1>1, SameFiles DEF IInv
  <1>9. Settles(i, a, cyc[i], e)
    BY <1>1, <1>2, <1>3, <1>4, <1>8 DEF Settles, Memory
  <1>10. World'
    <2>1. recent' \in [Instances -> SUBSET Files] /\ net' \in Int
      BY <1>1, <1>2, <1>3 DEF IInv, World
    <2> QED
      BY <2>1 DEF IInv, World, Debit
  <1> QED
    BY <1>6, <1>7, <1>8, <1>9, <1>10, ProcessStep

LEMMA EvictionSwaps ==
    ASSUME IInv, NEW i \in Instances, EvictionSwap(i)
    PROVE  IInv'
  <1> DEFINE e == [ev[i] EXCEPT !.out = acc[i], !.pc = IF acc[i] = 0 THEN "unlock" ELSE "write"]
  <1>1. /\ ev[i].pc = "flush" /\ acc' = [acc EXCEPT ![i] = 0] /\ ev' = [ev EXCEPT ![i] = e]
        /\ journal' = journal + Cardinality(ev[i].debited)
        /\ UNCHANGED <<cyc, conLock, total, files, seq, net, drift>>
    BY DEF EvictionSwap, SetEv, ledger
  <1>2. /\ acc[i] \in Int /\ CycleOK(cyc[i]) /\ ev[i] \in Pass /\ ev[i].out = 0
        /\ cyc' = [cyc EXCEPT ![i] = cyc[i]] /\ cyc[i].out \in Int /\ cyc[i].sum \in Int
        /\ journal \in Nat /\ cyc[i] \in Cycle
        /\ total \in Int /\ net \in Int /\ drift \in Int /\ FilesSum \in Int
    BY <1>1, Here DEF PassOK
  <1>3. journal' \in Nat /\ journal' >= journal
    <2>1. ev[i].debited \in SUBSET Files
      BY <1>2 DEF Pass
    <2>2. Cardinality(ev[i].debited) \in Nat
      BY <2>1, BytesInt, FS_CardinalityType
    <2> QED
      BY <1>1, <1>2, <2>2
  <1>4. e \in Pass /\ e.out = acc[i] /\ e.pc = (IF acc[i] = 0 THEN "unlock" ELSE "write")
    <2>1. (IF acc[i] = 0 THEN "unlock" ELSE "write") \in EvPcs
      BY DEF EvPcs
    <2> QED
      BY <1>2, <2>1 DEF Pass
  <1> HIDE DEF e
  <1>5. PassOK(e) /\ 0 \in Int
    BY <1>2, <1>4 DEF PassOK
  <1>6. MovesTo(i, 0, cyc[i], e)
    BY <1>1, <1>2, <1>5, Zenon DEF MovesTo
  <1>7. Guarded(i, cyc[i])
    <2>1. cyc[i].found \in Nat
      BY <1>2 DEF Cycle
    <2> QED
      BY <1>1, <1>2, <1>3, <2>1, Here DEF Guarded
  <1>8. DeltaFiles' /\ FilesSum' = FilesSum
    BY <1>1, SameFiles DEF IInv
  <1>9. Settles(i, 0, cyc[i], e)
    BY <1>1, <1>2, <1>4, <1>8 DEF Settles, Memory
  <1>10. World'
    BY <1>3 DEF IInv, World, EvictionSwap, ledger
  <1> QED
    BY <1>6, <1>7, <1>8, <1>9, <1>10, ProcessStep

LEMMA EvictionFlushes ==
    ASSUME IInv, NEW i \in Instances, EvictionFlush(i)
    PROVE  IInv'
  <1> DEFINE e == [ev[i] EXCEPT !.pc = "unlock", !.out = 0]
  <1>1. /\ ev' = [ev EXCEPT ![i] = e] /\ ev[i].pc = "write"
        /\ UNCHANGED <<cyc, conLock, journal, total, net, drift>>
    BY DEF EvictionFlush, SetEv
  <1>2. /\ acc[i] \in Int /\ cyc[i].out \in Int /\ cyc[i].sum \in Int /\ CycleOK(cyc[i])
        /\ ev[i].out \in Int /\ ev[i].out # 0 /\ ev[i] \in Pass
        /\ cyc' = [cyc EXCEPT ![i] = cyc[i]]
        /\ total \in Int /\ net \in Int /\ drift \in Int /\ FilesSum \in Int
    BY <1>1, Here DEF PassOK
  <1>3. e \in Pass /\ e.out = 0 /\ e.pc = "unlock"
    <2>1. "unlock" \in EvPcs /\ 0 \in Int
      BY DEF EvPcs
    <2> QED
      BY <1>2, <2>1 DEF Pass
  <1> HIDE DEF e
  <1>4. PassOK(e)
    BY <1>3 DEF PassOK
  <1>5. Guarded(i, cyc[i])
    BY <1>1, Here DEF Guarded
  <1>6. CASE WriteDelta(i, ev[i].out) /\ UNCHANGED <<acc, bound>>
    <2>1. DeltaFiles' /\ seq' \in [Instances -> Nat] /\ FilesSum' = FilesSum + ev[i].out
      BY <1>2, <1>6, DeltaWritten DEF IInv
    <2>2. acc' = [acc EXCEPT ![i] = acc[i]]
      BY <1>6, Here
    <2>3. MovesTo(i, acc[i], cyc[i], e)
      BY <1>1, <1>2, <1>4, <2>2, Zenon DEF MovesTo
    <2>4. Settles(i, acc[i], cyc[i], e)
      BY <1>1, <1>2, <1>3, <2>1 DEF Settles, Memory
    <2>5. World'
      BY <1>6, <2>1 DEF IInv, World, EvictionFlush
    <2> QED
      BY <1>5, <2>1, <2>3, <2>4, <2>5, ProcessStep
  <1>7. CASE FlushFails(i, ev[i].out) /\ UNCHANGED files
    <2> DEFINE a == acc[i] + ev[i].out
    <2>1. acc' = [acc EXCEPT ![i] = a] /\ seq' = [seq EXCEPT ![i] = @ + 1] /\ Fault("write")
      BY <1>7 DEF FlushFails, Restored
    <2>2. DeltaFiles' /\ seq' \in [Instances -> Nat] /\ FilesSum' = FilesSum
      BY <1>7, <2>1, SequenceSkipped DEF IInv
    <2>3. a \in Int
      BY <1>2
    <2>4. MovesTo(i, a, cyc[i], e)
      BY <1>1, <1>2, <1>4, <2>1, <2>3, Zenon DEF MovesTo
    <2>5. Settles(i, a, cyc[i], e)
      BY <1>1, <1>2, <1>3, <2>2 DEF Settles, Memory
    <2>6. bound' \in [stores : 0..MaxStores, faults : 0..MaxFaults]
      BY <2>1, FaultBounds DEF IInv
    <2>7. World'
      BY <2>2, <2>6 DEF IInv, World, EvictionFlush
    <2> QED
      BY <1>5, <2>2, <2>4, <2>5, <2>7, ProcessStep
  <1> QED
    BY <1>6, <1>7 DEF EvictionFlush

LEMMA EvictionUnlocks ==
    ASSUME IInv, NEW i \in Instances, EvictionUnlock(i)
    PROVE  IInv'
  <1>1. /\ ev' = [ev EXCEPT ![i] = NoPass] /\ ev[i].pc = "unlock"
        /\ UNCHANGED <<acc, cyc, conLock, journal, total, files, seq, net, drift>>
    BY DEF EvictionUnlock, SetEv, ledger
  <1>2. ev[i].out = 0
    BY <1>1, Here DEF PassOK
  <1>3. World'
    BY DEF IInv, World, EvictionUnlock, ledger
  <1> QED
    BY <1>1, <1>2, <1>3, NothingHeld, PassMoves

-----------------------------------------------------------------------------
(* A process dies                                                          *)

LEMMA Crashes ==
    ASSUME IInv, NEW i \in Instances, Crash(i)
    PROVE  IInv'
  <1>1. /\ acc' = [acc EXCEPT ![i] = 0] /\ cyc' = [cyc EXCEPT ![i] = NoCycle]
        /\ ev' = [ev EXCEPT ![i] = NoPass]
        /\ drift' = drift - Memory(acc[i], cyc[i], ev[i])
        /\ conLock' = (IF conLock = i THEN None ELSE conLock)
        /\ evLock' = (IF evLock = i THEN None ELSE evLock)
        /\ UNCHANGED <<disk, journal, total, files, seq, net>>
    BY DEF Crash, SetCyc, SetEv, Memory
  <1>2. /\ acc[i] \in Int /\ Memory(acc[i], cyc[i], ev[i]) \in Int
        /\ journal \in Nat /\ total \in Int /\ net \in Int /\ drift \in Int /\ FilesSum \in Int
    BY Here, MemoryInt
  <1>3. 0 \in Int /\ Memory(0, NoCycle, NoPass) = 0
    BY NothingHeld DEF Memory
  <1>4. MovesTo(i, 0, NoCycle, NoPass)
    BY <1>1, <1>3, NothingHeld, Zenon DEF MovesTo
  <1>5. Guarded(i, NoCycle)
    BY <1>1, <1>2, NothingHeld DEF Guarded, Collecting
  <1>6. DeltaFiles' /\ FilesSum' = FilesSum
    BY <1>1, SameFiles DEF IInv
  <1>7. Settles(i, 0, NoCycle, NoPass)
    BY <1>1, <1>2, <1>3, <1>6 DEF Settles
  <1>8. World'
    <2>1. bound' \in [stores : 0..MaxStores, faults : 0..MaxFaults] /\ drift' \in Int
      BY <1>1, <1>2, FaultBounds DEF IInv, Crash
    <2>2. CallOK(NoCall)
      BY DEF CallOK, Call, NoCall
    <2>3. store' \in [Workers -> Call] /\ \A v \in Workers : CallOK(store'[v])
      BY <2>2 DEF Crash, IInv, World, CallOK
    <2>4. recent' \in [Instances -> SUBSET Files] /\ up' \subseteq Instances
      BY DEF Crash, IInv, World
    <2> QED
      BY <1>1, <2>1, <2>3, <2>4 DEF IInv, World
  <1> QED
    BY <1>4, <1>5, <1>6, <1>7, <1>8, ProcessStep

-----------------------------------------------------------------------------
(* The theorems                                                            *)

LEMMA InitHolds == Init => IInv
  <1> SUFFICES ASSUME Init PROVE IInv
    OBVIOUS
  <1>1. World
    <2>1. CallOK(NoCall) /\ NoCall \in Call
      BY DEF CallOK, Call, NoCall
    <2> QED
      BY <2>1, BoundAssumption DEF Init, World
  <1>2. DOMAIN files = {}
    BY DEF Init
  <1>3. DeltaFiles
    BY <1>2, FS_EmptySet DEF Init, DeltaFiles
  <1>4. Processes
    BY NothingHeld DEF Init, Processes
  <1>5. OneCollector
    BY NothingHeld DEF Init, OneCollector, Collecting
  <1>6. FilesSum = 0
    BY <1>2, FS_EmptySet, SumRec DEF FilesSum
  <1>7. MemorySum = 0
    <2>1. \A i \in Instances : InMemory[i] = 0
      BY NothingHeld DEF InMemory, Init
    <2>2. \A i \in Instances : InMemory[i] \in Nat
      BY <2>1
    <2> QED
      BY <2>1, <2>2, SumBounds, InstanceAssumption DEF MemorySum
  <1>8. Balanced
    BY <1>6, <1>7 DEF Balanced, Init
  <1> QED
    BY <1>1, <1>3, <1>4, <1>5, <1>8 DEF IInv

LEMMA NextKeeps == IInv /\ [Next]_vars => IInv'
  <1> SUFFICES ASSUME IInv, [Next]_vars PROVE IInv'
    OBVIOUS
  <1>1. ASSUME NEW w \in Workers, StoreStep(w) PROVE IInv'
    BY <1>1, StoreChecks, StorePublishes, StoreCredits DEF StoreStep
  <1>2. ASSUME NEW i \in Instances, CycleStep(i) PROVE IInv'
    BY <1>2, CycleStarts, CycleFlushes, CycleLocks, CollectsDelta, UpdatesTotal, Discovers,
       Consolidates DEF CycleStep
  <1>3. ASSUME NEW i \in Instances, EvictionStep(i) PROVE IInv'
    BY <1>3, EvictionStarts, EvictionRechecks, Unlinks, Debits, EvictionSwaps,
       EvictionFlushes, EvictionUnlocks DEF EvictionStep
  <1>4. ASSUME NEW i \in Instances, Crash(i) PROVE IInv'
    BY <1>4, Crashes
  <1>5. CASE UNCHANGED vars
    <2>1. UNCHANGED <<acc, cyc, ev, files, seq>> /\ InMemory' = InMemory
      BY <1>5 DEF vars, InMemory
    <2> QED
      BY <1>5, <2>1 DEF vars, IInv, World, DeltaFiles, Processes, OneCollector, Balanced,
                        FilesSum, MemorySum
  <1> QED
    BY <1>1, <1>2, <1>3, <1>4, <1>5 DEF Next

\* The invariant that every step of a store, a cycle, an eviction pass and a
\* crash keeps.
THEOREM LedgerInvariant == Spec => []IInv
  BY InitHolds, NextKeeps, PTL DEF Spec

\* Every variable stays in its domain; in particular size_state.json never holds
\* a negative size, and the entries removed from the journal were there.
THEOREM TypeCorrect == Spec => []TypeOK
  <1>1. IInv => TypeOK
    BY DEF IInv, World, DeltaFiles, Processes, TypeOK
  <1> QED
    BY <1>1, LedgerInvariant, PTL

\* No credit or debit is lost or applied twice between an accumulator and
\* size_state.json (flush, collect_and_apply_deltas, atomic_update_size_delta).
THEOREM NothingLost == Spec => []DeltasConserved
  <1>1. IInv => DeltasConserved
    <2> SUFFICES ASSUME IInv PROVE DeltasConserved
      OBVIOUS
    <2>1. Pending = FilesSum + MemorySum
      BY PendingIsSum
    <2>2. FilesSum \in Int /\ MemorySum \in Int /\ total \in Int
      <3>1. \A i \in Instances : InMemory[i] \in Int
        BY MemoryInt DEF IInv, Processes, InMemory, Memory
      <3>2. MemorySum \in Int
        BY <3>1, SumInt, InstanceAssumption DEF MemorySum
      <3> QED
        BY <3>2, FilesSumInt DEF IInv, World
    <2>3. total + FilesSum + MemorySum = net + drift
      BY DEF IInv, Balanced
    <2> QED
      BY <2>1, <2>2, <2>3 DEF DeltasConserved
  <1> QED
    BY <1>1, LedgerInvariant, PTL

=============================================================================
