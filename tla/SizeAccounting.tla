--------------------------- MODULE SizeAccounting ---------------------------
(***************************************************************************)
(* The tracked size of a cache that several proxy processes share, and the *)
(* eviction that relies on it.                                             *)
(*                                                                         *)
(* Stores credit, and evictions debit, an in-memory accumulator of their   *)
(* process.  A flush moves the accumulator to a new delta file on shared   *)
(* storage; the consolidation cycle that gets the global lock sums and     *)
(* deletes all delta files and adds the sum to size_state.json.  Above a   *)
(* limit the cycle spawns an eviction pass.  A file here is the one range  *)
(* file of an object; VersionedStore models how it is published and        *)
(* removed.  The second counter of the accumulator, the size of the write  *)
(* cache, travels with the first and is left out, and so are validation    *)
(* scans.                                                                  *)
(***************************************************************************)
EXTENDS Integers, Sequences, FiniteSets, Functions

CONSTANTS
    Instances,      \* proxy processes
    Workers,        \* concurrent store_range calls
    HostOf,         \* the process of each worker
    Files,          \* range files that may be cached
    Size,           \* compressed_size of each file
    MaxSize,        \* max_cache_size
    Trigger,        \* eviction_trigger_percent of it, in bytes
    Target,         \* eviction_target_percent of it, in bytes
    MaxStores,      \* bound: store_range calls
    MaxFaults,      \* bound: failures and crashes
    Faults          \* the faults enabled in this instance

FaultNames == {"write", "unlink", "update", "skip", "crash"}

ASSUME SizeAssumption == IsFiniteSet(Files) /\ Size \in [Files -> Nat \ {0}]
ASSUME HostAssumption == HostOf \in [Workers -> Instances]
ASSUME LimitAssumption == /\ MaxSize \in Nat /\ Trigger \in 0..MaxSize
                          /\ Target \in 0..Trigger
ASSUME BoundAssumption == MaxStores \in Nat /\ MaxFaults \in Nat
ASSUME FaultAssumption == Faults \subseteq FaultNames

None == "none"
ASSUME InstanceAssumption == IsFiniteSet(Instances) /\ None \notin Instances

DeltaNames == Instances \X Nat
Bytes(S) == FoldFunctionOnSet(+, 0, Size, S)

VARIABLES
    disk,           \* the range files on shared storage
    journal,        \* number of journal entries not yet consolidated
    total,          \* total_size in size_state.json
    files,          \* delta files: name -> delta
    acc,            \* delta of each process's SizeAccumulator
    recent,         \* its recent_ranges
    seq,            \* its flush_sequence
    cyc,            \* the consolidation task of each process
    ev,             \* its eviction task
    store,          \* the store_range calls
    conLock,        \* holder of the global consolidation lock
    evLock,         \* holder of the global eviction lock
    up,             \* processes that run
    net,            \* history: credits less debits, as the processes made them
    drift,          \* history: what faults and clamping did to the total
    bound           \* store_range calls and faults so far

vars == <<disk, journal, total, files, acc, recent, seq, cyc, ev, store,
          conLock, evLock, up, net, drift, bound>>
ledger == <<total, files, net, drift>>

CycPcs == {"idle", "write", "lock", "collect", "discover", "keys"}
EvPcs == {"idle", "check", "recheck", "unlink", "flush", "write", "unlock"}
\* out: the delta a flush has taken from the accumulator; sum, todo: the deltas
\* collected and the listed files still to read; kept: those read and not
\* deleted; found: entries discovered.
Cycle == [pc : CycPcs, out : Int, sum : Int, todo : SUBSET DeltaNames,
          kept : SUBSET DeltaNames, found : Nat]
NoCycle == [pc |-> "idle", out |-> 0, sum |-> 0, todo |-> {}, kept |-> {}, found |-> 0]
\* need: bytes_to_free; todo: the chosen files; results: the files unlinked, in
\* the order the futures completed; debited: the ones accounted.
Pass == [pc : EvPcs, need : Nat, todo : SUBSET Files, results : Seq(Files),
         debited : SUBSET Files, out : Int]
NoPass == [pc |-> "idle", need |-> 0, todo |-> {}, results |-> <<>>,
           debited |-> {}, out |-> 0]
Call == [pc : {"idle", "publish", "credit"}, file : Files \cup {None},
         existed : BOOLEAN]
NoCall == [pc |-> "idle", file |-> None, existed |-> FALSE]

Init ==
    /\ disk = {} /\ journal = 0 /\ total = 0 /\ files = <<>>
    /\ acc = [i \in Instances |-> 0] /\ recent = [i \in Instances |-> {}]
    /\ seq = [i \in Instances |-> 0]
    /\ cyc = [i \in Instances |-> NoCycle] /\ ev = [i \in Instances |-> NoPass]
    /\ store = [w \in Workers |-> NoCall]
    /\ conLock = None /\ evLock = None /\ up = Instances
    /\ net = 0 /\ drift = 0 /\ bound = [stores |-> 0, faults |-> 0]

Fault(name) == /\ name \in Faults /\ bound.faults < MaxFaults
               /\ bound' = [bound EXCEPT !.faults = @ + 1]

-----------------------------------------------------------------------------
(* store_range, from the point where the data is in a temporary file.      *)

SetCall(w, c) == store' = [store EXCEPT ![w] = c]

\* range_already_existed = range_file_path.exists()
StoreCheck(w) ==
    /\ store[w].pc = "idle" /\ HostOf[w] \in up /\ bound.stores < MaxStores
    /\ \E f \in Files :
          SetCall(w, [pc |-> "publish", file |-> f, existed |-> f \in disk])
    /\ bound' = [bound EXCEPT !.stores = @ + 1]
    /\ UNCHANGED <<disk, journal, acc, recent, seq, cyc, ev, conLock, evLock, up, ledger>>

\* The rename, then the journal entry.  A failed append leaves the file on disk,
\* uncounted.
StorePublish(w) ==
    /\ store[w].pc = "publish"
    /\ disk' = disk \cup {store[w].file}
    /\ \/ /\ journal' = journal + 1
          /\ SetCall(w, [store[w] EXCEPT !.pc = "credit"])
          /\ UNCHANGED bound
       \/ /\ Fault("write")
          /\ SetCall(w, NoCall)
          /\ UNCHANGED journal
    /\ UNCHANGED <<acc, recent, seq, cyc, ev, conLock, evLock, up, ledger>>

\* add_range_file: recent_ranges suppresses a second credit of the same file.
Credited(w) ==
    IF ~store[w].existed /\ store[w].file \notin recent[HostOf[w]]
    THEN {store[w].file} ELSE {}

StoreCredit(w) ==
    /\ store[w].pc = "credit"
    /\ recent' = [recent EXCEPT ![HostOf[w]] = @ \cup Credited(w)]
    /\ acc' = [acc EXCEPT ![HostOf[w]] = @ + Bytes(Credited(w))]
    /\ net' = net + Bytes(Credited(w))
    /\ SetCall(w, NoCall)
    /\ UNCHANGED <<disk, journal, total, files, seq, cyc, ev, conLock, evLock, up,
                   drift, bound>>

-----------------------------------------------------------------------------
(* run_consolidation_cycle.                                                *)

SetCyc(i, c) == cyc' = [cyc EXCEPT ![i] = c]
SetEv(i, e) == ev' = [ev EXCEPT ![i] = e]

\* Seeded fault: one delta file per process, as before the sequence number.
FaultOneFilePerInstance(i, n) == <<i, 0>>
\* Each flush writes a file of its own.
DeltaName(i, n) == <<i, n>>

\* write_delta_file by the rename of a temporary file.
WriteDelta(i, delta) ==
    LET name == DeltaName(i, seq[i])
    IN  /\ files' = [n \in DOMAIN files \cup {name} |->
                        IF n = name THEN delta ELSE files[n]]
        /\ seq' = [seq EXCEPT ![i] = @ + 1]

\* What flush puts back after the write has failed.
Restored(i, delta) == acc[i] + delta

\* A flush that cannot write puts the delta back.
FlushFails(i, delta) ==
    /\ Fault("write")
    /\ acc' = [acc EXCEPT ![i] = Restored(i, delta)]
    /\ seq' = [seq EXCEPT ![i] = @ + 1]

HasWork(i) == acc[i] # 0 \/ journal > 0

\* The idle check, then flush's swap(0).
CycleStart(i) ==
    /\ i \in up /\ cyc[i].pc = "idle" /\ HasWork(i)
    /\ SetCyc(i, [NoCycle EXCEPT !.out = acc[i],
                                 !.pc = IF acc[i] = 0 THEN "lock" ELSE "write"])
    /\ acc' = [acc EXCEPT ![i] = 0]
    /\ UNCHANGED <<disk, journal, recent, seq, ev, store, conLock, evLock, up, bound,
                   ledger>>

CycleFlush(i) ==
    /\ cyc[i].pc = "write"
    /\ \/ WriteDelta(i, cyc[i].out) /\ UNCHANGED <<acc, bound>>
       \/ FlushFails(i, cyc[i].out) /\ UNCHANGED files
    /\ SetCyc(i, [cyc[i] EXCEPT !.pc = "lock", !.out = 0])
    /\ UNCHANGED <<disk, journal, total, recent, ev, store, conLock, evLock, up, net,
                   drift>>

\* try_acquire_global_consolidation_lock, then read_dir: what is there now is
\* listed; what appears later may be.
CycleLock(i) ==
    /\ cyc[i].pc = "lock"
    /\ \/ /\ conLock = None
          /\ conLock' = i
          /\ SetCyc(i, [cyc[i] EXCEPT !.pc = "collect", !.todo = DOMAIN files])
       \/ /\ conLock # None
          /\ SetCyc(i, NoCycle)
          /\ UNCHANGED conLock
    /\ UNCHANGED <<disk, journal, acc, recent, seq, ev, store, evLock, up, bound, ledger>>

Without(name) == [n \in DOMAIN files \ {name} |-> files[n]]

\* One file is read, summed and deleted; a failed delete is only logged.
CollectDelta(i) ==
    /\ cyc[i].pc = "collect"
    /\ \E name \in DOMAIN files \ cyc[i].kept :
          LET read == [cyc[i] EXCEPT !.sum = @ + files[name], !.todo = @ \ {name}]
          IN  \/ /\ files' = Without(name)
                 /\ SetCyc(i, read)
                 /\ UNCHANGED <<drift, bound>>
              \/ /\ Fault("unlink")
                 /\ drift' = drift + files[name]
                 /\ SetCyc(i, [read EXCEPT !.kept = @ \cup {name}])
                 /\ UNCHANGED files
    /\ UNCHANGED <<disk, journal, total, acc, recent, seq, ev, store, conLock, evLock, up,
                   net>>

\* Seeded fault: the sum is added without the clamp.
FaultNoClamp(n, d) == n + d
SaturatingAdd(n, d) == IF n + d < 0 THEN 0 ELSE n + d

\* The part of a debit that saturating_sub drops.
Clamped(n, d) == IF n + d < 0 THEN -(n + d) ELSE 0

\* atomic_update_size_delta; when it fails the collected sum is gone.  A sum of
\* zero changes nothing.
UpdateTotal(i) ==
    LET sum == cyc[i].sum
    IN  /\ cyc[i].pc = "collect" /\ cyc[i].todo = {}
        /\ \/ /\ total' = SaturatingAdd(total, sum)
              /\ drift' = drift + Clamped(total, sum)
              /\ UNCHANGED bound
           \/ /\ sum # 0 /\ Fault("update")
              /\ drift' = drift - sum
              /\ UNCHANGED total
        /\ SetCyc(i, [cyc[i] EXCEPT !.pc = "discover", !.sum = 0])
        /\ UNCHANGED <<disk, journal, files, acc, recent, seq, ev, store, conLock, evLock,
                       up, net>>

Discover(i) ==
    /\ cyc[i].pc = "discover"
    /\ SetCyc(i, [cyc[i] EXCEPT !.found = journal, !.pc = "keys"])
    /\ UNCHANGED <<disk, journal, acc, recent, seq, ev, store, conLock, evLock, up, bound,
                   ledger>>

\* maybe_trigger_eviction: at most one pass of a process runs at a time.
TriggersEviction(i) == total > Trigger /\ ev[i].pc = "idle"

\* The discovered entries are applied and removed; keys that exceed their time
\* budget stay in the journal.  Then an eviction pass may be spawned, and
\* the lock guard is dropped.
Consolidate(i) ==
    /\ cyc[i].pc = "keys"
    /\ \/ journal' = journal - cyc[i].found /\ UNCHANGED bound
       \/ cyc[i].found > 0 /\ Fault("skip") /\ UNCHANGED journal
    /\ IF TriggersEviction(i)
       THEN SetEv(i, [NoPass EXCEPT !.pc = "check"])
       ELSE UNCHANGED ev
    /\ conLock' = None
    /\ SetCyc(i, NoCycle)
    /\ UNCHANGED <<disk, acc, recent, seq, store, evLock, up, ledger>>

-----------------------------------------------------------------------------
(* enforce_disk_cache_limits and perform_eviction_with_lock.               *)

\* The check without the lock, then try_acquire_global_eviction_lock.
EvictionStart(i) ==
    /\ ev[i].pc = "check"
    /\ IF total > MaxSize /\ evLock = None
       THEN evLock' = i /\ SetEv(i, [ev[i] EXCEPT !.pc = "recheck"])
       ELSE SetEv(i, NoPass) /\ UNCHANGED evLock
    /\ UNCHANGED <<disk, journal, acc, recent, seq, cyc, store, conLock, up, bound, ledger>>

BytesToFree == total - Target

\* group_candidates_by_object: candidates, in an order that depends on their
\* access times, until their sizes reach the bytes to free.
Candidates(need) ==
    {S \in SUBSET disk : \E last \in S : Bytes(S \ {last}) < need}

\* The size is read again under the lock.  Files that no .meta lists yet are not
\* candidates, so the pass may find none.
EvictionRecheck(i) ==
    /\ ev[i].pc = "recheck"
    /\ \/ /\ total > MaxSize
          /\ \E S \in Candidates(BytesToFree) :
                SetEv(i, [ev[i] EXCEPT !.pc = "unlink", !.need = BytesToFree, !.todo = S])
       \/ SetEv(i, [ev[i] EXCEPT !.pc = "unlock"])
    /\ UNCHANGED <<disk, journal, acc, recent, seq, cyc, store, conLock, evLock, up, bound,
                   ledger>>

\* batch_evict_range_files of one object; an object whose lock is busy, or
\* that is in use, is passed over.
Unlink(i) ==
    /\ ev[i].pc = "unlink"
    /\ \E f \in ev[i].todo :
          \/ /\ f \in disk
             /\ disk' = disk \ {f}
             /\ SetEv(i, [ev[i] EXCEPT !.todo = @ \ {f}, !.results = Append(@, f)])
             /\ UNCHANGED bound
          \/ /\ Fault("skip")
             /\ SetEv(i, [ev[i] EXCEPT !.todo = @ \ {f}])
             /\ UNCHANGED disk
    /\ UNCHANGED <<journal, acc, recent, seq, cyc, store, conLock, evLock, up, ledger>>

\* The aggregation stops at the first result that finds the target reached.
Accounted(results, need) ==
    {results[k] : k \in {n \in DOMAIN results :
        Bytes(Range(SubSeq(results, 1, n - 1))) < need}}

\* subtract_range_file for each file accounted.
Debit(i) ==
    LET S == Accounted(ev[i].results, ev[i].need)
    IN  /\ ev[i].pc = "unlink" /\ ev[i].todo = {}
        /\ recent' = [recent EXCEPT ![i] = @ \ S]
        /\ acc' = [acc EXCEPT ![i] = @ - Bytes(S)]
        /\ net' = net - Bytes(S)
        /\ SetEv(i, [ev[i] EXCEPT !.pc = IF S = {} THEN "unlock" ELSE "flush",
                                  !.debited = S])
        /\ UNCHANGED <<disk, journal, total, files, seq, cyc, store, conLock, evLock, up,
                       drift, bound>>

\* write_eviction_journal_entries, then the swap of the flush before the lock is
\* released.
EvictionSwap(i) ==
    /\ ev[i].pc = "flush"
    /\ journal' = journal + Cardinality(ev[i].debited)
    /\ SetEv(i, [ev[i] EXCEPT !.out = acc[i],
                              !.pc = IF acc[i] = 0 THEN "unlock" ELSE "write"])
    /\ acc' = [acc EXCEPT ![i] = 0]
    /\ UNCHANGED <<disk, recent, seq, cyc, store, conLock, evLock, up, bound, ledger>>

EvictionFlush(i) ==
    /\ ev[i].pc = "write"
    /\ \/ WriteDelta(i, ev[i].out) /\ UNCHANGED <<acc, bound>>
       \/ FlushFails(i, ev[i].out) /\ UNCHANGED files
    /\ SetEv(i, [ev[i] EXCEPT !.pc = "unlock", !.out = 0])
    /\ UNCHANGED <<disk, journal, total, recent, cyc, store, conLock, evLock, up, net,
                   drift>>

EvictionUnlock(i) ==
    /\ ev[i].pc = "unlock"
    /\ evLock' = None
    /\ SetEv(i, NoPass)
    /\ UNCHANGED <<disk, journal, acc, recent, seq, cyc, store, conLock, up, bound, ledger>>

-----------------------------------------------------------------------------
(* A process dies: its memory is lost, the kernel releases its flocks.  A  *)
(* process started in its place has another instance id.                   *)

Crash(i) ==
    /\ i \in up /\ Fault("crash")
    /\ up' = up \ {i}
    /\ drift' = drift - (acc[i] + cyc[i].out + cyc[i].sum + ev[i].out)
    /\ acc' = [acc EXCEPT ![i] = 0] /\ recent' = [recent EXCEPT ![i] = {}]
    /\ SetCyc(i, NoCycle) /\ SetEv(i, NoPass)
    /\ store' = [w \in Workers |-> IF HostOf[w] = i THEN NoCall ELSE store[w]]
    /\ conLock' = IF conLock = i THEN None ELSE conLock
    /\ evLock' = IF evLock = i THEN None ELSE evLock
    /\ UNCHANGED <<disk, journal, total, files, seq, net>>

StoreStep(w) == StoreCheck(w) \/ StorePublish(w) \/ StoreCredit(w)
CycleStep(i) ==
    \/ CycleStart(i) \/ CycleFlush(i) \/ CycleLock(i) \/ CollectDelta(i) \/ UpdateTotal(i)
    \/ Discover(i) \/ Consolidate(i)
EvictionStep(i) ==
    \/ EvictionStart(i) \/ EvictionRecheck(i) \/ Unlink(i) \/ Debit(i) \/ EvictionSwap(i)
    \/ EvictionFlush(i) \/ EvictionUnlock(i)

Next == \/ \E w \in Workers : StoreStep(w)
        \/ \E i \in Instances : CycleStep(i) \/ EvictionStep(i) \/ Crash(i)

Spec == Init /\ [][Next]_vars

-----------------------------------------------------------------------------
\* Every variable stays in its domain, and the tracked size, a u64 in the code,
\* is never negative.
TypeOK ==
    /\ disk \subseteq Files /\ journal \in Nat /\ total \in Nat
    /\ DOMAIN files \subseteq DeltaNames /\ \A n \in DOMAIN files : files[n] \in Int \ {0}
    /\ acc \in [Instances -> Int] /\ recent \in [Instances -> SUBSET Files]
    /\ seq \in [Instances -> Nat]
    /\ cyc \in [Instances -> Cycle]
    /\ \A i \in Instances : ev[i] \in Pass
    /\ store \in [Workers -> Call]
    /\ {conLock, evLock} \subseteq Instances \cup {None} /\ up \subseteq Instances
    /\ net \in Int /\ drift \in Int
    /\ bound \in [stores : 0..MaxStores, faults : 0..MaxFaults]

\* What the processes have credited and debited and size_state.json does not yet
\* hold: in memory, and in delta files.
InMemory == [i \in Instances |-> acc[i] + cyc[i].out + cyc[i].sum + ev[i].out]
Pending == FoldFunction(+, 0, files) + FoldFunction(+, 0, InMemory)

\* No credit and no debit is lost or applied twice on its way from an accumulator
\* through a delta file and a collecting cycle to size_state.json (flush,
\* collect_and_apply_deltas, atomic_update_size_delta), whatever two flushes of one
\* process and the collection by another do in between: the total and what is
\* pending add up to what was recorded, but for the clamp at zero, for what a
\* crashed process or a failed update held, and for a delta file that could not be
\* deleted.
DeltasConserved == total + Pending = net + drift

=============================================================================
