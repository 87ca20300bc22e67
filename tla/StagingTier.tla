----------------------------- MODULE StagingTier -----------------------------
(***************************************************************************)
(* The write (staging) tier of one key on a shared volume: PUTs that       *)
(* publish a staged object and append to their proxy's write ledger, reads *)
(* that graduate it, the consolidation that settles graduations, and the   *)
(* passes (eviction, compaction) that work from the ledgers.               *)
(*                                                                         *)
(* Every version is one byte.  A time is the number of range files created *)
(* so far: all that is_superseded compares.  A pass reads all ledger files *)
(* in one step, and rewrites them one by one.                              *)
(***************************************************************************)
EXTENDS Integers, FiniteSets

CONSTANTS
    StagedPuts,    \* PUT requests; a PUT stands for its version and ETag
    StageReaders,  \* reads that find the object staged
    LedgerFiles,   \* ledger files, one per proxy
    StagingTrigger \* staged bytes above which the tier is evicted

ASSUME StagingAssumption ==
    /\ IsFiniteSet(StagedPuts) /\ IsFiniteSet(LedgerFiles)
    /\ 0 \notin StagedPuts /\ StagingTrigger \in Nat

VARIABLES
    smeta,     \* the .meta of the key; ver = 0 when there is none
    bins,      \* versions whose range file is on disk
    created,   \* time
    put,       \* store_streamed_write_cache_metadata of every PUT
    grad,      \* graduation by every reader
    grads,     \* Graduation entries in the journal: <<reader, version>>
    cycle,     \* the consolidation of the key
    ledger,    \* entries of every write-ledger file
    pass,      \* the eviction and the compaction pass
    staged,    \* write_cache_size, with the deltas not yet collected
    tierMishaps    \* history: what the accounting does not survive

stagingVars == <<smeta, bins, created, put, grad, grads, cycle, ledger, pass, staged, tierMishaps>>

NoMeta == [ver |-> 0, wc |-> FALSE, acct |-> FALSE, born |-> 0]
IdlePut == [pc |-> "idle", old |-> NoMeta, born |-> 0]
IdleGrad == [pc |-> "idle", copy |-> NoMeta, how |-> "refresh"]
IdleCycle == [pc |-> "idle", copy |-> NoMeta, read |-> {}, debit |-> FALSE]
IdlePass == [pc |-> "idle", read |-> {}, copy |-> NoMeta, freed |-> FALSE,
             retire |-> {}, left |-> {}, kept |-> {}]
Retiring(entries) ==
    [IdlePass EXCEPT !.pc = "retire", !.retire = entries, !.left = LedgerFiles]
PassNames == {"evict", "compact"}

StagingInit ==
    /\ smeta = NoMeta /\ bins = {} /\ created = 0
    /\ put = [v \in StagedPuts |-> IdlePut]
    /\ grad = [r \in StageReaders |-> IdleGrad] /\ grads = {} /\ cycle = IdleCycle
    /\ ledger = [f \in LedgerFiles |-> {}]
    /\ pass = [p \in PassNames |-> IdlePass]
    /\ staged = 0 /\ tierMishaps = {}

Ledgered == UNION {ledger[f] : f \in LedgerFiles}
Debit(yes) == staged' = IF yes THEN staged - 1 ELSE staged
\* The .meta is replaced or deleted by someone who read copy.
Replaces(copy) == tierMishaps' = IF smeta # copy THEN tierMishaps \cup {"lost update"} ELSE tierMishaps

-----------------------------------------------------------------------------
(* PUT: the range file is renamed into place, the old .meta is read, its   *)
(* range removed and debited, the new .meta stored, all without the lock   *)
(* of the key; then the credit and the append to the ledger.               *)

PutReadsOld(v) ==
    /\ put[v].pc = "idle"
    /\ bins' = bins \cup {v} /\ created' = created + 1
    /\ put' = [put EXCEPT ![v] = [pc |-> "read", old |-> smeta, born |-> created + 1]]
    /\ UNCHANGED <<smeta, grad, grads, cycle, ledger, pass, staged, tierMishaps>>

PutRemovesOld(v) ==
    /\ put[v].pc = "read"
    /\ LET old == put[v].old IN
       bins' = bins \ {old.ver} /\ Debit(old.wc /\ old.ver \in bins)
    /\ put' = [put EXCEPT ![v].pc = "removed"]
    /\ UNCHANGED <<smeta, created, grad, grads, cycle, ledger, pass, tierMishaps>>

PutStoresMeta(v) ==
    /\ put[v].pc = "removed"
    /\ smeta' = [ver |-> v, wc |-> TRUE, acct |-> FALSE, born |-> put[v].born]
    /\ Replaces(put[v].old)
    /\ put' = [put EXCEPT ![v].pc = "stored"]
    /\ UNCHANGED <<bins, created, grad, grads, cycle, ledger, pass, staged>>

\* record_staged_range; the append may fail, which is logged.
PutCredits(v, f) ==
    /\ put[v].pc = "stored"
    /\ staged' = staged + 1
    /\ \/ ledger' = [ledger EXCEPT ![f] = @ \cup {[at |-> created, by |-> v]}]
       \/ UNCHANGED ledger
    /\ put' = [put EXCEPT ![v] = [IdlePut EXCEPT !.pc = "done"]]
    /\ UNCHANGED <<smeta, bins, created, grad, grads, cycle, pass, tierMishaps>>

-----------------------------------------------------------------------------
(* Graduation: refresh_write_cache_ttl, and the backfill of a missing      *)
(* Last-Modified after a 304, which does the same without lock or recheck. *)

KeyLocked == cycle.pc = "locked"

GradReads(r) ==
    /\ grad[r].pc = "idle" /\ smeta.wc
    /\ \E how \in {"refresh", "backfill"} :
        grad' = [grad EXCEPT ![r] = [pc |-> "read", copy |-> smeta, how |-> how]]
    /\ UNCHANGED <<smeta, bins, created, put, grads, cycle, ledger, pass, staged, tierMishaps>>

\* Under the lock only is_write_cached is read again; what is stored is the
\* copy read before.
GradStores(r) ==
    /\ grad[r].pc = "read"
    /\ grad[r].how = "refresh" => ~KeyLocked
    /\ IF grad[r].how = "refresh" => smeta.wc
       THEN /\ smeta' = [grad[r].copy EXCEPT !.wc = FALSE]
            /\ grad' = [grad EXCEPT ![r].pc = "stored"]
            /\ Replaces(grad[r].copy)
       ELSE /\ grad' = [grad EXCEPT ![r] = [IdleGrad EXCEPT !.pc = "done"]]
            /\ UNCHANGED <<smeta, tierMishaps>>
    /\ UNCHANGED <<bins, created, put, grads, cycle, ledger, pass, staged>>

\* write_graduation_journal_entry, which may fail.
GradJournals(r) ==
    /\ grad[r].pc = "stored"
    /\ grads' \in {grads \cup {<<r, grad[r].copy.ver>>}, grads}
    /\ grad' = [grad EXCEPT ![r] = [IdleGrad EXCEPT !.pc = "done"]]
    /\ UNCHANGED <<smeta, bins, created, put, cycle, ledger, pass, staged, tierMishaps>>

-----------------------------------------------------------------------------
(* Consolidation of the key, one in the fleet at a time, under the lock of *)
(* the key until the .meta is written.                                     *)

CycleReads ==
    /\ cycle.pc = "idle" /\ grads # {} /\ smeta.ver # 0
    /\ cycle' = [pc |-> "locked", copy |-> smeta, read |-> grads, debit |-> FALSE]
    /\ UNCHANGED <<smeta, bins, created, put, grad, grads, ledger, pass, staged, tierMishaps>>

\* Seeded fault: every Graduation entry is charged.
FaultTokenIgnored(copy) == TRUE
Chargeable(copy) == ~copy.acct

\* The first entry is charged and sets the token, the others are skipped.
CycleWrites ==
    /\ cycle.pc = "locked"
    /\ smeta' = [cycle.copy EXCEPT !.acct = TRUE]
    /\ Replaces(cycle.copy)
    /\ cycle' = [cycle EXCEPT !.pc = "written", !.debit = Chargeable(cycle.copy)]
    /\ UNCHANGED <<bins, created, put, grad, grads, ledger, pass, staged>>

\* The debit of the cycle, then the cleanup of its entries, which may fail.
CycleSettles ==
    /\ cycle.pc = "written"
    /\ Debit(cycle.debit)
    /\ tierMishaps' = IF \E e \in cycle.read : e[2] # cycle.copy.ver
                  THEN tierMishaps \cup {"token of another version"} ELSE tierMishaps
    /\ grads' \in {grads \ cycle.read, grads}
    /\ cycle' = IdleCycle
    /\ UNCHANGED <<smeta, bins, created, put, grad, ledger, pass>>

\* The process dies, the key runs out of its budget, or a write fails.
CycleFails ==
    /\ cycle.pc # "idle"
    /\ cycle' = IdleCycle
    /\ UNCHANGED <<smeta, bins, created, put, grad, grads, ledger, pass, staged, tierMishaps>>

\* Ledgered of a key without .meta are dropped once they are old enough.
CycleDropsStale ==
    /\ cycle.pc = "idle" /\ smeta.ver = 0 /\ grads # {}
    /\ grads' = {}
    /\ UNCHANGED <<smeta, bins, created, put, grad, cycle, ledger, pass, staged, tierMishaps>>

-----------------------------------------------------------------------------
(* Passes over the ledgers: eviction under global_eviction.lock and        *)
(* compaction under global_consolidation.lock, one of each at a time.      *)

PassReads(p) ==
    /\ pass[p].pc = "idle" /\ Ledgered # {}
    /\ p = "evict" => staged > StagingTrigger
    /\ pass' = [pass EXCEPT ![p] = [IdlePass EXCEPT !.pc = "verify", !.read = Ledgered]]
    /\ UNCHANGED <<smeta, bins, created, put, grad, grads, cycle, ledger, staged, tierMishaps>>

Newest(entries) == CHOOSE t \in {e.at : e \in entries} : \A e \in entries : e.at <= t
\* Seeded fault: an entry older than the object's newest range is kept.
FaultNeverSuperseded(entries) == FALSE
Superseded(entries) == smeta.born > Newest(entries)
Evictable(entries) == smeta.ver # 0 /\ smeta.wc /\ ~Superseded(entries)

\* verify_staged_candidate: absent, graduated or superseded entries are retired;
\* compaction rewrites the files even when there is nothing to retire.
PassVerifies(p) ==
    /\ pass[p].pc = "verify"
    /\ pass' = [pass EXCEPT ![p] =
         IF ~Evictable(@.read) THEN Retiring(@.read)
         ELSE IF p = "evict" THEN [@ EXCEPT !.pc = "evict"] ELSE Retiring({})]
    /\ UNCHANGED <<smeta, bins, created, put, grad, grads, cycle, ledger, staged, tierMishaps>>

PassCannotRead(p) ==
    /\ pass[p].pc = "verify"
    /\ pass' = [pass EXCEPT ![p] = IF p = "evict" THEN IdlePass ELSE Retiring({})]
    /\ UNCHANGED <<smeta, bins, created, put, grad, grads, cycle, ledger, staged, tierMishaps>>

\* evict_write_cached_object takes no lock: .meta, range file, .meta again.
EvictReads ==
    /\ pass["evict"].pc = "evict"
    /\ pass' = IF smeta.ver = 0 THEN [pass EXCEPT !["evict"] = IdlePass]
               ELSE [pass EXCEPT !["evict"].pc = "unlink", !["evict"].copy = smeta]
    /\ UNCHANGED <<smeta, bins, created, put, grad, grads, cycle, ledger, staged, tierMishaps>>

EvictUnlinks ==
    /\ pass["evict"].pc = "unlink"
    /\ bins' = bins \ {pass["evict"].copy.ver}
    /\ pass' = [pass EXCEPT !["evict"].pc = "delete",
                            !["evict"].freed = pass["evict"].copy.ver \in bins]
    /\ UNCHANGED <<smeta, created, put, grad, grads, cycle, ledger, staged, tierMishaps>>

EvictDeletesMeta ==
    /\ pass["evict"].pc = "delete"
    /\ smeta' = NoMeta
    /\ LET copy == pass["evict"].copy IN Debit(copy.wc /\ pass["evict"].freed) /\ Replaces(copy)
    /\ pass' = [pass EXCEPT !["evict"] = Retiring(@.read)]
    /\ UNCHANGED <<bins, created, put, grad, grads, cycle, ledger>>

\* retire_identities: a file is read before its lock is taken ...
RetireReads(p, f) ==
    /\ pass[p].pc = "retire" /\ f \in pass[p].left
    /\ pass' = [pass EXCEPT ![p].pc = "rewrite", ![p].kept = [file |-> f, entries |-> ledger[f] \ pass[p].retire]]
    /\ UNCHANGED <<smeta, bins, created, put, grad, grads, cycle, ledger, staged, tierMishaps>>

\* ... and replaced, or removed when nothing is left of it, under the lock.
RetireRewrites(p) ==
    /\ pass[p].pc = "rewrite"
    /\ LET kept == pass[p].kept
           left == pass[p].left \ {kept.file} IN
       /\ ledger' = [ledger EXCEPT ![kept.file] = kept.entries]
       /\ pass' = [pass EXCEPT ![p] =
                     IF left = {} THEN IdlePass ELSE [@ EXCEPT !.pc = "retire", !.left = left, !.kept = {}]]
    /\ UNCHANGED <<smeta, bins, created, put, grad, grads, cycle, staged, tierMishaps>>

\* reappend_missing_ledger_entries of a validation scan: a staged object whose
\* key no ledger names.
ScanReappends(f) ==
    /\ smeta.wc /\ Ledgered = {}
    /\ ledger' = [ledger EXCEPT ![f] = {[at |-> created, by |-> 0]}]
    /\ UNCHANGED <<smeta, bins, created, put, grad, grads, cycle, pass, staged, tierMishaps>>

PutStep(v) ==
    PutReadsOld(v) \/ PutRemovesOld(v) \/ PutStoresMeta(v) \/ \E f \in LedgerFiles : PutCredits(v, f)
PassStep(p) ==
    PassReads(p) \/ PassVerifies(p) \/ PassCannotRead(p) \/ RetireRewrites(p) \/ \E f \in LedgerFiles : RetireReads(p, f)
EvictStep == EvictReads \/ EvictUnlinks \/ EvictDeletesMeta

StagingNext ==
    \/ \E v \in StagedPuts : PutStep(v)
    \/ \E r \in StageReaders : GradReads(r) \/ GradStores(r) \/ GradJournals(r)
    \/ CycleReads \/ CycleWrites \/ CycleSettles \/ CycleFails \/ CycleDropsStale
    \/ \E p \in PassNames : PassStep(p)
    \/ EvictStep
    \/ \E f \in LedgerFiles : ScanReappends(f)

StagingSpec ==
    /\ StagingInit /\ [][StagingNext]_stagingVars
    /\ WF_stagingVars(PassStep("compact")) /\ SF_stagingVars(PassVerifies("compact"))
    /\ WF_stagingVars(\E f \in LedgerFiles : ScanReappends(f))

-----------------------------------------------------------------------------

\* A PUT that has charged off the staged version it read will store its .meta
\* over one that was written since.
WillLoseUpdate ==
    \E v \in StagedPuts : put[v].pc = "removed" /\ put[v].old.wc /\ put[v].old # smeta

\* "an undershooting figure reads as under bound and eviction stops running"
\* (cache.rs:10925).  write_cache_size is at least what is staged, however PUTs,
\* graduations, evictions and repeated consolidations of one journal entry
\* interleave; unless an update of the .meta was or will be lost, or a graduation
\* was charged against the graduation_accounted token of another version.
StagedNeverUnderstated ==
    tierMishaps = {} /\ ~WillLoseUpdate /\ smeta.wc /\ smeta.ver \in bins
        => staged + Cardinality({v \in StagedPuts : put[v].pc = "stored"}) >= 1

\* "This is what repairs it" (cache_size_tracker.rs:1862): whatever happened to
\* its append, an object that stays staged comes to have a ledger entry that a
\* pass does not take for superseded.
StagedBecomesKnown ==
    \A v \in StagedPuts :
        smeta.ver = v /\ smeta.wc ~> ~(smeta.ver = v /\ smeta.wc) \/ \E e \in Ledgered : e.at >= smeta.born

=============================================================================
