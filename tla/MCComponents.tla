---------------------------- MODULE MCComponents ----------------------------
(***************************************************************************)
(* Small instances of the components that share no state with each other,  *)
(* checked side by side: part names the one that moves, the others stay in *)
(* an initial state.                                                       *)
(***************************************************************************)
EXTENDS MemoryLedger, HedgedFetch, RangeArithmetic, RamCache, MetadataCache, JournalFiles,
    StagingTier

CONSTANTS t1, t2, f1, f2

VARIABLE part

OneClient == [f \in Fetches |-> "client"]

rest == <<rangeVars, ramVars, metaVars, journalVars>>
vars == <<part, ledgerVars, hedgeVars, rest, stagingVars>>

RangeIdle == spec = [first |-> 0, last |-> 0] /\ gap = 0 /\ extents = <<>>
RamIdle == algorithm = "LRU"

\* Two PUTs, a read and two passes, of which one PUT, the read or the eviction
\* never happens.
StagingStart ==
    /\ smeta = NoMeta /\ bins = {} /\ created = 0 /\ grads = {} /\ cycle = IdleCycle
    /\ ledger = [f \in LedgerFiles |-> {}] /\ staged = 0 /\ tierMishaps = {}
    /\ \E out \in IF part = "staging" THEN {"put", "read", "evict"} ELSE {"put"} :
        /\ put = [v \in StagedPuts |->
                    IF v = 2 /\ out = "put" THEN [IdlePut EXCEPT !.pc = "done"] ELSE IdlePut]
        /\ grad = [r \in StageReaders |->
                     IF out = "read" THEN [IdleGrad EXCEPT !.pc = "done"] ELSE IdleGrad]
        /\ pass = [p \in PassNames |->
                     IF p = out THEN [IdlePass EXCEPT !.pc = "off"] ELSE IdlePass]

Init ==
    /\ part \in {"ledger", "hedge", "range", "ram", "meta", "journal", "staging"}
    /\ part # "range" => RangeIdle
    /\ part # "ram" => RamIdle
    /\ LedgerInit /\ HedgeInit /\ RangeInit /\ RamInit /\ MetaInit /\ JournalInit
    /\ StagingStart

ExceptLedger == <<part, hedgeVars, rest, stagingVars>>
ExceptHedge == <<part, ledgerVars, rest, stagingVars>>
ExceptRest == <<part, ledgerVars, hedgeVars, stagingVars>>
ExceptStaging == <<part, ledgerVars, hedgeVars, rest>>

Next ==
    \/ part = "ledger" /\ LedgerNext /\ UNCHANGED ExceptLedger
    \/ part = "hedge" /\ HedgeNext /\ UNCHANGED ExceptHedge
    \/ part = "range" /\ RangeNext /\ UNCHANGED <<ramVars, metaVars, journalVars, ExceptRest>>
    \/ part = "ram" /\ RamNext /\ UNCHANGED <<rangeVars, metaVars, journalVars, ExceptRest>>
    \/ part = "meta" /\ MetaNext /\ UNCHANGED <<rangeVars, ramVars, journalVars, ExceptRest>>
    \/ part = "journal" /\ JournalNext /\ UNCHANGED <<rangeVars, ramVars, metaVars, ExceptRest>>
    \/ part = "staging" /\ StagingNext /\ UNCHANGED ExceptStaging

Staging(A) == part = "staging" /\ A /\ UNCHANGED ExceptStaging

Fairness ==
    /\ \A f \in Fetches : WF_vars(part = "hedge" /\ FetchStep(f) /\ UNCHANGED ExceptHedge)
    /\ WF_vars(Staging(PassStep("compact"))) /\ SF_vars(Staging(PassVerifies("compact")))
    /\ WF_vars(Staging(\E f \in LedgerFiles : ScanReappends(f)))

Spec == Init /\ [][Next]_vars /\ Fairness

=============================================================================
