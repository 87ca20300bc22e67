-------------------------- MODULE MCVersionedStore --------------------------
(* Small instances of VersionedStore for TLC.                              *)
EXTENDS VersionedStore, TLC

CONSTANTS e1, i1, i2

OneInstance == {i1}
TwoInstances == {i1, i2}
OneExtent == {e1}
\* The last two versions were written within one second.
MCLastModified == [v \in Versions |-> IF v = 1 THEN 1 ELSE 2]

\* One instance where anything may fail or stop.
FaultyOps == OpNames \ {"late"}
\* Everything that takes the lock, and responses that arrive late.
LockedOps == {"store", "late", "consolidate", "evict", "head", "overwrite",
              "legacy"}

\* A write-cached PUT against earlier GETs of the key, no response late.
PutOps == {"store", "consolidate", "put"}

\* Every PUT starts when no GET of the key is being stored.
PutStartsQuiet ==
    upd.pc = "idle" /\ upd'.pc # "idle" =>
        \A i \in Instances : store[i].pc = "idle"
QuietPutSpec == Init /\ [][Next /\ PutStartsQuiet]_vars

\* "PUT to Same Key: New upload invalidates old cache" (docs/CACHING.md): when
\* the PUT and its invalidation are over, `.meta` names the uploaded version.
PutInvalidatesOldCache ==
    upd.pc = "idle" /\ Present(meta) => meta.etag = origin

Symmetry == Permutations(TwoInstances)
=============================================================================
