--------------------------- MODULE MCMetadataLock ---------------------------
(* Small instances of MetadataLock for TLC.                                *)
EXTENDS MetadataLock, TLC

CONSTANTS t1, t2, p1, p2, p3, h1, h2

TwoTasks == {t1, t2}
\* p1 and p2 share a host.
MCProcs == {p1, p2, p3}
MCHostOf == (p1 :> h1) @@ (p2 :> h1) @@ (p3 :> h2)

\* One process (with and without foreign deletions of the lock file), two
\* processes on one host, two on different hosts.
Pair(q, u) == [proc |-> (t1 :> p1) @@ (t2 :> q), unlinks |-> u]
PairDeployments ==
    {Pair(p1, "never"), Pair(p1, "possible"),
     Pair(p2, "possible"), Pair(p3, "possible")}
\* Two processes on one host, nothing else deletes the lock file.
SameHost == {Pair(p2, "never")}
=============================================================================
