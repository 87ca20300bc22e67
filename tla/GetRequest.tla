----------------------------- MODULE GetRequest -----------------------------
(***************************************************************************)
(* The read request handler: one proxy process, concurrent full-object,    *)
(* range and part GETs of one object, S3, and the cache directory that     *)
(* other proxies share.                                                    *)
(*                                                                         *)
(* A request decides from its conditional headers whether it may be served *)
(* locally, looks up the cached ranges, asks whether they are expired,     *)
(* revalidates them at S3, serves, merges or forwards, coalescing with     *)
(* requests for the same bytes.  An exchange with S3 is two steps: S3      *)
(* evaluates the headers, and later the proxy acts on the answer.          *)
(*                                                                         *)
(* The disk tier is one .meta (VersionedStore has its detail), a flight    *)
(* completes in one step (PageFill has its detail), and ranges are not     *)
(* widened to pages.  A version stands for its ETag and its bytes.         *)
(***************************************************************************)
EXTENDS Naturals, FiniteSets

CONSTANTS
    Requests,           \* client GETs
    NoOne,              \* no request
    Shapes,             \* the kinds and headers the clients may send
    Parts,              \* the extents in which the object may be cached
    EvaluateFromCache,  \* evaluate_conditions_from_cache (Mode B)
    TTL,                \* get_ttl
    MaxVersion,         \* bound: versions of the object S3 ever holds
    MaxTime,            \* bound: the clock
    MaxFaults,          \* bound: failures and races of the environment
    MaxResubscriptions, \* download_coordination.max_resubscriptions
    Ops                 \* environment events enabled in this instance

Versions == 1..MaxVersion
NoVersion == 0
Etags == Versions \cup {NoVersion}
Times == 0..MaxTime

Kinds == {"get", "range", "part"}
\* im, inm, ir: If-Match, If-None-Match and If-Range, NoVersion when absent.
\* policy: whether the request may use the cache at all, only fill it
\* (no-cache), neither (no-store, SSE-C, versionId, bucket operations), or
\* neither because read caching is disabled for the key.
Policies == {"cache", "nocache", "nostore", "disabled"}
Shape == [kind : Kinds, im : Etags, inm : Etags, ir : Etags, signed : BOOLEAN,
          policy : Policies]
OpNames == {"s3error", "denied", "timeout", "cancel", "writefail", "evict", "peer",
            "refresh"}

ASSUME ShapesAssumption == Shapes \subseteq Shape /\ Shapes # {}
ASSUME PartsAssumption == Parts # {} /\ IsFiniteSet(Parts)
ASSUME BoundsAssumption ==
    /\ MaxVersion \in Nat \ {0} /\ MaxTime \in Nat
    /\ TTL \in Nat /\ MaxResubscriptions \in Nat /\ MaxFaults \in Nat
ASSUME RequestsAssumption == NoOne \notin Requests
ASSUME OpsAssumption == Ops \subseteq OpNames /\ EvaluateFromCache \in BOOLEAN

Metadata == [ver : Etags, have : SUBSET Parts, created : Times, expires : 0..(MaxTime + TTL)]
NoMetadata == [ver |-> NoVersion, have |-> {}, created |-> 0, expires |-> 0]
Codes == {"none", "200", "304", "412", "403", "5xx", "504"}
Pcs == {"idle", "lookup", "verdict", "register", "validate", "validated", "serve",
        "coord", "wait", "forward", "forwarded", "vserve", "vanswered", "write", "done"}
\* mode: forward_to_s3 and mode_b_if_match_serve; pin: the If-Match the proxy
\* injected; cur: current_etag; seen: the RangeOverlap held; val: the validator
\* of the expiration check, made at time at; own: S3's verdict on the client's
\* own headers; next: what a woken waiter falls back to; via: how it was served.
Request ==
    [shape : Shapes, pc : Pcs, mode : {"plain", "modeB", "forward"}, pin : Etags,
     cur : Etags, seen : Metadata, val : Etags, at : Times,
     guard : BOOLEAN, rx : Requests \cup {NoOne}, next : {"validate", "forward"},
     resubs : 0..MaxResubscriptions, code : Codes, ver : Etags, own : Codes,
     status : Codes, body : SUBSET Versions,
     via : {"none", "s3", "cache", "validated", "merged", "fallback"}]
NewRequest(s) ==
    [shape |-> s, pc |-> "idle", mode |-> "plain", pin |-> NoVersion,
     cur |-> NoVersion, seen |-> NoMetadata, val |-> NoVersion, at |-> 0,
     guard |-> FALSE, rx |-> NoOne, next |-> "forward",
     resubs |-> 0, code |-> "none", ver |-> NoVersion, own |-> "none",
     status |-> "none", body |-> {}, via |-> "none"]

VARIABLES
    now,        \* the clock
    origin,     \* the version S3 holds
    faults,     \* failures and races so far
    meta,       \* .meta of the object
    mcache,     \* this process's metadata cache
    ram,        \* the versions whose range is in this process's RAM cache
    refresh,    \* whether a TtlRefresh is buffered or journalled
    storedAt,   \* history: when each version was last stored from S3
    flight,     \* InFlightTracker::pending: the fetcher of each kind of flight
    req         \* the requests

vars == <<now, origin, faults, meta, mcache, ram, refresh, storedAt, flight, req>>
cache == <<meta, mcache, ram, refresh, storedAt>>
world == <<now, origin, faults>>

\* The environment spends one of its faults if c.
Spend(c) ==
    /\ faults' = faults + (IF c THEN 1 ELSE 0)
    /\ faults' <= MaxFaults
    /\ UNCHANGED <<now, origin>>

-----------------------------------------------------------------------------
(* The cache                                                               *)

\* get_metadata_cached: the metadata cache, then .meta, which is kept only if
\* it lists ranges.
Cached == IF mcache.ver # NoVersion THEN mcache ELSE meta
Remember == mcache' = IF Cached.have # {} THEN Cached ELSE mcache

Covers(o) == o.have = Parts

\* check_object_expiration: judged by created_at, on the .meta on disk.
LiveFresh(m) == m.ver # NoVersion /\ TTL > 0 /\ now - m.created <= TTL
\* The FreshServe lookup: judged by expires_at.
StoredFresh(m) == m.ver # NoVersion /\ now <= m.expires

\* Seeded fault: the TTL is added to the old expiry, not to the time.
FaultExtendsExpiry(m) == [m EXCEPT !.expires = @ + TTL]
\* NewCacheMetadata::refresh_object_ttl
Renewed(m) == IF m.ver = NoVersion THEN m ELSE [m EXCEPT !.expires = now + TTL]

\* store_range: a newer version replaces the object, an older one is refused.
StoredIn(m, v, parts) ==
    IF m.ver = v THEN [m EXCEPT !.have = @ \cup parts]
    ELSE IF v > m.ver
    THEN [ver |-> v, have |-> parts, created |-> now, expires |-> now + TTL]
    ELSE m
Store(v, parts) ==
    /\ meta' = StoredIn(meta, v, parts)
    /\ mcache' = IF v > meta.ver THEN NoMetadata ELSE mcache
    /\ storedAt' = [storedAt EXCEPT ![v] = IF v >= meta.ver THEN now ELSE @]

\* invalidate_cache_hierarchy and invalidate_ram_ranges; invalidate_all_ranges.
Invalidate ==
    /\ meta' = NoMetadata
    /\ mcache' = NoMetadata
    /\ ram' = {}
    /\ UNCHANGED <<refresh, storedAt>>

-----------------------------------------------------------------------------
(* Flights and answers                                                     *)

Key(r) == req[r].shape.kind

\* A waiter that hears of success serves from cache, validating first; one that
\* hears of an error or of a closed channel goes to S3 by itself.
Woken(w, ok) ==
    [req[w] EXCEPT !.pc = IF ok THEN "vserve" ELSE req[w].next, !.rx = NoOne]
\* complete_success, complete_error, or the drop of the guard.
Complete(r, ok, after) ==
    /\ flight' = IF req[r].guard THEN [flight EXCEPT ![Key(r)] = NoOne] ELSE flight
    /\ req' = [w \in Requests |->
          IF w = r THEN [after EXCEPT !.guard = FALSE]
          ELSE IF req[r].guard /\ req[w].pc = "wait" /\ req[w].rx = r
          THEN Woken(w, ok) ELSE req[w]]
Moves(r, after) == req' = [req EXCEPT ![r] = after] /\ UNCHANGED flight

\* S3 evaluates If-Match before If-None-Match.
Evaluate(im, inm) ==
    IF im # NoVersion /\ im # origin THEN "412"
    ELSE IF inm # NoVersion /\ inm = origin THEN "304" ELSE "200"
Answers(im, inm) ==
    {Evaluate(im, inm)} \cup (IF "s3error" \in Ops THEN {"5xx"} ELSE {})
                        \cup (IF "denied" \in Ops THEN {"403"} ELSE {})

\* The If-Match that travels: the client's, or the one the proxy injected.
SentIfMatch(r) == IF req[r].pin # NoVersion THEN req[r].pin ELSE req[r].shape.im
ChangesHeaders(r, inm) == inm # req[r].shape.inm \/ req[r].pin # NoVersion
\* One request to S3 carrying If-None-Match: inm.
AskS3(r, inm, pc) ==
    \E code \in Answers(SentIfMatch(r), inm) :
        Spend(code \in {"5xx", "403"}) /\ Moves(r, [req[r] EXCEPT !.pc = pc, !.code = code, !.ver = origin,
                     !.own = IF ChangesHeaders(r, inm) \/ code = "5xx" THEN @ ELSE code])

\* The response to the client; the locals of the handler are gone.
Answered(r, pc, status, body, via) ==
    [shape |-> req[r].shape, pc |-> pc,
     mode |-> IF via = "cache" THEN req[r].mode ELSE "plain",
     pin |-> NoVersion, cur |-> NoVersion,
     seen |-> IF via = "merged" THEN req[r].seen ELSE NoMetadata,
     val |-> NoVersion, at |-> IF via = "cache" THEN req[r].at ELSE 0,
     guard |-> req[r].guard, rx |-> NoOne, next |-> "forward", resubs |-> 0,
     code |-> "none",
     ver |-> IF pc = "write" \/ via = "validated" THEN req[r].ver ELSE NoVersion,
     own |-> req[r].own, status |-> status, body |-> body, via |-> via]
\* S3's answer goes to the client as it is.
PassThrough(r) == Answered(r, "done", req[r].code, {}, "s3")

-----------------------------------------------------------------------------
(* Dispatch and lookup                                                     *)

Conditional(s) == s.im # NoVersion \/ s.inm # NoVersion \/ s.ir # NoVersion
PureIfMatch(s) == s.im # NoVersion /\ s.inm = NoVersion /\ s.ir = NoVersion
PureIfRange(s) == s.ir # NoVersion /\ s.im = NoVersion /\ s.inm = NoVersion

\* Only Mode B answers a condition locally: an If-Match or an If-Range that
\* names the cached ETag.  Everything else conditional is forwarded.
ModeOf(s) ==
    IF ~Conditional(s) THEN "plain"
    ELSE IF EvaluateFromCache /\ PureIfMatch(s) /\ s.im = Cached.ver THEN "modeB"
    ELSE IF EvaluateFromCache /\ PureIfRange(s) /\ s.ir = Cached.ver THEN "plain"
    ELSE "forward"
\* pin_if_range_serve_to_cached_etag
PinOf(s) ==
    IF EvaluateFromCache /\ PureIfRange(s) /\ s.ir = Cached.ver /\ ~s.signed
    THEN Cached.ver ELSE NoVersion

\* get_object_etag reads the ETag of a range request from disk.
BeginRequest(r) ==
    /\ req[r].pc = "idle" /\ req[r].shape.policy = "cache"
    /\ LET s == req[r].shape IN
       /\ Moves(r, [req[r] EXCEPT !.pc = "lookup", !.mode = ModeOf(s), !.pin = PinOf(s),
                       !.cur = IF s.kind = "range" THEN meta.ver ELSE NoVersion])
       /\ IF Conditional(s) /\ EvaluateFromCache THEN Remember ELSE UNCHANGED mcache
    /\ UNCHANGED <<world, meta, ram, refresh, storedAt>>

\* A request that may not be served from the cache goes to S3 uncoordinated;
\* where read caching is disabled, a cached copy is invalidated first.
BypassCache(r) ==
    /\ req[r].pc = "idle" /\ req[r].shape.policy # "cache"
    /\ Moves(r, [req[r] EXCEPT !.pc = "forward"])
    /\ IF req[r].shape.policy = "disabled" /\ Cached.ver # NoVersion
       THEN Invalidate ELSE UNCHANGED cache
    /\ UNCHANGED world

\* Seeded fault: forward_to_s3 is not consulted.
FaultLookupIgnoresForward(r) ==
    /\ req[r].pc = "lookup" /\ Key(r) = "get"
    /\ Moves(r, [req[r] EXCEPT !.pc = IF Covers(Cached) THEN "verdict" ELSE "coord",
                               !.seen = Cached])
    /\ Remember
    /\ UNCHANGED <<world, meta, ram, refresh, storedAt>>

\* A full GET looks no further unless the cache covers the object and the
\* request need not be forwarded.  Mode B serves whatever the age.
LookupFull(r) ==
    /\ req[r].pc = "lookup" /\ Key(r) = "get"
    /\ LET o == Cached
           local == Covers(o) /\ req[r].mode # "forward"
           direct == local /\ req[r].mode = "modeB" IN
       /\ Moves(r, [req[r] EXCEPT
             !.pc = IF direct THEN "serve" ELSE IF local THEN "verdict" ELSE "coord",
             !.seen = IF local THEN o ELSE NoMetadata])
       /\ refresh' = (refresh \/ direct)
    /\ Remember
    /\ UNCHANGED <<world, meta, ram, storedAt>>

\* A range GET whose current_etag differs from the metadata it looks up
\* invalidates everything; otherwise any cached range is asked about.
LookupRange(r) ==
    /\ req[r].pc = "lookup" /\ Key(r) = "range"
    /\ LET mismatch == req[r].cur # NoVersion /\ Cached.ver # NoVersion
                       /\ req[r].cur # Cached.ver
           o == IF mismatch \/ Cached.have = {} THEN NoMetadata ELSE Cached IN
       /\ Moves(r, [req[r] EXCEPT !.pc = IF o = NoMetadata THEN "coord" ELSE "verdict",
                                  !.seen = o, !.cur = NoVersion])
       /\ IF mismatch THEN Invalidate
          ELSE Remember /\ UNCHANGED <<meta, ram, refresh, storedAt>>
    /\ UNCHANGED world

\* lookup_part serves a part that is fresh by expires_at, whatever headers the
\* request carries.
LookupPart(r) ==
    /\ req[r].pc = "lookup" /\ Key(r) = "part"
    /\ IF StoredFresh(meta) /\ Covers(meta)
       THEN Moves(r, [Answered(r, "done", "200", {meta.ver}, "cache") EXCEPT !.at = now])
       ELSE Moves(r, [req[r] EXCEPT !.pc = "coord"])
    /\ UNCHANGED <<world, cache>>

\* check_object_expiration.  A fresh range is served if it covers the request
\* and need not be forwarded; an expired one is revalidated in any case.
Verdict(r) ==
    /\ req[r].pc = "verdict"
    /\ LET local == Covers(req[r].seen) /\ req[r].mode # "forward" IN
       Moves(r, [req[r] EXCEPT
          !.pc = IF ~LiveFresh(meta) THEN "register" ELSE IF local THEN "serve" ELSE "coord",
          !.seen = IF LiveFresh(meta) /\ req[r].mode = "forward" THEN NoMetadata ELSE @,
          !.val = meta.ver, !.at = now])
    /\ UNCHANGED <<world, cache>>

-----------------------------------------------------------------------------
(* Coalescing: try_register, waiting, resubscription                       *)

\* Who arrives first at a flight fetches; the others wait, and on a failure
\* validate, or forward, without a guard.
Join(r, at, work) ==
    /\ req[r].pc = at
    /\ IF flight[Key(r)] = NoOne
       THEN /\ flight' = [flight EXCEPT ![Key(r)] = r]
            /\ req' = [req EXCEPT ![r].pc = work, ![r].guard = TRUE]
       ELSE /\ req' = [req EXCEPT ![r].pc = "wait", ![r].rx = flight[Key(r)],
                                  ![r].next = work]
            /\ UNCHANGED flight
    /\ UNCHANGED <<world, cache>>
RegisterValidation(r) == Join(r, "register", "validate")
RegisterFetch(r) == Join(r, "coord", "forward")

\* A validation waiter gives up at its first timeout; a fetch waiter
\* subscribes again, and answers 504 when it may not any more.
WaitTimeout(r) ==
    /\ "timeout" \in Ops
    /\ req[r].pc = "wait"
    /\ Moves(r, IF req[r].next = "validate"
                THEN [req[r] EXCEPT !.pc = "validate", !.rx = NoOne]
                ELSE IF req[r].resubs = MaxResubscriptions
                THEN Answered(r, "done", "504", {}, "none")
                ELSE [req[r] EXCEPT !.resubs = @ + 1])
    /\ Spend(TRUE)
    /\ UNCHANGED cache

-----------------------------------------------------------------------------
(* Revalidation of expired ranges                                          *)

\* A full GET sends the cached ETag; a range GET only if the client sent no
\* If-None-Match of its own.
Validator(r) ==
    IF Key(r) = "range" /\ req[r].shape.inm # NoVersion THEN req[r].shape.inm
    ELSE req[r].val

Validate(r) ==
    /\ req[r].pc = "validate"
    /\ AskS3(r, Validator(r), "validated")
    /\ UNCHANGED cache

\* 304: the TTL is refreshed, waiters are told, the cached ranges are served,
\* or the missing ones fetched.
ValidatedUnchanged(r) ==
    /\ req[r].pc = "validated" /\ req[r].code = "304"
    /\ refresh' = TRUE
    /\ Complete(r, TRUE, [req[r] EXCEPT !.via = "validated",
                             !.pc = IF Covers(req[r].seen) THEN "serve" ELSE "forward"])
    /\ UNCHANGED <<world, meta, mcache, ram, storedAt>>

\* 200 or 206: the cached object is invalidated and replaced by the answer.
ValidatedChanged(r) ==
    /\ req[r].pc = "validated" /\ req[r].code = "200"
    /\ Invalidate
    /\ Moves(r, Answered(r, "write", "200", {req[r].ver}, "s3"))
    /\ UNCHANGED world

\* Seeded fault: the guard is leaked when S3 refuses the validation.
FaultDeniedKeepsFlight(r) ==
    /\ req[r].pc = "validated" /\ req[r].code = "403"
    /\ Moves(r, [PassThrough(r) EXCEPT !.guard = FALSE])
    /\ UNCHANGED <<world, cache>>

ValidatedDenied(r) ==
    /\ req[r].pc = "validated" /\ req[r].code = "403"
    /\ Complete(r, FALSE, PassThrough(r))
    /\ UNCHANGED <<world, cache>>

\* Any other answer or none: remove_invalidated_range drops the first cached
\* range, by its extent, and the request starts over as a miss.
ValidatedFailed(r) ==
    /\ req[r].pc = "validated" /\ req[r].code \in {"412", "5xx"}
    /\ \E p \in req[r].seen.have : meta' = [meta EXCEPT !.have = @ \ {p}]
    /\ Complete(r, FALSE, [req[r] EXCEPT !.pc = "coord", !.seen = NoMetadata,
                                         !.val = NoVersion, !.code = "none", !.ver = NoVersion])
    /\ UNCHANGED <<world, mcache, ram, refresh, storedAt>>

-----------------------------------------------------------------------------
(* Serving from the cache                                                  *)

\* The bytes of the overlap can still be read from disk.
OnDisk(o) == meta.ver = o.ver /\ o.have \subseteq meta.have
\* Seeded fault: the version on disk is not compared with the overlap's.
FaultServeAnyVersion(r) == req[r].seen.ver # NoVersion
\* serve_full_object_from_cache compares the overlap with the .meta on disk;
\* serve_range_from_cache takes a RAM hit under the overlap's own ETag first.
\* A part waiter holds the bytes of the part it validated.
Servable(r) ==
    \/ OnDisk(req[r].seen)
    \/ Key(r) = "range" /\ req[r].seen.ver \in ram
    \/ Key(r) = "part"
ServedVersion(r) == req[r].seen.ver
ServedFrom(r) == IF req[r].via = "validated" THEN "validated" ELSE "cache"

ServeCached(r) ==
    /\ req[r].pc = "serve"
    /\ Servable(r)
    /\ Moves(r, Answered(r, "done", "200", {ServedVersion(r)}, ServedFrom(r)))
    /\ ram' = IF Key(r) = "range" THEN ram \cup {ServedVersion(r)} ELSE ram
    /\ UNCHANGED <<world, meta, mcache, refresh, storedAt>>

\* An inconsistent or missing range: the original request goes to S3.
ServeForwards(r) ==
    /\ req[r].pc = "serve"
    /\ ~Servable(r)
    /\ Moves(r, [req[r] EXCEPT !.pc = "forward", !.seen = NoMetadata, !.via = "none"])
    /\ UNCHANGED <<world, cache>>

-----------------------------------------------------------------------------
(* Forwarding                                                              *)

\* Cached ranges that do not cover the request are completed from S3 unless
\* the Range header is signed.
Merging(r) == req[r].seen # NoMetadata /\ ~req[r].shape.signed
\* Seeded fault: the injected If-Match replaces the client's.
FaultPinOverridesClient(r) == IF Merging(r) THEN req[r].seen.ver ELSE req[r].pin
\* build_conditional_headers_for_range: a fetch of missing ranges is pinned to
\* the cached version if the client sent no If-Match; the path after a 304 sends
\* the client's headers.
PinnedTo(r) ==
    IF Merging(r) /\ req[r].via # "validated" /\ SentIfMatch(r) = NoVersion
    THEN req[r].seen.ver ELSE req[r].pin

Forward(r) ==
    /\ req[r].pc = "forward"
    /\ \E code \in Answers(IF PinnedTo(r) # NoVersion THEN PinnedTo(r) ELSE req[r].shape.im,
                           req[r].shape.inm) :
        Spend(code \in {"5xx", "403"}) /\ Moves(r, [req[r] EXCEPT !.pc = "forwarded", !.code = code, !.ver = origin,
                     !.pin = PinnedTo(r),
                     !.own = IF PinnedTo(r) # NoVersion \/ code = "5xx" THEN @ ELSE code])
    /\ UNCHANGED cache

\* The whole answer is streamed to the client and cached behind it, unless the
\* policy forbids; a part fetcher tells its waiters when it has the response.
MayStore(r) == req[r].shape.policy \in {"cache", "nocache"}
ForwardedObject(r) ==
    /\ req[r].pc = "forwarded" /\ req[r].code = "200" /\ ~Merging(r)
    /\ LET after == Answered(r, IF MayStore(r) THEN "write" ELSE "done", "200",
                              {req[r].ver}, "s3") IN
       IF Key(r) = "part" THEN Complete(r, TRUE, after) ELSE Moves(r, after)
    /\ UNCHANGED <<world, cache>>

\* Seeded fault: fetched and cached segments are merged whatever their ETags.
FaultMergeAnyVersion(r) == TRUE
\* merge_ranges_with_fallback refuses to mix versions.
SameVersion(r) == req[r].ver = req[r].seen.ver
ForwardedMerge(r) ==
    /\ req[r].pc = "forwarded" /\ req[r].code = "200" /\ Merging(r)
    /\ SameVersion(r) /\ OnDisk(req[r].seen)
    /\ Complete(r, TRUE, Answered(r, "write", "200", {req[r].seen.ver, req[r].ver}, "merged"))
    /\ UNCHANGED <<world, cache>>

\* CacheVersionMismatch or a failed gap fetch: stream the original range.
ForwardedMismatch(r) ==
    /\ req[r].pc = "forwarded" /\ Merging(r)
    /\ \/ req[r].code = "200" /\ ~(SameVersion(r) /\ OnDisk(req[r].seen))
       \/ req[r].code \in {"5xx", "403"}
    /\ Moves(r, [req[r] EXCEPT !.pc = "forward", !.seen = NoMetadata])
    /\ UNCHANGED <<world, cache>>

\* A 412 to an If-Match the proxy injected into a range request: invalidate and
\* retry once with the client's own headers.
Injected(r) == req[r].pin # NoVersion /\ Key(r) = "range"
ForwardedRepin(r) ==
    /\ req[r].pc = "forwarded" /\ req[r].code = "412" /\ Injected(r)
    /\ Invalidate
    /\ Moves(r, [req[r] EXCEPT !.pc = "forward", !.seen = NoMetadata, !.pin = NoVersion])
    /\ UNCHANGED world

\* Everything else is the client's answer.
ForwardedOther(r) ==
    /\ req[r].pc = "forwarded" /\ req[r].code \in {"304", "412", "403", "5xx"}
    /\ ~(req[r].code = "412" /\ Injected(r))
    /\ ~(Merging(r) /\ req[r].code \in {"5xx", "403"})
    /\ Complete(r, FALSE, PassThrough(r))
    /\ UNCHANGED <<world, cache>>

Committed(r) == [req[r] EXCEPT !.pc = "done", !.ver = NoVersion, !.seen = NoMetadata]

\* The background cache writer commits, then tells the waiters.
WriteCommit(r) ==
    /\ req[r].pc = "write"
    /\ Store(req[r].ver, Parts \ req[r].seen.have)
    /\ ram' = ram \cup (IF Key(r) = "range" THEN {req[r].ver} ELSE {})
    /\ Complete(r, TRUE, Committed(r))
    /\ UNCHANGED <<world, refresh>>

\* Storing failed, or the client left in the middle of the body.  A buffered
\* body whose length was not declared, or is not the declared one, is not stored
\* either, and the waiters of a full GET are told of a success all the same.
WriteFails(r) ==
    /\ "writefail" \in Ops
    /\ req[r].pc = "write"
    /\ \E told \in {FALSE, Key(r) = "get"} : Complete(r, told, Committed(r))
    /\ Spend(TRUE)
    /\ UNCHANGED cache

-----------------------------------------------------------------------------
(* A waiter after its fetcher's success: validate, then serve              *)

\* What the waiter finds: the metadata, or a part fresh by expires_at.
WaiterFinds(r) ==
    IF Key(r) # "part" THEN Cached
    ELSE IF StoredFresh(meta) /\ Covers(meta) THEN meta ELSE NoMetadata
\* A waiter for missing ranges carries the headers pinned for its own fetch.
WaiterPin(r) == IF req[r].next = "forward" THEN PinnedTo(r) ELSE req[r].pin

\* The cached ETag replaces the client's If-None-Match; the other headers,
\* injected ones included, travel as they are.
ValidateForWaiter(r) ==
    /\ req[r].pc = "vserve" /\ WaiterFinds(r) # NoMetadata
    /\ \E code \in Answers(IF WaiterPin(r) # NoVersion THEN WaiterPin(r) ELSE req[r].shape.im,
                           WaiterFinds(r).ver) :
          Spend(code \in {"5xx", "403"}) /\ Moves(r, [req[r] EXCEPT !.pc = "vanswered", !.code = code, !.ver = origin,
                       !.pin = WaiterPin(r), !.seen = WaiterFinds(r)])
    /\ IF Key(r) = "part" THEN UNCHANGED mcache ELSE Remember
    /\ UNCHANGED <<meta, ram, refresh, storedAt>>

WaiterFindsNothing(r) ==
    /\ req[r].pc = "vserve" /\ WaiterFinds(r) = NoMetadata
    /\ Moves(r, [req[r] EXCEPT !.pc = "forward", !.pin = WaiterPin(r), !.seen = NoMetadata])
    /\ UNCHANGED <<world, cache>>

\* Seeded fault: the 304 of the proxy's own validation goes to the client.
FaultWaiterPassesNotModified(r) ==
    /\ req[r].pc = "vanswered" /\ req[r].code = "304"
    /\ Moves(r, PassThrough(r))
    /\ UNCHANGED <<world, cache>>

\* refresh_cache_ttl writes expires_at of whatever .meta is there.
WaiterUnchanged(r) ==
    /\ req[r].pc = "vanswered" /\ req[r].code = "304"
    /\ meta' = Renewed(meta)
    /\ Moves(r, IF Covers(req[r].seen)
                THEN [req[r] EXCEPT !.pc = "serve", !.via = "validated"]
                ELSE [req[r] EXCEPT !.pc = "forward", !.seen = NoMetadata])
    /\ UNCHANGED <<world, mcache, ram, refresh, storedAt>>

\* 200: the body goes to the client; the full-object path also caches it.
WaiterChanged(r) ==
    /\ req[r].pc = "vanswered" /\ req[r].code = "200"
    /\ Moves(r, Answered(r, IF Key(r) = "get" THEN "write" ELSE "done", "200",
                         {req[r].ver}, "s3"))
    /\ UNCHANGED <<world, cache>>

WaiterRefused(r) ==
    /\ req[r].pc = "vanswered" /\ req[r].code \in {"412", "403"}
    /\ Moves(r, PassThrough(r))
    /\ UNCHANGED <<world, cache>>

\* serve_cached_fallback_full, serve_cached_fallback_range and the part's: a
\* cached copy that is fresh by expires_at is served without validation.
WaiterFallback(r) ==
    /\ req[r].pc = "vanswered" /\ req[r].code = "5xx"
    /\ Moves(r, IF StoredFresh(req[r].seen) /\ Covers(req[r].seen) /\ Servable(r)
                THEN Answered(r, "done", "200", {req[r].seen.ver}, "fallback")
                ELSE Answered(r, "done", "5xx", {}, "s3"))
    /\ UNCHANGED <<world, cache>>

-----------------------------------------------------------------------------
(* The environment                                                         *)

\* The client disconnects before it has a response: the handler is dropped and
\* its guard closes the channel.
Disconnect(r) ==
    /\ "cancel" \in Ops
    /\ req[r].pc \notin {"idle", "write", "done"}
    /\ Complete(r, FALSE, Answered(r, "done", "none", {}, "none"))
    /\ Spend(TRUE)
    /\ UNCHANGED cache

Overwrite ==
    /\ origin < MaxVersion
    /\ origin' = origin + 1
    /\ UNCHANGED <<now, faults, cache, flight, req>>

\* Time passes by more than the TTL: what is fresh becomes stale.
Tick ==
    /\ now + TTL < MaxTime
    /\ now' = now + TTL + 1
    /\ UNCHANGED <<origin, faults, cache, flight, req>>

\* The buffered TtlRefresh reaches .meta: whatever version .meta names by then,
\* expires_at is counted from the time of the application.
ApplyTtlRefresh ==
    /\ "refresh" \in Ops
    /\ refresh
    /\ refresh' = FALSE
    /\ meta' = Renewed(meta)
    /\ UNCHANGED <<world, mcache, ram, storedAt, flight, req>>

\* Another proxy of the fleet stores what S3 holds: .meta changes under this
\* process's metadata cache and RAM cache.
PeerStores ==
    /\ "peer" \in Ops
    /\ meta.ver < origin
    /\ meta' = StoredIn(meta, origin, Parts)
    /\ storedAt' = [storedAt EXCEPT ![origin] = now]
    /\ Spend(TRUE)
    /\ UNCHANGED <<mcache, ram, refresh, flight, req>>

Evict ==
    /\ "evict" \in Ops
    /\ \E p \in meta.have : meta' = [meta EXCEPT !.have = @ \ {p}]
    /\ Spend(TRUE)
    /\ UNCHANGED <<mcache, ram, refresh, storedAt, flight, req>>

\* The metadata cache entry outlives its refresh_interval.
ForgetMetadata ==
    /\ mcache # NoMetadata
    /\ mcache' = NoMetadata
    /\ UNCHANGED <<world, meta, ram, refresh, storedAt, flight, req>>

-----------------------------------------------------------------------------

RequestStep(r) ==
    \/ BeginRequest(r) \/ BypassCache(r)
    \/ LookupFull(r) \/ LookupRange(r) \/ LookupPart(r)
    \/ Verdict(r)
    \/ RegisterValidation(r) \/ RegisterFetch(r)
    \/ Validate(r)
    \/ ValidatedUnchanged(r) \/ ValidatedChanged(r)
    \/ ValidatedDenied(r) \/ ValidatedFailed(r)
    \/ ServeCached(r) \/ ServeForwards(r)
    \/ Forward(r)
    \/ ForwardedObject(r) \/ ForwardedMerge(r) \/ ForwardedMismatch(r)
    \/ ForwardedRepin(r) \/ ForwardedOther(r)
    \/ WriteCommit(r)
    \/ ValidateForWaiter(r) \/ WaiterFindsNothing(r)
    \/ WaiterUnchanged(r) \/ WaiterChanged(r) \/ WaiterRefused(r) \/ WaiterFallback(r)

Finished == (\A r \in Requests : req[r].pc = "done") /\ UNCHANGED vars

Next ==
    \/ \E r \in Requests : RequestStep(r) \/ WaitTimeout(r) \/ WriteFails(r) \/ Disconnect(r)
    \/ Overwrite \/ Tick \/ ApplyTtlRefresh \/ PeerStores \/ Evict \/ ForgetMetadata
    \/ Finished

\* The cache directory holds nothing, part of the first version or all of it,
\* stored at time 0; the RAM cache may hold its range.
Init ==
    /\ now \in {0, MaxTime}
    /\ origin = 1
    /\ faults = 0
    /\ \E have \in SUBSET Parts :
        meta = IF have = {} THEN NoMetadata
               ELSE [ver |-> 1, have |-> have, created |-> 0, expires |-> TTL]
    /\ mcache = NoMetadata
    /\ ram \in {{}, IF Covers(meta) THEN {1} ELSE {}}
    /\ refresh = FALSE
    /\ storedAt = [v \in Versions |-> 0]
    /\ flight = [k \in Kinds |-> NoOne]
    /\ req \in [Requests -> {NewRequest(s) : s \in Shapes}]

Spec == Init /\ [][Next]_vars

-----------------------------------------------------------------------------
(* Properties                                                              *)

\* State and history have their types.
TypeOK ==
    /\ now \in Times /\ origin \in Versions /\ faults \in 0..MaxFaults
    /\ meta \in Metadata /\ mcache \in Metadata
    /\ ram \subseteq Versions /\ refresh \in BOOLEAN
    /\ storedAt \in [Versions -> Times]
    /\ flight \in [Kinds -> Requests \cup {NoOne}]
    /\ req \in [Requests -> Request]

Served(r) == req[r].status = "200"

\* A body that answers If-Match after S3 was asked is the version it names,
\* whether it comes from S3, from both S3 and the cache or from the cache after a
\* 304.  The validator comes from .meta, the bytes from the overlap looked up
\* before, so the last is claimed only if S3's 304 was about the version served.
IfMatchHonoured ==
    \A r \in Requests :
        Served(r) /\ req[r].shape.im # NoVersion
            /\ \/ req[r].via \in {"s3", "merged"}
               \/ req[r].via = "validated" /\ req[r].ver \in req[r].body
        => req[r].body = {req[r].shape.im}

\* A client sees 304 only as S3's verdict on its own If-None-Match: the answer
\* to a revalidation by the proxy never leaks.
NotModifiedIsTheClients ==
    \A r \in Requests :
        req[r].status = "304" => req[r].shape.inm # NoVersion /\ req[r].own = "304"

\* S3's 304 to a full GET's or a part GET's own If-None-Match reaches the
\* client; for a range GET see VerdictReturnedForRange.
VerdictReturned ==
    \A r \in Requests :
        req[r].shape.kind # "range" /\ Served(r) => req[r].own # "304"

\* Whatever was merged, raced or retried, a response is bytes of one version.
ResponseOfOneVersion ==
    \A r \in Requests : Served(r) => Cardinality(req[r].body) = 1

\* An object served without asking S3 had been stored at most TTL before the
\* freshness verdict: the verdict is not about another version than the bytes.
FreshVerdictOfServedVersion ==
    \A r \in Requests :
        req[r].shape.kind = "get" /\ req[r].via = "cache" /\ req[r].mode # "modeB"
        => \A v \in req[r].body : req[r].at <= storedAt[v] + TTL

\* A waiting request waits for one that holds the flight's guard and has yet to
\* complete it: no path of the fetcher, and no failure or disconnect, leaves a
\* waiter behind.
NoWaiterIsStranded ==
    \A w \in Requests :
        req[w].pc = "wait" =>
            /\ req[w].rx \in Requests
            /\ req[req[w].rx].guard /\ req[req[w].rx].pc # "done"
            /\ flight[Key(w)] = req[w].rx

\* docs/CACHE_FRESHNESS.md:81: a 304 to the client's own condition is returned
\* to the client; for range GETs too.
VerdictReturnedForRange ==
    \A r \in Requests : Served(r) => req[r].own # "304"

=============================================================================
