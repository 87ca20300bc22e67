------------------------------ MODULE PageFill ------------------------------
(***************************************************************************)
(* Page-aligned range widening with download coordination: one process,    *)
(* concurrent client range GETs of one object.                             *)
(*                                                                         *)
(* A request overlaps one or more pages, fills them concurrently and       *)
(* slices its range from the result (serve_widened_pages, fill_page).      *)
(* Fills of one page coalesce through InFlightTracker: the first becomes   *)
(* the fetcher, the others wait for its broadcast.  A page consists of     *)
(* parts, the extents in which it may be cached or missing.  The disk tier *)
(* is the one VersionedStore models in detail; here it is the identity and *)
(* the parts a lookup sees.  A flight is named by the fill that opened it. *)
(***************************************************************************)
EXTENDS Naturals, FiniteSets

CONSTANTS
    Requests,       \* client range GETs
    Wants,          \* the pages each request overlaps
    Pages,
    PartsOf,        \* the extents of each page
    Expect,         \* If-Match of each request, NoVersion if unconditional
    MaxVersion,     \* bound: versions of the object S3 ever holds
    MaxEvictions,   \* bound: parts evicted
    Ops             \* environment events enabled in this instance

Parts == UNION {PartsOf[p] : p \in Pages}
Versions == 1..MaxVersion
NoVersion == 0      \* no ETag known; no metadata; a failed fill
Etags == Versions \cup {NoVersion}

Fills == {f \in Requests \X Pages : f[2] \in Wants[f[1]]}
NoFlight == <<"no", "flight">>

FillPcs == {"idle", "lookup", "load", "register", "fetch", "send", "remove",
            "drop", "wait", "timeout", "rewait", "relookup", "done"}
\* seen, have: the overlap's ETag and cached parts; got, stored: the fetched
\* parts, and which of them store_range has taken;
\* rx, sub: the flight subscribed to, and whether before its broadcast;
\* sent: what the fill's own flight broadcast; etag, bytes: the filled page.
Fill == [pc : FillPcs, seen : Etags, have : SUBSET Parts,
         got : SUBSET (Parts \X Versions), stored : SUBSET (Parts \X Versions),
         rx : Fills \cup {NoFlight}, sub : {"early", "late"},
         sent : {"nothing", "ok", "error"}, etag : Etags, bytes : SUBSET Versions]
NoFill == [pc |-> "idle", seen |-> NoVersion, have |-> {}, got |-> {}, stored |-> {},
           rx |-> NoFlight, sub |-> "early", sent |-> "nothing",
           etag |-> NoVersion, bytes |-> {}]
\* cur: the caller's current_etag.
Request == [pc : {"idle", "filling", "served", "fallback", "gone"}, cur : Etags,
            etag : Etags, body : SUBSET Versions]
NewRequest == [pc |-> "idle", cur |-> NoVersion,
               etag |-> NoVersion, body |-> {}]
PagePart == {x \in Pages \X Parts : x[2] \in PartsOf[x[1]]}
Disk == [etag : Etags, parts : SUBSET PagePart]
EmptyDisk == [etag |-> NoVersion, parts |-> {}]

OpNames == {"s3error", "timeout", "cancel"}

ASSUME BoundsAssumption == MaxVersion \in Nat \ {0} /\ MaxEvictions \in Nat
ASSUME WantsAssumption == Wants \in [Requests -> (SUBSET Pages) \ {{}}]
ASSUME ExpectAssumption == Expect \in [Requests -> Etags]
ASSUME PartsAssumption == \A p \in Pages : PartsOf[p] # {} /\ IsFiniteSet(PartsOf[p])
ASSUME OpsAssumption == Ops \subseteq OpNames
ASSUME NoFlightAssumption == NoFlight \notin Fills

VARIABLES
    origin,     \* the version S3 holds
    disk,       \* the identity and the parts of the disk tier
    evicted,    \* parts evicted so far
    ram,        \* the RAM tier: the version of each page, or NoVersion
    pending,    \* InFlightTracker::pending: the open flight of each page
    req,        \* the requests
    fill        \* one fill_page future per request and page

vars == <<origin, disk, evicted, ram, pending, req, fill>>

Conditional(r) == Expect[r] # NoVersion

\* The fill has its result (NoVersion: an error); its locals are gone.
Result(f, pc, etag, bytes) ==
    [NoFill EXCEPT !.pc = pc, !.sent = fill[f].sent, !.etag = etag, !.bytes = bytes]
Ends(f, pc, etag, bytes) == fill' = [fill EXCEPT ![f] = Result(f, pc, etag, bytes)]
Fails(f, pc) == Ends(f, pc, NoVersion, {})

Goto(f, pc) == fill' = [fill EXCEPT ![f].pc = pc]

-----------------------------------------------------------------------------
(* try_widened_range_request and the lookups of fill_page                  *)

\* current_etag comes from the metadata the caller holds: what is on disk, or
\* an older copy in the metadata cache.
StartRequest(r) ==
    /\ req[r].pc = "idle"
    /\ \E cur \in {disk.etag} \cup 1..disk.etag :
        req' = [req EXCEPT ![r] = [@ EXCEPT !.pc = "filling", !.cur = cur]]
    /\ fill' = [f \in Fills |-> IF f[1] = r THEN [NoFill EXCEPT !.pc = "lookup"]
                                ELSE fill[f]]
    /\ UNCHANGED <<origin, disk, ram, pending, evicted>>

\* A conditional request treats the whole page as missing.
SkipLookup(f) ==
    /\ fill[f].pc = "lookup"
    /\ Conditional(f[1])
    /\ Goto(f, "register")
    /\ UNCHANGED <<origin, disk, ram, pending, req, evicted>>

\* A page in RAM under the caller's ETag.
RamHit(f) ==
    /\ fill[f].pc = "lookup"
    /\ ~Conditional(f[1])
    /\ req[f[1]].cur # NoVersion /\ ram[f[2]] = req[f[1]].cur
    /\ Ends(f, "done", ram[f[2]], {ram[f[2]]})
    /\ UNCHANGED <<origin, disk, ram, pending, req, evicted>>

CachedParts(page) == {p \in PartsOf[page] : <<page, p>> \in disk.parts}
Mismatch(cur) == cur # NoVersion /\ disk.etag # NoVersion /\ cur # disk.etag

\* find_page_overlap: an ETag mismatch invalidates disk and RAM and finds
\* nothing; otherwise the parts the disk tier lists.
Found(f) == IF Mismatch(req[f[1]].cur) THEN {} ELSE CachedParts(f[2])
InvalidateOnMismatch(f) ==
    IF Mismatch(req[f[1]].cur)
    THEN disk' = EmptyDisk /\ ram' = [p \in Pages |-> NoVersion]
    ELSE UNCHANGED <<disk, ram>>
WithOverlap(f, pc) ==
    [fill[f] EXCEPT !.pc = pc, !.have = Found(f),
                    !.seen = IF Found(f) = {} THEN NoVersion ELSE disk.etag]

\* The first lookup; what it finds is kept for the whole fill.
Lookup(f) ==
    /\ fill[f].pc = "lookup"
    /\ ~Conditional(f[1])
    /\ req[f[1]].cur = NoVersion \/ ram[f[2]] # req[f[1]].cur
    /\ InvalidateOnMismatch(f)
    /\ fill' = [fill EXCEPT ![f] =
          WithOverlap(f, IF Found(f) = PartsOf[f[2]] THEN "load" ELSE "register")]
    /\ UNCHANGED <<origin, pending, req, evicted>>

\* The cached parts can be read as the version the lookup saw.
Loadable(f) ==
    fill[f].have # {} =>
        /\ disk.etag = fill[f].seen
        /\ fill[f].have \subseteq CachedParts(f[2])

\* load_page_from_cache: read the parts and promote the page to RAM, or fail.
LoadPage(f) ==
    /\ fill[f].pc = "load"
    /\ IF Loadable(f)
       THEN /\ Ends(f, "done", fill[f].seen, {disk.etag})
            /\ ram' = [ram EXCEPT ![f[2]] = fill[f].seen]
       ELSE /\ Fails(f, "done")
            /\ UNCHANGED ram
    /\ UNCHANGED <<origin, disk, pending, req, evicted>>

-----------------------------------------------------------------------------
(* InFlightTracker                                                         *)

\* try_register: a vacant key makes the fill the fetcher, an occupied one a
\* waiter on that flight.
Subscribed(f, flight, pc) ==
    [fill EXCEPT ![f] = [@ EXCEPT !.pc = pc, !.rx = flight,
        !.sub = IF fill[flight].sent = "nothing" THEN "early" ELSE "late"]]

Unsubscribed(f, pc) ==
    [fill EXCEPT ![f] = [@ EXCEPT !.pc = pc, !.rx = NoFlight, !.sub = "early"]]

Register(f) ==
    /\ fill[f].pc = "register"
    /\ IF pending[f[2]] = NoFlight
       THEN /\ pending' = [pending EXCEPT ![f[2]] = f]
            /\ Goto(f, "fetch")
       ELSE /\ fill' = Subscribed(f, pending[f[2]], "wait")
            /\ UNCHANGED pending
    /\ UNCHANGED <<origin, disk, ram, req, evicted>>

\* complete_success / complete_error: broadcast first ...
Broadcast(f) ==
    /\ fill[f].pc = "send"
    /\ fill' = [fill EXCEPT ![f] = [@ EXCEPT !.pc = "remove",
          !.sent = IF fill[f].etag = NoVersion THEN "error" ELSE "ok"]]
    /\ UNCHANGED <<origin, disk, ram, pending, req, evicted>>

\* Seeded fault: a completed flight stays in the map.
FaultFlightStays(f) ==
    /\ fill[f].pc = "remove"
    /\ Goto(f, "drop")
    /\ UNCHANGED <<origin, disk, ram, pending, req, evicted>>

\* ... then remove the key ...
RemoveFlight(f) ==
    /\ fill[f].pc = "remove"
    /\ pending' = [pending EXCEPT ![f[2]] = NoFlight]
    /\ Goto(f, "drop")
    /\ UNCHANGED <<origin, disk, ram, req, evicted>>

\* Seeded fault: dropping the guard always removes the key.
FaultDropRemoves(f) == [pending EXCEPT ![f[2]] = NoFlight]

\* ... then drop the guard, which removes the key only if not completed.
GuardDropped(f) ==
    [p \in Pages |-> IF p = f[2] /\ fill[f].sent = "nothing" THEN NoFlight
                     ELSE pending[p]]
DropGuard(f) ==
    /\ fill[f].pc = "drop"
    /\ pending' = GuardDropped(f)
    /\ Goto(f, "done")
    /\ UNCHANGED <<origin, disk, ram, req, evicted>>

\* Both senders of a flight are gone: its guard's and the map's.
Guarded(f) == fill[f].pc \in {"fetch", "send", "remove", "drop"}
Closed(flight) == ~Guarded(flight) /\ pending[flight[2]] # flight

Heard(f) == IF fill[f].sub = "early" THEN fill[fill[f].rx].sent ELSE "nothing"

\* recv: the broadcast value, or the end of the channel.
Receive(f) ==
    /\ fill[f].pc \in {"wait", "rewait"}
    /\ \/ Heard(f) = "ok" /\ fill' = Unsubscribed(f, "relookup")
       \/ Heard(f) = "error" /\ Fails(f, "done")
       \/ /\ Heard(f) = "nothing" /\ Closed(fill[f].rx)
          /\ fill' = Unsubscribed(f, "register")
    /\ UNCHANGED <<origin, disk, ram, pending, req, evicted>>

\* The first wait times out into try_resubscribe, the second starts over.
TimeOut(f) ==
    /\ "timeout" \in Ops
    /\ \/ fill[f].pc = "wait" /\ fill' = Unsubscribed(f, "timeout")
       \/ fill[f].pc = "rewait" /\ fill' = Unsubscribed(f, "register")
    /\ UNCHANGED <<origin, disk, ram, pending, req, evicted>>

Resubscribe(f) ==
    /\ fill[f].pc = "timeout"
    /\ IF pending[f[2]] = NoFlight THEN Goto(f, "register")
       ELSE fill' = Subscribed(f, pending[f[2]], "rewait")
    /\ UNCHANGED <<origin, disk, ram, pending, req, evicted>>

\* The fetcher succeeded: serve the page from cache, or compete to fetch what
\* the first lookup missed.
Relookup(f) ==
    /\ fill[f].pc = "relookup"
    /\ InvalidateOnMismatch(f)
    /\ IF Found(f) = PartsOf[f[2]] THEN fill' = [fill EXCEPT ![f] = WithOverlap(f, "load")]
       ELSE Goto(f, "register")
    /\ UNCHANGED <<origin, pending, req, evicted>>

-----------------------------------------------------------------------------
(* fetch_and_cache_page_missing_ranges                                     *)

Missing(f) == PartsOf[f[2]] \ fill[f].have
Fetched(f) == {x[1] : x \in fill[f].got}

\* One missing part arrives; S3 evaluates the precondition, and the fetch may
\* fail.  A failure ends the flight.
FetchPart(f) ==
    /\ fill[f].pc = "fetch"
    /\ Fetched(f) # Missing(f)
    /\ \/ /\ Conditional(f[1]) => origin = Expect[f[1]]
          /\ \E p \in Missing(f) \ Fetched(f) :
               fill' = [fill EXCEPT ![f].got = @ \cup {<<p, origin>>}]
       \/ /\ \/ "s3error" \in Ops
             \/ Conditional(f[1]) /\ origin # Expect[f[1]]
          /\ Fails(f, "send")
    /\ UNCHANGED <<origin, disk, ram, pending, req, evicted>>

\* Seeded fault: the parts are kept under the page alone.
FaultPartOfNoPage(page, x) == [etag |-> x[2], parts |-> disk.parts \cup {page}]

\* store_range: a superseded version is refused, a newer one replaces all.
Stored(page, x) ==
    IF disk.etag = x[2] THEN [disk EXCEPT !.parts = @ \cup {<<page, x[1]>>}]
    ELSE [etag |-> x[2], parts |-> {<<page, x[1]>>}]

\* All parts are there: store them one after the other; a refusal ends it.
StorePart(f) ==
    /\ fill[f].pc = "fetch"
    /\ Fetched(f) = Missing(f)
    /\ \E x \in fill[f].got \ fill[f].stored :
        IF x[2] < disk.etag
        THEN Fails(f, "send") /\ UNCHANGED disk
        ELSE /\ disk' = Stored(f[2], x)
             /\ fill' = [fill EXCEPT ![f].stored = @ \cup {x}]
    /\ UNCHANGED <<origin, ram, pending, req, evicted>>

\* Every segment must be of one version, cached and fetched alike.
SegmentVersions(f) ==
    {x[2] : x \in fill[f].got} \cup
        (IF fill[f].have = {} THEN {} ELSE {fill[f].seen})
OneSegmentVersion(f) == Cardinality(SegmentVersions(f)) = 1

\* Merge the cached parts, read now, with the fetched ones.
Assemble(f) ==
    /\ fill[f].pc = "fetch"
    /\ Fetched(f) = Missing(f) /\ fill[f].stored = fill[f].got
    /\ IF OneSegmentVersion(f) /\ Loadable(f)
       THEN Ends(f, "send", CHOOSE v \in SegmentVersions(f) : TRUE,
                 {x[2] : x \in fill[f].got} \cup
                     (IF fill[f].have = {} THEN {} ELSE {disk.etag}))
       ELSE Fails(f, "send")
    /\ UNCHANGED <<origin, disk, ram, pending, req, evicted>>

-----------------------------------------------------------------------------
(* serve_widened_pages                                                     *)

FillsOf(r) == {f \in Fills : f[1] = r}
Joined(r) == req[r].pc = "filling" /\ \A f \in FillsOf(r) : fill[f].pc = "done"

\* Seeded fault: only some page is compared with the response's ETag.
FaultSomePageOfVersion(r, v) ==
    /\ v # NoVersion
    /\ \E f \in FillsOf(r) : fill[f].etag = v
    /\ disk.etag = v

\* All pages are of one version, which the caller's ETag and the metadata the
\* response headers come from agree on.
OneVersion(r, v) ==
    /\ v # NoVersion
    /\ \A f \in FillsOf(r) : fill[f].etag = v
    /\ req[r].cur \in {NoVersion, v}
    /\ disk.etag = v

ServePages(r) ==
    /\ Joined(r)
    /\ \E v \in Versions :
        /\ OneVersion(r, v)
        /\ req' = [req EXCEPT ![r] = [@ EXCEPT !.pc = "served", !.etag = v,
                     !.body = UNION {fill[f].bytes : f \in FillsOf(r)}]]
    /\ UNCHANGED <<origin, disk, ram, pending, fill, evicted>>

\* A page failed or the versions disagree: forward the original range.
FallBack(r) ==
    /\ Joined(r)
    /\ ~ \E v \in Versions : OneVersion(r, v)
    /\ req' = [req EXCEPT ![r].pc = "fallback"]
    /\ UNCHANGED <<origin, disk, ram, pending, fill, evicted>>

\* The client disconnects: the request's futures are dropped where they await,
\* and with them the guards of its flights.
Cancel(r) ==
    /\ "cancel" \in Ops
    /\ req[r].pc = "filling"
    /\ \A f \in FillsOf(r) : fill[f].pc \notin {"send", "remove", "drop"}
    /\ req' = [req EXCEPT ![r].pc = "gone"]
    /\ pending' = [p \in Pages |->
          IF \E f \in FillsOf(r) : f[2] = p /\ Guarded(f) THEN NoFlight
          ELSE pending[p]]
    /\ fill' = [f \in Fills |-> IF f[1] = r THEN NoFill ELSE fill[f]]
    /\ UNCHANGED <<origin, disk, ram, evicted>>

-----------------------------------------------------------------------------
(* Environment                                                             *)

\* The object is overwritten in S3.
Overwrite ==
    /\ origin < MaxVersion
    /\ origin' = origin + 1
    /\ UNCHANGED <<disk, ram, pending, req, fill, evicted>>

\* Eviction takes a part off the disk; the last one takes the metadata too.
Evict ==
    /\ evicted < MaxEvictions
    /\ evicted' = evicted + 1
    /\ \E x \in disk.parts :
        disk' = IF disk.parts = {x} THEN EmptyDisk
                ELSE [disk EXCEPT !.parts = @ \ {x}]
    /\ UNCHANGED <<origin, ram, pending, req, fill>>

-----------------------------------------------------------------------------
\* Nothing cached, or some parts of the current version, pages in RAM or not.
Init ==
    /\ origin = 1
    /\ disk \in {EmptyDisk} \cup
           {[etag |-> 1, parts |-> ps] : ps \in (SUBSET PagePart) \ {{}}}
    /\ evicted = 0
    /\ \E v \in {NoVersion, disk.etag} : ram = [p \in Pages |-> v]
    /\ pending = [p \in Pages |-> NoFlight]
    /\ req = [r \in Requests |-> NewRequest]
    /\ fill = [f \in Fills |-> NoFill]

FillStep(f) ==
    \/ SkipLookup(f) \/ RamHit(f) \/ Lookup(f) \/ LoadPage(f)
    \/ Register(f) \/ Receive(f) \/ Resubscribe(f) \/ Relookup(f)
    \/ FetchPart(f) \/ StorePart(f) \/ Assemble(f)
    \/ Broadcast(f) \/ RemoveFlight(f) \/ DropGuard(f)
ServeStep(r) == ServePages(r) \/ FallBack(r)

Next ==
    \/ \E r \in Requests : StartRequest(r) \/ ServeStep(r) \/ Cancel(r)
    \/ \E f \in Fills : FillStep(f) \/ TimeOut(f)
    \/ Overwrite \/ Evict

\* The runtime polls every ready future, and S3 requests end (they carry
\* timeouts); nothing is assumed of clients, waits timing out or eviction.
Fairness ==
    /\ \A f \in Fills : WF_vars(FillStep(f))
    /\ \A r \in Requests : WF_vars(ServeStep(r))

Spec == Init /\ [][Next]_vars
FairSpec == Spec /\ Fairness

-----------------------------------------------------------------------------
(* Properties                                                              *)

\* Every variable stays in its domain: the disk tier holds parts of their own
\* page only, and a fill opens no flight but its own.
TypeOK ==
    /\ origin \in Versions
    /\ disk \in Disk
    /\ evicted \in 0..MaxEvictions
    /\ ram \in [Pages -> Etags]
    /\ pending \in [Pages -> Fills \cup {NoFlight}]
    /\ req \in [Requests -> Request]
    /\ fill \in [Fills -> Fill]

\* Only one request fetches a page from S3 while the others wait: a guard that
\* is dropped after its flight completed never removes the flight a later
\* fetcher opened for the page meanwhile.
OneFetcherPerPage ==
    \A f, g \in Fills :
        f[2] = g[2] /\ fill[f].pc = "fetch" /\ fill[g].pc = "fetch" => f = g

\* A response sliced from pages carries the bytes of one version and its ETag,
\* though cached parts, fetched parts and pages filled by other requests were
\* obtained at different times.
PageResponseOfOneVersion ==
    \A r \in Requests : req[r].pc = "served" => req[r].body = {req[r].etag}

\* Every request is answered unless its client leaves: a fetcher that fails or
\* is cancelled, a broadcast that was missed, a wait that times out and a page
\* that is evicted again before a waiter reads it never leave one waiting.
RequestsEnd ==
    \A r \in Requests : req[r].pc = "filling" ~> req[r].pc # "filling"

=============================================================================
