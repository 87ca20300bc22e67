--------------------------- MODULE PageFillProofs ---------------------------
(***************************************************************************)
(* For any number of requests, pages, parts, versions and evictions, and   *)
(* for every set of enabled events: a page has at most one fetcher at a    *)
(* time, and a response sliced from pages carries the bytes of the one     *)
(* version whose ETag it carries.                                          *)
(***************************************************************************)
EXTENDS PageFill, FiniteSetTheorems, TLAPS

\* A fill holds parts of its own page only; a page that has a version holds
\* that version's bytes; cached parts were seen under a version; a fill that
\* loads from cache found something; a flight that is being removed, or whose guard is being dropped, has been broadcast.
FillOK(f, t) ==
    /\ t \in Fill
    /\ \A x \in t.got : x[1] \in PartsOf[f[2]]
    /\ t.etag # NoVersion => t.bytes = {t.etag}
    /\ t.have # {} => t.seen # NoVersion
    /\ t.pc = "load" => t.have # {}
    /\ t.pc \in {"remove", "drop"} => t.sent # "nothing"
FillsOK == fill = [f \in Fills |-> fill[f]] /\ \A f \in Fills : FillOK(f, fill[f])

\* From registration to removal the map names the fetcher itself.
Fetching(t) == t.pc \in {"fetch", "send", "remove"}
FetchersRegistered == \A f \in Fills : Fetching(fill[f]) => pending[f[2]] = f

\* The tiers and the clock of versions keep their types.
TiersOK ==
    /\ origin \in Versions
    /\ disk \in Disk
    /\ disk.parts # {} => disk.etag # NoVersion
    /\ evicted \in 0..MaxEvictions
    /\ ram \in [Pages -> Etags]

\* The inductive strengthening of the safety properties.
IInv ==
    /\ TiersOK
    /\ pending \in [Pages -> Fills \cup {NoFlight}]
    /\ req \in [Requests -> Request]
    /\ FillsOK
    /\ FetchersRegistered
    /\ PageResponseOfOneVersion

-----------------------------------------------------------------------------
(* Facts about the operators                                               *)

LEMMA ConstantTypes ==
    /\ NoVersion \in Etags /\ Versions \subseteq Etags /\ 1 \in Versions
    /\ NoVersion \notin Versions
    /\ \A p \in Pages : PartsOf[p] \subseteq Parts
    /\ \A f \in Fills : f[1] \in Requests /\ f[2] \in Pages
  BY BoundsAssumption DEF Versions, NoVersion, Etags, Parts, Fills

LEMMA EmptyDiskType == EmptyDisk \in Disk /\ EmptyDisk.parts = {}
  BY ConstantTypes DEF EmptyDisk, Disk

\* A fill that holds nothing.
LEMMA NoFillOK ==
    /\ NoFill \in Fill
    /\ \A f \in Fills : FillOK(f, NoFill) /\ FillOK(f, [NoFill EXCEPT !.pc = "lookup"])
    /\ ~Fetching(NoFill) /\ ~Fetching([NoFill EXCEPT !.pc = "lookup"])
  BY ConstantTypes DEF NoFill, Fill, FillOK, FillPcs, Fetching

\* A result is well-formed if its bytes are of its version.
LEMMA ResultOK ==
    ASSUME NEW f \in Fills, fill[f] \in Fill, NEW pc \in {"done", "send"},
           NEW etag \in Etags, NEW bytes \in SUBSET Versions,
           etag # NoVersion => bytes = {etag}
    PROVE  FillOK(f, Result(f, pc, etag, bytes)) /\ Result(f, pc, etag, bytes).pc = pc
  <1>1. fill[f].sent \in {"nothing", "ok", "error"}
    BY DEF Fill
  <1> DEFINE t == Result(f, pc, etag, bytes)
  <1>2. t \in Fill
    BY <1>1, NoFillOK DEF Result, Fill, FillPcs
  <1>3. /\ t.pc = pc /\ t.etag = etag /\ t.bytes = bytes
        /\ t.got = {} /\ t.have = {}
    BY DEF Result, NoFill
  <1> HIDE DEF t
  <1>4. FillOK(f, t)
    BY <1>2, <1>3 DEF FillOK
  <1> QED
    BY <1>3, <1>4 DEF t

\* A fill that only moves on.
LEMMA MoveOK ==
    ASSUME NEW f \in Fills, NEW t, FillOK(f, t),
           NEW pc \in FillPcs \ {"load", "remove", "drop"}
    PROVE  FillOK(f, [t EXCEPT !.pc = pc]) /\ [t EXCEPT !.pc = pc].pc = pc
  BY DEF FillOK, Fill, FillPcs

\* Subscribing to a flight, and giving the subscription up.
LEMMA SubscribedOK ==
    ASSUME NEW f \in Fills, FillOK(f, fill[f]), NEW flight \in Fills,
           NEW pc \in {"wait", "rewait"}, fill' = Subscribed(f, flight, pc)
    PROVE  \E t : fill' = [fill EXCEPT ![f] = t] /\ FillOK(f, t) /\ t.pc = pc
  <1> DEFINE sub == IF fill[flight].sent = "nothing" THEN "early" ELSE "late"
             t == [fill[f] EXCEPT !.pc = pc, !.rx = flight, !.sub = sub]
  <1>1. fill' = [fill EXCEPT ![f] = t]
    BY DEF Subscribed
  <1>2. sub \in {"early", "late"}
    OBVIOUS
  <1> HIDE DEF sub
  <1>3. FillOK(f, t) /\ t.pc = pc
    BY <1>2 DEF FillOK, Fill, FillPcs
  <1> QED
    BY <1>1, <1>3

LEMMA UnsubscribedOK ==
    ASSUME NEW f \in Fills, FillOK(f, fill[f]),
           NEW pc \in {"relookup", "register", "timeout"},
           fill' = Unsubscribed(f, pc)
    PROVE  \E t : fill' = [fill EXCEPT ![f] = t] /\ FillOK(f, t) /\ t.pc = pc
  <1> DEFINE t == [fill[f] EXCEPT !.pc = pc, !.rx = NoFlight, !.sub = "early"]
  <1>1. fill' = [fill EXCEPT ![f] = t]
    BY DEF Unsubscribed
  <1>2. FillOK(f, t) /\ t.pc = pc
    BY DEF FillOK, Fill, FillPcs
  <1> QED
    BY <1>1, <1>2

\* One fill changes, the map of flights does not, and no fill becomes a fetcher.
LEMMA OneFillMoves ==
    ASSUME IInv, NEW f \in Fills, NEW t,
           fill' = [fill EXCEPT ![f] = t], FillOK(f, t),
           Fetching(t) => Fetching(fill[f]),
           UNCHANGED <<pending, req>>
    PROVE  FillsOK' /\ FetchersRegistered' /\ PageResponseOfOneVersion'
  BY DEF IInv, FillsOK, FetchersRegistered, PageResponseOfOneVersion

\* The parts found are parts of the page.
LEMMA FoundParts ==
    ASSUME NEW f \in Fills
    PROVE  /\ Found(f) \subseteq PartsOf[f[2]]
           /\ Found(f) # {} => disk.parts # {}
  BY DEF Found, CachedParts

LEMMA OverlapOK ==
    ASSUME TiersOK, NEW f \in Fills, FillOK(f, fill[f]),
           NEW pc \in {"load", "register"}, pc = "load" => Found(f) # {}
    PROVE  FillOK(f, WithOverlap(f, pc)) /\ WithOverlap(f, pc).pc = pc
  <1>1. Found(f) \subseteq Parts /\ disk.etag \in Etags
    BY FoundParts, ConstantTypes DEF TiersOK, Disk
  <1> DEFINE v == IF Found(f) = {} THEN NoVersion ELSE disk.etag
  <1>2. v \in Etags /\ (Found(f) # {} => v # NoVersion)
    BY <1>1, FoundParts, ConstantTypes DEF TiersOK
  <1>3. WithOverlap(f, pc) = [fill[f] EXCEPT !.pc = pc, !.have = Found(f), !.seen = v]
    BY DEF WithOverlap
  <1> HIDE DEF v
  <1> QED
    BY <1>1, <1>2, <1>3 DEF FillOK, Fill, FillPcs

\* An invalidation leaves the tiers well-typed.
LEMMA InvalidateOK ==
    ASSUME TiersOK, NEW f \in Fills, InvalidateOnMismatch(f),
           UNCHANGED <<origin, evicted>>
    PROVE  TiersOK'
  BY EmptyDiskType, ConstantTypes DEF TiersOK, InvalidateOnMismatch

-----------------------------------------------------------------------------
(* The invariant holds initially and is kept by every step                 *)

LEMMA InitIInv == Init => IInv
  <1> SUFFICES ASSUME Init PROVE IInv
    OBVIOUS
  <1>1. disk \in Disk
    BY EmptyDiskType, ConstantTypes DEF Init, Disk
  <1>2. disk.etag \in Etags /\ (disk.parts # {} => disk.etag # NoVersion)
    BY <1>1, EmptyDiskType DEF Disk, Init, NoVersion
  <1>3. TiersOK
    BY <1>1, <1>2, ConstantTypes, BoundsAssumption DEF Init, TiersOK
  <1>4. NewRequest \in Request /\ NewRequest.pc = "idle"
    BY ConstantTypes DEF NewRequest, Request
  <1>5. FillsOK /\ FetchersRegistered
    BY NoFillOK DEF Init, FillsOK, FetchersRegistered
  <1> QED
    BY <1>3, <1>4, <1>5 DEF Init, IInv, PageResponseOfOneVersion

\* Lookups, cached pages and waiting: the fill moves on or ends; the map does
\* not change unless the fill registers.
LEMMA LookupKeepsIInv ==
    ASSUME IInv, NEW f \in Fills,
           \/ SkipLookup(f) \/ RamHit(f) \/ Lookup(f) \/ LoadPage(f) \/ Relookup(f)
    PROVE  IInv'
  <1>0. /\ FillOK(f, fill[f]) /\ fill[f] \in Fill /\ TiersOK /\ f[2] \in Pages
        /\ f[1] \in Requests /\ PartsOf[f[2]] # {}
        /\ disk.etag \in Etags /\ ram[f[2]] \in Etags
        /\ pending \in [Pages -> Fills \cup {NoFlight}]
        /\ req \in [Requests -> Request]
    BY ConstantTypes, PartsAssumption DEF IInv, FillsOK, FillOK, TiersOK, Disk
  <1>1. CASE SkipLookup(f)
    <2>1. fill' = [fill EXCEPT ![f] = [fill[f] EXCEPT !.pc = "register"]]
      BY <1>1 DEF SkipLookup, Goto
    <2>2. UNCHANGED <<pending, req>> /\ TiersOK'
      BY <1>0, <1>1 DEF SkipLookup, TiersOK
    <2>3. "register" \in FillPcs \ {"load", "remove", "drop"}
      BY DEF FillPcs
    <2>4. FillOK(f, [fill[f] EXCEPT !.pc = "register"])
          /\ [fill[f] EXCEPT !.pc = "register"].pc = "register"
      BY <1>0, <2>3, MoveOK
    <2>5. ~Fetching([fill[f] EXCEPT !.pc = "register"])
      BY <2>4 DEF Fetching
    <2>6. FillsOK' /\ FetchersRegistered' /\ PageResponseOfOneVersion'
      BY <2>1, <2>2, <2>4, <2>5, OneFillMoves
    <2> QED
      BY <1>0, <2>2, <2>6 DEF IInv
  <1>2. CASE RamHit(f)
    <2> DEFINE t == Result(f, "done", ram[f[2]], {ram[f[2]]})
    <2>1. fill' = [fill EXCEPT ![f] = t] /\ UNCHANGED <<pending, req>> /\ TiersOK'
      BY <1>0, <1>2 DEF RamHit, Ends, TiersOK
    <2>2. ram[f[2]] \in Versions
      BY <1>0, <1>2 DEF RamHit, Etags
    <2>3. FillOK(f, t) /\ t.pc = "done"
      BY <1>0, <2>2, ResultOK
    <2>4. ~Fetching(t)
      BY <2>3 DEF Fetching
    <2> HIDE DEF t
    <2>5. FillsOK' /\ FetchersRegistered' /\ PageResponseOfOneVersion'
      BY <2>1, <2>3, <2>4, OneFillMoves
    <2> QED
      BY <1>0, <2>1, <2>5 DEF IInv
  <1>3. CASE Lookup(f)
    <2> DEFINE pc == IF Found(f) = PartsOf[f[2]] THEN "load" ELSE "register"
               t == WithOverlap(f, pc)
    <2>1. fill' = [fill EXCEPT ![f] = t] /\ UNCHANGED <<pending, req>>
      BY <1>3 DEF Lookup
    <2>2. TiersOK'
      BY <1>0, <1>3, InvalidateOK DEF Lookup
    <2>3. FillOK(f, t) /\ t.pc = pc
      BY <1>0, OverlapOK
    <2>4. ~Fetching(t)
      BY <2>3 DEF Fetching
    <2> HIDE DEF t
    <2>5. FillsOK' /\ FetchersRegistered' /\ PageResponseOfOneVersion'
      BY <2>1, <2>3, <2>4, OneFillMoves
    <2> QED
      BY <1>0, <2>1, <2>2, <2>5 DEF IInv
  <1>4. CASE LoadPage(f)
    <2> DEFINE t == IF Loadable(f) THEN Result(f, "done", fill[f].seen, {disk.etag})
                    ELSE Result(f, "done", NoVersion, {})
    <2>1. fill' = [fill EXCEPT ![f] = t] /\ UNCHANGED <<pending, req>>
      BY <1>4 DEF LoadPage, Ends, Fails
    <2>2. fill[f].seen \in Versions
      BY <1>0, <1>4 DEF LoadPage, Fill, FillOK, Etags
    <2>3. TiersOK'
      BY <1>0, <1>4, <2>2, ConstantTypes DEF LoadPage, TiersOK
    <2>4. Loadable(f) => disk.etag = fill[f].seen
      BY <1>0, <1>4 DEF LoadPage, Loadable, FillOK
    <2>5. FillOK(f, t) /\ t.pc = "done"
      BY <1>0, <2>2, <2>4, ResultOK, ConstantTypes
    <2>6. ~Fetching(t)
      BY <2>5 DEF Fetching
    <2> HIDE DEF t
    <2>7. FillsOK' /\ FetchersRegistered' /\ PageResponseOfOneVersion'
      BY <2>1, <2>5, <2>6, OneFillMoves
    <2> QED
      BY <1>0, <2>1, <2>3, <2>7 DEF IInv
  <1>5. CASE Relookup(f)
    <2> DEFINE t == IF Found(f) = PartsOf[f[2]] THEN WithOverlap(f, "load")
                    ELSE [fill[f] EXCEPT !.pc = "register"]
    <2>1. fill' = [fill EXCEPT ![f] = t] /\ UNCHANGED <<pending, req>>
      BY <1>5 DEF Relookup, Goto
    <2>2. TiersOK'
      BY <1>0, <1>5, InvalidateOK DEF Relookup
    <2>3. "register" \in FillPcs \ {"load", "remove", "drop"}
      BY DEF FillPcs
    <2>4. FillOK(f, t) /\ t.pc \in {"load", "register"}
      BY <1>0, <2>3, OverlapOK, MoveOK
    <2>5. ~Fetching(t)
      BY <2>4 DEF Fetching
    <2> HIDE DEF t
    <2>6. FillsOK' /\ FetchersRegistered' /\ PageResponseOfOneVersion'
      BY <2>1, <2>4, <2>5, OneFillMoves
    <2> QED
      BY <1>0, <2>1, <2>2, <2>6 DEF IInv
  <1> QED
    BY <1>1, <1>2, <1>3, <1>4, <1>5

\* Registration hands the page to a fill only if no flight is open for it.
LEMMA RegisterKeepsIInv ==
    ASSUME IInv, NEW f \in Fills, Register(f)
    PROVE  IInv'
  <1>0. /\ FillOK(f, fill[f]) /\ fill[f] \in Fill /\ f[2] \in Pages
        /\ pending \in [Pages -> Fills \cup {NoFlight}]
        /\ fill = [g \in Fills |-> fill[g]]
    BY ConstantTypes DEF IInv, FillsOK, FillOK
  <1>1. UNCHANGED <<origin, disk, ram, req, evicted>>
    BY DEF Register
  <1>2. TiersOK' /\ req' \in [Requests -> Request] /\ PageResponseOfOneVersion'
    BY <1>1 DEF IInv, TiersOK, PageResponseOfOneVersion
  <1>3. CASE pending[f[2]] = NoFlight
    <2> DEFINE t == [fill[f] EXCEPT !.pc = "fetch"]
    <2>1. fill' = [fill EXCEPT ![f] = t] /\ pending' = [pending EXCEPT ![f[2]] = f]
      BY <1>3 DEF Register, Goto
    <2>2. "fetch" \in FillPcs \ {"load", "remove", "drop"}
      BY DEF FillPcs
    <2>3. FillOK(f, t)
      BY <1>0, <2>2, MoveOK
    <2> HIDE DEF t
    <2>4. FillsOK'
      BY <1>0, <2>1, <2>3 DEF IInv, FillsOK
    <2>5. \A g \in Fills : g[2] = f[2] => ~Fetching(fill[g])
      BY <1>3, NoFlightAssumption DEF IInv, FetchersRegistered
    <2>6. FetchersRegistered'
      BY <1>0, <2>1, <2>5, ConstantTypes DEF IInv, FetchersRegistered
    <2> QED
      BY <1>0, <1>2, <2>1, <2>4, <2>6 DEF IInv
  <1>4. CASE pending[f[2]] # NoFlight
    <2>1. fill' = Subscribed(f, pending[f[2]], "wait") /\ UNCHANGED pending
      BY <1>4 DEF Register
    <2>2. PICK t : fill' = [fill EXCEPT ![f] = t] /\ FillOK(f, t) /\ t.pc = "wait"
      BY <1>0, <1>4, <2>1, SubscribedOK
    <2>3. ~Fetching(t)
      BY <2>2 DEF Fetching
    <2> QED
      BY <1>0, <1>1, <1>2, <2>1, <2>2, <2>3, OneFillMoves DEF IInv
  <1> QED
    BY <1>3, <1>4

\* Waiting, being told, timing out and subscribing again leave the map alone.
LEMMA WaitKeepsIInv ==
    ASSUME IInv, NEW f \in Fills, Receive(f) \/ TimeOut(f) \/ Resubscribe(f)
    PROVE  IInv'
  <1>0. /\ FillOK(f, fill[f]) /\ fill[f] \in Fill /\ f[2] \in Pages
        /\ pending \in [Pages -> Fills \cup {NoFlight}]
    BY ConstantTypes DEF IInv, FillsOK, FillOK
  <1>1. UNCHANGED <<origin, disk, ram, pending, req, evicted>>
    BY DEF Receive, TimeOut, Resubscribe
  <1>2. TiersOK' /\ req' \in [Requests -> Request]
        /\ pending' \in [Pages -> Fills \cup {NoFlight}]
    BY <1>1 DEF IInv, TiersOK
  <1>3. PICK t : fill' = [fill EXCEPT ![f] = t] /\ FillOK(f, t) /\ ~Fetching(t)
    <2>1. CASE Receive(f) \/ TimeOut(f)
      <3>1. \/ Fails(f, "done")
            \/ \E pc \in {"relookup", "register", "timeout"} : fill' = Unsubscribed(f, pc)
        BY <2>1 DEF Receive, TimeOut
      <3>2. CASE Fails(f, "done")
        <4> DEFINE t == Result(f, "done", NoVersion, {})
        <4>1. fill' = [fill EXCEPT ![f] = t]
          BY <3>2 DEF Fails, Ends
        <4>2. FillOK(f, t) /\ t.pc = "done"
          BY <1>0, ResultOK, ConstantTypes
        <4> QED
          BY <4>1, <4>2 DEF Fetching
      <3>3. ASSUME NEW pc \in {"relookup", "register", "timeout"},
                   fill' = Unsubscribed(f, pc)
            PROVE  \E t : fill' = [fill EXCEPT ![f] = t] /\ FillOK(f, t) /\ ~Fetching(t)
        <4>1. PICK t : fill' = [fill EXCEPT ![f] = t] /\ FillOK(f, t) /\ t.pc = pc
          BY <1>0, <3>3, UnsubscribedOK
        <4> QED
          BY <4>1 DEF Fetching
      <3> QED
        BY <3>1, <3>2, <3>3
    <2>2. CASE Resubscribe(f)
      <3>1. CASE pending[f[2]] = NoFlight
        <4> DEFINE t == [fill[f] EXCEPT !.pc = "register"]
        <4>1. fill' = [fill EXCEPT ![f] = t]
          BY <2>2, <3>1 DEF Resubscribe, Goto
        <4>2. "register" \in FillPcs \ {"load", "remove", "drop"}
          BY DEF FillPcs
        <4>3. FillOK(f, t) /\ t.pc = "register"
          BY <1>0, <4>2, MoveOK
        <4> QED
          BY <4>1, <4>3 DEF Fetching
      <3>2. CASE pending[f[2]] # NoFlight
        <4>1. fill' = Subscribed(f, pending[f[2]], "rewait")
          BY <2>2, <3>2 DEF Resubscribe
        <4>2. PICK t : fill' = [fill EXCEPT ![f] = t] /\ FillOK(f, t) /\ t.pc = "rewait"
          BY <1>0, <3>2, <4>1, SubscribedOK
        <4> QED
          BY <4>2 DEF Fetching
      <3> QED
        BY <3>1, <3>2
    <2> QED
      BY <2>1, <2>2
  <1> QED
    BY <1>1, <1>2, <1>3, OneFillMoves DEF IInv

\* Fetched parts are parts of the page, and their versions are S3's; a stored
\* part lands under its own page.
LEMMA FetchKeepsIInv ==
    ASSUME IInv, NEW f \in Fills, FetchPart(f) \/ StorePart(f) \/ Assemble(f)
    PROVE  IInv'
  <1>0. /\ FillOK(f, fill[f]) /\ fill[f] \in Fill /\ TiersOK /\ f[2] \in Pages
        /\ origin \in Versions /\ disk \in Disk /\ disk.etag \in Etags
        /\ pending \in [Pages -> Fills \cup {NoFlight}]
        /\ req \in [Requests -> Request]
        /\ fill[f].pc = "fetch"
    BY ConstantTypes DEF IInv, FillsOK, FillOK, TiersOK, Disk, FetchPart,
       StorePart, Assemble
  <1>1. Fetching(fill[f])
    BY <1>0 DEF Fetching
  <1> DEFINE failed == Result(f, "send", NoVersion, {})
  <1>2. FillOK(f, failed)
    BY <1>0, ResultOK, ConstantTypes
  <1> HIDE DEF failed
  <1>3. CASE FetchPart(f)
    <2>1. UNCHANGED <<origin, disk, ram, pending, req, evicted>>
      BY <1>3 DEF FetchPart
    <2>2. PICK t : fill' = [fill EXCEPT ![f] = t] /\ FillOK(f, t)
      <3>1. CASE Fails(f, "send")
        BY <1>2, <3>1 DEF Fails, Ends, failed
      <3>2. ASSUME NEW p \in Missing(f),
                   fill' = [fill EXCEPT ![f].got = @ \cup {<<p, origin>>}]
            PROVE  \E t : fill' = [fill EXCEPT ![f] = t] /\ FillOK(f, t)
        <4> DEFINE got == fill[f].got \cup {<<p, origin>>}
                   t == [fill[f] EXCEPT !.got = got]
        <4>1. fill' = [fill EXCEPT ![f] = t]
          BY <3>2
        <4>2. p \in PartsOf[f[2]] /\ p \in Parts
          BY <1>0, ConstantTypes DEF Missing
        <4>3. got \in SUBSET (Parts \X Versions) /\ \A x \in got : x[1] \in PartsOf[f[2]]
          BY <1>0, <4>2 DEF FillOK, Fill
        <4> HIDE DEF got
        <4>4. FillOK(f, t)
          BY <1>0, <4>3 DEF FillOK, Fill
        <4> QED
          BY <4>1, <4>4
      <3> QED
        BY <1>3, <3>1, <3>2 DEF FetchPart
    <2> QED
      BY <1>0, <1>1, <2>1, <2>2, OneFillMoves DEF IInv, TiersOK
  <1>4. CASE StorePart(f)
    <2>1. UNCHANGED <<origin, ram, pending, req, evicted>>
      BY <1>4 DEF StorePart
    <2>2. PICK x \in fill[f].got \ fill[f].stored :
            IF x[2] < disk.etag
            THEN Fails(f, "send") /\ UNCHANGED disk
            ELSE /\ disk' = Stored(f[2], x)
                 /\ fill' = [fill EXCEPT ![f].stored = @ \cup {x}]
      BY <1>4 DEF StorePart
    <2>3. /\ x \in Parts \X Versions /\ x[1] \in PartsOf[f[2]] /\ x[2] \in Versions
          /\ <<f[2], x[1]>> \in PagePart
      BY <1>0, <2>2, ConstantTypes DEF FillOK, Fill, PagePart
    <2>4. CASE x[2] < disk.etag
      <3>1. fill' = [fill EXCEPT ![f] = failed] /\ UNCHANGED disk
        BY <2>2, <2>4 DEF Fails, Ends, failed
      <3> QED
        BY <1>0, <1>1, <1>2, <2>1, <3>1, OneFillMoves DEF IInv, TiersOK
    <2>5. CASE ~(x[2] < disk.etag)
      <3> DEFINE st == fill[f].stored \cup {x}
                 t == [fill[f] EXCEPT !.stored = st]
      <3>1. disk' = Stored(f[2], x) /\ fill' = [fill EXCEPT ![f] = t]
        BY <2>2, <2>5
      <3>2. disk' \in Disk /\ disk'.etag # NoVersion
        BY <1>0, <2>3, <3>1, ConstantTypes DEF Stored, Disk
      <3>3. st \in SUBSET (Parts \X Versions)
        BY <1>0, <2>3 DEF Fill
      <3> HIDE DEF st
      <3>4. FillOK(f, t)
        BY <1>0, <3>3 DEF FillOK, Fill
      <3> HIDE DEF t
      <3>5. TiersOK'
        BY <1>0, <2>1, <3>2 DEF TiersOK
      <3> QED
        BY <1>0, <1>1, <2>1, <3>1, <3>4, <3>5, OneFillMoves DEF IInv
    <2> QED
      BY <2>4, <2>5
  <1>5. CASE Assemble(f)
    <2>1. UNCHANGED <<origin, disk, ram, pending, req, evicted>>
      BY <1>5 DEF Assemble
    <2> DEFINE S == SegmentVersions(f)
               bytes == {x[2] : x \in fill[f].got} \cup
                           (IF fill[f].have = {} THEN {} ELSE {disk.etag})
    <2>2. PICK t : fill' = [fill EXCEPT ![f] = t] /\ FillOK(f, t)
      <3>1. CASE OneSegmentVersion(f) /\ Loadable(f)
        <4>1. S \subseteq Versions
          BY <1>0 DEF SegmentVersions, FillOK, Fill, Etags
        <4>2. IsFiniteSet(Versions)
          BY FS_Interval, BoundsAssumption DEF Versions
        <4>3. IsFiniteSet(S)
          BY <4>1, <4>2, FS_Subset
        <4>4. PICK v : S = {v}
          BY <3>1, <4>3, FS_Singleton DEF OneSegmentVersion
        <4>5. (CHOOSE w \in S : TRUE) = v /\ v \in Versions
          BY <4>1, <4>4
        <4>6. bytes = S
          BY <3>1 DEF Loadable, SegmentVersions
        <4>7. fill' = [fill EXCEPT ![f] = Result(f, "send", CHOOSE w \in S : TRUE, bytes)]
          BY <1>5, <3>1 DEF Assemble, Ends
        <4> HIDE DEF S, bytes
        <4>8. fill' = [fill EXCEPT ![f] = Result(f, "send", v, bytes)]
          BY <4>5, <4>7
        <4>9. FillOK(f, Result(f, "send", v, bytes))
          BY <1>0, <4>4, <4>5, <4>6, ResultOK, ConstantTypes
        <4> QED
          BY <4>8, <4>9
      <3>2. CASE ~(OneSegmentVersion(f) /\ Loadable(f))
        BY <1>2, <1>5, <3>2 DEF Assemble, Fails, Ends, failed
      <3> QED
        BY <3>1, <3>2
    <2> QED
      BY <1>0, <1>1, <2>1, <2>2, OneFillMoves DEF IInv, TiersOK
  <1> QED
    BY <1>3, <1>4, <1>5

\* Completion: broadcast, removal of the fetcher's own flight, and a guard that
\* is dropped without effect because the flight was broadcast.
LEMMA CompleteKeepsIInv ==
    ASSUME IInv, NEW f \in Fills, Broadcast(f) \/ RemoveFlight(f) \/ DropGuard(f)
    PROVE  IInv'
  <1>0. /\ FillOK(f, fill[f]) /\ fill[f] \in Fill /\ f[2] \in Pages
        /\ pending \in [Pages -> Fills \cup {NoFlight}]
        /\ fill = [g \in Fills |-> fill[g]]
    BY ConstantTypes DEF IInv, FillsOK, FillOK
  <1>1. UNCHANGED <<origin, disk, ram, req, evicted>>
    BY DEF Broadcast, RemoveFlight, DropGuard
  <1>2. TiersOK' /\ req' \in [Requests -> Request] /\ PageResponseOfOneVersion'
    BY <1>1 DEF IInv, TiersOK, PageResponseOfOneVersion
  <1>3. CASE Broadcast(f)
    <2> DEFINE sent == IF fill[f].etag = NoVersion THEN "error" ELSE "ok"
               t == [fill[f] EXCEPT !.pc = "remove", !.sent = sent]
    <2>1. fill' = [fill EXCEPT ![f] = t] /\ UNCHANGED pending /\ fill[f].pc = "send"
      BY <1>3 DEF Broadcast
    <2>2. sent \in {"ok", "error"}
      OBVIOUS
    <2> HIDE DEF sent
    <2>3. FillOK(f, t)
      BY <1>0, <2>2 DEF FillOK, Fill, FillPcs
    <2> HIDE DEF t
    <2>4. Fetching(fill[f])
      BY <2>1 DEF Fetching
    <2> QED
      BY <1>0, <1>1, <1>2, <2>1, <2>3, <2>4, OneFillMoves DEF IInv
  <1>4. CASE RemoveFlight(f)
    <2> DEFINE t == [fill[f] EXCEPT !.pc = "drop"]
    <2>1. /\ fill' = [fill EXCEPT ![f] = t] /\ fill[f].pc = "remove"
          /\ pending' = [pending EXCEPT ![f[2]] = NoFlight]
      BY <1>4 DEF RemoveFlight, Goto
    <2>2. FillOK(f, t) /\ t.pc = "drop"
      BY <1>0, <2>1 DEF FillOK, Fill, FillPcs
    <2> HIDE DEF t
    <2>3. FillsOK'
      BY <1>0, <2>1, <2>2 DEF IInv, FillsOK
    <2>4. \A g \in Fills : g # f /\ Fetching(fill[g]) => g[2] # f[2]
      BY <2>1 DEF IInv, FetchersRegistered, Fetching
    <2>5. FetchersRegistered'
      BY <1>0, <2>1, <2>2, <2>4, ConstantTypes DEF IInv, FetchersRegistered, Fetching
    <2> QED
      BY <1>0, <1>2, <2>1, <2>3, <2>5 DEF IInv
  <1>5. CASE DropGuard(f)
    <2> DEFINE t == [fill[f] EXCEPT !.pc = "done"]
    <2>1. /\ fill' = [fill EXCEPT ![f] = t] /\ fill[f].pc = "drop"
          /\ pending' = GuardDropped(f)
      BY <1>5 DEF DropGuard, Goto
    <2>2. "done" \in FillPcs \ {"load", "remove", "drop"}
      BY DEF FillPcs
    <2>3. FillOK(f, t) /\ t.pc = "done"
      BY <1>0, <2>2, MoveOK
    <2>4. fill[f].sent # "nothing"
      BY <1>0, <2>1 DEF FillOK
    <2>5. pending' = pending
      BY <1>0, <2>1, <2>4 DEF GuardDropped
    <2>6. ~Fetching(t)
      BY <2>3 DEF Fetching
    <2> HIDE DEF t
    <2> QED
      BY <1>0, <1>1, <1>2, <2>1, <2>3, <2>5, <2>6, OneFillMoves DEF IInv
  <1> QED
    BY <1>3, <1>4, <1>5

\* A response is what its pages hold, and they hold one version; a cancelled
\* request takes its own flights with it and nobody else's.
LEMMA RequestKeepsIInv ==
    ASSUME IInv, NEW r \in Requests, StartRequest(r) \/ ServeStep(r) \/ Cancel(r)
    PROVE  IInv'
  <1>0. /\ req \in [Requests -> Request] /\ req[r] \in Request
        /\ pending \in [Pages -> Fills \cup {NoFlight}]
        /\ disk.etag \in Etags
    BY DEF IInv, TiersOK, Disk
  <1>1. UNCHANGED <<origin, disk, ram, evicted>>
    BY DEF StartRequest, ServeStep, ServePages, FallBack, Cancel
  <1>2. TiersOK'
    BY <1>1 DEF IInv, TiersOK
  <1>3. CASE StartRequest(r)
    <2>1. PICK cur \in {disk.etag} \cup 1..disk.etag :
            req' = [req EXCEPT ![r] = [@ EXCEPT !.pc = "filling", !.cur = cur]]
      BY <1>3 DEF StartRequest
    <2>2. cur \in Etags
      BY <1>0, BoundsAssumption DEF Etags, Versions, NoVersion
    <2>3. /\ req' \in [Requests -> Request]
          /\ req'[r].pc = "filling" /\ \A q \in Requests : q # r => req'[q] = req[q]
      BY <1>0, <2>1, <2>2 DEF Request
    <2>4. PageResponseOfOneVersion'
      BY <2>3 DEF IInv, PageResponseOfOneVersion
    <2>5. fill' = [f \in Fills |-> IF f[1] = r THEN [NoFill EXCEPT !.pc = "lookup"]
                                   ELSE fill[f]] /\ UNCHANGED pending
      BY <1>3 DEF StartRequest
    <2>6. FillsOK' /\ FetchersRegistered'
      BY <2>5, NoFillOK DEF IInv, FillsOK, FetchersRegistered
    <2> QED
      BY <1>0, <1>2, <2>3, <2>4, <2>5, <2>6 DEF IInv
  <1>4. CASE ServePages(r)
    <2>1. PICK v \in Versions :
            /\ OneVersion(r, v)
            /\ req' = [req EXCEPT ![r] = [@ EXCEPT !.pc = "served", !.etag = v,
                         !.body = UNION {fill[f].bytes : f \in FillsOf(r)}]]
      BY <1>4 DEF ServePages
    <2>2. PICK p : p \in Wants[r] /\ p \in Pages
      BY WantsAssumption
    <2>3. <<r, p>> \in FillsOf(r)
      BY <2>2 DEF Fills, FillsOf
    <2>4. \A f \in FillsOf(r) : fill[f].bytes = {v}
      BY <2>1, ConstantTypes DEF OneVersion, FillsOf, IInv, FillsOK, FillOK
    <2> DEFINE body == UNION {fill[f].bytes : f \in FillsOf(r)}
    <2>5. body = {v}
      BY <2>3, <2>4
    <2>6. body \subseteq Versions
      BY <2>5
    <2> HIDE DEF body
    <2>7. req' = [req EXCEPT ![r] = [@ EXCEPT !.pc = "served", !.etag = v, !.body = body]]
      BY <2>1 DEF body
    <2>8. req' \in [Requests -> Request]
      BY <1>0, <2>6, <2>7, ConstantTypes DEF Request
    <2>9. /\ req'[r].etag = v /\ req'[r].body = body
          /\ \A q \in Requests : q # r => req'[q] = req[q]
      BY <1>0, <2>7 DEF Request
    <2>10. PageResponseOfOneVersion'
      BY <2>5, <2>9 DEF IInv, PageResponseOfOneVersion
    <2>11. UNCHANGED <<pending, fill>>
      BY <1>4 DEF ServePages
    <2> QED
      BY <1>0, <1>2, <2>8, <2>10, <2>11 DEF IInv, FillsOK, FetchersRegistered
  <1>5. CASE FallBack(r)
    <2>1. req' = [req EXCEPT ![r].pc = "fallback"] /\ UNCHANGED <<pending, fill>>
      BY <1>5 DEF FallBack
    <2>2. /\ req' \in [Requests -> Request]
          /\ req'[r].pc = "fallback" /\ \A q \in Requests : q # r => req'[q] = req[q]
      BY <1>0, <2>1 DEF Request
    <2>3. PageResponseOfOneVersion'
      BY <2>2 DEF IInv, PageResponseOfOneVersion
    <2> QED
      BY <1>0, <1>2, <2>1, <2>2, <2>3 DEF IInv, FillsOK, FetchersRegistered
  <1>6. CASE Cancel(r)
    <2>1. /\ req' = [req EXCEPT ![r].pc = "gone"]
          /\ pending' = [p \in Pages |->
                IF \E f \in FillsOf(r) : f[2] = p /\ Guarded(f) THEN NoFlight
                ELSE pending[p]]
          /\ fill' = [f \in Fills |-> IF f[1] = r THEN NoFill ELSE fill[f]]
          /\ \A f \in FillsOf(r) : fill[f].pc \notin {"send", "remove", "drop"}
      BY <1>6 DEF Cancel
    <2>2. /\ req' \in [Requests -> Request]
          /\ req'[r].pc = "gone" /\ \A q \in Requests : q # r => req'[q] = req[q]
      BY <1>0, <2>1 DEF Request
    <2>3. PageResponseOfOneVersion'
      BY <2>2 DEF IInv, PageResponseOfOneVersion
    <2>4. FillsOK'
      BY <2>1, NoFillOK DEF IInv, FillsOK
    <2>5. \A f \in FillsOf(r) : Guarded(f) => pending[f[2]] = f
      BY <2>1 DEF Guarded, Fetching, FillsOf, IInv, FetchersRegistered
    <2>6. ASSUME NEW g \in Fills, Fetching(fill'[g])
          PROVE  pending'[g[2]] = g
      <3>1. g[1] # r /\ fill'[g] = fill[g]
        BY <2>1, <2>6, NoFillOK
      <3>2. pending[g[2]] = g
        BY <2>6, <3>1 DEF IInv, FetchersRegistered
      <3>3. ~ \E f \in FillsOf(r) : f[2] = g[2] /\ Guarded(f)
        BY <2>5, <3>1, <3>2 DEF FillsOf
      <3> QED
        BY <2>1, <3>2, <3>3, ConstantTypes
    <2>7. FetchersRegistered'
      BY <2>6 DEF FetchersRegistered
    <2>8. pending' \in [Pages -> Fills \cup {NoFlight}]
      BY <1>0, <2>1
    <2> QED
      BY <1>2, <2>2, <2>3, <2>4, <2>7, <2>8 DEF IInv
  <1> QED
    BY <1>3, <1>4, <1>5, <1>6 DEF ServeStep

LEMMA EnvironmentKeepsIInv ==
    ASSUME IInv, Overwrite \/ Evict
    PROVE  IInv'
  <1>1. UNCHANGED <<ram, pending, req, fill>>
    BY DEF Overwrite, Evict
  <1>2. CASE Overwrite
    <2>1. origin' \in Versions /\ UNCHANGED <<disk, evicted>>
      BY <1>2, BoundsAssumption DEF Overwrite, IInv, TiersOK, Versions
    <2> QED
      BY <1>1, <2>1 DEF IInv, TiersOK, FillsOK, FetchersRegistered, PageResponseOfOneVersion
  <1>3. CASE Evict
    <2>1. disk \in Disk /\ (disk.parts # {} => disk.etag # NoVersion)
      BY DEF IInv, TiersOK
    <2>2. PICK x \in disk.parts :
            disk' = IF disk.parts = {x} THEN EmptyDisk
                    ELSE [disk EXCEPT !.parts = @ \ {x}]
      BY <1>3 DEF Evict
    <2>3. disk' \in Disk /\ (disk'.parts # {} => disk'.etag # NoVersion)
      BY <2>1, <2>2, EmptyDiskType DEF Disk
    <2>4. evicted' \in 0..MaxEvictions /\ UNCHANGED origin
      BY <1>3, BoundsAssumption DEF Evict, IInv, TiersOK
    <2> QED
      BY <1>1, <2>3, <2>4 DEF IInv, TiersOK, FillsOK, FetchersRegistered,
         PageResponseOfOneVersion
  <1> QED
    BY <1>2, <1>3

-----------------------------------------------------------------------------
(* The results                                                             *)

\* IInv is an invariant of the process: every step of every fill, request and
\* of the environment keeps it.
THEOREM FillInvariant == Spec => []IInv
  <1>1. IInv /\ [Next]_vars => IInv'
    <2> SUFFICES ASSUME IInv, [Next]_vars PROVE IInv'
      OBVIOUS
    <2>1. CASE UNCHANGED vars
      BY <2>1 DEF vars, IInv, TiersOK, FillsOK, FetchersRegistered,
         PageResponseOfOneVersion
    <2>2. CASE Next
      BY <2>2, LookupKeepsIInv, RegisterKeepsIInv, WaitKeepsIInv, FetchKeepsIInv,
         CompleteKeepsIInv, RequestKeepsIInv, EnvironmentKeepsIInv DEF Next, FillStep
    <2> QED
      BY <2>1, <2>2
  <1> QED
    BY <1>1, InitIInv, PTL DEF Spec

\* Every variable keeps its type; in particular the disk tier never holds a
\* part under another page.
THEOREM TypeCorrect == Spec => []TypeOK
  <1>1. IInv => TypeOK
    BY DEF IInv, TiersOK, FillsOK, FillOK, TypeOK
  <1> QED
    BY <1>1, FillInvariant, PTL

\* At most one fill fetches a page at any time, whatever fails, times out or is
\* cancelled: a completed flight's guard never removes a later flight.
THEOREM SingleFetcher == Spec => []OneFetcherPerPage
  <1>1. IInv => OneFetcherPerPage
    BY DEF IInv, FetchersRegistered, Fetching, OneFetcherPerPage
  <1> QED
    BY <1>1, FillInvariant, PTL

\* A response sliced from pages is bytes of the version whose ETag it carries.
THEOREM PagesOfOneVersion == Spec => []PageResponseOfOneVersion
  <1>1. IInv => PageResponseOfOneVersion
    BY DEF IInv
  <1> QED
    BY <1>1, FillInvariant, PTL
=============================================================================
