-------------------------- MODULE GetRequestProofs --------------------------
(***************************************************************************)
(* For any number of concurrent requests of any shape, any number of       *)
(* versions, extents, faults and clock readings: what the client is told   *)
(* by a read request, and that no waiter is left behind.                   *)
(***************************************************************************)
EXTENDS GetRequest, FiniteSetTheorems, TLAPS

\* Metadata that names no version is no metadata.
Known(m) == m.ver = NoVersion => m = NoMetadata

\* A request asks, or has asked, as the leader of the expiration check's or of
\* the miss's flight, or after it waited for one.
Revalidating(q) ==
    \/ q.pc \in {"verdict", "register", "validate", "validated"}
    \/ q.pc = "wait" /\ q.next = "validate"
Fetching(q) ==
    \/ q.pc \in {"coord", "forward", "forwarded"}
    \/ q.pc \in {"wait", "vserve"} /\ q.next = "forward"
AnswerPcs == {"validated", "forwarded", "vanswered"}
EndPcs == {"write", "done"}

\* What the request may still need of the cache: bytes that cover it when it
\* serves, and nothing that a conditional request could merge with or be
\* pinned to.
SeenOK(q) ==
    /\ Known(q.seen)
    /\ q.pc \in {"idle", "lookup"} \/ q.shape.policy # "cache" => q.seen = NoMetadata
    /\ q.pc = "serve" => Covers(q.seen)
    /\ Fetching(q) /\ q.mode = "forward" => q.seen = NoMetadata \/ q.via = "validated"
\* The mode of a request with If-None-Match, and what the mode keeps it from.
ModeOK(q) ==
    /\ /\ q.shape.inm # NoVersion /\ q.shape.policy = "cache"
       /\ q.pc \notin {"idle"} \cup EndPcs
       => q.mode = "forward"
    /\ q.shape.policy # "cache" => q.pc \in {"idle", "forward", "forwarded"} \cup EndPcs
    /\ q.shape.kind = "part" \/ (q.shape.kind = "get" /\ q.mode = "forward")
         => ~Revalidating(q)
\* The proxy injects If-Match only into a request with neither condition.
PinOK(q) == q.pin # NoVersion => q.shape.im = NoVersion /\ q.shape.inm = NoVersion
\* S3's answer, as far as the client's own conditions go.
AnswerOK(q) ==
    /\ q.pc \in AnswerPcs \cup {"write"} => q.ver \in Versions
    /\ /\ q.shape.im # NoVersion
       /\ \/ q.pc \in AnswerPcs /\ q.code = "200"
          \/ q.pc \in {"validated", "vanswered"} /\ q.code = "304"
          \/ q.pc = "serve" /\ q.via = "validated"
       => q.ver = q.shape.im
    /\ q.pc = "forwarded" /\ q.code = "304" => q.shape.inm # NoVersion /\ q.own = "304"
    /\ q.shape.kind # "range" /\ q.own = "304" =>
         \/ q.pc = "forwarded" /\ q.code = "304"
         \/ q.pc = "done" /\ q.status # "200"
\* The response, once there is one.
ResponseOK(q) ==
    /\ q.pc \notin EndPcs =>
         /\ q.status = "none"
         /\ q.via = "none" \/ (q.via = "validated" /\ q.pc \in {"serve", "forward", "forwarded"})
    /\ q.status = "304" => q.shape.inm # NoVersion /\ q.own = "304"
    /\ q.status = "200" =>
         /\ \E v \in Versions : q.body = {v}
         /\ /\ q.shape.im # NoVersion
            /\ \/ q.via \in {"s3", "merged"}
               \/ q.via = "validated" /\ q.ver \in q.body
            => q.body = {q.shape.im}
\* A guard is held only by a request that still has to complete its flight.
GuardOK(q) ==
    /\ q.guard => /\ q.pc \in {"validate", "validated", "forward", "forwarded", "write"}
                  /\ q.shape.policy = "cache"
    /\ q.pc = "wait" => q.rx \in Requests

\* The overlap a full GET is about to be served from on a freshness verdict is of
\* the version the verdict was about, if it is still the version in .meta; and so
\* is a response.
TimelyOK(q, m, stored, t) ==
    /\ q.at <= t
    /\ q.shape.kind = "get" /\ q.mode # "modeB" =>
         /\ /\ q.pc = "serve" /\ q.via # "validated"
            /\ m.ver \in Versions /\ m.ver = q.seen.ver
            => q.at <= stored[m.ver] + TTL
         /\ q.via = "cache" => \A v \in q.body : q.at <= stored[v] + TTL

RequestOK(q) ==
    /\ q \in Request
    /\ SeenOK(q)
    /\ ModeOK(q)
    /\ PinOK(q)
    /\ AnswerOK(q)
    /\ ResponseOK(q)
    /\ GuardOK(q)

RequestsOK ==
    /\ req \in [Requests -> Request]
    /\ \A r \in Requests : RequestOK(req[r]) /\ TimelyOK(req[r], meta, storedAt, now)

\* A guard is the entry of its flight, and a waiter waits for it.
FlightsOK ==
    /\ flight \in [Kinds -> Requests \cup {NoOne}]
    /\ \A r \in Requests : req[r].guard => flight[Key(r)] = r
    /\ \A k \in Kinds : flight[k] # NoOne => req[flight[k]].guard /\ Key(flight[k]) = k
    /\ \A w \in Requests : req[w].pc = "wait" => flight[Key(w)] = req[w].rx

\* .meta was stored no earlier than it says.
CacheOK ==
    /\ now \in Times /\ origin \in Versions /\ faults \in 0..MaxFaults
    /\ meta \in Metadata /\ mcache \in Metadata /\ Known(meta) /\ Known(mcache)
    /\ ram \subseteq Versions /\ refresh \in BOOLEAN
    /\ storedAt \in [Versions -> Times]
    /\ \A v \in Versions : storedAt[v] <= now
    /\ meta.ver # NoVersion => meta.created <= storedAt[meta.ver]

\* The inductive strengthening of the module's safety properties.
IInv ==
    /\ CacheOK
    /\ RequestsOK
    /\ FlightsOK

\* What a step may do to the history: another version comes to .meta only by
\* being stored.
TimeStep ==
    /\ now <= now'
    /\ \A v \in Versions : storedAt[v] <= storedAt'[v]
    /\ meta'.ver \in Versions /\ meta'.ver # meta.ver => storedAt'[meta'.ver] = now'

-----------------------------------------------------------------------------
(* Facts about the operators                                               *)

LEMMA ConstantTypes ==
    /\ MaxVersion \in Nat \ {0} /\ MaxTime \in Nat /\ TTL \in Nat /\ MaxFaults \in Nat
    /\ 1 \in Versions /\ Versions \subseteq Nat /\ NoVersion \notin Versions
    /\ Etags = Versions \cup {NoVersion} /\ Times \subseteq Nat /\ 0 \in Times
    /\ NoMetadata \in Metadata /\ Known(NoMetadata) /\ NoMetadata.have = {}
    /\ NoMetadata.ver = NoVersion /\ Parts # {} /\ Shapes \subseteq Shape
  BY BoundsAssumption, PartsAssumption, ShapesAssumption DEF Versions, Etags, NoVersion,
     Times, NoMetadata, Metadata, Known

\* A covering overlap names a version.
LEMMA CoveringNamesVersion ==
    ASSUME NEW m \in Metadata, Known(m), m.have # {}
    PROVE  m.ver \in Versions
  BY ConstantTypes DEF Known, Metadata

\* A request as it is when it arrives.
LEMMA NewRequestOK ==
    ASSUME NEW s \in Shapes
    PROVE  RequestOK(NewRequest(s))
  <1>1. NewRequest(s) \in Request
    BY ConstantTypes, BoundsAssumption DEF NewRequest, Request, Pcs, Codes
  <1>2. SeenOK(NewRequest(s)) /\ PinOK(NewRequest(s))
    BY ConstantTypes DEF NewRequest, SeenOK, PinOK, Fetching
  <1>3. ModeOK(NewRequest(s)) /\ AnswerOK(NewRequest(s))
    BY DEF NewRequest, ModeOK, AnswerOK, Revalidating, AnswerPcs
  <1>4. ResponseOK(NewRequest(s)) /\ GuardOK(NewRequest(s))
    BY DEF NewRequest, ResponseOK, GuardOK
  <1> QED
    BY <1>1, <1>2, <1>3, <1>4 DEF RequestOK

\* A response keeps the client's shape, the guard and S3's own verdict.
LEMMA AnsweredFields ==
    ASSUME RequestsOK, NEW r \in Requests, NEW pc \in {"write", "done"},
           NEW status \in Codes, NEW body \in SUBSET Versions,
           NEW via \in {"none", "s3", "cache", "validated", "merged", "fallback"}
    PROVE  LET n == Answered(r, pc, status, body, via) IN
           /\ n \in Request
           /\ n.shape = req[r].shape /\ n.pc = pc /\ n.status = status /\ n.body = body
           /\ n.via = via /\ n.guard = req[r].guard /\ n.own = req[r].own
           /\ n.pin = NoVersion /\ n.code = "none" /\ n.rx = NoOne
           /\ n.mode = IF via = "cache" THEN req[r].mode ELSE "plain"
           /\ n.at = IF via = "cache" THEN req[r].at ELSE 0
           /\ n.ver = IF pc = "write" \/ via = "validated" THEN req[r].ver ELSE NoVersion
           /\ n.seen = IF via = "merged" THEN req[r].seen ELSE NoMetadata
  <1>1. req[r] \in Request
    BY DEF RequestsOK
  <1>2. /\ req[r].shape \in Shapes /\ req[r].own \in Codes /\ req[r].guard \in BOOLEAN
        /\ req[r].ver \in Etags /\ req[r].seen \in Metadata /\ req[r].at \in Times
        /\ req[r].mode \in {"plain", "modeB", "forward"}
    BY <1>1 DEF Request
  <1>3. pc \in Pcs
    BY DEF Pcs
  <1> DEFINE mo == IF via = "cache" THEN req[r].mode ELSE "plain"
             ti == IF via = "cache" THEN req[r].at ELSE 0
             ve == IF pc = "write" \/ via = "validated" THEN req[r].ver ELSE NoVersion
             se == IF via = "merged" THEN req[r].seen ELSE NoMetadata
  <1>4. /\ mo \in {"plain", "modeB", "forward"} /\ ti \in Times /\ ve \in Etags
        /\ se \in Metadata /\ NoVersion \in Etags /\ NoMetadata \in Metadata
        /\ 0 \in Times /\ 0 \in 0..MaxResubscriptions /\ "none" \in Codes
    BY <1>2, ConstantTypes, BoundsAssumption DEF Codes
  <1>5. Answered(r, pc, status, body, via) =
          [shape |-> req[r].shape, pc |-> pc, mode |-> mo, pin |-> NoVersion,
           cur |-> NoVersion, seen |-> se, val |-> NoVersion, at |-> ti,
           guard |-> req[r].guard, rx |-> NoOne, next |-> "forward",
           resubs |-> 0, code |-> "none", ver |-> ve, own |-> req[r].own,
           status |-> status, body |-> body, via |-> via]
    BY DEF Answered
  <1>6. Answered(r, pc, status, body, via) \in Request
    <2> HIDE DEF mo, ti, ve, se
    <2> QED
      BY <1>2, <1>3, <1>4, <1>5 DEF Request
  <1> QED
    BY <1>6 DEF Answered

\* Metadata of the cache is known, whichever copy it comes from.
LEMMA CachedOK ==
    ASSUME CacheOK
    PROVE  /\ Cached \in Metadata /\ Known(Cached)
           /\ Remember => mcache' \in Metadata /\ Known(mcache')
  BY DEF CacheOK, Cached, Remember

-----------------------------------------------------------------------------
(* The shapes of a step                                                    *)

\* A request that does not move stays in order while the cache is renewed,
\* replaced or emptied.
LEMMA TimelyKept ==
    ASSUME CacheOK, CacheOK', TimeStep, NEW q \in Request,
           TimelyOK(q, meta, storedAt, now)
    PROVE  TimelyOK(q, meta', storedAt', now')
  <1>1. /\ now \in Nat /\ now' \in Nat /\ q.at \in Nat /\ TTL \in Nat
        /\ \A v \in Versions : storedAt[v] \in Nat /\ storedAt'[v] \in Nat
        /\ q.body \subseteq Versions
    BY ConstantTypes DEF CacheOK, Request
  <1>2. q.at <= now'
    BY <1>1 DEF TimelyOK, TimeStep
  <1>3. ASSUME q.shape.kind = "get", q.mode # "modeB", q.pc = "serve", q.via # "validated",
               meta'.ver \in Versions, meta'.ver = q.seen.ver
        PROVE  q.at <= storedAt'[meta'.ver] + TTL
    <2>1. CASE meta'.ver = meta.ver
      BY <1>1, <1>3, <2>1 DEF TimelyOK, TimeStep
    <2>2. CASE meta'.ver # meta.ver
      BY <1>1, <1>2, <1>3, <2>2 DEF TimeStep
    <2> QED
      BY <2>1, <2>2
  <1>4. ASSUME q.shape.kind = "get", q.mode # "modeB", q.via = "cache", NEW v \in q.body
        PROVE  q.at <= storedAt'[v] + TTL
    <2>1. q.at <= storedAt[v] + TTL /\ storedAt[v] <= storedAt'[v]
      BY <1>1, <1>4 DEF TimelyOK, TimeStep
    <2> QED
      BY <1>1, <1>4, <2>1
  <1> QED
    BY <1>2, <1>3, <1>4 DEF TimelyOK

\* One request moves on, and keeps its guard.
LEMMA Moved ==
    ASSUME IInv, CacheOK', TimeStep, NEW r \in Requests, NEW n, Moves(r, n),
           RequestOK(n), TimelyOK(n, meta, storedAt, now),
           n.shape = req[r].shape, n.guard = req[r].guard,
           n.pc = "wait" => req[r].pc = "wait" /\ n.rx = req[r].rx
    PROVE  IInv'
  <1>1. /\ req \in [Requests -> Request] /\ flight' = flight
        /\ req'[r] = n /\ \A w \in Requests : w # r => req'[w] = req[w]
        /\ n \in Request /\ req' \in [Requests -> Request]
    BY DEF IInv, RequestsOK, RequestOK, Moves
  <1>2. RequestsOK'
    <2>1. ASSUME NEW w \in Requests
          PROVE  RequestOK(req'[w]) /\ TimelyOK(req'[w], meta', storedAt', now')
      <3>1. /\ RequestOK(req'[w]) /\ TimelyOK(req'[w], meta, storedAt, now)
            /\ req'[w] \in Request
        BY <1>1 DEF IInv, RequestsOK
      <3> QED
        BY <3>1, TimelyKept DEF IInv
    <2> QED
      BY <1>1, <2>1 DEF RequestsOK
  <1>3. FlightsOK'
    BY <1>1 DEF IInv, FlightsOK, Key
  <1> QED
    BY <1>2, <1>3 DEF IInv

\* A waiter is woken by its fetcher.
LEMMA WokenOK ==
    ASSUME IInv, NEW w \in Requests, NEW ok \in BOOLEAN, req[w].pc = "wait"
    PROVE  /\ RequestOK(Woken(w, ok)) /\ TimelyOK(Woken(w, ok), meta, storedAt, now)
           /\ Woken(w, ok).shape = req[w].shape /\ ~Woken(w, ok).guard
           /\ Woken(w, ok).pc # "wait" /\ ~req[w].guard
  <1>1. RequestOK(req[w]) /\ req[w] \in Request
    BY DEF IInv, RequestsOK, RequestOK
  <1> DEFINE q == req[w]
             pc == IF ok THEN "vserve" ELSE q.next
             n == [q EXCEPT !.pc = pc, !.rx = NoOne]
  <1>2. Woken(w, ok) = n
    BY DEF Woken
  <1>3. pc \in {"vserve", "validate", "forward"} /\ q.pc = "wait" /\ ~q.guard
    BY <1>1 DEF Request, RequestOK, GuardOK
  <1>4. n \in Request
    BY <1>1, <1>3 DEF Request, Pcs
  <1>5. TimelyOK(n, meta, storedAt, now)
    BY <1>1, <1>3 DEF IInv, RequestsOK, TimelyOK, Request
  <1>6. SeenOK(n) /\ ModeOK(n) /\ PinOK(n)
    BY <1>1, <1>3 DEF RequestOK, SeenOK, ModeOK, PinOK, Revalidating, Fetching, EndPcs, Request
  <1>7. AnswerOK(n) /\ ResponseOK(n) /\ GuardOK(n)
    BY <1>1, <1>3 DEF RequestOK, AnswerOK, ResponseOK, GuardOK, AnswerPcs, EndPcs, Request
  <1>8. n.shape = q.shape /\ ~n.guard /\ n.pc # "wait" /\ ~q.guard
    BY <1>1, <1>3 DEF Request
  <1> QED
    BY <1>2, <1>4, <1>5, <1>6, <1>7, <1>8 DEF RequestOK

\* A request completes its flight, if it has one, with the result ok.
LEMMA Completed ==
    ASSUME IInv, CacheOK', TimeStep, NEW r \in Requests, NEW ok \in BOOLEAN, NEW after,
           Complete(r, ok, after),
           RequestOK([after EXCEPT !.guard = FALSE]),
           TimelyOK([after EXCEPT !.guard = FALSE], meta, storedAt, now),
           [after EXCEPT !.guard = FALSE].shape = req[r].shape,
           [after EXCEPT !.guard = FALSE].pc # "wait"
    PROVE  IInv'
  <1> DEFINE n == [after EXCEPT !.guard = FALSE]
             Wakes(w) == req[r].guard /\ req[w].pc = "wait" /\ req[w].rx = r
  <1>1. /\ req' = [w \in Requests |-> IF w = r THEN n
                                      ELSE IF Wakes(w) THEN Woken(w, ok) ELSE req[w]]
        /\ flight' = IF req[r].guard THEN [flight EXCEPT ![Key(r)] = NoOne] ELSE flight
    BY DEF Complete
  <1>2. RequestOK(n) /\ TimelyOK(n, meta, storedAt, now) /\ n.shape = req[r].shape
        /\ n.pc # "wait" /\ n \in Request
    BY DEF RequestOK
  <1>3. ~n.guard
    <2>1. CASE "guard" \in DOMAIN after
      BY <2>1
    <2>2. CASE "guard" \notin DOMAIN after
      BY <1>2, <2>2 DEF Request
    <2> QED
      BY <2>1, <2>2
  <1> HIDE DEF n
  <1>4. ASSUME NEW w \in Requests
        PROVE  /\ w = r => req'[w] = n
               /\ w # r /\ Wakes(w) => /\ req'[w] = Woken(w, ok) /\ ~req'[w].guard
                                       /\ req'[w].pc # "wait" /\ ~req[w].guard
               /\ w # r /\ ~Wakes(w) => req'[w] = req[w]
               /\ req'[w].shape = req[w].shape
               /\ RequestOK(req'[w]) /\ TimelyOK(req'[w], meta, storedAt, now)
    <2>1. CASE w = r
      BY <1>1, <1>2, <2>1
    <2>2. CASE w # r /\ Wakes(w)
      BY <1>1, <2>2, WokenOK
    <2>3. CASE w # r /\ ~Wakes(w)
      BY <1>1, <2>3 DEF IInv, RequestsOK
    <2> QED
      BY <2>1, <2>2, <2>3
  <1>5. RequestsOK'
    <2>1. ASSUME NEW w \in Requests
          PROVE  /\ req'[w] \in Request /\ RequestOK(req'[w])
                 /\ TimelyOK(req'[w], meta', storedAt', now')
      <3>1. RequestOK(req'[w]) /\ TimelyOK(req'[w], meta, storedAt, now)
        BY <1>4
      <3>2. req'[w] \in Request
        BY <3>1 DEF RequestOK
      <3> QED
        BY <3>1, <3>2, TimelyKept DEF IInv
    <2>2. req' \in [Requests -> Request]
      BY <1>1, <2>1
    <2> QED
      BY <2>1, <2>2 DEF RequestsOK
  <1>6. FlightsOK'
    <2>1. \A w \in Requests : /\ req'[w].shape.kind = req[w].shape.kind
                               /\ req[w].shape.kind \in Kinds /\ req[w].shape.kind = Key(w)
      BY <1>4, ShapesAssumption DEF Key, IInv, RequestsOK, Request, Shape
    <2>2. CASE req[r].guard
      <3>1. /\ flight \in [Kinds -> Requests \cup {NoOne}]
            /\ flight' = [flight EXCEPT ![Key(r)] = NoOne] /\ flight[Key(r)] = r
            /\ \A k \in Kinds : flight'[k] = IF k = Key(r) THEN NoOne ELSE flight[k]
        BY <1>1, <2>1, <2>2 DEF IInv, FlightsOK
      <3>2. ASSUME NEW w \in Requests, req'[w].guard PROVE flight'[req'[w].shape.kind] = w
        <4>1. w # r /\ req'[w] = req[w]
          BY <1>3, <1>4, <3>2
        <4>2. flight[Key(w)] = w
          BY <3>2, <4>1 DEF IInv, FlightsOK
        <4> QED
          BY <2>1, <3>1, <4>1, <4>2
      <3>3. ASSUME NEW k \in Kinds, flight'[k] # NoOne
            PROVE  req'[flight'[k]].guard /\ req'[flight'[k]].shape.kind = k
        <4>1. k # Key(r) /\ flight'[k] = flight[k] /\ flight[k] \in Requests
          BY <3>1, <3>3
        <4>2. req[flight[k]].guard /\ Key(flight[k]) = k
          BY <3>3, <4>1 DEF IInv, FlightsOK
        <4>3. flight[k] # r /\ req'[flight[k]] = req[flight[k]]
          BY <1>4, <4>1, <4>2
        <4> QED
          BY <2>1, <4>1, <4>2, <4>3
      <3>4. ASSUME NEW w \in Requests, req'[w].pc = "wait"
            PROVE  flight'[req'[w].shape.kind] = req'[w].rx
        <4>1. w # r /\ ~Wakes(w) /\ req'[w] = req[w]
          BY <1>2, <1>4, <3>4
        <4>2. flight[Key(w)] = req[w].rx /\ req[w].rx # r
          BY <2>2, <3>4, <4>1 DEF IInv, FlightsOK
        <4> QED
          BY <2>1, <3>1, <4>1, <4>2
      <3>5. flight' \in [Kinds -> Requests \cup {NoOne}]
        BY <3>1
      <3> QED
        BY <3>2, <3>3, <3>4, <3>5 DEF FlightsOK, Key
    <2>3. CASE ~req[r].guard
      BY <1>1, <1>2, <1>3, <1>4, <2>1, <2>3 DEF IInv, FlightsOK, Key
    <2> QED
      BY <2>2, <2>3
  <1> QED
    BY <1>5, <1>6 DEF IInv

\* A request becomes the fetcher of its flight, or waits for the fetcher.
LEMMA Joined ==
    ASSUME IInv, CacheOK', TimeStep, NEW r \in Requests, NEW at, NEW work,
           Join(r, at, work), ~req[r].guard,
           LET fetcher == [req[r] EXCEPT !.pc = work, !.guard = TRUE]
               waiter == [req[r] EXCEPT !.pc = "wait", !.rx = flight[Key(r)],
                                        !.next = work]
           IN  /\ RequestOK(fetcher) /\ TimelyOK(fetcher, meta, storedAt, now)
               /\ flight[Key(r)] # NoOne =>
                    RequestOK(waiter) /\ TimelyOK(waiter, meta, storedAt, now)
               /\ work # "wait"
    PROVE  IInv'
  <1> DEFINE f == [req[r] EXCEPT !.pc = work, !.guard = TRUE]
             w == [req[r] EXCEPT !.pc = "wait", !.rx = flight[Key(r)], !.next = work]
             n == IF flight[Key(r)] = NoOne THEN f ELSE w
  <1>0. /\ req \in [Requests -> Request] /\ req[r] \in Request
        /\ flight \in [Kinds -> Requests \cup {NoOne}] /\ Key(r) \in Kinds
        /\ \A x \in Requests : req[x].shape.kind = Key(x) /\ Key(x) \in Kinds
    BY ShapesAssumption DEF IInv, RequestsOK, FlightsOK, Request, Shape, Key
  <1>1. /\ req' = [req EXCEPT ![r] = n]
        /\ flight' = IF flight[Key(r)] = NoOne THEN [flight EXCEPT ![Key(r)] = r] ELSE flight
    BY <1>0 DEF Join
  <1>2. RequestOK(n) /\ TimelyOK(n, meta, storedAt, now)
    OBVIOUS
  <1>3. /\ n.shape = req[r].shape
        /\ flight[Key(r)] = NoOne => n.guard /\ n.pc # "wait"
        /\ flight[Key(r)] # NoOne => ~n.guard /\ n.pc = "wait" /\ n.rx = flight[Key(r)]
    BY <1>0 DEF Request
  <1> HIDE DEF n
  <1>4. req'[r] = n /\ \A x \in Requests : x # r => req'[x] = req[x]
    BY <1>0, <1>1
  <1>5. RequestsOK'
    <2>1. ASSUME NEW x \in Requests
          PROVE  /\ req'[x] \in Request /\ RequestOK(req'[x])
                 /\ TimelyOK(req'[x], meta', storedAt', now')
      <3>1. RequestOK(req'[x]) /\ TimelyOK(req'[x], meta, storedAt, now)
        BY <1>2, <1>4 DEF IInv, RequestsOK
      <3>2. req'[x] \in Request
        BY <3>1 DEF RequestOK
      <3> QED
        BY <3>1, <3>2, TimelyKept DEF IInv
    <2>2. req' \in [Requests -> Request]
      BY <1>0, <1>1, <2>1, <1>4
    <2> QED
      BY <2>1, <2>2 DEF RequestsOK
  <1>6. FlightsOK'
    <2>1. CASE flight[Key(r)] = NoOne
      <3>1. /\ n.guard /\ n.pc # "wait"
            /\ \A k \in Kinds : flight'[k] = IF k = Key(r) THEN r ELSE flight[k]
            /\ \A x \in Requests : req'[x].shape.kind = Key(x)
        BY <1>0, <1>1, <1>3, <1>4, <2>1
      <3>2. ASSUME NEW x \in Requests, req'[x].guard PROVE flight'[req'[x].shape.kind] = x
        <4>1. CASE x = r
          BY <1>0, <3>1, <4>1
        <4>2. CASE x # r
          <5>1. flight[Key(x)] = x
            BY <1>4, <3>2, <4>2 DEF IInv, FlightsOK
          <5> QED
            BY <1>0, <2>1, <3>1, <5>1, RequestsAssumption
        <4> QED
          BY <4>1, <4>2
      <3>3. ASSUME NEW k \in Kinds, flight'[k] # NoOne
            PROVE  req'[flight'[k]].guard /\ req'[flight'[k]].shape.kind = k
        <4>1. CASE k = Key(r)
          BY <1>4, <3>1, <4>1
        <4>2. CASE k # Key(r)
          <5>1. flight'[k] = flight[k] /\ flight[k] \in Requests
            BY <1>0, <3>1, <3>3, <4>2
          <5>2. req[flight[k]].guard /\ Key(flight[k]) = k
            BY <3>3, <5>1 DEF IInv, FlightsOK
          <5> QED
            BY <1>4, <3>1, <5>1, <5>2
        <4> QED
          BY <4>1, <4>2
      <3>4. ASSUME NEW x \in Requests, req'[x].pc = "wait"
            PROVE  flight'[req'[x].shape.kind] = req'[x].rx
        <4>1. x # r /\ req'[x] = req[x]
          BY <1>4, <3>1, <3>4
        <4>2. flight[Key(x)] = req[x].rx /\ req[x].rx \in Requests
          BY <3>4, <4>1 DEF IInv, FlightsOK, RequestsOK, RequestOK, GuardOK
        <4> QED
          BY <1>0, <2>1, <3>1, <4>1, <4>2, RequestsAssumption
      <3>5. flight' \in [Kinds -> Requests \cup {NoOne}]
        BY <1>0, <1>1, <2>1
      <3> QED
        BY <3>2, <3>3, <3>4, <3>5 DEF FlightsOK, Key
    <2>2. CASE flight[Key(r)] # NoOne
      BY <1>0, <1>1, <1>3, <1>4, <2>2 DEF IInv, FlightsOK, Key
    <2> QED
      BY <2>1, <2>2
  <1> QED
    BY <1>5, <1>6 DEF IInv

\* The cache after a step that stores nothing.
LEMMA CacheKept ==
    ASSUME CacheOK, UNCHANGED <<now, origin, storedAt>>, faults' \in 0..MaxFaults,
           meta' \in Metadata, Known(meta'),
           \/ meta'.ver = NoVersion
           \/ meta'.ver = meta.ver /\ meta'.created = meta.created,
           mcache' \in Metadata, Known(mcache'), ram' \subseteq Versions,
           refresh' \in BOOLEAN
    PROVE  CacheOK' /\ TimeStep
  <1>1. /\ now \in Nat /\ meta.ver \in Versions \cup {NoVersion}
        /\ \A v \in Versions : storedAt[v] \in Nat
    BY ConstantTypes DEF CacheOK, Metadata
  <1>2. TimeStep
    BY <1>1, ConstantTypes DEF TimeStep
  <1>3. meta'.ver # NoVersion => meta'.created <= storedAt'[meta'.ver]
    BY DEF CacheOK
  <1> QED
    BY <1>2, <1>3 DEF CacheOK

LEMMA CacheUnchanged ==
    ASSUME CacheOK, UNCHANGED <<now, origin, cache>>, faults' \in 0..MaxFaults
    PROVE  CacheOK' /\ TimeStep
  BY CacheKept, ConstantTypes DEF CacheOK, cache

LEMMA Invalidated ==
    ASSUME CacheOK, UNCHANGED world, Invalidate
    PROVE  CacheOK' /\ TimeStep
  <1>1. /\ UNCHANGED <<now, origin, storedAt>> /\ faults' \in 0..MaxFaults
        /\ meta' = NoMetadata /\ mcache' = NoMetadata /\ ram' = {} /\ refresh' \in BOOLEAN
    BY DEF Invalidate, world, CacheOK
  <1> QED
    BY <1>1, CacheKept, ConstantTypes

\* The environment spends a fault within its bound.
LEMMA SpendOK ==
    ASSUME CacheOK, NEW c, Spend(c)
    PROVE  UNCHANGED <<now, origin>> /\ faults' \in 0..MaxFaults
  BY ConstantTypes DEF CacheOK, Spend

\* expires_at is counted from now, and nothing else changes.
LEMMA RenewedOK ==
    ASSUME CacheOK
    PROVE  /\ Renewed(meta) \in Metadata /\ Known(Renewed(meta))
           /\ Renewed(meta).ver = meta.ver /\ Renewed(meta).created = meta.created
  <1>1. meta \in Metadata /\ now + TTL \in 0..(MaxTime + TTL)
    BY ConstantTypes DEF CacheOK, Times
  <1> QED
    BY <1>1 DEF CacheOK, Renewed, Metadata, Known

\* A part of the object is dropped.
LEMMA DroppedOK ==
    ASSUME CacheOK, NEW p
    PROVE  LET m == [meta EXCEPT !.have = @ \ {p}] IN
           m \in Metadata /\ Known(m) /\ m.ver = meta.ver /\ m.created = meta.created
  BY ConstantTypes DEF CacheOK, Metadata, Known

\* What store_range leaves in .meta: the version it named, or the one stored now.
LEMMA StoredInOK ==
    ASSUME CacheOK, NEW v \in Versions, NEW parts \in SUBSET Parts
    PROVE  LET m == StoredIn(meta, v, parts) IN
           /\ m \in Metadata /\ Known(m)
           /\ v < meta.ver => m = meta
           /\ v = meta.ver => m.ver = v /\ m.created = meta.created
           /\ v > meta.ver => m.ver = v /\ m.created = now
  <1>1. /\ meta \in Metadata /\ now \in Times /\ now + TTL \in 0..(MaxTime + TTL)
        /\ meta.ver \in Nat /\ v \in Nat /\ v # NoVersion /\ v \in Etags
    <2>1. meta \in Metadata /\ now \in Times /\ now + TTL \in 0..(MaxTime + TTL)
      BY ConstantTypes DEF CacheOK, Times
    <2>2. v \in Nat /\ v # NoVersion /\ v \in Etags /\ NoVersion \in Nat
      BY ConstantTypes DEF NoVersion
    <2>3. meta.ver \in Nat
      BY <2>1, <2>2, ConstantTypes DEF Metadata
    <2> QED
      BY <2>1, <2>2, <2>3
  <1>2. CASE v = meta.ver
    BY <1>1, <1>2 DEF CacheOK, StoredIn, Metadata, Known
  <1>3. CASE v > meta.ver
    BY <1>1, <1>3 DEF StoredIn, Metadata, Known
  <1>4. CASE v < meta.ver
    BY <1>1, <1>4 DEF CacheOK, StoredIn
  <1> QED
    BY <1>1, <1>2, <1>3, <1>4

LEMMA StoreKept ==
    ASSUME CacheOK, NEW v \in Versions, NEW parts \in SUBSET Parts,
           UNCHANGED <<now, origin>>, faults' \in 0..MaxFaults,
           meta' = StoredIn(meta, v, parts),
           storedAt' = [storedAt EXCEPT ![v] = IF v >= meta.ver THEN now ELSE @],
           mcache' \in Metadata, Known(mcache'), ram' \subseteq Versions,
           refresh' \in BOOLEAN
    PROVE  CacheOK' /\ TimeStep
  <1>1. /\ meta'  \in Metadata /\ Known(meta')
        /\ v < meta.ver => meta' = meta
        /\ v = meta.ver => meta'.ver = v /\ meta'.created = meta.created
        /\ v > meta.ver => meta'.ver = v /\ meta'.created = now
    BY StoredInOK
  <1>2. /\ storedAt \in [Versions -> Times] /\ now \in Nat /\ meta.ver \in Nat /\ v \in Nat
        /\ \A u \in Versions : storedAt[u] \in Nat /\ storedAt[u] <= now
        /\ now \in Times /\ meta.ver \in Versions \cup {NoVersion}
        /\ \A u \in Versions :
             storedAt'[u] = IF u = v /\ v >= meta.ver THEN now ELSE storedAt[u]
    BY ConstantTypes DEF CacheOK, Metadata, NoVersion
  <1>3. storedAt' \in [Versions -> Times]
    BY <1>2
  <1>4. meta'.ver # NoVersion => meta'.created <= storedAt'[meta'.ver]
    <2>1. meta.ver # NoVersion => meta.created <= storedAt[meta.ver]
      BY DEF CacheOK
    <2>2. CASE v < meta.ver
      BY <1>1, <1>2, <2>1, <2>2
    <2>3. CASE v = meta.ver
      BY <1>1, <1>2, <2>1, <2>3 DEF CacheOK, Metadata, Times
    <2>4. CASE v > meta.ver
      BY <1>1, <1>2, <2>4
    <2> QED
      BY <1>2, <2>2, <2>3, <2>4
  <1>5. TimeStep
    BY <1>1, <1>2 DEF TimeStep
  <1> QED
    BY <1>1, <1>2, <1>3, <1>4, <1>5 DEF CacheOK

\* A response in order: its status, body and source, and what S3 said of the
\* client's own conditions.
InOrder(r, pc, status, body, via) ==
    /\ pc \in {"write", "done"} /\ status \in Codes /\ body \in SUBSET Versions
    /\ via \in {"none", "s3", "cache", "validated", "merged", "fallback"}
    /\ req[r].pc \notin EndPcs
    /\ pc = "write" => req[r].ver \in Versions /\ status = "200"
    /\ status = "304" => req[r].shape.inm # NoVersion /\ req[r].own = "304"
    /\ status = "200" =>
         /\ \E v \in Versions : body = {v}
         /\ req[r].pc # "forwarded" \/ req[r].code # "304"
         /\ req[r].shape.im # NoVersion =>
              /\ via \in {"s3", "merged"} => body = {req[r].shape.im}
              /\ via = "validated" => req[r].ver = req[r].shape.im
    /\ via = "cache" /\ req[r].shape.kind = "get" /\ req[r].mode # "modeB"
         => \A v \in body : req[r].at <= storedAt[v] + TTL

LEMMA AnsweredContent ==
    ASSUME IInv, NEW r \in Requests, NEW pc, NEW status, NEW body, NEW via,
           InOrder(r, pc, status, body, via),
           NEW n, n = Answered(r, pc, status, body, via)
    PROVE  /\ n \in Request /\ SeenOK(n) /\ ModeOK(n) /\ PinOK(n) /\ AnswerOK(n)
           /\ ResponseOK(n) /\ TimelyOK(n, meta, storedAt, now)
           /\ n.shape = req[r].shape /\ n.pc = pc /\ n.guard = req[r].guard
  <1> DEFINE q == req[r]
  <1>1. /\ n \in Request
        /\ n.shape = req[r].shape /\ n.pc = pc /\ n.status = status /\ n.body = body
        /\ n.via = via /\ n.guard = req[r].guard /\ n.own = req[r].own
        /\ n.pin = NoVersion /\ n.code = "none" /\ n.rx = NoOne
        /\ n.mode = IF via = "cache" THEN req[r].mode ELSE "plain"
        /\ n.at = IF via = "cache" THEN req[r].at ELSE 0
        /\ n.ver = IF pc = "write" \/ via = "validated" THEN req[r].ver ELSE NoVersion
        /\ n.seen = IF via = "merged" THEN req[r].seen ELSE NoMetadata
    BY AnsweredFields DEF IInv, InOrder
  <1>2. RequestOK(q) /\ q \in Request /\ TimelyOK(q, meta, storedAt, now)
        /\ now \in Nat
    BY ConstantTypes DEF IInv, RequestsOK, RequestOK, CacheOK
  <1>3. q.shape.kind # "range" /\ q.own = "304" => pc = "done" /\ status # "200"
    BY <1>2 DEF RequestOK, AnswerOK, InOrder, EndPcs
  <1>4. SeenOK(n) /\ ModeOK(n) /\ PinOK(n)
    BY <1>1, <1>2, ConstantTypes DEF RequestOK, SeenOK, ModeOK, PinOK, Revalidating,
       Fetching, EndPcs, InOrder
  <1>5. AnswerOK(n)
    BY <1>1, <1>3 DEF AnswerOK, AnswerPcs, InOrder
  <1>6. ResponseOK(n)
    BY <1>1 DEF ResponseOK, EndPcs, InOrder
  <1>7. TimelyOK(n, meta, storedAt, now)
    BY <1>1, <1>2 DEF TimelyOK, InOrder
  <1> QED
    BY <1>1, <1>4, <1>5, <1>6, <1>7

\* The response leaves the guard where it was.
LEMMA AnsweredOK ==
    ASSUME IInv, NEW r \in Requests, NEW pc, NEW status, NEW body, NEW via,
           InOrder(r, pc, status, body, via),
           req[r].guard => pc = "write" /\ req[r].shape.policy = "cache",
           NEW n, n = Answered(r, pc, status, body, via)
    PROVE  /\ RequestOK(n) /\ TimelyOK(n, meta, storedAt, now)
           /\ n.shape = req[r].shape /\ n.pc = pc /\ n.guard = req[r].guard
  <1>1. /\ n \in Request /\ SeenOK(n) /\ ModeOK(n) /\ PinOK(n) /\ AnswerOK(n)
        /\ ResponseOK(n) /\ TimelyOK(n, meta, storedAt, now)
        /\ n.shape = req[r].shape /\ n.pc = pc /\ n.guard = req[r].guard
    BY AnsweredContent
  <1>2. GuardOK(n)
    BY <1>1 DEF GuardOK, InOrder
  <1> QED
    BY <1>1, <1>2 DEF RequestOK

\* The guard is gone with the response.
LEMMA AnsweredDone ==
    ASSUME IInv, NEW r \in Requests, NEW pc, NEW status, NEW body, NEW via,
           InOrder(r, pc, status, body, via),
           NEW n, n = Answered(r, pc, status, body, via)
    PROVE  /\ RequestOK([n EXCEPT !.guard = FALSE])
           /\ TimelyOK([n EXCEPT !.guard = FALSE], meta, storedAt, now)
           /\ [n EXCEPT !.guard = FALSE].shape = req[r].shape
           /\ [n EXCEPT !.guard = FALSE].pc # "wait"
  <1> DEFINE d == [n EXCEPT !.guard = FALSE]
  <1>1. /\ n \in Request /\ SeenOK(n) /\ ModeOK(n) /\ PinOK(n) /\ AnswerOK(n)
        /\ ResponseOK(n) /\ TimelyOK(n, meta, storedAt, now)
        /\ n.shape = req[r].shape /\ n.pc = pc /\ pc # "wait"
    BY AnsweredContent DEF InOrder
  <1>2. /\ d \in Request /\ ~d.guard
        /\ d.shape = n.shape /\ d.pc = n.pc /\ d.status = n.status /\ d.body = n.body
        /\ d.via = n.via /\ d.own = n.own /\ d.pin = n.pin /\ d.code = n.code
        /\ d.mode = n.mode /\ d.at = n.at /\ d.ver = n.ver /\ d.seen = n.seen
        /\ d.next = n.next
    BY <1>1 DEF Request
  <1> HIDE DEF d
  <1>3. SeenOK(d) /\ ModeOK(d) /\ PinOK(d)
    BY <1>1, <1>2 DEF SeenOK, ModeOK, PinOK, Revalidating, Fetching
  <1>4. AnswerOK(d) /\ ResponseOK(d)
    BY <1>1, <1>2 DEF AnswerOK, ResponseOK
  <1>5. TimelyOK(d, meta, storedAt, now) /\ GuardOK(d)
    BY <1>1, <1>2 DEF TimelyOK, GuardOK
  <1>6. RequestOK(d) /\ d.shape = req[r].shape /\ d.pc # "wait"
    BY <1>1, <1>2, <1>3, <1>4, <1>5 DEF RequestOK
  <1> QED
    BY <1>5, <1>6 DEF d

-----------------------------------------------------------------------------
(* Every step keeps the invariant                                          *)

LEMMA Here ==
    ASSUME IInv, NEW r \in Requests
    PROVE  /\ CacheOK /\ RequestOK(req[r]) /\ req[r] \in Request
           /\ TimelyOK(req[r], meta, storedAt, now)
           /\ now \in Nat /\ req[r].shape \in Shape /\ faults \in 0..MaxFaults
           /\ Cached \in Metadata /\ Known(Cached)
  BY CachedOK, ConstantTypes DEF IInv, RequestsOK, RequestOK, CacheOK, Request

LEMMA BeginKeeps ==
    ASSUME IInv, NEW r \in Requests, BeginRequest(r) PROVE IInv'
  <1> DEFINE q == req[r]
             s == q.shape
             c == IF s.kind = "range" THEN meta.ver ELSE NoVersion
             n == [q EXCEPT !.pc = "lookup", !.mode = ModeOf(s), !.pin = PinOf(s), !.cur = c]
  <1>0. q.pc = "idle" /\ Moves(r, n) /\ s.policy = "cache"
    BY DEF BeginRequest
  <1>1. CacheOK' /\ TimeStep
    <2>1. /\ UNCHANGED <<now, origin, storedAt, meta, ram, refresh, faults>>
          /\ mcache' \in Metadata /\ Known(mcache')
      BY Here, CachedOK DEF BeginRequest, world, CacheOK
    <2> QED
      BY <2>1, Here, CacheKept DEF CacheOK
  <1>2. /\ ModeOf(s) \in {"plain", "modeB", "forward"} /\ PinOf(s) \in Etags
        /\ s.inm # NoVersion => ModeOf(s) = "forward"
        /\ PinOf(s) # NoVersion => s.im = NoVersion /\ s.inm = NoVersion
        /\ c \in Etags
    <2>1. s \in Shape /\ Cached.ver \in Etags /\ meta.ver \in Etags /\ NoVersion \in Etags
      BY Here, ConstantTypes DEF Metadata, CacheOK
    <2> QED
      BY <2>1 DEF ModeOf, PinOf, Conditional, PureIfMatch, PureIfRange
  <1> HIDE DEF c
  <1>h. q \in Request /\ RequestOK(q) /\ TimelyOK(q, meta, storedAt, now) /\ now \in Nat
    BY Here
  <1> HIDE DEF q
  <1>n1. n \in Request
    BY <1>0, <1>2, <1>h DEF Request, Pcs, Codes
  <1>n2. /\ n.shape = q.shape /\ n.pc = "lookup" /\ n.mode = ModeOf(s)
         /\ n.pin = PinOf(s) /\ n.seen = q.seen /\ n.at = q.at /\ n.guard = q.guard
         /\ n.rx = q.rx /\ n.next = q.next /\ n.code = q.code /\ n.ver = q.ver
         /\ n.own = q.own /\ n.status = q.status /\ n.body = q.body /\ n.via = q.via
    BY <1>h DEF Request
  <1> HIDE DEF n
  <1>n3. SeenOK(n)
    BY <1>0, <1>2, <1>h, <1>n2, ConstantTypes DEF RequestOK, SeenOK, ModeOK, Fetching, EndPcs
  <1>n4. ModeOK(n) /\ PinOK(n)
    BY <1>0, <1>2, <1>h, <1>n2 DEF RequestOK, ModeOK, PinOK, Revalidating, EndPcs
  <1>n5. AnswerOK(n)
    BY <1>0, <1>2, <1>h, <1>n2 DEF RequestOK, AnswerOK, ResponseOK, AnswerPcs, EndPcs
  <1>n6. ResponseOK(n) /\ GuardOK(n)
    BY <1>0, <1>2, <1>h, <1>n2 DEF RequestOK, ResponseOK, GuardOK, EndPcs
  <1>n7. TimelyOK(n, meta, storedAt, now)
    BY <1>0, <1>2, <1>h, <1>n2 DEF TimelyOK, RequestOK, ResponseOK, EndPcs
  <1>n8. RequestOK(n)
    BY <1>n1, <1>n3, <1>n4, <1>n5, <1>n6 DEF RequestOK
  <1> QED
    BY <1>0, <1>1, <1>2, <1>n2, <1>n7, <1>n8, Moved DEF q

LEMMA BypassKeeps ==
    ASSUME IInv, NEW r \in Requests, BypassCache(r) PROVE IInv'
  <1> DEFINE q == req[r]
             n == [q EXCEPT !.pc = "forward"]
  <1>0. q.pc = "idle" /\ Moves(r, n) /\ q.shape.policy # "cache"
    BY DEF BypassCache
  <1>1. CacheOK' /\ TimeStep
    BY Here, Invalidated, CacheUnchanged DEF BypassCache, world
  <1>h. q \in Request /\ RequestOK(q) /\ TimelyOK(q, meta, storedAt, now) /\ now \in Nat
    BY Here
  <1> HIDE DEF q
  <1>n1. n \in Request
    BY <1>0, <1>h DEF Request, Pcs, Codes
  <1>n2. /\ n.shape = q.shape /\ n.pc = "forward" /\ n.mode = q.mode /\ n.pin = q.pin
         /\ n.seen = q.seen /\ n.at = q.at /\ n.guard = q.guard /\ n.rx = q.rx
         /\ n.next = q.next /\ n.code = q.code /\ n.ver = q.ver /\ n.own = q.own
         /\ n.status = q.status /\ n.body = q.body /\ n.via = q.via
    BY <1>h DEF Request
  <1> HIDE DEF n
  <1>n3. SeenOK(n)
    BY <1>0, <1>h, <1>n2, ConstantTypes DEF RequestOK, SeenOK, ModeOK, Fetching, EndPcs
  <1>n4. ModeOK(n) /\ PinOK(n)
    BY <1>0, <1>h, <1>n2 DEF RequestOK, ModeOK, PinOK, Revalidating, EndPcs
  <1>n5. AnswerOK(n)
    BY <1>0, <1>h, <1>n2 DEF RequestOK, AnswerOK, ResponseOK, AnswerPcs, EndPcs
  <1>n6. ResponseOK(n) /\ GuardOK(n)
    BY <1>0, <1>h, <1>n2 DEF RequestOK, ResponseOK, GuardOK, EndPcs
  <1>n7. TimelyOK(n, meta, storedAt, now)
    BY <1>0, <1>h, <1>n2 DEF TimelyOK, RequestOK, ResponseOK, EndPcs
  <1>n8. RequestOK(n)
    BY <1>n1, <1>n3, <1>n4, <1>n5, <1>n6 DEF RequestOK
  <1> QED
    BY <1>0, <1>1, <1>n2, <1>n7, <1>n8, Moved DEF q

LEMMA LookupFullKeeps ==
    ASSUME IInv, NEW r \in Requests, LookupFull(r) PROVE IInv'
  <1> DEFINE q == req[r]
             local == Covers(Cached) /\ q.mode # "forward"
             direct == local /\ q.mode = "modeB"
             pc == IF direct THEN "serve" ELSE IF local THEN "verdict" ELSE "coord"
             se == IF local THEN Cached ELSE NoMetadata
             n == [q EXCEPT !.pc = pc, !.seen = se]
  <1>0. q.pc = "lookup" /\ Moves(r, n) /\ q.shape.kind = "get"
    BY DEF LookupFull, Key
  <1>1. CacheOK' /\ TimeStep
    <2>1. /\ UNCHANGED <<now, origin, storedAt, meta, ram, faults>>
          /\ mcache' \in Metadata /\ Known(mcache') /\ refresh' \in BOOLEAN
      BY Here, CachedOK DEF LookupFull, world, CacheOK
    <2> QED
      BY <2>1, Here, CacheKept DEF CacheOK
  <1>2. /\ pc \in {"serve", "verdict", "coord"} /\ se \in Metadata /\ Known(se)
        /\ pc = "serve" => Covers(se) /\ q.mode = "modeB"
        /\ pc = "verdict" => q.mode # "forward"
        /\ pc = "coord" => se = NoMetadata
    BY Here, ConstantTypes
  <1> HIDE DEF pc, se
  <1>h. q \in Request /\ RequestOK(q) /\ TimelyOK(q, meta, storedAt, now) /\ now \in Nat
    BY Here
  <1> HIDE DEF q
  <1>n1. n \in Request
    BY <1>0, <1>2, <1>h DEF Request, Pcs, Codes
  <1>n2. /\ n.shape = q.shape /\ n.pc = pc /\ n.mode = q.mode /\ n.pin = q.pin
         /\ n.seen = se /\ n.at = q.at /\ n.guard = q.guard /\ n.rx = q.rx
         /\ n.next = q.next /\ n.code = q.code /\ n.ver = q.ver /\ n.own = q.own
         /\ n.status = q.status /\ n.body = q.body /\ n.via = q.via
    BY <1>h DEF Request
  <1> HIDE DEF n
  <1>n3. SeenOK(n)
    BY <1>0, <1>2, <1>h, <1>n2, ConstantTypes DEF RequestOK, SeenOK, ModeOK, Fetching, EndPcs
  <1>n4. ModeOK(n) /\ PinOK(n)
    BY <1>0, <1>2, <1>h, <1>n2 DEF RequestOK, ModeOK, PinOK, Revalidating, EndPcs
  <1>n5. AnswerOK(n)
    BY <1>0, <1>2, <1>h, <1>n2 DEF RequestOK, AnswerOK, ResponseOK, AnswerPcs, EndPcs
  <1>n6. ResponseOK(n) /\ GuardOK(n)
    BY <1>0, <1>2, <1>h, <1>n2 DEF RequestOK, ResponseOK, GuardOK, EndPcs
  <1>n7. TimelyOK(n, meta, storedAt, now)
    BY <1>0, <1>2, <1>h, <1>n2 DEF TimelyOK, RequestOK, ResponseOK, EndPcs
  <1>n8. RequestOK(n)
    BY <1>n1, <1>n3, <1>n4, <1>n5, <1>n6 DEF RequestOK
  <1> QED
    BY <1>0, <1>1, <1>2, <1>n2, <1>n7, <1>n8, Moved DEF q


LEMMA LookupRangeKeeps ==
    ASSUME IInv, NEW r \in Requests, LookupRange(r) PROVE IInv'
  <1> DEFINE q == req[r]
             mismatch == /\ q.cur # NoVersion /\ Cached.ver # NoVersion
                         /\ q.cur # Cached.ver
             se == IF mismatch \/ Cached.have = {} THEN NoMetadata ELSE Cached
             pc == IF se = NoMetadata THEN "coord" ELSE "verdict"
             n == [q EXCEPT !.pc = pc, !.seen = se, !.cur = NoVersion]
  <1>0. q.pc = "lookup" /\ Moves(r, n) /\ q.shape.kind = "range"
    BY DEF LookupRange, Key
  <1>1. CacheOK' /\ TimeStep
    <2>1. CASE mismatch
      BY <2>1, Here, Invalidated DEF LookupRange
    <2>2. CASE ~mismatch
      <3>1. /\ UNCHANGED <<now, origin, storedAt, meta, ram, refresh, faults>>
            /\ mcache' \in Metadata /\ Known(mcache')
        BY <2>2, Here, CachedOK DEF LookupRange, world
      <3> QED
        BY <3>1, Here, CacheKept DEF CacheOK
    <2> QED
      BY <2>1, <2>2
  <1>2. /\ pc \in {"verdict", "coord"} /\ se \in Metadata /\ Known(se)
        /\ pc = "coord" => se = NoMetadata
        /\ NoVersion \in Etags
    BY Here, ConstantTypes
  <1>h. q \in Request /\ RequestOK(q) /\ TimelyOK(q, meta, storedAt, now) /\ now \in Nat
    BY Here
  <1> HIDE DEF q
  <1> HIDE DEF pc, se, mismatch
  <1>n1. n \in Request
    BY <1>0, <1>2, <1>h DEF Request, Pcs, Codes
  <1>n2. /\ n.shape = q.shape /\ n.pc = pc /\ n.mode = q.mode /\ n.pin = q.pin
         /\ n.seen = se /\ n.at = q.at /\ n.guard = q.guard /\ n.rx = q.rx
         /\ n.next = q.next /\ n.code = q.code /\ n.ver = q.ver /\ n.own = q.own
         /\ n.status = q.status /\ n.body = q.body /\ n.via = q.via
    BY <1>h DEF Request
  <1> HIDE DEF n
  <1>n3. SeenOK(n)
    BY <1>0, <1>2, <1>h, <1>n2, ConstantTypes DEF RequestOK, SeenOK, ModeOK, Fetching, EndPcs
  <1>n4. ModeOK(n) /\ PinOK(n)
    BY <1>0, <1>2, <1>h, <1>n2 DEF RequestOK, ModeOK, PinOK, Revalidating, EndPcs
  <1>n5. AnswerOK(n)
    BY <1>0, <1>2, <1>h, <1>n2 DEF RequestOK, AnswerOK, ResponseOK, AnswerPcs, EndPcs
  <1>n6. ResponseOK(n) /\ GuardOK(n)
    BY <1>0, <1>2, <1>h, <1>n2 DEF RequestOK, ResponseOK, GuardOK, EndPcs
  <1>n7. TimelyOK(n, meta, storedAt, now)
    BY <1>0, <1>2, <1>h, <1>n2 DEF TimelyOK, RequestOK, ResponseOK, EndPcs
  <1>n8. RequestOK(n)
    BY <1>n1, <1>n3, <1>n4, <1>n5, <1>n6 DEF RequestOK
  <1> QED
    BY <1>0, <1>2, <1>1, <1>n2, <1>n7, <1>n8, Moved DEF q

LEMMA LookupPartKeeps ==
    ASSUME IInv, NEW r \in Requests, LookupPart(r) PROVE IInv'
  <1> DEFINE q == req[r]
             a == Answered(r, "done", "200", {meta.ver}, "cache")
             hit == [a EXCEPT !.at = now]
             n == [q EXCEPT !.pc = "coord"]
  <1>0. q.pc = "lookup" /\ q.shape.kind = "part" /\ UNCHANGED <<world, cache>>
    BY DEF LookupPart, Key
  <1>1. CacheOK' /\ TimeStep
    BY <1>0, Here, CacheUnchanged DEF world
  <1>2. CASE meta.ver # NoVersion /\ Moves(r, hit)
    <2>1. meta.ver \in Versions /\ q.shape.kind = "part" /\ ~q.guard /\ now \in Times
      BY <1>0, <1>2, Here, ConstantTypes DEF CacheOK, Metadata, RequestOK, GuardOK
    <2>2. {meta.ver} \in SUBSET Versions /\ \E v \in Versions : {meta.ver} = {v}
      BY <2>1
    <2>3. /\ RequestOK(a) /\ TimelyOK(a, meta, storedAt, now) /\ a.shape = q.shape
          /\ a.pc = "done" /\ a.guard = q.guard
      <3>1. InOrder(r, "done", "200", {meta.ver}, "cache")
        BY <1>0, <2>1, <2>2 DEF InOrder, Codes, EndPcs
      <3> QED
        BY <2>1, <3>1, AnsweredOK
    <2> HIDE DEF a
    <2>4. /\ hit \in Request /\ hit.shape = a.shape /\ hit.pc = a.pc /\ hit.mode = a.mode
          /\ hit.pin = a.pin /\ hit.seen = a.seen /\ hit.at = now /\ hit.guard = a.guard
          /\ hit.rx = a.rx /\ hit.next = a.next /\ hit.code = a.code /\ hit.ver = a.ver
          /\ hit.own = a.own /\ hit.status = a.status /\ hit.body = a.body
          /\ hit.via = a.via
      BY <2>1, <2>3 DEF RequestOK, Request
    <2> HIDE DEF hit
    <2>5. RequestOK(hit)
      BY <2>3, <2>4 DEF RequestOK, SeenOK, ModeOK, PinOK, AnswerOK, ResponseOK, GuardOK,
         Revalidating, Fetching
    <2>6. TimelyOK(hit, meta, storedAt, now)
      BY <2>1, <2>3, <2>4, Here DEF TimelyOK
    <2> QED
      BY <1>1, <1>2, <2>3, <2>4, <2>5, <2>6, Moved
  <1>3. CASE Moves(r, n)
    <2>h. q \in Request /\ RequestOK(q) /\ TimelyOK(q, meta, storedAt, now) /\ now \in Nat
      BY Here
    <2> HIDE DEF q
    <2>n1. n \in Request
      BY <1>0, <2>h DEF Request, Pcs, Codes
    <2>n2. /\ n.shape = q.shape /\ n.pc = "coord" /\ n.mode = q.mode /\ n.pin = q.pin
           /\ n.seen = q.seen /\ n.at = q.at /\ n.guard = q.guard /\ n.rx = q.rx
           /\ n.next = q.next /\ n.code = q.code /\ n.ver = q.ver /\ n.own = q.own
           /\ n.status = q.status /\ n.body = q.body /\ n.via = q.via
      BY <2>h DEF Request
    <2> HIDE DEF n
    <2>n3. SeenOK(n)
      BY <1>0, <2>h, <2>n2, ConstantTypes DEF RequestOK, SeenOK, ModeOK, Fetching, EndPcs
    <2>n4. ModeOK(n) /\ PinOK(n)
      BY <1>0, <2>h, <2>n2 DEF RequestOK, ModeOK, PinOK, Revalidating, EndPcs
    <2>n5. AnswerOK(n)
      BY <1>0, <2>h, <2>n2 DEF RequestOK, AnswerOK, ResponseOK, AnswerPcs, EndPcs
    <2>n6. ResponseOK(n) /\ GuardOK(n)
      BY <1>0, <2>h, <2>n2 DEF RequestOK, ResponseOK, GuardOK, EndPcs
    <2>n7. TimelyOK(n, meta, storedAt, now)
      BY <1>0, <2>h, <2>n2 DEF TimelyOK, RequestOK, ResponseOK, EndPcs
    <2>n8. RequestOK(n)
      BY <2>n1, <2>n3, <2>n4, <2>n5, <2>n6 DEF RequestOK
    <2> QED
      BY <1>0, <1>3, <1>1, <2>n2, <2>n7, <2>n8, Moved DEF q
  <1> QED
    BY <1>2, <1>3 DEF LookupPart, StoredFresh

LEMMA VerdictKeeps ==
    ASSUME IInv, NEW r \in Requests, Verdict(r) PROVE IInv'
  <1> DEFINE q == req[r]
             local == Covers(q.seen) /\ q.mode # "forward"
             pc == IF ~LiveFresh(meta) THEN "register" ELSE IF local THEN "serve" ELSE "coord"
             se == IF LiveFresh(meta) /\ q.mode = "forward" THEN NoMetadata ELSE q.seen
             n == [q EXCEPT !.pc = pc, !.seen = se, !.val = meta.ver, !.at = now]
  <1>0. q.pc = "verdict" /\ Moves(r, n) /\ UNCHANGED <<world, cache>>
    BY DEF Verdict
  <1>1. CacheOK' /\ TimeStep
    BY <1>0, Here, CacheUnchanged DEF world
  <1>2. /\ pc \in {"register", "serve", "coord"} /\ se \in Metadata /\ Known(se)
        /\ pc = "serve" => Covers(se) /\ se = q.seen
        /\ pc = "coord" /\ q.mode = "forward" => se = NoMetadata
        /\ meta.ver \in Etags /\ now \in Times
    BY Here, ConstantTypes DEF CacheOK, Metadata, Request, RequestOK, SeenOK
  <1>3. pc = "serve" /\ meta.ver \in Versions => now <= storedAt[meta.ver] + TTL
    <2> SUFFICES ASSUME LiveFresh(meta), meta.ver \in Versions
                 PROVE  now <= storedAt[meta.ver] + TTL
      OBVIOUS
    <2>1. /\ now \in Nat /\ meta.created \in Nat /\ storedAt[meta.ver] \in Nat
          /\ TTL \in Nat /\ meta.created <= storedAt[meta.ver]
      BY Here, ConstantTypes DEF CacheOK, Metadata
    <2> QED
      BY <2>1 DEF LiveFresh
  <1>h. q \in Request /\ RequestOK(q) /\ TimelyOK(q, meta, storedAt, now) /\ now \in Nat
    BY Here
  <1> HIDE DEF q
  <1> HIDE DEF pc, se, local
  <1>n1. n \in Request
    BY <1>0, <1>2, <1>3, <1>h DEF Request, Pcs, Codes
  <1>n2. /\ n.shape = q.shape /\ n.pc = pc /\ n.mode = q.mode /\ n.pin = q.pin
         /\ n.seen = se /\ n.at = now /\ n.guard = q.guard /\ n.rx = q.rx
         /\ n.next = q.next /\ n.code = q.code /\ n.ver = q.ver /\ n.own = q.own
         /\ n.status = q.status /\ n.body = q.body /\ n.via = q.via
    BY <1>h DEF Request
  <1> HIDE DEF n
  <1>n3. SeenOK(n)
    BY <1>0, <1>2, <1>3, <1>h, <1>n2, ConstantTypes DEF RequestOK, SeenOK, ModeOK, Fetching, EndPcs
  <1>n4. ModeOK(n) /\ PinOK(n)
    BY <1>0, <1>2, <1>3, <1>h, <1>n2 DEF RequestOK, ModeOK, PinOK, Revalidating, EndPcs
  <1>n5. AnswerOK(n)
    BY <1>0, <1>2, <1>3, <1>h, <1>n2 DEF RequestOK, AnswerOK, ResponseOK, AnswerPcs, EndPcs
  <1>n6. ResponseOK(n) /\ GuardOK(n)
    BY <1>0, <1>2, <1>3, <1>h, <1>n2 DEF RequestOK, ResponseOK, GuardOK, EndPcs
  <1>n7. TimelyOK(n, meta, storedAt, now)
    BY <1>0, <1>2, <1>3, <1>h, <1>n2 DEF TimelyOK, RequestOK, ResponseOK, EndPcs
  <1>n8. RequestOK(n)
    BY <1>n1, <1>n3, <1>n4, <1>n5, <1>n6 DEF RequestOK
  <1> QED
    BY <1>0, <1>2, <1>1, <1>n2, <1>n7, <1>n8, Moved DEF q

LEMMA FetcherOK ==
    ASSUME IInv, NEW r \in Requests, NEW at, NEW work,
           \/ at = "register" /\ work = "validate"
           \/ at = "coord" /\ work = "forward",
           req[r].pc = at
    PROVE  LET n == [req[r] EXCEPT !.pc = work, !.guard = TRUE] IN
           RequestOK(n) /\ TimelyOK(n, meta, storedAt, now)
  <1> DEFINE q == req[r]
             n == [q EXCEPT !.pc = work, !.guard = TRUE]
  <1>0. q.pc = at /\ at \in {"register", "coord"} /\ work \in {"validate", "forward"}
        /\ (work = "validate" <=> at = "register") /\ q.shape.policy = "cache" /\ ~q.guard
    BY Here DEF RequestOK, ModeOK, GuardOK, EndPcs
  <1>h. q \in Request /\ RequestOK(q) /\ TimelyOK(q, meta, storedAt, now) /\ now \in Nat
    BY Here
  <1> HIDE DEF q
  <1>n1. n \in Request
    BY <1>0, <1>h DEF Request, Pcs, Codes
  <1>n2. /\ n.shape = q.shape /\ n.pc = work /\ n.mode = q.mode /\ n.pin = q.pin
         /\ n.seen = q.seen /\ n.at = q.at /\ n.guard = TRUE /\ n.rx = q.rx
         /\ n.next = q.next /\ n.code = q.code /\ n.ver = q.ver /\ n.own = q.own
         /\ n.status = q.status /\ n.body = q.body /\ n.via = q.via
    BY <1>h DEF Request
  <1> HIDE DEF n
  <1>n3. SeenOK(n)
    BY <1>0, <1>h, <1>n2, ConstantTypes DEF RequestOK, SeenOK, ModeOK, Fetching, EndPcs
  <1>n4. ModeOK(n) /\ PinOK(n)
    BY <1>0, <1>h, <1>n2 DEF RequestOK, ModeOK, PinOK, Revalidating, EndPcs
  <1>n5. AnswerOK(n)
    BY <1>0, <1>h, <1>n2 DEF RequestOK, AnswerOK, ResponseOK, AnswerPcs, EndPcs
  <1>n6. ResponseOK(n) /\ GuardOK(n)
    BY <1>0, <1>h, <1>n2 DEF RequestOK, ResponseOK, GuardOK, EndPcs
  <1>n7. TimelyOK(n, meta, storedAt, now)
    BY <1>0, <1>h, <1>n2 DEF TimelyOK, RequestOK, ResponseOK, EndPcs
  <1>n8. RequestOK(n)
    BY <1>n1, <1>n3, <1>n4, <1>n5, <1>n6 DEF RequestOK
  <1> QED
    BY <1>n7, <1>n8 DEF n, q

LEMMA WaiterOK ==
    ASSUME IInv, NEW r \in Requests, NEW at, NEW work,
           \/ at = "register" /\ work = "validate"
           \/ at = "coord" /\ work = "forward",
           req[r].pc = at, flight[Key(r)] \in Requests
    PROVE  LET n == [req[r] EXCEPT !.pc = "wait", !.rx = flight[Key(r)], !.next = work] IN
           RequestOK(n) /\ TimelyOK(n, meta, storedAt, now)
  <1> DEFINE q == req[r]
             n == [q EXCEPT !.pc = "wait", !.rx = flight[Key(r)], !.next = work]
  <1>0. q.pc = at /\ at \in {"register", "coord"} /\ work \in {"validate", "forward"}
        /\ (work = "validate" <=> at = "register") /\ q.shape.policy = "cache" /\ ~q.guard
    BY Here DEF RequestOK, ModeOK, GuardOK, EndPcs
  <1>h. q \in Request /\ RequestOK(q) /\ TimelyOK(q, meta, storedAt, now) /\ now \in Nat
    BY Here
  <1> HIDE DEF q
  <1>n1. n \in Request
    BY <1>0, <1>h DEF Request, Pcs, Codes
  <1>n2. /\ n.shape = q.shape /\ n.pc = "wait" /\ n.mode = q.mode /\ n.pin = q.pin
         /\ n.seen = q.seen /\ n.at = q.at /\ n.guard = q.guard
         /\ n.rx = flight[Key(r)] /\ n.next = work /\ n.code = q.code /\ n.ver = q.ver
         /\ n.own = q.own /\ n.status = q.status /\ n.body = q.body /\ n.via = q.via
    BY <1>h DEF Request
  <1> HIDE DEF n
  <1>n3. SeenOK(n)
    BY <1>0, <1>h, <1>n2, ConstantTypes DEF RequestOK, SeenOK, ModeOK, Fetching, EndPcs
  <1>n4. ModeOK(n) /\ PinOK(n)
    BY <1>0, <1>h, <1>n2 DEF RequestOK, ModeOK, PinOK, Revalidating, EndPcs
  <1>n5. AnswerOK(n)
    BY <1>0, <1>h, <1>n2 DEF RequestOK, AnswerOK, ResponseOK, AnswerPcs, EndPcs
  <1>n6. ResponseOK(n) /\ GuardOK(n)
    BY <1>0, <1>h, <1>n2 DEF RequestOK, ResponseOK, GuardOK, EndPcs
  <1>n7. TimelyOK(n, meta, storedAt, now)
    BY <1>0, <1>h, <1>n2 DEF TimelyOK, RequestOK, ResponseOK, EndPcs
  <1>n8. RequestOK(n)
    BY <1>n1, <1>n3, <1>n4, <1>n5, <1>n6 DEF RequestOK
  <1> QED
    BY <1>n7, <1>n8 DEF n, q

LEMMA JoinKeeps ==
    ASSUME IInv, NEW r \in Requests, RegisterValidation(r) \/ RegisterFetch(r) PROVE IInv'
  <1>1. PICK at, work : /\ Join(r, at, work)
                        /\ \/ at = "register" /\ work = "validate"
                           \/ at = "coord" /\ work = "forward"
    BY DEF RegisterValidation, RegisterFetch
  <1>2. req[r].pc = at /\ UNCHANGED <<world, cache>> /\ ~req[r].guard
    BY <1>1, Here DEF Join, RequestOK, GuardOK
  <1>3. CacheOK' /\ TimeStep
    BY <1>2, Here, CacheUnchanged DEF world
  <1> DEFINE f == [req[r] EXCEPT !.pc = work, !.guard = TRUE]
             w == [req[r] EXCEPT !.pc = "wait", !.rx = flight[Key(r)], !.next = work]
  <1>4. RequestOK(f) /\ TimelyOK(f, meta, storedAt, now)
    BY <1>1, <1>2, FetcherOK
  <1>5. flight[Key(r)] # NoOne => flight[Key(r)] \in Requests
    BY Here, ShapesAssumption DEF IInv, FlightsOK, Key, Shape
  <1>6. flight[Key(r)] # NoOne => RequestOK(w) /\ TimelyOK(w, meta, storedAt, now)
    BY <1>1, <1>2, <1>5, WaiterOK
  <1> HIDE DEF f, w
  <1>7. work # "wait"
    BY <1>1
  <1> QED
    BY <1>1, <1>2, <1>3, <1>4, <1>6, <1>7, Joined DEF f, w

LEMMA WaitTimeoutKeeps ==
    ASSUME IInv, NEW r \in Requests, WaitTimeout(r) PROVE IInv'
  <1> DEFINE q == req[r]
  <1>0. q.pc = "wait" /\ UNCHANGED cache /\ Spend(TRUE)
    BY DEF WaitTimeout
  <1>1. CacheOK' /\ TimeStep
    BY <1>0, Here, SpendOK, CacheUnchanged
  <1>h. q \in Request /\ RequestOK(q) /\ TimelyOK(q, meta, storedAt, now) /\ now \in Nat
    BY Here
  <1> HIDE DEF q
  <1>2. CASE q.next = "validate" /\ Moves(r, [q EXCEPT !.pc = "validate", !.rx = NoOne])
    <2> DEFINE n == [q EXCEPT !.pc = "validate", !.rx = NoOne]
    <2>n1. n \in Request
      BY <1>0, <1>h DEF Request, Pcs, Codes
    <2>n2. /\ n.shape = q.shape /\ n.pc = "validate" /\ n.mode = q.mode /\ n.pin = q.pin
           /\ n.seen = q.seen /\ n.at = q.at /\ n.guard = q.guard /\ n.rx = NoOne
           /\ n.next = q.next /\ n.code = q.code /\ n.ver = q.ver /\ n.own = q.own
           /\ n.status = q.status /\ n.body = q.body /\ n.via = q.via
      BY <1>h DEF Request
    <2> HIDE DEF n
    <2>n3. SeenOK(n)
      BY <1>0, <1>2, <1>h, <2>n2, ConstantTypes DEF RequestOK, SeenOK, ModeOK, Fetching, EndPcs
    <2>n4. ModeOK(n) /\ PinOK(n)
      BY <1>0, <1>2, <1>h, <2>n2 DEF RequestOK, ModeOK, PinOK, Revalidating, EndPcs
    <2>n5. AnswerOK(n)
      BY <1>0, <1>2, <1>h, <2>n2 DEF RequestOK, AnswerOK, ResponseOK, AnswerPcs, EndPcs
    <2>n6. ResponseOK(n) /\ GuardOK(n)
      BY <1>0, <1>2, <1>h, <2>n2 DEF RequestOK, ResponseOK, GuardOK, EndPcs
    <2>n7. TimelyOK(n, meta, storedAt, now)
      BY <1>0, <1>2, <1>h, <2>n2 DEF TimelyOK, RequestOK, ResponseOK, EndPcs
    <2>n8. RequestOK(n)
      BY <2>n1, <2>n3, <2>n4, <2>n5, <2>n6 DEF RequestOK
    <2> QED
      BY <1>1, <1>2, <2>n2, <2>n7, <2>n8, Moved DEF q, n
  <1>3. CASE Moves(r, Answered(r, "done", "504", {}, "none"))
    <2> DEFINE n == Answered(r, "done", "504", {}, "none")
    <2>1. InOrder(r, "done", "504", {}, "none") /\ ~q.guard
      BY <1>0, <1>h DEF InOrder, Codes, EndPcs, q, RequestOK, GuardOK
    <2>2. /\ RequestOK(n) /\ TimelyOK(n, meta, storedAt, now)
          /\ n.shape = req[r].shape /\ n.pc = "done" /\ n.guard = req[r].guard
      BY <2>1, AnsweredOK DEF q
    <2> QED
      BY <1>1, <1>3, <2>2, Moved
  <1>4. CASE q.resubs # MaxResubscriptions /\ Moves(r, [q EXCEPT !.resubs = @ + 1])
    <2> DEFINE n == [q EXCEPT !.resubs = @ + 1]
    <2>1. q.resubs + 1 \in 0..MaxResubscriptions
      BY <1>4, <1>h, BoundsAssumption DEF Request
    <2>n1. n \in Request
      BY <2>1, <1>0, <1>h DEF Request, Pcs, Codes
    <2>n2. /\ n.shape = q.shape /\ n.pc = q.pc /\ n.mode = q.mode /\ n.pin = q.pin
           /\ n.seen = q.seen /\ n.at = q.at /\ n.guard = q.guard /\ n.rx = q.rx
           /\ n.next = q.next /\ n.code = q.code /\ n.ver = q.ver /\ n.own = q.own
           /\ n.status = q.status /\ n.body = q.body /\ n.via = q.via
      BY <1>h DEF Request
    <2> HIDE DEF n
    <2>n3. SeenOK(n)
      BY <2>1, <1>0, <1>h, <2>n2, ConstantTypes DEF RequestOK, SeenOK, ModeOK, Fetching, EndPcs
    <2>n4. ModeOK(n) /\ PinOK(n)
      BY <2>1, <1>0, <1>h, <2>n2 DEF RequestOK, ModeOK, PinOK, Revalidating, EndPcs
    <2>n5. AnswerOK(n)
      BY <2>1, <1>0, <1>h, <2>n2 DEF RequestOK, AnswerOK, ResponseOK, AnswerPcs, EndPcs
    <2>n6. ResponseOK(n) /\ GuardOK(n)
      BY <2>1, <1>0, <1>h, <2>n2 DEF RequestOK, ResponseOK, GuardOK, EndPcs
    <2>n7. TimelyOK(n, meta, storedAt, now)
      BY <2>1, <1>0, <1>h, <2>n2 DEF TimelyOK, RequestOK, ResponseOK, EndPcs
    <2>n8. RequestOK(n)
      BY <2>n1, <2>n3, <2>n4, <2>n5, <2>n6 DEF RequestOK
    <2> QED
      BY <1>0, <1>1, <1>4, <2>n2, <2>n7, <2>n8, Moved DEF q, n
  <1> QED
    BY <1>2, <1>3, <1>4 DEF WaitTimeout, q

\* What S3's answer says of the headers that travelled.
LEMMA AnswersOK ==
    ASSUME CacheOK, NEW im \in Etags, NEW inm \in Etags, NEW code \in Answers(im, inm)
    PROVE  /\ code \in {"200", "304", "412", "403", "5xx"}
           /\ code \in {"200", "304"} /\ im # NoVersion => origin = im
           /\ code = "304" => inm # NoVersion
           /\ origin \in Versions /\ origin \in Etags /\ code \in Codes
  BY ConstantTypes DEF Answers, Evaluate, CacheOK, Codes

LEMMA ValidateKeeps ==
    ASSUME IInv, NEW r \in Requests, Validate(r) PROVE IInv'
  <1> DEFINE q == req[r]
             im == SentIfMatch(r)
             inm == Validator(r)
  <1>0. q.pc = "validate" /\ UNCHANGED cache /\ AskS3(r, inm, "validated")
    BY DEF Validate
  <1>h. q \in Request /\ RequestOK(q) /\ TimelyOK(q, meta, storedAt, now) /\ now \in Nat
    BY Here
  <1> HIDE DEF q
  <1>2. im \in Etags /\ inm \in Etags /\ (q.shape.im # NoVersion => im = q.shape.im)
    BY <1>h, Here DEF q, SentIfMatch, Validator, Request, Shape, RequestOK, PinOK
  <1>3. PICK code \in Answers(im, inm) :
          /\ Spend(code \in {"5xx", "403"})
          /\ Moves(r, [q EXCEPT !.pc = "validated", !.code = code, !.ver = origin,
               !.own = IF ChangesHeaders(r, inm) \/ code = "5xx" THEN @ ELSE code])
    BY <1>0 DEF AskS3, q
  <1>1. CacheOK' /\ TimeStep
    BY <1>0, <1>3, Here, SpendOK, CacheUnchanged
  <1> DEFINE own == IF ChangesHeaders(r, inm) \/ code = "5xx" THEN q.own ELSE code
             n == [q EXCEPT !.pc = "validated", !.code = code, !.ver = origin, !.own = own]
  <1>4. /\ code \in {"200", "304", "412", "403", "5xx"} /\ code \in Codes
        /\ code \in {"200", "304"} /\ q.shape.im # NoVersion => origin = q.shape.im
        /\ code = "304" => inm # NoVersion
        /\ origin \in Versions /\ origin \in Etags
    BY <1>2, Here, AnswersOK
  <1>5. own \in Codes /\ (q.shape.kind # "range" => own # "304")
    <2>1. own \in Codes
      BY <1>4, <1>h DEF Request
    <2>2. q.own = "304" => q.shape.kind = "range"
      BY <1>0, <1>h DEF RequestOK, AnswerOK
    <2>3. ASSUME code = "304", ~ChangesHeaders(r, inm), q.shape.kind # "range"
          PROVE  FALSE
      <3>1. q.shape.inm = inm /\ inm # NoVersion
        BY <1>4, <2>3 DEF ChangesHeaders, q
      <3>2. q.mode = "forward" /\ q.shape.kind \in {"get", "part"}
        BY <1>0, <1>h, <2>3, <3>1, Here DEF RequestOK, ModeOK, EndPcs, Shape, Kinds, q
      <3> QED
        BY <1>0, <1>h, <3>2 DEF RequestOK, ModeOK, Revalidating
    <2> QED
      BY <2>1, <2>2, <2>3
  <1> HIDE DEF own, im, inm
  <1>n1. n \in Request
    BY <1>0, <1>4, <1>5, <1>h DEF Request, Pcs, Codes
  <1>n2. /\ n.shape = q.shape /\ n.pc = "validated" /\ n.mode = q.mode
         /\ n.pin = q.pin /\ n.seen = q.seen /\ n.at = q.at /\ n.guard = q.guard
         /\ n.rx = q.rx /\ n.next = q.next /\ n.code = code /\ n.ver = origin
         /\ n.own = own /\ n.status = q.status /\ n.body = q.body /\ n.via = q.via
    BY <1>h DEF Request
  <1> HIDE DEF n
  <1>n3. SeenOK(n)
    BY <1>0, <1>4, <1>5, <1>h, <1>n2, ConstantTypes DEF RequestOK, SeenOK, ModeOK, Fetching, EndPcs
  <1>n4. ModeOK(n) /\ PinOK(n)
    BY <1>0, <1>4, <1>5, <1>h, <1>n2 DEF RequestOK, ModeOK, PinOK, Revalidating, EndPcs
  <1>n5. AnswerOK(n)
    BY <1>0, <1>4, <1>5, <1>h, <1>n2 DEF RequestOK, AnswerOK, ResponseOK, AnswerPcs, EndPcs
  <1>n6. ResponseOK(n) /\ GuardOK(n)
    BY <1>0, <1>4, <1>5, <1>h, <1>n2 DEF RequestOK, ResponseOK, GuardOK, EndPcs
  <1>n7. TimelyOK(n, meta, storedAt, now)
    BY <1>0, <1>4, <1>5, <1>h, <1>n2 DEF TimelyOK, RequestOK, ResponseOK, EndPcs
  <1>n8. RequestOK(n)
    BY <1>n1, <1>n3, <1>n4, <1>n5, <1>n6 DEF RequestOK
  <1>6. Moves(r, n)
    BY <1>3 DEF n, own
  <1> QED
    BY <1>6, <1>1, <1>n2, <1>n7, <1>n8, Moved DEF q

LEMMA ValidatedUnchangedKeeps ==
    ASSUME IInv, NEW r \in Requests, ValidatedUnchanged(r) PROVE IInv'
  <1> DEFINE q == req[r]
             pc == IF Covers(q.seen) THEN "serve" ELSE "forward"
             after == [q EXCEPT !.via = "validated", !.pc = pc]
             n == [after EXCEPT !.guard = FALSE]
  <1>0. q.pc = "validated" /\ q.code = "304" /\ Complete(r, TRUE, after)
    BY DEF ValidatedUnchanged
  <1>1. CacheOK' /\ TimeStep
    BY Here, CacheKept DEF CacheOK, ValidatedUnchanged, world
  <1>h. q \in Request /\ RequestOK(q) /\ TimelyOK(q, meta, storedAt, now) /\ now \in Nat
    BY Here
  <1> HIDE DEF q
  <1>2. pc \in {"serve", "forward"} /\ (pc = "serve" => Covers(q.seen))
    OBVIOUS
  <1> HIDE DEF pc
  <1>3. after \in Request
    BY <1>2, <1>h DEF Request, Pcs
  <1>n1. n \in Request
    <2> HIDE DEF after
    <2> QED
      BY <1>3 DEF Request
  <1>n2. /\ n.shape = q.shape /\ n.pc = pc /\ n.mode = q.mode /\ n.pin = q.pin
         /\ n.seen = q.seen /\ n.at = q.at /\ n.guard = FALSE /\ n.rx = q.rx
         /\ n.next = q.next /\ n.code = q.code /\ n.ver = q.ver /\ n.own = q.own
         /\ n.status = q.status /\ n.body = q.body /\ n.via = "validated"
    BY <1>h DEF Request
  <1> HIDE DEF n
  <1>n3. SeenOK(n)
    BY <1>0, <1>2, <1>3, <1>h, <1>n2, ConstantTypes DEF RequestOK, SeenOK, ModeOK, Fetching, EndPcs
  <1>n4. ModeOK(n) /\ PinOK(n)
    BY <1>0, <1>2, <1>3, <1>h, <1>n2 DEF RequestOK, ModeOK, PinOK, Revalidating, EndPcs
  <1>n5. AnswerOK(n)
    BY <1>0, <1>2, <1>3, <1>h, <1>n2 DEF RequestOK, AnswerOK, ResponseOK, AnswerPcs, EndPcs
  <1>n6. ResponseOK(n) /\ GuardOK(n)
    BY <1>0, <1>2, <1>3, <1>h, <1>n2 DEF RequestOK, ResponseOK, GuardOK, EndPcs
  <1>n7. TimelyOK(n, meta, storedAt, now)
    BY <1>0, <1>2, <1>3, <1>h, <1>n2 DEF TimelyOK, RequestOK, ResponseOK, EndPcs
  <1>n8. RequestOK(n)
    BY <1>n1, <1>n3, <1>n4, <1>n5, <1>n6 DEF RequestOK
  <1> QED
    BY <1>0, <1>1, <1>2, <1>3, <1>n2, <1>n7, <1>n8, Completed DEF q, n

LEMMA ValidatedFailedKeeps ==
    ASSUME IInv, NEW r \in Requests, ValidatedFailed(r) PROVE IInv'
  <1> DEFINE q == req[r]
             after == [q EXCEPT !.pc = "coord", !.seen = NoMetadata, !.val = NoVersion,
                                !.code = "none", !.ver = NoVersion]
             n == [after EXCEPT !.guard = FALSE]
  <1>0. q.pc = "validated" /\ Complete(r, FALSE, after)
    BY DEF ValidatedFailed
  <1>1. CacheOK' /\ TimeStep
    <2>1. /\ UNCHANGED <<now, origin, storedAt, ram, refresh, faults, mcache>>
          /\ \E p : meta' = [meta EXCEPT !.have = @ \ {p}]
      BY DEF ValidatedFailed, world
    <2>2. PICK p : meta' = [meta EXCEPT !.have = @ \ {p}]
      BY <2>1
    <2>3. /\ meta' \in Metadata /\ Known(meta') /\ meta'.ver = meta.ver
          /\ meta'.created = meta.created
      BY <2>2, Here, DroppedOK
    <2> QED
      BY <2>1, <2>3, Here, CacheKept DEF CacheOK
  <1>h. q \in Request /\ RequestOK(q) /\ TimelyOK(q, meta, storedAt, now) /\ now \in Nat
    BY Here
  <1> HIDE DEF q
  <1>2. NoMetadata \in Metadata /\ NoVersion \in Etags
    BY ConstantTypes
  <1>n1. n \in Request
    BY <1>0, <1>2, <1>h DEF Request, Pcs, Codes
  <1>n2. /\ n.shape = q.shape /\ n.pc = "coord" /\ n.mode = q.mode /\ n.pin = q.pin
         /\ n.seen = NoMetadata /\ n.at = q.at /\ n.guard = FALSE /\ n.rx = q.rx
         /\ n.next = q.next /\ n.code = "none" /\ n.ver = NoVersion /\ n.own = q.own
         /\ n.status = q.status /\ n.body = q.body /\ n.via = q.via
    BY <1>h DEF Request
  <1> HIDE DEF n
  <1>n3. SeenOK(n)
    BY <1>0, <1>2, <1>h, <1>n2, ConstantTypes DEF RequestOK, SeenOK, ModeOK, Fetching, EndPcs
  <1>n4. ModeOK(n) /\ PinOK(n)
    BY <1>0, <1>2, <1>h, <1>n2 DEF RequestOK, ModeOK, PinOK, Revalidating, EndPcs
  <1>n5. AnswerOK(n)
    BY <1>0, <1>2, <1>h, <1>n2 DEF RequestOK, AnswerOK, ResponseOK, AnswerPcs, EndPcs
  <1>n6. ResponseOK(n) /\ GuardOK(n)
    BY <1>0, <1>2, <1>h, <1>n2 DEF RequestOK, ResponseOK, GuardOK, EndPcs
  <1>n7. TimelyOK(n, meta, storedAt, now)
    BY <1>0, <1>2, <1>h, <1>n2 DEF TimelyOK, RequestOK, ResponseOK, EndPcs
  <1>n8. RequestOK(n)
    BY <1>n1, <1>n3, <1>n4, <1>n5, <1>n6 DEF RequestOK
  <1> QED
    BY <1>0, <1>1, <1>2, <1>n2, <1>n7, <1>n8, Completed DEF q, n

LEMMA ValidatedChangedKeeps ==
    ASSUME IInv, NEW r \in Requests, ValidatedChanged(r) PROVE IInv'
  <1> DEFINE q == req[r]
             n == Answered(r, "write", "200", {q.ver}, "s3")
  <1>0. q.pc = "validated" /\ q.code = "200" /\ Moves(r, n)
    BY DEF ValidatedChanged
  <1>1. CacheOK' /\ TimeStep
    BY Here, Invalidated DEF ValidatedChanged
  <1>2. /\ q.ver \in Versions /\ (q.shape.im # NoVersion => q.ver = q.shape.im)
        /\ q.shape.policy = "cache"
    BY <1>0, Here DEF RequestOK, AnswerOK, ModeOK, AnswerPcs, EndPcs
  <1>3. InOrder(r, "write", "200", {q.ver}, "s3")
    BY <1>0, <1>2 DEF InOrder, Codes, EndPcs
  <1>4. /\ RequestOK(n) /\ TimelyOK(n, meta, storedAt, now)
        /\ n.shape = req[r].shape /\ n.pc = "write" /\ n.guard = req[r].guard
    BY <1>2, <1>3, AnsweredOK
  <1> QED
    BY <1>0, <1>1, <1>4, Moved

LEMMA ValidatedDeniedKeeps ==
    ASSUME IInv, NEW r \in Requests, ValidatedDenied(r) PROVE IInv'
  <1> DEFINE q == req[r]
             n == Answered(r, "done", q.code, {}, "s3")
  <1>0. /\ q.pc = "validated" /\ q.code = "403" /\ Complete(r, FALSE, n)
        /\ UNCHANGED <<world, cache>>
    BY DEF ValidatedDenied, PassThrough
  <1>1. CacheOK' /\ TimeStep
    BY <1>0, Here, CacheUnchanged DEF world
  <1>2. InOrder(r, "done", q.code, {}, "s3")
    BY <1>0 DEF InOrder, Codes, EndPcs
  <1>3. /\ RequestOK([n EXCEPT !.guard = FALSE])
        /\ TimelyOK([n EXCEPT !.guard = FALSE], meta, storedAt, now)
        /\ [n EXCEPT !.guard = FALSE].shape = req[r].shape
        /\ [n EXCEPT !.guard = FALSE].pc # "wait"
    BY <1>2, AnsweredDone
  <1> HIDE DEF n
  <1> QED
    BY <1>0, <1>1, <1>3, Completed

LEMMA ServeCachedKeeps ==
    ASSUME IInv, NEW r \in Requests, ServeCached(r) PROVE IInv'
  <1> DEFINE q == req[r]
             n == Answered(r, "done", "200", {q.seen.ver}, ServedFrom(r))
  <1>0. /\ q.pc = "serve" /\ Servable(r) /\ Moves(r, n)
        /\ UNCHANGED <<world, meta, mcache, refresh, storedAt>>
        /\ ram' \subseteq ram \cup {q.seen.ver}
    BY DEF ServeCached, ServedVersion
  <1>2. q.seen.ver \in Versions
    BY <1>0, Here, CoveringNamesVersion, ConstantTypes DEF RequestOK, SeenOK, Covers, Request
  <1>1. CacheOK' /\ TimeStep
    BY <1>0, <1>2, Here, CacheKept DEF CacheOK, world
  <1>3. /\ ServedFrom(r) \in {"cache", "validated"}
        /\ ServedFrom(r) = "validated" <=> q.via = "validated"
    BY DEF ServedFrom
  <1>4. q.via = "validated" /\ q.shape.im # NoVersion => q.ver = q.shape.im
    BY <1>0, Here DEF RequestOK, AnswerOK
  <1>5. ASSUME q.via # "validated", q.shape.kind = "get", q.mode # "modeB"
        PROVE  q.at <= storedAt[q.seen.ver] + TTL
    <2>1. meta.ver = q.seen.ver
      BY <1>0, <1>5 DEF Servable, OnDisk, Key
    <2> QED
      BY <1>0, <1>2, <1>5, <2>1, Here DEF TimelyOK
  <1>6. InOrder(r, "done", "200", {q.seen.ver}, ServedFrom(r))
    BY <1>0, <1>2, <1>3, <1>4, <1>5 DEF InOrder, Codes, EndPcs
  <1>7. ~q.guard
    BY <1>0, Here DEF RequestOK, GuardOK
  <1>8. /\ RequestOK(n) /\ TimelyOK(n, meta, storedAt, now)
        /\ n.shape = req[r].shape /\ n.pc = "done" /\ n.guard = req[r].guard
    BY <1>6, <1>7, AnsweredOK
  <1> QED
    BY <1>0, <1>1, <1>8, Moved

LEMMA ServeForwardsKeeps ==
    ASSUME IInv, NEW r \in Requests, ServeForwards(r) PROVE IInv'
  <1> DEFINE q == req[r]
             n == [q EXCEPT !.pc = "forward", !.seen = NoMetadata, !.via = "none"]
  <1>0. q.pc = "serve" /\ Moves(r, n) /\ UNCHANGED <<world, cache>>
    BY DEF ServeForwards
  <1>1. CacheOK' /\ TimeStep
    BY <1>0, Here, CacheUnchanged DEF world
  <1>2. NoMetadata \in Metadata
    BY ConstantTypes
  <1>h. q \in Request /\ RequestOK(q) /\ TimelyOK(q, meta, storedAt, now) /\ now \in Nat
    BY Here
  <1> HIDE DEF q
  <1>n1. n \in Request
    BY <1>0, <1>2, <1>h DEF Request, Pcs, Codes
  <1>n2. /\ n.shape = q.shape /\ n.pc = "forward" /\ n.mode = q.mode /\ n.pin = q.pin
         /\ n.seen = NoMetadata /\ n.at = q.at /\ n.guard = q.guard /\ n.rx = q.rx
         /\ n.next = q.next /\ n.code = q.code /\ n.ver = q.ver /\ n.own = q.own
         /\ n.status = q.status /\ n.body = q.body /\ n.via = "none"
    BY <1>h DEF Request
  <1> HIDE DEF n
  <1>n3. SeenOK(n)
    BY <1>0, <1>2, <1>h, <1>n2, ConstantTypes DEF RequestOK, SeenOK, ModeOK, Fetching, EndPcs
  <1>n4. ModeOK(n) /\ PinOK(n)
    BY <1>0, <1>2, <1>h, <1>n2 DEF RequestOK, ModeOK, PinOK, Revalidating, EndPcs
  <1>n5. AnswerOK(n)
    BY <1>0, <1>2, <1>h, <1>n2 DEF RequestOK, AnswerOK, ResponseOK, AnswerPcs, EndPcs
  <1>n6. ResponseOK(n) /\ GuardOK(n)
    BY <1>0, <1>2, <1>h, <1>n2 DEF RequestOK, ResponseOK, GuardOK, EndPcs
  <1>n7. TimelyOK(n, meta, storedAt, now)
    BY <1>0, <1>2, <1>h, <1>n2 DEF TimelyOK, RequestOK, ResponseOK, EndPcs
  <1>n8. RequestOK(n)
    BY <1>n1, <1>n3, <1>n4, <1>n5, <1>n6 DEF RequestOK
  <1> QED
    BY <1>0, <1>1, <1>n2, <1>n7, <1>n8, Moved DEF q

\* The proxy pins a fetch only if the client sent neither condition.
LEMMA PinnedOK ==
    ASSUME IInv, NEW r \in Requests, Fetching(req[r])
    PROVE  /\ PinnedTo(r) \in Etags
           /\ PinnedTo(r) # NoVersion =>
                req[r].shape.im = NoVersion /\ req[r].shape.inm = NoVersion
  <1> DEFINE q == req[r]
  <1>h. q \in Request /\ RequestOK(q) /\ TimelyOK(q, meta, storedAt, now) /\ now \in Nat
    BY Here
  <1>1. q.pin \in Etags /\ q.seen.ver \in Etags
    BY <1>h DEF Request, Metadata
  <1>2. CASE Merging(r) /\ q.via # "validated" /\ SentIfMatch(r) = NoVersion
    <2>1. q.shape.im = NoVersion /\ q.seen # NoMetadata
      BY <1>2 DEF SentIfMatch, Merging
    <2>2. q.shape.policy = "cache" /\ q.mode # "forward"
      BY <1>2, <1>h, <2>1 DEF RequestOK, SeenOK
    <2>3. q.shape.inm = NoVersion
      BY <1>h, <2>2 DEF RequestOK, ModeOK, Fetching, EndPcs
    <2> QED
      BY <1>1, <1>2, <2>1, <2>3 DEF PinnedTo
  <1>3. CASE ~(Merging(r) /\ q.via # "validated" /\ SentIfMatch(r) = NoVersion)
    BY <1>1, <1>3, <1>h DEF PinnedTo, RequestOK, PinOK
  <1> QED
    BY <1>2, <1>3

LEMMA ForwardKeeps ==
    ASSUME IInv, NEW r \in Requests, Forward(r) PROVE IInv'
  <1> DEFINE q == req[r]
             pin == PinnedTo(r)
             im == IF pin # NoVersion THEN pin ELSE q.shape.im
             inm == q.shape.inm
  <1>0. q.pc = "forward" /\ UNCHANGED cache
    BY DEF Forward
  <1>h. q \in Request /\ RequestOK(q) /\ TimelyOK(q, meta, storedAt, now) /\ now \in Nat
    BY Here
  <1> HIDE DEF q
  <1>2. /\ pin \in Etags /\ im \in Etags /\ inm \in Etags
        /\ q.shape.im # NoVersion => im = q.shape.im
        /\ pin # NoVersion => q.shape.im = NoVersion /\ inm = NoVersion
    BY <1>0, PinnedOK, Here DEF q, Shape, Fetching
  <1>3. PICK code \in Answers(im, inm) :
          /\ Spend(code \in {"5xx", "403"})
          /\ Moves(r, [q EXCEPT !.pc = "forwarded", !.code = code, !.ver = origin, !.pin = pin,
               !.own = IF pin # NoVersion \/ code = "5xx" THEN @ ELSE code])
    BY DEF Forward, q
  <1>1. CacheOK' /\ TimeStep
    BY <1>0, <1>3, Here, SpendOK, CacheUnchanged
  <1> DEFINE own == IF pin # NoVersion \/ code = "5xx" THEN q.own ELSE code
             n == [q EXCEPT !.pc = "forwarded", !.code = code, !.ver = origin, !.pin = pin,
                            !.own = own]
  <1>4. /\ code \in {"200", "304", "412", "403", "5xx"} /\ code \in Codes
        /\ code \in {"200", "304"} /\ q.shape.im # NoVersion => origin = q.shape.im
        /\ code = "304" => inm # NoVersion
        /\ origin \in Versions /\ origin \in Etags
    BY <1>2, Here, AnswersOK
  <1>5. /\ own \in Codes /\ (code = "304" => own = "304" /\ q.shape.inm # NoVersion)
        /\ q.shape.kind # "range" /\ own = "304" => code = "304"
        /\ pin # NoVersion => q.shape.im = NoVersion /\ q.shape.inm = NoVersion
    BY <1>0, <1>2, <1>4, <1>h DEF Request, RequestOK, AnswerOK
  <1>6. Moves(r, n)
    BY <1>3
  <1> HIDE DEF own, im, inm, pin
  <1>n1. n \in Request
    BY <1>0, <1>2, <1>4, <1>5, <1>h DEF Request, Pcs, Codes
  <1>n2. /\ n.shape = q.shape /\ n.pc = "forwarded" /\ n.mode = q.mode /\ n.pin = pin
         /\ n.seen = q.seen /\ n.at = q.at /\ n.guard = q.guard /\ n.rx = q.rx
         /\ n.next = q.next /\ n.code = code /\ n.ver = origin /\ n.own = own
         /\ n.status = q.status /\ n.body = q.body /\ n.via = q.via
    BY <1>h DEF Request
  <1> HIDE DEF n
  <1>n3. SeenOK(n)
    BY <1>0, <1>2, <1>4, <1>5, <1>h, <1>n2, ConstantTypes DEF RequestOK, SeenOK, ModeOK, Fetching, EndPcs
  <1>n4. ModeOK(n) /\ PinOK(n)
    BY <1>0, <1>2, <1>4, <1>5, <1>h, <1>n2 DEF RequestOK, ModeOK, PinOK, Revalidating, EndPcs
  <1>n5. AnswerOK(n)
    BY <1>0, <1>2, <1>4, <1>5, <1>h, <1>n2 DEF RequestOK, AnswerOK, ResponseOK, AnswerPcs, EndPcs
  <1>n6. ResponseOK(n) /\ GuardOK(n)
    BY <1>0, <1>2, <1>4, <1>5, <1>h, <1>n2 DEF RequestOK, ResponseOK, GuardOK, EndPcs
  <1>n7. TimelyOK(n, meta, storedAt, now)
    BY <1>0, <1>2, <1>4, <1>5, <1>h, <1>n2 DEF TimelyOK, RequestOK, ResponseOK, EndPcs
  <1>n8. RequestOK(n)
    BY <1>n1, <1>n3, <1>n4, <1>n5, <1>n6 DEF RequestOK
  <1> QED
    BY <1>6, <1>1, <1>n2, <1>n7, <1>n8, Moved DEF q

LEMMA ForwardedObjectKeeps ==
    ASSUME IInv, NEW r \in Requests, ForwardedObject(r) PROVE IInv'
  <1> DEFINE q == req[r]
             pc == IF MayStore(r) THEN "write" ELSE "done"
             n == Answered(r, pc, "200", {q.ver}, "s3")
  <1>0. /\ q.pc = "forwarded" /\ q.code = "200" /\ UNCHANGED <<world, cache>>
        /\ Complete(r, TRUE, n) \/ Moves(r, n)
    BY DEF ForwardedObject
  <1>1. CacheOK' /\ TimeStep
    BY <1>0, Here, CacheUnchanged DEF world
  <1>2. /\ q.ver \in Versions /\ (q.shape.im # NoVersion => q.ver = q.shape.im)
        /\ q.guard => q.shape.policy = "cache"
    BY <1>0, Here DEF RequestOK, AnswerOK, GuardOK, AnswerPcs
  <1>3. pc \in {"write", "done"} /\ (q.guard => pc = "write")
    BY <1>2 DEF MayStore
  <1> HIDE DEF pc
  <1>4. InOrder(r, pc, "200", {q.ver}, "s3")
    BY <1>0, <1>2, <1>3 DEF InOrder, Codes, EndPcs
  <1>5. /\ RequestOK(n) /\ TimelyOK(n, meta, storedAt, now)
        /\ n.shape = req[r].shape /\ n.pc = pc /\ n.guard = req[r].guard
    BY <1>2, <1>3, <1>4, AnsweredOK
  <1>6. /\ RequestOK([n EXCEPT !.guard = FALSE])
        /\ TimelyOK([n EXCEPT !.guard = FALSE], meta, storedAt, now)
        /\ [n EXCEPT !.guard = FALSE].shape = req[r].shape
        /\ [n EXCEPT !.guard = FALSE].pc # "wait"
    BY <1>4, AnsweredDone
  <1> HIDE DEF n
  <1> QED
    BY <1>0, <1>1, <1>3, <1>5, <1>6, Moved, Completed

LEMMA ForwardedMergeKeeps ==
    ASSUME IInv, NEW r \in Requests, ForwardedMerge(r) PROVE IInv'
  <1> DEFINE q == req[r]
             n == Answered(r, "write", "200", {q.seen.ver, q.ver}, "merged")
  <1>0. /\ q.pc = "forwarded" /\ q.code = "200" /\ UNCHANGED <<world, cache>>
        /\ Complete(r, TRUE, n) /\ q.ver = q.seen.ver
    BY DEF ForwardedMerge, SameVersion
  <1>1. CacheOK' /\ TimeStep
    BY <1>0, Here, CacheUnchanged DEF world
  <1>2. /\ q.ver \in Versions /\ (q.shape.im # NoVersion => q.ver = q.shape.im)
        /\ {q.seen.ver, q.ver} = {q.ver}
    BY <1>0, Here DEF RequestOK, AnswerOK, AnswerPcs
  <1>3. InOrder(r, "write", "200", {q.seen.ver, q.ver}, "merged")
    BY <1>0, <1>2 DEF InOrder, Codes, EndPcs
  <1>4. /\ RequestOK([n EXCEPT !.guard = FALSE])
        /\ TimelyOK([n EXCEPT !.guard = FALSE], meta, storedAt, now)
        /\ [n EXCEPT !.guard = FALSE].shape = req[r].shape
        /\ [n EXCEPT !.guard = FALSE].pc # "wait"
    BY <1>3, AnsweredDone
  <1> HIDE DEF n
  <1> QED
    BY <1>0, <1>1, <1>4, Completed

LEMMA ForwardedAgainKeeps ==
    ASSUME IInv, NEW r \in Requests, ForwardedMismatch(r) \/ ForwardedRepin(r) PROVE IInv'
  <1> DEFINE q == req[r]
             pin == IF ForwardedMismatch(r) THEN q.pin ELSE NoVersion
             n == [q EXCEPT !.pc = "forward", !.seen = NoMetadata, !.pin = pin]
  <1>1. CacheOK' /\ TimeStep
    BY Here, CacheUnchanged, Invalidated DEF world, ForwardedMismatch, ForwardedRepin
  <1>h. q \in Request /\ RequestOK(q) /\ TimelyOK(q, meta, storedAt, now) /\ now \in Nat
    BY Here
  <1> HIDE DEF q
  <1>0. /\ q.pc = "forwarded" /\ Moves(r, n)
        /\ q.code \in {"200", "5xx", "403", "412"} /\ pin \in {q.pin, NoVersion}
    <2>1. CASE ForwardedMismatch(r)
      <3>1. [q EXCEPT !.pc = "forward", !.seen = NoMetadata] = n
        BY <1>h, <2>1 DEF Request
      <3> QED
        BY <2>1, <3>1 DEF ForwardedMismatch, q
    <2>2. CASE ~ForwardedMismatch(r)
      BY <2>2 DEF ForwardedRepin, q
    <2> QED
      BY <2>1, <2>2
  <1>2. NoMetadata \in Metadata /\ NoVersion \in Etags /\ pin \in Etags
    BY <1>0, <1>h, ConstantTypes DEF Request
  <1> HIDE DEF pin
  <1>n1. n \in Request
    BY <1>0, <1>2, <1>h DEF Request, Pcs, Codes
  <1>n2. /\ n.shape = q.shape /\ n.pc = "forward" /\ n.mode = q.mode /\ n.pin = pin
         /\ n.seen = NoMetadata /\ n.at = q.at /\ n.guard = q.guard /\ n.rx = q.rx
         /\ n.next = q.next /\ n.code = q.code /\ n.ver = q.ver /\ n.own = q.own
         /\ n.status = q.status /\ n.body = q.body /\ n.via = q.via
    BY <1>h DEF Request
  <1> HIDE DEF n
  <1>n3. SeenOK(n)
    BY <1>0, <1>2, <1>h, <1>n2, ConstantTypes DEF RequestOK, SeenOK, ModeOK, Fetching, EndPcs
  <1>n4. ModeOK(n) /\ PinOK(n)
    BY <1>0, <1>2, <1>h, <1>n2 DEF RequestOK, ModeOK, PinOK, Revalidating, EndPcs
  <1>n5. AnswerOK(n)
    BY <1>0, <1>2, <1>h, <1>n2 DEF RequestOK, AnswerOK, ResponseOK, AnswerPcs, EndPcs
  <1>n6. ResponseOK(n) /\ GuardOK(n)
    BY <1>0, <1>2, <1>h, <1>n2 DEF RequestOK, ResponseOK, GuardOK, EndPcs
  <1>n7. TimelyOK(n, meta, storedAt, now)
    BY <1>0, <1>2, <1>h, <1>n2 DEF TimelyOK, RequestOK, ResponseOK, EndPcs
  <1>n8. RequestOK(n)
    BY <1>n1, <1>n3, <1>n4, <1>n5, <1>n6 DEF RequestOK
  <1> QED
    BY <1>0, <1>1, <1>n2, <1>n7, <1>n8, Moved DEF q

LEMMA ForwardedOtherKeeps ==
    ASSUME IInv, NEW r \in Requests, ForwardedOther(r) PROVE IInv'
  <1> DEFINE q == req[r]
             n == Answered(r, "done", q.code, {}, "s3")
  <1>0. /\ q.pc = "forwarded" /\ q.code \in {"304", "412", "403", "5xx"}
        /\ Complete(r, FALSE, n) /\ UNCHANGED <<world, cache>>
    BY DEF ForwardedOther, PassThrough
  <1>1. CacheOK' /\ TimeStep
    BY <1>0, Here, CacheUnchanged DEF world
  <1>2. q.code = "304" => q.shape.inm # NoVersion /\ q.own = "304"
    BY <1>0, Here DEF RequestOK, AnswerOK
  <1>3. InOrder(r, "done", q.code, {}, "s3")
    BY <1>0, <1>2 DEF InOrder, Codes, EndPcs
  <1>4. /\ RequestOK([n EXCEPT !.guard = FALSE])
        /\ TimelyOK([n EXCEPT !.guard = FALSE], meta, storedAt, now)
        /\ [n EXCEPT !.guard = FALSE].shape = req[r].shape
        /\ [n EXCEPT !.guard = FALSE].pc # "wait"
    BY <1>3, AnsweredDone
  <1> HIDE DEF n
  <1> QED
    BY <1>0, <1>1, <1>4, Completed

LEMMA WriteKeeps ==
    ASSUME IInv, NEW r \in Requests, WriteCommit(r) \/ WriteFails(r) PROVE IInv'
  <1> DEFINE q == req[r]
             after == Committed(r)
             n == [after EXCEPT !.guard = FALSE]
  <1>0. q.pc = "write" /\ \E ok \in BOOLEAN : Complete(r, ok, after)
    BY DEF WriteCommit, WriteFails
  <1>1. CacheOK' /\ TimeStep
    <2>1. CASE WriteCommit(r)
      <3>1. q.ver \in Versions /\ Parts \ q.seen.have \in SUBSET Parts
        BY <1>0, Here DEF RequestOK, AnswerOK
      <3>2. /\ UNCHANGED <<now, origin, faults, refresh>>
            /\ meta' = StoredIn(meta, q.ver, Parts \ q.seen.have)
            /\ mcache' \in {NoMetadata, mcache} /\ ram' \subseteq ram \cup {q.ver}
            /\ storedAt' = [storedAt EXCEPT ![q.ver] = IF q.ver >= meta.ver THEN now ELSE @]
        BY <2>1 DEF WriteCommit, Store, world
      <3> QED
        BY <3>1, <3>2, Here, StoreKept, ConstantTypes DEF CacheOK
    <2>2. CASE WriteFails(r)
      BY <2>2, Here, SpendOK, CacheUnchanged DEF WriteFails
    <2> QED
      BY <2>1, <2>2
  <1>h. q \in Request /\ RequestOK(q) /\ TimelyOK(q, meta, storedAt, now) /\ now \in Nat
    BY Here
  <1> HIDE DEF q
  <1>2. NoMetadata \in Metadata /\ NoVersion \in Etags /\ NoVersion \notin Versions
    BY ConstantTypes
  <1>4. after = [q EXCEPT !.pc = "done", !.ver = NoVersion, !.seen = NoMetadata]
    BY DEF Committed, q
  <1>3. after \in Request
    BY <1>2, <1>4, <1>h DEF Request, Pcs
  <1>n1. n \in Request
    <2> HIDE DEF after
    <2> QED
      BY <1>3 DEF Request
  <1>n2. /\ n.shape = q.shape /\ n.pc = "done" /\ n.mode = q.mode /\ n.pin = q.pin
         /\ n.seen = NoMetadata /\ n.at = q.at /\ n.guard = FALSE /\ n.rx = q.rx
         /\ n.next = q.next /\ n.code = q.code /\ n.ver = NoVersion /\ n.own = q.own
         /\ n.status = q.status /\ n.body = q.body /\ n.via = q.via
    BY <1>h, <1>4 DEF Request
  <1> HIDE DEF n
  <1>n3. SeenOK(n)
    BY <1>0, <1>2, <1>4, <1>h, <1>n2, ConstantTypes DEF RequestOK, SeenOK, ModeOK, Fetching, EndPcs
  <1>n4. ModeOK(n) /\ PinOK(n)
    BY <1>0, <1>2, <1>4, <1>h, <1>n2 DEF RequestOK, ModeOK, PinOK, Revalidating, EndPcs
  <1>n5. AnswerOK(n)
    BY <1>0, <1>2, <1>4, <1>h, <1>n2 DEF RequestOK, AnswerOK, ResponseOK, AnswerPcs, EndPcs
  <1>n6. ResponseOK(n) /\ GuardOK(n)
    BY <1>0, <1>2, <1>4, <1>h, <1>n2 DEF RequestOK, ResponseOK, GuardOK, EndPcs
  <1>n7. TimelyOK(n, meta, storedAt, now)
    BY <1>0, <1>2, <1>4, <1>h, <1>n2 DEF TimelyOK, RequestOK, ResponseOK, EndPcs
  <1>n8. RequestOK(n)
    BY <1>n1, <1>n3, <1>n4, <1>n5, <1>n6 DEF RequestOK
  <1>5. PICK ok \in BOOLEAN : Complete(r, ok, after)
    BY <1>0
  <1> HIDE DEF after
  <1> QED
    BY <1>1, <1>5, <1>n2, <1>n7, <1>n8, Completed DEF q, n

\* What a woken waiter carries to S3, and what it finds in the cache.
LEMMA WaiterFacts ==
    ASSUME IInv, NEW r \in Requests, req[r].pc = "vserve"
    PROVE  /\ WaiterPin(r) \in Etags
           /\ WaiterPin(r) # NoVersion =>
                req[r].shape.im = NoVersion /\ req[r].shape.inm = NoVersion
           /\ WaiterFinds(r) \in Metadata /\ Known(WaiterFinds(r))
  <1>1. CASE req[r].next = "forward"
    BY <1>1, PinnedOK, Here, ConstantTypes DEF WaiterPin, WaiterFinds, Fetching, CacheOK
  <1>2. CASE req[r].next # "forward"
    BY <1>2, Here, ConstantTypes DEF WaiterPin, WaiterFinds, CacheOK, RequestOK, PinOK, Request
  <1> QED
    BY <1>1, <1>2

LEMMA ValidateForWaiterKeeps ==
    ASSUME IInv, NEW r \in Requests, ValidateForWaiter(r) PROVE IInv'
  <1> DEFINE q == req[r]
             pin == WaiterPin(r)
             se == WaiterFinds(r)
             im == IF pin # NoVersion THEN pin ELSE q.shape.im
  <1>0. q.pc = "vserve" /\ UNCHANGED <<meta, ram, refresh, storedAt>>
        /\ (UNCHANGED mcache \/ Remember)
    BY DEF ValidateForWaiter
  <1>h. q \in Request /\ RequestOK(q) /\ TimelyOK(q, meta, storedAt, now) /\ now \in Nat
    BY Here
  <1> HIDE DEF q
  <1>2. /\ pin \in Etags /\ im \in Etags /\ se \in Metadata /\ Known(se) /\ se.ver \in Etags
        /\ q.shape.im # NoVersion => im = q.shape.im
        /\ pin # NoVersion => q.shape.im = NoVersion /\ q.shape.inm = NoVersion
    BY <1>0, WaiterFacts, Here DEF q, Shape, Metadata
  <1>3. PICK code \in Answers(im, se.ver) :
          /\ Spend(code \in {"5xx", "403"})
          /\ Moves(r, [q EXCEPT !.pc = "vanswered", !.code = code, !.ver = origin, !.pin = pin,
                                !.seen = se])
    BY DEF ValidateForWaiter, q
  <1>1. CacheOK' /\ TimeStep
    <2>1. mcache' \in Metadata /\ Known(mcache')
      BY <1>0, Here, CachedOK DEF CacheOK
    <2>2. UNCHANGED <<now, origin>> /\ faults' \in 0..MaxFaults
      BY <1>3, Here, SpendOK
    <2> QED
      BY <1>0, <2>1, <2>2, Here, CacheKept DEF CacheOK
  <1> DEFINE n == [q EXCEPT !.pc = "vanswered", !.code = code, !.ver = origin, !.pin = pin,
                            !.seen = se]
  <1>4. /\ code \in {"200", "304", "412", "403", "5xx"} /\ code \in Codes
        /\ code \in {"200", "304"} /\ q.shape.im # NoVersion => origin = q.shape.im
        /\ origin \in Versions /\ origin \in Etags
    BY <1>2, Here, AnswersOK
  <1>6. Moves(r, n)
    BY <1>3
  <1> HIDE DEF im, pin, se
  <1>n1. n \in Request
    BY <1>0, <1>2, <1>4, <1>h DEF Request, Pcs, Codes
  <1>n2. /\ n.shape = q.shape /\ n.pc = "vanswered" /\ n.mode = q.mode /\ n.pin = pin
         /\ n.seen = se /\ n.at = q.at /\ n.guard = q.guard /\ n.rx = q.rx
         /\ n.next = q.next /\ n.code = code /\ n.ver = origin /\ n.own = q.own
         /\ n.status = q.status /\ n.body = q.body /\ n.via = q.via
    BY <1>h DEF Request
  <1> HIDE DEF n
  <1>n3. SeenOK(n)
    BY <1>0, <1>2, <1>4, <1>h, <1>n2, ConstantTypes DEF RequestOK, SeenOK, ModeOK, Fetching, EndPcs
  <1>n4. ModeOK(n) /\ PinOK(n)
    BY <1>0, <1>2, <1>4, <1>h, <1>n2 DEF RequestOK, ModeOK, PinOK, Revalidating, EndPcs
  <1>n5. AnswerOK(n)
    BY <1>0, <1>2, <1>4, <1>h, <1>n2 DEF RequestOK, AnswerOK, ResponseOK, AnswerPcs, EndPcs
  <1>n6. ResponseOK(n) /\ GuardOK(n)
    BY <1>0, <1>2, <1>4, <1>h, <1>n2 DEF RequestOK, ResponseOK, GuardOK, EndPcs
  <1>n7. TimelyOK(n, meta, storedAt, now)
    BY <1>0, <1>2, <1>4, <1>h, <1>n2 DEF TimelyOK, RequestOK, ResponseOK, EndPcs
  <1>n8. RequestOK(n)
    BY <1>n1, <1>n3, <1>n4, <1>n5, <1>n6 DEF RequestOK
  <1> QED
    BY <1>6, <1>1, <1>n2, <1>n7, <1>n8, Moved DEF q

LEMMA WaiterFindsNothingKeeps ==
    ASSUME IInv, NEW r \in Requests, WaiterFindsNothing(r) PROVE IInv'
  <1> DEFINE q == req[r]
             pin == WaiterPin(r)
             n == [q EXCEPT !.pc = "forward", !.pin = pin, !.seen = NoMetadata]
  <1>0. q.pc = "vserve" /\ Moves(r, n) /\ UNCHANGED <<world, cache>>
    BY DEF WaiterFindsNothing
  <1>1. CacheOK' /\ TimeStep
    BY <1>0, Here, CacheUnchanged DEF world
  <1>h. q \in Request /\ RequestOK(q) /\ TimelyOK(q, meta, storedAt, now) /\ now \in Nat
    BY Here
  <1> HIDE DEF q
  <1>2. /\ pin \in Etags /\ NoMetadata \in Metadata
        /\ pin # NoVersion => q.shape.im = NoVersion /\ q.shape.inm = NoVersion
    BY <1>0, WaiterFacts, ConstantTypes DEF q
  <1> HIDE DEF pin
  <1>n1. n \in Request
    BY <1>0, <1>2, <1>h DEF Request, Pcs, Codes
  <1>n2. /\ n.shape = q.shape /\ n.pc = "forward" /\ n.mode = q.mode /\ n.pin = pin
         /\ n.seen = NoMetadata /\ n.at = q.at /\ n.guard = q.guard /\ n.rx = q.rx
         /\ n.next = q.next /\ n.code = q.code /\ n.ver = q.ver /\ n.own = q.own
         /\ n.status = q.status /\ n.body = q.body /\ n.via = q.via
    BY <1>h DEF Request
  <1> HIDE DEF n
  <1>n3. SeenOK(n)
    BY <1>0, <1>2, <1>h, <1>n2, ConstantTypes DEF RequestOK, SeenOK, ModeOK, Fetching, EndPcs
  <1>n4. ModeOK(n) /\ PinOK(n)
    BY <1>0, <1>2, <1>h, <1>n2 DEF RequestOK, ModeOK, PinOK, Revalidating, EndPcs
  <1>n5. AnswerOK(n)
    BY <1>0, <1>2, <1>h, <1>n2 DEF RequestOK, AnswerOK, ResponseOK, AnswerPcs, EndPcs
  <1>n6. ResponseOK(n) /\ GuardOK(n)
    BY <1>0, <1>2, <1>h, <1>n2 DEF RequestOK, ResponseOK, GuardOK, EndPcs
  <1>n7. TimelyOK(n, meta, storedAt, now)
    BY <1>0, <1>2, <1>h, <1>n2 DEF TimelyOK, RequestOK, ResponseOK, EndPcs
  <1>n8. RequestOK(n)
    BY <1>n1, <1>n3, <1>n4, <1>n5, <1>n6 DEF RequestOK
  <1> QED
    BY <1>0, <1>1, <1>n2, <1>n7, <1>n8, Moved DEF q

LEMMA WaiterUnchangedKeeps ==
    ASSUME IInv, NEW r \in Requests, WaiterUnchanged(r) PROVE IInv'
  <1> DEFINE q == req[r]
             local == Covers(q.seen)
             pc == IF local THEN "serve" ELSE "forward"
             se == IF local THEN q.seen ELSE NoMetadata
             via == IF local THEN "validated" ELSE q.via
             n == [q EXCEPT !.pc = pc, !.seen = se, !.via = via]
  <1>1. CacheOK' /\ TimeStep
    BY Here, CacheKept, RenewedOK DEF CacheOK, WaiterUnchanged, world
  <1>h. q \in Request /\ RequestOK(q) /\ TimelyOK(q, meta, storedAt, now) /\ now \in Nat
    BY Here
  <1> HIDE DEF q
  <1>0. q.pc = "vanswered" /\ q.code = "304" /\ Moves(r, n)
    <2>1. CASE local
      <3>1. [q EXCEPT !.pc = "serve", !.via = "validated"] = n
        BY <1>h, <2>1 DEF Request
      <3> QED
        BY <2>1, <3>1 DEF WaiterUnchanged, q
    <2>2. CASE ~local
      <3>1. [q EXCEPT !.pc = "forward", !.seen = NoMetadata] = n
        BY <1>h, <2>2 DEF Request
      <3> QED
        BY <2>2, <3>1 DEF WaiterUnchanged, q
    <2> QED
      BY <2>1, <2>2
  <1>2. /\ pc \in {"serve", "forward"} /\ se \in Metadata /\ Known(se)
        /\ pc = "serve" => Covers(se) /\ via = "validated"
        /\ pc = "forward" => se = NoMetadata /\ via = q.via
        /\ via \in {"none", "s3", "cache", "validated", "merged", "fallback"}
    BY <1>h, ConstantTypes DEF Request, RequestOK, SeenOK
  <1> HIDE DEF pc, se, via
  <1>n1. n \in Request
    BY <1>0, <1>2, <1>h DEF Request, Pcs, Codes
  <1>n2. /\ n.shape = q.shape /\ n.pc = pc /\ n.mode = q.mode /\ n.pin = q.pin
         /\ n.seen = se /\ n.at = q.at /\ n.guard = q.guard /\ n.rx = q.rx
         /\ n.next = q.next /\ n.code = q.code /\ n.ver = q.ver /\ n.own = q.own
         /\ n.status = q.status /\ n.body = q.body /\ n.via = via
    BY <1>h DEF Request
  <1> HIDE DEF n
  <1>n3. SeenOK(n)
    BY <1>0, <1>2, <1>h, <1>n2, ConstantTypes DEF RequestOK, SeenOK, ModeOK, Fetching, EndPcs
  <1>n4. ModeOK(n) /\ PinOK(n)
    BY <1>0, <1>2, <1>h, <1>n2 DEF RequestOK, ModeOK, PinOK, Revalidating, EndPcs
  <1>n5. AnswerOK(n)
    BY <1>0, <1>2, <1>h, <1>n2 DEF RequestOK, AnswerOK, ResponseOK, AnswerPcs, EndPcs
  <1>n6. ResponseOK(n) /\ GuardOK(n)
    BY <1>0, <1>2, <1>h, <1>n2 DEF RequestOK, ResponseOK, GuardOK, EndPcs
  <1>n7. TimelyOK(n, meta, storedAt, now)
    BY <1>0, <1>2, <1>h, <1>n2 DEF TimelyOK, RequestOK, ResponseOK, EndPcs
  <1>n8. RequestOK(n)
    BY <1>n1, <1>n3, <1>n4, <1>n5, <1>n6 DEF RequestOK
  <1> QED
    BY <1>0, <1>2, <1>1, <1>n2, <1>n7, <1>n8, Moved DEF q

LEMMA WaiterAnsweredKeeps ==
    ASSUME IInv, NEW r \in Requests, WaiterChanged(r) \/ WaiterRefused(r) \/ WaiterFallback(r) PROVE IInv'
  <1> DEFINE q == req[r]
  <1>0. q.pc = "vanswered" /\ UNCHANGED <<world, cache>>
    BY DEF WaiterChanged, WaiterRefused, WaiterFallback
  <1>1. CacheOK' /\ TimeStep
    BY <1>0, Here, CacheUnchanged DEF world
  <1>2. /\ q.ver \in Versions /\ ~q.guard /\ q.seen \in Metadata
        /\ q.code = "200" /\ q.shape.im # NoVersion => q.ver = q.shape.im
    BY <1>0, Here DEF RequestOK, AnswerOK, GuardOK, AnswerPcs, Request
  <1>3. ASSUME NEW pc, NEW status, NEW body, NEW via,
               Moves(r, Answered(r, pc, status, body, via)),
               InOrder(r, pc, status, body, via)
        PROVE  IInv'
    <2> DEFINE n == Answered(r, pc, status, body, via)
    <2>1. /\ RequestOK(n) /\ TimelyOK(n, meta, storedAt, now)
          /\ n.shape = req[r].shape /\ n.pc = pc /\ n.guard = req[r].guard
      BY <1>2, <1>3, AnsweredOK
    <2>2. pc # "wait" /\ Moves(r, n)
      BY <1>3 DEF InOrder
    <2> HIDE DEF n
    <2> QED
      BY <1>1, <2>1, <2>2, Moved
  <1>4. CASE WaiterChanged(r)
    <2> DEFINE pc == IF Key(r) = "get" THEN "write" ELSE "done"
    <2>1. q.code = "200" /\ Moves(r, Answered(r, pc, "200", {q.ver}, "s3"))
      BY <1>4 DEF WaiterChanged
    <2>2. InOrder(r, pc, "200", {q.ver}, "s3")
      BY <1>0, <1>2, <2>1 DEF InOrder, Codes, EndPcs
    <2> HIDE DEF pc
    <2> QED
      BY <1>3, <2>1, <2>2
  <1>5. CASE WaiterRefused(r)
    <2>1. q.code \in {"412", "403"} /\ Moves(r, Answered(r, "done", q.code, {}, "s3"))
      BY <1>5 DEF WaiterRefused, PassThrough
    <2>2. InOrder(r, "done", q.code, {}, "s3")
      BY <1>0, <2>1 DEF InOrder, Codes, EndPcs
    <2> QED
      BY <1>3, <2>1, <2>2
  <1>6. CASE WaiterFallback(r)
    <2>1. CASE StoredFresh(q.seen) /\ Covers(q.seen) /\ Servable(r)
      <3>1. Moves(r, Answered(r, "done", "200", {q.seen.ver}, "fallback"))
        BY <1>6, <2>1 DEF WaiterFallback
      <3>2. q.seen.ver \in Versions
        BY <1>2, <2>1, ConstantTypes DEF StoredFresh, Metadata
      <3>3. InOrder(r, "done", "200", {q.seen.ver}, "fallback")
        BY <1>0, <3>2 DEF InOrder, Codes, EndPcs
      <3> QED
        BY <1>3, <3>1, <3>3
    <2>2. CASE ~(StoredFresh(q.seen) /\ Covers(q.seen) /\ Servable(r))
      <3>1. Moves(r, Answered(r, "done", "5xx", {}, "s3"))
        BY <1>6, <2>2 DEF WaiterFallback
      <3>2. InOrder(r, "done", "5xx", {}, "s3")
        BY <1>0 DEF InOrder, Codes, EndPcs
      <3> QED
        BY <1>3, <3>1, <3>2
    <2> QED
      BY <2>1, <2>2
  <1> QED
    BY <1>4, <1>5, <1>6

LEMMA DisconnectKeeps ==
    ASSUME IInv, NEW r \in Requests, Disconnect(r) PROVE IInv'
  <1> DEFINE q == req[r]
             n == Answered(r, "done", "none", {}, "none")
  <1>0. /\ q.pc \notin {"idle", "write", "done"} /\ Complete(r, FALSE, n)
        /\ Spend(TRUE) /\ UNCHANGED cache
    BY DEF Disconnect
  <1>1. CacheOK' /\ TimeStep
    BY <1>0, Here, SpendOK, CacheUnchanged
  <1>3. InOrder(r, "done", "none", {}, "none")
    BY <1>0 DEF InOrder, Codes, EndPcs
  <1>4. /\ RequestOK([n EXCEPT !.guard = FALSE])
        /\ TimelyOK([n EXCEPT !.guard = FALSE], meta, storedAt, now)
        /\ [n EXCEPT !.guard = FALSE].shape = req[r].shape
        /\ [n EXCEPT !.guard = FALSE].pc # "wait"
    BY <1>3, AnsweredDone
  <1> HIDE DEF n
  <1> QED
    BY <1>0, <1>1, <1>4, Completed

\* The environment moves no request and no flight.
LEMMA EnvironmentKeeps ==
    ASSUME IInv, CacheOK', TimeStep, UNCHANGED <<flight, req>>
    PROVE  IInv'
  <1>1. RequestsOK'
    BY TimelyKept DEF IInv, RequestsOK, RequestOK
  <1>2. FlightsOK'
    BY DEF IInv, FlightsOK, Key
  <1> QED
    BY <1>1, <1>2 DEF IInv

LEMMA ClockAndOriginKeep ==
    ASSUME IInv, Overwrite \/ Tick PROVE IInv'
  <1>1. /\ now \in Nat /\ now' \in Times /\ now <= now' /\ origin' \in Versions
        /\ UNCHANGED <<faults, meta, mcache, ram, refresh, storedAt, flight, req>>
    BY ConstantTypes DEF IInv, CacheOK, Overwrite, Tick, cache, Times, Versions
  <1>2. now' \in Nat /\ \A v \in Versions : storedAt[v] \in Nat /\ storedAt[v] <= now
    BY <1>1, ConstantTypes DEF IInv, CacheOK
  <1>3. CacheOK' /\ TimeStep
    BY <1>1, <1>2 DEF IInv, CacheOK, TimeStep
  <1> QED
    BY <1>1, <1>3, EnvironmentKeeps

LEMMA CacheEventsKeep ==
    ASSUME IInv, ApplyTtlRefresh \/ PeerStores \/ Evict \/ ForgetMetadata PROVE IInv'
  <1>1. CacheOK
    BY DEF IInv
  <1>2. CASE ApplyTtlRefresh
    <2>1. CacheOK' /\ TimeStep
      BY <1>1, <1>2, CacheKept, RenewedOK DEF CacheOK, ApplyTtlRefresh, world
    <2> QED
      BY <1>2, <2>1, EnvironmentKeeps DEF ApplyTtlRefresh
  <1>3. CASE PeerStores
    <2>1. /\ UNCHANGED <<now, origin, mcache, ram, refresh, flight, req>>
          /\ faults' \in 0..MaxFaults /\ meta' = StoredIn(meta, origin, Parts)
          /\ storedAt' = [storedAt EXCEPT ![origin] = now]
      BY <1>1, <1>3, SpendOK DEF PeerStores
    <2>2. origin \in Versions /\ origin >= meta.ver /\ Parts \in SUBSET Parts
      <3>1. meta.ver \in Nat /\ origin \in Nat /\ meta.ver < origin /\ origin \in Versions
        BY <1>1, <1>3, ConstantTypes DEF CacheOK, PeerStores, Metadata, NoVersion
      <3> QED
        BY <3>1
    <2>3. storedAt' = [storedAt EXCEPT ![origin] = IF origin >= meta.ver THEN now ELSE @]
      BY <2>1, <2>2
    <2>4. CacheOK' /\ TimeStep
      BY <1>1, <2>1, <2>2, <2>3, StoreKept DEF CacheOK
    <2> QED
      BY <2>1, <2>4, EnvironmentKeeps
  <1>4. CASE Evict
    <2>1. PICK p \in meta.have : meta' = [meta EXCEPT !.have = @ \ {p}]
      BY <1>4 DEF Evict
    <2>2. /\ UNCHANGED <<now, origin, mcache, ram, refresh, storedAt, flight, req>>
          /\ faults' \in 0..MaxFaults
      BY <1>1, <1>4, SpendOK DEF Evict
    <2>3. /\ meta' \in Metadata /\ Known(meta')
          /\ meta'.ver = meta.ver /\ meta'.created = meta.created
      BY <1>1, <2>1, DroppedOK
    <2>4. CacheOK' /\ TimeStep
      BY <1>1, <2>2, <2>3, CacheKept DEF CacheOK
    <2> QED
      BY <2>2, <2>4, EnvironmentKeeps
  <1>5. CASE ForgetMetadata
    <2>1. CacheOK' /\ TimeStep
      BY <1>1, <1>5, CacheKept, ConstantTypes DEF CacheOK, ForgetMetadata, world
    <2> QED
      BY <1>5, <2>1, EnvironmentKeeps DEF ForgetMetadata
  <1> QED
    BY <1>2, <1>3, <1>4, <1>5

LEMMA StutterKeeps ==
    ASSUME IInv, UNCHANGED vars PROVE IInv'
  <1>1. CacheOK' /\ TimeStep
    BY CacheUnchanged DEF IInv, CacheOK, vars, cache
  <1> QED
    BY <1>1, EnvironmentKeeps DEF vars

-----------------------------------------------------------------------------
(* The invariant                                                           *)

\* The handlers start with nothing in flight, over a cache that may hold the first
\* version.
LEMMA InitIInv ==
    ASSUME Init PROVE IInv
  <1>1. CacheOK
    <2>1. PICK have \in SUBSET Parts :
            meta = IF have = {} THEN NoMetadata
                   ELSE [ver |-> 1, have |-> have, created |-> 0, expires |-> TTL]
      BY DEF Init
    <2>2. /\ now \in Times /\ origin \in Versions /\ faults \in 0..MaxFaults
          /\ mcache = NoMetadata /\ ram \subseteq Versions /\ refresh \in BOOLEAN
          /\ storedAt = [v \in Versions |-> 0] /\ TTL \in 0..(MaxTime + TTL) /\ now \in Nat
      <3>1. ram \in {{}, {1}} /\ now \in {0, MaxTime} /\ faults = 0 /\ origin = 1
        BY DEF Init
      <3>2. {1} \subseteq Versions
        BY ConstantTypes
      <3>3. ram \subseteq Versions
        BY <3>1, <3>2
      <3>4. now \in Times /\ now \in Nat /\ faults \in 0..MaxFaults /\ TTL \in 0..(MaxTime + TTL)
        BY <3>1, ConstantTypes DEF Times
      <3> QED
        BY <3>1, <3>3, <3>4, ConstantTypes DEF Init
    <2>3. meta \in Metadata /\ Known(meta) /\ meta.ver \in {NoVersion, 1}
          /\ meta.created = 0
      BY <2>1, <2>2, ConstantTypes DEF Metadata, Known, NoMetadata
    <2> QED
      BY <2>2, <2>3, ConstantTypes DEF CacheOK
  <1>2. \A r \in Requests : \E s \in Shapes : req[r] = NewRequest(s)
    BY DEF Init
  <1>3. ASSUME NEW r \in Requests
        PROVE  /\ RequestOK(req[r]) /\ TimelyOK(req[r], meta, storedAt, now)
               /\ req[r] \in Request /\ ~req[r].guard /\ req[r].pc = "idle"
    <2>1. PICK s \in Shapes : req[r] = NewRequest(s)
      BY <1>2
    <2>2. RequestOK(req[r])
      BY <2>1, NewRequestOK
    <2>3. TimelyOK(req[r], meta, storedAt, now)
      BY <1>1, <2>1, ConstantTypes DEF TimelyOK, NewRequest, CacheOK
    <2> QED
      BY <2>1, <2>2, <2>3 DEF NewRequest, RequestOK
  <1>4. RequestsOK
    BY <1>3 DEF RequestsOK, Init
  <1>5. FlightsOK
    BY <1>3 DEF FlightsOK, Init
  <1> QED
    BY <1>1, <1>4, <1>5 DEF IInv

LEMMA NextKeepsIInv ==
    ASSUME IInv, [Next]_vars PROVE IInv'
  <1>1. ASSUME NEW r \in Requests, RequestStep(r) PROVE IInv'
    <2>1. CASE BeginRequest(r) \/ BypassCache(r)
      BY <2>1, BeginKeeps, BypassKeeps
    <2>2. CASE LookupFull(r) \/ LookupRange(r) \/ LookupPart(r)
      BY <2>2, LookupFullKeeps, LookupRangeKeeps, LookupPartKeeps
    <2>3. CASE Verdict(r) \/ RegisterValidation(r) \/ RegisterFetch(r) \/ Validate(r)
      BY <2>3, VerdictKeeps, JoinKeeps, ValidateKeeps
    <2>4. CASE \/ ValidatedUnchanged(r) \/ ValidatedChanged(r)
               \/ ValidatedDenied(r) \/ ValidatedFailed(r)
      BY <2>4, ValidatedUnchangedKeeps, ValidatedChangedKeeps, ValidatedDeniedKeeps,
         ValidatedFailedKeeps
    <2>5. CASE ServeCached(r) \/ ServeForwards(r) \/ Forward(r)
      BY <2>5, ServeCachedKeeps, ServeForwardsKeeps, ForwardKeeps
    <2>6. CASE \/ ForwardedObject(r) \/ ForwardedMerge(r) \/ ForwardedMismatch(r)
               \/ ForwardedRepin(r) \/ ForwardedOther(r)
      BY <2>6, ForwardedObjectKeeps, ForwardedMergeKeeps, ForwardedAgainKeeps,
         ForwardedOtherKeeps
    <2>7. CASE WriteCommit(r)
      BY <2>7, WriteKeeps
    <2>8. CASE \/ ValidateForWaiter(r) \/ WaiterFindsNothing(r) \/ WaiterUnchanged(r)
               \/ WaiterChanged(r) \/ WaiterRefused(r) \/ WaiterFallback(r)
      BY <2>8, ValidateForWaiterKeeps, WaiterFindsNothingKeeps, WaiterUnchangedKeeps,
         WaiterAnsweredKeeps
    <2> QED
      BY <1>1, <2>1, <2>2, <2>3, <2>4, <2>5, <2>6, <2>7, <2>8 DEF RequestStep
  <1>2. ASSUME NEW r \in Requests, WaitTimeout(r) \/ WriteFails(r) \/ Disconnect(r)
        PROVE  IInv'
    BY <1>2, WaitTimeoutKeeps, WriteKeeps, DisconnectKeeps
  <1>3. CASE Overwrite \/ Tick
    BY <1>3, ClockAndOriginKeep
  <1>4. CASE ApplyTtlRefresh \/ PeerStores \/ Evict \/ ForgetMetadata
    BY <1>4, CacheEventsKeep
  <1>5. CASE Finished \/ UNCHANGED vars
    BY <1>5, StutterKeeps DEF Finished
  <1> QED
    BY <1>1, <1>2, <1>3, <1>4, <1>5 DEF Next

-----------------------------------------------------------------------------
(* What the client is told                                                 *)

\* The inductive invariant holds of every behaviour of the request handlers: what
\* each handler holds in its locals, who holds the guard of which flight, and when
\* the version in .meta was stored.
THEOREM RequestInvariant == Spec => []IInv
  BY InitIInv, NextKeepsIInv, PTL DEF Spec

\* The handlers keep the types of the cache, the flights and their own locals.
THEOREM TypeCorrect == Spec => []TypeOK
  <1>1. IInv => TypeOK
    BY DEF IInv, CacheOK, RequestsOK, FlightsOK, TypeOK
  <1> QED
    BY <1>1, RequestInvariant, PTL

\* InFlightTracker: a request that waits, waits for one that holds its flight's
\* guard and has not finished.
THEOREM NoWaiterStranded == Spec => []NoWaiterIsStranded
  <1>1. IInv => NoWaiterIsStranded
    <2>1. SUFFICES ASSUME IInv, NEW w \in Requests, req[w].pc = "wait"
                   PROVE  /\ req[w].rx \in Requests
                          /\ req[req[w].rx].guard /\ req[req[w].rx].pc # "done"
                          /\ flight[Key(w)] = req[w].rx
      BY DEF NoWaiterIsStranded
    <2>2. req[w].rx \in Requests /\ flight[Key(w)] = req[w].rx /\ Key(w) \in Kinds
      BY <2>1, Here DEF IInv, FlightsOK, RequestOK, GuardOK, Key, Shape
    <2>3. req[req[w].rx].guard
      BY <2>1, <2>2, RequestsAssumption DEF IInv, FlightsOK
    <2>4. req[req[w].rx].pc # "done"
      BY <2>1, <2>2, <2>3, Here DEF RequestOK, GuardOK
    <2> QED
      BY <2>2, <2>3, <2>4
  <1> QED
    BY <1>1, RequestInvariant, PTL

\* The client's If-Match is honoured by every body that S3 was asked about.
THEOREM IfMatch == Spec => []IfMatchHonoured
  <1>1. IInv => IfMatchHonoured
    BY Here DEF IfMatchHonoured, Served, RequestOK, ResponseOK
  <1> QED
    BY <1>1, RequestInvariant, PTL

\* A 304 that reaches the client is S3's verdict on the client's own condition.
THEOREM NotModified == Spec => []NotModifiedIsTheClients
  <1>1. IInv => NotModifiedIsTheClients
    BY Here DEF NotModifiedIsTheClients, RequestOK, ResponseOK
  <1> QED
    BY <1>1, RequestInvariant, PTL

\* A full or part GET whose own condition S3 answered with 304 gets no body.
THEOREM Verdict304 == Spec => []VerdictReturned
  <1>1. IInv => VerdictReturned
    <2>1. SUFFICES ASSUME IInv, NEW r \in Requests, req[r].shape.kind # "range",
                          req[r].status = "200", req[r].own = "304"
                   PROVE  FALSE
      BY DEF VerdictReturned, Served
    <2>2. RequestOK(req[r])
      BY <2>1, Here
    <2> QED
      BY <2>1, <2>2 DEF RequestOK, AnswerOK, ResponseOK, EndPcs
  <1> QED
    BY <1>1, RequestInvariant, PTL

\* Whatever was merged, raced or retried, a body is of one version.
THEOREM OneVersion == Spec => []ResponseOfOneVersion
  <1>1. IInv => ResponseOfOneVersion
    <2>1. SUFFICES ASSUME IInv, NEW r \in Requests, req[r].status = "200"
                   PROVE  Cardinality(req[r].body) = 1
      BY DEF ResponseOfOneVersion, Served
    <2>2. PICK v \in Versions : req[r].body = {v}
      BY <2>1, Here DEF RequestOK, ResponseOK
    <2> QED
      BY <2>2, FS_Singleton
  <1> QED
    BY <1>1, RequestInvariant, PTL

\* An object served on a freshness verdict had been stored at most TTL before it.
THEOREM FreshVerdict == Spec => []FreshVerdictOfServedVersion
  <1>1. IInv => FreshVerdictOfServedVersion
    BY Here DEF FreshVerdictOfServedVersion, TimelyOK
  <1> QED
    BY <1>1, RequestInvariant, PTL

=============================================================================
