-------------------------- MODULE ComponentProofs --------------------------
(***************************************************************************)
(* The components of one process that share no state with each other:      *)
(*                                                                         *)
(*   - the in-flight memory ledger: its counter is the sum of the live     *)
(*     reservations, and its compare-and-exchange loop implements the      *)
(*     ceiling;                                                            *)
(*   - the hedge governor: its counters are exact, and no client request   *)
(*     sends more hedges than its budget;                                  *)
(*   - a shard of the RAM cache: its size is the sum of its entries, and   *)
(*     the LRU order lists them, each once;                                *)
(*   - the metadata cache: the LRU order lists every entry, and no key     *)
(*     more than twice;                                                    *)
(*   - range arithmetic: parsing, pages, missing ranges, consolidation and *)
(*     merging compute what they should;                                   *)
(*   - the chunked decoder: frame by frame it decodes a body as it is      *)
(*     decoded whole.                                                      *)
(*                                                                         *)
(* For any number of tasks, fetches, readers, keys and extents, and any    *)
(* ceilings, budgets, capacities, sizes and thresholds.                    *)
(***************************************************************************)
EXTENDS MemoryLedger, HedgedFetch, RangeArithmetic, RamCache, MetadataCache, ChunkedDecoder,
    FoldTheorems

-----------------------------------------------------------------------------
(***************************************************************************)
(* THE MEMORY LEDGER                                                       *)
(***************************************************************************)

\* What a task's reservation says of what it buffers and of what it asks for.
TaskOK(q) ==
    /\ q \in Buffering
    /\ q.cur <= LedgerCeiling
    /\ q.pc = "idle" => q.bytes = 0
    /\ q.pc \in {"loop", "recordPeak"} => ~Disabled /\ q.next <= BodyLimit
    /\ q.pc = "loop" => q.want \in 1..BodyLimit /\ q.next <= q.bytes + q.want
    /\ q.pc = "recordPeak" => q.next <= q.bytes
    /\ IF Disabled THEN q.bytes = 0 ELSE q.acc <= q.bytes

HeldBy(b) == [t \in LedgerTasks |-> b[t].bytes]

LedgerInv ==
    /\ buffering \in [LedgerTasks -> Buffering]
    /\ \A t \in LedgerTasks : TaskOK(buffering[t])
    /\ reserved = Sum(HeldBy(buffering), LedgerTasks)
    /\ reserved \in 0..LedgerCeiling
    /\ peak \in 0..LedgerCeiling

-----------------------------------------------------------------------------
(* The sum of the reservations                                             *)

\* The fold of the module's properties is the sum over the tasks.
LEMMA FoldIsSum ==
    ASSUME NEW f, DOMAIN f = LedgerTasks
    PROVE  FoldFunction(+, 0, f) = Sum(f, LedgerTasks)
  BY DEF FoldFunction, Sum

\* One task moves: the sum shifts by the change of its reservation.
LEMMA HeldMoves ==
    ASSUME buffering \in [LedgerTasks -> Buffering], NEW t \in LedgerTasks,
           NEW n \in Buffering, buffering' = [buffering EXCEPT ![t] = n]
    PROVE  /\ buffering' \in [LedgerTasks -> Buffering]
           /\ buffering'[t] = n
           /\ \A u \in LedgerTasks : u # t => buffering'[u] = buffering[u]
           /\ HeldBy(buffering') = [HeldBy(buffering) EXCEPT ![t] = n.bytes]
           /\ Sum(HeldBy(buffering'), LedgerTasks) =
                Sum(HeldBy(buffering), LedgerTasks) - buffering[t].bytes + n.bytes
           /\ Sum(HeldBy(buffering), LedgerTasks) \in Nat
           /\ buffering[t].bytes <= Sum(HeldBy(buffering), LedgerTasks)
  <1>1. /\ buffering' \in [LedgerTasks -> Buffering] /\ buffering'[t] = n
        /\ \A u \in LedgerTasks : u # t => buffering'[u] = buffering[u]
    OBVIOUS
  <1> DEFINE f == HeldBy(buffering)
             g == HeldBy(buffering')
  <1>2. /\ \A u \in LedgerTasks : f[u] = buffering[u].bytes /\ g[u] = buffering'[u].bytes
        /\ g = [f EXCEPT ![t] = n.bytes]
    BY <1>1 DEF HeldBy
  <1> HIDE DEF f, g
  <1>3. /\ \A u \in LedgerTasks : f[u] \in Nat
        /\ g[t] \in Int /\ \A u \in LedgerTasks : u # t => g[u] = f[u]
        /\ f[t] = buffering[t].bytes /\ g[t] = n.bytes
    <2>1. \A b \in Buffering : b.bytes \in Nat
      BY LedgerAssumption DEF Buffering
    <2>2. \A u \in LedgerTasks : buffering[u].bytes \in Nat /\ n.bytes \in Nat
      BY <2>1
    <2> QED
      BY <1>1, <1>2, <2>2
  <1>4. IsFiniteSet(LedgerTasks)
    BY LedgerAssumption
  <1>5. Sum(g, LedgerTasks) = Sum(f, LedgerTasks) - f[t] + g[t]
    <2>1. DiffersAt(f, g, LedgerTasks, t)
      BY <1>3 DEF DiffersAt
    <2> QED
      BY <1>4, <2>1, SumUpdate
  <1>6. Sum(f, LedgerTasks) \in Nat /\ f[t] <= Sum(f, LedgerTasks)
    BY <1>3, <1>4, SumBounds
  <1> QED
    BY <1>1, <1>2, <1>3, <1>5, <1>6 DEF f, g

-----------------------------------------------------------------------------
(* Every step keeps the invariant                                          *)

\* One task moves to n, and the counter with it.
MovesTo(t, n) ==
    /\ TaskOK(n)
    /\ buffering' = [buffering EXCEPT ![t] = n]
    /\ reserved' = reserved - buffering[t].bytes + n.bytes
    /\ reserved' <= LedgerCeiling
    /\ peak' \in 0..LedgerCeiling

LEMMA TaskMoves ==
    ASSUME LedgerInv, NEW t \in LedgerTasks, NEW n, MovesTo(t, n)
    PROVE  LedgerInv'
  <1>1. n \in Buffering /\ n.bytes \in Nat /\ buffering[t].bytes \in Nat
    BY LedgerAssumption DEF TaskOK, Buffering, LedgerInv, MovesTo
  <1>2. /\ buffering' \in [LedgerTasks -> Buffering] /\ buffering'[t] = n
        /\ \A u \in LedgerTasks : u # t => buffering'[u] = buffering[u]
        /\ reserved' = Sum(HeldBy(buffering'), LedgerTasks)
        /\ buffering[t].bytes <= reserved /\ reserved \in Nat
    BY <1>1, HeldMoves, LedgerAssumption DEF LedgerInv, MovesTo
  <1>3. \A u \in LedgerTasks : TaskOK(buffering'[u])
    BY <1>2 DEF LedgerInv, MovesTo
  <1>4. reserved' \in 0..LedgerCeiling
    BY <1>1, <1>2, LedgerAssumption DEF MovesTo
  <1> QED
    BY <1>2, <1>3, <1>4 DEF LedgerInv, MovesTo

\* The task, and the counter, as the task finds them.
LEMMA LedgerHere ==
    ASSUME LedgerInv, NEW t \in LedgerTasks
    PROVE  /\ buffering[t] \in Buffering /\ TaskOK(buffering[t])
           /\ buffering[t].bytes \in 0..LedgerCeiling
           /\ reserved \in 0..LedgerCeiling /\ buffering[t].bytes <= reserved
           /\ LedgerCeiling \in Nat /\ LedgerWord \in Nat /\ BodyLimit \in Nat
           /\ LedgerCeiling < LedgerWord /\ BodyLimit < LedgerWord
  <1>1. buffering[t] \in Buffering /\ buffering[t].bytes \in Nat
    BY LedgerAssumption DEF LedgerInv, Buffering
  <1>2. \A u \in LedgerTasks : HeldBy(buffering)[u] \in Nat
    BY LedgerAssumption DEF LedgerInv, HeldBy, Buffering
  <1>3. HeldBy(buffering)[t] <= Sum(HeldBy(buffering), LedgerTasks)
    BY <1>2, SumBounds, LedgerAssumption
  <1>4. HeldBy(buffering)[t] = buffering[t].bytes
    BY DEF HeldBy
  <1> QED
    BY <1>1, <1>3, <1>4, LedgerAssumption DEF LedgerInv

\* The loop begins, or a disabled ledger grants at once.
LEMMA AskOK ==
    ASSUME LedgerInv, NEW t \in LedgerTasks, NEW k \in 0..BodyLimit, NEW next \in 0..BodyLimit,
           buffering[t].pc \in {"idle", "hold"}, next <= buffering[t].bytes + k,
           buffering[t].pc = "hold" => k > 0 /\ ~Disabled,
           buffering[t].pc = "idle" => next = 0
    PROVE  TaskOK(Ask(t, k, next)) /\ Ask(t, k, next).bytes = buffering[t].bytes
  <1> DEFINE q == buffering[t]
             pc == IF Disabled \/ k = 0 THEN "hold" ELSE "loop"
             more == IF Disabled THEN 0 ELSE k
             cur == IF Disabled THEN 0 ELSE reserved
             n == [q EXCEPT !.next = next, !.pc = pc, !.want = more, !.cur = cur]
  <1>1. Ask(t, k, next) = n
    BY DEF Ask
  <1>2. /\ q \in Buffering /\ TaskOK(q) /\ q.bytes \in Nat
        /\ LedgerCeiling \in Nat /\ LedgerWord \in Nat /\ BodyLimit \in Nat
        /\ LedgerCeiling < LedgerWord /\ BodyLimit < LedgerWord
        /\ reserved \in 0..LedgerCeiling
    BY LedgerHere
  <1>3. /\ pc \in {"hold", "loop"} /\ more \in 0..LedgerWord /\ cur \in 0..LedgerWord
        /\ cur <= LedgerCeiling /\ (pc = "loop" => ~Disabled /\ more = k /\ k # 0)
    BY <1>2
  <1> HIDE DEF pc, more, cur, q
  <1>4. next \in 0..BodyLimit
    OBVIOUS
  <1>5. /\ n \in Buffering /\ n.pc = pc /\ n.bytes = q.bytes /\ n.acc = q.acc
        /\ n.next = next /\ n.want = more /\ n.cur = cur
    BY <1>2, <1>3, <1>4 DEF Buffering
  <1> HIDE DEF n
  <1>6. TaskOK(n)
    BY <1>2, <1>3, <1>5 DEF TaskOK, q
  <1> QED
    BY <1>1, <1>5, <1>6 DEF q

LEMMA ReserveKeeps ==
    ASSUME LedgerInv, NEW t \in LedgerTasks, Reserve(t) PROVE LedgerInv'
  <1>1. PICK hint \in 0..BodyLimit : buffering' = [buffering EXCEPT ![t] = Ask(t, hint, 0)]
    BY DEF Reserve
  <1>2. /\ buffering[t].pc = "idle" /\ buffering[t].bytes \in Nat /\ 0 \in 0..BodyLimit
        /\ UNCHANGED <<reserved, peak>> /\ hint \in Nat
        /\ reserved \in Nat /\ reserved <= LedgerCeiling /\ peak \in 0..LedgerCeiling
    BY LedgerHere DEF Reserve, LedgerInv
  <1>3. /\ TaskOK(Ask(t, hint, 0)) /\ Ask(t, hint, 0).bytes = buffering[t].bytes
    BY <1>2, AskOK
  <1>m. MovesTo(t, Ask(t, hint, 0))
    BY <1>1, <1>2, <1>3 DEF MovesTo
  <1> QED
    BY <1>m, TaskMoves

LEMMA ChunkKeeps ==
    ASSUME LedgerInv, NEW t \in LedgerTasks, Chunk(t) PROVE LedgerInv'
  <1> DEFINE q == buffering[t]
  <1>1. PICK k \in 1..(BodyLimit - q.acc) :
          LET need == q.acc + k IN
          buffering' = [buffering EXCEPT ![t] =
            IF Covered(t, need) THEN [q EXCEPT !.acc = need]
            ELSE Ask(t, need - q.bytes, need)]
    BY Zenon DEF Chunk
  <1>2. /\ q \in Buffering /\ TaskOK(q) /\ q.bytes \in Nat /\ q.acc \in Nat /\ q.pc = "hold"
        /\ k \in Nat /\ q.acc + k \in 0..BodyLimit /\ BodyLimit \in Nat
        /\ UNCHANGED <<reserved, peak>>
        /\ reserved \in Nat /\ reserved <= LedgerCeiling /\ peak \in 0..LedgerCeiling
    BY LedgerHere DEF Chunk, LedgerInv, Buffering
  <1> DEFINE need == q.acc + k
  <1>3. CASE Covered(t, need)
    <2> DEFINE n == [q EXCEPT !.acc = need]
    <2>1. buffering' = [buffering EXCEPT ![t] = n]
      BY <1>1, <1>3
    <2>2. need \in 0..BodyLimit /\ (Disabled \/ need <= q.bytes)
      BY <1>2, <1>3 DEF Covered
    <2> HIDE DEF need, q
    <2>3. /\ n \in Buffering /\ n.acc = need /\ n.pc = q.pc /\ n.bytes = q.bytes
          /\ n.next = q.next /\ n.want = q.want /\ n.cur = q.cur
      BY <1>2, <2>2 DEF Buffering
    <2> HIDE DEF n
    <2>4. TaskOK(n)
      BY <1>2, <2>2, <2>3 DEF TaskOK
    <2>m. MovesTo(t, n)
      BY <1>2, <2>1, <2>3, <2>4 DEF MovesTo, q
    <2> QED
      BY <2>m, TaskMoves
  <1>4. CASE ~Covered(t, need)
    <2> DEFINE more == need - q.bytes
    <2>1. buffering' = [buffering EXCEPT ![t] = Ask(t, more, need)]
      BY <1>1, <1>4
    <2>2. /\ more \in 0..BodyLimit /\ need \in 0..BodyLimit /\ need <= q.bytes + more
          /\ more > 0 /\ ~Disabled
      BY <1>2, <1>4 DEF Covered
    <2> HIDE DEF need, more
    <2>3. TaskOK(Ask(t, more, need)) /\ Ask(t, more, need).bytes = q.bytes
      BY <1>2, <2>2, AskOK
    <2>m. MovesTo(t, Ask(t, more, need))
      BY <1>2, <2>1, <2>3 DEF MovesTo
    <2> QED
      BY <2>m, TaskMoves
  <1> QED
    BY <1>3, <1>4

\* The exchange adds what was asked for to the counter and to the reservation, within
\* the ceiling.
LEMMA ExchangeFacts ==
    ASSUME LedgerInv, NEW t \in LedgerTasks, Exchange(t)
    PROVE  /\ buffering[t].want \in 1..BodyLimit /\ buffering[t].pc = "loop"
           /\ reserved' = reserved + buffering[t].want
           /\ reserved + buffering[t].want <= LedgerCeiling
           /\ \E n \in Buffering :
                /\ buffering' = [buffering EXCEPT ![t] = n]
                /\ n.bytes = buffering[t].bytes + buffering[t].want
                /\ TaskOK(n)
  <1> DEFINE q == buffering[t]
             n == [q EXCEPT !.pc = "recordPeak", !.bytes = q.bytes + q.want, !.cur = reserved']
  <1>1. /\ q \in Buffering /\ TaskOK(q) /\ q.pc = "loop" /\ reserved = q.cur
        /\ q.want \in 1..BodyLimit /\ q.bytes \in Nat /\ q.bytes <= reserved
        /\ reserved \in Nat /\ LedgerCeiling \in Nat /\ LedgerWord \in Nat
        /\ LedgerCeiling < LedgerWord /\ BodyLimit \in Nat
    BY LedgerHere DEF Exchange, TaskOK
  <1>2. reserved + q.want <= LedgerCeiling /\ reserved' = reserved + q.want
    BY <1>1 DEF Exchange, Granted, CheckedAdd
  <1>3. buffering' = [buffering EXCEPT ![t] = n]
    BY <1>1 DEF Exchange
  <1> HIDE DEF q
  <1>4. reserved' \in 0..LedgerWord /\ q.bytes + q.want \in 0..LedgerWord
    BY <1>1, <1>2
  <1>5. /\ n \in Buffering /\ n.pc = "recordPeak" /\ n.bytes = q.bytes + q.want
        /\ n.acc = q.acc /\ n.next = q.next /\ n.want = q.want /\ n.cur = reserved'
    BY <1>1, <1>4 DEF Buffering
  <1> HIDE DEF n
  <1>6. TaskOK(n)
    <2>1. q.acc \in Nat /\ q.next \in Nat /\ q.want \in Nat
      BY <1>1 DEF Buffering
    <2> QED
      BY <1>1, <1>2, <1>5, <2>1 DEF TaskOK
  <1> QED
    BY <1>1, <1>2, <1>3, <1>5, <1>6 DEF q

LEMMA ExchangeKeeps ==
    ASSUME LedgerInv, NEW t \in LedgerTasks, Exchange(t) PROVE LedgerInv'
  <1>1. PICK n \in Buffering : /\ buffering' = [buffering EXCEPT ![t] = n]
                               /\ n.bytes = buffering[t].bytes + buffering[t].want
                               /\ TaskOK(n)
    BY ExchangeFacts
  <1>2. /\ buffering[t].want \in Nat /\ buffering[t].bytes \in Nat /\ reserved \in Nat
        /\ reserved' = reserved + buffering[t].want /\ reserved' <= LedgerCeiling
        /\ peak' \in 0..LedgerCeiling
    <2>1. buffering[t].want \in 1..BodyLimit /\ BodyLimit \in Nat
      BY LedgerHere, ExchangeFacts
    <2>2. reserved' = reserved + buffering[t].want
      BY ExchangeFacts
    <2>3. reserved + buffering[t].want <= LedgerCeiling
      BY ExchangeFacts
    <2>4. buffering[t].bytes \in Nat /\ reserved \in Nat /\ peak' \in 0..LedgerCeiling
      BY LedgerHere DEF Exchange, LedgerInv
    <2> QED
      BY <2>1, <2>2, <2>3, <2>4
  <1>m. MovesTo(t, n)
    BY <1>1, <1>2 DEF MovesTo
  <1> QED
    BY <1>m, TaskMoves

LEMMA ExchangeFailsKeeps ==
    ASSUME LedgerInv, NEW t \in LedgerTasks, ExchangeFails(t) PROVE LedgerInv'
  <1> DEFINE q == buffering[t]
             n == [q EXCEPT !.cur = reserved]
  <1>1. /\ q \in Buffering /\ TaskOK(q) /\ q.bytes \in Nat /\ reserved \in 0..LedgerWord
        /\ reserved <= LedgerCeiling /\ buffering' = [buffering EXCEPT ![t] = n]
        /\ UNCHANGED <<reserved, peak>> /\ peak \in 0..LedgerCeiling /\ reserved \in Nat
    BY LedgerHere DEF ExchangeFails, LedgerInv
  <1> HIDE DEF q
  <1>2. /\ n \in Buffering /\ n.pc = q.pc /\ n.bytes = q.bytes
        /\ n.acc = q.acc /\ n.next = q.next /\ n.want = q.want /\ n.cur = reserved
    BY <1>1 DEF Buffering
  <1> HIDE DEF n
  <1>3. TaskOK(n)
    BY <1>1, <1>2 DEF TaskOK
  <1>m. MovesTo(t, n)
    BY <1>1, <1>2, <1>3 DEF MovesTo, q
  <1> QED
    BY <1>m, TaskMoves

LEMMA RecordPeakKeeps ==
    ASSUME LedgerInv, NEW t \in LedgerTasks, RecordPeak(t) PROVE LedgerInv'
  <1> DEFINE q == buffering[t]
             n == [q EXCEPT !.pc = "hold", !.acc = q.next, !.next = 0, !.want = 0, !.cur = 0]
  <1>1. /\ q \in Buffering /\ TaskOK(q) /\ q.bytes \in Nat /\ q.pc = "recordPeak"
        /\ buffering' = [buffering EXCEPT ![t] = n] /\ UNCHANGED reserved
        /\ reserved \in Nat /\ reserved <= LedgerCeiling
    BY LedgerHere DEF RecordPeak
  <1>2. peak' \in 0..LedgerCeiling
    BY <1>1, LedgerHere DEF RecordPeak, TaskOK, Buffering, LedgerInv
  <1>3. 0 \in 0..BodyLimit /\ 0 \in 0..LedgerWord /\ LedgerCeiling \in Nat
    BY LedgerAssumption
  <1> HIDE DEF q
  <1>4. /\ n \in Buffering /\ n.pc = "hold" /\ n.bytes = q.bytes
        /\ n.acc = q.next /\ n.next = 0 /\ n.want = 0 /\ n.cur = 0
    BY <1>1, <1>3 DEF Buffering
  <1> HIDE DEF n
  <1>5. TaskOK(n)
    BY <1>1, <1>3, <1>4 DEF TaskOK
  <1>m. MovesTo(t, n)
    BY <1>1, <1>2, <1>4, <1>5 DEF MovesTo, q
  <1> QED
    BY <1>m, TaskMoves

\* Whoever is rejected or finishes gives back what the reservation held.
LEMMA ReleaseKeeps ==
    ASSUME LedgerInv, NEW t \in LedgerTasks, Reject(t) \/ Finish(t) PROVE LedgerInv'
  <1>1. /\ buffering' = [buffering EXCEPT ![t] = NoBuffering] /\ UNCHANGED peak
        /\ reserved' = reserved - buffering[t].bytes
    BY DEF Reject, Finish, Release
  <1>2. /\ buffering[t].bytes \in Nat /\ reserved \in Nat /\ peak \in 0..LedgerCeiling
        /\ reserved <= LedgerCeiling /\ LedgerCeiling \in Nat
    BY LedgerHere DEF LedgerInv
  <1>3. TaskOK(NoBuffering) /\ NoBuffering.bytes = 0
    BY LedgerAssumption DEF TaskOK, NoBuffering, Buffering
  <1>m. MovesTo(t, NoBuffering)
    BY <1>1, <1>2, <1>3 DEF MovesTo
  <1> QED
    BY <1>m, TaskMoves

LEMMA LedgerInitOK ==
    ASSUME LedgerInit PROVE LedgerInv
  <1>1. TaskOK(NoBuffering) /\ NoBuffering.bytes = 0 /\ NoBuffering \in Buffering
    BY LedgerAssumption DEF TaskOK, NoBuffering, Buffering
  <1>2. \A t \in LedgerTasks : buffering[t] = NoBuffering
    BY DEF LedgerInit
  <1>3. \A t \in LedgerTasks : HeldBy(buffering)[t] = 0
    BY <1>1, <1>2 DEF HeldBy
  <1>4. Sum(HeldBy(buffering), LedgerTasks) = 0
    <2>1. \A t \in LedgerTasks : HeldBy(buffering)[t] \in Nat
      BY <1>3
    <2> QED
      BY <1>3, <2>1, SumBounds, LedgerAssumption
  <1> QED
    BY <1>1, <1>2, <1>4, LedgerAssumption DEF LedgerInv, LedgerInit

LEMMA LedgerNextKeeps ==
    ASSUME LedgerInv, [LedgerNext]_ledgerVars PROVE LedgerInv'
  <1>1. CASE LedgerNext
    BY <1>1, ReserveKeeps, ExchangeKeeps, ExchangeFailsKeeps, RecordPeakKeeps, ReleaseKeeps,
       ChunkKeeps DEF LedgerNext
  <1>2. CASE UNCHANGED ledgerVars
    BY <1>2 DEF ledgerVars, LedgerInv
  <1> QED
    BY <1>1, <1>2

-----------------------------------------------------------------------------
(* The ledger                                                              *)

\* The counter, and what each task may hold beyond what it buffers.
THEOREM LedgerInvariant == LedgerSpec => []LedgerInv
  BY LedgerInitOK, LedgerNextKeeps, PTL DEF LedgerSpec

\* The counter never leaves its word, and no task's locals their ranges.
THEOREM LedgerTypeCorrect == LedgerSpec => []LedgerTypeOK
  <1>1. LedgerInv => LedgerTypeOK
    BY LedgerAssumption DEF LedgerInv, LedgerTypeOK
  <1> QED
    BY <1>1, LedgerInvariant, PTL

\* InflightLedger::reserved is exactly what the live Reservations hold.
THEOREM CounterExact == LedgerSpec => []LedgerCountsHeld
  <1>1. ASSUME LedgerInv PROVE LedgerCountsHeld
    <2>1. HeldBytes = HeldBy(buffering) /\ DOMAIN HeldBytes = LedgerTasks
      BY DEF HeldBytes, HeldBy
    <2>2. reserved = FoldFunction(+, 0, HeldBytes)
      BY <1>1, <2>1, FoldIsSum DEF LedgerInv
    <2>3. ~Disabled => \A t \in LedgerTasks : buffering[t].acc <= buffering[t].bytes
      BY <1>1 DEF LedgerInv, TaskOK
    <2> QED
      BY <2>2, <2>3 DEF LedgerCountsHeld
  <1> QED
    BY <1>1, LedgerInvariant, PTL

\* A step of the loop is a step of the abstract budget, or none.
LEMMA StepRefines ==
    ASSUME LedgerInv, [LedgerNext]_ledgerVars
    PROVE  [Budget!BudgetNext]_HeldBytes
  <1>1. HeldBytes = HeldBy(buffering) /\ HeldBytes' = HeldBy(buffering')
    BY DEF HeldBytes, HeldBy
  <1>2. Budget!Total = reserved
    <2>1. DOMAIN HeldBytes = LedgerTasks
      BY DEF HeldBytes
    <2>2. Budget!Total = (CHOOSE g : Folds(g, HeldBytes, DOMAIN HeldBytes))[DOMAIN HeldBytes]
      BY DEF Budget!Total, Budget!FoldFunction, Budget!FoldFunctionOnSet,
             Budget!MapThenFoldSet, Folds, First
    <2>3. Budget!Total = Sum(HeldBytes, LedgerTasks)
      BY <2>1, <2>2, SumUnfolds
    <2> QED
      BY <1>1, <2>2, <2>3 DEF LedgerInv
  <1>3. ASSUME NEW t \in LedgerTasks, NEW n \in Buffering,
               buffering' = [buffering EXCEPT ![t] = n]
        PROVE  HeldBy(buffering') = [HeldBy(buffering) EXCEPT ![t] = n.bytes]
    BY <1>3, HeldMoves DEF LedgerInv
  <1>4. ASSUME NEW t \in LedgerTasks, Exchange(t) PROVE Budget!Take(t)
    <2>1. PICK n \in Buffering : /\ buffering' = [buffering EXCEPT ![t] = n]
                                 /\ n.bytes = buffering[t].bytes + buffering[t].want
      BY <1>4, ExchangeFacts
    <2>2. HeldBytes' = [HeldBytes EXCEPT ![t] = HeldBytes[t] + buffering[t].want]
      BY <1>1, <1>3, <2>1 DEF HeldBy
    <2>3. buffering[t].want \in 1..BodyLimit /\ Budget!Total + buffering[t].want <= LedgerCeiling
      BY <1>2, <1>4, ExchangeFacts
    <2> QED
      BY <2>2, <2>3 DEF Budget!Take
  <1>5. ASSUME NEW t \in LedgerTasks, Reject(t) \/ Finish(t)
        PROVE  Budget!Give(t) \/ UNCHANGED HeldBytes
    <2>1. NoBuffering \in Buffering /\ NoBuffering.bytes = 0 /\ buffering[t].bytes \in Nat
      BY LedgerAssumption, LedgerHere DEF NoBuffering, Buffering
    <2>2. HeldBytes' = [HeldBytes EXCEPT ![t] = 0]
      BY <1>1, <1>3, <1>5, <2>1 DEF Reject, Finish
    <2>3. HeldBytes[t] = buffering[t].bytes
      BY DEF HeldBytes
    <2>4. CASE buffering[t].bytes > 0
      BY <2>2, <2>3, <2>4 DEF Budget!Give
    <2>5. CASE buffering[t].bytes = 0
      BY <2>2, <2>3, <2>5 DEF HeldBytes
    <2> QED
      BY <2>1, <2>4, <2>5
  <1>6. ASSUME NEW t \in LedgerTasks,
               Reserve(t) \/ ExchangeFails(t) \/ RecordPeak(t) \/ Chunk(t)
        PROVE  UNCHANGED HeldBytes
    <2>1. \A u \in LedgerTasks : buffering'[u].bytes = buffering[u].bytes
      <3>1. buffering \in [LedgerTasks -> Buffering]
        BY DEF LedgerInv
      <3>2. \A k, next : Ask(t, k, next).bytes = buffering[t].bytes
        BY <3>1 DEF Ask, Buffering
      <3>3. CASE Reserve(t)
        BY <3>1, <3>2, <3>3 DEF Reserve
      <3>4. CASE ExchangeFails(t)
        BY <3>1, <3>4 DEF ExchangeFails, Buffering
      <3>5. CASE RecordPeak(t)
        BY <3>1, <3>5 DEF RecordPeak, Buffering
      <3>6. CASE Chunk(t)
        <4>1. PICK k \in 1..(BodyLimit - buffering[t].acc) :
                LET need == buffering[t].acc + k IN
                buffering' = [buffering EXCEPT ![t] =
                  IF Covered(t, need) THEN [buffering[t] EXCEPT !.acc = need]
                  ELSE Ask(t, need - buffering[t].bytes, need)]
          BY <3>6, Zenon DEF Chunk
        <4>2. [buffering[t] EXCEPT !.acc = buffering[t].acc + k].bytes = buffering[t].bytes
          BY <3>1 DEF Buffering
        <4>3. CASE Covered(t, buffering[t].acc + k)
          BY <3>1, <4>1, <4>2, <4>3
        <4>4. CASE ~Covered(t, buffering[t].acc + k)
          BY <3>1, <3>2, <4>1, <4>4
        <4> QED
          BY <4>3, <4>4
      <3> QED
        BY <1>6, <3>3, <3>4, <3>5, <3>6
    <2> QED
      BY <2>1 DEF HeldBytes
  <1>7. CASE UNCHANGED ledgerVars
    BY <1>7 DEF ledgerVars, HeldBytes
  <1> QED
    BY <1>4, <1>5, <1>6, <1>7 DEF LedgerNext, Budget!BudgetNext

\* The counter and its loop implement ByteBudget: reservations are taken whole, given
\* back whole, and never add up to more than the ceiling.
THEOREM LedgerRefinesBudget == LedgerSpec => LedgerImplementsBudget
  <1>1. ASSUME LedgerInit PROVE Budget!BudgetInit
    BY <1>1 DEF LedgerInit, Budget!BudgetInit, HeldBytes, NoBuffering
  <1> QED
    BY <1>1, StepRefines, LedgerInvariant, PTL
       DEF LedgerSpec, LedgerImplementsBudget, Budget!BudgetSpec

-----------------------------------------------------------------------------
(***************************************************************************)
(* THE HEDGE GOVERNOR                                                      *)
(***************************************************************************)

\* A hedge claimed from its request's budget and neither sent nor returned.
ClaimPcs == {"claimed", "counting", "deciding"}

\* The fetches that hold a FetchGuard, a HedgeGuard, a claim on c's budget.
RacingIn(rc) == {f \in Fetches : rc[f].running}
HedgingIn(rc) == {f \in Fetches : rc[f].running /\ rc[f].hedge = "waiting"}
ClaimsIn(rc, c) ==
    {f \in Fetches : rc[f].running /\ rc[f].hedge \in ClaimPcs /\ ClientOf[f] = c}

\* An arm that is not racing sleeps.
Asleep(q) == ~q.running => q.hedge = "sleeping"

\* The budget a request has left, what its fetches have claimed and what was sent
\* never add up to more than the rule gave it.
BudgetSplit(c) ==
    issued[c] + budget[c] + Cardinality(ClaimsIn(race, c)) <= HedgeBudget

HedgeInv ==
    /\ race \in [Fetches -> Race]
    /\ \A f \in Fetches : Asleep(race[f])
    /\ inflightFetches = Cardinality(RacingIn(race))
    /\ inflightHedges = Cardinality(HedgingIn(race))
    /\ budget \in [Clients -> Nat] /\ issued \in [Clients -> Nat]
    /\ \A c \in Clients : BudgetSplit(c)

-----------------------------------------------------------------------------
(* Counting the guards                                                     *)

LEMMA GuardsFinite ==
    ASSUME NEW rc, NEW c
    PROVE  /\ IsFiniteSet(RacingIn(rc)) /\ IsFiniteSet(HedgingIn(rc))
           /\ IsFiniteSet(ClaimsIn(rc, c))
           /\ Cardinality(RacingIn(rc)) \in 0..Cardinality(Fetches)
           /\ Cardinality(HedgingIn(rc)) \in 0..Cardinality(Fetches)
           /\ Cardinality(ClaimsIn(rc, c)) \in Nat
  <1>1. IsFiniteSet(Fetches)
    BY HedgeAssumption
  <1>2. /\ RacingIn(rc) \subseteq Fetches /\ HedgingIn(rc) \subseteq Fetches
        /\ ClaimsIn(rc, c) \subseteq Fetches
    BY DEF RacingIn, HedgingIn, ClaimsIn
  <1> QED
    BY <1>1, <1>2, FS_Subset, FS_CardinalityType

\* Whether an element joins a set, leaves it or stays as it is.
DifferAt(S, T, f) == \A g : g # f => (g \in S <=> g \in T)
Shift(was, is) == (IF is THEN 1 ELSE 0) - (IF was THEN 1 ELSE 0)

LEMMA CountShifts ==
    ASSUME NEW S, NEW T, NEW f, IsFiniteSet(S),
           DifferAt(S, T, f)
    PROVE  Cardinality(T) = Cardinality(S) + Shift(f \in S, f \in T)
  <1>1. CASE f \in S /\ f \notin T
    <2>1. T = S \ {f}
      BY <1>1 DEF DifferAt
    <2>2. Cardinality(T) = Cardinality(S) - 1 /\ Cardinality(S) \in Nat
      BY <1>1, <2>1, FS_RemoveElement, FS_CardinalityType
    <2> QED
      BY <1>1, <2>2 DEF Shift
  <1>2. CASE f \notin S /\ f \in T
    <2>1. T = S \cup {f}
      BY <1>2 DEF DifferAt
    <2> QED
      BY <1>2, <2>1, FS_AddElement, FS_CardinalityType DEF Shift
  <1>3. CASE f \in S <=> f \in T
    <2>1. T = S
      BY <1>3 DEF DifferAt
    <2> QED
      BY <1>3, <2>1, FS_CardinalityType DEF Shift
  <1> QED
    BY <1>1, <1>2, <1>3

\* One fetch moves: each count shifts by what it held and what it holds.
LEMMA CountsMove ==
    ASSUME race \in [Fetches -> Race], NEW f \in Fetches, NEW n \in Race,
           race' = [race EXCEPT ![f] = n]
    PROVE  /\ race' \in [Fetches -> Race]
           /\ race'[f] = n /\ \A g \in Fetches : g # f => race'[g] = race[g]
           /\ Cardinality(RacingIn(race')) =
                Cardinality(RacingIn(race)) + Shift(race[f].running, n.running)
           /\ Cardinality(HedgingIn(race')) =
                Cardinality(HedgingIn(race))
                  + Shift(race[f].running /\ race[f].hedge = "waiting",
                          n.running /\ n.hedge = "waiting")
           /\ \A c : Cardinality(ClaimsIn(race', c)) =
                Cardinality(ClaimsIn(race, c))
                  + Shift(race[f].running /\ race[f].hedge \in ClaimPcs /\ ClientOf[f] = c,
                          n.running /\ n.hedge \in ClaimPcs /\ ClientOf[f] = c)
  <1>1. /\ race' \in [Fetches -> Race]
        /\ race'[f] = n /\ \A g \in Fetches : g # f => race'[g] = race[g]
    OBVIOUS
  <1>2. /\ DifferAt(RacingIn(race), RacingIn(race'), f)
        /\ f \in RacingIn(race) <=> race[f].running
        /\ f \in RacingIn(race') <=> n.running
    BY <1>1 DEF RacingIn, DifferAt
  <1>3. /\ DifferAt(HedgingIn(race), HedgingIn(race'), f)
        /\ f \in HedgingIn(race) <=> race[f].running /\ race[f].hedge = "waiting"
        /\ f \in HedgingIn(race') <=> n.running /\ n.hedge = "waiting"
    BY <1>1 DEF HedgingIn, DifferAt
  <1>4. ASSUME NEW c
        PROVE  /\ DifferAt(ClaimsIn(race, c), ClaimsIn(race', c), f)
               /\ f \in ClaimsIn(race, c) <=>
                    race[f].running /\ race[f].hedge \in ClaimPcs /\ ClientOf[f] = c
               /\ f \in ClaimsIn(race', c) <=>
                    n.running /\ n.hedge \in ClaimPcs /\ ClientOf[f] = c
    BY <1>1 DEF ClaimsIn, DifferAt
  <1>5. Cardinality(RacingIn(race')) =
          Cardinality(RacingIn(race)) + Shift(f \in RacingIn(race), f \in RacingIn(race'))
    <2>1. IsFiniteSet(RacingIn(race))
      BY GuardsFinite
    <2> QED
      BY <1>2, <2>1, CountShifts
  <1>6. Cardinality(HedgingIn(race')) =
          Cardinality(HedgingIn(race)) + Shift(f \in HedgingIn(race), f \in HedgingIn(race'))
    <2>1. IsFiniteSet(HedgingIn(race))
      BY GuardsFinite
    <2> QED
      BY <1>3, <2>1, CountShifts
  <1>7. \A c : Cardinality(ClaimsIn(race', c)) =
          Cardinality(ClaimsIn(race, c))
            + Shift(f \in ClaimsIn(race, c), f \in ClaimsIn(race', c))
    BY <1>4, CountShifts, GuardsFinite
  <1>8. \A c : Cardinality(ClaimsIn(race', c)) =
                Cardinality(ClaimsIn(race, c))
                  + Shift(race[f].running /\ race[f].hedge \in ClaimPcs /\ ClientOf[f] = c,
                          n.running /\ n.hedge \in ClaimPcs /\ ClientOf[f] = c)
    BY <1>4, <1>7 DEF Shift
  <1> QED
    BY <1>1, <1>2, <1>3, <1>5, <1>6, <1>8 DEF Shift

-----------------------------------------------------------------------------
(* Every step keeps the invariant                                          *)

\* What a fetch holds of the three counts.
Holds(q) == q.running /\ q.hedge = "waiting"
Claims(q, f, c) == q.running /\ q.hedge \in ClaimPcs /\ ClientOf[f] = c

LEMMA FetchMoves ==
    ASSUME HedgeInv, NEW f \in Fetches, NEW n \in Race, race' = [race EXCEPT ![f] = n],
           Asleep(n),
           inflightFetches' = inflightFetches + Shift(race[f].running, n.running),
           inflightHedges' = inflightHedges + Shift(Holds(race[f]), Holds(n)),
           budget' \in [Clients -> Nat], issued' \in [Clients -> Nat],
           \A c \in Clients :
             issued'[c] + budget'[c] + Shift(Claims(race[f], f, c), Claims(n, f, c))
               <= issued[c] + budget[c]
    PROVE  HedgeInv'
  <1>1. /\ race' \in [Fetches -> Race]
        /\ race'[f] = n /\ \A g \in Fetches : g # f => race'[g] = race[g]
        /\ inflightFetches' = Cardinality(RacingIn(race'))
        /\ inflightHedges' = Cardinality(HedgingIn(race'))
        /\ \A c : Cardinality(ClaimsIn(race', c)) =
             Cardinality(ClaimsIn(race, c)) + Shift(Claims(race[f], f, c), Claims(n, f, c))
    BY CountsMove DEF HedgeInv, Holds, Claims
  <1>2. \A g \in Fetches : Asleep(race'[g])
    BY <1>1 DEF HedgeInv
  <1>3. ASSUME NEW c \in Clients
        PROVE  issued'[c] + budget'[c] + Cardinality(ClaimsIn(race', c)) <= HedgeBudget
    <2>1. /\ Cardinality(ClaimsIn(race, c)) \in Nat
          /\ Cardinality(ClaimsIn(race', c)) \in Nat
      BY GuardsFinite
    <2>2. /\ issued[c] \in Nat /\ budget[c] \in Nat /\ issued'[c] \in Nat /\ budget'[c] \in Nat
          /\ issued[c] + budget[c] + Cardinality(ClaimsIn(race, c)) <= HedgeBudget
          /\ HedgeBudget \in Nat
      BY HedgeAssumption DEF HedgeInv, BudgetSplit
    <2> DEFINE d == Shift(Claims(race[f], f, c), Claims(n, f, c))
    <2>3. d \in Int
      BY DEF Shift
    <2>4. Cardinality(ClaimsIn(race', c)) = Cardinality(ClaimsIn(race, c)) + d
      BY <1>1
    <2>5. issued'[c] + budget'[c] + d <= issued[c] + budget[c]
      OBVIOUS
    <2> HIDE DEF d
    <2> QED
      BY <2>1, <2>2, <2>3, <2>4, <2>5
  <1> QED
    BY <1>1, <1>2, <1>3 DEF HedgeInv, BudgetSplit

\* The fetch as it is before it moves.
LEMMA HedgeHere ==
    ASSUME HedgeInv, NEW f \in Fetches
    PROVE  /\ race[f] \in Race /\ Asleep(race[f]) /\ ClientOf[f] \in Clients
           /\ inflightFetches \in 0..Cardinality(Fetches)
           /\ inflightHedges \in 0..Cardinality(Fetches)
           /\ 0 \in 0..Cardinality(Fetches) /\ Cardinality(Fetches) \in Nat
           /\ \A c \in Clients : issued[c] \in Nat /\ budget[c] \in Nat
           /\ budget \in [Clients -> Nat] /\ issued \in [Clients -> Nat]
  <1>1. Cardinality(Fetches) \in Nat
    BY HedgeAssumption, FS_CardinalityType
  <1> QED
    BY <1>1, GuardsFinite DEF HedgeInv, Clients

\* What the steps that leave budget and history alone have in common.
LEMMA BudgetKept ==
    ASSUME HedgeInv, NEW f \in Fetches, NEW n, UNCHANGED <<budget, issued>>,
           n.running /\ n.hedge \in ClaimPcs => race[f].running /\ race[f].hedge \in ClaimPcs
    PROVE  /\ budget' \in [Clients -> Nat] /\ issued' \in [Clients -> Nat]
           /\ \A c \in Clients :
                issued'[c] + budget'[c] + Shift(Claims(race[f], f, c), Claims(n, f, c))
                  <= issued[c] + budget[c]
  BY HedgeHere DEF Shift, Claims

LEMMA StartKeeps ==
    ASSUME HedgeInv, NEW f \in Fetches, StartFetch(f) PROVE HedgeInv'
  <1> DEFINE q == race[f]
             n == [q EXCEPT !.running = TRUE]
  <1>1. q \in Race /\ Asleep(q) /\ ~q.running /\ race' = [race EXCEPT ![f] = n]
    BY HedgeHere DEF StartFetch, Racing
  <1>2. n \in Race /\ n.running /\ n.hedge = q.hedge /\ q.hedge = "sleeping"
    BY <1>1 DEF Race, Asleep
  <1> HIDE DEF n
  <1>3. /\ inflightFetches' = inflightFetches + Shift(q.running, n.running)
        /\ inflightHedges' = inflightHedges + Shift(Holds(q), Holds(n))
    BY <1>1, <1>2, HedgeHere DEF StartFetch, Shift, Holds
  <1>4. /\ Asleep(n) /\ UNCHANGED <<budget, issued>>
        /\ ~(n.running /\ n.hedge \in ClaimPcs)
    BY <1>2 DEF Asleep, StartFetch, ClaimPcs
  <1> QED
    BY <1>1, <1>2, <1>3, <1>4, BudgetKept, FetchMoves

\* The race is over: both guards are dropped.
LEMMA EndKeeps ==
    ASSUME HedgeInv, NEW f \in Fetches, NEW n \in Race, Racing(f), EndRace(f, n),
           ~n.running, n.hedge = "sleeping"
    PROVE  HedgeInv'
  <1> DEFINE q == race[f]
  <1>1. q \in Race /\ q.running /\ race' = [race EXCEPT ![f] = n]
    BY HedgeHere DEF EndRace, Racing
  <1>2. /\ inflightFetches' = inflightFetches + Shift(q.running, n.running)
        /\ inflightHedges' = inflightHedges + Shift(Holds(q), Holds(n))
    BY <1>1, HedgeHere DEF EndRace, Shift, Holds
  <1>3. Asleep(n) /\ UNCHANGED <<budget, issued>> /\ ~(n.running /\ n.hedge \in ClaimPcs)
    BY DEF Asleep, EndRace
  <1> QED
    BY <1>1, <1>2, <1>3, BudgetKept, FetchMoves

LEMMA NewRaceOK ==
    ASSUME NEW attempt \in 0..MaxRetries, HedgeInv, NEW f \in Fetches
    PROVE  /\ NewRace(attempt, FALSE) \in Race /\ ~NewRace(attempt, FALSE).running
           /\ NewRace(attempt, FALSE).hedge = "sleeping"
           /\ \A outcome \in Outcomes :
                /\ Ended(f, outcome) \in Race /\ ~Ended(f, outcome).running
                /\ Ended(f, outcome).hedge = "sleeping"
  <1>1. 0 \in 0..MaxRetries /\ 0 \in 0..Cardinality(Fetches)
    BY HedgeHere, HedgeAssumption
  <1> QED
    BY <1>1 DEF NewRace, Ended, Race, Outcomes

LEMMA AnyEndKeeps ==
    ASSUME HedgeInv, NEW f \in Fetches,
           OriginalAnswers(f) \/ HedgeAnswers(f) \/ NobodyWins(f) \/ CancelFetch(f)
    PROVE  HedgeInv'
  <1>1. ASSUME NEW outcome \in Outcomes, Racing(f), EndRace(f, Ended(f, outcome))
        PROVE  HedgeInv'
    <2>1. 0 \in 0..MaxRetries
      BY HedgeAssumption
    <2>2. /\ Ended(f, outcome) \in Race /\ ~Ended(f, outcome).running
          /\ Ended(f, outcome).hedge = "sleeping"
      BY <2>1, NewRaceOK
    <2> QED
      BY <1>1, <2>2, EndKeeps
  <1>2. CASE OriginalAnswers(f) \/ HedgeAnswers(f) \/ CancelFetch(f)
    BY <1>1, <1>2 DEF OriginalAnswers, HedgeAnswers, CancelFetch, Outcomes
  <1>3. CASE NobodyWins(f)
    <2>1. CASE AllTimedOut(f) /\ race[f].attempt < MaxRetries
      <3> DEFINE n == NewRace(race[f].attempt + 1, FALSE)
      <3>1. race[f].attempt + 1 \in 0..MaxRetries
        BY <2>1, HedgeHere, HedgeAssumption DEF Race
      <3>2. n \in Race /\ ~n.running /\ n.hedge = "sleeping"
        BY <3>1, NewRaceOK
      <3>3. Racing(f) /\ EndRace(f, n)
        BY <1>3, <2>1 DEF NobodyWins
      <3> HIDE DEF n
      <3> QED
        BY <3>2, <3>3, EndKeeps
    <2>2. CASE ~(AllTimedOut(f) /\ race[f].attempt < MaxRetries)
      <3>1. Racing(f) /\ \E outcome \in Outcomes : EndRace(f, Ended(f, outcome))
        BY <1>3, <2>2 DEF NobodyWins, Outcomes
      <3> QED
        BY <1>1, <3>1
    <2> QED
      BY <2>1, <2>2
  <1> QED
    BY <1>2, <1>3

\* The counters are read, or an arm of the race fails without a guard to drop.
LEMMA QuietKeeps ==
    ASSUME HedgeInv, NEW f \in Fetches, OriginalFails(f) \/ LoadFetches(f) \/ LoadHedges(f)
    PROVE  HedgeInv'
  <1> DEFINE q == race[f]
  <1>1. /\ q \in Race /\ q.running
        /\ UNCHANGED <<inflightFetches, inflightHedges, budget, issued>>
    BY HedgeHere DEF OriginalFails, LoadFetches, LoadHedges, Racing
  <1>2. \E n \in Race : /\ race' = [race EXCEPT ![f] = n] /\ n.running
                        /\ \/ n.hedge = q.hedge
                           \/ n.hedge \in ClaimPcs /\ q.hedge \in ClaimPcs
    <2>1. CASE OriginalFails(f)
      <3>1. PICK how \in {"timeout", "error"} : race' = [race EXCEPT ![f].original = how]
        BY <2>1 DEF OriginalFails
      <3> DEFINE n == [q EXCEPT !.original = how]
      <3>2. n \in Race /\ n.running /\ n.hedge = q.hedge
        BY <1>1 DEF Race
      <3>3. race' = [race EXCEPT ![f] = n]
        BY <3>1
      <3> QED
        BY <3>2, <3>3
    <2>2. CASE LoadFetches(f)
      <3> DEFINE n == [q EXCEPT !.hedge = "counting", !.fetchesSeen = inflightFetches]
      <3>1. n \in Race /\ n.running /\ n.hedge \in ClaimPcs /\ q.hedge \in ClaimPcs
        BY <1>1, <2>2, HedgeHere DEF Race, LoadFetches, ClaimPcs
      <3>2. race' = [race EXCEPT ![f] = n]
        BY <2>2 DEF LoadFetches
      <3> QED
        BY <3>1, <3>2
    <2>3. CASE LoadHedges(f)
      <3> DEFINE n == [q EXCEPT !.hedge = "deciding", !.hedgesSeen = inflightHedges]
      <3>1. n \in Race /\ n.running /\ n.hedge \in ClaimPcs /\ q.hedge \in ClaimPcs
        BY <1>1, <2>3, HedgeHere DEF Race, LoadHedges, ClaimPcs
      <3>2. race' = [race EXCEPT ![f] = n]
        BY <2>3 DEF LoadHedges
      <3> QED
        BY <3>1, <3>2
    <2> QED
      BY <2>1, <2>2, <2>3
  <1>3. PICK n \in Race : /\ race' = [race EXCEPT ![f] = n] /\ n.running
                          /\ \/ n.hedge = q.hedge
                             \/ n.hedge \in ClaimPcs /\ q.hedge \in ClaimPcs
    BY <1>2
  <1>4. /\ inflightFetches' = inflightFetches + Shift(q.running, n.running)
        /\ inflightHedges' = inflightHedges + Shift(Holds(q), Holds(n))
    BY <1>1, <1>3, HedgeHere DEF Shift, Holds, ClaimPcs
  <1>5. /\ Asleep(n)
        /\ n.running /\ n.hedge \in ClaimPcs => q.running /\ q.hedge \in ClaimPcs
    BY <1>1, <1>3 DEF Asleep
  <1> QED
    BY <1>1, <1>3, <1>4, <1>5, BudgetKept, FetchMoves

\* The hedge arm as Arm leaves it.
LEMMA Armed ==
    ASSUME HedgeInv, NEW f \in Fetches, Racing(f), NEW state, Arm(f, state),
           state \in {"claimed", "waiting", "absent", "timeout", "error"}
    PROVE  \E n \in Race : /\ race' = [race EXCEPT ![f] = n] /\ n.running
                           /\ n.hedge = state /\ Asleep(n)
  <1> DEFINE q == race[f]
             n == [q EXCEPT !.hedge = state, !.fetchesSeen = 0, !.hedgesSeen = 0]
  <1>1. q \in Race /\ q.running /\ 0 \in 0..Cardinality(Fetches)
    BY HedgeHere DEF Racing
  <1>2. n \in Race /\ n.running /\ n.hedge = state
    BY <1>1 DEF Race
  <1>3. race' = [race EXCEPT ![f] = n]
    BY DEF Arm
  <1> QED
    BY <1>2, <1>3 DEF Asleep

LEMMA TriggerKeeps ==
    ASSUME HedgeInv, NEW f \in Fetches, Trigger(f) PROVE HedgeInv'
  <1> DEFINE q == race[f]
             c == ClientOf[f]
             state == IF budget[c] > 0 THEN "claimed" ELSE "absent"
  <1>1. /\ q \in Race /\ q.running /\ q.hedge = "sleeping" /\ Racing(f) /\ c \in Clients
        /\ Arm(f, state) /\ state \in {"claimed", "absent"}
        /\ UNCHANGED <<inflightFetches, inflightHedges, issued>>
        /\ budget' = IF budget[c] > 0 THEN [budget EXCEPT ![c] = @ - 1] ELSE budget
    BY HedgeHere DEF Trigger, Racing
  <1>2. PICK n \in Race : /\ race' = [race EXCEPT ![f] = n] /\ n.running
                          /\ n.hedge = state /\ Asleep(n)
    BY <1>1, Armed
  <1>3. /\ inflightFetches' = inflightFetches + Shift(q.running, n.running)
        /\ inflightHedges' = inflightHedges + Shift(Holds(q), Holds(n))
    BY <1>1, <1>2, HedgeHere DEF Shift, Holds
  <1>4. budget' \in [Clients -> Nat] /\ issued' \in [Clients -> Nat]
    BY <1>1, HedgeHere
  <1>5. ASSUME NEW d \in Clients
        PROVE  issued'[d] + budget'[d] + Shift(Claims(q, f, d), Claims(n, f, d))
                 <= issued[d] + budget[d]
    <2>1. issued[d] \in Nat /\ budget[d] \in Nat /\ issued' = issued
      BY <1>1, HedgeHere
    <2>2. budget'[d] = IF d = c /\ budget[d] > 0 THEN budget[d] - 1 ELSE budget[d]
      BY <1>1, HedgeHere
    <2>3. Shift(Claims(q, f, d), Claims(n, f, d)) = IF d = c /\ budget[d] > 0 THEN 1 ELSE 0
      BY <1>1, <1>2 DEF Claims, ClaimPcs, Shift
    <2> QED
      BY <2>1, <2>2, <2>3
  <1> QED
    BY <1>2, <1>3, <1>4, <1>5, FetchMoves

LEMMA AdmitKeeps ==
    ASSUME HedgeInv, NEW f \in Fetches, Admit(f) PROVE HedgeInv'
  <1> DEFINE q == race[f]
             c == ClientOf[f]
  <1>1. /\ q \in Race /\ q.running /\ q.hedge = "deciding" /\ Racing(f) /\ c \in Clients
        /\ Arm(f, "waiting") /\ UNCHANGED <<inflightFetches, budget>>
        /\ inflightHedges' = inflightHedges + 1
        /\ issued' = [issued EXCEPT ![c] = @ + 1]
    BY HedgeHere DEF Admit, Racing
  <1>2. PICK n \in Race : /\ race' = [race EXCEPT ![f] = n] /\ n.running
                          /\ n.hedge = "waiting" /\ Asleep(n)
    BY <1>1, Armed
  <1>3. /\ inflightFetches' = inflightFetches + Shift(q.running, n.running)
        /\ inflightHedges' = inflightHedges + Shift(Holds(q), Holds(n))
    BY <1>1, <1>2, HedgeHere DEF Shift, Holds
  <1>4. budget' \in [Clients -> Nat] /\ issued' \in [Clients -> Nat]
    BY <1>1, HedgeHere
  <1>5. ASSUME NEW d \in Clients
        PROVE  issued'[d] + budget'[d] + Shift(Claims(q, f, d), Claims(n, f, d))
                 <= issued[d] + budget[d]
    <2>1. issued[d] \in Nat /\ budget[d] \in Nat /\ budget' = budget
      BY <1>1, HedgeHere
    <2>2. issued'[d] = IF d = c THEN issued[d] + 1 ELSE issued[d]
      BY <1>1, HedgeHere
    <2>3. Shift(Claims(q, f, d), Claims(n, f, d)) = IF d = c THEN -1 ELSE 0
      BY <1>1, <1>2 DEF Claims, ClaimPcs, Shift
    <2> QED
      BY <2>1, <2>2, <2>3
  <1> QED
    BY <1>2, <1>3, <1>4, <1>5, FetchMoves

LEMMA SuppressKeeps ==
    ASSUME HedgeInv, NEW f \in Fetches, Suppress(f) PROVE HedgeInv'
  <1> DEFINE q == race[f]
             c == ClientOf[f]
  <1>1. /\ q \in Race /\ q.running /\ q.hedge = "deciding" /\ Racing(f) /\ c \in Clients
        /\ Arm(f, "absent") /\ UNCHANGED <<inflightFetches, inflightHedges, issued>>
        /\ budget' = [budget EXCEPT ![c] = @ + 1]
    BY HedgeHere DEF Suppress, Refund, Racing
  <1>2. PICK n \in Race : /\ race' = [race EXCEPT ![f] = n] /\ n.running
                          /\ n.hedge = "absent" /\ Asleep(n)
    BY <1>1, Armed
  <1>3. /\ inflightFetches' = inflightFetches + Shift(q.running, n.running)
        /\ inflightHedges' = inflightHedges + Shift(Holds(q), Holds(n))
    BY <1>1, <1>2, HedgeHere DEF Shift, Holds
  <1>4. budget' \in [Clients -> Nat] /\ issued' \in [Clients -> Nat]
    BY <1>1, HedgeHere
  <1>5. ASSUME NEW d \in Clients
        PROVE  issued'[d] + budget'[d] + Shift(Claims(q, f, d), Claims(n, f, d))
                 <= issued[d] + budget[d]
    <2>1. issued[d] \in Nat /\ budget[d] \in Nat /\ issued' = issued
      BY <1>1, HedgeHere
    <2>2. budget'[d] = IF d = c THEN budget[d] + 1 ELSE budget[d]
      BY <1>1, HedgeHere
    <2>3. Shift(Claims(q, f, d), Claims(n, f, d)) = IF d = c THEN -1 ELSE 0
      BY <1>1, <1>2 DEF Claims, ClaimPcs, Shift
    <2> QED
      BY <2>1, <2>2, <2>3
  <1> QED
    BY <1>2, <1>3, <1>4, <1>5, FetchMoves

LEMMA HedgeFailsKeeps ==
    ASSUME HedgeInv, NEW f \in Fetches, HedgeFails(f) PROVE HedgeInv'
  <1> DEFINE q == race[f]
  <1>1. /\ q \in Race /\ q.running /\ q.hedge = "waiting" /\ Racing(f)
        /\ UNCHANGED <<inflightFetches, budget, issued>>
        /\ inflightHedges' = inflightHedges - 1
    BY HedgeHere DEF HedgeFails, DropHedgeGuard, Racing
  <1>2. PICK how \in {"timeout", "error"} : Arm(f, how)
    BY DEF HedgeFails
  <1>3. PICK n \in Race : /\ race' = [race EXCEPT ![f] = n] /\ n.running
                          /\ n.hedge = how /\ Asleep(n)
    BY <1>1, <1>2, Armed
  <1>4. /\ inflightFetches' = inflightFetches + Shift(q.running, n.running)
        /\ inflightHedges' = inflightHedges + Shift(Holds(q), Holds(n))
    BY <1>1, <1>2, <1>3, HedgeHere DEF Shift, Holds
  <1>5. ~(n.running /\ n.hedge \in ClaimPcs)
    BY <1>2, <1>3 DEF ClaimPcs
  <1> QED
    BY <1>1, <1>3, <1>4, <1>5, BudgetKept, FetchMoves

LEMMA HedgeInitOK ==
    ASSUME HedgeInit PROVE HedgeInv
  <1>1. \A f \in Fetches : /\ race[f] \in Race /\ ~race[f].running
                           /\ race[f].hedge = "sleeping"
    <2>1. 0 \in 0..MaxRetries /\ 0 \in 0..Cardinality(Fetches)
      BY HedgeAssumption, FS_CardinalityType
    <2> QED
      BY <2>1 DEF HedgeInit, NewRace, Race, Outcomes
  <1>2. race \in [Fetches -> Race] /\ \A f \in Fetches : Asleep(race[f])
    BY <1>1 DEF HedgeInit, Asleep
  <1>3. RacingIn(race) = {} /\ HedgingIn(race) = {} /\ \A c : ClaimsIn(race, c) = {}
    BY <1>1 DEF RacingIn, HedgingIn, ClaimsIn
  <1>4. ASSUME NEW c \in Clients PROVE BudgetSplit(c)
    <2>1. Cardinality(ClaimsIn(race, c)) = 0
      BY <1>3, FS_EmptySet
    <2>2. issued[c] = 0 /\ budget[c] = HedgeBudget
      BY DEF HedgeInit
    <2> QED
      BY <2>1, <2>2, HedgeAssumption DEF BudgetSplit
  <1>5. /\ inflightFetches = Cardinality(RacingIn(race))
        /\ inflightHedges = Cardinality(HedgingIn(race))
    BY <1>3, FS_EmptySet DEF HedgeInit
  <1>6. budget \in [Clients -> Nat] /\ issued \in [Clients -> Nat]
    BY HedgeAssumption DEF HedgeInit
  <1> QED
    BY <1>2, <1>4, <1>5, <1>6 DEF HedgeInv

LEMMA HedgeNextKeeps ==
    ASSUME HedgeInv, [HedgeNext]_hedgeVars PROVE HedgeInv'
  <1>1. ASSUME NEW f \in Fetches, FetchStep(f) \/ CancelFetch(f) PROVE HedgeInv'
    BY <1>1, StartKeeps, AnyEndKeeps, QuietKeeps, TriggerKeeps, AdmitKeeps, SuppressKeeps,
       HedgeFailsKeeps DEF FetchStep
  <1>2. ASSUME UNCHANGED hedgeVars PROVE HedgeInv'
    BY <1>2 DEF hedgeVars, HedgeInv, BudgetSplit
  <1> QED
    BY <1>1, <1>2 DEF HedgeNext, HedgeDone

-----------------------------------------------------------------------------
(* The governor                                                            *)

\* Guards, claims and budgets as the counters have them, in every behaviour.
THEOREM HedgeInvariant == HedgeSpec => []HedgeInv
  BY HedgeInitOK, HedgeNextKeeps, PTL DEF HedgeSpec

\* The loads of try_admit_hedge and the counters they read have their types.
THEOREM HedgeTypeCorrect == HedgeSpec => []HedgeTypeOK
  <1>1. ASSUME HedgeInv PROVE HedgeTypeOK
    <2>1. ASSUME NEW c \in Clients PROVE budget[c] \in 0..HedgeBudget
      <3>1. Cardinality(ClaimsIn(race, c)) \in Nat
        BY GuardsFinite
      <3> QED
        BY <1>1, <3>1, HedgeAssumption DEF HedgeInv, BudgetSplit
    <2> QED
      BY <1>1, <2>1, GuardsFinite DEF HedgeInv, HedgeTypeOK
  <1> QED
    BY <1>1, HedgeInvariant, PTL

\* HedgeGovernor: in every interleaving the two counters are the fetches and the
\* hedges under way.
THEOREM GovernorExact == HedgeSpec => []GovernorCountsGuards
  <1>1. HedgeInv => GovernorCountsGuards
    BY DEF HedgeInv, GovernorCountsGuards, RacingIn, HedgingIn, Racing
  <1> QED
    BY <1>1, HedgeInvariant, PTL

\* hedge_max_per_request bounds what the sub-fetches and the retries of one client
\* request send together.
THEOREM BudgetHolds == HedgeSpec => []HedgesWithinBudget
  <1>1. ASSUME HedgeInv PROVE HedgesWithinBudget
    <2>1. ASSUME NEW c \in Clients PROVE issued[c] <= HedgeBudget
      <3>1. Cardinality(ClaimsIn(race, c)) \in Nat
        BY GuardsFinite
      <3> QED
        BY <1>1, <3>1, HedgeAssumption DEF HedgeInv, BudgetSplit
    <2> QED
      BY <2>1 DEF HedgesWithinBudget
  <1> QED
    BY <1>1, HedgeInvariant, PTL

-----------------------------------------------------------------------------
(***************************************************************************)
(* THE RAM CACHE                                                           *)
(***************************************************************************)

\* Under LRU the order lists the keys of H, each once; otherwise it is unused.
Fits(order, H) == IF algorithm = "LRU" THEN Enumerates(order, H) ELSE order = <<>>

\* While a put is in progress, its entry fits the shard once room was made.
RamInv ==
    /\ Held \subseteq RamKeys /\ \A k \in Held : ramData[k] \in Nat \ {0}
    /\ ramSize = Sum(ramData, Held) /\ ramSize <= RamCapacity
    /\ Fits(lruOrder, Held)
    /\ pending \in Seq(RamKeys)
    /\ noting \in [RamReaders -> RamKeys \cup {NoKey}]
    /\ ~Unlocked => /\ putting.key \in RamKeys /\ putting.size \in Nat \ {0}
                    /\ putting.size <= RamCapacity

LEMMA HeldFinite == ASSUME RamInv PROVE IsFiniteSet(Held)
  BY RamAssumption, FS_Subset DEF RamInv

LEMMA UntrackedFits ==
    ASSUME NEW H, NEW order, Fits(order, H), NEW k
    PROVE  Fits(Untracked(order, k), H \ {k})
  <1>1. CASE algorithm = "LRU"
    <2>1. Enumerates(order, H)
      BY <1>1 DEF Fits
    <2>2. order \in Seq(H) /\ DOMAIN order = 1..Len(order) /\ Len(order) \in Nat /\ ToSet(order) = H
      BY <2>1 DEF Enumerates
    <2>3. CASE k \in H
      <3> DEFINE I == {i \in 1..Len(order) : order[i] = k}
      <3>1. I # {} /\ I \subseteq Nat
        BY <2>2, <2>3 DEF ToSet
      <3>2. \E x \in I : \A y \in I : x <= y
        <4> HIDE DEF I
        <4> QED
          BY <3>1, LeastNatural
      <3>3. Min(I) \in I
        <4> HIDE DEF I
        <4> QED
          BY <3>2 DEF Min
      <3>4. \E i \in DOMAIN order : order[i] = k
        BY <2>2, <3>1
      <3>5. Untracked(order, k) = RemoveAt(order, Min(I))
        <4>1. Untracked(order, k) = RemoveAt(order, SelectInSeq(order, LAMBDA v : v = k))
          BY <2>2, <3>4 DEF Untracked, RemoveFirst
        <4>2. SelectInSeq(order, LAMBDA v : v = k) = Min(I)
          BY <3>1 DEF SelectInSeq
        <4> QED
          BY <4>1, <4>2
      <3>6. Min(I) \in 1..Len(order) /\ order[Min(I)] = k
        BY <3>3
      <3> HIDE DEF I
      <3>7. Enumerates(RemoveAt(order, Min(I)), H \ {k})
        BY <2>1, <3>6, EnumerationRemove
      <3> QED
        BY <1>1, <3>5, <3>7 DEF Fits
    <2>4. CASE k \notin H
      <3>1. Untracked(order, k) = order
        BY <2>2, <2>4 DEF Untracked, ToSet
      <3>2. H \ {k} = H
        BY <2>4
      <3> QED
        BY <1>1, <2>1, <3>1, <3>2 DEF Fits
    <2> QED
      BY <2>3, <2>4
  <1>2. CASE algorithm # "LRU"
    <2>1. order = <<>>
      BY <1>2 DEF Fits
    <2>2. Untracked(order, k) = <<>>
      BY <2>1 DEF Untracked
    <2> QED
      BY <1>2, <2>2 DEF Fits
  <1> QED
    BY <1>1, <1>2

LEMMA TrackedFits ==
    ASSUME NEW H, NEW order, Fits(order, H), NEW k, k \notin H
    PROVE  Fits(Tracked(order, k), H \cup {k})
  BY EnumerationAppend DEF Fits, Tracked

LEMMA TouchedFits ==
    ASSUME NEW H, NEW order, Fits(order, H), NEW k \in H
    PROVE  Fits(Touched(order, k), H)
  <1>1. Fits(Untracked(order, k), H \ {k})
    BY UntrackedFits
  <1>2. Fits(Tracked(Untracked(order, k), k), (H \ {k}) \cup {k})
    BY <1>1, TrackedFits
  <1>3. (H \ {k}) \cup {k} = H
    OBVIOUS
  <1> QED
    BY <1>2, <1>3 DEF Touched

-----------------------------------------------------------------------------

\* Draining the noted accesses permutes the order.
LEMMA DrainedFits ==
    ASSUME RamInv
    PROVE  Fits(Drained(lruOrder), Held)
  <1> DEFINE A == {o \in Seq(Held) : Fits(o, Held)}
             X == RamKeys \cap Held
             seq == Keep(pending, Held)
             h == [p \in A \X X |-> Touched(p[1], p[2])]
             Eq(g) == g = [s \in SUBSET DOMAIN seq |->
                IF s = {} THEN lruOrder ELSE Touched(g[s \ {Max(s)}], seq[Max(s)])]
             G == CHOOSE g : Eq(g)
  <1>0. \A o : Fits(o, Held) => o \in A
    <2>1. <<>> \in Seq(Held)
      OBVIOUS
    <2> SUFFICES ASSUME NEW o, Fits(o, Held) PROVE o \in Seq(Held)
      OBVIOUS
    <2> QED
      BY <2>1 DEF Fits, Enumerates
  <1>1. h \in [A \X X -> A] /\ lruOrder \in A
    <2>1. \A a \in A, x \in X : Touched(a, x) \in A
      BY <1>0, TouchedFits
    <2> QED
      BY <1>0, <2>1 DEF RamInv
  <1>2. \A a \in A, x \in X : h[<<a, x>>] = Touched(a, x)
    OBVIOUS
  <1>3. seq \in Seq(X)
    BY KeepSet DEF RamInv
  <1>4. Drained(lruOrder) = G[DOMAIN seq]
    BY DEF Drained, FoldLeft, MapThenFoldSet
  <1> HIDE DEF h, A, X, seq
  <1>5. DOMAIN seq = 1..Len(seq) /\ Len(seq) \in Nat /\ \A i \in 1..Len(seq) : seq[i] \in X
    BY <1>3
  <1>6. \A s \in SUBSET (1..Len(seq)) : s # {} =>
          s \ {Max(s)} \in SUBSET (1..Len(seq)) /\ seq[Max(s)] \in X
    BY <1>5, MaxOf
  <1>7. \E g : Eq(g)
    <2>1. PICK g \in [SUBSET (1..Len(seq)) -> A] : Iterates(g, h, lruOrder, seq)
      BY <1>1, <1>3, IterationExists
    <2>2. \A s \in SUBSET (1..Len(seq)) : s # {} =>
            h[<<g[s \ {Max(s)}], seq[Max(s)]>>] = Touched(g[s \ {Max(s)}], seq[Max(s)])
      BY <1>2, <1>6
    <2>3. Eq(g)
      BY <1>5, <2>1, <2>2 DEF Iterates
    <2> QED
      BY <2>3
  <1>8. Eq(G)
    BY <1>7
  <1> HIDE DEF G
  <1>9. Obeys(G, h, A, lruOrder, seq)
    BY <1>2, <1>5, <1>6, <1>8 DEF Obeys
  <1>10. PICK f : PrefixFold(f, h, A, lruOrder, seq) /\ Ends(f, G, seq)
    BY <1>1, <1>3, <1>9, PrefixValues
  <1>11. f[Len(seq)] \in A /\ Drained(lruOrder) = f[Len(seq)]
    BY <1>4, <1>5, <1>10 DEF PrefixFold, Ends
  <1> QED
    BY <1>11 DEF A

\* The sum after saturating subtractions of some of its terms.
LEMMA ForgetSize ==
    ASSUME RamInv, NEW D \in SUBSET Held
    PROVE  FoldLeft(LAMBDA z, k : SaturatingSub(z, ramData[k]), ramSize, SetToSeq(D))
             = Sum(ramData, Held \ D)
  <1> DEFINE A == Int
             seq == SetToSeq(D)
             base == ramSize
             R == FoldLeft(LAMBDA z, k : SaturatingSub(z, ramData[k]), ramSize, seq)
             Step(z, k) == SaturatingSub(z, ramData[k])
             h == [p \in A \X D |-> Step(p[1], p[2])]
             Eq(g) == g = [s \in SUBSET DOMAIN seq |->
                IF s = {} THEN base ELSE Step(g[s \ {Max(s)}], seq[Max(s)])]
             G == CHOOSE g : Eq(g)
  <1>a. IsFiniteSet(Held) /\ \A k \in Held : ramData[k] \in Nat
    BY HeldFinite DEF RamInv
  <1>b. ramSize \in Nat /\ ramSize = Sum(ramData, Held)
    BY <1>a, SumBounds DEF RamInv
  <1>1. h \in [A \X D -> A] /\ base \in A
    <2>1. \A z \in A, k \in D : Step(z, k) \in A
      BY <1>a DEF SaturatingSub
    <2> HIDE DEF Step
    <2> QED
      BY <1>b, <2>1
  <1>2. \A a \in A, x \in D : h[<<a, x>>] = Step(a, x)
    OBVIOUS
  <1>3. Enumerates(seq, D) /\ seq \in Seq(D)
    BY <1>a, FS_Subset, SetToSeqEnumerates DEF Enumerates
  <1>4. R = G[DOMAIN seq]
    BY DEF FoldLeft, MapThenFoldSet
  <1> HIDE DEF h, A, seq, R, base, Step
  <1>5. DOMAIN seq = 1..Len(seq) /\ Len(seq) \in Nat /\ \A i \in 1..Len(seq) : seq[i] \in D
    BY <1>3
  <1>6. \A s \in SUBSET (1..Len(seq)) : s # {} =>
          s \ {Max(s)} \in SUBSET (1..Len(seq)) /\ seq[Max(s)] \in D
    BY <1>5, MaxOf
  <1>7. \E g : Eq(g)
    <2>1. PICK g \in [SUBSET (1..Len(seq)) -> A] : Iterates(g, h, base, seq)
      BY <1>1, <1>3, IterationExists
    <2>2. \A s \in SUBSET (1..Len(seq)) : s # {} =>
            h[<<g[s \ {Max(s)}], seq[Max(s)]>>] = Step(g[s \ {Max(s)}], seq[Max(s)])
      BY <1>2, <1>6
    <2>3. Eq(g)
      BY <1>5, <2>1, <2>2 DEF Iterates
    <2> QED
      BY <2>3
  <1>8. Eq(G)
    BY <1>7
  <1> HIDE DEF G
  <1>9. Obeys(G, h, A, base, seq)
    BY <1>2, <1>5, <1>6, <1>8 DEF Obeys
  <1>10. PICK f : PrefixFold(f, h, A, base, seq) /\ Ends(f, G, seq)
    BY <1>1, <1>3, <1>9, PrefixValues
  <1>11. R = f[Len(seq)]
    BY <1>4, <1>5, <1>10 DEF Ends
  <1> DEFINE Done(n) == {seq[i] : i \in 1..n}
             T == {n \in 0..Len(seq) : f[n] = Sum(ramData, Held \ Done(n))}
  <1>12. 0 \in T
    <2>1. Done(0) = {}
      OBVIOUS
    <2>2. f[0] = ramSize
      BY <1>10 DEF PrefixFold, base
    <2> HIDE DEF Done
    <2>3. f[0] = Sum(ramData, Held \ Done(0))
      <3>1. Held \ Done(0) = Held
        BY <2>1
      <3> QED
        BY <1>b, <2>2, <3>1
    <2> QED
      BY <1>5, <2>3
  <1>13. ASSUME NEW n \in 1..Len(seq), n - 1 \in T PROVE n \in T
    <2> DEFINE B == Held \ Done(n - 1)
               x == seq[n]
    <2>0. n - 1 \in 0..Len(seq) /\ n \in 0..Len(seq) /\ n \in Nat
      BY <1>5
    <2>1. x \in B
      <3>1. \A i \in 1..(n - 1) : seq[i] # seq[n]
        BY <1>3, <1>5 DEF Enumerates, IsInjective
      <3> QED
        BY <1>5, <3>1
    <2>2. Held \ Done(n) = B \ {x}
      <3>1. 1..n = (1..(n - 1)) \cup {n}
        BY <2>0
      <3>2. Done(n) = Done(n - 1) \cup {seq[n]}
        BY <3>1
      <3> HIDE DEF Done
      <3> QED
        BY <3>2
    <2>3. f[n - 1] = Sum(ramData, B)
      BY <1>13
    <2>4. IsFiniteSet(B) /\ B \subseteq Held
      BY <1>a, FS_Subset
    <2> HIDE DEF B, x, Done
    <2>5. Sum(ramData, B) = ramData[x] + Sum(ramData, B \ {x})
      BY <1>a, <2>1, <2>4, SumRemove
    <2>6. Sum(ramData, B \ {x}) \in Nat /\ ramData[x] \in Nat
      <3>1. IsFiniteSet(B \ {x}) /\ B \ {x} \subseteq Held
        BY <2>4, FS_Subset
      <3> QED
        BY <1>a, <2>1, <2>4, <3>1, SumBounds
    <2>7. f[n] = SaturatingSub(f[n - 1], ramData[x])
      <3>1. f[n] = h[<<f[n - 1], seq[n]>>] /\ f[n - 1] \in A
        BY <1>10, <2>0 DEF PrefixFold
      <3> QED
        BY <1>2, <1>5, <3>1 DEF Step, x
    <2>8. f[n] = Sum(ramData, B \ {x})
      BY <2>3, <2>5, <2>6, <2>7 DEF SaturatingSub
    <2> QED
      BY <2>0, <2>2, <2>8
  <1>14. Len(seq) \in T
    <2> HIDE DEF T
    <2>1. \A k \in 0..Len(seq) : k \in T
      BY <1>5, <1>12, <1>13, UpTo
    <2> QED
      BY <1>5, <2>1
  <1>15. Done(Len(seq)) = D
    BY <1>3, <1>5 DEF Enumerates, ToSet
  <1>16. R = Sum(ramData, Held \ D)
    <2> HIDE DEF Done
    <2> QED
      BY <1>11, <1>14, <1>15
  <1> QED
    BY <1>16 DEF R, seq

\* The order after some of the keys it lists were taken out.
LEMMA ForgetOrder ==
    ASSUME RamInv, NEW D \in SUBSET Held
    PROVE  Fits(FoldLeft(Untracked, lruOrder, SetToSeq(D)), Held \ D)
  <1> DEFINE A == {o \in Seq(Held) : \E H \in SUBSET Held : Fits(o, H)}
             seq == SetToSeq(D)
             R == FoldLeft(Untracked, lruOrder, seq)
             h == [p \in A \X D |-> Untracked(p[1], p[2])]
             Eq(g) == g = [s \in SUBSET DOMAIN seq |->
                IF s = {} THEN lruOrder ELSE Untracked(g[s \ {Max(s)}], seq[Max(s)])]
             G == CHOOSE g : Eq(g)
  <1>a. IsFiniteSet(Held)
    BY HeldFinite
  <1>b. ASSUME NEW o, NEW H \in SUBSET Held, Fits(o, H) PROVE o \in A
    <2>1. <<>> \in Seq(Held)
      OBVIOUS
    <2>2. o \in Seq(Held)
      <3>1. CASE algorithm = "LRU"
        <4>1. o \in Seq(H)
          BY <1>b, <3>1 DEF Fits, Enumerates
        <4> QED
          BY <4>1
      <3>2. CASE algorithm # "LRU"
        BY <1>b, <2>1, <3>2 DEF Fits
      <3> QED
        BY <3>1, <3>2
    <2> QED
      BY <1>b, <2>2
  <1>1. h \in [A \X D -> A] /\ lruOrder \in A
    <2>1. ASSUME NEW o \in A, NEW k \in D PROVE Untracked(o, k) \in A
      <3>1. PICK H \in SUBSET Held : Fits(o, H)
        OBVIOUS
      <3>2. Fits(Untracked(o, k), H \ {k}) /\ H \ {k} \in SUBSET Held
        BY <3>1, UntrackedFits
      <3> QED
        BY <1>b, <3>2
    <2>2. lruOrder \in A
      BY <1>b DEF RamInv
    <2> HIDE DEF A
    <2> QED
      BY <2>1, <2>2
  <1>2. \A a \in A, x \in D : h[<<a, x>>] = Untracked(a, x)
    OBVIOUS
  <1>3. Enumerates(seq, D) /\ seq \in Seq(D)
    BY <1>a, FS_Subset, SetToSeqEnumerates DEF Enumerates
  <1>4. R = G[DOMAIN seq]
    BY DEF FoldLeft, MapThenFoldSet
  <1> HIDE DEF h, A, seq, R
  <1>5. DOMAIN seq = 1..Len(seq) /\ Len(seq) \in Nat /\ \A i \in 1..Len(seq) : seq[i] \in D
    BY <1>3
  <1>6. \A s \in SUBSET (1..Len(seq)) : s # {} =>
          s \ {Max(s)} \in SUBSET (1..Len(seq)) /\ seq[Max(s)] \in D
    BY <1>5, MaxOf
  <1>7. \E g : Eq(g)
    <2>1. PICK g \in [SUBSET (1..Len(seq)) -> A] : Iterates(g, h, lruOrder, seq)
      BY <1>1, <1>3, IterationExists
    <2>2. \A s \in SUBSET (1..Len(seq)) : s # {} =>
            h[<<g[s \ {Max(s)}], seq[Max(s)]>>] = Untracked(g[s \ {Max(s)}], seq[Max(s)])
      BY <1>2, <1>6
    <2>3. Eq(g)
      BY <1>5, <2>1, <2>2 DEF Iterates
    <2> QED
      BY <2>3
  <1>8. Eq(G)
    BY <1>7
  <1> HIDE DEF G
  <1>9. Obeys(G, h, A, lruOrder, seq)
    BY <1>2, <1>5, <1>6, <1>8 DEF Obeys
  <1>10. PICK f : PrefixFold(f, h, A, lruOrder, seq) /\ Ends(f, G, seq)
    BY <1>1, <1>3, <1>9, PrefixValues
  <1>11. R = f[Len(seq)]
    BY <1>4, <1>5, <1>10 DEF Ends
  <1> DEFINE Done(n) == {seq[i] : i \in 1..n}
             T == {n \in 0..Len(seq) : Fits(f[n], Held \ Done(n))}
  <1>12. 0 \in T
    <2>1. Done(0) = {}
      OBVIOUS
    <2>2. f[0] = lruOrder
      BY <1>10 DEF PrefixFold
    <2> HIDE DEF Done
    <2>3. Fits(f[0], Held \ Done(0))
      <3>1. Held \ Done(0) = Held
        BY <2>1
      <3> QED
        BY <2>2, <3>1 DEF RamInv
    <2> QED
      BY <1>5, <2>3
  <1>13. ASSUME NEW n \in 1..Len(seq), n - 1 \in T PROVE n \in T
    <2> DEFINE B == Held \ Done(n - 1)
               x == seq[n]
    <2>0. n - 1 \in 0..Len(seq) /\ n \in 0..Len(seq) /\ n \in Nat
      BY <1>5
    <2>2. Held \ Done(n) = B \ {x}
      <3>1. 1..n = (1..(n - 1)) \cup {n}
        BY <2>0
      <3>2. Done(n) = Done(n - 1) \cup {seq[n]}
        BY <3>1
      <3> HIDE DEF Done
      <3> QED
        BY <3>2
    <2>3. Fits(f[n - 1], B)
      BY <1>13
    <2> HIDE DEF B, x, Done
    <2>4. f[n] = Untracked(f[n - 1], x)
      <3>1. f[n] = h[<<f[n - 1], seq[n]>>] /\ f[n - 1] \in A
        BY <1>10, <2>0 DEF PrefixFold
      <3> QED
        BY <1>2, <1>5, <3>1 DEF x
    <2>5. Fits(f[n], B \ {x})
      BY <2>3, <2>4, UntrackedFits
    <2> QED
      BY <2>0, <2>2, <2>5
  <1>14. Len(seq) \in T
    <2> HIDE DEF T
    <2>1. \A k \in 0..Len(seq) : k \in T
      BY <1>5, <1>12, <1>13, UpTo
    <2> QED
      BY <1>5, <2>1
  <1>15. Done(Len(seq)) = D
    BY <1>3, <1>5 DEF Enumerates, ToSet
  <1>16. Fits(R, Held \ D)
    <2> HIDE DEF Done
    <2> QED
      BY <1>11, <1>14, <1>15
  <1> QED
    BY <1>16 DEF R, seq


\* Forgetting entries keeps the account of the rest.
LEMMA ForgetKeeps ==
    ASSUME RamInv, NEW ks, Forget(ks), UNCHANGED <<algorithm, pending, putting, noting>>
    PROVE  RamInv'
  <1> DEFINE D == ks \cap Held
  <1>1. D \in SUBSET Held /\ Held \ ks = Held \ D
    OBVIOUS
  <1>2. Held' = Held \ D /\ \A k \in Held \ D : ramData'[k] = ramData[k]
    BY <1>1 DEF Forget, Held
  <1>3. ramSize' = Sum(ramData, Held \ D)
    BY <1>1, ForgetSize DEF Forget
  <1>4. Fits(lruOrder', Held \ D)
    BY <1>1, ForgetOrder DEF Forget
  <1>5. IsFiniteSet(Held) /\ \A k \in Held : ramData[k] \in Nat \ {0}
    BY HeldFinite DEF RamInv
  <1> HIDE DEF D
  <1>6. Sum(ramData', Held') = Sum(ramData, Held \ D)
    <2>1. IsFiniteSet(Held \ D)
      BY <1>5, FS_Subset
    <2>2. \A k \in Held \ D : ramData[k] = ramData'[k]
      BY <1>2
    <2>3. Sum(ramData, Held \ D) = Sum(ramData', Held \ D)
      BY <2>1, <2>2, SumSame
    <2> QED
      BY <1>2, <2>3
  <1>7. ramSize' <= RamCapacity
    <2>1. Sum(ramData, Held \ D) <= Sum(ramData, Held)
      BY <1>5, SumSubset
    <2>2. Sum(ramData, Held) \in Nat /\ Sum(ramData, Held \ D) \in Nat
      BY <1>5, FS_Subset, SumBounds
    <2> QED
      BY <1>3, <2>1, <2>2, RamAssumption DEF RamInv
  <1>8. Fits(lruOrder, Held)' = Fits(lruOrder', Held \ D)
    BY <1>2 DEF Fits
  <1>9. Held' \subseteq RamKeys /\ \A k \in Held' : ramData'[k] \in Nat \ {0}
    BY <1>2, <1>5 DEF RamInv
  <1> QED
    BY <1>3, <1>4, <1>6, <1>7, <1>8, <1>9 DEF RamInv, Unlocked

LEMMA RamPutKeeps ==
    ASSUME RamInv, NEW k \in RamKeys, NEW size \in RamSizes, RamPut(k, size) PROVE RamInv'
  <1>1. Fits(lruOrder, Held)'
    <2>1. Fits(Drained(lruOrder), Held)
      BY DrainedFits
    <2> QED
      BY <2>1 DEF RamPut, Fits, Held
  <1>2. pending' \in Seq(RamKeys)
    BY DEF RamPut
  <1>3. ~Unlocked' => /\ putting'.key \in RamKeys /\ putting'.size \in Nat \ {0}
                      /\ putting'.size <= RamCapacity
    BY RamAssumption DEF RamPut, Unlocked
  <1> QED
    BY <1>1, <1>2, <1>3 DEF RamPut, RamInv, Held

\* While something is held there is something to evict: the order lists it.
LEMMA VictimFound ==
    ASSUME RamInv, Held # {}
    PROVE  \E k \in Held : IsVictim(k)
  <1>1. CASE algorithm = "LRU"
    <2>1. lruOrder \in Seq(Held) /\ ToSet(lruOrder) = Held
      BY <1>1 DEF RamInv, Fits, Enumerates
    <2>2. lruOrder # <<>>
      BY <2>1 DEF ToSet
    <2>3. Head(lruOrder) \in Held
      BY <2>1, <2>2
    <2> QED
      BY <1>1, <2>2, <2>3 DEF IsVictim
  <1>2. CASE algorithm # "LRU"
    BY <1>2 DEF IsVictim
  <1> QED
    BY <1>1, <1>2

LEMMA RamInsertKeeps ==
    ASSUME RamInv, RamInsert PROVE RamInv'
  <1> DEFINE k == putting.key
             size == putting.size
             old == IF k \in Held THEN ramData[k] ELSE 0
             H == Held \cup {k}
  <1>1. k \in RamKeys /\ size \in Nat \ {0} /\ size <= RamCapacity
    BY DEF RamInv, RamInsert
  <1>2. ~MustEvict
    BY VictimFound DEF RamInsert, MustEvict
  <1>3. /\ ramData' = [x \in H |-> IF x = k THEN size ELSE ramData[x]]
        /\ ramSize' = SaturatingSub(ramSize, old) + size
        /\ lruOrder' = Tracked(IF old > 0 THEN Untracked(lruOrder, k) ELSE lruOrder, k)
        /\ putting' = NoPut /\ algorithm' = algorithm /\ pending' = pending /\ noting' = noting
    BY <1>2 DEF RamInsert
  <1>4. /\ IsFiniteSet(Held) /\ Held \subseteq RamKeys /\ \A x \in Held : ramData[x] \in Nat \ {0}
        /\ ramSize = Sum(ramData, Held) /\ Fits(lruOrder, Held) /\ RamCapacity \in Nat
    BY HeldFinite, RamAssumption DEF RamInv
  <1>5. ramSize \in Nat /\ (k \in Held => ramData[k] <= ramSize) /\ (Held = {} => ramSize = 0)
    BY <1>4, SumBounds
  <1>6. ramSize + size <= RamCapacity
    BY <1>1, <1>2, <1>4, <1>5 DEF MustEvict
  <1>7. Held' = H /\ ramData'[k] = size /\ \A x \in Held \ {k} : ramData'[x] = ramData[x]
    BY <1>3 DEF Held
  <1> HIDE DEF k, size
  <1>8. old \in Nat /\ (old > 0 <=> k \in Held) /\ old <= ramSize
    BY <1>4, <1>5
  <1>9. Sum(ramData', H) = ramSize - old + size
    <2>1. IsFiniteSet(H) /\ IsFiniteSet(Held \ {k}) /\ k \in H /\ H \ {k} = Held \ {k}
      BY <1>4, FS_Subset, FS_AddElement
    <2>2. \A x \in H : ramData'[x] \in Int
      BY <1>1, <1>4, <1>7
    <2> HIDE DEF H
    <2>3. Sum(ramData', H) = size + Sum(ramData', Held \ {k})
      BY <1>7, <2>1, <2>2, SumRemove
    <2>4. Sum(ramData', Held \ {k}) = Sum(ramData, Held \ {k})
      BY <1>7, <2>1, SumSame
    <2>5. Sum(ramData, Held \ {k}) \in Nat
      BY <1>4, <2>1, SumBounds
    <2>6. CASE k \in Held
      <3>1. ramSize = ramData[k] + Sum(ramData, Held \ {k})
        BY <1>4, <2>6, SumRemove
      <3>2. old = ramData[k]
        BY <2>6
      <3> QED
        BY <1>1, <1>5, <1>8, <2>3, <2>4, <2>5, <3>1, <3>2
    <2>7. CASE k \notin Held
      <3>1. Held \ {k} = Held /\ old = 0
        BY <2>7
      <3> QED
        BY <1>1, <1>4, <1>5, <2>3, <2>4, <3>1
    <2> QED
      BY <2>6, <2>7
  <1>10. Fits(lruOrder', H)
    <2>1. CASE k \in Held
      <3>1. lruOrder' = Touched(lruOrder, k)
        BY <1>3, <1>8, <2>1 DEF Touched
      <3>2. H = Held
        BY <2>1
      <3> QED
        BY <1>4, <2>1, <3>1, <3>2, TouchedFits
    <2>2. CASE k \notin Held
      <3>1. lruOrder' = Tracked(lruOrder, k)
        BY <1>3, <1>8, <2>2
      <3> QED
        BY <1>4, <2>2, <3>1, TrackedFits
    <2> QED
      BY <2>1, <2>2
  <1> HIDE DEF old
  <1>11. ramSize' = Sum(ramData', H) /\ ramSize' <= RamCapacity
    BY <1>1, <1>3, <1>4, <1>5, <1>6, <1>8, <1>9 DEF SaturatingSub
  <1>12. Fits(lruOrder, Held)' = Fits(lruOrder', H)
    BY <1>3, <1>7 DEF Fits
  <1>13. Held' \subseteq RamKeys /\ \A x \in Held' : ramData'[x] \in Nat \ {0}
    BY <1>1, <1>4, <1>7
  <1> HIDE DEF H
  <1> QED
    BY <1>3, <1>7, <1>10, <1>11, <1>12, <1>13 DEF RamInv, Unlocked

LEMMA RamStep == RamInv /\ [RamNext]_ramVars => RamInv'
  <1> SUFFICES ASSUME RamInv, [RamNext]_ramVars PROVE RamInv'
    OBVIOUS
  <1>1. ASSUME NEW r \in RamReaders, RamGet(r) PROVE RamInv'
    <2>1. noting' \in [RamReaders -> RamKeys \cup {NoKey}]
      BY <1>1 DEF RamGet, RamInv
    <2> QED
      BY <1>1, <2>1 DEF RamGet, RamInv, Fits, Held, Unlocked
  <1>2. ASSUME NEW r \in RamReaders, NoteAccess(r) PROVE RamInv'
    <2>1. noting' \in [RamReaders -> RamKeys \cup {NoKey}]
      BY <1>2 DEF NoteAccess, RamInv
    <2>2. noting[r] \in RamKeys
      BY <1>2 DEF NoteAccess, RamInv
    <2>3. pending' \in Seq(RamKeys)
      BY <1>2, <2>2 DEF NoteAccess, RamInv
    <2> QED
      BY <1>2, <2>1, <2>3 DEF NoteAccess, RamInv, Fits, Held, Unlocked
  <1>3. ASSUME NEW k \in RamKeys, NEW size \in RamSizes, RamPut(k, size) PROVE RamInv'
    BY <1>3, RamPutKeeps
  <1>4. CASE RamEvict
    BY <1>4, ForgetKeeps DEF RamEvict
  <1>5. CASE RamInsert
    BY <1>5, RamInsertKeeps
  <1>6. ASSUME NEW ks \in SUBSET RamKeys, RamInvalidate(ks) PROVE RamInv'
    BY <1>6, ForgetKeeps DEF RamInvalidate
  <1>7. CASE UNCHANGED ramVars
    BY <1>7 DEF ramVars, RamInv, Fits, Held, Unlocked
  <1> QED
    BY <1>1, <1>2, <1>3, <1>4, <1>5, <1>6, <1>7 DEF RamNext

LEMMA RamInitHolds == RamInit => RamInv
  <1> SUFFICES ASSUME RamInit PROVE RamInv
    OBVIOUS
  <1>1. Held = {} /\ lruOrder = <<>> /\ ramSize = 0
    BY DEF RamInit, Held
  <1>2. Sum(ramData, {}) = 0
    BY FS_EmptySet, SumRec
  <1>3. Enumerates(<<>>, {})
    BY DEF Enumerates, IsInjective, ToSet
  <1>4. Fits(lruOrder, Held)
    BY <1>1, <1>3 DEF Fits
  <1>5. noting \in [RamReaders -> RamKeys \cup {NoKey}] /\ pending \in Seq(RamKeys) /\ Unlocked
    BY DEF RamInit, Unlocked
  <1> QED
    BY <1>1, <1>2, <1>4, <1>5, RamAssumption DEF RamInv

\* RamCache: in every interleaving of gets and puts current_size is the sum of the
\* entries and within the shard's capacity, and lru_order lists them, each once,
\* although an access is noted after its read unlocked and drained by a later put.
THEOREM RamShardStaysConsistent == RamSpec => []RamShardConsistent
  <1>1. RamInv => RamShardConsistent
    <2> SUFFICES ASSUME RamInv PROVE RamShardConsistent
      OBVIOUS
    <2>1. ramSize = FoldFunctionOnSet(+, 0, ramData, Held) /\ ramSize <= RamCapacity
      BY DEF RamInv, Sum
    <2>2. algorithm = "LRU" => ToSet(lruOrder) = Held /\ Len(lruOrder) = Cardinality(Held)
      BY EnumerationLength DEF RamInv, Fits, Enumerates
    <2> QED
      BY <2>1, <2>2 DEF RamShardConsistent
  <1> QED
    BY <1>1, RamInitHolds, RamStep, PTL DEF RamSpec

-----------------------------------------------------------------------------
(***************************************************************************)
(* THE METADATA CACHE                                                      *)
(***************************************************************************)

Lookups == [pc : {"idle", "touch", "load"}, key : MetaKeys \cup {"none"}]
\* A lookup in progress has a key.
LookupOk == \A t \in MetaReaders : lookup[t].pc # "idle" => lookup[t].key \in MetaKeys
\* A key without an entry is in the order at most once, left by a late MetaTouch or
\* by an eviction that popped one of its places: putting it again adds a second.
OrderBounded ==
    \A k \in MetaKeys : /\ Occurrences(metaOrder, k) <= 2
                        /\ k \notin Cached => Occurrences(metaOrder, k) <= 1
MetaInv ==
    /\ metaOrder \in Seq(MetaKeys) /\ Cached \subseteq MetaKeys
    /\ lookup \in [MetaReaders -> Lookups]
    /\ LookupOk
    /\ Cached \subseteq ToSet(metaOrder)
    /\ Cardinality(Cached) <= MetaCapacity
    /\ OrderBounded

LEMMA OccurrencesNat ==
    ASSUME NEW s \in Seq(MetaKeys), NEW k
    PROVE  IsFiniteSet({i \in DOMAIN s : s[i] = k}) /\ Occurrences(s, k) \in Nat
  <1>1. IsFiniteSet(1..Len(s))
    BY FS_Interval
  <1>2. {i \in DOMAIN s : s[i] = k} \subseteq 1..Len(s)
    OBVIOUS
  <1> DEFINE Q == {i \in DOMAIN s : s[i] = k}
  <1> HIDE DEF Q
  <1>3. IsFiniteSet(Q)
    BY <1>1, <1>2, FS_Subset DEF Q
  <1> QED
    BY <1>3, FS_CardinalityType DEF Occurrences, Places, Q

LEMMA AppendOccurrences ==
    ASSUME NEW s \in Seq(MetaKeys), NEW k \in MetaKeys, NEW x
    PROVE  Occurrences(Append(s, k), x) = Occurrences(s, x) + (IF x = k THEN 1 ELSE 0)
  <1> DEFINE Q == {i \in DOMAIN s : s[i] = x}
             P == {i \in DOMAIN Append(s, k) : Append(s, k)[i] = x}
  <1>1. IsFiniteSet(Q) /\ Cardinality(Q) \in Nat
    BY OccurrencesNat DEF Occurrences, Places
  <1>2. DOMAIN s = 1..Len(s) /\ DOMAIN Append(s, k) = 1..(Len(s) + 1) /\ Len(s) \in Nat
    OBVIOUS
  <1>3. Append(s, k)[Len(s) + 1] = k /\ \A i \in 1..Len(s) : Append(s, k)[i] = s[i]
    OBVIOUS
  <1>4. Len(s) + 1 \notin Q
    BY <1>2
  <1>5. CASE x = k
    <2>1. P = Q \cup {Len(s) + 1}
      BY <1>2, <1>3, <1>5
    <2> HIDE DEF P, Q
    <2>2. Cardinality(P) = Cardinality(Q) + 1
      BY <1>1, <1>4, <2>1, FS_AddElement
    <2> QED
      BY <1>5, <2>2 DEF P, Q, Occurrences, Places
  <1>6. CASE x # k
    <2>1. P = Q
      BY <1>2, <1>3, <1>6
    <2>2. Occurrences(s, x) = Cardinality(Q) /\ Occurrences(Append(s, k), x) = Cardinality(P)
      BY DEF Occurrences, Places
    <2> HIDE DEF P, Q
    <2> QED
      BY <1>1, <1>6, <2>1, <2>2
  <1> QED
    BY <1>5, <1>6

LEMMA DroppedSeq ==
    ASSUME NEW s \in Seq(MetaKeys), NEW k
    PROVE  /\ Dropped(s, k) \in Seq(MetaKeys)
           /\ ToSet(Dropped(s, k)) = ToSet(s) \ {k}
           /\ Occurrences(Dropped(s, k), k) = 0
           /\ \A x \in MetaKeys : Occurrences(Dropped(s, k), x) <= Occurrences(s, x)
  <1> DEFINE S == ToSet(s) \ {k}
             D == Keep(s, S)
  <1>1. D \in Seq(MetaKeys \cap S) /\ ToSet(D) = ToSet(s) \cap S
    BY KeepSet
  <1>2. \A x \in MetaKeys : Occurrences(D, x) <= Occurrences(s, x)
    BY KeepCount DEF Occurrences
  <1>3. D \in Seq(MetaKeys) /\ \A i \in DOMAIN D : D[i] # k
    <2> HIDE DEF D
    <2>1. \A i \in DOMAIN D : D[i] \in S
      BY <1>1
    <2>2. MetaKeys \cap S \subseteq MetaKeys
      OBVIOUS
    <2> QED
      BY <1>1, <2>1, <2>2
  <1> HIDE DEF D
  <1>4. {i \in DOMAIN D : D[i] = k} = {}
    BY <1>3
  <1>5. Occurrences(D, k) = 0
    BY <1>4, FS_EmptySet DEF Occurrences, Places
  <1> QED
    BY <1>1, <1>2, <1>3, <1>5 DEF Dropped, D

\* What is left of an order that lost its first places.
LEMMA Suffix ==
    ASSUME NEW s \in Seq(MetaKeys), NEW n \in 0..Len(s)
    PROVE  LET head == SubSeq(s, 1, n)
               rest == SubSeq(s, n + 1, Len(s)) IN
           /\ rest \in Seq(MetaKeys)
           /\ ToSet(s) = ToSet(head) \cup ToSet(rest)
           /\ \A x \in MetaKeys : /\ Occurrences(rest, x) <= Occurrences(s, x)
                                  /\ x \in ToSet(head) => Occurrences(rest, x) + 1 <= Occurrences(s, x)
  <1> DEFINE head == SubSeq(s, 1, n)
             rest == SubSeq(s, n + 1, Len(s))
  <1>0. Len(s) \in Nat /\ n \in Nat /\ n <= Len(s) /\ DOMAIN s = 1..Len(s)
    OBVIOUS
  <1>1. DOMAIN head = 1..n /\ \A i \in 1..n : head[i] = s[i]
    BY <1>0
  <1>2. DOMAIN rest = 1..(Len(s) - n) /\ \A i \in 1..(Len(s) - n) : rest[i] = s[n + i]
    BY <1>0
  <1>3. rest \in Seq(MetaKeys)
    BY <1>0
  <1> HIDE DEF head, rest
  <1>4. ToSet(s) = ToSet(head) \cup ToSet(rest)
    <2>1. ASSUME NEW j \in 1..Len(s) PROVE s[j] \in ToSet(head) \cup ToSet(rest)
      <3>1. CASE j <= n
        BY <1>0, <1>1, <3>1 DEF ToSet
      <3>2. CASE j > n
        <4>1. j - n \in 1..(Len(s) - n) /\ n + (j - n) = j
          BY <1>0, <3>2
        <4>2. rest[j - n] = s[j]
          BY <1>2, <4>1
        <4> QED
          BY <1>2, <4>1, <4>2 DEF ToSet
      <3> QED
        BY <1>0, <3>1, <3>2
    <2>2. \A i \in 1..(Len(s) - n) : n + i \in 1..Len(s)
      BY <1>0
    <2>3. \A i \in 1..n : i \in 1..Len(s)
      BY <1>0
    <2>4. ToSet(s) \subseteq ToSet(head) \cup ToSet(rest)
      BY <1>0, <2>1 DEF ToSet
    <2>5. ToSet(head) \subseteq ToSet(s)
      BY <1>0, <1>1, <2>3 DEF ToSet
    <2>6. ToSet(rest) \subseteq ToSet(s)
      BY <1>0, <1>2, <2>2 DEF ToSet
    <2> QED
      BY <2>4, <2>5, <2>6
  <1>5. ASSUME NEW x \in MetaKeys
        PROVE  /\ Occurrences(rest, x) <= Occurrences(s, x)
               /\ x \in ToSet(head) => Occurrences(rest, x) + 1 <= Occurrences(s, x)
    <2> DEFINE P == {i \in DOMAIN rest : rest[i] = x}
               Q == {i \in DOMAIN s : s[i] = x}
               R == {j \in Q : j > n}
               r == [i \in P |-> n + i]
    <2>1. IsFiniteSet(Q) /\ Cardinality(Q) \in Nat
      BY OccurrencesNat DEF Occurrences, Places
    <2>2. r \in [P -> R] /\ \A i, j \in P : r[i] = r[j] => i = j
      BY <1>0, <1>2
    <2>3. r \in Injection(P, R)
      BY <2>2 DEF Injection, IsInjective
    <2>4. R \subseteq Q
      OBVIOUS
    <2>5. x \in ToSet(head) => \E j \in Q : j \notin R
      BY <1>0, <1>1 DEF ToSet
    <2> HIDE DEF P, Q, R, r
    <2>6. IsFiniteSet(R) /\ Cardinality(R) <= Cardinality(Q) /\ Cardinality(R) \in Nat
      BY <2>1, <2>4, FS_Subset, FS_CardinalityType
    <2>7. Cardinality(P) <= Cardinality(R) /\ IsFiniteSet(P) /\ Cardinality(P) \in Nat
      BY <2>3, <2>6, FS_Injection, FS_CardinalityType
    <2>8. ASSUME x \in ToSet(head) PROVE Cardinality(R) + 1 <= Cardinality(Q)
      <3>1. PICK j \in Q : j \notin R
        BY <2>5, <2>8
      <3>2. R \cup {j} \subseteq Q
        BY <2>4
      <3>3. Cardinality(R \cup {j}) = Cardinality(R) + 1
        BY <2>6, <3>1, FS_AddElement
      <3>4. Cardinality(R \cup {j}) <= Cardinality(Q)
        BY <2>1, <3>2, FS_Subset
      <3> QED
        BY <3>3, <3>4
    <2> QED
      BY <2>1, <2>6, <2>7, <2>8 DEF P, Q, Occurrences, Places
  <1> QED
    BY <1>3, <1>4, <1>5 DEF head, rest

LEMMA CachedFinite == ASSUME MetaInv PROVE IsFiniteSet(Cached)
  BY MetadataCacheAssumption, FS_Subset DEF MetaInv

LEMMA MetaInitHolds == MetaInit => MetaInv
  <1> SUFFICES ASSUME MetaInit PROVE MetaInv
    OBVIOUS
  <1>1. Cached = {} /\ metaOrder = <<>>
    BY DEF MetaInit, Cached
  <1>2. Cardinality(Cached) = 0
    BY <1>1, FS_EmptySet
  <1>3. \A k : Occurrences(metaOrder, k) = 0
    <2>1. \A k : Places(<<>>, k) = {}
      BY DEF Places
    <2> QED
      BY <1>1, <2>1, FS_EmptySet DEF Occurrences
  <1>4. \A t \in MetaReaders : lookup[t].pc = "idle"
    BY DEF MetaInit, NoLookup
  <1>5. lookup \in [MetaReaders -> Lookups]
    BY DEF MetaInit, NoLookup, Lookups
  <1>6. metaOrder \in Seq(MetaKeys)
    BY <1>1
  <1>7. Cardinality(Cached) <= MetaCapacity
    BY <1>2, MetadataCacheAssumption
  <1>8. OrderBounded
    BY <1>3 DEF OrderBounded
  <1> QED
    BY <1>1, <1>4, <1>5, <1>6, <1>7, <1>8 DEF MetaInv, LookupOk

\* The lookups' part of the invariant, for a step that moves one lookup.
LEMMA LookupMoves ==
    ASSUME MetaInv, NEW t \in MetaReaders, NEW r \in Lookups,
           r.pc # "idle" => r.key \in MetaKeys, lookup' = [lookup EXCEPT ![t] = r]
    PROVE  /\ lookup' \in [MetaReaders -> Lookups]
           /\ LookupOk'
  <1>1. lookup \in [MetaReaders -> Lookups] /\ LookupOk
    BY DEF MetaInv
  <1>2. \A u \in MetaReaders : lookup'[u] = IF u = t THEN r ELSE lookup[u]
    BY <1>1
  <1>3. LookupOk'
    BY <1>1, <1>2 DEF LookupOk
  <1> QED
    BY <1>1, <1>3

LEMMA MetaGetKeeps ==
    ASSUME MetaInv, NEW t \in MetaReaders, NEW k \in MetaKeys, MetaGet(t, k) PROVE MetaInv'
  <1> DEFINE r == [pc |-> IF k \in Cached /\ metaEntries[k] < RefreshInterval THEN "touch" ELSE "load",
                   key |-> k]
  <1>1. r \in Lookups /\ r.key \in MetaKeys
    BY DEF Lookups
  <1>2. lookup' = [lookup EXCEPT ![t] = r] /\ metaOrder' = metaOrder /\ Cached' = Cached
    BY DEF MetaGet, Cached
  <1> HIDE DEF r
  <1>3. LookupOk' /\ lookup' \in [MetaReaders -> Lookups]
    BY <1>1, <1>2, LookupMoves
  <1> QED
    BY <1>2, <1>3 DEF MetaInv, OrderBounded

LEMMA LookupEnds ==
    ASSUME MetaInv, NEW t \in MetaReaders, lookup' = [lookup EXCEPT ![t] = NoLookup]
    PROVE  /\ lookup' \in [MetaReaders -> Lookups]
           /\ LookupOk'
  <1>1. NoLookup \in Lookups /\ NoLookup.pc = "idle"
    BY DEF NoLookup, Lookups
  <1> QED
    BY <1>1, LookupMoves

\* A key moved to the back of the order is in it once.
LEMMA MovedOccurrences ==
    ASSUME NEW s \in Seq(MetaKeys), NEW k \in MetaKeys
    PROVE  /\ Append(Dropped(s, k), k) \in Seq(MetaKeys)
           /\ ToSet(Append(Dropped(s, k), k)) = ToSet(s) \cup {k}
           /\ Occurrences(Append(Dropped(s, k), k), k) = 1
           /\ \A x \in MetaKeys \ {k} : Occurrences(Append(Dropped(s, k), k), x) <= Occurrences(s, x)
  <1> DEFINE D == Dropped(s, k)
  <1>1. /\ D \in Seq(MetaKeys) /\ ToSet(D) = ToSet(s) \ {k} /\ Occurrences(D, k) = 0
        /\ \A x \in MetaKeys : Occurrences(D, x) <= Occurrences(s, x)
    BY DroppedSeq
  <1> HIDE DEF D
  <1>2. \A x \in MetaKeys : Occurrences(Append(D, k), x) = Occurrences(D, x) + (IF x = k THEN 1 ELSE 0)
    BY <1>1, AppendOccurrences
  <1>3. \A x \in MetaKeys : Occurrences(D, x) \in Nat
    BY <1>1, OccurrencesNat
  <1>4. ToSet(Append(D, k)) = ToSet(D) \cup {k}
    BY <1>1, AppendSet
  <1> QED
    BY <1>1, <1>2, <1>3, <1>4 DEF D

LEMMA MetaTouchKeeps ==
    ASSUME MetaInv, NEW t \in MetaReaders, MetaTouch(t) PROVE MetaInv'
  <1> DEFINE k == lookup[t].key
  <1>1. k \in MetaKeys
    BY DEF MetaInv, LookupOk, MetaTouch
  <1>2. metaOrder' = Append(Dropped(metaOrder, k), k) /\ Cached' = Cached /\ metaOrder \in Seq(MetaKeys)
    BY DEF MetaTouch, MovedToBack, Cached, MetaInv
  <1> HIDE DEF k
  <1>3. /\ metaOrder' \in Seq(MetaKeys)
        /\ ToSet(metaOrder') = ToSet(metaOrder) \cup {k}
        /\ Occurrences(metaOrder', k) = 1
        /\ \A x \in MetaKeys \ {k} : Occurrences(metaOrder', x) <= Occurrences(metaOrder, x)
    BY <1>1, <1>2, MovedOccurrences
  <1>4. OrderBounded'
    <2>1. \A x \in MetaKeys : Occurrences(metaOrder, x) \in Nat /\ Occurrences(metaOrder', x) \in Nat
      BY <1>2, <1>3, OccurrencesNat
    <2>2. ASSUME NEW x \in MetaKeys
          PROVE  Occurrences(metaOrder', x) <= 2 /\ (x \notin Cached => Occurrences(metaOrder', x) <= 1)
      <3>1. CASE x = k
        BY <1>3, <3>1
      <3>2. CASE x # k
        <4>1. Occurrences(metaOrder', x) <= Occurrences(metaOrder, x)
          BY <1>3, <3>2
        <4>2. Occurrences(metaOrder, x) <= 2 /\ (x \notin Cached => Occurrences(metaOrder, x) <= 1)
          BY DEF OrderBounded, MetaInv
        <4> QED
          BY <2>1, <4>1, <4>2
      <3> QED
        BY <3>1, <3>2
    <2> QED
      BY <1>2, <2>2 DEF OrderBounded
  <1>5. LookupOk' /\ lookup' \in [MetaReaders -> Lookups]
    BY LookupEnds DEF MetaTouch
  <1> QED
    BY <1>2, <1>3, <1>4, <1>5 DEF MetaInv

\* What the eviction loop pops leaves room for an entry.
LEMMA PopsMakeRoom ==
    ASSUME MetaInv
    PROVE  /\ Pops \in 0..Len(metaOrder)
           /\ Cardinality(Cached \ ToSet(SubSeq(metaOrder, 1, Pops))) + 1 <= MetaCapacity
  <1> DEFINE Left(n) == Cached \ ToSet(SubSeq(metaOrder, 1, n))
             hits == {n \in DOMAIN metaOrder : Cardinality(Left(n)) < MetaCapacity}
  <1>0. /\ metaOrder \in Seq(MetaKeys) /\ Len(metaOrder) \in Nat
        /\ DOMAIN metaOrder = 1..Len(metaOrder) /\ MetaCapacity \in Nat \ {0}
    BY MetadataCacheAssumption DEF MetaInv
  <1>1. \A n : IsFiniteSet(Left(n)) /\ Cardinality(Left(n)) \in Nat
    <2>1. \A n : Left(n) \subseteq Cached
      OBVIOUS
    <2> HIDE DEF Left
    <2> QED
      BY <2>1, CachedFinite, FS_Subset, FS_CardinalityType
  <1>2. CASE Cardinality(Cached) < MetaCapacity
    <2>1. Pops = 0
      BY <1>2 DEF Pops
    <2>2. SubSeq(metaOrder, 1, 0) = <<>>
      BY <1>0
    <2>3. Left(0) = Cached
      BY <2>2 DEF ToSet
    <2>4. Cardinality(Cached) + 1 <= MetaCapacity
      <3>1. Cardinality(Cached) \in Nat
        BY CachedFinite, FS_CardinalityType
      <3> QED
        BY <1>0, <1>2, <3>1
    <2>5. 0 \in 0..Len(metaOrder)
      BY <1>0
    <2> QED
      BY <2>1, <2>3, <2>4, <2>5
  <1>3. CASE ~(Cardinality(Cached) < MetaCapacity) /\ hits = {}
    <2>1. Pops = Len(metaOrder)
      BY <1>3 DEF Pops
    <2>2. SubSeq(metaOrder, 1, Len(metaOrder)) = metaOrder
      BY <1>0
    <2>3. Left(Len(metaOrder)) = {}
      BY <2>2 DEF MetaInv
    <2>4. Cardinality(Left(Len(metaOrder))) = 0
      BY <2>3, FS_EmptySet
    <2> QED
      BY <1>0, <2>1, <2>4
  <1>4. CASE ~(Cardinality(Cached) < MetaCapacity) /\ hits # {}
    <2>1. Pops = CHOOSE n \in hits : \A x \in hits : n <= x
      BY <1>4 DEF Pops
    <2>2. hits \subseteq Nat
      BY <1>0
    <2>3. \E n \in hits : \A x \in hits : n <= x
      <3> HIDE DEF hits
      <3> QED
        BY <1>4, <2>2, LeastNatural
    <2>4. Pops \in hits
      <3> HIDE DEF hits
      <3> QED
        BY <2>1, <2>3
    <2>5. Pops \in 1..Len(metaOrder) /\ Cardinality(Left(Pops)) < MetaCapacity
      BY <1>0, <2>4
    <2>6. Cardinality(Left(Pops)) \in Nat
      BY <1>1
    <2> HIDE DEF Left, hits
    <2>7. Cardinality(Left(Pops)) + 1 <= MetaCapacity
      BY <1>0, <2>5, <2>6
    <2> QED
      BY <1>0, <2>5, <2>7 DEF Left
  <1> QED
    BY <1>2, <1>3, <1>4

LEMMA MetaPutKeeps ==
    ASSUME MetaInv, NEW t \in MetaReaders, MetaPut(t) PROVE MetaInv'
  <1> DEFINE k == lookup[t].key
             popped == SubSeq(metaOrder, 1, Pops)
             rest == SubSeq(metaOrder, Pops + 1, Len(metaOrder))
             kept == Cached \ ToSet(popped)
  <1>1. k \in MetaKeys
    BY DEF MetaInv, LookupOk, MetaPut
  <1>2. /\ Cached' = kept \cup {k}
        /\ metaOrder' = Append(IF k \in kept THEN Dropped(rest, k) ELSE rest, k)
    BY DEF MetaPut, Cached
  <1>3. metaOrder \in Seq(MetaKeys) /\ Cached \subseteq MetaKeys /\ Cached \subseteq ToSet(metaOrder)
    BY DEF MetaInv
  <1>4. /\ rest \in Seq(MetaKeys)
        /\ ToSet(metaOrder) = ToSet(popped) \cup ToSet(rest)
        /\ \A x \in MetaKeys :
             /\ Occurrences(rest, x) <= Occurrences(metaOrder, x)
             /\ x \in ToSet(popped) => Occurrences(rest, x) + 1 <= Occurrences(metaOrder, x)
    BY <1>3, PopsMakeRoom, Suffix
  <1>5. kept \subseteq ToSet(rest)
    BY <1>3, <1>4
  <1>6. IsFiniteSet(kept) /\ Cardinality(kept) + 1 <= MetaCapacity /\ Cardinality(kept) \in Nat
    BY PopsMakeRoom, CachedFinite, FS_Subset, FS_CardinalityType
  <1>7. \A x \in kept : x \in Cached /\ x \notin ToSet(popped)
    OBVIOUS
  <1>8. \A x \in Cached : x \in kept \/ x \in ToSet(popped)
    OBVIOUS
  <1> HIDE DEF k, popped, rest, kept
  <1>9. Cached' \subseteq MetaKeys
    BY <1>1, <1>2, <1>3, <1>7
  <1>10. Cardinality(Cached') <= MetaCapacity
    <2>1. Cardinality(kept \cup {k}) = IF k \in kept THEN Cardinality(kept) ELSE Cardinality(kept) + 1
      BY <1>6, FS_AddElement
    <2>2. MetaCapacity \in Nat
      BY MetadataCacheAssumption
    <2> QED
      BY <1>2, <1>6, <2>1, <2>2
  <1>11. \A x \in MetaKeys : /\ Occurrences(rest, x) \in Nat /\ Occurrences(metaOrder, x) \in Nat
                             /\ x \notin kept => Occurrences(rest, x) <= 1
                             /\ Occurrences(rest, x) <= 2
    <2> SUFFICES ASSUME NEW x \in MetaKeys
                 PROVE  /\ Occurrences(rest, x) \in Nat /\ Occurrences(metaOrder, x) \in Nat
                        /\ x \notin kept => Occurrences(rest, x) <= 1
                        /\ Occurrences(rest, x) <= 2
      OBVIOUS
    <2>1. Occurrences(rest, x) \in Nat /\ Occurrences(metaOrder, x) \in Nat
      BY <1>3, <1>4, OccurrencesNat
    <2>2. /\ Occurrences(metaOrder, x) <= 2
          /\ x \notin Cached => Occurrences(metaOrder, x) <= 1
      BY DEF MetaInv, OrderBounded
    <2> QED
      BY <1>4, <1>8, <2>1, <2>2
  <1>12. CASE k \in kept
    <2>1. metaOrder' = Append(Dropped(rest, k), k)
      BY <1>2, <1>12
    <2>2. /\ metaOrder' \in Seq(MetaKeys)
          /\ ToSet(metaOrder') = ToSet(rest) \cup {k}
          /\ Occurrences(metaOrder', k) = 1
          /\ \A x \in MetaKeys \ {k} : Occurrences(metaOrder', x) <= Occurrences(rest, x)
      BY <1>1, <1>4, <2>1, MovedOccurrences
    <2>3. \A x \in MetaKeys : Occurrences(metaOrder', x) \in Nat
      BY <2>2, OccurrencesNat
    <2>4. OrderBounded'
      BY <1>2, <1>11, <2>2, <2>3 DEF OrderBounded
    <2>5. LookupOk' /\ lookup' \in [MetaReaders -> Lookups]
      BY LookupEnds DEF MetaPut
    <2> QED
      BY <1>2, <1>5, <1>9, <1>10, <2>2, <2>4, <2>5 DEF MetaInv
  <1>13. CASE k \notin kept
    <2>1. metaOrder' = Append(rest, k)
      BY <1>2, <1>13
    <2>2. metaOrder' \in Seq(MetaKeys) /\ ToSet(metaOrder') = ToSet(rest) \cup {k}
      BY <1>1, <1>4, <2>1, AppendSet
    <2>3. \A x \in MetaKeys : Occurrences(metaOrder', x) = Occurrences(rest, x) + (IF x = k THEN 1 ELSE 0)
      BY <1>1, <1>4, <2>1, AppendOccurrences
    <2>4. OrderBounded'
      BY <1>2, <1>11, <1>13, <2>3 DEF OrderBounded
    <2>5. LookupOk' /\ lookup' \in [MetaReaders -> Lookups]
      BY LookupEnds DEF MetaPut
    <2> QED
      BY <1>2, <1>5, <1>9, <1>10, <2>2, <2>4, <2>5 DEF MetaInv
  <1> QED
    BY <1>12, <1>13

LEMMA MetaInvalidateKeeps ==
    ASSUME MetaInv, NEW k \in MetaKeys, MetaInvalidate(k) PROVE MetaInv'
  <1>1. /\ Cached' = Cached \ {k} /\ metaOrder' = Dropped(metaOrder, k) /\ lookup' = lookup
        /\ metaOrder \in Seq(MetaKeys)
    BY DEF MetaInvalidate, Cached, MetaInv
  <1>2. /\ metaOrder' \in Seq(MetaKeys) /\ ToSet(metaOrder') = ToSet(metaOrder) \ {k}
        /\ Occurrences(metaOrder', k) = 0
        /\ \A x \in MetaKeys : Occurrences(metaOrder', x) <= Occurrences(metaOrder, x)
    BY <1>1, DroppedSeq
  <1>3. \A x \in MetaKeys : Occurrences(metaOrder', x) \in Nat /\ Occurrences(metaOrder, x) \in Nat
    BY <1>1, <1>2, OccurrencesNat
  <1>4. OrderBounded'
    BY <1>1, <1>2, <1>3 DEF OrderBounded, MetaInv
  <1>5. Cardinality(Cached') <= MetaCapacity
    <2>1. Cardinality(Cached \ {k}) <= Cardinality(Cached) /\ Cardinality(Cached \ {k}) \in Nat
      BY CachedFinite, FS_Subset, FS_CardinalityType
    <2>2. Cardinality(Cached) \in Nat /\ Cardinality(Cached) <= MetaCapacity /\ MetaCapacity \in Nat
      BY CachedFinite, FS_CardinalityType, MetadataCacheAssumption DEF MetaInv
    <2> QED
      BY <1>1, <2>1, <2>2
  <1> QED
    BY <1>1, <1>2, <1>4, <1>5 DEF MetaInv, LookupOk

LEMMA MetaStep == MetaInv /\ [MetaNext]_metaVars => MetaInv'
  <1> SUFFICES ASSUME MetaInv, [MetaNext]_metaVars PROVE MetaInv'
    OBVIOUS
  <1>1. ASSUME NEW t \in MetaReaders, NEW k \in MetaKeys, MetaGet(t, k) PROVE MetaInv'
    BY <1>1, MetaGetKeeps
  <1>2. ASSUME NEW t \in MetaReaders, MetaTouch(t) PROVE MetaInv'
    BY <1>2, MetaTouchKeeps
  <1>3. ASSUME NEW t \in MetaReaders, MetaPut(t) PROVE MetaInv'
    BY <1>3, MetaPutKeeps
  <1>4. ASSUME NEW t \in MetaReaders, MetaNotLoaded(t) PROVE MetaInv'
    <2>1. LookupOk' /\ lookup' \in [MetaReaders -> Lookups]
      BY <1>4, LookupEnds DEF MetaNotLoaded
    <2> QED
      BY <1>4, <2>1 DEF MetaNotLoaded, MetaInv, OrderBounded, Cached
  <1>5. ASSUME NEW k \in MetaKeys, MetaInvalidate(k) PROVE MetaInv'
    BY <1>5, MetaInvalidateKeeps
  <1>6. CASE MetaAge
    BY <1>6 DEF MetaAge, MetaInv, OrderBounded, LookupOk, Cached
  <1>7. CASE UNCHANGED metaVars
    BY <1>7 DEF metaVars, MetaInv, OrderBounded, LookupOk, Cached
  <1> QED
    BY <1>1, <1>2, <1>3, <1>4, <1>5, <1>6, <1>7 DEF MetaNext

\* MetadataCache: in every interleaving of lookups, puts and invalidations the cache
\* keeps max_entries, every entry is in lru_order, and a key that a lookup moves
\* to the back after its entry was evicted is there at most twice.
THEOREM MetadataCacheStaysBounded == MetaSpec => []MetadataCacheBounded
  <1>1. MetaInv => MetadataCacheBounded
    BY DEF MetaInv, OrderBounded, MetadataCacheBounded
  <1> QED
    BY <1>1, MetaInitHolds, MetaStep, PTL DEF MetaSpec

-----------------------------------------------------------------------------
(***************************************************************************)
(* RANGE ARITHMETIC                                                        *)
(***************************************************************************)

\* Ranges of integers with at least one byte.
Ranges == {r \in [start : Int, end : Int] : r.start <= r.end}

Sorted(s) == \A i, j \in DOMAIN s : i < j => s[i].start <= s[j].start

LEMMA KeepSorted ==
    ASSUME NEW X, NEW s \in Seq(X), Sorted(s), NEW S
    PROVE  Sorted(Keep(s, S))
  <1> DEFINE K == Keep(s, S)
  <1>1. PICK m : Picks(m, K, s, Len(s), S)
    BY KeepPicks
  <1>2. K \in Seq(X) /\ DOMAIN K = 1..Len(K) /\ DOMAIN s = 1..Len(s)
    BY KeepPicks
  <1> HIDE DEF K
  <1>3. ASSUME NEW i \in 1..Len(K), NEW j \in 1..Len(K), i < j PROVE K[i].start <= K[j].start
    <2>1. m[i] < m[j] /\ m[i] \in 1..Len(s) /\ m[j] \in 1..Len(s) /\ K[i] = s[m[i]] /\ K[j] = s[m[j]]
      BY <1>1, <1>3 DEF Picks
    <2> QED
      BY <1>2, <2>1 DEF Sorted
  <1>4. Sorted(K)
    BY <1>2, <1>3 DEF Sorted
  <1> QED
    BY <1>4 DEF K

\* Two sorted sequences, the second with no earlier start than the first.
LEMMA ConcatSorted ==
    ASSUME NEW X, NEW a \in Seq(X), NEW b \in Seq(X), Sorted(a), Sorted(b),
           \A i \in DOMAIN a, j \in DOMAIN b : a[i].start <= b[j].start
    PROVE  Sorted(a \o b) /\ ToSet(a \o b) = ToSet(a) \cup ToSet(b) /\ a \o b \in Seq(X)
  <1> DEFINE c == a \o b
             n == Len(a)
             k == Len(b)
  <1>1. n \in Nat /\ k \in Nat /\ DOMAIN a = 1..n /\ DOMAIN b = 1..k
    OBVIOUS
  <1>2. c \in Seq(X) /\ Len(c) = n + k
    BY ConcatProperties
  <1>3. \A i \in 1..(n + k) : c[i] = IF i <= n THEN a[i] ELSE b[i - n]
    BY ConcatProperties
  <1>4. DOMAIN c = 1..(n + k)
    BY <1>2
  <1> HIDE DEF c, n, k
  <1>5. ASSUME NEW i \in 1..(n + k), NEW j \in 1..(n + k), i < j PROVE c[i].start <= c[j].start
    <2>1. CASE j <= n
      <3>1. c[i] = a[i] /\ c[j] = a[j] /\ i \in 1..n /\ j \in 1..n
        BY <1>1, <1>3, <1>5, <2>1
      <3> QED
        BY <1>1, <1>5, <3>1 DEF Sorted
    <2>2. CASE i > n
      <3>1. c[i] = b[i - n] /\ c[j] = b[j - n] /\ i - n \in 1..k /\ j - n \in 1..k /\ i - n < j - n
        BY <1>1, <1>3, <1>5, <2>2
      <3> QED
        BY <1>1, <3>1 DEF Sorted
    <2>3. CASE i <= n /\ j > n
      <3>1. c[i] = a[i] /\ c[j] = b[j - n] /\ i \in 1..n /\ j - n \in 1..k
        BY <1>1, <1>3, <2>3
      <3> QED
        BY <1>1, <3>1
    <2> QED
      BY <1>1, <2>1, <2>2, <2>3
  <1>6. Sorted(c)
    BY <1>4, <1>5 DEF Sorted
  <1>7. ToSet(c) = ToSet(a) \cup ToSet(b)
    <2>1. ToSet(c) \subseteq ToSet(a) \cup ToSet(b)
      <3>1. ASSUME NEW i \in 1..(n + k) PROVE c[i] \in ToSet(a) \cup ToSet(b)
        <4>1. CASE i <= n
          BY <1>1, <1>3, <4>1 DEF ToSet
        <4>2. CASE i > n
          <5>1. i - n \in 1..k /\ c[i] = b[i - n]
            BY <1>1, <1>3, <4>2
          <5> QED
            BY <1>1, <5>1 DEF ToSet
        <4> QED
          BY <1>1, <4>1, <4>2
      <3> QED
        BY <1>4, <3>1 DEF ToSet
    <2>2. ToSet(a) \subseteq ToSet(c)
      <3>1. \A i \in 1..n : i \in 1..(n + k) /\ c[i] = a[i]
        BY <1>1, <1>3
      <3> QED
        BY <1>1, <1>4, <3>1 DEF ToSet
    <2>3. ToSet(b) \subseteq ToSet(c)
      <3>1. \A i \in 1..k : n + i \in 1..(n + k) /\ c[n + i] = b[i]
        <4> SUFFICES ASSUME NEW i \in 1..k PROVE n + i \in 1..(n + k) /\ c[n + i] = b[i]
          OBVIOUS
        <4>1. n + i \in 1..(n + k) /\ ~(n + i <= n) /\ (n + i) - n = i
          BY <1>1
        <4> QED
          BY <1>3, <4>1
      <3> QED
        BY <1>1, <1>4, <3>1 DEF ToSet
    <2> QED
      BY <2>1, <2>2, <2>3
  <1> QED
    BY <1>2, <1>6, <1>7 DEF c

LEMMA InsertSorts ==
    ASSUME NEW X, \A x \in X : x.start \in Int, NEW s \in Seq(X), Sorted(s), NEW r \in X
    PROVE  /\ InsertByStart(s, r) \in Seq(X) /\ Sorted(InsertByStart(s, r))
           /\ ToSet(InsertByStart(s, r)) = ToSet(s) \cup {r}
  <1> DEFINE before == {x \in ToSet(s) : x.start <= r.start}
             a == Keep(s, before)
             b == Keep(s, ToSet(s) \ before)
             m == <<r>>
  <1>0. ToSet(s) \subseteq X
    BY DEF ToSet
  <1>1. a \in Seq(X) /\ Sorted(a) /\ ToSet(a) = ToSet(s) \cap before
    BY KeepPicks, KeepSet, KeepSorted
  <1>2. b \in Seq(X) /\ Sorted(b) /\ ToSet(b) = ToSet(s) \cap (ToSet(s) \ before)
    BY KeepPicks, KeepSet, KeepSorted
  <1>3. m \in Seq(X) /\ Sorted(m) /\ DOMAIN m = {1} /\ m[1] = r /\ ToSet(m) = {r}
    BY DEF Sorted, ToSet
  <1>4. InsertByStart(s, r) = (a \o m) \o b
    BY DEF InsertByStart
  <1>5. \A i \in DOMAIN a : a[i] \in before
    BY <1>1 DEF ToSet
  <1>6. \A i \in DOMAIN b : b[i] \in ToSet(s) \ before
    BY <1>2 DEF ToSet
  <1>7. \A i \in DOMAIN a : a[i].start <= r.start
    BY <1>5
  <1>8. \A j \in DOMAIN b : r.start <= b[j].start
    BY <1>0, <1>6
  <1> HIDE DEF a, b, m, before
  <1>9. Sorted(a \o m) /\ ToSet(a \o m) = ToSet(a) \cup ToSet(m) /\ a \o m \in Seq(X)
    BY <1>1, <1>3, <1>7, ConcatSorted
  <1> DEFINE am == a \o m
  <1>10. am \in Seq(X) /\ Sorted(am) /\ ToSet(am) = ToSet(a) \cup {r}
    BY <1>3, <1>9
  <1>11. \A i \in DOMAIN am : am[i].start <= r.start
    <2>1. \A i \in DOMAIN am : am[i] \in ToSet(a) \cup {r}
      BY <1>10 DEF ToSet
    <2>2. \A x \in ToSet(a) : x.start <= r.start
      BY <1>7 DEF ToSet
    <2> QED
      BY <2>1, <2>2
  <1>12. \A i \in DOMAIN am : am[i].start \in Int
    BY <1>10
  <1>13. \A j \in DOMAIN b : b[j].start \in Int
    BY <1>2
  <1> HIDE DEF am
  <1>14. \A i \in DOMAIN am, j \in DOMAIN b : am[i].start <= b[j].start
    BY <1>8, <1>11, <1>12, <1>13
  <1>15. Sorted(am \o b) /\ ToSet(am \o b) = ToSet(am) \cup ToSet(b) /\ am \o b \in Seq(X)
    BY <1>2, <1>10, <1>14, ConcatSorted
  <1>16. ToSet(am) \cup ToSet(b) = ToSet(s) \cup {r}
    BY <1>1, <1>2, <1>10
  <1> QED
    BY <1>4, <1>15, <1>16 DEF am

\* The union of the first n elements of a sequence.
FirstOf(s, n) == {s[i] : i \in 1..n}

LEMMA FirstOfStep ==
    ASSUME NEW s, NEW n \in Nat \ {0}
    PROVE  FirstOf(s, n) = FirstOf(s, n - 1) \cup {s[n]}
  <1>1. 1..n = (1..(n - 1)) \cup {n}
    OBVIOUS
  <1> QED
    BY <1>1 DEF FirstOf

\* sort_by_key gives the same elements in order of their starts.
LEMMA SortSpec ==
    ASSUME NEW X, \A x \in X : x.start \in Int, NEW rs \in Seq(X)
    PROVE  /\ SortByStart(rs) \in Seq(X) /\ Sorted(SortByStart(rs))
           /\ ToSet(SortByStart(rs)) = ToSet(rs)
  <1> DEFINE A == {o \in Seq(X) : Sorted(o)}
             base == <<>>
             h == [p \in A \X X |-> InsertByStart(p[1], p[2])]
             Eq(g) == g = [s \in SUBSET DOMAIN rs |->
                IF s = {} THEN base ELSE InsertByStart(g[s \ {Max(s)}], rs[Max(s)])]
             G == CHOOSE g : Eq(g)
  <1>0. \A o \in Seq(X), x \in X : Sorted(o) =>
          ToSet(InsertByStart(o, x)) = ToSet(o) \cup {x}
    BY InsertSorts
  <1>1. h \in [A \X X -> A] /\ base \in A
    <2>1. \A a \in A, x \in X : InsertByStart(a, x) \in A
      BY InsertSorts
    <2>2. base \in A
      BY DEF Sorted
    <2> HIDE DEF A
    <2> QED
      BY <2>1, <2>2
  <1>2. \A a \in A, x \in X : h[<<a, x>>] = InsertByStart(a, x)
    OBVIOUS
  <1>3. DOMAIN rs = 1..Len(rs) /\ Len(rs) \in Nat /\ \A i \in 1..Len(rs) : rs[i] \in X
    OBVIOUS
  <1>4. SortByStart(rs) = G[DOMAIN rs]
    BY DEF SortByStart, FoldLeft, MapThenFoldSet
  <1> HIDE DEF h, A, base
  <1>5. \A s \in SUBSET (1..Len(rs)) : s # {} =>
          s \ {Max(s)} \in SUBSET (1..Len(rs)) /\ rs[Max(s)] \in X
    BY <1>3, MaxOf
  <1>6. \E g : Eq(g)
    <2>1. PICK g \in [SUBSET (1..Len(rs)) -> A] : Iterates(g, h, base, rs)
      BY <1>1, IterationExists
    <2>2. \A s \in SUBSET (1..Len(rs)) : s # {} =>
            h[<<g[s \ {Max(s)}], rs[Max(s)]>>] = InsertByStart(g[s \ {Max(s)}], rs[Max(s)])
      BY <1>2, <1>5
    <2>3. Eq(g)
      BY <1>3, <2>1, <2>2 DEF Iterates
    <2> QED
      BY <2>3
  <1>7. Eq(G)
    BY <1>6
  <1> HIDE DEF G
  <1>8. Obeys(G, h, A, base, rs)
    BY <1>2, <1>3, <1>5, <1>7 DEF Obeys
  <1>9. PICK f : PrefixFold(f, h, A, base, rs) /\ Ends(f, G, rs)
    BY <1>1, <1>8, PrefixValues
  <1>10. SortByStart(rs) = f[Len(rs)]
    BY <1>3, <1>4, <1>9 DEF Ends
  <1> DEFINE T == {n \in 0..Len(rs) : ToSet(f[n]) = FirstOf(rs, n)}
  <1>11. 0 \in T
    <2>1. f[0] = <<>>
      BY <1>9 DEF PrefixFold, base
    <2>2. FirstOf(rs, 0) = {} /\ ToSet(<<>>) = {}
      BY DEF FirstOf, ToSet
    <2>3. ToSet(f[0]) = FirstOf(rs, 0)
      BY <2>1, <2>2
    <2>4. 0 \in 0..Len(rs)
      BY <1>3
    <2> QED
      BY <2>3, <2>4
  <1>12. ASSUME NEW n \in 1..Len(rs), n - 1 \in T PROVE n \in T
    <2>0. n - 1 \in 0..Len(rs) /\ n \in 0..Len(rs) /\ n \in Nat \ {0}
      BY <1>3
    <2>1. f[n] = InsertByStart(f[n - 1], rs[n]) /\ f[n - 1] \in A
      BY <1>2, <1>3, <1>9, <2>0 DEF PrefixFold
    <2>2. f[n - 1] \in Seq(X) /\ Sorted(f[n - 1])
      BY <2>1 DEF A
    <2>3. ToSet(f[n]) = ToSet(f[n - 1]) \cup {rs[n]}
      <3>1. ToSet(InsertByStart(f[n - 1], rs[n])) = ToSet(f[n - 1]) \cup {rs[n]}
        BY <1>0, <1>3, <2>2
      <3> QED
        BY <2>1, <3>1
    <2> QED
      BY <1>12, <2>0, <2>3, FirstOfStep
  <1>13. Len(rs) \in T
    <2> HIDE DEF T
    <2>1. \A k \in 0..Len(rs) : k \in T
      BY <1>3, <1>11, <1>12, UpTo
    <2> QED
      BY <1>3, <2>1
  <1>14. FirstOf(rs, Len(rs)) = ToSet(rs)
    BY <1>3 DEF FirstOf, ToSet
  <1>15. f[Len(rs)] \in A
    BY <1>3, <1>9 DEF PrefixFold
  <1> QED
    BY <1>10, <1>13, <1>14, <1>15 DEF A

-----------------------------------------------------------------------------

\* The bytes of the first n ranges of a sequence.
BytesUpTo(s, n) == UNION {BytesOf(s[i]) : i \in 1..n}

LEMMA BytesUpToStep ==
    ASSUME NEW s, NEW n \in Nat \ {0}
    PROVE  BytesUpTo(s, n) = BytesUpTo(s, n - 1) \cup BytesOf(s[n])
  <1>1. 1..n = (1..(n - 1)) \cup {n}
    OBVIOUS
  <1> QED
    BY <1>1 DEF BytesUpTo

LEMMA BytesUpToAll ==
    ASSUME NEW X, NEW s \in Seq(X)
    PROVE  BytesUpTo(s, Len(s)) = BytesIn(s) /\ BytesUpTo(s, 0) = {}
  BY DEF BytesUpTo, BytesIn

LEMMA BytesInAppend ==
    ASSUME NEW X, NEW s \in Seq(X), NEW r \in X
    PROVE  BytesIn(Append(s, r)) = BytesIn(s) \cup BytesOf(r)
  <1> DEFINE n == Len(s)
             t == Append(s, r)
  <1>1. n \in Nat /\ DOMAIN s = 1..n /\ DOMAIN t = 1..(n + 1) /\ t[n + 1] = r
    OBVIOUS
  <1>2. \A i \in 1..n : t[i] = s[i]
    OBVIOUS
  <1> HIDE DEF n, t
  <1>3. \A i \in 1..(n + 1) : i = n + 1 \/ i \in 1..n
    BY <1>1
  <1>4. n + 1 \in 1..(n + 1) /\ \A i \in 1..n : i \in 1..(n + 1)
    BY <1>1
  <1>5. BytesIn(t) \subseteq BytesIn(s) \cup BytesOf(r)
    BY <1>1, <1>2, <1>3 DEF BytesIn
  <1>6. BytesIn(s) \cup BytesOf(r) \subseteq BytesIn(t)
    BY <1>1, <1>2, <1>4 DEF BytesIn
  <1> QED
    BY <1>5, <1>6 DEF t

LEMMA BytesInSet ==
    ASSUME NEW s, NEW t, ToSet(s) = ToSet(t)
    PROVE  BytesIn(s) = BytesIn(t)
  <1>1. BytesIn(s) = UNION {BytesOf(r) : r \in ToSet(s)}
    BY DEF BytesIn, ToSet
  <1>2. BytesIn(t) = UNION {BytesOf(r) : r \in ToSet(t)}
    BY DEF BytesIn, ToSet
  <1> QED
    BY <1>1, <1>2

\* What Join has made of ranges that hold the bytes In, for a threshold g.
\* Ranges it keeps apart are more than g bytes apart ...
Apart(out, g) == \A i \in 1..(Len(out) - 1) : out[i + 1].start > out[i].end + 1 + g
\* ... every range starts and ends with a byte of In ...
Anchored(out, In) == \A i \in 1..Len(out) : out[i].start \in In /\ out[i].end \in In
\* ... and a byte it adds lies in a gap of at most g.
Bridges(out, In, g) ==
    \A i \in 1..Len(out) : \A b \in BytesOf(out[i]) \ In :
        \E lo, hi \in In : lo < b /\ b < hi /\ hi - lo <= g + 1
Joined(out, In, g) ==
    /\ out \in Seq(Ranges) /\ Apart(out, g) /\ Anchored(out, In) /\ Bridges(out, In, g)
    /\ In \subseteq BytesIn(out)

\* One more range, whose start is not before that of the last one.
LEMMA JoinNextJoins ==
    ASSUME NEW g \in Nat, NEW In \in SUBSET Int, NEW out, Joined(out, In, g), NEW r \in Ranges,
           out # <<>> => Last(out).start <= r.start
    PROVE  /\ Joined(JoinNext(out, r, g), In \cup BytesOf(r), g)
           /\ JoinNext(out, r, g) # <<>>
           /\ Last(JoinNext(out, r, g)).start <= r.start
  <1> DEFINE J == JoinNext(out, r, g)
             n == Len(out)
             New == In \cup BytesOf(r)
  <1>1. out \in Seq(Ranges) /\ n \in Nat /\ DOMAIN out = 1..n /\ \A i \in 1..n : out[i] \in Ranges
    BY DEF Joined
  <1>0. n \in Nat
    BY <1>1
  <1>l. n = Len(out)
    OBVIOUS
  <1> HIDE DEF n
  <1>2. r.start \in Int /\ r.end \in Int /\ r.start <= r.end
    BY DEF Ranges
  <1>3. \A i \in 1..n : out[i].start \in Int /\ out[i].end \in Int /\ out[i].start <= out[i].end
    BY <1>1 DEF Ranges
  <1>4. BytesOf(r) = r.start..r.end /\ r.start \in New /\ r.end \in New
    BY <1>2 DEF BytesOf
  <1>5. CASE out # <<>> /\ Last(out).end + 1 + g >= r.start
    <2> DEFINE L == out[n]
               e == Most(L.end, r.end)
               new == [L EXCEPT !.end = e]
    <2>1. n \in 1..n /\ n >= 1
      BY <1>1, <1>5, <1>l
    <2>2. L.start <= r.start /\ L.end + 1 + g >= r.start /\ L \in Ranges
      BY <1>1, <1>5, <2>1 DEF Last, n
    <2>3. e \in Int /\ (e = L.end \/ e = r.end) /\ e >= L.end /\ e >= r.end
      BY <1>2, <1>3, <2>1 DEF Most
    <2>4. new \in Ranges /\ new.start = L.start /\ new.end = e
      <3>1. L \in [start : Int, end : Int] /\ L.start <= L.end
        BY <2>2 DEF Ranges
      <3> HIDE DEF L, e
      <3>2. new \in [start : Int, end : Int] /\ new.start = L.start /\ new.end = e
        BY <2>3, <3>1
      <3> QED
        BY <2>3, <3>1, <3>2 DEF Ranges
    <2>5. J = [out EXCEPT ![n] = new]
      BY <1>5 DEF JoinNext, n
    <2> HIDE DEF new, e, J
    <2>6. /\ J \in Seq(Ranges) /\ Len(J) = n /\ J[n] = new
          /\ \A i \in 1..(n - 1) : J[i] = out[i]
      BY <1>1, <1>l, <2>1, <2>4, <2>5, ExceptSeq
    <2>7. Apart(J, g)
      <3> SUFFICES ASSUME NEW i \in 1..(n - 1) PROVE J[i + 1].start > J[i].end + 1 + g
        BY <2>6 DEF Apart
      <3>1. out[i + 1].start > out[i].end + 1 + g
        BY DEF Joined, Apart, n
      <3>2. J[i + 1].start = out[i + 1].start
        <4>1. CASE i + 1 = n
          BY <2>4, <2>6, <4>1
        <4>2. CASE i + 1 # n
          <5>1. i + 1 \in 1..(n - 1)
            BY <1>0, <4>2
          <5> QED
            BY <2>6, <5>1
        <4> QED
          BY <4>1, <4>2
      <3> QED
        BY <2>6, <3>1, <3>2
    <2>8. \A i \in 1..n : i = n \/ i \in 1..(n - 1)
      BY <1>0
    <2>9. Anchored(J, New)
      <3>1. new.start \in New /\ new.end \in New
        BY <1>4, <2>1, <2>3, <2>4 DEF Joined, Anchored, n
      <3>2. \A i \in 1..(n - 1) : J[i].start \in New /\ J[i].end \in New
        BY <1>1, <2>6 DEF Joined, Anchored, n
      <3> QED
        BY <2>6, <2>8, <3>1, <3>2 DEF Anchored
    <2>10. Bridges(J, New, g)
      <3>1. ASSUME NEW b \in BytesOf(new) \ New
            PROVE  \E lo, hi \in New : lo < b /\ b < hi /\ hi - lo <= g + 1
        <4>1. b \in Int /\ L.start <= b /\ b <= e /\ b \notin In /\ ~(r.start <= b /\ b <= r.end)
          BY <1>2, <1>4, <2>3, <2>4 DEF BytesOf
        <4>2. CASE b <= L.end
          <5>1. b \in BytesOf(L) \ In
            BY <1>3, <2>1, <4>1, <4>2 DEF BytesOf
          <5> QED
            BY <2>1, <5>1 DEF Joined, Bridges, n
        <4>3. CASE b > L.end
          <5>1. b < r.start
            BY <1>2, <2>3, <4>1, <4>3
          <5>2. L.end \in New /\ r.start \in New
            BY <1>4, <2>1 DEF Joined, Anchored, n
          <5>3. L.end < b /\ r.start - L.end <= g + 1
            BY <1>2, <1>3, <2>1, <2>2, <4>3
          <5> HIDE DEF New
          <5> QED
            BY <5>1, <5>2, <5>3
        <4> QED
          BY <1>3, <2>1, <4>1, <4>2, <4>3
      <3>2. ASSUME NEW i \in 1..(n - 1), NEW b \in BytesOf(J[i]) \ New
            PROVE  \E lo, hi \in New : lo < b /\ b < hi /\ hi - lo <= g + 1
        <4>1. i \in 1..n /\ b \in BytesOf(out[i]) \ In
          BY <1>1, <2>6
        <4> QED
          BY <4>1 DEF Joined, Bridges, n
      <3> QED
        BY <2>6, <2>8, <3>1, <3>2 DEF Bridges
    <2>11. New \subseteq BytesIn(J)
      <3>1. BytesOf(r) \subseteq BytesOf(new) /\ BytesOf(L) \subseteq BytesOf(new)
        BY <1>2, <1>3, <2>1, <2>2, <2>3, <2>4 DEF BytesOf
      <3>2. DOMAIN J = 1..n
        BY <2>6
      <3>3. BytesOf(new) \subseteq BytesIn(J)
        BY <2>1, <2>6, <3>2 DEF BytesIn
      <3>4. \A i \in 1..(n - 1) : i \in 1..n /\ BytesOf(out[i]) \subseteq BytesIn(J)
        BY <1>1, <2>6, <3>2 DEF BytesIn
      <3>5. BytesIn(out) \subseteq BytesIn(J)
        BY <1>1, <2>8, <3>1, <3>3, <3>4 DEF BytesIn
      <3> QED
        BY <3>1, <3>3, <3>5 DEF Joined
    <2>12. J # <<>> /\ Last(J).start <= r.start
      BY <2>1, <2>2, <2>4, <2>6 DEF Last, n
    <2> QED
      BY <2>6, <2>7, <2>9, <2>10, <2>11, <2>12 DEF Joined, J
  <1>6. CASE ~(out # <<>> /\ Last(out).end + 1 + g >= r.start)
    <2>1. J = Append(out, r)
      BY <1>6 DEF JoinNext, n
    <2>2. /\ J \in Seq(Ranges) /\ Len(J) = n + 1 /\ J[n + 1] = r
          /\ \A i \in 1..n : J[i] = out[i]
      BY <1>1, <1>l, <2>1, AppendProperties
    <2> HIDE DEF J
    <2>3. \A i \in 1..(n + 1) : i = n + 1 \/ i \in 1..n
      BY <1>1
    <2>4. Apart(J, g)
      <3> SUFFICES ASSUME NEW i \in 1..n PROVE J[i + 1].start > J[i].end + 1 + g
        BY <1>1, <2>2 DEF Apart
      <3>1. CASE i = n
        <4>1. n >= 1 /\ out # <<>>
          BY <1>1, <1>l, <3>1
        <4>2. ~(out[n].end + 1 + g >= r.start)
          BY <1>6, <4>1 DEF Last, n
        <4>3. out[n].end + 1 + g < r.start
          BY <1>2, <1>3, <3>1, <4>2
        <4> QED
          BY <2>2, <3>1, <4>3
      <3>2. CASE i # n
        <4>1. i \in 1..(n - 1) /\ i + 1 \in 1..n
          BY <1>0, <3>2
        <4>2. out[i + 1].start > out[i].end + 1 + g
          BY <4>1 DEF Joined, Apart, n
        <4> QED
          BY <2>2, <4>1, <4>2
      <3> QED
        BY <3>1, <3>2
    <2>5. Anchored(J, New)
      BY <1>4, <2>2, <2>3 DEF Joined, Anchored, n
    <2>6. Bridges(J, New, g)
      <3>1. ASSUME NEW i \in 1..n, NEW b \in BytesOf(J[i]) \ New
            PROVE  \E lo, hi \in New : lo < b /\ b < hi /\ hi - lo <= g + 1
        <4>1. b \in BytesOf(out[i]) \ In
          BY <2>2
        <4> QED
          BY <4>1 DEF Joined, Bridges, n
      <3>2. BytesOf(J[n + 1]) \ New = {}
        BY <2>2
      <3> QED
        BY <2>2, <2>3, <3>1, <3>2 DEF Bridges
    <2>7. New \subseteq BytesIn(J)
      <3>1. BytesIn(J) = BytesIn(out) \cup BytesOf(r)
        BY <1>1, <2>1, BytesInAppend
      <3> QED
        BY <3>1 DEF Joined
    <2>8. J # <<>> /\ Last(J).start <= r.start
      BY <1>1, <1>2, <2>2 DEF Last, n
    <2> QED
      BY <2>2, <2>4, <2>5, <2>6, <2>7, <2>8 DEF Joined, J
  <1> QED
    BY <1>5, <1>6


LEMMA JoinNextType ==
    ASSUME NEW g \in Nat, NEW out \in Seq(Ranges), NEW r \in Ranges
    PROVE  JoinNext(out, r, g) \in Seq(Ranges)
  <1>1. CASE out # <<>> /\ Last(out).end + 1 + g >= r.start
    <2> DEFINE n == Len(out)
               L == out[n]
               e == Most(L.end, r.end)
               new == [L EXCEPT !.end = e]
    <2>1. n \in 1..n
      BY <1>1
    <2>2. L \in [start : Int, end : Int] /\ L.start <= L.end /\ r.end \in Int
      BY <2>1 DEF Ranges
    <2>3. e \in Int /\ e >= L.end
      BY <2>2 DEF Most
    <2>4. new \in Ranges
      <3> HIDE DEF L, e
      <3>1. new \in [start : Int, end : Int] /\ new.start = L.start /\ new.end = e
        BY <2>2, <2>3
      <3> QED
        BY <2>2, <2>3, <3>1 DEF Ranges
    <2>5. JoinNext(out, r, g) = [out EXCEPT ![n] = new]
      BY <1>1 DEF JoinNext
    <2> HIDE DEF new
    <2> QED
      BY <2>1, <2>4, <2>5, ExceptSeq
  <1>2. CASE ~(out # <<>> /\ Last(out).end + 1 + g >= r.start)
    BY <1>2 DEF JoinNext
  <1> QED
    BY <1>1, <1>2

\* merge_ranges and consolidate_missing_ranges, over ranges in any order.
LEMMA JoinSpec ==
    ASSUME NEW g \in Nat, NEW rs \in Seq(Ranges)
    PROVE  Joined(Join(rs, g), BytesIn(rs), g) /\ (rs = <<>> => Join(rs, g) = <<>>)
  <1> DEFINE A == Seq(Ranges)
             X == Ranges
             S == SortByStart(rs)
             base == <<>>
             Step(a, x) == JoinNext(a, x, g)
             h == [p \in A \X X |-> Step(p[1], p[2])]
             Eq(u) == u = [s \in SUBSET DOMAIN S |->
                IF s = {} THEN base ELSE Step(u[s \ {Max(s)}], S[Max(s)])]
             G == CHOOSE u : Eq(u)
  <1>0. S \in Seq(X) /\ Sorted(S) /\ ToSet(S) = ToSet(rs)
    <2>1. \A x \in X : x.start \in Int
      BY DEF Ranges
    <2> HIDE DEF X
    <2>2. rs \in Seq(X)
      BY DEF X
    <2> QED
      BY <2>1, <2>2, SortSpec
  <1>1. h \in [A \X X -> A] /\ base \in A
    <2>1. \A a \in A, x \in X : Step(a, x) \in A
      BY JoinNextType
    <2>2. base \in A
      OBVIOUS
    <2> HIDE DEF A, X, Step
    <2> QED
      BY <2>1, <2>2
  <1>2. \A a \in A, x \in X : h[<<a, x>>] = Step(a, x)
    OBVIOUS
  <1>3. DOMAIN S = 1..Len(S) /\ Len(S) \in Nat /\ \A i \in 1..Len(S) : S[i] \in X
    BY <1>0
  <1>4. Join(rs, g) = G[DOMAIN S]
    BY DEF Join, FoldLeft, MapThenFoldSet
  <1> HIDE DEF h, A, base, X, S, Step
  <1>5. \A s \in SUBSET (1..Len(S)) : s # {} =>
          s \ {Max(s)} \in SUBSET (1..Len(S)) /\ S[Max(s)] \in X
    BY <1>3, MaxOf
  <1>6. \E u : Eq(u)
    <2>1. PICK u \in [SUBSET (1..Len(S)) -> A] : Iterates(u, h, base, S)
      BY <1>0, <1>1, IterationExists
    <2>2. \A s \in SUBSET (1..Len(S)) : s # {} =>
            h[<<u[s \ {Max(s)}], S[Max(s)]>>] = Step(u[s \ {Max(s)}], S[Max(s)])
      BY <1>2, <1>5
    <2>3. Eq(u)
      BY <1>3, <2>1, <2>2 DEF Iterates
    <2> QED
      BY <2>3
  <1>7. Eq(G)
    BY <1>6
  <1> HIDE DEF G
  <1>8. Obeys(G, h, A, base, S)
    BY <1>2, <1>3, <1>5, <1>7 DEF Obeys
  <1>9. PICK f : PrefixFold(f, h, A, base, S) /\ Ends(f, G, S)
    BY <1>0, <1>1, <1>8, PrefixValues
  <1>10. Join(rs, g) = f[Len(S)]
    BY <1>3, <1>4, <1>9 DEF Ends
  <1> DEFINE Ok(n) == /\ Joined(f[n], BytesUpTo(S, n), g)
                      /\ n = 0 => f[n] = <<>>
                      /\ n > 0 => f[n] # <<>> /\ Last(f[n]).start <= S[n].start
             T == {n \in 0..Len(S) : Ok(n)}
  <1>11. 0 \in T
    <2>1. f[0] = <<>>
      BY <1>9 DEF PrefixFold, base
    <2>2. BytesUpTo(S, 0) = {}
      BY <1>0, BytesUpToAll
    <2>3. Joined(<<>>, {}, g)
      BY DEF Joined, Apart, Anchored, Bridges, BytesIn
    <2>4. 0 \in 0..Len(S)
      BY <1>3
    <2>5. Joined(f[0], BytesUpTo(S, 0), g)
      BY <2>1, <2>2, <2>3
    <2>6. Ok(0)
      BY <2>1, <2>5
    <2> HIDE DEF Ok
    <2> QED
      BY <2>4, <2>6
  <1>12. ASSUME NEW n \in 1..Len(S), n - 1 \in T PROVE n \in T
    <2> DEFINE In == BytesUpTo(S, n - 1)
               out == f[n - 1]
               r == S[n]
    <2>0. n - 1 \in 0..Len(S) /\ n \in 0..Len(S) /\ n \in Nat \ {0}
      BY <1>3
    <2>1. f[n] = JoinNext(out, r, g)
      BY <1>2, <1>3, <1>9, <2>0 DEF PrefixFold, Step
    <2>2. r \in Ranges /\ Joined(out, In, g)
      BY <1>3, <1>12 DEF X
    <2>3. In \in SUBSET Int
      <3>1. \A i \in 1..(n - 1) : i \in 1..Len(S)
        BY <1>3
      <3>2. \A i \in 1..(n - 1) : S[i] \in Ranges
        BY <1>3, <3>1 DEF X
      <3> QED
        BY <3>2 DEF BytesUpTo, BytesOf, Ranges
    <2>4. out # <<>> => Last(out).start <= r.start
      <3>1. CASE n = 1
        BY <1>12, <3>1
      <3>2. CASE n # 1
        <4>1. n - 1 \in 1..Len(S) /\ n - 1 < n /\ n - 1 > 0
          BY <1>3, <3>2
        <4>2. Last(out).start <= S[n - 1].start
          BY <1>12, <4>1
        <4>3. S[n - 1].start <= r.start
          BY <1>0, <1>3, <4>1 DEF Sorted
        <4>4. ASSUME out # <<>> PROVE Last(out).start \in Int
          <5>1. out \in Seq(Ranges)
            BY <2>2 DEF Joined
          <5>2. Len(out) \in 1..Len(out)
            BY <4>4, <5>1
          <5> QED
            BY <5>1, <5>2 DEF Last, Ranges
        <4>5. S[n - 1].start \in Int /\ r.start \in Int
          BY <1>3, <4>1 DEF X, Ranges
        <4> QED
          BY <4>2, <4>3, <4>4, <4>5
      <3> QED
        BY <3>1, <3>2
    <2> HIDE DEF In, out, r
    <2>5. /\ Joined(JoinNext(out, r, g), In \cup BytesOf(r), g)
          /\ JoinNext(out, r, g) # <<>> /\ Last(JoinNext(out, r, g)).start <= r.start
      BY <2>2, <2>3, <2>4, JoinNextJoins
    <2>6. BytesUpTo(S, n) = In \cup BytesOf(r)
      BY <2>0, BytesUpToStep DEF In, r
    <2> QED
      BY <2>0, <2>1, <2>5, <2>6 DEF r
  <1>13. Len(S) \in T
    <2> HIDE DEF T
    <2>1. \A k \in 0..Len(S) : k \in T
      BY <1>3, <1>11, <1>12, UpTo
    <2> QED
      BY <1>3, <2>1
  <1>14. BytesUpTo(S, Len(S)) = BytesIn(rs)
    BY <1>0, BytesUpToAll, BytesInSet
  <1>15. rs = <<>> => Len(S) = 0
    <2> SUFFICES ASSUME rs = <<>>, Len(S) > 0 PROVE FALSE
      BY <1>3
    <2>1. 1 \in 1..Len(S)
      BY <1>3
    <2>2. S[1] \in ToSet(S)
      BY <1>3, <2>1 DEF ToSet
    <2>3. ToSet(<<>>) = {}
      BY DEF ToSet
    <2> QED
      BY <1>0, <2>2, <2>3
  <1> QED
    BY <1>3, <1>10, <1>13, <1>14, <1>15

\* Ranges that are kept apart are in order, the far ones too.
LEMMA ApartInOrder ==
    ASSUME NEW g \in Nat, NEW out \in Seq(Ranges), Apart(out, g),
           NEW i \in 1..Len(out), NEW j \in 1..Len(out), i < j
    PROVE  out[j].start > out[i].end + 1 + g
  <1> DEFINE n == Len(out)
             T == {k \in 0..n : k > i => out[k].start > out[i].end + 1 + g}
  <1>0. n \in Nat /\ \A k \in 1..n : out[k].start \in Int /\ out[k].end \in Int /\ out[k].start <= out[k].end
    BY DEF Ranges
  <1>1. 0 \in T
    BY <1>0
  <1>2. ASSUME NEW k \in 1..n, k - 1 \in T PROVE k \in T
    <2>1. CASE k - 1 >= i
      <3>1. k - 1 \in 1..(n - 1) /\ k - 1 \in 1..n /\ (k - 1) + 1 = k
        BY <1>0, <2>1
      <3>2. out[k].start > out[k - 1].end + 1 + g
        BY <3>1 DEF Apart
      <3>3. CASE k - 1 = i
        BY <3>2, <3>3
      <3>4. CASE k - 1 > i
        <4>1. out[k - 1].start > out[i].end + 1 + g
          BY <1>2, <3>4
        <4>2. out[k].start > out[i].end + 1 + g
          <5>1. /\ out[k - 1].start \in Int /\ out[k - 1].end \in Int /\ out[k - 1].start <= out[k - 1].end
                /\ out[k].start \in Int /\ out[i].end \in Int
            BY <1>0, <3>1
          <5> DEFINE a == out[k].start
                     b == out[k - 1].end
                     c == out[k - 1].start
                     d == out[i].end
          <5>2. a \in Int /\ b \in Int /\ c \in Int /\ d \in Int /\ c <= b
            BY <5>1
          <5>3. a > b + 1 + g /\ c > d + 1 + g
            BY <3>2, <4>1
          <5> HIDE DEF a, b, c, d
          <5>4. a > d + 1 + g
            BY <5>2, <5>3
          <5> QED
            BY <5>4 DEF a, d
        <4>3. k \in 0..n
          BY <1>0
        <4> QED
          BY <4>2, <4>3
      <3> QED
        BY <2>1, <3>1, <3>3, <3>4
    <2>2. CASE k - 1 < i
      BY <1>0, <2>2
    <2> QED
      BY <1>0, <2>1, <2>2
  <1>3. \A k \in 0..n : k \in T
    <2> HIDE DEF T
    <2> QED
      BY <1>0, <1>1, <1>2, UpTo
  <1> QED
    BY <1>0, <1>3

\* Without a threshold no byte is added.
LEMMA MergeRangesExact ==
    ASSUME NEW rs \in Seq(Ranges)
    PROVE  /\ MergeRanges(rs) \in Seq(Ranges) /\ Apart(MergeRanges(rs), 0)
           /\ BytesIn(MergeRanges(rs)) = BytesIn(rs)
           /\ Anchored(MergeRanges(rs), BytesIn(rs))
  <1> DEFINE out == MergeRanges(rs)
             In == BytesIn(rs)
  <1>1. Joined(out, In, 0)
    BY JoinSpec DEF MergeRanges
  <1>2. In \in SUBSET Int
    BY DEF BytesIn, BytesOf, Ranges
  <1> HIDE DEF out, In
  <1>3. ASSUME NEW b \in BytesIn(out) PROVE b \in In
    <2>1. PICK i \in 1..Len(out) : b \in BytesOf(out[i])
      BY <1>1, <1>3 DEF BytesIn, Joined
    <2>2. b \in Int
      BY <1>1, <2>1 DEF Joined, BytesOf, Ranges
    <2> SUFFICES ASSUME b \notin In PROVE FALSE
      OBVIOUS
    <2>3. PICK lo \in In, hi \in In : lo < b /\ b < hi /\ hi - lo <= 0 + 1
      BY <1>1, <2>1 DEF Joined, Bridges
    <2> QED
      BY <1>2, <2>2, <2>3
  <1>4. BytesIn(out) = In
    BY <1>1, <1>3 DEF Joined
  <1> QED
    BY <1>1, <1>4 DEF Joined, out, In


-----------------------------------------------------------------------------

LEMMA SpanIsRange ==
    ASSUME NEW a \in Int, NEW b \in Int
    PROVE  /\ Span(a, b).start = a /\ Span(a, b).end = b /\ BytesOf(Span(a, b)) = a..b
           /\ a <= b => Span(a, b) \in Ranges
  BY DEF Span, Ranges, BytesOf

GapStates == [pos : Int, out : Seq(Ranges)]

LEMMA GapBeforeType ==
    ASSUME NEW acc \in GapStates, NEW r \in Ranges
    PROVE  GapBefore(acc, r) \in GapStates
  <1>1. acc.pos \in Int /\ acc.out \in Seq(Ranges) /\ r.start \in Int /\ r.end \in Int
    BY DEF GapStates, Ranges
  <1>2. Most(acc.pos, r.end + 1) \in Int
    BY <1>1 DEF Most
  <1>3. CASE acc.pos < r.start
    <2>1. Span(acc.pos, r.start - 1) \in Ranges
      BY <1>1, <1>3, SpanIsRange
    <2> QED
      BY <1>1, <1>2, <1>3, <2>1 DEF GapBefore, GapStates
  <1>4. CASE ~(acc.pos < r.start)
    BY <1>1, <1>2, <1>4 DEF GapBefore, GapStates
  <1> QED
    BY <1>3, <1>4

\* calculate_missing_ranges gives the bytes of q that no range covers.
LEMMA MissingSpec ==
    ASSUME NEW q \in Ranges, NEW covered \in Seq(Ranges), BytesIn(covered) \subseteq BytesOf(q)
    PROVE  /\ MissingRanges(q, covered) \in Seq(Ranges)
           /\ BytesIn(MissingRanges(q, covered)) = BytesOf(q) \ BytesIn(covered)
  <1> DEFINE A == GapStates
             X == Ranges
             M == MergeRanges(covered)
             base == [pos |-> q.start, out |-> <<>>]
             h == [p \in A \X X |-> GapBefore(p[1], p[2])]
             Eq(u) == u = [s \in SUBSET DOMAIN M |->
                IF s = {} THEN base ELSE GapBefore(u[s \ {Max(s)}], M[Max(s)])]
             G == CHOOSE u : Eq(u)
             gaps == FoldLeft(GapBefore, base, M)
  <1>q. q.start \in Int /\ q.end \in Int /\ q.start <= q.end /\ BytesOf(q) = q.start..q.end
    BY DEF Ranges, BytesOf
  <1>0. M \in Seq(X) /\ Apart(M, 0) /\ BytesIn(M) = BytesIn(covered) /\ Anchored(M, BytesIn(covered))
    BY MergeRangesExact
  <1>1. h \in [A \X X -> A] /\ base \in A
    <2>1. \A a \in A, x \in X : GapBefore(a, x) \in A
      BY GapBeforeType
    <2>2. base \in A
      BY <1>q DEF GapStates
    <2> HIDE DEF A, X
    <2> QED
      BY <2>1, <2>2
  <1>2. \A a \in A, x \in X : h[<<a, x>>] = GapBefore(a, x)
    OBVIOUS
  <1>3. DOMAIN M = 1..Len(M) /\ Len(M) \in Nat /\ \A i \in 1..Len(M) : M[i] \in X
    BY <1>0
  <1>4. gaps = G[DOMAIN M]
    BY DEF FoldLeft, MapThenFoldSet
  <1>r. MissingRanges(q, covered) =
          IF gaps.pos <= q.end THEN Append(gaps.out, Span(gaps.pos, q.end)) ELSE gaps.out
    BY DEF MissingRanges
  <1> HIDE DEF h, A, base, X, M, gaps
  <1>5. \A s \in SUBSET (1..Len(M)) : s # {} =>
          s \ {Max(s)} \in SUBSET (1..Len(M)) /\ M[Max(s)] \in X
    BY <1>3, MaxOf
  <1>6. \E u : Eq(u)
    <2>1. PICK u \in [SUBSET (1..Len(M)) -> A] : Iterates(u, h, base, M)
      BY <1>0, <1>1, IterationExists
    <2>2. \A s \in SUBSET (1..Len(M)) : s # {} =>
            h[<<u[s \ {Max(s)}], M[Max(s)]>>] = GapBefore(u[s \ {Max(s)}], M[Max(s)])
      BY <1>2, <1>5
    <2>3. Eq(u)
      BY <1>3, <2>1, <2>2 DEF Iterates
    <2> QED
      BY <2>3
  <1>7. Eq(G)
    BY <1>6
  <1> HIDE DEF G
  <1>8. Obeys(G, h, A, base, M)
    BY <1>2, <1>3, <1>5, <1>7 DEF Obeys
  <1>9. PICK f : PrefixFold(f, h, A, base, M) /\ Ends(f, G, M)
    BY <1>0, <1>1, <1>8, PrefixValues
  <1>10. gaps = f[Len(M)]
    BY <1>3, <1>4, <1>9 DEF Ends
  <1>m. \A i \in 1..Len(M) :
          /\ M[i].start \in Int /\ M[i].end \in Int /\ BytesOf(M[i]) = M[i].start..M[i].end
          /\ q.start <= M[i].start /\ M[i].start <= M[i].end /\ M[i].end <= q.end
    <2> SUFFICES ASSUME NEW i \in 1..Len(M)
                 PROVE  /\ M[i].start \in Int /\ M[i].end \in Int /\ BytesOf(M[i]) = M[i].start..M[i].end
                        /\ q.start <= M[i].start /\ M[i].start <= M[i].end /\ M[i].end <= q.end
      OBVIOUS
    <2>1. M[i].start \in Int /\ M[i].end \in Int /\ BytesOf(M[i]) = M[i].start..M[i].end /\ M[i].start <= M[i].end
      BY <1>3 DEF X, Ranges, BytesOf
    <2>2. M[i].start \in BytesOf(q) /\ M[i].end \in BytesOf(q)
      BY <1>0 DEF Anchored
    <2> QED
      BY <1>q, <2>1, <2>2
  \* What is before the place the n-th range has brought the scan to.
  <1> DEFINE Reached(n) == IF n = 0 THEN q.start ELSE M[n].end + 1
             T == {n \in 0..Len(M) :
                     /\ f[n].pos = Reached(n)
                     /\ BytesIn(f[n].out) = (q.start..(Reached(n) - 1)) \ BytesUpTo(M, n)}
  <1>a. ASSUME NEW n \in 0..Len(M) PROVE Reached(n) \in Int /\ q.start <= Reached(n) /\ Reached(n) <= q.end + 1
    <2>1. CASE n = 0
      BY <1>q, <2>1
    <2>2. CASE n # 0
      <3>1. n \in 1..Len(M)
        BY <1>3, <2>2
      <3> QED
        BY <1>q, <1>m, <2>2, <3>1
    <2> QED
      BY <2>1, <2>2
  <1>b. ASSUME NEW n \in 1..Len(M) PROVE Reached(n - 1) <= M[n].start
    <2>1. CASE n = 1
      BY <1>m, <2>1
    <2>2. CASE n # 1
      <3>1. n - 1 \in 1..Len(M) /\ n - 1 < n /\ n - 1 # 0
        BY <1>3, <2>2
      <3>2. M[n].start > M[n - 1].end + 1 + 0
        BY <1>0, <3>1, ApartInOrder DEF X
      <3>3. M[n].start \in Int /\ M[n - 1].end \in Int /\ Reached(n - 1) = M[n - 1].end + 1
        BY <1>m, <3>1
      <3> HIDE DEF Reached
      <3> QED
        BY <3>2, <3>3
    <2> QED
      BY <2>1, <2>2
  <1>c. ASSUME NEW n \in 0..Len(M), NEW b \in BytesUpTo(M, n) PROVE b \in Int /\ b < Reached(n)
    <2>1. PICK i \in 1..n : b \in BytesOf(M[i])
      BY DEF BytesUpTo
    <2>2. n # 0 /\ i \in 1..Len(M) /\ n \in 1..Len(M) /\ n \in Nat
      BY <1>3
    <2>3. b \in Int /\ b <= M[i].end
      BY <1>m, <2>1, <2>2
    <2>4. M[i].end <= M[n].end
      <3>1. CASE i = n
        BY <1>m, <2>2, <3>1
      <3>2. CASE i # n
        <4>1. i < n
          BY <2>2, <3>2
        <4>2. M[n].start > M[i].end + 1 + 0
          BY <1>0, <2>2, <4>1, ApartInOrder DEF X
        <4>3. M[n].start \in Int /\ M[n].end \in Int /\ M[i].end \in Int /\ M[n].start <= M[n].end
          BY <1>m, <2>2
        <4> QED
          BY <4>2, <4>3
      <3> QED
        BY <3>1, <3>2
    <2>5. Reached(n) = M[n].end + 1 /\ M[n].end \in Int /\ M[i].end \in Int
      BY <1>m, <2>2
    <2> HIDE DEF Reached
    <2> QED
      BY <2>3, <2>4, <2>5
  <1>11. 0 \in T
    <2>1. f[0] = [pos |-> q.start, out |-> <<>>]
      BY <1>9 DEF PrefixFold, base
    <2>2. f[0].pos = q.start /\ f[0].out = <<>>
      BY <2>1
    <2>3. BytesIn(<<>>) = {}
      BY DEF BytesIn
    <2>4. Reached(0) = q.start /\ q.start..(q.start - 1) = {}
      BY <1>q
    <2>5. BytesIn(f[0].out) = (q.start..(Reached(0) - 1)) \ BytesUpTo(M, 0)
      <3>1. q.start..(Reached(0) - 1) = {}
        BY <2>4
      <3> QED
        BY <2>2, <2>3, <3>1
    <2>6. 0 \in 0..Len(M)
      BY <1>3
    <2> HIDE DEF Reached
    <2> QED
      BY <2>2, <2>4, <2>5, <2>6
  <1>12. ASSUME NEW n \in 1..Len(M), n - 1 \in T PROVE n \in T
    <2> DEFINE B == BytesUpTo(M, n - 1)
               acc == f[n - 1]
               r == M[n]
               z == Reached(n - 1)
    <2>0. n - 1 \in 0..Len(M) /\ n \in 0..Len(M) /\ n \in Nat \ {0}
      BY <1>3
    <2>1. f[n] = GapBefore(acc, r) /\ acc \in GapStates
      BY <1>2, <1>3, <1>9, <2>0 DEF PrefixFold, A
    <2>2. acc.pos = z /\ acc.out \in Seq(Ranges) /\ BytesIn(acc.out) = (q.start..(z - 1)) \ B
      BY <1>12, <2>1 DEF GapStates
    <2>3. /\ z \in Int /\ q.start <= z /\ z <= r.start
          /\ r.start \in Int /\ r.end \in Int /\ r.start <= r.end /\ BytesOf(r) = r.start..r.end
      BY <1>a, <1>b, <1>m, <2>0
    <2>4. \A b \in B : b \in Int /\ b < z
      BY <1>c, <2>0
    <2>5. Reached(n) = r.end + 1 /\ BytesUpTo(M, n) = B \cup BytesOf(r)
      BY <2>0, BytesUpToStep
    <2> HIDE DEF B, acc, r, z, Reached
    <2>6. f[n].pos = r.end + 1
      <3>1. f[n].pos = Most(acc.pos, r.end + 1)
        BY <2>1 DEF GapBefore
      <3> QED
        BY <2>2, <2>3, <3>1 DEF Most
    <2>7. BytesIn(f[n].out) = ((q.start..(z - 1)) \ B) \cup (z..(r.start - 1))
      <3>1. CASE z < r.start
        <4>1. f[n].out = Append(acc.out, Span(z, r.start - 1))
          BY <2>1, <2>2, <3>1 DEF GapBefore
        <4>2. Span(z, r.start - 1) \in Ranges /\ BytesOf(Span(z, r.start - 1)) = z..(r.start - 1)
          BY <2>3, <3>1, SpanIsRange
        <4>3. BytesIn(f[n].out) = BytesIn(acc.out) \cup BytesOf(Span(z, r.start - 1))
          BY <2>2, <4>1, <4>2, BytesInAppend
        <4> QED
          BY <2>2, <4>2, <4>3
      <3>2. CASE ~(z < r.start)
        <4>1. f[n].out = acc.out
          BY <2>1, <2>2, <3>2 DEF GapBefore
        <4>2. z..(r.start - 1) = {}
          BY <2>3, <3>2
        <4> QED
          BY <2>2, <4>1, <4>2
      <3> QED
        BY <3>1, <3>2
    <2>8. ((q.start..(z - 1)) \ B) \cup (z..(r.start - 1)) = (q.start..r.end) \ (B \cup (r.start..r.end))
      BY <1>q, <2>3, <2>4
    <2>9. Reached(n) - 1 = r.end
      BY <2>3, <2>5
    <2> QED
      BY <2>0, <2>3, <2>5, <2>6, <2>7, <2>8, <2>9
  <1>13. Len(M) \in T
    <2> HIDE DEF T
    <2>1. \A k \in 0..Len(M) : k \in T
      BY <1>3, <1>11, <1>12, UpTo
    <2> QED
      BY <1>3, <2>1
  <1> DEFINE z == Reached(Len(M))
  <1>14. /\ gaps \in GapStates /\ gaps.pos = z /\ z \in Int /\ q.start <= z /\ z <= q.end + 1
         /\ BytesIn(gaps.out) = (q.start..(z - 1)) \ BytesIn(covered)
         /\ \A b \in BytesIn(covered) : b \in Int /\ b < z
    <2>1. Len(M) \in 0..Len(M)
      BY <1>3
    <2>2. gaps \in GapStates
      BY <1>9, <1>10, <2>1 DEF PrefixFold, A
    <2>3. BytesUpTo(M, Len(M)) = BytesIn(covered)
      BY <1>0, BytesUpToAll
    <2> HIDE DEF Reached
    <2> QED
      BY <1>10, <1>13, <1>a, <1>c, <2>1, <2>2, <2>3
  <1>15. gaps.out \in Seq(Ranges)
    BY <1>14 DEF GapStates
  <1> HIDE DEF z, T, Reached
  <1>16. CASE z <= q.end
    <2>1. MissingRanges(q, covered) = Append(gaps.out, Span(z, q.end))
      BY <1>14, <1>16, <1>r
    <2>2. Span(z, q.end) \in Ranges /\ BytesOf(Span(z, q.end)) = z..q.end
      BY <1>14, <1>16, <1>q, SpanIsRange
    <2>3. BytesIn(MissingRanges(q, covered)) = BytesIn(gaps.out) \cup (z..q.end)
      <3>1. BytesIn(Append(gaps.out, Span(z, q.end))) = BytesIn(gaps.out) \cup BytesOf(Span(z, q.end))
        BY <1>15, <2>2, BytesInAppend
      <3> QED
        BY <2>1, <2>2, <3>1
    <2>4. ((q.start..(z - 1)) \ BytesIn(covered)) \cup (z..q.end) = (q.start..q.end) \ BytesIn(covered)
      BY <1>14, <1>16, <1>q
    <2>5. MissingRanges(q, covered) \in Seq(Ranges)
      BY <1>15, <2>1, <2>2
    <2> QED
      BY <1>14, <1>q, <2>3, <2>4, <2>5
  <1>17. CASE ~(z <= q.end)
    <2>1. MissingRanges(q, covered) = gaps.out
      BY <1>14, <1>17, <1>r
    <2>2. z - 1 = q.end
      BY <1>14, <1>17, <1>q
    <2> QED
      BY <1>14, <1>15, <1>q, <2>1, <2>2
  <1> QED
    BY <1>16, <1>17


-----------------------------------------------------------------------------

LEMMA ExtentsAreRanges ==
    /\ ObjectSize \in Nat \ {0} /\ Extents \subseteq Ranges
    /\ \A r \in Extents : /\ r.start \in 0..(ObjectSize - 1) /\ r.end \in 0..(ObjectSize - 1)
                          /\ r.start <= r.end
    /\ \A r \in Ranges : r.start \in Int /\ r.end \in Int /\ r.start <= r.end
                         /\ BytesOf(r) = r.start..r.end /\ r = Span(r.start, r.end)
  <1>1. ObjectSize \in Nat \ {0}
    BY RangeAssumption
  <1>2. ASSUME NEW r \in Extents
        PROVE  /\ r \in Ranges /\ r.start \in 0..(ObjectSize - 1) /\ r.end \in 0..(ObjectSize - 1)
               /\ r.start <= r.end
    <2>1. PICK a \in Offsets, b \in Offsets : r = Span(a, b)
      BY DEF Extents, Spans
    <2>2. a \in 0..(ObjectSize - 1) /\ b \in 0..(ObjectSize - 1) /\ a \in Int /\ b \in Int
      BY <1>1 DEF Offsets
    <2>3. r.start = a /\ r.end = b /\ r.start <= r.end
      BY <2>1, <2>2, SpanIsRange DEF Extents
    <2> QED
      BY <2>1, <2>2, <2>3, SpanIsRange
  <1>3. ASSUME NEW r \in Ranges
        PROVE  r.start \in Int /\ r.end \in Int /\ r.start <= r.end
               /\ BytesOf(r) = r.start..r.end /\ r = Span(r.start, r.end)
    BY DEF Ranges, BytesOf, Span
  <1> QED
    BY <1>1, <1>2, <1>3

\* Ranges that overlap share a byte, and the clipped one has the shared ones.
LEMMA ClipSpec ==
    ASSUME NEW r \in Ranges, NEW q \in Ranges
    PROVE  /\ Overlaps(r, q) => /\ Clip(r, q) \in Ranges
                                /\ BytesOf(Clip(r, q)) = BytesOf(r) \cap BytesOf(q)
           /\ ~Overlaps(r, q) => BytesOf(r) \cap BytesOf(q) = {}
           /\ Clip(r, q).start \in Int /\ Clip(r, q).end \in Int
           /\ Clip(r, q).start = Most(r.start, q.start) /\ Clip(r, q).end = Least(r.end, q.end)
  <1>1. /\ r.start \in Int /\ r.end \in Int /\ r.start <= r.end /\ BytesOf(r) = r.start..r.end
        /\ q.start \in Int /\ q.end \in Int /\ q.start <= q.end /\ BytesOf(q) = q.start..q.end
    BY DEF Ranges, BytesOf
  <1> DEFINE a == Most(r.start, q.start)
             b == Least(r.end, q.end)
  <1>2. a \in Int /\ b \in Int /\ (Overlaps(r, q) => a <= b)
    BY <1>1 DEF Most, Least, Overlaps
  <1>3. a..b = BytesOf(r) \cap BytesOf(q)
    BY <1>1 DEF Most, Least
  <1>4. Clip(r, q) = Span(a, b)
    BY DEF Clip
  <1>5. ~Overlaps(r, q) => a..b = {}
    BY <1>1 DEF Most, Least, Overlaps
  <1> HIDE DEF a, b
  <1> QED
    BY <1>2, <1>3, <1>4, <1>5, SpanIsRange DEF a, b

\* find_cached_ranges finds, of the request, the bytes that the extents hold.
LEMMA FindCachedSpec ==
    ASSUME NEW q \in Ranges, NEW rs \in Seq(Ranges)
    PROVE  /\ FindCached(q, rs) \in Seq(Ranges)
           /\ \A i \in DOMAIN FindCached(q, rs) : Overlaps(FindCached(q, rs)[i], q)
           /\ BytesIn(FindCached(q, rs)) \cap BytesOf(q) = BytesIn(rs) \cap BytesOf(q)
  <1> DEFINE Hit == {r \in ToSet(rs) : Overlaps(r, q)}
             hits == Keep(rs, Hit)
             Covering == {r \in ToSet(hits) : r.start <= q.start /\ r.end >= q.end}
             whole == Keep(hits, Covering)
             F == FindCached(q, rs)
  <1>1. hits \in Seq(Ranges) /\ ToSet(hits) = ToSet(rs) \cap Hit
    BY KeepPicks, KeepSet
  <1>2. F = IF whole # <<>> THEN <<Head(whole)>> ELSE SortByStart(hits)
    BY DEF FindCached
  <1>3. \A r \in ToSet(hits) : r \in ToSet(rs) /\ r \in Ranges /\ Overlaps(r, q)
    <2>1. \A r \in ToSet(rs) : r \in Ranges
      BY DEF ToSet
    <2> HIDE DEF hits
    <2> QED
      BY <1>1, <2>1
  <1>4. \A r \in ToSet(rs) : r \in Ranges /\ (r \notin ToSet(hits) => BytesOf(r) \cap BytesOf(q) = {})
    <2>1. \A r \in ToSet(rs) : r \in Ranges
      BY DEF ToSet
    <2> QED
      BY <1>1, <2>1, ClipSpec
  <1> HIDE DEF hits, Hit
  <1>5. whole \in Seq(Ranges) /\ ToSet(whole) = ToSet(hits) \cap Covering
    <2> HIDE DEF Covering
    <2>1. whole \in Seq(Ranges)
      BY <1>1, KeepPicks
    <2>2. ToSet(whole) = ToSet(hits) \cap Covering
      BY <1>1, KeepSet
    <2> QED
      BY <2>1, <2>2
  <1> HIDE DEF whole, F
  <1>6. CASE whole # <<>>
    <2> DEFINE w == Head(whole)
    <2>1. F = <<w>>
      BY <1>2, <1>6
    <2>2. w \in ToSet(whole) /\ w \in Ranges
      <3>1. 1 \in DOMAIN whole /\ w = whole[1]
        BY <1>5, <1>6
      <3> QED
        BY <1>5, <3>1 DEF ToSet
    <2>3. w \in ToSet(rs) /\ Overlaps(w, q) /\ w.start <= q.start /\ w.end >= q.end
      BY <1>3, <1>5, <2>2
    <2> HIDE DEF w
    <2>4. F \in Seq(Ranges) /\ DOMAIN F = {1} /\ F[1] = w
      BY <2>1, <2>2
    <2>5. BytesOf(q) \subseteq BytesOf(w)
      BY <2>2, <2>3 DEF BytesOf, Ranges
    <2>6. BytesIn(F) = BytesOf(w)
      BY <2>4 DEF BytesIn
    <2>7. BytesOf(w) \subseteq BytesIn(rs)
      BY <2>3 DEF BytesIn, ToSet
    <2> QED
      BY <2>3, <2>4, <2>5, <2>6, <2>7 DEF F
  <1>7. CASE whole = <<>>
    <2>1. F = SortByStart(hits)
      BY <1>2, <1>7
    <2>2. \A x \in Ranges : x.start \in Int
      BY DEF Ranges
    <2>3. F \in Seq(Ranges) /\ ToSet(F) = ToSet(hits)
      BY <1>1, <2>1, <2>2, SortSpec
    <2>4. \A i \in DOMAIN F : F[i] \in ToSet(hits)
      BY <2>3 DEF ToSet
    <2>5. BytesIn(F) = UNION {BytesOf(r) : r \in ToSet(hits)}
      BY <2>3 DEF BytesIn, ToSet
    <2>6. BytesIn(rs) = UNION {BytesOf(r) : r \in ToSet(rs)}
      BY DEF BytesIn, ToSet
    <2>7. BytesIn(F) \cap BytesOf(q) = BytesIn(rs) \cap BytesOf(q)
      BY <1>3, <1>4, <2>5, <2>6
    <2> QED
      BY <1>3, <2>3, <2>4, <2>7 DEF F
  <1> QED
    BY <1>6, <1>7

\* What is missing after the lookup, exactly.
LEMMA LookupSpec ==
    ASSUME NEW q \in Ranges, NEW rs \in Seq(Ranges), NEW found, found = FindCached(q, rs),
           NEW m, m = MissingRanges(q, [i \in DOMAIN found |-> Clip(found[i], q)])
    PROVE  m \in Seq(Ranges) /\ BytesIn(m) = BytesOf(q) \ BytesIn(rs)
  <1> DEFINE covered == [i \in DOMAIN found |-> Clip(found[i], q)]
  <1>1. /\ found \in Seq(Ranges) /\ \A i \in DOMAIN found : Overlaps(found[i], q)
        /\ BytesIn(found) \cap BytesOf(q) = BytesIn(rs) \cap BytesOf(q)
    BY FindCachedSpec
  <1>2. DOMAIN found = 1..Len(found) /\ Len(found) \in Nat
    BY <1>1
  <1>3. \A i \in DOMAIN found : /\ Clip(found[i], q) \in Ranges
                                /\ BytesOf(Clip(found[i], q)) = BytesOf(found[i]) \cap BytesOf(q)
    <2>1. \A i \in DOMAIN found : found[i] \in Ranges
      BY <1>1
    <2> QED
      BY <1>1, <2>1, ClipSpec
  <1>4. DOMAIN covered = DOMAIN found /\ \A i \in DOMAIN found : covered[i] = Clip(found[i], q)
    OBVIOUS
  <1>5. covered \in Seq(Ranges)
    BY <1>2, <1>3
  <1>d. m = MissingRanges(q, covered)
    OBVIOUS
  <1> HIDE DEF covered
  <1>6. BytesIn(covered) = BytesIn(found) \cap BytesOf(q)
    BY <1>3, <1>4 DEF BytesIn
  <1>7. BytesIn(covered) \subseteq BytesOf(q)
    BY <1>6
  <1>8. m \in Seq(Ranges) /\ BytesIn(m) = BytesOf(q) \ BytesIn(covered)
    BY <1>5, <1>7, <1>d, MissingSpec
  <1> QED
    BY <1>1, <1>6, <1>8

\* The ranges consolidate_missing_ranges asks for.
LEMMA ConsolidateSpec ==
    ASSUME NEW g \in Nat, NEW m \in Seq(Ranges)
    PROVE  Joined(Consolidate(m, g), BytesIn(m), g)
  <1>1. CASE Len(m) <= 1
    <2>1. Consolidate(m, g) = m
      BY <1>1 DEF Consolidate
    <2>2. Apart(m, g)
      BY <1>1 DEF Apart
    <2>3. \A i \in 1..Len(m) : m[i].start \in BytesOf(m[i]) /\ m[i].end \in BytesOf(m[i])
      <3>1. \A r \in Ranges : r.start \in BytesOf(r) /\ r.end \in BytesOf(r)
        BY DEF Ranges, BytesOf
      <3> QED
        BY <3>1
    <2>4. \A i \in 1..Len(m) : BytesOf(m[i]) \subseteq BytesIn(m)
      BY DEF BytesIn
    <2>5. Anchored(m, BytesIn(m))
      BY <2>3, <2>4 DEF Anchored
    <2>6. Bridges(m, BytesIn(m), g)
      BY <2>4 DEF Bridges
    <2> QED
      BY <2>1, <2>2, <2>5, <2>6 DEF Joined
  <1>2. CASE ~(Len(m) <= 1)
    BY <1>2, JoinSpec DEF Consolidate
  <1> QED
    BY <1>1, <1>2


-----------------------------------------------------------------------------

Headers == [first : Offsets \cup {NoBound, ObjectSize}, last : Offsets \cup {NoBound, ObjectSize}]

\* parse_single_range_spec gives the bytes the header selects, or refuses it.
LEMMA ParseSpec ==
    ASSUME NEW s \in Headers, NEW w, w = ParseRange(s, ObjectSize)
    PROVE  \/ w = Invalid /\ Selected(s) = {}
           \/ w \in Extents /\ w # Invalid /\ BytesOf(w) = Selected(s)
  <1>0. ObjectSize \in Nat \ {0} /\ NoBound = -1
    BY RangeAssumption DEF NoBound
  <1>1. Offsets = 0..(ObjectSize - 1)
    BY DEF Offsets
  <1>2. /\ s.first \in Int /\ s.last \in Int /\ s.first >= -1 /\ s.last >= -1
        /\ s.first <= ObjectSize /\ s.last <= ObjectSize
    BY <1>0, <1>1 DEF Headers
  <1>3. ASSUME NEW a \in Offsets, NEW b \in Offsets, a <= b
        PROVE  Span(a, b) \in Extents /\ Span(a, b) # Invalid /\ BytesOf(Span(a, b)) = a..b
    <2>1. a \in Int /\ b \in Int
      BY <1>0, <1>1
    <2>2. Span(a, b).start = a /\ Span(a, b).end = b /\ BytesOf(Span(a, b)) = a..b
      BY <2>1, SpanIsRange
    <2>3. Span(a, b) \in Spans
      BY DEF Spans
    <2>4. Span(a, b) \in Extents
      BY <1>3, <2>2, <2>3 DEF Extents
    <2>5. Invalid.start = 1 /\ Invalid.end = 0
      BY DEF Invalid, Span
    <2>6. Span(a, b) # Invalid
      BY <1>3, <2>2, <2>5
    <2> QED
      BY <2>2, <2>4, <2>6
  <1>4. CASE s.first # NoBound /\ s.last # NoBound
    <2>1. w = IF s.first > s.last \/ s.first >= ObjectSize THEN Invalid
              ELSE Span(s.first, Least(s.last, ObjectSize - 1))
      BY <1>4 DEF ParseRange
    <2>2. Selected(s) = {b \in Offsets : b >= s.first /\ b <= s.last}
      BY <1>4 DEF Selected
    <2>3. CASE s.first > s.last \/ s.first >= ObjectSize
      <3>1. Selected(s) = {}
        BY <1>0, <1>1, <1>2, <2>2, <2>3
      <3> QED
        BY <2>1, <2>3, <3>1
    <2>4. CASE ~(s.first > s.last \/ s.first >= ObjectSize)
      <3> DEFINE e == Least(s.last, ObjectSize - 1)
      <3>1. s.first \in Offsets /\ e \in Offsets /\ s.first <= e
        BY <1>0, <1>1, <1>2, <1>4, <2>4 DEF Least
      <3>2. s.first..e = Selected(s)
        BY <1>0, <1>1, <1>2, <1>4, <2>2, <2>4 DEF Least
      <3> HIDE DEF e
      <3>3. w = Span(s.first, e)
        BY <2>1, <2>4 DEF e
      <3> QED
        BY <1>3, <3>1, <3>2, <3>3
    <2> QED
      BY <2>3, <2>4
  <1>5. CASE s.first # NoBound /\ s.last = NoBound
    <2>1. w = IF s.first >= ObjectSize THEN Invalid ELSE Span(s.first, ObjectSize - 1)
      BY <1>5 DEF ParseRange
    <2>2. Selected(s) = {b \in Offsets : b >= s.first}
      BY <1>5 DEF Selected
    <2>3. CASE s.first >= ObjectSize
      <3>1. Selected(s) = {}
        BY <1>0, <1>1, <1>2, <2>2, <2>3
      <3> QED
        BY <2>1, <2>3, <3>1
    <2>4. CASE ~(s.first >= ObjectSize)
      <3>1. s.first \in Offsets /\ ObjectSize - 1 \in Offsets /\ s.first <= ObjectSize - 1
        BY <1>0, <1>1, <1>2, <1>5, <2>4
      <3>2. s.first..(ObjectSize - 1) = Selected(s)
        BY <1>0, <1>1, <1>2, <1>5, <2>2, <2>4
      <3> QED
        BY <1>3, <2>1, <2>4, <3>1, <3>2
    <2> QED
      BY <2>3, <2>4
  <1>6. CASE s.first = NoBound /\ s.last # NoBound
    <2>1. w = IF s.last = 0 THEN Invalid ELSE SuffixRange(s, ObjectSize)
      BY <1>6 DEF ParseRange
    <2>2. Selected(s) = {b \in Offsets : ObjectSize - b <= s.last}
      BY <1>6 DEF Selected
    <2>3. CASE s.last = 0
      <3>1. Selected(s) = {}
        BY <1>0, <1>1, <1>2, <2>2, <2>3
      <3> QED
        BY <2>1, <2>3, <3>1
    <2>4. CASE s.last # 0
      <3> DEFINE a == Most(ObjectSize - s.last, 0)
      <3>1. a \in Offsets /\ ObjectSize - 1 \in Offsets /\ a <= ObjectSize - 1
        BY <1>0, <1>1, <1>2, <1>6, <2>4 DEF Most
      <3>2. a..(ObjectSize - 1) = Selected(s)
        BY <1>0, <1>1, <1>2, <1>6, <2>2, <2>4 DEF Most
      <3>3. w = Span(a, ObjectSize - 1)
        BY <2>1, <2>4 DEF SuffixRange
      <3> HIDE DEF a
      <3> QED
        BY <1>3, <3>1, <3>2, <3>3
    <2> QED
      BY <2>3, <2>4
  <1>7. CASE s.first = NoBound /\ s.last = NoBound
    BY <1>7 DEF ParseRange, Selected
  <1> QED
    BY <1>4, <1>5, <1>6, <1>7

LEMMA DivSpec ==
    ASSUME NEW a \in Nat, NEW P \in Nat \ {0}, NEW d, d = a \div P
    PROVE  d \in Nat /\ d * P <= a /\ a < d * P + P /\ (d * P) % P = 0
  <1>1. d \in Nat /\ d * P <= a /\ a < d * P + P
    OBVIOUS
  <1>2. (d * P) % P = 0
    BY <1>1
  <1> QED
    BY <1>1, <1>2


\* page_bounds of the page of a byte.
LEMMA PageSpec ==
    ASSUME NEW b \in Offsets
    PROVE  \E d \in Nat : /\ PageBounds(b, ObjectSize) = Span(d * PageSize, Least(d * PageSize + PageSize - 1, ObjectSize - 1))
                          /\ d * PageSize <= b /\ b < d * PageSize + PageSize
                          /\ (d * PageSize) % PageSize = 0
  <1>1. b \in Nat /\ PageSize \in Nat \ {0}
    BY RangeAssumption DEF Offsets
  <1> DEFINE d == b \div PageSize
  <1>2. d \in Nat /\ d * PageSize <= b /\ b < d * PageSize + PageSize /\ (d * PageSize) % PageSize = 0
    BY <1>1, DivSpec
  <1>3. PageBounds(b, ObjectSize) = Span(d * PageSize, Least(d * PageSize + PageSize - 1, ObjectSize - 1))
    BY DEF PageBounds
  <1> HIDE DEF d
  <1> QED
    BY <1>2, <1>3

\* The two pages overlapping_pages gives hold a range shorter than a page.
LEMMA PagesSpec ==
    ASSUME NEW w \in Extents, Cardinality(BytesOf(w)) < PageSize,
           NEW pages, pages = OverlappingPages(w, ObjectSize)
    PROVE  /\ BytesOf(w) \subseteq BytesIn(pages)
           /\ BytesIn(pages) \subseteq Offsets
           /\ \A i \in DOMAIN pages : pages[i].start % PageSize = 0
  <1>0. ObjectSize \in Nat \ {0} /\ PageSize \in Nat \ {0} /\ Offsets = 0..(ObjectSize - 1)
    BY RangeAssumption DEF Offsets
  <1>1. w.start \in Offsets /\ w.end \in Offsets /\ w.start <= w.end /\ BytesOf(w) = w.start..w.end
    BY <1>0, ExtentsAreRanges
  <1>2. w.end - w.start + 1 < PageSize
    <2>1. w.start \in Int /\ w.end \in Int
      BY <1>0, <1>1
    <2>2. Cardinality(w.start..w.end) = w.end - w.start + 1
      BY <1>1, <2>1, FS_Interval
    <2> QED
      BY <1>1, <2>2
  <1> DEFINE first == PageBounds(w.start, ObjectSize)
             last == PageBounds(w.end, ObjectSize)
  <1>3. pages = IF last # first THEN <<first, last>> ELSE <<first>>
    BY DEF OverlappingPages
  <1>4. PICK c \in Nat : /\ first = Span(c * PageSize, Least(c * PageSize + PageSize - 1, ObjectSize - 1))
                         /\ c * PageSize <= w.start /\ w.start < c * PageSize + PageSize
                         /\ (c * PageSize) % PageSize = 0
    BY <1>1, PageSpec
  <1>5. PICK d \in Nat : /\ last = Span(d * PageSize, Least(d * PageSize + PageSize - 1, ObjectSize - 1))
                         /\ d * PageSize <= w.end /\ w.end < d * PageSize + PageSize
                         /\ (d * PageSize) % PageSize = 0
    BY <1>1, PageSpec
  <1> DEFINE x == c * PageSize
             y == d * PageSize
             xe == Least(x + PageSize - 1, ObjectSize - 1)
             ye == Least(y + PageSize - 1, ObjectSize - 1)
  <1>6. x \in Nat /\ y \in Nat
    BY <1>0
  <1>9. x <= w.start /\ w.start < x + PageSize /\ y <= w.end /\ w.end < y + PageSize
    BY <1>4, <1>5
  <1>w. w.start \in Int /\ w.end \in Int
    BY <1>0, <1>1
  <1>7. y = x \/ y = x + PageSize
    <2>1. d >= c
      <3> SUFFICES ASSUME d + 1 <= c PROVE FALSE
        OBVIOUS
      <3>1. (d + 1) * PageSize <= c * PageSize /\ (d + 1) * PageSize = d * PageSize + PageSize
        BY <1>0
      <3>2. y + PageSize <= x
        BY <3>1
      <3> HIDE DEF x, y
      <3> QED
        BY <1>0, <1>1, <1>6, <1>9, <1>w, <3>2
    <2>2. d <= c + 1
      <3> SUFFICES ASSUME c + 2 <= d PROVE FALSE
        BY <2>1
      <3>1. (c + 2) * PageSize <= d * PageSize /\ (c + 2) * PageSize = c * PageSize + PageSize + PageSize
        BY <1>0
      <3>2. x + PageSize + PageSize <= y
        BY <3>1
      <3> HIDE DEF x, y
      <3> QED
        BY <1>0, <1>2, <1>6, <1>9, <1>w, <3>2
    <2>3. d = c \/ d = c + 1
      BY <2>1, <2>2
    <2>4. (c + 1) * PageSize = c * PageSize + PageSize
      BY <1>0
    <2> QED
      BY <2>3, <2>4
  <1>8. first = Span(x, xe) /\ last = Span(y, ye) /\ x % PageSize = 0 /\ y % PageSize = 0
    BY <1>4, <1>5
  <1> HIDE DEF x, y, first, last
  <1>10. xe \in Int /\ ye \in Int /\ xe <= ObjectSize - 1 /\ ye <= ObjectSize - 1
    BY <1>0, <1>6 DEF Least
  <1>11. /\ first.start = x /\ BytesOf(first) = x..xe
         /\ last.start = y /\ BytesOf(last) = y..ye
    BY <1>6, <1>8, <1>10, SpanIsRange
  <1>12. x..xe \subseteq Offsets /\ y..ye \subseteq Offsets
    BY <1>0, <1>6, <1>10
  <1>13. w.start..w.end \subseteq (x..xe) \cup (y..ye)
    BY <1>0, <1>1, <1>6, <1>7, <1>9 DEF Least
  <1> HIDE DEF xe, ye
  <1>14. CASE last # first
    <2>1. DOMAIN pages = {1, 2} /\ pages[1] = first /\ pages[2] = last
      BY <1>3, <1>14
    <2>2. BytesIn(pages) = (x..xe) \cup (y..ye)
      BY <1>11, <2>1 DEF BytesIn
    <2> QED
      BY <1>1, <1>8, <1>11, <1>12, <1>13, <2>1, <2>2
  <1>15. CASE last = first
    <2>1. DOMAIN pages = {1} /\ pages[1] = first
      BY <1>3, <1>15
    <2>2. BytesIn(pages) = x..xe /\ y..ye = x..xe
      BY <1>11, <1>15, <2>1 DEF BytesIn
    <2> QED
      BY <1>1, <1>8, <1>11, <1>12, <1>13, <2>1, <2>2
  <1> QED
    BY <1>14, <1>15

-----------------------------------------------------------------------------

LEMMA DataType ==
    ASSUME NEW a \in Int, NEW b \in Int, a <= b + 1
    PROVE  /\ DataOf(Span(a, b)) \in Seq(Int) /\ Len(DataOf(Span(a, b))) = b - a + 1
           /\ \A i \in 1..(b - a + 1) : DataOf(Span(a, b))[i] = a + i - 1
  <1>1. DataOf(Span(a, b)) = [i \in 1..(b - a + 1) |-> a + i - 1]
    BY DEF DataOf, Span
  <1>2. b - a + 1 \in Nat
    OBVIOUS
  <1> QED
    BY <1>1, <1>2

LEMMA DataConcat ==
    ASSUME NEW a \in Int, NEW b \in Int, NEW c \in Int, a <= b, b <= c + 1
    PROVE  DataOf(Span(a, b - 1)) \o DataOf(Span(b, c)) = DataOf(Span(a, c))
  <1> DEFINE u == DataOf(Span(a, b - 1))
             v == DataOf(Span(b, c))
             z == DataOf(Span(a, c))
             t == u \o v
  <1>1. u \in Seq(Int) /\ Len(u) = b - a /\ \A i \in 1..(b - a) : u[i] = a + i - 1
    <2>1. b - 1 \in Int /\ a <= (b - 1) + 1 /\ (b - 1) - a + 1 = b - a
      OBVIOUS
    <2> HIDE DEF u
    <2>2. u \in Seq(Int) /\ Len(u) = (b - 1) - a + 1 /\ \A i \in 1..((b - 1) - a + 1) : u[i] = a + i - 1
      BY <2>1, DataType DEF u
    <2> QED
      BY <2>1, <2>2
  <1>2. v \in Seq(Int) /\ Len(v) = c - b + 1 /\ \A i \in 1..(c - b + 1) : v[i] = b + i - 1
    BY DataType
  <1>3. z \in Seq(Int) /\ Len(z) = c - a + 1 /\ \A i \in 1..(c - a + 1) : z[i] = a + i - 1
    <2>1. a <= c + 1
      OBVIOUS
    <2> QED
      BY <2>1, DataType
  <1> HIDE DEF u, v, z
  <1>4. /\ t \in Seq(Int) /\ Len(t) = Len(u) + Len(v)
        /\ \A i \in 1..(Len(u) + Len(v)) : t[i] = IF i <= Len(u) THEN u[i] ELSE v[i - Len(u)]
    BY <1>1, <1>2, ConcatProperties
  <1> HIDE DEF t
  <1>5. Len(u) + Len(v) = c - a + 1
    BY <1>1, <1>2
  <1>t. \A i \in 1..(c - a + 1) : t[i] = IF i <= b - a THEN u[i] ELSE v[i - (b - a)]
    BY <1>1, <1>4, <1>5
  <1>6. ASSUME NEW i \in 1..(c - a + 1) PROVE t[i] = z[i]
    <2>1. CASE i <= b - a
      <3>1. i \in 1..(b - a) /\ t[i] = u[i]
        BY <1>t, <2>1
      <3> QED
        BY <1>1, <1>3, <3>1
    <2>2. CASE i > b - a
      <3>1. i - (b - a) \in 1..(c - b + 1) /\ t[i] = v[i - (b - a)]
        BY <1>t, <2>2
      <3>2. v[i - (b - a)] = b + (i - (b - a)) - 1
        BY <1>2, <3>1
      <3>3. b + (i - (b - a)) - 1 = a + i - 1
        OBVIOUS
      <3> QED
        BY <1>3, <3>1, <3>2, <3>3
    <2> QED
      BY <2>1, <2>2
  <1>7. t = z
    BY <1>3, <1>4, <1>5, <1>6, SeqEqual
  <1> QED
    BY <1>7 DEF t, u, v, z

\* Segments of the request, inside the range their bytes come from.
SegmentsOf(q) ==
    {s \in [start : Int, end : Int, source : Ranges] :
        /\ q.start <= s.start /\ s.start <= s.end /\ s.end <= q.end
        /\ s.source.start <= s.start /\ s.end <= s.source.end}

\* The slice of the stored bytes is the bytes of the segment from pos on.
LEMMA ContributionSpec ==
    ASSUME NEW q \in Ranges, NEW seg \in SegmentsOf(q), NEW pos \in Int, seg.end >= pos
    PROVE  Contribution(pos, seg) = DataOf(Span(Most(pos, seg.start), seg.end))
  <1> DEFINE from == Most(pos, seg.start)
             a == seg.source.start
             b == seg.source.end
             e == seg.end
             D == DataOf(seg.source)
             C == SubSeq(D, from - a + 1, from - a + (e - from + 1))
             z == DataOf(Span(from, e))
  <1>0. seg.start \in Int /\ e \in Int /\ seg.source \in Ranges /\ a <= seg.start /\ e <= b /\ seg.start <= e
    BY DEF SegmentsOf
  <1>1. a \in Int /\ b \in Int /\ seg.source = Span(a, b) /\ a <= b
    BY <1>0, ExtentsAreRanges
  <1>2. from \in Int /\ a <= from /\ from <= e
    BY <1>0, <1>1 DEF Most
  <1>3. Contribution(pos, seg) = C
    <2>1. ~(seg.end < pos)
      BY <1>0
    <2> QED
      BY <2>1 DEF Contribution, Slice
  <1>4. D \in Seq(Int) /\ Len(D) = b - a + 1 /\ \A i \in 1..(b - a + 1) : D[i] = a + i - 1
    <2>1. D = DataOf(Span(a, b)) /\ a <= b + 1
      BY <1>1
    <2> HIDE DEF D, a, b
    <2> QED
      BY <1>1, <2>1, DataType
  <1> HIDE DEF from, a, b, e, D
  <1>5. z \in Seq(Int) /\ Len(z) = e - from + 1 /\ \A i \in 1..(e - from + 1) : z[i] = from + i - 1
    BY <1>0, <1>2, DataType
  <1> DEFINE lo == from - a + 1
             hi == from - a + (e - from + 1)
  <1>6. lo \in Int /\ hi \in Int /\ lo <= hi /\ hi - lo + 1 = e - from + 1 /\ 1 <= lo /\ hi <= b - a + 1
    BY <1>0, <1>1, <1>2
  <1>7. C = SubSeq(D, lo, hi)
    OBVIOUS
  <1> HIDE DEF lo, hi, C, z
  <1>8. \A i \in lo..hi : D[i] \in Int /\ D[i] = a + i - 1
    BY <1>1, <1>4, <1>6
  <1>9. /\ C \in Seq(Int) /\ Len(C) = IF lo <= hi THEN hi - lo + 1 ELSE 0
        /\ \A i \in 1..(hi - lo + 1) : C[i] = D[lo + i - 1]
    BY <1>6, <1>7, <1>8, SubSeqProperties
  <1>10. Len(C) = e - from + 1
    BY <1>6, <1>9
  <1>11. ASSUME NEW i \in 1..(e - from + 1) PROVE C[i] = z[i]
    <2>1. lo + i - 1 \in lo..hi
      BY <1>0, <1>2, <1>6
    <2>2. C[i] = a + (lo + i - 1) - 1
      BY <1>6, <1>8, <1>9, <2>1
    <2>3. a + (lo + i - 1) - 1 = from + i - 1
      BY <1>1, <1>2 DEF lo
    <2> QED
      BY <1>5, <2>2, <2>3
  <1>12. C = z
    BY <1>5, <1>9, <1>10, <1>11, SeqEqual
  <1> QED
    BY <1>3, <1>12 DEF z, from, e


LEMMA SegmentsSpec ==
    ASSUME NEW q \in Ranges, NEW cached \in Seq(Ranges), NEW new \in Seq(Ranges),
           \A i \in DOMAIN cached : Overlaps(cached[i], q),
           \A i \in DOMAIN new : Overlaps(new[i], q)
    PROVE  Segments(q, cached, new) \in Seq(SegmentsOf(q))
  <1> DEFINE c == cached \o new
             Seg(r) == [start |-> Clip(r, q).start, end |-> Clip(r, q).end, source |-> r]
             raw == [i \in DOMAIN c |-> Seg(c[i])]
  <1>1. c \in Seq(Ranges) /\ Len(c) = Len(cached) + Len(new)
    BY ConcatProperties
  <1>2. \A i \in 1..(Len(cached) + Len(new)) : c[i] = IF i <= Len(cached) THEN cached[i] ELSE new[i - Len(cached)]
    BY ConcatProperties
  <1>3. /\ Len(cached) \in Nat /\ Len(new) \in Nat /\ DOMAIN cached = 1..Len(cached)
        /\ DOMAIN new = 1..Len(new)
    OBVIOUS
  <1>4. Segments(q, cached, new) = SortByStart(raw)
    BY DEF Segments
  <1> HIDE DEF c
  <1>5. DOMAIN c = 1..(Len(cached) + Len(new))
    BY <1>1
  <1>6. ASSUME NEW i \in DOMAIN c PROVE c[i] \in Ranges /\ Overlaps(c[i], q)
    <2>1. c[i] \in Ranges
      BY <1>1
    <2>2. CASE i <= Len(cached)
      <3>1. i \in 1..Len(cached) /\ c[i] = cached[i]
        BY <1>2, <1>3, <1>5, <2>2
      <3> QED
        BY <1>3, <2>1, <3>1
    <2>3. CASE i > Len(cached)
      <3>1. i - Len(cached) \in 1..Len(new) /\ c[i] = new[i - Len(cached)]
        BY <1>2, <1>3, <1>5, <2>3
      <3> QED
        BY <1>3, <2>1, <3>1
    <2> QED
      BY <1>3, <1>5, <2>2, <2>3
  <1>7. ASSUME NEW r \in Ranges, Overlaps(r, q) PROVE Seg(r) \in SegmentsOf(q)
    <2> DEFINE k == Clip(r, q)
    <2>1. k.start \in Int /\ k.end \in Int /\ k.start = Most(r.start, q.start) /\ k.end = Least(r.end, q.end)
      BY ClipSpec
    <2>2. /\ r.start \in Int /\ r.end \in Int /\ r.start <= r.end
          /\ q.start \in Int /\ q.end \in Int /\ q.start <= q.end
      BY DEF Ranges
    <2>3. /\ q.start <= k.start /\ k.start <= k.end /\ k.end <= q.end
          /\ r.start <= k.start /\ k.end <= r.end
      BY <1>7, <2>1, <2>2 DEF Overlaps, Most, Least
    <2> HIDE DEF k
    <2>4. Seg(r) = [start |-> k.start, end |-> k.end, source |-> r]
      BY DEF k
    <2> HIDE DEF Seg
    <2> QED
      BY <2>1, <2>3, <2>4 DEF SegmentsOf
  <1> HIDE DEF Seg
  <1>8. raw \in Seq(SegmentsOf(q))
    <2>1. \A i \in DOMAIN c : Seg(c[i]) \in SegmentsOf(q)
      BY <1>6, <1>7
    <2>2. Len(cached) + Len(new) \in Nat
      BY <1>3
    <2> QED
      BY <1>5, <2>1, <2>2
  <1>9. \A x \in SegmentsOf(q) : x.start \in Int
    BY DEF SegmentsOf
  <1> HIDE DEF raw
  <1> QED
    BY <1>4, <1>8, <1>9, SortSpec

WriteStates == [pos : Int, out : Seq(Int)]

LEMMA WriteType ==
    ASSUME NEW q \in Ranges, NEW acc \in WriteStates, NEW seg \in SegmentsOf(q)
    PROVE  Write(acc, seg) \in WriteStates
  <1>1. acc.pos \in Int /\ acc.out \in Seq(Int) /\ seg.start \in Int /\ seg.end \in Int /\ seg.start <= seg.end
    BY DEF WriteStates, SegmentsOf
  <1>2. Contribution(acc.pos, seg) \in Seq(Int)
    <2>1. CASE seg.end < acc.pos
      BY <2>1 DEF Contribution
    <2>2. CASE ~(seg.end < acc.pos)
      <3> DEFINE from == Most(acc.pos, seg.start)
      <3>1. seg.end >= acc.pos /\ from \in Int /\ from <= seg.end + 1
        BY <1>1, <2>2 DEF Most
      <3>2. Contribution(acc.pos, seg) = DataOf(Span(from, seg.end))
        BY <1>1, <3>1, ContributionSpec
      <3> HIDE DEF from
      <3> QED
        BY <1>1, <3>1, <3>2, DataType
    <2> QED
      BY <2>1, <2>2
  <1>3. Most(acc.pos, seg.end + 1) \in Int
    BY <1>1 DEF Most
  <1> DEFINE C == Contribution(acc.pos, seg)
  <1>4. acc.out \o C \in Seq(Int)
    BY <1>1, <1>2, ConcatProperties
  <1> QED
    BY <1>3, <1>4 DEF Write, WriteStates

\* Segments that pass the checks are assembled to the request's bytes.
LEMMA AssembleSpec ==
    ASSUME NEW q \in Ranges, NEW segs \in Seq(SegmentsOf(q)), Aligned(q, segs)
    PROVE  Assemble(q, segs) = DataOf(q)
  <1> DEFINE A == WriteStates
             X == SegmentsOf(q)
             base == [pos |-> q.start, out |-> <<>>]
             h == [p \in A \X X |-> Write(p[1], p[2])]
             Eq(u) == u = [s \in SUBSET DOMAIN segs |->
                IF s = {} THEN base ELSE Write(u[s \ {Max(s)}], segs[Max(s)])]
             G == CHOOSE u : Eq(u)
             final == FoldLeft(Write, base, segs)
  <1>q. q.start \in Int /\ q.end \in Int /\ q.start <= q.end /\ q = Span(q.start, q.end)
    BY ExtentsAreRanges
  <1>1. h \in [A \X X -> A] /\ base \in A
    <2>1. \A a \in A, x \in X : Write(a, x) \in A
      BY WriteType
    <2>2. base \in A
      BY <1>q DEF WriteStates
    <2> HIDE DEF A, X
    <2> QED
      BY <2>1, <2>2
  <1>2. \A a \in A, x \in X : h[<<a, x>>] = Write(a, x)
    OBVIOUS
  <1>3. DOMAIN segs = 1..Len(segs) /\ Len(segs) \in Nat /\ \A i \in 1..Len(segs) : segs[i] \in X
    OBVIOUS
  <1>4. final = G[DOMAIN segs]
    BY DEF FoldLeft, MapThenFoldSet
  <1>r. Assemble(q, segs) = final.out
    BY DEF Assemble
  <1>x. segs \in Seq(X)
    OBVIOUS
  <1> HIDE DEF h, A, base, X, final
  <1>5. \A s \in SUBSET (1..Len(segs)) : s # {} =>
          s \ {Max(s)} \in SUBSET (1..Len(segs)) /\ segs[Max(s)] \in X
    BY <1>3, MaxOf
  <1>6. \E u : Eq(u)
    <2>1. PICK u \in [SUBSET (1..Len(segs)) -> A] : Iterates(u, h, base, segs)
      BY <1>x, <1>1, IterationExists
    <2>2. \A s \in SUBSET (1..Len(segs)) : s # {} =>
            h[<<u[s \ {Max(s)}], segs[Max(s)]>>] = Write(u[s \ {Max(s)}], segs[Max(s)])
      BY <1>2, <1>5
    <2>3. Eq(u)
      BY <1>3, <2>1, <2>2 DEF Iterates
    <2> QED
      BY <2>3
  <1>7. Eq(G)
    BY <1>6
  <1> HIDE DEF G
  <1>8. Obeys(G, h, A, base, segs)
    BY <1>2, <1>3, <1>5, <1>7 DEF Obeys
  <1>9. PICK f : PrefixFold(f, h, A, base, segs) /\ Ends(f, G, segs)
    BY <1>x, <1>1, <1>8, PrefixValues
  <1>10. final = f[Len(segs)]
    BY <1>3, <1>4, <1>9 DEF Ends
  <1>m. \A i \in 1..Len(segs) :
          /\ segs[i].start \in Int /\ segs[i].end \in Int
          /\ q.start <= segs[i].start /\ segs[i].start <= segs[i].end /\ segs[i].end <= q.end
    BY <1>3 DEF X, SegmentsOf
  <1> DEFINE Ok(n) == /\ f[n].pos \in Int /\ q.start <= f[n].pos /\ f[n].pos <= q.end + 1
                      /\ n = 0 => f[n].pos = q.start
                      /\ n > 0 => f[n].pos >= segs[n].end + 1
                      /\ f[n].out = DataOf(Span(q.start, f[n].pos - 1))
             T == {n \in 0..Len(segs) : Ok(n)}
  <1>11. 0 \in T
    <2>1. f[0] = [pos |-> q.start, out |-> <<>>]
      BY <1>9 DEF PrefixFold, base
    <2>2. f[0].pos = q.start /\ f[0].out = <<>>
      BY <2>1
    <2>3. DataOf(Span(q.start, q.start - 1)) = <<>>
      <3> DEFINE D == DataOf(Span(q.start, q.start - 1))
      <3>0. q.start - 1 \in Int /\ q.start <= (q.start - 1) + 1
        BY <1>q
      <3>1. D \in Seq(Int) /\ Len(D) = (q.start - 1) - q.start + 1
        BY <1>q, <3>0, DataType
      <3> HIDE DEF D
      <3>2. Len(D) = 0
        BY <1>q, <3>1
      <3>3. D = <<>>
        BY <3>1, <3>2
      <3> QED
        BY <3>3 DEF D
    <2>4. Ok(0)
      BY <1>q, <2>2, <2>3
    <2>5. 0 \in 0..Len(segs)
      BY <1>3
    <2> HIDE DEF Ok
    <2> QED
      BY <2>4, <2>5
  <1>12. ASSUME NEW n \in 1..Len(segs), n - 1 \in T PROVE n \in T
    <2> DEFINE acc == f[n - 1]
               seg == segs[n]
               z == acc.pos
    <2>0. n - 1 \in 0..Len(segs) /\ n \in 0..Len(segs) /\ n \in Nat \ {0}
      BY <1>3
    <2>1. f[n] = Write(acc, seg)
      BY <1>2, <1>3, <1>9, <2>0 DEF PrefixFold
    <2>2. /\ z \in Int /\ q.start <= z /\ z <= q.end + 1 /\ acc.out = DataOf(Span(q.start, z - 1))
          /\ (n - 1 = 0 => z = q.start) /\ (n - 1 > 0 => z >= segs[n - 1].end + 1)
      BY <1>12
    <2>3. seg \in SegmentsOf(q) /\ seg.start \in Int /\ seg.end \in Int /\ seg.start <= seg.end /\ seg.end <= q.end
      BY <1>3, <1>m DEF X
    <2>4. seg.start <= z
      <3>1. CASE n = 1
        <4>1. seg.start = q.start
          BY <1>3, <3>1 DEF Aligned
        <4> QED
          BY <2>2, <2>3, <3>1, <4>1
      <3>2. CASE n # 1
        <4>1. n - 1 \in 1..(Len(segs) - 1) /\ n - 1 > 0 /\ (n - 1) + 1 = n /\ n - 1 \in 1..Len(segs)
          BY <1>3, <3>2
        <4>2. segs[(n - 1) + 1].start <= segs[n - 1].end + 1
          BY <4>1 DEF Aligned
        <4>3. seg.start <= segs[n - 1].end + 1
          BY <4>1, <4>2
        <4>4. segs[n - 1].end \in Int
          BY <1>m, <4>1
        <4> HIDE DEF seg, z
        <4> QED
          BY <2>2, <2>3, <4>1, <4>3, <4>4
      <3> QED
        BY <3>1, <3>2
    <2> HIDE DEF acc, seg
    <2>5. f[n].pos = Most(z, seg.end + 1) /\ f[n].out = acc.out \o Contribution(z, seg)
      <3>1. f[n] = [pos |-> Most(z, seg.end + 1), out |-> acc.out \o Contribution(z, seg)]
        BY <2>1 DEF Write
      <3> HIDE DEF z
      <3> QED
        BY <3>1
    <2> HIDE DEF z
    <2>6. CASE seg.end < z
      <3>1. f[n].pos = z
        BY <2>2, <2>3, <2>5, <2>6 DEF Most
      <3>2. Contribution(z, seg) = <<>>
        BY <2>6 DEF Contribution
      <3>3. acc.out \in Seq(Int)
        <4>1. z - 1 \in Int /\ q.start <= (z - 1) + 1
          BY <2>2
        <4> QED
          BY <1>q, <2>2, <4>1, DataType
      <3>4. f[n].out = acc.out
        BY <2>5, <3>2, <3>3, ConcatEmptySeq
      <3>5. z >= seg.end + 1
        BY <2>2, <2>3, <2>6
      <3>6. Ok(n)
        BY <2>0, <2>2, <3>1, <3>4, <3>5 DEF seg
      <3> HIDE DEF Ok
      <3> QED
        BY <2>0, <3>6
    <2>7. CASE ~(seg.end < z)
      <3>1. f[n].pos = seg.end + 1 /\ seg.end >= z /\ Most(z, seg.start) = z
        BY <2>2, <2>3, <2>4, <2>5, <2>7 DEF Most
      <3>2. Contribution(z, seg) = DataOf(Span(z, seg.end))
        BY <2>2, <2>3, <3>1, ContributionSpec
      <3>3. DataOf(Span(q.start, z - 1)) \o DataOf(Span(z, seg.end)) = DataOf(Span(q.start, seg.end))
        <4>1. q.start <= z /\ z <= seg.end + 1 /\ z \in Int /\ seg.end \in Int
          BY <1>q, <2>2, <2>3, <3>1
        <4> QED
          BY <1>q, <4>1, DataConcat
      <3>4. f[n].out = DataOf(Span(q.start, seg.end))
        BY <2>2, <2>5, <3>2, <3>3
      <3>5. f[n].pos - 1 = seg.end /\ f[n].pos \in Int /\ q.start <= f[n].pos /\ f[n].pos <= q.end + 1
        <4>1. seg.end \in Int /\ q.start <= z /\ z <= seg.end /\ seg.end <= q.end /\ z \in Int
          BY <2>2, <2>3, <3>1
        <4>2. (seg.end + 1) - 1 = seg.end /\ seg.end + 1 \in Int
              /\ q.start <= seg.end + 1 /\ seg.end + 1 <= q.end + 1
          BY <1>q, <4>1
        <4> QED
          BY <3>1, <4>2
      <3>6. Ok(n)
        BY <2>0, <2>3, <3>1, <3>4, <3>5 DEF seg
      <3> HIDE DEF Ok
      <3> QED
        BY <2>0, <3>6
    <2> QED
      BY <2>6, <2>7
  <1>13. Len(segs) \in T
    <2> HIDE DEF T
    <2>1. \A k \in 0..Len(segs) : k \in T
      BY <1>3, <1>11, <1>12, UpTo
    <2> QED
      BY <1>3, <2>1
  <1>14. Len(segs) > 0 /\ segs[Len(segs)].end = q.end /\ Len(segs) \in 1..Len(segs)
    <2>1. Len(segs) > 0
      BY <1>3 DEF Aligned
    <2> QED
      BY <1>3, <2>1 DEF Aligned, Last
  <1>15. final.pos = q.end + 1 /\ final.out = DataOf(Span(q.start, final.pos - 1))
    BY <1>10, <1>13, <1>14, <1>q
  <1>16. final.pos - 1 = q.end
    BY <1>15, <1>q
  <1> QED
    BY <1>15, <1>16, <1>q, <1>r

\* merge_range_segments: a body that is not refused is the request's bytes.
LEMMA MergeSpec ==
    ASSUME NEW q \in Ranges, NEW cached \in Seq(Ranges), NEW new \in Seq(Ranges),
           \A i \in DOMAIN cached : Overlaps(cached[i], q), Merge(q, cached, new) # <<>>
    PROVE  Merge(q, cached, new) = DataOf(q)
  <1> DEFINE Hit == {r \in ToSet(new) : Overlaps(r, q)}
             used == Keep(new, Hit)
             segs == Segments(q, cached, used)
  <1>1. used \in Seq(Ranges) /\ ToSet(used) = ToSet(new) \cap Hit
    BY KeepPicks, KeepSet
  <1>2. \A i \in DOMAIN used : Overlaps(used[i], q)
    <2>1. \A i \in DOMAIN used : used[i] \in Hit
      <3> HIDE DEF Hit
      <3> QED
        BY <1>1 DEF ToSet
    <2> QED
      BY <2>1
  <1>3. Merge(q, cached, new) = IF Aligned(q, segs) /\ Len(Assemble(q, segs)) = q.end - q.start + 1
                                THEN Assemble(q, segs) ELSE <<>>
    BY DEF Merge
  <1> HIDE DEF used, Hit
  <1>4. segs \in Seq(SegmentsOf(q))
    BY <1>1, <1>2, SegmentsSpec
  <1> HIDE DEF segs
  <1>5. Aligned(q, segs) /\ Merge(q, cached, new) = Assemble(q, segs)
    BY <1>3
  <1> QED
    BY <1>4, <1>5, AssembleSpec

-----------------------------------------------------------------------------
(* The request                                                             *)

\* What Lookup has left behind, which no later step touches.
LookedUp ==
    /\ want \in Extents
    /\ overlap = FindCached(want, extents)
    /\ missing = MissingRanges(want, [i \in DOMAIN overlap |-> Clip(overlap[i], want)])
    /\ asked = Consolidate(missing, gap)

\* The inductive invariant: the outputs are what the functions compute from the
\* header, the threshold and the extents, whatever the fetches return.
RangeInv ==
    /\ spec \in Headers /\ gap \in Nat /\ extents \in Seq(Ranges) /\ fetched \in Seq(Ranges)
    /\ step \in {"parse", "lookup", "fetch", "merge", "served", "fallback", "forwarded"}
    /\ step # "parse" => want = ParseRange(spec, ObjectSize)
    /\ step = "lookup" => want \in Extents
    /\ step \in {"parse", "lookup"} => missing = <<>> /\ asked = <<>>
    /\ step \in {"fetch", "merge", "served", "fallback"} => LookedUp
    /\ step = "forwarded" => (missing = <<>> /\ asked = <<>>) \/ LookedUp
    /\ step = "served" => body # <<>> /\ body = Merge(want, overlap, fetched)

\* The consolidated ranges of a lookup.
LEMMA AskedSpec ==
    ASSUME RangeInv, LookedUp
    PROVE  /\ missing \in Seq(Ranges) /\ BytesIn(missing) = BytesOf(want) \ BytesIn(extents)
           /\ Joined(asked, BytesIn(missing), gap) /\ asked \in Seq(Ranges)
           /\ want \in Ranges /\ overlap \in Seq(Ranges)
           /\ \A i \in DOMAIN overlap : Overlaps(overlap[i], want)
  <1>1. want \in Ranges /\ extents \in Seq(Ranges) /\ gap \in Nat
    BY ExtentsAreRanges DEF RangeInv, LookedUp
  <1>2. overlap = FindCached(want, extents) /\ asked = Consolidate(missing, gap)
        /\ missing = MissingRanges(want, [i \in DOMAIN overlap |-> Clip(overlap[i], want)])
    BY DEF LookedUp
  <1>3. missing \in Seq(Ranges) /\ BytesIn(missing) = BytesOf(want) \ BytesIn(extents)
    BY <1>1, <1>2, LookupSpec
  <1>4. Joined(asked, BytesIn(missing), gap)
    BY <1>1, <1>2, <1>3, ConsolidateSpec
  <1>5. asked \in Seq(Ranges)
    BY <1>4 DEF Joined
  <1>6. overlap \in Seq(Ranges) /\ \A i \in DOMAIN overlap : Overlaps(overlap[i], want)
    BY <1>1, <1>2, FindCachedSpec
  <1> QED
    BY <1>1, <1>3, <1>4, <1>5, <1>6

LEMMA RangeInitEstablishes == RangeInit => RangeInv
  <1> SUFFICES ASSUME RangeInit PROVE RangeInv
    OBVIOUS
  <1>1. spec \in Headers /\ gap \in Nat /\ fetched \in Seq(Ranges)
    BY RangeAssumption DEF RangeInit, Headers
  <1>2. extents \in Seq(Ranges)
    <2>1. PICK n \in 0..MaxExtents : extents \in [1..n -> Extents]
      BY DEF RangeInit
    <2>2. n \in Nat /\ extents \in [1..n -> Ranges]
      BY <2>1, RangeAssumption, ExtentsAreRanges
    <2> QED
      BY <2>2
  <1> QED
    BY <1>1, <1>2 DEF RangeInit, RangeInv

LEMMA RangeStepKeeps == RangeInv /\ [RangeNext]_rangeVars => RangeInv'
  <1> SUFFICES ASSUME RangeInv, [RangeNext]_rangeVars PROVE RangeInv'
    OBVIOUS
  <1>1. CASE Parse
    <2>1. /\ spec' = spec /\ gap' = gap /\ extents' = extents /\ fetched' = fetched
          /\ missing' = missing /\ asked' = asked /\ want' = ParseRange(spec, ObjectSize)
          /\ step' = IF want' = Invalid THEN "forwarded" ELSE "lookup"
          /\ missing = <<>> /\ asked = <<>>
      BY <1>1 DEF Parse, RangeInv
    <2>2. spec \in Headers
      BY DEF RangeInv
    <2>3. want' = Invalid \/ want' \in Extents
      BY <2>1, <2>2, ParseSpec
    <2> QED
      BY <2>1, <2>3 DEF RangeInv
  <1>2. CASE Lookup
    <2>1. /\ spec' = spec /\ gap' = gap /\ extents' = extents /\ fetched' = fetched /\ want' = want
          /\ overlap' = FindCached(want, extents) /\ asked' = Consolidate(missing', gap)
          /\ missing' = MissingRanges(want, [i \in DOMAIN overlap' |-> Clip(overlap'[i], want)])
          /\ step' \in {"merge", "fetch"} /\ want \in Extents /\ want = ParseRange(spec, ObjectSize)
      BY <1>2 DEF Lookup, RangeInv
    <2>2. LookedUp'
      BY <2>1 DEF LookedUp
    <2> QED
      BY <2>1, <2>2 DEF RangeInv
  <1>3. CASE FetchMissing
    <2>1. PICK kept \in SUBSET (DOMAIN asked) :
            /\ fetched' = Keep(asked, {asked[i] : i \in kept})
            /\ step' = IF kept = {} THEN "forwarded" ELSE "merge"
      BY <1>3 DEF FetchMissing
    <2>2. /\ spec' = spec /\ gap' = gap /\ extents' = extents /\ want' = want /\ overlap' = overlap
          /\ missing' = missing /\ asked' = asked /\ LookedUp /\ step = "fetch"
      BY <1>3 DEF FetchMissing, RangeInv
    <2>3. LookedUp'
      BY <2>2 DEF LookedUp
    <2>4. asked \in Seq(Ranges)
      BY <2>2, AskedSpec
    <2>5. fetched' \in Seq(Ranges)
      BY <2>1, <2>4, KeepPicks
    <2>6. step' \in {"forwarded", "merge"}
      BY <2>1
    <2> QED
      BY <2>2, <2>3, <2>5, <2>6 DEF RangeInv
  <1>4. CASE MergeSegments
    <2>1. /\ spec' = spec /\ gap' = gap /\ extents' = extents /\ want' = want /\ overlap' = overlap
          /\ missing' = missing /\ asked' = asked /\ fetched' = fetched /\ LookedUp /\ step = "merge"
          /\ body' = Merge(want, overlap, fetched)
          /\ step' = IF body' = <<>> THEN "fallback" ELSE "served"
      BY <1>4 DEF MergeSegments, RangeInv
    <2>2. LookedUp'
      BY <2>1 DEF LookedUp
    <2> QED
      BY <2>1, <2>2 DEF RangeInv
  <1>5. CASE RangeDone \/ UNCHANGED rangeVars
    <2>1. UNCHANGED rangeVars
      BY <1>5 DEF RangeDone
    <2> QED
      BY <2>1 DEF RangeInv, LookedUp, rangeVars
  <1> QED
    BY <1>1, <1>2, <1>3, <1>4, <1>5 DEF RangeNext

LEMMA RangeInvariant == RangeSpec => []RangeInv
  <1> QED
    BY RangeInitEstablishes, RangeStepKeeps, PTL DEF RangeSpec

\* parse_single_range_spec: the range a header is parsed to is the set of bytes
\* RFC 9110 gives the header, for every object size, header form and boundary.
THEOREM RangeHeaderIsParsedExactly == RangeSpec => []ParsedRangeIsSelected
  <1>1. RangeInv => ParsedRangeIsSelected
    <2> SUFFICES ASSUME RangeInv, step # "parse"
                 PROVE  (IF want = Invalid THEN {} ELSE BytesOf(want)) = Selected(spec)
      BY DEF ParsedRangeIsSelected
    <2>1. spec \in Headers /\ want = ParseRange(spec, ObjectSize)
      BY DEF RangeInv
    <2> QED
      BY <2>1, ParseSpec
  <1> QED
    BY <1>1, RangeInvariant, PTL

\* page_bounds and overlapping_pages: the pages of a read shorter than a page
\* hold it, start on the page grid and end inside the object, for every page and
\* object size.
THEOREM WidenedPagesHoldTheRequest == RangeSpec => []PagesHoldTheRequest
  <1>1. RangeInv => PagesHoldTheRequest
    <2> SUFFICES ASSUME RangeInv, Parsed, Cardinality(BytesOf(want)) < PageSize
                 PROVE  LET pages == OverlappingPages(want, ObjectSize) IN
                        /\ BytesOf(want) \subseteq BytesIn(pages)
                        /\ BytesIn(pages) \subseteq Offsets
                        /\ \A i \in DOMAIN pages : pages[i].start % PageSize = 0
      BY DEF PagesHoldTheRequest
    <2>1. spec \in Headers /\ want = ParseRange(spec, ObjectSize) /\ want # Invalid
      BY DEF RangeInv, Parsed
    <2>2. want \in Extents
      BY <2>1, ParseSpec
    <2> QED
      BY <2>2, PagesSpec
  <1> QED
    BY <1>1, RangeInvariant, PTL

\* find_cached_ranges and calculate_missing_ranges: the missing ranges are the
\* requested bytes no cached extent holds, for any number of extents in any
\* order, nested, touching or overlapping.
THEOREM MissingRangesAreExact == RangeSpec => []MissingIsExact
  <1>1. RangeInv => MissingIsExact
    <2> SUFFICES ASSUME RangeInv, step \in {"fetch", "merge", "served", "fallback"}
                 PROVE  BytesIn(missing) = BytesOf(want) \ BytesIn(extents)
      BY DEF MissingIsExact
    <2>1. LookedUp
      BY DEF RangeInv
    <2> QED
      BY <2>1, AskedSpec
  <1> QED
    BY <1>1, RangeInvariant, PTL

\* consolidate_missing_ranges: what is asked for covers what is missing, stays
\* inside the request, keeps apart only ranges further apart than the threshold
\* and adds only bytes between two missing ones within it.
THEOREM ConsolidatedRangesCover == RangeSpec => []ConsolidationCovers
  <1>1. RangeInv => ConsolidationCovers
    <2> SUFFICES ASSUME RangeInv PROVE ConsolidationCovers
      OBVIOUS
    <2>1. CASE missing = <<>> /\ asked = <<>>
      BY <2>1 DEF ConsolidationCovers, BytesIn
    <2>2. CASE LookedUp
      <3> DEFINE In == BytesIn(missing)
      <3>1. /\ In = BytesOf(want) \ BytesIn(extents) /\ Joined(asked, In, gap)
            /\ asked \in Seq(Ranges) /\ want \in Ranges
        BY <2>2, AskedSpec
      <3>2. gap \in Nat
        BY DEF RangeInv
      <3>3. /\ want.start \in Int /\ want.end \in Int /\ BytesOf(want) = want.start..want.end
            /\ In \subseteq want.start..want.end
        BY <3>1, ExtentsAreRanges
      <3>4. DOMAIN asked = 1..Len(asked) /\ Len(asked) \in Nat
        BY <3>1
      <3>5. \A i \in 1..Len(asked) : /\ asked[i].start \in Int /\ asked[i].end \in Int
                                     /\ BytesOf(asked[i]) = asked[i].start..asked[i].end
        <4>1. \A i \in 1..Len(asked) : asked[i] \in Ranges
          BY <3>1
        <4> QED
          BY <4>1, ExtentsAreRanges
      <3> HIDE DEF In
      <3>6. \A i \in 1..Len(asked) : asked[i].start \in In /\ asked[i].end \in In
        BY <3>1 DEF Joined, Anchored
      <3>7. \A i \in 1..Len(asked) : BytesOf(asked[i]) \subseteq BytesOf(want)
        BY <3>3, <3>5, <3>6
      <3>8. BytesIn(asked) \subseteq BytesOf(want)
        BY <3>4, <3>7 DEF BytesIn
      <3>9. \A i \in 1..(Len(asked) - 1) :
              /\ asked[i + 1].start - asked[i].end > gap + 1
              /\ asked[i].end \in In /\ asked[i + 1].start \in In
        <4> TAKE i \in 1..(Len(asked) - 1)
        <4>1. i \in 1..Len(asked) /\ i + 1 \in 1..Len(asked)
          BY <3>4
        <4>2. asked[i + 1].start > asked[i].end + 1 + gap
          BY <3>1 DEF Joined, Apart
        <4>3. asked[i + 1].start \in Int /\ asked[i].end \in Int
          BY <3>5, <4>1
        <4>4. asked[i + 1].start - asked[i].end > gap + 1
          BY <3>2, <4>2, <4>3
        <4> QED
          BY <3>6, <4>1, <4>4
      <3>10. \A i \in 1..Len(asked) : \A b \in BytesOf(asked[i]) \ In :
               \E lo, hi \in In : lo < b /\ b < hi /\ hi - lo <= gap + 1
        BY <3>1 DEF Joined, Bridges
      <3>11. In \subseteq BytesIn(asked)
        BY <3>1 DEF Joined
      <3> QED
        BY <3>4, <3>8, <3>9, <3>10, <3>11 DEF ConsolidationCovers, In
    <2> QED
      BY <2>1, <2>2 DEF RangeInv
  <1> QED
    BY <1>1, RangeInvariant, PTL

\* merge_range_segments: a body it returns is the requested bytes in order, each
\* once, whatever the sources overlap and whichever fetches failed; it refuses
\* otherwise.
THEOREM MergedBodyIsTheRequest == RangeSpec => []MergedBodyIsExact
  <1>1. RangeInv => MergedBodyIsExact
    <2> SUFFICES ASSUME RangeInv, step = "served" PROVE body = DataOf(want)
      BY DEF MergedBodyIsExact
    <2>1. LookedUp /\ fetched \in Seq(Ranges) /\ body # <<>> /\ body = Merge(want, overlap, fetched)
      BY DEF RangeInv
    <2>2. /\ want \in Ranges /\ overlap \in Seq(Ranges)
          /\ \A i \in DOMAIN overlap : Overlaps(overlap[i], want)
      BY <2>1, AskedSpec
    <2> QED
      BY <2>1, <2>2, MergeSpec
  <1> QED
    BY <1>1, RangeInvariant, PTL

-----------------------------------------------------------------------------
(* The chunked decoder                                                     *)

LEMMA SmallestIn ==
    ASSUME NEW S \in SUBSET Nat, S # {}
    PROVE  Earliest(S) \in S /\ \A j \in S : Earliest(S) <= j
  <1>1. \E k \in S : \A j \in S : k <= j
    BY LeastNatural
  <1> QED
    BY <1>1 DEF Earliest

-----------------------------------------------------------------------------
(* Slices                                                                  *)

Bytes == Seq(Octets)

\* The slice p..b of s; b = p - 1 is the empty one.
LEMMA SliceIs ==
    ASSUME NEW s \in Bytes, NEW p \in 1..(Len(s) + 1), NEW b \in (p - 1)..Len(s)
    PROVE  /\ SubSeq(s, p, b) \in Bytes /\ Len(SubSeq(s, p, b)) = b - p + 1
           /\ \A i \in 1..(b - p + 1) : SubSeq(s, p, b)[i] = s[p + i - 1]
           /\ b - p + 1 \in Nat
  <1>1. p \in Int /\ b \in Int /\ Len(s) \in Nat
    BY DEF Bytes
  <1>2. \A i \in p..b : s[i] \in Octets
    <2>1. \A i \in p..b : i \in 1..Len(s)
      BY <1>1
    <2> QED
      BY <2>1 DEF Bytes
  <1>3. /\ SubSeq(s, p, b) \in Seq(Octets) /\ Len(SubSeq(s, p, b)) = IF p <= b THEN b - p + 1 ELSE 0
        /\ \A i \in 1..(b - p + 1) : SubSeq(s, p, b)[i] = s[p + i - 1]
    BY <1>1, <1>2, SubSeqProperties
  <1>4. b - p + 1 \in Nat /\ (IF p <= b THEN b - p + 1 ELSE 0) = b - p + 1
    BY <1>1
  <1> QED
    BY <1>3, <1>4 DEF Bytes

LEMMA SliceJoin ==
    ASSUME NEW s \in Bytes, NEW p \in 1..(Len(s) + 1), NEW a \in (p - 1)..Len(s), NEW b \in a..Len(s)
    PROVE  SubSeq(s, p, a) \o SubSeq(s, a + 1, b) = SubSeq(s, p, b)
  <1> DEFINE u == SubSeq(s, p, a)
             v == SubSeq(s, a + 1, b)
             z == SubSeq(s, p, b)
             t == u \o v
  <1>0. Len(s) \in Nat /\ a + 1 \in 1..(Len(s) + 1) /\ b \in ((a + 1) - 1)..Len(s) /\ b \in (p - 1)..Len(s)
        /\ a \in Int /\ b \in Int /\ p \in Int
    BY DEF Bytes
  <1>1. u \in Bytes /\ Len(u) = a - p + 1 /\ \A i \in 1..(a - p + 1) : u[i] = s[p + i - 1]
    BY SliceIs
  <1>2. v \in Bytes /\ Len(v) = b - a /\ \A i \in 1..(b - a) : v[i] = s[a + i]
    <2>1. b - (a + 1) + 1 = b - a /\ \A i \in Int : (a + 1) + i - 1 = a + i
      BY <1>0
    <2>2. v \in Bytes /\ Len(v) = b - (a + 1) + 1 /\ \A i \in 1..(b - (a + 1) + 1) : v[i] = s[(a + 1) + i - 1]
      BY <1>0, SliceIs
    <2> HIDE DEF v
    <2> QED
      BY <2>1, <2>2
  <1>3. z \in Bytes /\ Len(z) = b - p + 1 /\ \A i \in 1..(b - p + 1) : z[i] = s[p + i - 1]
    BY <1>0, SliceIs
  <1> HIDE DEF u, v, z
  <1>4. /\ t \in Bytes /\ Len(t) = Len(u) + Len(v)
        /\ \A i \in 1..(Len(u) + Len(v)) : t[i] = IF i <= Len(u) THEN u[i] ELSE v[i - Len(u)]
    BY <1>1, <1>2, ConcatProperties DEF Bytes
  <1> HIDE DEF t
  <1>5. Len(u) + Len(v) = b - p + 1
    BY <1>0, <1>1, <1>2
  <1>6. ASSUME NEW i \in 1..(b - p + 1) PROVE t[i] = z[i]
    <2>1. CASE i <= a - p + 1
      <3>1. i \in 1..(a - p + 1) /\ t[i] = u[i]
        BY <1>0, <1>1, <1>4, <1>5, <2>1
      <3> QED
        BY <1>1, <1>3, <3>1
    <2>2. CASE i > a - p + 1
      <3>1. i - (a - p + 1) \in 1..(b - a) /\ a + (i - (a - p + 1)) = p + i - 1
        BY <1>0, <2>2
      <3>2. t[i] = v[i - (a - p + 1)]
        BY <1>0, <1>1, <1>4, <1>5, <2>2
      <3>3. v[i - (a - p + 1)] = s[a + (i - (a - p + 1))]
        BY <1>2, <3>1
      <3> QED
        BY <1>3, <3>1, <3>2, <3>3
    <2> QED
      BY <1>0, <2>1, <2>2
  <1>7. t = z
    BY <1>3, <1>4, <1>5, <1>6, SeqEqual DEF Bytes
  <1> QED
    BY <1>7 DEF t, u, v, z

\* A slice of a slice.
LEMMA SliceOfSlice ==
    ASSUME NEW s \in Bytes, NEW p \in 1..(Len(s) + 1), NEW b \in (p - 1)..Len(s),
           NEW i \in 1..(b - p + 2), NEW j \in (i - 1)..(b - p + 1)
    PROVE  SubSeq(SubSeq(s, p, b), i, j) = SubSeq(s, p + i - 1, p + j - 1)
  <1> DEFINE u == SubSeq(s, p, b)
             v == SubSeq(u, i, j)
             z == SubSeq(s, p + i - 1, p + j - 1)
  <1>0. Len(s) \in Nat /\ p \in Int /\ b \in Int /\ i \in Int /\ j \in Int
    BY DEF Bytes
  <1>1. u \in Bytes /\ Len(u) = b - p + 1 /\ \A x \in 1..(b - p + 1) : u[x] = s[p + x - 1]
    BY SliceIs
  <1>2. z \in Bytes /\ Len(z) = j - i + 1 /\ \A x \in 1..(j - i + 1) : z[x] = s[p + i - 1 + x - 1]
    <2>1. p + i - 1 \in 1..(Len(s) + 1) /\ p + j - 1 \in ((p + i - 1) - 1)..Len(s)
          /\ (p + j - 1) - (p + i - 1) + 1 = j - i + 1
      BY <1>0
    <2> HIDE DEF z
    <2>2. z \in Bytes /\ Len(z) = (p + j - 1) - (p + i - 1) + 1
          /\ \A x \in 1..((p + j - 1) - (p + i - 1) + 1) : z[x] = s[(p + i - 1) + x - 1]
      BY <2>1, SliceIs DEF z
    <2> QED
      BY <2>1, <2>2
  <1> HIDE DEF u
  <1>3. v \in Bytes /\ Len(v) = j - i + 1 /\ \A x \in 1..(j - i + 1) : v[x] = u[i + x - 1]
    <2>1. i \in 1..(Len(u) + 1) /\ j \in (i - 1)..Len(u)
      BY <1>0, <1>1
    <2> QED
      BY <1>1, <2>1, SliceIs
  <1> HIDE DEF v, z
  <1>4. ASSUME NEW x \in 1..(j - i + 1) PROVE v[x] = z[x]
    <2>1. i + x - 1 \in 1..(b - p + 1) /\ p + (i + x - 1) - 1 = p + i - 1 + x - 1
      BY <1>0
    <2>2. u[i + x - 1] = s[p + (i + x - 1) - 1]
      BY <1>1, <2>1
    <2> QED
      BY <1>2, <1>3, <2>1, <2>2
  <1>5. v = z
    BY <1>2, <1>3, <1>4, SeqEqual DEF Bytes
  <1> QED
    BY <1>5 DEF u, v, z

\* CRLF at i and i + 1.
CrlfAt(s, i) == s[i] = CR /\ s[i + 1] = LF

LEMMA SliceIsCrlf ==
    ASSUME NEW s \in Bytes, NEW i \in 1..(Len(s) - 1)
    PROVE  SubSeq(s, i, i + 1) = CRLF <=> CrlfAt(s, i)
  <1>0. Len(s) \in Nat /\ i \in 1..(Len(s) + 1) /\ i + 1 \in (i - 1)..Len(s) /\ (i + 1) - i + 1 = 2
        /\ i + 1 - 1 = i /\ i + 2 - 1 = i + 1
    BY DEF Bytes
  <1> DEFINE u == SubSeq(s, i, i + 1)
  <1>1. u \in Bytes /\ Len(u) = 2 /\ \A x \in 1..2 : u[x] = s[i + x - 1]
    <2> HIDE DEF u
    <2>1. u \in Bytes /\ Len(u) = (i + 1) - i + 1 /\ \A x \in 1..((i + 1) - i + 1) : u[x] = s[i + x - 1]
      BY <1>0, SliceIs DEF u
    <2> QED
      BY <1>0, <2>1
  <1>2. u[1] = s[i] /\ u[2] = s[i + 1]
    BY <1>0, <1>1
  <1> HIDE DEF u
  <1>3. CRLF \in Bytes /\ Len(CRLF) = 2 /\ CRLF[1] = CR /\ CRLF[2] = LF
    <2>1. CR \in Octets /\ LF \in Octets
      BY DEF Octets
    <2> HIDE DEF CR, LF
    <2> QED
      BY <2>1 DEF CRLF, Bytes
  <1>4. CrlfAt(s, i) => u = CRLF
    <2> SUFFICES ASSUME CrlfAt(s, i) PROVE u = CRLF
      OBVIOUS
    <2>1. \A x \in 1..2 : u[x] = CRLF[x]
      BY <1>2, <1>3 DEF CrlfAt
    <2> QED
      BY <1>1, <1>3, <2>1, SeqEqual DEF Bytes
  <1>5. u = CRLF => CrlfAt(s, i)
    BY <1>2, <1>3 DEF CrlfAt
  <1> QED
    BY <1>4, <1>5 DEF u

LEMMA SliceIsTwoCrlfs ==
    ASSUME NEW s \in Bytes, NEW i \in 1..(Len(s) - 3)
    PROVE  SubSeq(s, i, i + 3) = CRLF \o CRLF <=> CrlfAt(s, i) /\ CrlfAt(s, i + 2)
  <1> DEFINE u == SubSeq(s, i, i + 3)
             e == CRLF \o CRLF
  <1>0. /\ Len(s) \in Nat /\ i \in Int /\ i \in 1..(Len(s) + 1) /\ i + 3 \in (i - 1)..Len(s)
        /\ (i + 3) - i + 1 = 4 /\ i + 1 - 1 = i /\ i + 2 - 1 = i + 1 /\ i + 3 - 1 = i + 2
        /\ i + 4 - 1 = i + 3 /\ (i + 2) + 1 = i + 3
    BY DEF Bytes
  <1>1. u \in Bytes /\ Len(u) = 4 /\ \A x \in 1..4 : u[x] = s[i + x - 1]
    <2> HIDE DEF u
    <2>1. u \in Bytes /\ Len(u) = (i + 3) - i + 1 /\ \A x \in 1..((i + 3) - i + 1) : u[x] = s[i + x - 1]
      BY <1>0, SliceIs DEF u
    <2> QED
      BY <1>0, <2>1
  <1>2. u[1] = s[i] /\ u[2] = s[i + 1] /\ u[3] = s[i + 2] /\ u[4] = s[i + 3]
    <2>1. 1 \in 1..4 /\ 2 \in 1..4 /\ 3 \in 1..4 /\ 4 \in 1..4
      OBVIOUS
    <2> HIDE DEF u
    <2> QED
      BY <1>0, <1>1, <2>1
  <1> HIDE DEF u
  <1>3. CRLF \in Bytes /\ Len(CRLF) = 2 /\ CRLF[1] = CR /\ CRLF[2] = LF
    BY DEF CRLF, Octets, Bytes
  <1>4. /\ e \in Bytes /\ Len(e) = 2 + 2
        /\ \A x \in 1..(2 + 2) : e[x] = IF x <= 2 THEN CRLF[x] ELSE CRLF[x - 2]
    <2>1. /\ e \in Bytes /\ Len(e) = Len(CRLF) + Len(CRLF)
          /\ \A x \in 1..(Len(CRLF) + Len(CRLF)) :
                e[x] = IF x <= Len(CRLF) THEN CRLF[x] ELSE CRLF[x - Len(CRLF)]
      BY <1>3, ConcatProperties DEF Bytes
    <2> QED
      BY <1>3, <2>1
  <1> HIDE DEF e
  <1>5. e[1] = CR /\ e[2] = LF /\ e[3] = CR /\ e[4] = LF /\ Len(e) = 4
    <2>1. 1 \in 1..(2 + 2) /\ 2 \in 1..(2 + 2) /\ 3 \in 1..(2 + 2) /\ 4 \in 1..(2 + 2) /\ 3 - 2 = 1 /\ 4 - 2 = 2
          /\ ~(3 <= 2) /\ ~(4 <= 2)
      OBVIOUS
    <2> QED
      BY <1>3, <1>4, <2>1
  <1>6. CrlfAt(s, i) /\ CrlfAt(s, i + 2) => u = e
    <2> SUFFICES ASSUME CrlfAt(s, i), CrlfAt(s, i + 2) PROVE u = e
      OBVIOUS
    <2>1. u[1] = e[1] /\ u[2] = e[2] /\ u[3] = e[3] /\ u[4] = e[4]
      BY <1>0, <1>2, <1>5 DEF CrlfAt
    <2>2. \A x \in 1..4 : u[x] = e[x]
      BY <2>1
    <2> QED
      BY <1>1, <1>4, <1>5, <2>2, SeqEqual DEF Bytes
  <1>7. u = e => CrlfAt(s, i) /\ CrlfAt(s, i + 2)
    BY <1>0, <1>2, <1>5 DEF CrlfAt
  <1> QED
    BY <1>6, <1>7 DEF u, e

LEMMA LineEndsIs ==
    ASSUME NEW s \in Bytes, NEW p \in 1..(Len(s) + 1), NEW b \in (p - 1)..Len(s)
    PROVE  LineEnds(SubSeq(s, p, b)) <=> b > p /\ CrlfAt(s, b - 1)
  <1> DEFINE u == SubSeq(s, p, b)
  <1>0. Len(s) \in Nat /\ p \in Int /\ b \in Int /\ Len(CRLF) = 2
    BY DEF Bytes, CRLF
  <1>1. Len(u) = b - p + 1
    BY SliceIs
  <1>2. LineEnds(u) <=> Len(u) >= 2 /\ SubSeq(u, Len(u) - 2 + 1, Len(u)) = CRLF
    <2> HIDE DEF u
    <2> QED
      BY <1>0 DEF LineEnds, EndsWith
  <1>3. Len(u) >= 2 <=> b > p
    BY <1>0, <1>1
  <1>4. ASSUME b > p PROVE SubSeq(u, Len(u) - 2 + 1, Len(u)) = CRLF <=> CrlfAt(s, b - 1)
    <2>1. /\ b - p \in 1..(b - p + 2) /\ b - p + 1 \in ((b - p) - 1)..(b - p + 1)
          /\ p + (b - p) - 1 = b - 1 /\ p + (b - p + 1) - 1 = b
          /\ Len(u) - 2 + 1 = b - p /\ b - 1 \in 1..(Len(s) - 1) /\ (b - 1) + 1 = b
      BY <1>0, <1>1, <1>4
    <2>2. SubSeq(u, b - p, b - p + 1) = SubSeq(s, p + (b - p) - 1, p + (b - p + 1) - 1)
      BY <2>1, SliceOfSlice
    <2>3. SubSeq(s, b - 1, (b - 1) + 1) = CRLF <=> CrlfAt(s, b - 1)
      BY <2>1, SliceIsCrlf
    <2> HIDE DEF u
    <2> QED
      BY <1>1, <2>1, <2>2, <2>3
  <1> HIDE DEF u
  <1> QED
    BY <1>2, <1>3, <1>4 DEF u

LEMMA SectionEndsIs ==
    ASSUME NEW s \in Bytes, NEW p \in 1..(Len(s) + 1), NEW b \in (p - 1)..Len(s)
    PROVE  SectionEnds(SubSeq(s, p, b)) <=>
               \/ b = p + 1 /\ CrlfAt(s, p)
               \/ b > p + 2 /\ CrlfAt(s, b - 3) /\ CrlfAt(s, b - 1)
  <1> DEFINE u == SubSeq(s, p, b)
  <1>0. Len(s) \in Nat /\ p \in Int /\ b \in Int
    BY DEF Bytes
  <1>1. Len(u) = b - p + 1
    BY SliceIs
  <1>2. Len(CRLF) = 2 /\ Len(CRLF \o CRLF) = 4
    <2>1. CRLF \in Bytes /\ Len(CRLF) = 2
      BY DEF CRLF, Octets, Bytes
    <2>2. Len(CRLF \o CRLF) = Len(CRLF) + Len(CRLF)
      BY <2>1, ConcatProperties DEF Bytes
    <2> QED
      BY <2>1, <2>2
  <1>3. u = CRLF <=> b = p + 1 /\ CrlfAt(s, p)
    <2>1. u = CRLF => b = p + 1
      BY <1>0, <1>1, <1>2
    <2>2. ASSUME b = p + 1 PROVE u = CRLF <=> CrlfAt(s, p)
      <3>1. p \in 1..(Len(s) - 1)
        BY <1>0, <2>2
      <3> QED
        BY <2>2, <3>1, SliceIsCrlf
    <2> QED
      BY <2>1, <2>2
  <1>4. EndsWith(u, CRLF \o CRLF) <=> b > p + 2 /\ CrlfAt(s, b - 3) /\ CrlfAt(s, b - 1)
    <2>1. EndsWith(u, CRLF \o CRLF) <=> Len(u) >= 4 /\ SubSeq(u, Len(u) - 4 + 1, Len(u)) = CRLF \o CRLF
      <3> HIDE DEF u
      <3> QED
        BY <1>2 DEF EndsWith
    <2>2. Len(u) >= 4 <=> b > p + 2
      BY <1>0, <1>1
    <2>3. ASSUME b > p + 2
          PROVE  SubSeq(u, Len(u) - 4 + 1, Len(u)) = CRLF \o CRLF <=> CrlfAt(s, b - 3) /\ CrlfAt(s, b - 1)
      <3>1. /\ b - p - 2 \in 1..(b - p + 2) /\ b - p + 1 \in ((b - p - 2) - 1)..(b - p + 1)
            /\ p + (b - p - 2) - 1 = b - 3 /\ p + (b - p + 1) - 1 = b
            /\ Len(u) - 4 + 1 = b - p - 2 /\ b - 3 \in 1..(Len(s) - 3) /\ (b - 3) + 3 = b
            /\ (b - 3) + 2 = b - 1
        BY <1>0, <1>1, <2>3
      <3>2. SubSeq(u, b - p - 2, b - p + 1) = SubSeq(s, p + (b - p - 2) - 1, p + (b - p + 1) - 1)
        BY <3>1, SliceOfSlice
      <3>3. SubSeq(s, b - 3, (b - 3) + 3) = CRLF \o CRLF <=> CrlfAt(s, b - 3) /\ CrlfAt(s, (b - 3) + 2)
        BY <3>1, SliceIsTwoCrlfs
      <3> HIDE DEF u
      <3> QED
        BY <1>1, <3>1, <3>2, <3>3
    <2> HIDE DEF u
    <2> QED
      BY <2>1, <2>2, <2>3
  <1> HIDE DEF u
  <1> QED
    BY <1>3, <1>4 DEF SectionEnds, u

\* find_crlf
LEMMA AfterCrlfSpec ==
    ASSUME NEW s \in Bytes, NEW p \in 1..(Len(s) + 1)
    PROVE  \/ AfterCrlf(s, p) = 0 /\ \A i \in p..(Len(s) - 1) : ~CrlfAt(s, i)
           \/ /\ AfterCrlf(s, p) \in (p + 2)..(Len(s) + 1) /\ CrlfAt(s, AfterCrlf(s, p) - 2)
              /\ \A i \in p..(AfterCrlf(s, p) - 3) : ~CrlfAt(s, i)
  <1> DEFINE S == {i \in p..(Len(s) - 1) : s[i] = CR /\ s[i + 1] = LF}
             n == AfterCrlf(s, p)
  <1>0. Len(s) \in Nat /\ p \in Nat
    BY DEF Bytes
  <1>1. n = IF S = {} THEN 0 ELSE Earliest(S) + 2
    BY DEF AfterCrlf
  <1>2. \A i \in p..(Len(s) - 1) : CrlfAt(s, i) <=> i \in S
    BY DEF CrlfAt
  <1>3. S \subseteq p..(Len(s) - 1) /\ S \in SUBSET Nat
    BY <1>0
  <1> HIDE DEF S, n
  <1>4. CASE S = {}
    BY <1>1, <1>2, <1>4 DEF n
  <1>5. CASE S # {}
    <2>1. Earliest(S) \in S /\ \A j \in S : Earliest(S) <= j
      BY <1>3, <1>5, SmallestIn
    <2>2. n = Earliest(S) + 2 /\ Earliest(S) \in p..(Len(s) - 1)
      BY <1>1, <1>3, <1>5, <2>1
    <2>3. n \in (p + 2)..(Len(s) + 1) /\ n - 2 = Earliest(S)
      BY <1>0, <2>2
    <2>4. ASSUME NEW i \in p..(n - 3) PROVE ~CrlfAt(s, i)
      <3>1. i \in p..(Len(s) - 1) /\ ~(Earliest(S) <= i)
        BY <1>0, <2>2
      <3> QED
        BY <1>2, <2>1, <3>1
    <2>5. CrlfAt(s, n - 2)
      BY <1>2, <2>1, <2>2, <2>3
    <2> QED
      BY <2>3, <2>4, <2>5 DEF n
  <1> QED
    BY <1>4, <1>5

-----------------------------------------------------------------------------
(* The recursive definitions                                               *)

LEMMA HexNat ==
    ASSUME NEW line \in Bytes PROVE Hex(line) \in Nat
  <1> DEFINE Worth(d) == IF d = Digit.two THEN 2 ELSE 0
             h == [p \in Nat \X Octets |-> 16 * p[1] + Worth(p[2])]
             Eq(u) == u = [s \in SUBSET DOMAIN line |->
                IF s = {} THEN 0 ELSE 16 * u[s \ {Max(s)}] + (IF line[Max(s)] = Digit.two THEN 2 ELSE 0)]
             G == CHOOSE u : Eq(u)
  <1>1. h \in [Nat \X Octets -> Nat] /\ \A a \in Nat, x \in Octets : h[<<a, x>>] = 16 * a + Worth(x)
    <2>1. \A x : Worth(x) \in Nat
      OBVIOUS
    <2> HIDE DEF Worth
    <2>2. \A a \in Nat, x \in Octets : 16 * a + Worth(x) \in Nat
      BY <2>1
    <2> QED
      BY <2>2
  <1>2. line \in Seq(Octets) /\ DOMAIN line = 1..Len(line) /\ Len(line) \in Nat
        /\ \A i \in 1..Len(line) : line[i] \in Octets
    BY DEF Bytes
  <1>3. Hex(line) = G[DOMAIN line]
    BY DEF Hex, FoldLeft, MapThenFoldSet
  <1> HIDE DEF h
  <1>4. \A s \in SUBSET (1..Len(line)) : s # {} =>
          s \ {Max(s)} \in SUBSET (1..Len(line)) /\ line[Max(s)] \in Octets
    BY <1>2, MaxOf
  <1>5. PICK u \in [SUBSET (1..Len(line)) -> Nat] : Iterates(u, h, 0, line)
    BY <1>1, <1>2, IterationExists
  <1>6. \A s \in SUBSET (1..Len(line)) : s # {} =>
          h[<<u[s \ {Max(s)}], line[Max(s)]>>] = 16 * u[s \ {Max(s)}] + Worth(line[Max(s)])
    BY <1>1, <1>4, <1>5
  <1>7. Eq(u)
    BY <1>2, <1>5, <1>6 DEF Iterates
  <1>8. Eq(G)
    BY <1>7
  <1> HIDE DEF G
  <1>9. Obeys(G, h, Nat, 0, line)
    BY <1>1, <1>2, <1>4, <1>8 DEF Obeys
  <1>10. PICK f : PrefixFold(f, h, Nat, 0, line) /\ Ends(f, G, line)
    BY <1>1, <1>2, <1>9, PrefixValues
  <1> QED
    BY <1>2, <1>3, <1>10 DEF PrefixFold, Ends

\* parse_trailers, one line at a time.
NoColon(s, a, b) == \A i \in a..b : s[i] # Colon
TrailerStep(s, start, f, pos) ==
    IF AfterCrlf(s, pos) = 0 THEN 0
    ELSE IF AfterCrlf(s, pos) = pos + 2 THEN AfterCrlf(s, pos)
    ELSE IF AfterCrlf(s, pos) - start > MaxSection \/ NoColon(s, pos, AfterCrlf(s, pos) - 3) THEN 0
    ELSE f[AfterCrlf(s, pos)]

LEMMA TrailersUnfold ==
    ASSUME NEW s \in Bytes, NEW start \in 1..(Len(s) + 1)
    PROVE  \A pos \in 1..(Len(s) + 1) :
               TrailersFrom(s, start)[pos] = TrailerStep(s, start, TrailersFrom(s, start), pos)
  <1> DEFINE D == 1..(Len(s) + 1)
             nx(pos) == AfterCrlf(s, pos)
             Eq(u) == u = [pos \in D |->
                IF nx(pos) = 0 THEN 0
                ELSE IF nx(pos) = pos + 2 THEN nx(pos)
                ELSE IF nx(pos) - start > MaxSection \/ \A i \in pos..(nx(pos) - 3) : s[i] # Colon THEN 0
                ELSE u[nx(pos)]]
             G == CHOOSE u : Eq(u)
             stop == {pos \in D : \/ nx(pos) = 0 \/ nx(pos) = pos + 2 \/ nx(pos) - start > MaxSection
                                  \/ NoColon(s, pos, nx(pos) - 3)}
             base == [pos \in D |-> IF nx(pos) = pos + 2 THEN nx(pos) ELSE 0]
             h == [x \in D \X Nat |-> x[2]]
             next == [pos \in D |-> IF pos \in stop THEN pos ELSE nx(pos)]
             m == [pos \in D |-> (Len(s) + 1) - pos]
  <1>0. Len(s) \in Nat /\ Len(s) + 1 \in Nat
    BY DEF Bytes
  <1>1. \A pos \in D : nx(pos) \in Nat /\ (nx(pos) # 0 => nx(pos) \in D /\ nx(pos) > pos)
    <2> TAKE pos \in D
    <2>1. nx(pos) = 0 \/ nx(pos) \in (pos + 2)..(Len(s) + 1)
      BY AfterCrlfSpec
    <2> HIDE DEF nx
    <2> QED
      BY <1>0, <2>1
  <1>2. TrailersFrom(s, start) = G
    BY DEF TrailersFrom
  <1> HIDE DEF nx
  <1>3. base \in [D -> Nat]
    BY <1>1
  <1>4. next \in [D -> D] /\ \A pos \in D : next[pos] = IF pos \in stop THEN pos ELSE nx(pos)
    BY <1>1
  <1>5. h \in [D \X Nat -> Nat] /\ \A pos \in D, r \in Nat : h[<<pos, r>>] = r
    OBVIOUS
  <1>6. m \in [D -> 0..(Len(s) + 1)] /\ \A pos \in D : m[pos] = (Len(s) + 1) - pos
    BY <1>0
  <1>7. \A pos \in D : pos \notin stop => nx(pos) # 0
    OBVIOUS
  <1>8. ASSUME NEW pos \in D \ stop PROVE m[next[pos]] < m[pos]
    <2>1. nx(pos) \in D /\ nx(pos) > pos /\ next[pos] = nx(pos)
      BY <1>1, <1>4, <1>7
    <2> HIDE DEF m, next
    <2>2. m[nx(pos)] = (Len(s) + 1) - nx(pos) /\ m[pos] = (Len(s) + 1) - pos
      BY <1>6, <2>1
    <2> QED
      BY <1>0, <2>1, <2>2
  <1>s. stop \in SUBSET D
    OBVIOUS
  <1>9. PICK u \in [D -> Nat] : Descends(u, D, stop, base, h, next)
    <2> HIDE DEF D, stop, base, h, next, m
    <2> QED
      BY <1>0, <1>3, <1>4, <1>5, <1>6, <1>8, <1>s, DescentExists
  <1>10. Eq(u)
    <2>1. ASSUME NEW pos \in D
          PROVE  u[pos] = IF nx(pos) = 0 THEN 0
                          ELSE IF nx(pos) = pos + 2 THEN nx(pos)
                          ELSE IF nx(pos) - start > MaxSection \/ NoColon(s, pos, nx(pos) - 3) THEN 0
                          ELSE u[nx(pos)]
      <3>1. u[pos] = IF pos \in stop THEN base[pos] ELSE h[<<pos, u[next[pos]]>>]
        BY <1>9 DEF Descends
      <3>2. CASE pos \in stop
        <4>1. u[pos] = IF nx(pos) = pos + 2 THEN nx(pos) ELSE 0
          BY <3>1, <3>2
        <4>2. nx(pos) = 0 => nx(pos) # pos + 2
          BY <1>0
        <4>3. nx(pos) = 0 \/ nx(pos) = pos + 2 \/ nx(pos) - start > MaxSection \/ NoColon(s, pos, nx(pos) - 3)
          BY <3>2
        <4> QED
          BY <4>1, <4>2, <4>3
      <3>3. CASE pos \notin stop
        <4>1. ~(nx(pos) = 0 \/ nx(pos) = pos + 2 \/ nx(pos) - start > MaxSection \/ NoColon(s, pos, nx(pos) - 3))
          BY <3>3
        <4>2. next[pos] = nx(pos) /\ nx(pos) \in D
          BY <1>1, <1>4, <1>7, <3>3
        <4>3. h[<<pos, u[nx(pos)]>>] = u[nx(pos)]
          <5>1. u[nx(pos)] \in Nat
            BY <1>9, <4>2
          <5> HIDE DEF h
          <5> QED
            BY <1>5, <5>1
        <4> QED
          BY <3>1, <3>3, <4>1, <4>2, <4>3
      <3> QED
        BY <3>2, <3>3
    <2>2. \A pos \in D : u[pos] = IF nx(pos) = 0 THEN 0
                          ELSE IF nx(pos) = pos + 2 THEN nx(pos)
                          ELSE IF nx(pos) - start > MaxSection \/ \A i \in pos..(nx(pos) - 3) : s[i] # Colon THEN 0
                          ELSE u[nx(pos)]
      BY <2>1 DEF NoColon
    <2> QED
      BY <1>9, <2>2
  <1>11. Eq(G)
    BY <1>10
  <1> HIDE DEF G
  <1>12. ASSUME NEW pos \in D PROVE G[pos] = TrailerStep(s, start, G, pos)
    BY <1>11 DEF TrailerStep, NoColon, nx
  <1> QED
    BY <1>2, <1>12

\* decode_aws_chunked, one chunk at a time.
Results == [ok : BOOLEAN, data : Bytes, longest : Nat]
SizeLine(s, pos) == SubSeq(s, pos, AfterCrlf(s, pos) - 3)
ChunkEnd(s, pos) == AfterCrlf(s, pos) + Hex(SizeLine(s, pos))
NoChunk(s, pos) ==
    \/ AfterCrlf(s, pos) = 0 \/ ~IsSize(SizeLine(s, pos))
    \/ /\ Hex(SizeLine(s, pos)) # 0
       /\ ChunkEnd(s, pos) + 1 > Len(s) \/ SubSeq(s, ChunkEnd(s, pos), ChunkEnd(s, pos) + 1) # CRLF
LastChunk(s, pos) ==
    IF AfterTrailers(s, AfterCrlf(s, pos)) # Len(s) + 1 THEN Nothing
    ELSE [ok |-> TRUE, data |-> <<>>,
          longest |-> Longer(AfterCrlf(s, pos) - pos,
                             AfterTrailers(s, AfterCrlf(s, pos)) - AfterCrlf(s, pos))]
AddChunk(s, pos, r) ==
    [r EXCEPT !.data = SubSeq(s, AfterCrlf(s, pos), ChunkEnd(s, pos) - 1) \o @,
              !.longest = Longer(AfterCrlf(s, pos) - pos, @)]
DecodeStep(s, f, pos) ==
    IF NoChunk(s, pos) THEN Nothing
    ELSE IF Hex(SizeLine(s, pos)) = 0 THEN LastChunk(s, pos)
    ELSE AddChunk(s, pos, f[ChunkEnd(s, pos) + 2])

LEMMA NothingIsResult == Nothing \in Results
  BY DEF Nothing, Results, Bytes

\* A chunk that is not the last: where it starts, ends, and the next one starts.
LEMMA ChunkSpec ==
    ASSUME NEW s \in Bytes, NEW pos \in 1..(Len(s) + 1), AfterCrlf(s, pos) # 0
    PROVE  /\ AfterCrlf(s, pos) \in (pos + 2)..(Len(s) + 1)
           /\ SizeLine(s, pos) \in Bytes /\ Hex(SizeLine(s, pos)) \in Nat
           /\ ChunkEnd(s, pos) \in Nat /\ ChunkEnd(s, pos) >= AfterCrlf(s, pos)
  <1>0. Len(s) \in Nat /\ pos \in Nat
    BY DEF Bytes
  <1>1. AfterCrlf(s, pos) \in (pos + 2)..(Len(s) + 1)
    BY AfterCrlfSpec
  <1>2. AfterCrlf(s, pos) - 3 \in (pos - 1)..Len(s) /\ AfterCrlf(s, pos) \in Nat
    BY <1>0, <1>1
  <1>3. SizeLine(s, pos) \in Bytes
    BY <1>2, SliceIs DEF SizeLine
  <1>4. Hex(SizeLine(s, pos)) \in Nat
    BY <1>3, HexNat
  <1> QED
    BY <1>1, <1>2, <1>3, <1>4 DEF ChunkEnd

LEMMA LastChunkIsResult ==
    ASSUME NEW s \in Bytes, NEW pos \in 1..(Len(s) + 1), AfterCrlf(s, pos) # 0
    PROVE  LastChunk(s, pos) \in Results
  <1> DEFINE n == AfterCrlf(s, pos)
             t == AfterTrailers(s, n)
  <1>0. Len(s) \in Nat /\ pos \in Nat /\ n \in (pos + 2)..(Len(s) + 1)
    BY ChunkSpec DEF Bytes
  <1> HIDE DEF n, t
  <1>1. CASE t # Len(s) + 1
    BY <1>1, NothingIsResult DEF LastChunk, n, t
  <1>2. CASE t = Len(s) + 1
    <2>1. Longer(n - pos, t - n) \in Nat
      BY <1>0, <1>2 DEF Longer
    <2>2. LastChunk(s, pos) = [ok |-> TRUE, data |-> <<>>, longest |-> Longer(n - pos, t - n)]
      BY <1>2 DEF LastChunk, n, t
    <2>3. <<>> \in Bytes
      BY DEF Bytes
    <2> QED
      BY <2>1, <2>2, <2>3 DEF Results
  <1> QED
    BY <1>1, <1>2

LEMMA AddChunkIsResult ==
    ASSUME NEW s \in Bytes, NEW pos \in 1..(Len(s) + 1), ~NoChunk(s, pos), Hex(SizeLine(s, pos)) # 0,
           NEW r \in Results
    PROVE  /\ AddChunk(s, pos, r) \in Results
           /\ AddChunk(s, pos, r).ok = r.ok
           /\ AddChunk(s, pos, r).data = SubSeq(s, AfterCrlf(s, pos), ChunkEnd(s, pos) - 1) \o r.data
           /\ AddChunk(s, pos, r).longest = Longer(AfterCrlf(s, pos) - pos, r.longest)
           /\ ChunkEnd(s, pos) + 2 \in (pos + 1)..(Len(s) + 1)
  <1> DEFINE n == AfterCrlf(s, pos)
             e == ChunkEnd(s, pos)
             c == SubSeq(s, n, e - 1)
  <1>0. Len(s) \in Nat /\ pos \in Nat /\ n \in (pos + 2)..(Len(s) + 1) /\ e \in Nat /\ e >= n
        /\ e + 1 <= Len(s)
    <2>1. n # 0 /\ ~(e + 1 > Len(s))
      BY DEF NoChunk
    <2>2. n \in (pos + 2)..(Len(s) + 1) /\ e \in Nat /\ e >= n /\ Len(s) \in Nat
      BY <2>1, ChunkSpec DEF Bytes
    <2> HIDE DEF n, e
    <2> QED
      BY <2>1, <2>2
  <1>1. c \in Bytes
    <2>1. n \in 1..(Len(s) + 1) /\ e - 1 \in (n - 1)..Len(s)
      BY <1>0
    <2> QED
      BY <2>1, SliceIs
  <1>2. r.data \in Bytes /\ r.longest \in Nat /\ r.ok \in BOOLEAN
    BY DEF Results
  <1> HIDE DEF n, e, c
  <1>3. c \o r.data \in Bytes
    BY <1>1, <1>2, ConcatProperties DEF Bytes
  <1>4. Longer(n - pos, r.longest) \in Nat
    BY <1>0, <1>2 DEF Longer
  <1>5. AddChunk(s, pos, r) = [r EXCEPT !.data = c \o @, !.longest = Longer(n - pos, @)]
    BY DEF AddChunk, c, n, e
  <1>6. AddChunk(s, pos, r) = [ok |-> r.ok, data |-> c \o r.data, longest |-> Longer(n - pos, r.longest)]
    BY <1>5 DEF Results
  <1>7. e + 2 \in (pos + 1)..(Len(s) + 1)
    BY <1>0
  <1>8. /\ AddChunk(s, pos, r) \in Results /\ AddChunk(s, pos, r).ok = r.ok
        /\ AddChunk(s, pos, r).data = c \o r.data
        /\ AddChunk(s, pos, r).longest = Longer(n - pos, r.longest)
    BY <1>2, <1>3, <1>4, <1>6 DEF Results
  <1> QED
    BY <1>7, <1>8 DEF c, n, e

LEMMA WholeUnfold ==
    ASSUME NEW s \in Bytes
    PROVE  \A pos \in 1..(Len(s) + 1) :
               WholeFrom(s)[pos] \in Results /\ WholeFrom(s)[pos] = DecodeStep(s, WholeFrom(s), pos)
  <1> DEFINE D == 1..(Len(s) + 1)
             Eq(u) == u = [pos \in D |->
                IF AfterCrlf(s, pos) = 0 \/ ~IsSize(SizeLine(s, pos)) THEN Nothing
                ELSE IF Hex(SizeLine(s, pos)) = 0 THEN LastChunk(s, pos)
                ELSE IF ChunkEnd(s, pos) + 1 > Len(s)
                        \/ SubSeq(s, ChunkEnd(s, pos), ChunkEnd(s, pos) + 1) # CRLF THEN Nothing
                ELSE AddChunk(s, pos, u[ChunkEnd(s, pos) + 2])]
             G == CHOOSE u : Eq(u)
             stop == {pos \in D : NoChunk(s, pos) \/ Hex(SizeLine(s, pos)) = 0}
             base == [pos \in D |-> IF ~NoChunk(s, pos) /\ pos \in stop THEN LastChunk(s, pos) ELSE Nothing]
             h == [x \in D \X Results |-> IF x[1] \in stop THEN x[2] ELSE AddChunk(s, x[1], x[2])]
             next == [pos \in D |-> IF pos \in stop THEN pos ELSE ChunkEnd(s, pos) + 2]
             m == [pos \in D |-> (Len(s) + 1) - pos]
  <1>0. Len(s) \in Nat /\ Len(s) + 1 \in Nat
    BY DEF Bytes
  <1>2. WholeFrom(s) = G
    BY DEF WholeFrom, LastChunk, AddChunk, ChunkEnd, SizeLine
  <1>3. base \in [D -> Results]
    <2>1. \A pos \in D : ~NoChunk(s, pos) => AfterCrlf(s, pos) # 0
      BY DEF NoChunk
    <2>2. \A pos \in D : ~NoChunk(s, pos) => LastChunk(s, pos) \in Results
      BY <2>1, LastChunkIsResult
    <2> HIDE DEF D, stop
    <2> QED
      BY <2>2, NothingIsResult
  <1>a. \A pos \in D : pos \notin stop => ~NoChunk(s, pos) /\ Hex(SizeLine(s, pos)) # 0
    OBVIOUS
  <1>b. \A pos \in D : pos \in stop => NoChunk(s, pos) \/ Hex(SizeLine(s, pos)) = 0
    OBVIOUS
  <1>c. \A pos \in D, r \in Results : pos \notin stop => AddChunk(s, pos, r) \in Results
    BY <1>a, AddChunkIsResult
  <1>d. \A pos \in D : pos \notin stop => ChunkEnd(s, pos) + 2 \in (pos + 1)..(Len(s) + 1)
    <2>1. \A pos \in D : \A r \in Results : pos \notin stop => ChunkEnd(s, pos) + 2 \in (pos + 1)..(Len(s) + 1)
      BY <1>a, AddChunkIsResult
    <2> QED
      BY <2>1, NothingIsResult
  <1>s. stop \in SUBSET D
    OBVIOUS
  <1> HIDE DEF stop
  <1>4. next \in [D -> D] /\ \A pos \in D : next[pos] = IF pos \in stop THEN pos ELSE ChunkEnd(s, pos) + 2
    <2>1. \A pos \in D : pos \notin stop => ChunkEnd(s, pos) + 2 \in D
      BY <1>0, <1>d
    <2> HIDE DEF D
    <2> QED
      BY <2>1
  <1>5. h \in [D \X Results -> Results]
        /\ \A pos \in D, r \in Results : pos \notin stop => h[<<pos, r>>] = AddChunk(s, pos, r)
    <2> HIDE DEF D
    <2> QED
      BY <1>c
  <1>6. m \in [D -> 0..(Len(s) + 1)] /\ \A pos \in D : m[pos] = (Len(s) + 1) - pos
    BY <1>0
  <1>8. ASSUME NEW pos \in D \ stop PROVE m[next[pos]] < m[pos]
    <2>1. next[pos] = ChunkEnd(s, pos) + 2 /\ next[pos] \in (pos + 1)..(Len(s) + 1) /\ next[pos] \in D
      BY <1>4, <1>d
    <2> HIDE DEF m, next
    <2>2. m[next[pos]] = (Len(s) + 1) - next[pos] /\ m[pos] = (Len(s) + 1) - pos
      BY <1>6, <2>1
    <2> QED
      BY <1>0, <2>1, <2>2
  <1>9. PICK u \in [D -> Results] : Descends(u, D, stop, base, h, next)
    <2> HIDE DEF D, base, h, next, m
    <2> QED
      BY <1>0, <1>3, <1>4, <1>5, <1>6, <1>8, <1>s, DescentExists
  <1>10. \A pos \in D : u[pos] = DecodeStep(s, u, pos)
    <2> TAKE pos \in D
    <2>1. u[pos] = IF pos \in stop THEN base[pos] ELSE h[<<pos, u[next[pos]]>>]
      BY <1>9 DEF Descends
    <2>2. CASE pos \in stop
      <3>1. base[pos] = IF ~NoChunk(s, pos) THEN LastChunk(s, pos) ELSE Nothing
        BY <2>2
      <3> HIDE DEF base
      <3> QED
        BY <1>b, <2>1, <2>2, <3>1 DEF DecodeStep
    <2>3. CASE pos \notin stop
      <3>1. next[pos] = ChunkEnd(s, pos) + 2 /\ next[pos] \in D
        BY <1>4, <2>3
      <3>2. u[next[pos]] \in Results
        BY <1>9, <3>1
      <3> HIDE DEF next, h, D
      <3>3. u[pos] = AddChunk(s, pos, u[ChunkEnd(s, pos) + 2])
        BY <1>5, <2>1, <2>3, <3>1, <3>2
      <3> QED
        BY <1>a, <2>3, <3>3 DEF DecodeStep
    <2> QED
      BY <2>2, <2>3
  <1>11. Eq(u)
    <2>1. \A pos \in D : u[pos] =
                IF AfterCrlf(s, pos) = 0 \/ ~IsSize(SizeLine(s, pos)) THEN Nothing
                ELSE IF Hex(SizeLine(s, pos)) = 0 THEN LastChunk(s, pos)
                ELSE IF ChunkEnd(s, pos) + 1 > Len(s)
                        \/ SubSeq(s, ChunkEnd(s, pos), ChunkEnd(s, pos) + 1) # CRLF THEN Nothing
                ELSE AddChunk(s, pos, u[ChunkEnd(s, pos) + 2])
      BY <1>10 DEF DecodeStep, NoChunk
    <2> QED
      BY <1>9, <2>1
  <1>12. Eq(G)
    BY <1>11
  <1> HIDE DEF G
  <1>13. \A pos \in D : G[pos] = DecodeStep(s, G, pos)
    BY <1>12 DEF DecodeStep, NoChunk
  <1> DEFINE T == {pos \in D : G[pos] \in Results}
  <1>14. ASSUME NEW pos \in D, \A j \in (pos + 1)..(Len(s) + 1) : j \in T PROVE pos \in T
    <2>1. CASE NoChunk(s, pos)
      BY <1>13, <2>1, NothingIsResult DEF DecodeStep
    <2>2. CASE ~NoChunk(s, pos) /\ Hex(SizeLine(s, pos)) = 0
      <3>1. AfterCrlf(s, pos) # 0
        BY <2>2 DEF NoChunk
      <3> QED
        BY <1>13, <2>2, <3>1, LastChunkIsResult DEF DecodeStep
    <2>3. CASE ~NoChunk(s, pos) /\ Hex(SizeLine(s, pos)) # 0
      <3>1. ChunkEnd(s, pos) + 2 \in (pos + 1)..(Len(s) + 1)
        BY <1>d, <2>3 DEF stop
      <3>2. G[ChunkEnd(s, pos) + 2] \in Results
        BY <1>14, <3>1
      <3>3. AddChunk(s, pos, G[ChunkEnd(s, pos) + 2]) \in Results
        BY <2>3, <3>2, AddChunkIsResult
      <3> QED
        BY <1>13, <2>3, <3>3 DEF DecodeStep
    <2> QED
      BY <2>1, <2>2, <2>3
  <1>15. \A pos \in D : pos \in T
    <2> HIDE DEF T
    <2> QED
      BY <1>0, <1>14, DownFrom
  <1> QED
    BY <1>2, <1>13, <1>15

-----------------------------------------------------------------------------
(* Trailer sections                                                        *)

\* A line of the section that starts at p starts at i.
LineStart(s, p, i) == i = p \/ (i - 2 >= p /\ CrlfAt(s, i - 2))

\* A section that parse_trailers accepts ends where feed_trailers looks for the end.
LEMMA TrailersEnd ==
    ASSUME NEW s \in Bytes, NEW p \in 1..(Len(s) + 1), NEW f, f = TrailersFrom(s, p)
    PROVE  \A i \in p..(Len(s) + 1) : LineStart(s, p, i) /\ f[i] # 0 =>
               f[i] \in (p + 2)..(Len(s) + 1) /\ SectionEnds(SubSeq(s, p, f[i] - 1))
  <1> DEFINE Ok(i) == LineStart(s, p, i) /\ f[i] # 0 =>
                          f[i] \in (p + 2)..(Len(s) + 1) /\ SectionEnds(SubSeq(s, p, f[i] - 1))
             T == {i \in p..(Len(s) + 1) : Ok(i)}
  <1>0. Len(s) \in Nat /\ Len(s) + 1 \in Nat /\ p \in Nat
    BY DEF Bytes
  <1>1. ASSUME NEW i \in p..(Len(s) + 1), \A j \in (i + 1)..(Len(s) + 1) : j \in T PROVE i \in T
    <2> SUFFICES ASSUME LineStart(s, p, i), f[i] # 0
                 PROVE  f[i] \in (p + 2)..(Len(s) + 1) /\ SectionEnds(SubSeq(s, p, f[i] - 1))
      OBVIOUS
    <2> DEFINE n == AfterCrlf(s, i)
    <2>1. i \in 1..(Len(s) + 1) /\ i \in Nat /\ i >= p
      BY <1>0
    <2>2. f[i] = TrailerStep(s, p, f, i)
      BY <2>1, TrailersUnfold
    <2>3. n # 0
      BY <2>2 DEF TrailerStep
    <2>4. n \in (i + 2)..(Len(s) + 1) /\ CrlfAt(s, n - 2)
      BY <2>1, <2>3, AfterCrlfSpec
    <2>5. CASE n = i + 2
      <3>1. f[i] = i + 2
        BY <2>2, <2>3, <2>5 DEF TrailerStep
      <3> HIDE DEF n
      <3>2. /\ i + 1 \in (p - 1)..Len(s) /\ f[i] - 1 = i + 1 /\ i + 2 - 2 = i /\ (i + 1) - 1 = i
            /\ (i + 1) - 3 = i - 2 /\ f[i] \in (p + 2)..(Len(s) + 1)
        BY <1>0, <2>1, <2>4, <2>5, <3>1
      <3>3. CrlfAt(s, i)
        BY <2>4, <2>5, <3>2
      <3>4. SectionEnds(SubSeq(s, p, i + 1)) <=>
               \/ i + 1 = p + 1 /\ CrlfAt(s, p)
               \/ i + 1 > p + 2 /\ CrlfAt(s, (i + 1) - 3) /\ CrlfAt(s, (i + 1) - 1)
        BY <3>2, SectionEndsIs
      <3>5. CASE i = p
        BY <3>2, <3>3, <3>4, <3>5
      <3>6. CASE i - 2 >= p /\ CrlfAt(s, i - 2)
        <4>1. i + 1 > p + 2
          BY <1>0, <2>1, <3>6
        <4> QED
          BY <3>2, <3>3, <3>4, <3>6, <4>1
      <3> QED
        BY <3>5, <3>6 DEF LineStart
    <2>6. CASE n # i + 2
      <3>1. f[i] = f[n]
        BY <2>2, <2>3, <2>6 DEF TrailerStep
      <3> HIDE DEF n
      <3>2. n \in (i + 1)..(Len(s) + 1) /\ n - 2 >= p
        BY <1>0, <2>1, <2>4
      <3>3. LineStart(s, p, n)
        BY <2>4, <3>2 DEF LineStart
      <3>4. n \in T
        BY <1>1, <3>2
      <3> QED
        BY <3>1, <3>3, <3>4
    <2> QED
      BY <2>5, <2>6
  <1>2. \A i \in p..(Len(s) + 1) : i \in T
    <2> HIDE DEF T
    <2> QED
      BY <1>0, <1>1, DownFrom
  <1> QED
    BY <1>2

\* parse_trailers of the section cut out, and of the body it is cut from.
LEMMA TrailersShift ==
    ASSUME NEW s \in Bytes, NEW p \in 1..(Len(s) + 1), NEW k \in p..Len(s),
           SectionEnds(SubSeq(s, p, k)), \A j \in p..(k - 1) : ~SectionEnds(SubSeq(s, p, j))
    PROVE  \/ AfterTrailers(SubSeq(s, p, k), 1) = 0 /\ AfterTrailers(s, p) = 0
           \/ AfterTrailers(SubSeq(s, p, k), 1) # 0 /\ AfterTrailers(s, p) = k + 1
  <1> DEFINE u == SubSeq(s, p, k)
             L == k - p + 1
             f == TrailersFrom(s, p)
             g == TrailersFrom(u, 1)
             Same(i) == \/ g[i] = 0 /\ f[p + i - 1] = 0
                        \/ g[i] # 0 /\ f[p + i - 1] = k + 1
             T == {i \in 1..(L - 1) : LineStart(u, 1, i) => Same(i)}
  <1>0. Len(s) \in Nat /\ p \in Nat /\ k \in Nat /\ L \in Nat /\ p <= k /\ k <= Len(s)
    BY DEF Bytes
  <1>1. u \in Bytes /\ Len(u) = L /\ \A x \in 1..L : u[x] = s[p + x - 1]
    BY <1>0, SliceIs
  <1>2. \A b \in (p - 1)..Len(s) : SectionEnds(SubSeq(s, p, b)) <=>
               \/ b = p + 1 /\ CrlfAt(s, p)
               \/ b > p + 2 /\ CrlfAt(s, b - 3) /\ CrlfAt(s, b - 1)
    BY SectionEndsIs
  <1>3. /\ (k = p + 1 /\ CrlfAt(s, p)) \/ (k > p + 2 /\ CrlfAt(s, k - 3) /\ CrlfAt(s, k - 1))
        /\ L >= 2 /\ CrlfAt(s, k - 1)
    <2>1. k \in (p - 1)..Len(s)
      BY <1>0
    <2>2. (k = p + 1 /\ CrlfAt(s, p)) \/ (k > p + 2 /\ CrlfAt(s, k - 3) /\ CrlfAt(s, k - 1))
      BY <1>2, <2>1
    <2>3. k = p + 1 => k - 1 = p
      BY <1>0
    <2> QED
      BY <1>0, <2>2, <2>3
  <1>4. \A i \in 1..(L - 1) : CrlfAt(u, i) <=> CrlfAt(s, p + i - 1)
    <2> TAKE i \in 1..(L - 1)
    <2>1. i \in 1..L /\ i + 1 \in 1..L /\ p + (i + 1) - 1 = (p + i - 1) + 1
      BY <1>0
    <2>2. u[i] = s[p + i - 1] /\ u[i + 1] = s[(p + i - 1) + 1]
      BY <1>1, <2>1
    <2> HIDE DEF u, L
    <2> QED
      BY <2>2 DEF CrlfAt
  <1>5. \A i : CrlfAt(s, i) => ~CrlfAt(s, i + 1)
    BY DEF CrlfAt, CR, LF
  <1> HIDE DEF u, L, f, g
  <1>6. ASSUME NEW i \in 1..(L - 1), \A j \in (i + 1)..(L - 1) : j \in T PROVE i \in T
    <2> SUFFICES ASSUME LineStart(u, 1, i) PROVE Same(i)
      OBVIOUS
    <2> DEFINE a == p + i - 1
               n == AfterCrlf(u, i)
               v == AfterCrlf(s, a)
    <2>0. i \in Nat /\ a \in Nat /\ a >= p /\ a < k /\ i \in 1..(Len(u) + 1) /\ a \in 1..(Len(s) + 1)
          /\ 1 \in 1..(Len(u) + 1) /\ L = k - p + 1
      BY <1>0, <1>1 DEF L
    <2>1. LineStart(s, p, a)
      <3>1. CASE i = 1
        BY <1>0, <3>1 DEF LineStart
      <3>2. CASE i - 2 >= 1 /\ CrlfAt(u, i - 2)
        <4>1. i - 2 \in 1..(L - 1) /\ p + (i - 2) - 1 = a - 2 /\ a - 2 >= p
          BY <1>0, <3>2
        <4> QED
          BY <1>4, <3>2, <4>1 DEF LineStart
      <3> QED
        BY <3>1, <3>2 DEF LineStart
    \* The line ends inside the section, at the same place.
    <2>2. CrlfAt(u, L - 1) /\ L - 1 \in i..(Len(u) - 1)
      <3>1. p + (L - 1) - 1 = k - 1 /\ L - 1 \in 1..(L - 1) /\ L - 1 \in i..(Len(u) - 1)
        BY <1>0, <1>1, <1>3, <2>0
      <3> QED
        BY <1>3, <1>4, <3>1
    <2>3. n \in (i + 2)..(L + 1) /\ CrlfAt(u, n - 2) /\ \A j \in i..(n - 3) : ~CrlfAt(u, j)
      BY <1>1, <2>0, <2>2, AfterCrlfSpec
    <2>4. v = p + n - 1
      <3>1. /\ v = 0 /\ \A j \in a..(Len(s) - 1) : ~CrlfAt(s, j)
            \/ /\ v \in (a + 2)..(Len(s) + 1) /\ CrlfAt(s, v - 2)
               /\ \A j \in a..(v - 3) : ~CrlfAt(s, j)
        BY <2>0, AfterCrlfSpec
      <3> HIDE DEF n, v
      <3>2. n - 2 \in 1..(L - 1) /\ p + (n - 2) - 1 \in a..(Len(s) - 1) /\ p + (n - 2) - 1 = p + n - 3
            /\ n \in Nat
        BY <1>0, <2>0, <2>3
      <3>3. CrlfAt(s, p + n - 3)
        BY <1>4, <2>3, <3>2
      <3>4. v \in (a + 2)..(Len(s) + 1) /\ CrlfAt(s, v - 2) /\ \A j \in a..(v - 3) : ~CrlfAt(s, j)
        BY <3>1, <3>2, <3>3
      <3>5. ~(p + n - 3 < v - 2)
        BY <1>0, <2>0, <3>2, <3>3, <3>4
      <3>6. ~(v - 2 < p + n - 3)
        <4> SUFFICES ASSUME v - 2 < p + n - 3 PROVE FALSE
          OBVIOUS
        <4>1. (v - 2) - p + 1 \in i..(n - 3) /\ (v - 2) - p + 1 \in 1..(L - 1)
              /\ p + ((v - 2) - p + 1) - 1 = v - 2
          BY <1>0, <2>0, <2>3, <3>2, <3>4
        <4>2. CrlfAt(u, (v - 2) - p + 1)
          BY <1>4, <3>4, <4>1
        <4> QED
          BY <2>3, <4>1, <4>2
      <3> QED
        BY <1>0, <2>0, <3>2, <3>4, <3>5, <3>6
    <2>5. g[i] = TrailerStep(u, 1, g, i) /\ f[a] = TrailerStep(s, p, f, a)
      BY <1>1, <2>0, TrailersUnfold DEF f, g
    <2>6. n # 0 /\ v # 0 /\ (n = i + 2 <=> v = a + 2) /\ v - p = n - 1
      <3> HIDE DEF n, v
      <3> QED
        BY <1>0, <2>0, <2>3, <2>4
    <2>7. CASE n = i + 2
      <3>1. g[i] = i + 2 /\ f[a] = a + 2
        BY <2>5, <2>6, <2>7 DEF TrailerStep
      \* An empty line is the end of the section, and the section ends there first.
      <3> HIDE DEF n, v
      <3>2. CrlfAt(s, a)
        <4>1. n - 2 = i
          BY <2>0, <2>7
        <4> QED
          BY <1>4, <2>3, <4>1
      <3>3. SectionEnds(SubSeq(s, p, a + 1))
        <4>1. a + 1 \in (p - 1)..Len(s) /\ (a + 1) - 1 = a /\ (a + 1) - 3 = a - 2
          BY <1>0, <2>0
        <4>2. CASE a = p
          BY <1>2, <3>2, <4>1, <4>2
        <4>3. CASE a - 2 >= p /\ CrlfAt(s, a - 2)
          <5>1. a + 1 > p + 2
            BY <1>0, <2>0, <4>3
          <5> QED
            BY <1>2, <3>2, <4>1, <4>3, <5>1
        <4> QED
          BY <2>1, <4>2, <4>3 DEF LineStart
      <3>4. a + 1 = k
        <4>1. a + 1 \notin p..(k - 1)
          BY <3>3
        <4> QED
          BY <1>0, <2>0, <4>1
      <3> QED
        BY <1>0, <2>0, <3>1, <3>4
    <2>8. CASE n # i + 2
      <3> DEFINE long == n - 1 > MaxSection
                 bare == NoColon(u, i, n - 3)
      <3>1. NoColon(s, a, v - 3) <=> bare
        <4>0. v - 3 = p + (n - 3) - 1
          <5> HIDE DEF n, v
          <5> QED
            BY <1>0, <2>0, <2>3, <2>4
        <4> HIDE DEF n, v
        <4>1. ASSUME NEW x \in i..(n - 3) PROVE p + x - 1 \in a..(v - 3) /\ u[x] = s[p + x - 1]
          <5>1. x \in 1..L
            BY <1>0, <2>0, <2>3
          <5> QED
            BY <1>0, <1>1, <2>0, <2>3, <4>0, <5>1
        <4>2. ASSUME NEW y \in a..(v - 3) PROVE y - p + 1 \in i..(n - 3) /\ u[y - p + 1] = s[y]
          <5>1. y - p + 1 \in i..(n - 3) /\ y - p + 1 \in 1..L /\ p + (y - p + 1) - 1 = y
            BY <1>0, <2>0, <2>3, <4>0
          <5> QED
            BY <1>1, <5>1
        <4> QED
          BY <4>1, <4>2 DEF NoColon
      <3>2. /\ g[i] = IF n - 1 > MaxSection \/ bare THEN 0 ELSE g[n]
            /\ f[a] = IF v - p > MaxSection \/ NoColon(s, a, v - 3) THEN 0 ELSE f[v]
        BY <2>5, <2>6, <2>8 DEF TrailerStep
      <3>3. CASE long \/ bare
        BY <2>6, <3>1, <3>2, <3>3
      <3>4. CASE ~(long \/ bare)
        <4>1. g[i] = g[n] /\ f[a] = f[v]
          BY <2>6, <3>1, <3>2, <3>4
        <4> HIDE DEF n, v
        \* The CRLF before the closing one ends an earlier line.
        <4>2. n # L + 1
          <5> SUFFICES ASSUME n = L + 1 PROVE FALSE
            OBVIOUS
          <5>1. i < L - 1
            BY <1>0, <2>0, <2>3, <2>8
          <5>2. k > p + 2 /\ CrlfAt(s, k - 3)
            <6>1. k # p + 1
              BY <1>0, <2>0, <5>1
            <6> QED
              BY <1>3, <6>1
          <5>3. L - 3 \in 1..(L - 1) /\ p + (L - 3) - 1 = k - 3
            BY <1>0, <2>0, <5>2
          <5>4. CrlfAt(u, L - 3)
            BY <1>4, <5>2, <5>3
          <5>5. ~(L - 3 \in i..(n - 3))
            BY <2>3, <5>4
          <5>6. i = L - 2
            BY <1>0, <2>0, <2>3, <5>1, <5>3, <5>5
          <5>7. i - 2 >= 1 /\ CrlfAt(u, i - 2)
            <6>1. i # 1
              BY <1>0, <2>0, <5>2, <5>6
            <6> QED
              BY <6>1 DEF LineStart
          <5>8. i - 2 \in 1..(L - 1) /\ p + (i - 2) - 1 = k - 4 /\ (k - 4) + 1 = k - 3
            BY <1>0, <2>0, <5>6, <5>7
          <5>9. CrlfAt(s, k - 4)
            BY <1>4, <5>7, <5>8
          <5> QED
            BY <1>5, <5>2, <5>8, <5>9
        <4>3. n # L
          <5> SUFFICES ASSUME n = L PROVE FALSE
            OBVIOUS
          <5>1. CrlfAt(u, L - 2) /\ L - 2 \in 1..(L - 1) /\ p + (L - 2) - 1 = k - 2 /\ (k - 2) + 1 = k - 1
            BY <1>0, <2>0, <2>3
          <5>2. CrlfAt(s, k - 2)
            BY <1>4, <5>1
          <5> QED
            BY <1>3, <1>5, <5>1, <5>2
        <4>4. n \in (i + 1)..(L - 1) /\ n - 2 >= 1
          BY <1>0, <2>0, <2>3, <4>2, <4>3
        <4>5. LineStart(u, 1, n)
          BY <2>3, <4>4 DEF LineStart
        <4>6. Same(n)
          BY <1>6, <4>4, <4>5
        <4> QED
          BY <2>4, <4>1, <4>6
      <3> QED
        BY <3>3, <3>4
    <2> QED
      BY <2>7, <2>8
  <1>7. 1 \in T
    <2>1. L - 1 \in Nat /\ 1 \in 1..(L - 1)
      BY <1>0, <1>3
    <2> HIDE DEF T
    <2>2. \A i \in 1..(L - 1) : i \in T
      BY <1>6, <2>1, DownFrom
    <2> QED
      BY <2>1, <2>2
  <1>8. Same(1)
    BY <1>7 DEF LineStart
  <1>9. p + 1 - 1 = p
    BY <1>0
  <1> QED
    BY <1>8, <1>9 DEF AfterTrailers, f, g, u

-----------------------------------------------------------------------------
(* What the decoder knows of a body after its first bytes                  *)

States == {"header", "data", "cr", "lf", "trailers", "done", "failed"}
Decoders == [st : States, left : Nat, line : Bytes, out : Bytes]

\* The body s decodes to out and then to r.
Continues(s, out, r) ==
    /\ Whole(s).ok = r.ok
    /\ r.ok => Whole(s).data = out \o r.data /\ Whole(s).longest >= r.longest

\* What is left to decode: from the last n bytes of a chunk, at pos, from the
\* start of the trailers, and after their end.
RestOfData(s, pos, n) ==
    IF pos + n + 1 > Len(s) \/ SubSeq(s, pos + n, pos + n + 1) # CRLF THEN Nothing
    ELSE [ok |-> WholeFrom(s)[pos + n + 2].ok,
          data |-> SubSeq(s, pos, pos + n - 1) \o WholeFrom(s)[pos + n + 2].data,
          longest |-> WholeFrom(s)[pos + n + 2].longest]
RestOfTrailers(s, p) ==
    IF AfterTrailers(s, p) # Len(s) + 1 THEN Nothing
    ELSE [ok |-> TRUE, data |-> <<>>, longest |-> Len(s) + 1 - p]
RestAfterEnd(s, a) == [ok |-> a = Len(s), data |-> <<>>, longest |-> 0]

\* In each state, after the first a bytes of s.
GoodHeader(s, d, a) ==
    \E p \in 1..(a + 1) :
        /\ d.line = SubSeq(s, p, a) /\ a - p + 1 <= MaxSection
        /\ \A i \in p..(a - 1) : ~CrlfAt(s, i)
        /\ Continues(s, d.out, WholeFrom(s)[p])
GoodData(s, d, a) == d.line = <<>> /\ d.left # 0 /\ Continues(s, d.out, RestOfData(s, a + 1, d.left))
GoodCr(s, d, a) == d.line = <<>> /\ Continues(s, d.out, RestOfData(s, a + 1, 0))
GoodLf(s, d, a) == d.line = <<>> /\ a >= 1 /\ s[a] = CR /\ Continues(s, d.out, RestOfData(s, a, 0))
GoodTrailers(s, d, a) ==
    \E p \in 1..(a + 1) :
        /\ d.line = SubSeq(s, p, a) /\ a - p + 1 <= MaxSection
        /\ \A k \in p..a : ~SectionEnds(SubSeq(s, p, k))
        /\ Continues(s, d.out, RestOfTrailers(s, p))
GoodEnd(s, d, a) == Continues(s, d.out, RestAfterEnd(s, a))
Refused(s) == ~Whole(s).ok \/ Whole(s).longest > MaxSection + 1

Good(s, d, a) ==
    /\ d \in Decoders
    /\ d.st = "header" => GoodHeader(s, d, a)
    /\ d.st = "data" => GoodData(s, d, a)
    /\ d.st = "cr" => GoodCr(s, d, a)
    /\ d.st = "lf" => GoodLf(s, d, a)
    /\ d.st = "trailers" => GoodTrailers(s, d, a)
    /\ d.st = "done" => GoodEnd(s, d, a)
    /\ d.st = "failed" => Refused(s)

LEMMA EmptySlice ==
    ASSUME NEW s \in Bytes, NEW a \in 0..Len(s) PROVE SubSeq(s, a + 1, a) = <<>>
  <1>1. Len(s) \in Nat /\ a + 1 \in 1..(Len(s) + 1) /\ a \in ((a + 1) - 1)..Len(s) /\ a - (a + 1) + 1 = 0
    BY DEF Bytes
  <1>2. SubSeq(s, a + 1, a) \in Bytes /\ Len(SubSeq(s, a + 1, a)) = a - (a + 1) + 1
    BY <1>1, SliceIs
  <1> DEFINE v == SubSeq(s, a + 1, a)
  <1> HIDE DEF v
  <1>3. v \in Seq(Octets) /\ Len(v) = 0
    BY <1>1, <1>2 DEF Bytes, v
  <1>4. v = <<>>
    BY <1>3, EmptySeq
  <1> QED
    BY <1>4 DEF v

\* A body that decodes from p has a size line there, no longer than the longest.
LEMMA LongestLine ==
    ASSUME NEW s \in Bytes, NEW p \in 1..(Len(s) + 1), WholeFrom(s)[p].ok
    PROVE  AfterCrlf(s, p) # 0 /\ ~NoChunk(s, p) /\ WholeFrom(s)[p].longest >= AfterCrlf(s, p) - p
  <1> DEFINE w == WholeFrom(s)
             n == AfterCrlf(s, p)
  <1>0. Len(s) \in Nat /\ p \in Nat
    BY DEF Bytes
  <1>1. w[p] = DecodeStep(s, w, p) /\ \A q \in 1..(Len(s) + 1) : w[q] \in Results
    BY WholeUnfold
  <1> HIDE DEF w
  <1>2. w[p].ok
    BY DEF w
  <1>3. ~Nothing.ok
    BY DEF Nothing
  <1>4. ~NoChunk(s, p) /\ n # 0
    BY <1>1, <1>2, <1>3 DEF DecodeStep, NoChunk
  <1>5. n \in (p + 2)..(Len(s) + 1)
    BY <1>4, ChunkSpec
  <1>6. CASE Hex(SizeLine(s, p)) = 0
    <2>1. w[p] = LastChunk(s, p)
      BY <1>1, <1>4, <1>6 DEF DecodeStep
    <2>2. AfterTrailers(s, n) = Len(s) + 1
      BY <1>2, <1>3, <2>1 DEF LastChunk
    <2>3. w[p].longest = Longer(n - p, (Len(s) + 1) - n)
      BY <2>1, <2>2 DEF LastChunk
    <2> HIDE DEF n
    <2>4. w[p].longest >= n - p
      BY <1>0, <1>5, <2>3 DEF Longer
    <2> QED
      BY <1>4, <2>4 DEF w, n
  <1>7. CASE Hex(SizeLine(s, p)) # 0
    <2>1. w[p] = AddChunk(s, p, w[ChunkEnd(s, p) + 2])
      BY <1>1, <1>4, <1>7 DEF DecodeStep
    <2>2. ChunkEnd(s, p) + 2 \in 1..(Len(s) + 1)
      <3>1. ChunkEnd(s, p) + 2 \in (p + 1)..(Len(s) + 1)
        BY <1>4, <1>7, NothingIsResult, AddChunkIsResult
      <3> QED
        BY <1>0, <3>1
    <2>3. w[ChunkEnd(s, p) + 2] \in Results
      BY <1>1, <2>2
    <2>4. w[p].longest = Longer(n - p, w[ChunkEnd(s, p) + 2].longest)
      BY <1>4, <1>7, <2>1, <2>3, AddChunkIsResult
    <2>5. w[ChunkEnd(s, p) + 2].longest \in Nat
      BY <2>3 DEF Results
    <2> HIDE DEF n
    <2>6. w[p].longest >= n - p
      BY <1>0, <1>5, <2>4, <2>5 DEF Longer
    <2> QED
      BY <1>4, <2>6 DEF w, n
  <1> QED
    BY <1>6, <1>7

\* The bytes pos .. e - 1 of s, then those of v.
ChunkThen(s, pos, e, v) == SubSeq(s, pos, e - 1) \o v

\* The rest of a chunk, its fields.
RestIs(s, pos, e, r, w) ==
    /\ r.ok \in BOOLEAN
    /\ r.ok => /\ e + 1 <= Len(s) /\ CrlfAt(s, e) /\ w \in Results /\ w.ok
               /\ r.data = ChunkThen(s, pos, e, w.data) /\ r.longest = w.longest
    /\ e + 1 <= Len(s) /\ CrlfAt(s, e) => r.ok = w.ok /\ w \in Results

LEMMA RestOfDataIs ==
    ASSUME NEW s \in Bytes, NEW pos \in 1..(Len(s) + 1), NEW n \in Nat
    PROVE  RestIs(s, pos, pos + n, RestOfData(s, pos, n), WholeFrom(s)[pos + n + 2])
  <1> DEFINE r == RestOfData(s, pos, n)
             e == pos + n
             w == WholeFrom(s)[e + 2]
             v == SubSeq(s, pos, e - 1)
  <1> SUFFICES RestIs(s, pos, e, r, w)
    OBVIOUS
  <1>0. Len(s) \in Nat /\ pos \in Nat /\ e \in Nat /\ e >= 1
    BY DEF Bytes
  <1>1. ~Nothing.ok /\ Nothing.ok \in BOOLEAN
    BY DEF Nothing
  <1>4. r = IF e + 1 > Len(s) \/ SubSeq(s, e, e + 1) # CRLF THEN Nothing
            ELSE [ok |-> w.ok, data |-> v \o w.data, longest |-> w.longest]
    BY DEF RestOfData
  <1>5. e + 1 > Len(s) \/ e + 1 <= Len(s)
    BY <1>0
  <1>2. CASE e + 1 > Len(s)
    <2>1. r = Nothing
      BY <1>2 DEF RestOfData
    <2>2. ~(e + 1 <= Len(s))
      BY <1>0, <1>2
    <2> QED
      BY <1>1, <2>1, <2>2 DEF RestIs
  <1>3. CASE e + 1 <= Len(s)
    <2>1. e \in 1..(Len(s) - 1) /\ e + 2 \in 1..(Len(s) + 1) /\ ~(e + 1 > Len(s))
      BY <1>0, <1>3
    <2>2. SubSeq(s, e, e + 1) = CRLF <=> CrlfAt(s, e)
      BY <2>1, SliceIsCrlf
    <2>3. w \in Results
      BY <2>1, WholeUnfold
    <2>4. CASE ~CrlfAt(s, e)
      <3>1. r = Nothing
        BY <2>2, <2>4 DEF RestOfData
      <3> QED
        BY <1>1, <2>4, <3>1 DEF RestIs
    <2>5. CASE CrlfAt(s, e)
      <3> HIDE DEF w, r, e, v
      <3>1. r = [ok |-> w.ok, data |-> v \o w.data, longest |-> w.longest]
        BY <1>4, <2>1, <2>2, <2>5
      <3>2. r.ok = w.ok /\ r.ok \in BOOLEAN /\ r.data = v \o w.data /\ r.longest = w.longest
        BY <2>3, <3>1 DEF Results
      <3> QED
        BY <1>3, <2>3, <2>5, <3>2 DEF v, RestIs, ChunkThen
    <2> QED
      BY <2>4, <2>5
  <1> QED
    BY <1>2, <1>3, <1>5

\* The slice of the body that feed_line or feed_trailers has after taking the
\* bytes c..k of a frame.
LEMMA FedIs ==
    ASSUME NEW s \in Bytes, NEW b \in 0..Len(s), NEW e \in (b + 1)..Len(s),
           NEW c \in 1..(e - b), NEW p \in 1..(b + c), NEW k \in (c - 1)..(e - b)
    PROVE  Fed(SubSeq(s, p, b + c - 1), SubSeq(s, b + 1, e), c, k) = SubSeq(s, p, b + k)
  <1>0. Len(s) \in Nat /\ b \in Nat /\ e \in Nat /\ c \in Nat /\ p \in Nat /\ k \in Nat
    BY DEF Bytes
  <1>1. /\ b + 1 \in 1..(Len(s) + 1) /\ e \in ((b + 1) - 1)..Len(s)
        /\ c \in 1..(e - (b + 1) + 2) /\ k \in (c - 1)..(e - (b + 1) + 1)
        /\ (b + 1) + c - 1 = (b + c - 1) + 1 /\ (b + 1) + k - 1 = b + k
    BY <1>0
  <1>2. SubSeq(SubSeq(s, b + 1, e), c, k) = SubSeq(s, (b + 1) + c - 1, (b + 1) + k - 1)
    BY <1>1, SliceOfSlice
  <1>3. /\ p \in 1..(Len(s) + 1) /\ b + c - 1 \in (p - 1)..Len(s) /\ b + k \in (b + c - 1)..Len(s)
    BY <1>0
  <1>4. SubSeq(s, p, b + c - 1) \o SubSeq(s, (b + c - 1) + 1, b + k) = SubSeq(s, p, b + k)
    BY <1>3, SliceJoin
  <1> QED
    BY <1>1, <1>2, <1>4 DEF Fed

LEMMA FirstStop ==
    ASSUME NEW c \in Nat, NEW L \in Nat, NEW S \in SUBSET (c..L), S # {}
    PROVE  Earliest(S) \in S /\ Earliest(S) \in c..L /\ \A j \in c..(Earliest(S) - 1) : j \notin S
  <1>1. S \in SUBSET Nat
    OBVIOUS
  <1>2. Earliest(S) \in S /\ \A j \in S : Earliest(S) <= j
    BY <1>1, SmallestIn
  <1> DEFINE k == Earliest(S)
  <1> HIDE DEF k
  <1>3. k \in S /\ \A j \in S : k <= j
    BY <1>2 DEF k
  <1>4. \A j \in c..(k - 1) : ~(k <= j)
    BY <1>3
  <1> QED
    BY <1>3, <1>4 DEF k

\* Where feed_line stops in a frame, as positions of the body.
LEMMA LineStop ==
    ASSUME NEW s \in Bytes, NEW b \in 0..Len(s), NEW e \in (b + 1)..Len(s),
           NEW c \in 1..(e - b), NEW p \in 1..(b + c), NEW k,
           k = Stop(LineEnds, SubSeq(s, p, b + c - 1), SubSeq(s, b + 1, e), c)
    PROVE  \/ /\ k = 0
              /\ \A y \in (b + c)..e : ~LineEnds(SubSeq(s, p, y)) /\ y - p + 1 <= MaxSection
           \/ /\ k \in c..(e - b)
              /\ LineEnds(SubSeq(s, p, b + k)) \/ b + k - p + 1 > MaxSection
              /\ \A y \in (b + c)..(b + k - 1) : ~LineEnds(SubSeq(s, p, y)) /\ y - p + 1 <= MaxSection
  <1> DEFINE line == SubSeq(s, p, b + c - 1)
             input == SubSeq(s, b + 1, e)
             Halts(j) == LineEnds(Fed(line, input, c, j)) \/ Len(Fed(line, input, c, j)) > MaxSection
             S == {j \in c..Len(input) : Halts(j)}
  <1>0. Len(s) \in Nat /\ b \in Nat /\ e \in Nat /\ c \in Nat \ {0} /\ p \in Nat /\ e - b \in Nat
        /\ MaxSection \in Nat
    BY DecoderAssumption DEF Bytes
  <1>1. Len(input) = e - b
    <2>1. b + 1 \in 1..(Len(s) + 1) /\ e \in ((b + 1) - 1)..Len(s) /\ e - (b + 1) + 1 = e - b
      BY <1>0
    <2> QED
      BY <2>1, SliceIs
  <1>2. k = IF S = {} THEN 0 ELSE Earliest(S)
    BY DEF Stop
  <1>3. ASSUME NEW j \in c..(e - b)
        PROVE  /\ j \in S <=> LineEnds(SubSeq(s, p, b + j)) \/ b + j - p + 1 > MaxSection
               /\ b + j - p + 1 \in Nat
    <2>1. j \in (c - 1)..(e - b) /\ p \in 1..(Len(s) + 1) /\ b + j \in (p - 1)..Len(s)
      BY <1>0
    <2>2. Fed(line, input, c, j) = SubSeq(s, p, b + j)
      BY <2>1, FedIs
    <2>3. Len(SubSeq(s, p, b + j)) = b + j - p + 1 /\ b + j - p + 1 \in Nat
      BY <2>1, SliceIs
    <2> HIDE DEF line, input
    <2> QED
      BY <1>1, <2>2, <2>3
  <1>4. S \in SUBSET (c..(e - b))
    <2> HIDE DEF Halts, input
    <2> QED
      BY <1>1
  <1> HIDE DEF S
  <1>5. \/ k = 0 /\ \A j \in c..(e - b) : j \notin S
        \/ k \in c..(e - b) /\ k \in S /\ \A j \in c..(k - 1) : j \notin S
    <2>1. CASE S = {}
      BY <1>2, <2>1
    <2>2. CASE S # {}
      <3>1. k = Earliest(S)
        BY <1>2, <2>2
      <3>2. c \in Nat /\ e - b \in Nat
        BY <1>0
      <3> DEFINE L == e - b
      <3> HIDE DEF L
      <3>3. c \in Nat /\ L \in Nat /\ S \in SUBSET (c..L)
        BY <1>4, <3>2 DEF L
      <3>4. k \in S /\ k \in c..L /\ \A j \in c..(k - 1) : j \notin S
        BY <2>2, <3>1, <3>3, FirstStop
      <3> QED
        BY <3>4 DEF L
    <2> QED
      BY <2>1, <2>2
  <1>6. \A y \in (b + c)..e : /\ y - b \in c..(e - b) /\ b + (y - b) = y
                              /\ y - b \notin S => ~LineEnds(SubSeq(s, p, y)) /\ y - p + 1 <= MaxSection
    <2> TAKE y \in (b + c)..e
    <2>1. y - b \in c..(e - b) /\ b + (y - b) = y
      BY <1>0
    <2> QED
      BY <1>0, <1>3, <2>1
  <1>7. CASE k = 0 /\ \A j \in c..(e - b) : j \notin S
    BY <1>6, <1>7
  <1>8. CASE k \in c..(e - b) /\ k \in S /\ \A j \in c..(k - 1) : j \notin S
    <2>1. \A y \in (b + c)..(b + k - 1) : y \in (b + c)..e /\ y - b \in c..(k - 1)
      BY <1>0, <1>8
    <2> QED
      BY <1>3, <1>6, <1>8, <2>1
  <1> QED
    BY <1>5, <1>7, <1>8

\* Where feed_trailers stops.
LEMMA SectionStop ==
    ASSUME NEW s \in Bytes, NEW b \in 0..Len(s), NEW e \in (b + 1)..Len(s),
           NEW c \in 1..(e - b), NEW p \in 1..(b + c), NEW k,
           k = Stop(SectionEnds, SubSeq(s, p, b + c - 1), SubSeq(s, b + 1, e), c)
    PROVE  \/ /\ k = 0
              /\ \A y \in (b + c)..e : ~SectionEnds(SubSeq(s, p, y)) /\ y - p + 1 <= MaxSection
           \/ /\ k \in c..(e - b)
              /\ SectionEnds(SubSeq(s, p, b + k)) \/ b + k - p + 1 > MaxSection
              /\ \A y \in (b + c)..(b + k - 1) : ~SectionEnds(SubSeq(s, p, y)) /\ y - p + 1 <= MaxSection
  <1> DEFINE line == SubSeq(s, p, b + c - 1)
             input == SubSeq(s, b + 1, e)
             Halts(j) == SectionEnds(Fed(line, input, c, j)) \/ Len(Fed(line, input, c, j)) > MaxSection
             S == {j \in c..Len(input) : Halts(j)}
  <1>0. Len(s) \in Nat /\ b \in Nat /\ e \in Nat /\ c \in Nat \ {0} /\ p \in Nat /\ e - b \in Nat
        /\ MaxSection \in Nat
    BY DecoderAssumption DEF Bytes
  <1>1. Len(input) = e - b
    <2>1. b + 1 \in 1..(Len(s) + 1) /\ e \in ((b + 1) - 1)..Len(s) /\ e - (b + 1) + 1 = e - b
      BY <1>0
    <2> QED
      BY <2>1, SliceIs
  <1>2. k = IF S = {} THEN 0 ELSE Earliest(S)
    BY DEF Stop
  <1>3. ASSUME NEW j \in c..(e - b)
        PROVE  /\ j \in S <=> SectionEnds(SubSeq(s, p, b + j)) \/ b + j - p + 1 > MaxSection
               /\ b + j - p + 1 \in Nat
    <2>1. j \in (c - 1)..(e - b) /\ p \in 1..(Len(s) + 1) /\ b + j \in (p - 1)..Len(s)
      BY <1>0
    <2>2. Fed(line, input, c, j) = SubSeq(s, p, b + j)
      BY <2>1, FedIs
    <2>3. Len(SubSeq(s, p, b + j)) = b + j - p + 1 /\ b + j - p + 1 \in Nat
      BY <2>1, SliceIs
    <2> HIDE DEF line, input
    <2> QED
      BY <1>1, <2>2, <2>3
  <1>4. S \in SUBSET (c..(e - b))
    <2> HIDE DEF Halts, input
    <2> QED
      BY <1>1
  <1> HIDE DEF S
  <1>5. \/ k = 0 /\ \A j \in c..(e - b) : j \notin S
        \/ k \in c..(e - b) /\ k \in S /\ \A j \in c..(k - 1) : j \notin S
    <2>1. CASE S = {}
      BY <1>2, <2>1
    <2>2. CASE S # {}
      <3>1. k = Earliest(S)
        BY <1>2, <2>2
      <3>2. c \in Nat /\ e - b \in Nat
        BY <1>0
      <3> DEFINE L == e - b
      <3> HIDE DEF L
      <3>3. c \in Nat /\ L \in Nat /\ S \in SUBSET (c..L)
        BY <1>4, <3>2 DEF L
      <3>4. k \in S /\ k \in c..L /\ \A j \in c..(k - 1) : j \notin S
        BY <2>2, <3>1, <3>3, FirstStop
      <3> QED
        BY <3>4 DEF L
    <2> QED
      BY <2>1, <2>2
  <1>6. \A y \in (b + c)..e : /\ y - b \in c..(e - b) /\ b + (y - b) = y
                              /\ y - b \notin S => ~SectionEnds(SubSeq(s, p, y)) /\ y - p + 1 <= MaxSection
    <2> TAKE y \in (b + c)..e
    <2>1. y - b \in c..(e - b) /\ b + (y - b) = y
      BY <1>0
    <2> QED
      BY <1>0, <1>3, <2>1
  <1>7. CASE k = 0 /\ \A j \in c..(e - b) : j \notin S
    BY <1>6, <1>7
  <1>8. CASE k \in c..(e - b) /\ k \in S /\ \A j \in c..(k - 1) : j \notin S
    <2>1. \A y \in (b + c)..(b + k - 1) : y \in (b + c)..e /\ y - b \in c..(k - 1)
      BY <1>0, <1>8
    <2> QED
      BY <1>3, <1>6, <1>8, <2>1
  <1> QED
    BY <1>5, <1>7, <1>8

\* A turn of push at cursor c of the frame b + 1 .. e of the body.
TurnOk(s, r, b, e, c) ==
    r.cursor \in (c + 1)..(e - b + 1) /\ Good(s, r.dec, b + r.cursor - 1)

LEMMA FrameIs ==
    ASSUME NEW s \in Bytes, NEW b \in 0..Len(s), NEW e \in (b + 1)..Len(s)
    PROVE  /\ SubSeq(s, b + 1, e) \in Bytes /\ Len(SubSeq(s, b + 1, e)) = e - b
           /\ \A i \in 1..(e - b) : SubSeq(s, b + 1, e)[i] = s[b + i]
  <1>1. Len(s) \in Nat /\ b \in Nat /\ e \in Nat
    BY DEF Bytes
  <1>2. b + 1 \in 1..(Len(s) + 1) /\ e \in ((b + 1) - 1)..Len(s) /\ e - (b + 1) + 1 = e - b
    BY <1>1
  <1> DEFINE v == SubSeq(s, b + 1, e)
  <1>3. v \in Bytes /\ Len(v) = e - (b + 1) + 1 /\ \A i \in 1..(e - (b + 1) + 1) : v[i] = s[(b + 1) + i - 1]
    BY <1>2, SliceIs
  <1> HIDE DEF v
  <1>4. \A i \in 1..(e - b) : v[i] = s[b + i]
    <2> TAKE i \in 1..(e - b)
    <2>1. i \in 1..(e - (b + 1) + 1) /\ (b + 1) + i - 1 = b + i
      BY <1>1
    <2> QED
      BY <1>3, <2>1
  <1> QED
    BY <1>2, <1>3, <1>4 DEF v

LEMMA FailedTurn ==
    ASSUME NEW s \in Bytes, NEW b \in 0..Len(s), NEW e \in (b + 1)..Len(s), NEW c \in 1..(e - b),
           NEW d \in Decoders, Refused(s)
    PROVE  TurnOk(s, At(Failed(d), Len(SubSeq(s, b + 1, e)) + 1), b, e, c)
  <1> DEFINE f == Failed(d)
             L == Len(SubSeq(s, b + 1, e)) + 1
  <1>1. Len(s) \in Nat /\ L = e - b + 1
    BY FrameIs DEF Bytes
  <1>2. f \in Decoders /\ f.st = "failed"
    BY DEF Failed, Decoders, States
  <1> HIDE DEF f, L
  <1>3. Good(s, f, b + L - 1)
    BY <1>2 DEF Good
  <1>4. At(f, L).dec = f /\ At(f, L).cursor = L
    BY DEF At
  <1>5. L \in (c + 1)..(e - b + 1)
    BY <1>1
  <1>6. TurnOk(s, At(f, L), b, e, c)
    BY <1>3, <1>4, <1>5 DEF TurnOk
  <1> QED
    BY <1>6 DEF f, L

\* The chunk or the trailers after a size line that ends before q.
LEMMA AfterSizeLine ==
    ASSUME NEW s \in Bytes, NEW p \in 1..(Len(s) + 1), NEW out \in Bytes,
           Continues(s, out, WholeFrom(s)[p]), AfterCrlf(s, p) # 0, IsSize(SizeLine(s, p))
    PROVE  /\ Hex(SizeLine(s, p)) = 0 => Continues(s, out, RestOfTrailers(s, AfterCrlf(s, p)))
           /\ Hex(SizeLine(s, p)) # 0 =>
                Continues(s, out, RestOfData(s, AfterCrlf(s, p), Hex(SizeLine(s, p))))
  <1> DEFINE w == WholeFrom(s)
             q == AfterCrlf(s, p)
             h == Hex(SizeLine(s, p))
             o == Whole(s)
  <1>0. Len(s) \in Nat /\ p \in Nat
    BY DEF Bytes
  <1>1. w[p] = DecodeStep(s, w, p) /\ \A i \in 1..(Len(s) + 1) : w[i] \in Results
    BY WholeUnfold
  <1>2. /\ q \in (p + 2)..(Len(s) + 1) /\ h \in Nat /\ SizeLine(s, p) \in Bytes
        /\ ChunkEnd(s, p) \in Nat /\ ChunkEnd(s, p) >= q
    BY ChunkSpec
  <1>3. q \in 1..(Len(s) + 1) /\ ChunkEnd(s, p) = q + h
    <2>1. ChunkEnd(s, p) = q + h
      BY DEF ChunkEnd
    <2> HIDE DEF q, h
    <2> QED
      BY <1>0, <1>2, <2>1
  <1>4. o.longest \in Nat /\ o.ok \in BOOLEAN
    <2>1. 1 \in 1..(Len(s) + 1)
      BY <1>0
    <2> QED
      BY <1>1, <2>1 DEF Whole, Results
  <1>5. o.ok = w[p].ok /\ (w[p].ok => o.data = out \o w[p].data /\ o.longest >= w[p].longest)
    BY DEF Continues
  <1>6. ~Nothing.ok /\ Nothing.ok = FALSE
    BY DEF Nothing
  <1>7. ASSUME h = 0 PROVE Continues(s, out, RestOfTrailers(s, q))
    <2>1. ~NoChunk(s, p)
      BY <1>7 DEF NoChunk
    <2>2. w[p] = LastChunk(s, p)
      BY <1>1, <1>7, <2>1 DEF DecodeStep
    <2>3. CASE AfterTrailers(s, q) # Len(s) + 1
      <3>1. w[p] = Nothing /\ RestOfTrailers(s, q) = Nothing
        BY <2>2, <2>3 DEF LastChunk, RestOfTrailers
      <3> QED
        BY <1>5, <1>6, <3>1 DEF Continues
    <2>4. CASE AfterTrailers(s, q) = Len(s) + 1
      <3>1. w[p] = [ok |-> TRUE, data |-> <<>>, longest |-> Longer(q - p, (Len(s) + 1) - q)]
        BY <2>2, <2>4 DEF LastChunk
      <3>2. RestOfTrailers(s, q) = [ok |-> TRUE, data |-> <<>>, longest |-> Len(s) + 1 - q]
        BY <2>4 DEF RestOfTrailers
      <3> HIDE DEF q
      <3>3. Longer(q - p, (Len(s) + 1) - q) \in Nat /\ Longer(q - p, (Len(s) + 1) - q) >= Len(s) + 1 - q
            /\ Len(s) + 1 - q \in Nat
        BY <1>0, <1>2 DEF Longer
      <3> HIDE DEF w, o
      <3>4. o.ok = TRUE /\ o.data = out \o <<>> /\ o.longest >= Longer(q - p, (Len(s) + 1) - q)
        BY <1>5, <3>1
      <3>5. o.longest >= Len(s) + 1 - q
        BY <1>4, <3>3, <3>4
      <3> DEFINE r == RestOfTrailers(s, q)
      <3>6. r.ok = TRUE /\ r.data = <<>> /\ r.longest = Len(s) + 1 - q
        BY <3>2
      <3> HIDE DEF r
      <3>7. o.ok = r.ok /\ o.data = out \o r.data /\ o.longest >= r.longest
        BY <3>4, <3>5, <3>6
      <3> QED
        BY <3>7 DEF Continues, o, r
    <2> QED
      BY <2>3, <2>4
  <1>8. ASSUME h # 0 PROVE Continues(s, out, RestOfData(s, q, h))
    <2> DEFINE r == RestOfData(s, q, h)
               x == w[q + h + 2]
    <2>1. /\ r.ok \in BOOLEAN
          /\ r.ok => /\ q + h + 1 <= Len(s) /\ CrlfAt(s, q + h) /\ x \in Results /\ x.ok
                     /\ r.data = ChunkThen(s, q, q + h, x.data) /\ r.longest = x.longest
          /\ q + h + 1 <= Len(s) /\ CrlfAt(s, q + h) => r.ok = x.ok /\ x \in Results
      <3> HIDE DEF q, h
      <3>1. q \in 1..(Len(s) + 1) /\ h \in Nat
        BY <1>2, <1>3
      <3>2. RestIs(s, q, q + h, r, x)
        BY <3>1, RestOfDataIs
      <3> HIDE DEF r, x
      <3> QED
        BY <1>0, <3>1, <3>2 DEF RestIs
    <2>2. CASE q + h + 1 <= Len(s) /\ CrlfAt(s, q + h)
      <3>1. ~NoChunk(s, p)
        <4>1. q + h \in 1..(Len(s) - 1) /\ ~(q + h + 1 > Len(s))
          <5> HIDE DEF q, h
          <5> QED
            BY <1>0, <1>2, <1>3, <2>2
        <4>2. SubSeq(s, q + h, q + h + 1) = CRLF
          BY <2>2, <4>1, SliceIsCrlf
        <4> QED
          BY <1>3, <4>1, <4>2 DEF NoChunk
      <3>2. w[p] = AddChunk(s, p, x)
        BY <1>1, <1>3, <1>8, <3>1 DEF DecodeStep
      <3>3. x \in Results /\ r.ok = x.ok
        BY <2>1, <2>2
      <3>4. w[p].ok = x.ok /\ w[p].data = ChunkThen(s, q, q + h, x.data)
            /\ w[p].longest = Longer(q - p, x.longest)
        <4> DEFINE y == AddChunk(s, p, x)
                   e == ChunkEnd(s, p)
        <4>1. y.ok = x.ok /\ y.data = ChunkThen(s, q, e, x.data) /\ y.longest = Longer(q - p, x.longest)
          BY <1>8, <3>1, <3>3, AddChunkIsResult DEF ChunkThen
        <4>2. w[p] = y /\ e = q + h
          BY <1>3, <3>2
        <4>3. q \in Nat /\ h \in Nat /\ p \in Nat /\ e \in Nat
          BY <1>0, <1>2
        <4> HIDE DEF y, e, x, w, q, h
        <4> QED
          BY <4>1, <4>2, <4>3
      <3>5. x.longest \in Nat
        BY <3>3 DEF Results
      <3> HIDE DEF q, h, x, w, r, o
      <3>6. Longer(q - p, x.longest) \in Nat /\ Longer(q - p, x.longest) >= x.longest
        BY <1>0, <1>2, <3>5 DEF Longer
      <3>7. o.ok = r.ok
        BY <1>5, <3>3, <3>4
      <3>8. r.ok => o.data = out \o r.data /\ o.longest >= r.longest
        <4> SUFFICES ASSUME r.ok PROVE o.data = out \o r.data /\ o.longest >= r.longest
          OBVIOUS
        <4>1. w[p].ok /\ r.data = w[p].data /\ r.longest = x.longest
          BY <2>1, <3>3, <3>4
        <4>2. o.data = out \o w[p].data /\ o.longest >= w[p].longest
          BY <1>5, <4>1
        <4> QED
          BY <1>4, <3>4, <3>5, <3>6, <4>1, <4>2
      <3> QED
        BY <3>7, <3>8 DEF Continues, r, o
    <2>3. CASE ~(q + h + 1 <= Len(s) /\ CrlfAt(s, q + h))
      <3>1. NoChunk(s, p)
        <4>1. CASE q + h + 1 > Len(s)
          BY <1>3, <1>8, <4>1 DEF NoChunk
        <4>2. CASE ~(q + h + 1 > Len(s))
          <5>1. q + h \in 1..(Len(s) - 1) /\ q + h + 1 <= Len(s)
            <6> HIDE DEF q, h
            <6> QED
              BY <1>0, <1>2, <1>3, <4>2
          <5>2. SubSeq(s, q + h, q + h + 1) # CRLF
            BY <2>3, <5>1, SliceIsCrlf
          <5> QED
            BY <1>3, <1>8, <5>2 DEF NoChunk
        <4> QED
          BY <4>1, <4>2
      <3>2. w[p] = Nothing
        BY <1>1, <3>1 DEF DecodeStep
      <3>3. ~r.ok /\ r.ok = FALSE
        <4> HIDE DEF r, q, h, x
        <4> QED
          BY <2>1, <2>3
      <3> QED
        BY <1>5, <1>6, <3>2, <3>3 DEF Continues
    <2> QED
      BY <2>2, <2>3
  <1> QED
    BY <1>7, <1>8

LEMMA TurnIsOk ==
    ASSUME NEW s, NEW b, NEW e, NEW c, NEW d, NEW k,
           k \in (c + 1)..(e - b + 1), Good(s, d, b + k - 1)
    PROVE  TurnOk(s, At(d, k), b, e, c)
  <1> DEFINE r == At(d, k)
  <1>1. r.dec = d /\ r.cursor = k
    BY DEF At
  <1> HIDE DEF r
  <1>2. TurnOk(s, r, b, e, c)
    BY <1>1 DEF TurnOk
  <1> QED
    BY <1>2 DEF r

\* The size line goes on after the frame.
LEMMA LineRunsOn ==
    ASSUME NEW s \in Bytes, NEW a \in 0..Len(s), NEW e \in (a + 1)..Len(s), NEW p \in 1..(a + 1),
           NEW d \in Decoders, d.st = "header",
           \A i \in p..(a - 1) : ~CrlfAt(s, i), Continues(s, d.out, WholeFrom(s)[p]),
           \A y \in (a + 1)..e : ~LineEnds(SubSeq(s, p, y)) /\ y - p + 1 <= MaxSection
    PROVE  Good(s, [d EXCEPT !.line = SubSeq(s, p, e)], e)
  <1> DEFINE v == SubSeq(s, p, e)
             f == [d EXCEPT !.line = v]
  <1>0. Len(s) \in Nat /\ a \in Nat /\ e \in Nat /\ p \in Nat
    BY DEF Bytes
  <1>1. p \in 1..(Len(s) + 1) /\ p \in 1..(e + 1) /\ e \in (p - 1)..Len(s) /\ e \in (a + 1)..e
    BY <1>0
  <1>2. v \in Bytes
    BY <1>1, SliceIs
  <1> HIDE DEF v
  <1>3. f \in Decoders /\ f.st = "header" /\ f.line = v /\ f.out = d.out
    BY <1>2 DEF Decoders
  <1>4. ASSUME NEW i \in p..(e - 1) PROVE ~CrlfAt(s, i)
    <2>1. CASE i <= a - 1
      BY <1>0, <2>1
    <2>2. CASE i > a - 1
      <3>1. i + 1 \in (a + 1)..e /\ i + 1 \in (p - 1)..Len(s) /\ i + 1 > p /\ (i + 1) - 1 = i
        BY <1>0, <2>2
      <3>2. ~LineEnds(SubSeq(s, p, i + 1))
        BY <3>1
      <3>3. LineEnds(SubSeq(s, p, i + 1)) <=> i + 1 > p /\ CrlfAt(s, (i + 1) - 1)
        BY <1>1, <3>1, LineEndsIs
      <3> QED
        BY <3>1, <3>2, <3>3
    <2> QED
      BY <1>0, <2>1, <2>2
  <1>5. e - p + 1 <= MaxSection
    BY <1>1
  <1> HIDE DEF f
  <1>6. GoodHeader(s, f, e)
    BY <1>1, <1>3, <1>4, <1>5 DEF GoodHeader, v
  <1>7. Good(s, f, e)
    BY <1>3, <1>6 DEF Good
  <1> QED
    BY <1>7 DEF f, v

\* feed_line stopped at byte x of the body, over the cap.
LEMMA LineOverCap ==
    ASSUME NEW s \in Bytes, NEW x \in 1..Len(s), NEW p \in 1..x, NEW out \in Bytes,
           Continues(s, out, WholeFrom(s)[p]), x - p + 1 > MaxSection,
           \A i \in p..(x - 1) : ~CrlfAt(s, i)
    PROVE  Refused(s)
  <1> SUFFICES ASSUME Whole(s).ok PROVE Whole(s).longest > MaxSection + 1
    BY DEF Refused
  <1> DEFINE w == WholeFrom(s)[p]
             n == AfterCrlf(s, p)
             o == Whole(s)
  <1>0. Len(s) \in Nat /\ x \in Nat /\ p \in Nat /\ p \in 1..(Len(s) + 1) /\ MaxSection \in Nat
        /\ 1 \in 1..(Len(s) + 1)
    BY DecoderAssumption DEF Bytes
  <1>1. w.ok /\ o.longest >= w.longest
    BY DEF Continues
  <1>2. n # 0 /\ w.longest >= n - p
    BY <1>0, <1>1, LongestLine
  <1>3. n \in (p + 2)..(Len(s) + 1) /\ CrlfAt(s, n - 2)
    BY <1>0, <1>2, AfterCrlfSpec
  <1>4. w.longest \in Nat /\ o.longest \in Nat
    BY <1>0, WholeUnfold DEF Results, Whole
  <1> HIDE DEF w, n, o
  <1>5. n - 2 > x - 1
    <2>1. n - 2 \notin p..(x - 1)
      BY <1>3
    <2> QED
      BY <1>0, <1>3, <2>1
  <1>6. o.longest > MaxSection + 1
    BY <1>0, <1>1, <1>2, <1>3, <1>4, <1>5
  <1> QED
    BY <1>6 DEF o

\* feed_line stopped at the LF of a size line, byte x of the body.
LEMMA LineFound ==
    ASSUME NEW s \in Bytes, NEW x \in 1..Len(s), NEW p \in 1..x,
           LineEnds(SubSeq(s, p, x)), \A i \in p..(x - 2) : ~CrlfAt(s, i)
    PROVE  /\ AfterCrlf(s, p) = x + 1 /\ x > p
           /\ SubSeq(SubSeq(s, p, x), 1, Len(SubSeq(s, p, x)) - 2) = SizeLine(s, p)
  <1> DEFINE n == AfterCrlf(s, p)
             v == SubSeq(s, p, x)
  <1>0. Len(s) \in Nat /\ x \in Nat /\ p \in Nat /\ p \in 1..(Len(s) + 1) /\ x \in (p - 1)..Len(s)
    BY DEF Bytes
  <1>1. x > p /\ CrlfAt(s, x - 1)
    BY <1>0, LineEndsIs
  <1>2. \/ n = 0 /\ \A i \in p..(Len(s) - 1) : ~CrlfAt(s, i)
        \/ n \in (p + 2)..(Len(s) + 1) /\ CrlfAt(s, n - 2) /\ \A i \in p..(n - 3) : ~CrlfAt(s, i)
    BY <1>0, AfterCrlfSpec
  <1> HIDE DEF n
  <1>3. n = x + 1
    <2>1. x - 1 \in p..(Len(s) - 1)
      BY <1>0, <1>1
    <2>2. n \in (p + 2)..(Len(s) + 1) /\ CrlfAt(s, n - 2) /\ \A i \in p..(n - 3) : ~CrlfAt(s, i)
      BY <1>1, <1>2, <2>1
    <2>3. ~(x - 1 < n - 2)
      <3>1. x - 1 < n - 2 => x - 1 \in p..(n - 3)
        BY <1>0, <2>1, <2>2
      <3> QED
        BY <1>1, <2>2, <3>1
    <2>4. ~(n - 2 < x - 1)
      <3>1. n - 2 < x - 1 => n - 2 \in p..(x - 2)
        BY <1>0, <2>2
      <3> QED
        BY <2>2, <3>1
    <2> QED
      BY <1>0, <2>2, <2>3, <2>4
  <1>4. Len(v) = x - p + 1
    BY <1>0, SliceIs
  <1>5. 1 \in 1..(x - p + 2) /\ x - p - 1 \in (1 - 1)..(x - p + 1)
        /\ p + 1 - 1 = p /\ p + (x - p - 1) - 1 = x - 2 /\ (x - p + 1) - 2 = x - p - 1 /\ (x + 1) - 3 = x - 2
    BY <1>0, <1>1
  <1>6. SubSeq(v, 1, x - p - 1) = SubSeq(s, p + 1 - 1, p + (x - p - 1) - 1)
    BY <1>0, <1>5, SliceOfSlice
  <1>7. SizeLine(s, p) = SubSeq(s, p, n - 3)
    BY DEF SizeLine, n
  <1> HIDE DEF v
  <1>8. n - 3 = x - 2 /\ Len(v) - 2 = x - p - 1
    BY <1>0, <1>3, <1>4, <1>5
  <1>9. SubSeq(v, 1, Len(v) - 2) = SizeLine(s, p)
    BY <1>5, <1>6, <1>7, <1>8
  <1> QED
    BY <1>1, <1>3, <1>9 DEF n, v

\* The turn after a size line of the value h that ends at byte x.
LEMMA AfterLine ==
    ASSUME NEW s \in Bytes, NEW x \in 1..Len(s), NEW p \in 1..(Len(s) + 1), NEW d \in Decoders,
           Continues(s, d.out, WholeFrom(s)[p]), AfterCrlf(s, p) = x + 1, IsSize(SizeLine(s, p))
    PROVE  Good(s, [d EXCEPT !.line = <<>>, !.left = Hex(SizeLine(s, p)),
                             !.st = IF Hex(SizeLine(s, p)) = 0 THEN "trailers" ELSE "data"], x)
  <1> DEFINE h == Hex(SizeLine(s, p))
             f == [d EXCEPT !.line = <<>>, !.left = h, !.st = IF h = 0 THEN "trailers" ELSE "data"]
  <1>0. Len(s) \in Nat /\ x \in Nat /\ x + 1 # 0 /\ x + 1 \in 1..(Len(s) + 1) /\ MaxSection \in Nat /\ x \in 0..Len(s)
    BY DecoderAssumption DEF Bytes
  <1>1. h \in Nat
    BY <1>0, ChunkSpec
  <1>2. d.out \in Bytes
    BY DEF Decoders
  <1>3. /\ h = 0 => Continues(s, d.out, RestOfTrailers(s, x + 1))
        /\ h # 0 => Continues(s, d.out, RestOfData(s, x + 1, h))
    BY <1>0, <1>2, AfterSizeLine
  <1> HIDE DEF h
  <1>4. <<>> \in Bytes
    BY DEF Bytes
  <1>5. f \in Decoders /\ f.line = <<>> /\ f.left = h /\ f.out = d.out
        /\ f.st = IF h = 0 THEN "trailers" ELSE "data"
    BY <1>1, <1>4 DEF Decoders, States
  <1> HIDE DEF f
  <1>6. CASE h = 0
    <2>1. f.line = SubSeq(s, x + 1, x)
      BY <1>0, <1>5, EmptySlice
    <2>2. x + 1 \in 1..(x + 1) /\ x - (x + 1) + 1 <= MaxSection /\ (x + 1)..x = {}
      BY <1>0
    <2>3. GoodTrailers(s, f, x)
      BY <1>3, <1>5, <1>6, <2>1, <2>2 DEF GoodTrailers
    <2>4. Good(s, f, x)
      BY <1>5, <1>6, <2>3 DEF Good
    <2> QED
      BY <2>4 DEF f, h
  <1>7. CASE h # 0
    <2>1. GoodData(s, f, x)
      BY <1>3, <1>5, <1>7 DEF GoodData
    <2>2. Good(s, f, x)
      BY <1>5, <1>7, <2>1 DEF Good
    <2> QED
      BY <2>2 DEF f, h
  <1> QED
    BY <1>6, <1>7

LEMMA HeaderTurnOk ==
    ASSUME NEW s \in Bytes, NEW b \in 0..Len(s), NEW e \in (b + 1)..Len(s), NEW c \in 1..(e - b),
           NEW d, d.st = "header", Good(s, d, b + c - 1)
    PROVE  TurnOk(s, HeaderTurn(d, SubSeq(s, b + 1, e), c), b, e, c)
  <1> DEFINE a == b + c - 1
             input == SubSeq(s, b + 1, e)
             k == Stop(LineEnds, d.line, input, c)
             whole == Fed(d.line, input, c, k)
             line == SubSeq(whole, 1, Len(whole) - 2)
  <1>0. Len(s) \in Nat /\ b \in Nat /\ e \in Nat /\ c \in Nat /\ a \in 0..Len(s) /\ e \in (a + 1)..Len(s)
        /\ e - b \in Nat /\ MaxSection \in Nat /\ b + c = a + 1
    BY DecoderAssumption DEF Bytes
  <1>1. d \in Decoders /\ GoodHeader(s, d, a)
    BY DEF Good
  <1>2. PICK p \in 1..(a + 1) :
            /\ d.line = SubSeq(s, p, a) /\ a - p + 1 <= MaxSection
            /\ \A i \in p..(a - 1) : ~CrlfAt(s, i)
            /\ Continues(s, d.out, WholeFrom(s)[p])
    BY <1>1 DEF GoodHeader
  <1>3. Len(input) = e - b
    BY FrameIs
  <1>4. p \in 1..(b + c) /\ p \in 1..(Len(s) + 1) /\ p \in Nat
    BY <1>0
  <1>5. \/ /\ k = 0
           /\ \A y \in (b + c)..e : ~LineEnds(SubSeq(s, p, y)) /\ y - p + 1 <= MaxSection
        \/ /\ k \in c..(e - b)
           /\ LineEnds(SubSeq(s, p, b + k)) \/ b + k - p + 1 > MaxSection
           /\ \A y \in (b + c)..(b + k - 1) : ~LineEnds(SubSeq(s, p, y)) /\ y - p + 1 <= MaxSection
    BY <1>2, <1>4, LineStop
  <1>6. HeaderTurn(d, input, c) =
           IF k = 0 THEN At([d EXCEPT !.line = Fed(d.line, input, c, Len(input))], Len(input) + 1)
           ELSE IF ~LineEnds(whole) \/ ~IsSize(line) THEN At(Failed(d), Len(input) + 1)
           ELSE At([d EXCEPT !.line = <<>>, !.left = Hex(line),
                             !.st = IF Hex(line) = 0 THEN "trailers" ELSE "data"], k + 1)
    BY DEF HeaderTurn
  <1> DEFINE r == HeaderTurn(d, input, c)
  <1> HIDE DEF r, k
  <1>7. CASE k = 0
    <2>1. Fed(d.line, input, c, Len(input)) = SubSeq(s, p, b + (e - b))
      <3>1. e - b \in (c - 1)..(e - b)
        BY <1>0
      <3> QED
        BY <1>2, <1>3, <1>4, <3>1, FedIs
    <2>2. b + (e - b) = e /\ b + (e - b + 1) - 1 = e /\ e - b + 1 \in (c + 1)..(e - b + 1)
      BY <1>0
    <2>3. \A y \in (a + 1)..e : ~LineEnds(SubSeq(s, p, y)) /\ y - p + 1 <= MaxSection
      BY <1>0, <1>5, <1>7
    <2> DEFINE f == [d EXCEPT !.line = SubSeq(s, p, e)]
    <2>4. Good(s, f, e)
      BY <1>0, <1>1, <1>2, <2>3, LineRunsOn
    <2> HIDE DEF input, a
    <2>5. r = At(f, e - b + 1)
      BY <1>3, <1>6, <1>7, <2>1, <2>2 DEF r
    <2> HIDE DEF f
    <2>6. TurnOk(s, At(f, e - b + 1), b, e, c)
      BY <2>2, <2>4, TurnIsOk
    <2> QED
      BY <2>5, <2>6 DEF r, input
  <1>8. CASE k # 0
    <2> DEFINE x == b + k
    <2>1. k \in c..(e - b) /\ k \in Nat /\ x \in 1..Len(s) /\ x \in Nat /\ p \in 1..x /\ x \in (a + 1)..e
          /\ k \in (c - 1)..(e - b)
      BY <1>0, <1>4, <1>5, <1>8
    <2>2. whole = SubSeq(s, p, x)
      BY <1>2, <1>4, <2>1, FedIs
    <2>3. (LineEnds(SubSeq(s, p, x)) \/ x - p + 1 > MaxSection)
          /\ \A y \in (a + 1)..(x - 1) : ~LineEnds(SubSeq(s, p, y))
      BY <1>0, <1>5, <1>8
    <2>4. ASSUME NEW i \in p..(x - 2) PROVE ~CrlfAt(s, i)
      <3>1. CASE i <= a - 1
        BY <1>0, <1>2, <3>1
      <3>2. CASE i > a - 1
        <4>1. i + 1 \in (a + 1)..(x - 1) /\ i + 1 \in (p - 1)..Len(s) /\ i + 1 > p /\ (i + 1) - 1 = i
          BY <1>0, <1>4, <2>1, <3>2
        <4>2. LineEnds(SubSeq(s, p, i + 1)) <=> i + 1 > p /\ CrlfAt(s, (i + 1) - 1)
          BY <1>4, <4>1, LineEndsIs
        <4> QED
          BY <2>3, <4>1, <4>2
      <3> QED
        BY <1>0, <1>4, <2>1, <3>1, <3>2
    <2>5. d.out \in Bytes
      BY <1>1 DEF Decoders
    <2>6. CASE ~LineEnds(whole)
      <3>1. \A i \in p..(x - 1) : ~CrlfAt(s, i)
        <4> TAKE i \in p..(x - 1)
        <4>1. CASE i = x - 1
          <5>1. x \in (p - 1)..Len(s) /\ x > p
            BY <1>4, <2>1, <4>1
          <5> QED
            BY <1>4, <2>2, <2>6, <4>1, <5>1, LineEndsIs
        <4>2. CASE i # x - 1
          <5>1. i \in p..(x - 2)
            BY <1>4, <2>1, <4>2
          <5> QED
            BY <2>4, <5>1
        <4> QED
          BY <4>1, <4>2
      <3>2. Refused(s)
        <4> HIDE DEF x
        <4> QED
          BY <1>2, <2>1, <2>2, <2>3, <2>5, <2>6, <3>1, LineOverCap
      <3>3. r = At(Failed(d), Len(input) + 1)
        BY <1>6, <1>8, <2>6 DEF r
      <3> QED
        BY <1>1, <3>2, <3>3, FailedTurn DEF r
    <2>7. CASE LineEnds(whole)
      <3> HIDE DEF x
      <3>1. AfterCrlf(s, p) = x + 1 /\ line = SizeLine(s, p)
        BY <2>1, <2>2, <2>4, <2>7, LineFound
      <3>2. CASE ~IsSize(line)
        <4>1. r = At(Failed(d), Len(input) + 1)
          BY <1>6, <1>8, <3>2 DEF r
        <4>2. NoChunk(s, p)
          BY <3>1, <3>2 DEF NoChunk
        <4>3. WholeFrom(s)[p] = Nothing
          BY <1>4, <4>2, WholeUnfold DEF DecodeStep
        <4>4. Refused(s)
          BY <1>2, <4>3 DEF Refused, Continues, Nothing
        <4> QED
          BY <1>1, <4>1, <4>4, FailedTurn DEF r
      <3>3. CASE IsSize(line)
        <4> DEFINE h == Hex(SizeLine(s, p))
                   f == [d EXCEPT !.line = <<>>, !.left = h, !.st = IF h = 0 THEN "trailers" ELSE "data"]
        <4>1. Good(s, f, x)
          BY <1>1, <1>2, <1>4, <2>1, <3>1, <3>3, AfterLine
        <4>2. r = At(f, k + 1)
          <5> HIDE DEF whole, input
          <5> QED
            BY <1>6, <1>8, <2>7, <3>1, <3>3 DEF r
        <4> HIDE DEF f, whole
        <4>3. k + 1 \in (c + 1)..(e - b + 1) /\ b + (k + 1) - 1 = x
          BY <1>0, <2>1 DEF x
        <4>4. TurnOk(s, At(f, k + 1), b, e, c)
          BY <4>1, <4>3, TurnIsOk
        <4> QED
          BY <4>2, <4>4 DEF r
      <3> QED
        BY <3>2, <3>3
    <2> QED
      BY <2>6, <2>7
  <1> QED
    BY <1>7, <1>8

LEMMA JoinIs ==
    ASSUME NEW u \in Bytes, NEW v \in Bytes
    PROVE  /\ u \o v \in Bytes /\ Len(u \o v) = Len(u) + Len(v)
           /\ \A i \in 1..(Len(u) + Len(v)) : (u \o v)[i] = IF i <= Len(u) THEN u[i] ELSE v[i - Len(u)]
  BY ConcatProperties DEF Bytes

LEMMA JoinAssociative ==
    ASSUME NEW u \in Bytes, NEW v \in Bytes, NEW g \in Bytes
    PROVE  (u \o v) \o g = u \o (v \o g)
  <1> DEFINE uv == u \o v
             vg == v \o g
             x == uv \o g
             y == u \o vg
  <1>1. /\ uv \in Bytes /\ Len(uv) = Len(u) + Len(v)
        /\ \A i \in 1..(Len(u) + Len(v)) : uv[i] = IF i <= Len(u) THEN u[i] ELSE v[i - Len(u)]
    BY JoinIs
  <1>2. /\ vg \in Bytes /\ Len(vg) = Len(v) + Len(g)
        /\ \A i \in 1..(Len(v) + Len(g)) : vg[i] = IF i <= Len(v) THEN v[i] ELSE g[i - Len(v)]
    BY JoinIs
  <1> HIDE DEF uv, vg
  <1>3. /\ x \in Bytes /\ Len(x) = Len(uv) + Len(g)
        /\ \A i \in 1..(Len(uv) + Len(g)) : x[i] = IF i <= Len(uv) THEN uv[i] ELSE g[i - Len(uv)]
    <2>1. uv \in Bytes
      BY <1>1
    <2> QED
      BY <2>1, JoinIs
  <1>4. /\ y \in Bytes /\ Len(y) = Len(u) + Len(vg)
        /\ \A i \in 1..(Len(u) + Len(vg)) : y[i] = IF i <= Len(u) THEN u[i] ELSE vg[i - Len(u)]
    <2>1. vg \in Bytes
      BY <1>2
    <2> QED
      BY <2>1, JoinIs
  <1> HIDE DEF x, y
  <1>5. Len(u) \in Nat /\ Len(v) \in Nat /\ Len(g) \in Nat
    BY DEF Bytes
  <1>6. ASSUME NEW i \in 1..Len(x) PROVE x[i] = y[i]
    <2>0. i \in 1..(Len(uv) + Len(g)) /\ i \in 1..(Len(u) + Len(vg)) /\ i \in Nat
      BY <1>1, <1>2, <1>3, <1>5
    <2>1. CASE i <= Len(u)
      <3>1. i <= Len(uv) /\ i \in 1..(Len(u) + Len(v))
        BY <1>1, <1>5, <2>0, <2>1
      <3> QED
        BY <1>1, <1>3, <1>4, <2>0, <2>1, <3>1
    <2>2. CASE ~(i <= Len(u)) /\ i <= Len(u) + Len(v)
      <3>1. i <= Len(uv) /\ i \in 1..(Len(u) + Len(v)) /\ i - Len(u) \in 1..(Len(v) + Len(g)) /\ i - Len(u) <= Len(v)
        BY <1>1, <1>5, <2>0, <2>2
      <3> QED
        BY <1>1, <1>2, <1>3, <1>4, <2>0, <2>2, <3>1
    <2>3. CASE ~(i <= Len(u) + Len(v))
      <3>1. /\ ~(i <= Len(uv)) /\ ~(i <= Len(u)) /\ i - Len(u) \in 1..(Len(v) + Len(g))
            /\ ~(i - Len(u) <= Len(v)) /\ (i - Len(u)) - Len(v) = i - Len(uv)
        BY <1>1, <1>2, <1>5, <2>0, <2>3
      <3>2. y[i] = vg[i - Len(u)] /\ x[i] = g[i - Len(uv)]
        BY <1>3, <1>4, <2>0, <3>1
      <3>3. vg[i - Len(u)] = g[(i - Len(u)) - Len(v)]
        BY <1>2, <3>1
      <3> QED
        BY <3>1, <3>2, <3>3
    <2> QED
      BY <2>1, <2>2, <2>3
  <1>7. Len(x) = Len(y)
    BY <1>1, <1>2, <1>3, <1>4, <1>5
  <1>8. x = y
    BY <1>3, <1>4, <1>6, <1>7, SeqEqual DEF Bytes
  <1> QED
    BY <1>8 DEF x, y, uv, vg

\* Some of a chunk's bytes are taken, and the rest of it is left.
LEMMA TakeData ==
    ASSUME NEW s \in Bytes, NEW a \in 0..Len(s), NEW n \in Nat, NEW t \in 0..n, a + t <= Len(s),
           NEW out \in Bytes, Continues(s, out, RestOfData(s, a + 1, n))
    PROVE  Continues(s, out \o SubSeq(s, a + 1, a + t), RestOfData(s, a + t + 1, n - t))
  <1> DEFINE r == RestOfData(s, a + 1, n)
             q == RestOfData(s, a + t + 1, n - t)
             e == a + 1 + n
             w == WholeFrom(s)[e + 2]
             o == Whole(s)
  <1>0. Len(s) \in Nat /\ a \in Nat /\ t \in Nat /\ n - t \in Nat /\ e \in Nat
        /\ a + 1 \in 1..(Len(s) + 1) /\ a + t + 1 \in 1..(Len(s) + 1) /\ (a + t + 1) + (n - t) = e
    BY DEF Bytes
  <1>1. RestIs(s, a + 1, e, r, w)
    BY <1>0, RestOfDataIs
  <1>2. RestIs(s, a + t + 1, e, q, w)
    <2> DEFINE z == (a + t + 1) + (n - t)
    <2>1. RestIs(s, a + t + 1, z, q, WholeFrom(s)[z + 2])
      BY <1>0, RestOfDataIs
    <2>2. z = e
      BY <1>0
    <2> HIDE DEF z, e, q
    <2> QED
      BY <2>1, <2>2
  <1>3. o.ok = r.ok /\ (r.ok => o.data = out \o r.data /\ o.longest >= r.longest)
    BY DEF Continues
  <1> HIDE DEF r, q, e, w, o
  <1>4. r.ok = q.ok
    BY <1>1, <1>2 DEF RestIs
  <1>5. ASSUME q.ok PROVE o.data = (out \o SubSeq(s, a + 1, a + t)) \o q.data /\ o.longest >= q.longest
    <2>1. /\ e + 1 <= Len(s) /\ w \in Results /\ r.data = ChunkThen(s, a + 1, e, w.data)
          /\ q.data = ChunkThen(s, a + t + 1, e, w.data) /\ r.longest = q.longest
          /\ o.data = out \o r.data /\ o.longest >= r.longest
      BY <1>1, <1>2, <1>3, <1>4, <1>5 DEF RestIs
    <2> DEFINE u == SubSeq(s, a + 1, a + t)
               v == SubSeq(s, a + t + 1, e - 1)
               z == SubSeq(s, a + 1, e - 1)
               g == w.data
    <2>2. a + t \in ((a + 1) - 1)..Len(s) /\ e - 1 \in (a + t)..Len(s) /\ e - 1 \in ((a + t + 1) - 1)..Len(s)
      <3>1. e = a + 1 + n
        BY DEF e
      <3> QED
        BY <1>0, <2>1, <3>1
    <2>3. u \o v = z /\ u \in Bytes /\ v \in Bytes
      BY <1>0, <2>2, SliceJoin, SliceIs
    <2>4. g \in Bytes
      BY <2>1 DEF Results
    <2>5. r.data = z \o g /\ q.data = v \o g
      BY <2>1 DEF ChunkThen
    <2> HIDE DEF u, v, z, g
    <2>6. (u \o v) \o g = u \o (v \o g) /\ (out \o u) \o (v \o g) = out \o (u \o (v \o g))
      <3>1. v \o g \in Bytes
        BY <2>3, <2>4, ConcatProperties DEF Bytes
      <3>2. (u \o v) \o g = u \o (v \o g)
        BY <2>3, <2>4, JoinAssociative, Zenon
      <3> DEFINE j == v \o g
      <3> HIDE DEF j
      <3>3. (out \o u) \o j = out \o (u \o j)
        <4>1. j \in Bytes
          BY <3>1 DEF j
        <4> QED
          BY <2>3, <4>1, JoinAssociative, Zenon
      <3> QED
        BY <3>2, <3>3 DEF j
    <2>7. o.data = (out \o u) \o q.data
      BY <2>1, <2>3, <2>5, <2>6
    <2> QED
      BY <2>1, <2>7 DEF u
  <1>6. o.ok = q.ok
    BY <1>3, <1>4
  <1> QED
    BY <1>5, <1>6 DEF Continues, o, q

LEMMA DataTurnOk ==
    ASSUME NEW s \in Bytes, NEW b \in 0..Len(s), NEW e \in (b + 1)..Len(s), NEW c \in 1..(e - b),
           NEW d, d.st = "data", Good(s, d, b + c - 1)
    PROVE  TurnOk(s, DataTurn(d, SubSeq(s, b + 1, e), c), b, e, c)
  <1> DEFINE a == b + c - 1
             input == SubSeq(s, b + 1, e)
             avail == Len(input) - c + 1
             t == IF d.left < avail THEN d.left ELSE avail
             left == d.left - t
             v == SubSeq(input, c, c + t - 1)
             f == [d EXCEPT !.out = d.out \o v, !.left = left,
                            !.st = IF left = 0 THEN "cr" ELSE "data"]
  <1>0. Len(s) \in Nat /\ b \in Nat /\ e \in Nat /\ c \in Nat /\ a \in 0..Len(s) /\ e \in (a + 1)..Len(s)
    BY DEF Bytes
  <1>1. d \in Decoders /\ d.left \in Nat /\ d.out \in Bytes /\ GoodData(s, d, a)
    BY DEF Good, Decoders
  <1>2. d.line = <<>> /\ d.left # 0 /\ Continues(s, d.out, RestOfData(s, a + 1, d.left))
    BY <1>1 DEF GoodData
  <1>3. Len(input) = e - b
    BY FrameIs
  <1>4. DataTurn(d, input, c) = At(f, c + t)
    BY DEF DataTurn, LeftAfter
  <1> HIDE DEF input
  <1>5. /\ t \in Nat /\ t \in 1..(e - b - c + 1) /\ t \in 0..d.left /\ left \in Nat /\ a + t \in 0..Len(s) /\ a + t <= Len(s)
        /\ c + t \in (c + 1)..(e - b + 1) /\ b + (c + t) - 1 = a + t
    <2> DEFINE n == d.left
    <2>1. n \in Nat /\ n # 0 /\ t = IF n < (e - b) - c + 1 THEN n ELSE (e - b) - c + 1
      BY <1>1, <1>2, <1>3
    <2>2. left = n - t
      OBVIOUS
    <2> HIDE DEF n, t, left
    <2>3. t \in 1..(e - b - c + 1) /\ t \in 1..n
      BY <1>0, <2>1
    <2>4. t \in 0..n /\ left \in Nat
      BY <2>1, <2>2, <2>3
    <2>5. a + t \in 0..Len(s) /\ c + t \in (c + 1)..(e - b + 1) /\ b + (c + t) - 1 = a + t /\ t \in Nat
      BY <1>0, <2>3
    <2> QED
      BY <1>0, <2>3, <2>4, <2>5 DEF n
  <1> HIDE DEF t
  <1>6. v = SubSeq(s, a + 1, a + t) /\ v \in Bytes
    <2>1. /\ b + 1 \in 1..(Len(s) + 1) /\ e \in ((b + 1) - 1)..Len(s)
          /\ c \in 1..(e - (b + 1) + 2) /\ c + t - 1 \in (c - 1)..(e - (b + 1) + 1)
          /\ (b + 1) + c - 1 = a + 1 /\ (b + 1) + (c + t - 1) - 1 = a + t
          /\ a + 1 \in 1..(Len(s) + 1) /\ a + t \in ((a + 1) - 1)..Len(s)
      BY <1>0, <1>5
    <2>2. v = SubSeq(s, (b + 1) + c - 1, (b + 1) + (c + t - 1) - 1)
      BY <2>1, SliceOfSlice DEF input
    <2>3. v = SubSeq(s, a + 1, a + t)
      <3> HIDE DEF v, a
      <3> QED
        BY <2>1, <2>2
    <2> QED
      BY <2>1, <2>3, SliceIs
  <1> HIDE DEF v
  <1>7. d.out \o v \in Bytes
    BY <1>1, <1>6, ConcatProperties DEF Bytes
  <1>8. Continues(s, d.out \o v, RestOfData(s, a + t + 1, left))
    BY <1>0, <1>1, <1>2, <1>5, <1>6, TakeData
  <1> HIDE DEF left
  <1>9. f \in Decoders /\ f.line = <<>> /\ f.left = left /\ f.out = d.out \o v
        /\ f.st = IF left = 0 THEN "cr" ELSE "data"
    BY <1>1, <1>2, <1>5, <1>7 DEF Decoders, States
  <1> HIDE DEF f, a
  <1>10. Good(s, f, a + t)
    <2>1. CASE left = 0
      <3>1. GoodCr(s, f, a + t)
        BY <1>8, <1>9, <2>1 DEF GoodCr
      <3> QED
        BY <1>9, <2>1, <3>1 DEF Good
    <2>2. CASE left # 0
      <3>1. GoodData(s, f, a + t)
        BY <1>8, <1>9, <2>2 DEF GoodData
      <3> QED
        BY <1>9, <2>2, <3>1 DEF Good
    <2> QED
      BY <2>1, <2>2
  <1>11. TurnOk(s, At(f, c + t), b, e, c)
    BY <1>5, <1>10, TurnIsOk
  <1> QED
    BY <1>4, <1>11 DEF input

\* The CRLF after a chunk's data, at y, is missing.
LEMMA NoCrlfRefused ==
    ASSUME NEW s \in Bytes, NEW y \in 1..(Len(s) + 1), NEW out,
           Continues(s, out, RestOfData(s, y, 0)), ~(y + 1 <= Len(s) /\ CrlfAt(s, y))
    PROVE  ~Whole(s).ok
  <1> DEFINE r == RestOfData(s, y, 0)
  <1>1. RestIs(s, y, y + 0, r, WholeFrom(s)[y + 0 + 2])
    BY RestOfDataIs
  <1>2. y + 0 = y
    BY DEF Bytes
  <1>3. Whole(s).ok = r.ok
    BY DEF Continues
  <1> HIDE DEF r
  <1> QED
    BY <1>1, <1>2, <1>3 DEF RestIs

LEMMA CrlfTurnOk ==
    ASSUME NEW s \in Bytes, NEW b \in 0..Len(s), NEW e \in (b + 1)..Len(s), NEW c \in 1..(e - b),
           NEW d, d.st \in {"cr", "lf"}, Good(s, d, b + c - 1)
    PROVE  TurnOk(s, CrlfTurn(d, SubSeq(s, b + 1, e), c), b, e, c)
  <1> DEFINE a == b + c - 1
             input == SubSeq(s, b + 1, e)
             r == CrlfTurn(d, input, c)
             f == [d EXCEPT !.st = IF d.st = "cr" THEN "lf" ELSE "header"]
  <1>0. Len(s) \in Nat /\ b \in Nat /\ e \in Nat /\ c \in Nat /\ a \in 0..Len(s) /\ a + 1 \in 1..Len(s)
        /\ c + 1 \in (c + 1)..(e - b + 1) /\ b + (c + 1) - 1 = a + 1 /\ b + c = a + 1 /\ MaxSection \in Nat
        /\ (a + 1) + 1 = a + 2
    BY DecoderAssumption DEF Bytes
  <1>1. d \in Decoders /\ d.out \in Bytes
    BY DEF Good, Decoders
  <1>2. input[c] = s[a + 1]
    <2>1. input[c] = s[b + c]
      BY FrameIs
    <2> QED
      BY <1>0, <2>1
  <1>3. r = IF input[c] # (IF d.st = "cr" THEN CR ELSE LF) THEN At(Failed(d), Len(input) + 1)
            ELSE At(f, c + 1)
    BY DEF CrlfTurn
  <1>4. CR # LF
    BY DEF CR, LF
  <1> SUFFICES TurnOk(s, r, b, e, c)
    OBVIOUS
  <1>f. Refused(s) => TurnOk(s, At(Failed(d), Len(input) + 1), b, e, c)
    BY <1>1, FailedTurn
  <1>5. Good(s, f, a + 1) => TurnOk(s, At(f, c + 1), b, e, c)
    BY <1>0, TurnIsOk
  <1>6. f \in Decoders /\ f.line = d.line /\ f.out = d.out /\ f.st = IF d.st = "cr" THEN "lf" ELSE "header"
    BY <1>1 DEF Decoders, States
  <1> HIDE DEF r, f, input
  <1>7. CASE d.st = "cr"
    <2>1. d.line = <<>> /\ Continues(s, d.out, RestOfData(s, a + 1, 0))
      BY <1>7 DEF Good, GoodCr
    <2>2. CASE s[a + 1] # CR
      <3>1. ~CrlfAt(s, a + 1)
        BY <2>2 DEF CrlfAt
      <3>2. ~Whole(s).ok
        <4>1. a + 1 \in 1..(Len(s) + 1)
          BY <1>0
        <4> QED
          BY <2>1, <3>1, <4>1, NoCrlfRefused
      <3> QED
        BY <1>2, <1>3, <1>7, <1>f, <2>2, <3>2 DEF Refused
    <2>3. CASE s[a + 1] = CR
      <3>1. r = At(f, c + 1)
        BY <1>2, <1>3, <1>7, <2>3
      <3>2. GoodLf(s, f, a + 1)
        <4>1. a + 1 >= 1
          BY <1>0
        <4> QED
          BY <1>6, <2>1, <2>3, <4>1 DEF GoodLf
      <3>3. Good(s, f, a + 1)
        BY <1>6, <1>7, <3>2 DEF Good
      <3> QED
        BY <1>5, <3>1, <3>3
    <2> QED
      BY <2>2, <2>3
  <1>8. CASE d.st = "lf"
    <2>1. d.line = <<>> /\ a >= 1 /\ s[a] = CR /\ Continues(s, d.out, RestOfData(s, a, 0))
      BY <1>8 DEF Good, GoodLf
    <2>0. a \in 1..(Len(s) + 1) /\ a + 1 <= Len(s) /\ a \in Nat
      BY <1>0, <2>1
    <2>2. CASE s[a + 1] # LF
      <3>1. ~CrlfAt(s, a)
        BY <2>2 DEF CrlfAt
      <3>2. ~Whole(s).ok
        BY <2>0, <2>1, <3>1, NoCrlfRefused
      <3> QED
        BY <1>2, <1>3, <1>8, <1>f, <2>2, <3>2 DEF Refused
    <2>3. CASE s[a + 1] = LF
      <3>1. r = At(f, c + 1)
        BY <1>2, <1>3, <1>8, <2>3
      <3>2. CrlfAt(s, a)
        BY <2>1, <2>3 DEF CrlfAt
      <3> DEFINE q == RestOfData(s, a, 0)
                 w == WholeFrom(s)[a + 2]
                 o == Whole(s)
      <3>3. RestIs(s, a, a, q, w)
        <4>1. RestIs(s, a, a + 0, q, WholeFrom(s)[a + 0 + 2])
          BY <2>0, RestOfDataIs
        <4>2. a + 0 = a
          BY <2>0
        <4> HIDE DEF q, a
        <4> QED
          BY <4>1, <4>2
      <3>4. o.ok = q.ok /\ (q.ok => o.data = d.out \o q.data /\ o.longest >= q.longest)
        BY <2>1 DEF Continues
      <3>5. SubSeq(s, a, a - 1) = <<>>
        <4>1. a - 1 \in 0..Len(s) /\ (a - 1) + 1 = a
          BY <1>0, <2>0
        <4>2. SubSeq(s, (a - 1) + 1, a - 1) = <<>>
          BY <4>1, EmptySlice
        <4> HIDE DEF a
        <4> QED
          BY <4>1, <4>2
      <3> HIDE DEF q, w, o, a
      <3>6. q.ok = w.ok /\ w \in Results
        BY <2>0, <3>2, <3>3 DEF RestIs
      <3>7. q.ok => q.data = w.data /\ q.longest = w.longest
        <4>1. w.data \in Bytes
          BY <3>6 DEF Results
        <4>2. <<>> \o w.data = w.data
          BY <4>1, ConcatEmptySeq DEF Bytes
        <4>3. ChunkThen(s, a, a, w.data) = w.data
          BY <3>5, <4>2 DEF ChunkThen
        <4> QED
          BY <3>3, <4>3 DEF RestIs
      <3>8. Continues(s, d.out, w)
        BY <3>4, <3>6, <3>7 DEF Continues, o
      <3>9. GoodHeader(s, f, a + 1)
        <4>1. d.line = SubSeq(s, (a + 1) + 1, a + 1)
          <5>1. a + 1 \in 0..Len(s)
            BY <1>0
          <5> QED
            BY <2>1, <5>1, EmptySlice
        <4>2. /\ a + 2 \in 1..((a + 1) + 1) /\ (a + 1) - (a + 2) + 1 <= MaxSection
              /\ (a + 2)..((a + 1) - 1) = {}
          BY <1>0, <2>0
        <4>3. d.line = SubSeq(s, a + 2, a + 1)
          BY <1>0, <4>1
        <4> QED
          BY <1>6, <3>8, <4>2, <4>3 DEF GoodHeader, w
      <3>10. Good(s, f, a + 1)
        BY <1>6, <1>8, <3>9 DEF Good
      <3> QED
        BY <1>5, <3>1, <3>10
    <2> QED
      BY <2>2, <2>3
  <1> QED
    BY <1>7, <1>8

\* The trailers go on after the frame.
LEMMA TrailersRunOn ==
    ASSUME NEW s \in Bytes, NEW a \in 0..Len(s), NEW e \in (a + 1)..Len(s), NEW p \in 1..(a + 1),
           NEW d \in Decoders, d.st = "trailers",
           \A k \in p..a : ~SectionEnds(SubSeq(s, p, k)), Continues(s, d.out, RestOfTrailers(s, p)),
           \A y \in (a + 1)..e : ~SectionEnds(SubSeq(s, p, y)) /\ y - p + 1 <= MaxSection
    PROVE  Good(s, [d EXCEPT !.line = SubSeq(s, p, e)], e)
  <1> DEFINE v == SubSeq(s, p, e)
             f == [d EXCEPT !.line = v]
  <1>0. Len(s) \in Nat /\ a \in Nat /\ e \in Nat /\ p \in Nat
    BY DEF Bytes
  <1>1. p \in 1..(Len(s) + 1) /\ p \in 1..(e + 1) /\ e \in (p - 1)..Len(s) /\ e \in (a + 1)..e
    BY <1>0
  <1>2. v \in Bytes
    BY <1>1, SliceIs
  <1> HIDE DEF v
  <1>3. f \in Decoders /\ f.st = "trailers" /\ f.line = v /\ f.out = d.out
    BY <1>2 DEF Decoders
  <1>4. ASSUME NEW k \in p..e PROVE ~SectionEnds(SubSeq(s, p, k))
    <2>1. k \in p..a \/ k \in (a + 1)..e
      BY <1>0
    <2> QED
      BY <2>1
  <1>5. e - p + 1 <= MaxSection
    BY <1>1
  <1> HIDE DEF f
  <1>6. GoodTrailers(s, f, e)
    BY <1>1, <1>3, <1>4, <1>5 DEF GoodTrailers, v
  <1>7. Good(s, f, e)
    BY <1>3, <1>6 DEF Good
  <1> QED
    BY <1>7 DEF f, v

\* A body whose trailers are accepted ends where feed_trailers looks for the end.
LEMMA AcceptedTrailers ==
    ASSUME NEW s \in Bytes, NEW p \in 1..(Len(s) + 1), NEW out, Whole(s).ok,
           Continues(s, out, RestOfTrailers(s, p))
    PROVE  /\ AfterTrailers(s, p) = Len(s) + 1 /\ Len(s) + 1 >= p + 2
           /\ SectionEnds(SubSeq(s, p, Len(s))) /\ Whole(s).longest >= Len(s) + 1 - p
  <1> DEFINE f == TrailersFrom(s, p)
             r == RestOfTrailers(s, p)
  <1>0. Len(s) \in Nat /\ p \in Nat /\ p \in p..(Len(s) + 1) /\ (Len(s) + 1) - 1 = Len(s) /\ Len(s) + 1 # 0
    BY DEF Bytes
  <1>1. r.ok /\ Whole(s).longest >= r.longest
    BY DEF Continues
  <1>2. AfterTrailers(s, p) = Len(s) + 1
    BY <1>1 DEF RestOfTrailers, Nothing
  <1>3. r.longest = Len(s) + 1 - p
    BY <1>2 DEF RestOfTrailers
  <1>4. f[p] = Len(s) + 1
    BY <1>2 DEF AfterTrailers
  <1>5. f[p] \in (p + 2)..(Len(s) + 1) /\ SectionEnds(SubSeq(s, p, f[p] - 1))
    <2>1. LineStart(s, p, p)
      BY DEF LineStart
    <2>2. \A i \in p..(Len(s) + 1) : LineStart(s, p, i) /\ f[i] # 0 =>
               f[i] \in (p + 2)..(Len(s) + 1) /\ SectionEnds(SubSeq(s, p, f[i] - 1))
      BY TrailersEnd
    <2> HIDE DEF f
    <2> QED
      BY <1>0, <1>4, <2>1, <2>2
  <1> HIDE DEF f, r
  <1>6. SectionEnds(SubSeq(s, p, Len(s)))
    BY <1>0, <1>4, <1>5
  <1>7. Len(s) + 1 >= p + 2
    BY <1>0, <1>4, <1>5
  <1> QED
    BY <1>1, <1>2, <1>3, <1>6, <1>7

LEMMA TrailersTurnOk ==
    ASSUME NEW s \in Bytes, NEW b \in 0..Len(s), NEW e \in (b + 1)..Len(s), NEW c \in 1..(e - b),
           NEW d, d.st = "trailers", Good(s, d, b + c - 1)
    PROVE  TurnOk(s, TrailersTurn(d, SubSeq(s, b + 1, e), c), b, e, c)
  <1> DEFINE a == b + c - 1
             input == SubSeq(s, b + 1, e)
             k == Stop(SectionEnds, d.line, input, c)
             section == Fed(d.line, input, c, k)
  <1>0. Len(s) \in Nat /\ b \in Nat /\ e \in Nat /\ c \in Nat /\ a \in 0..Len(s) /\ e \in (a + 1)..Len(s)
        /\ e - b \in Nat /\ MaxSection \in Nat /\ b + c = a + 1
    BY DecoderAssumption DEF Bytes
  <1>1. d \in Decoders /\ GoodTrailers(s, d, a) /\ d.out \in Bytes
    BY DEF Good, Decoders
  <1>2. PICK p \in 1..(a + 1) :
            /\ d.line = SubSeq(s, p, a) /\ a - p + 1 <= MaxSection
            /\ \A j \in p..a : ~SectionEnds(SubSeq(s, p, j))
            /\ Continues(s, d.out, RestOfTrailers(s, p))
    BY <1>1 DEF GoodTrailers
  <1>3. Len(input) = e - b
    BY FrameIs
  <1>4. p \in 1..(b + c) /\ p \in 1..(Len(s) + 1) /\ p \in Nat
    BY <1>0
  <1>5. \/ /\ k = 0
           /\ \A y \in (b + c)..e : ~SectionEnds(SubSeq(s, p, y)) /\ y - p + 1 <= MaxSection
        \/ /\ k \in c..(e - b)
           /\ SectionEnds(SubSeq(s, p, b + k)) \/ b + k - p + 1 > MaxSection
           /\ \A y \in (b + c)..(b + k - 1) : ~SectionEnds(SubSeq(s, p, y)) /\ y - p + 1 <= MaxSection
    BY <1>2, <1>4, SectionStop
  <1>6. TrailersTurn(d, input, c) =
           IF k = 0 THEN At([d EXCEPT !.line = Fed(d.line, input, c, Len(input))], Len(input) + 1)
           ELSE IF ~SectionEnds(section) \/ AfterTrailers(section, 1) = 0
                THEN At(Failed(d), Len(input) + 1)
           ELSE At([d EXCEPT !.line = <<>>, !.st = "done"], k + 1)
    BY DEF TrailersTurn
  <1> DEFINE r == TrailersTurn(d, input, c)
  <1> HIDE DEF r, k
  <1>7. CASE k = 0
    <2>1. Fed(d.line, input, c, Len(input)) = SubSeq(s, p, b + (e - b))
      <3>1. e - b \in (c - 1)..(e - b)
        BY <1>0
      <3> QED
        BY <1>2, <1>3, <1>4, <3>1, FedIs
    <2>2. b + (e - b) = e /\ b + (e - b + 1) - 1 = e /\ e - b + 1 \in (c + 1)..(e - b + 1)
      BY <1>0
    <2>3. \A y \in (a + 1)..e : ~SectionEnds(SubSeq(s, p, y)) /\ y - p + 1 <= MaxSection
      BY <1>0, <1>5, <1>7
    <2> DEFINE f == [d EXCEPT !.line = SubSeq(s, p, e)]
    <2>4. Good(s, f, e)
      BY <1>0, <1>1, <1>2, <2>3, TrailersRunOn
    <2> HIDE DEF input, a
    <2>5. r = At(f, e - b + 1)
      BY <1>3, <1>6, <1>7, <2>1, <2>2 DEF r
    <2> HIDE DEF f
    <2>6. TurnOk(s, At(f, e - b + 1), b, e, c)
      BY <2>2, <2>4, TurnIsOk
    <2> QED
      BY <2>5, <2>6 DEF r, input
  <1>8. CASE k # 0
    <2> DEFINE x == b + k
    <2>1. k \in c..(e - b) /\ k \in Nat /\ x \in 1..Len(s) /\ x \in Nat /\ p \in 1..x /\ x \in (a + 1)..e
          /\ k \in (c - 1)..(e - b) /\ x \in p..Len(s)
      BY <1>0, <1>4, <1>5, <1>8
    <2>2. section = SubSeq(s, p, x)
      BY <1>2, <1>4, <2>1, FedIs
    <2>3. (SectionEnds(SubSeq(s, p, x)) \/ x - p + 1 > MaxSection)
          /\ \A y \in (a + 1)..(x - 1) : ~SectionEnds(SubSeq(s, p, y))
      BY <1>0, <1>5, <1>8
    <2>4. ASSUME NEW j \in p..(x - 1) PROVE ~SectionEnds(SubSeq(s, p, j))
      <3>1. j \in p..a \/ j \in (a + 1)..(x - 1)
        BY <1>0, <1>4, <2>1
      <3> QED
        BY <1>2, <2>3, <3>1
    <2> HIDE DEF x
    <2>5. CASE ~SectionEnds(section)
      <3>1. Refused(s)
        <4> SUFFICES ASSUME Whole(s).ok PROVE Whole(s).longest > MaxSection + 1
          BY DEF Refused
        <4>1. Len(s) + 1 >= p + 2 /\ SectionEnds(SubSeq(s, p, Len(s))) /\ Whole(s).longest >= Len(s) + 1 - p
          BY <1>2, <1>4, AcceptedTrailers
        <4>2. Whole(s).longest \in Nat
          <5>1. 1 \in 1..(Len(s) + 1)
            BY <1>0
          <5> QED
            BY <5>1, WholeUnfold DEF Whole, Results
        <4>3. Len(s) \notin p..x
          <5>1. \A j \in p..x : j = x \/ j \in p..(x - 1)
            BY <1>4, <2>1
          <5> QED
            BY <2>2, <2>4, <2>5, <4>1, <5>1
        <4>4. Len(s) > x
          BY <1>0, <1>4, <2>1, <4>1, <4>3
        <4>5. x - p + 1 > MaxSection
          BY <2>2, <2>3, <2>5
        <4> DEFINE n == Whole(s).longest
        <4>6. n \in Nat /\ n >= Len(s) + 1 - p
          BY <4>1, <4>2
        <4> HIDE DEF n
        <4>7. n > MaxSection + 1
          BY <1>0, <1>4, <2>1, <4>4, <4>5, <4>6
        <4> QED
          BY <4>7 DEF n
      <3>2. r = At(Failed(d), Len(input) + 1)
        BY <1>6, <1>8, <2>5 DEF r
      <3> QED
        BY <1>1, <3>1, <3>2, FailedTurn DEF r
    <2>6. CASE SectionEnds(section)
      <3>1. \/ AfterTrailers(section, 1) = 0 /\ AfterTrailers(s, p) = 0
            \/ AfterTrailers(section, 1) # 0 /\ AfterTrailers(s, p) = x + 1
        <4> HIDE DEF section
        <4>1. SectionEnds(SubSeq(s, p, x)) /\ \A j \in p..(x - 1) : ~SectionEnds(SubSeq(s, p, j))
          BY <2>2, <2>4, <2>6
        <4>2. \/ AfterTrailers(SubSeq(s, p, x), 1) = 0 /\ AfterTrailers(s, p) = 0
              \/ AfterTrailers(SubSeq(s, p, x), 1) # 0 /\ AfterTrailers(s, p) = x + 1
          BY <1>4, <2>1, <4>1, TrailersShift
        <4> QED
          BY <2>2, <4>2
      <3> DEFINE q == RestOfTrailers(s, p)
                 o == Whole(s)
      <3>2. o.ok = q.ok /\ (q.ok => o.data = d.out \o q.data /\ o.longest >= q.longest)
        BY <1>2 DEF Continues
      <3>3. CASE AfterTrailers(section, 1) = 0
        <4>1. r = At(Failed(d), Len(input) + 1)
          BY <1>6, <1>8, <3>3 DEF r
        <4>2. q = Nothing
          BY <1>0, <3>1, <3>3 DEF RestOfTrailers
        <4>3. Refused(s)
          BY <3>2, <4>2 DEF Refused, Nothing
        <4> QED
          BY <1>1, <4>1, <4>3, FailedTurn DEF r
      <3>4. CASE AfterTrailers(section, 1) # 0
        <4> DEFINE f == [d EXCEPT !.line = <<>>, !.st = "done"]
        <4>1. r = At(f, k + 1)
          <5> HIDE DEF section, input
          <5> QED
            BY <1>6, <1>8, <2>6, <3>4 DEF r
        <4>2. <<>> \in Bytes
          BY DEF Bytes
        <4>3. f \in Decoders /\ f.out = d.out /\ f.st = "done"
          BY <1>1, <4>2 DEF Decoders, States
        <4>4. AfterTrailers(s, p) = x + 1
          BY <3>1, <3>4
        <4> HIDE DEF f
        <4>5. GoodEnd(s, f, x)
          <5> DEFINE z == RestAfterEnd(s, x)
          <5>1. z.ok = (x = Len(s)) /\ z.data = <<>> /\ z.longest = 0
            BY DEF RestAfterEnd
          <5>2. CASE x = Len(s)
            <6>1. q = [ok |-> TRUE, data |-> <<>>, longest |-> Len(s) + 1 - p]
              BY <4>4, <5>2 DEF RestOfTrailers
            <6>2. q.ok = TRUE /\ q.data = <<>> /\ q.longest = Len(s) + 1 - p
              BY <6>1
            <6>3. o.longest \in Nat
              <7>1. 1 \in 1..(Len(s) + 1)
                BY <1>0
              <7> QED
                BY <7>1, WholeUnfold DEF Whole, Results
            <6> HIDE DEF q, o, z
            <6>4. o.ok = z.ok /\ o.data = d.out \o z.data /\ o.longest >= z.longest
              <7>1. z.ok = TRUE
                BY <5>1, <5>2
              <7>2. o.ok = TRUE /\ o.data = d.out \o <<>>
                BY <3>2, <6>2
              <7>3. o.longest >= 0
                BY <6>3
              <7> QED
                BY <5>1, <7>1, <7>2, <7>3
            <6> QED
              BY <4>3, <6>4 DEF GoodEnd, Continues, z, o
          <5>3. CASE x # Len(s)
            <6>1. AfterTrailers(s, p) # Len(s) + 1
              BY <1>0, <2>1, <4>4, <5>3
            <6>2. q = Nothing
              BY <6>1 DEF RestOfTrailers
            <6>3. o.ok = FALSE
              BY <3>2, <6>2 DEF Nothing
            <6>4. z.ok = FALSE
              BY <5>1, <5>3
            <6> QED
              BY <4>3, <6>3, <6>4 DEF GoodEnd, Continues
          <5> QED
            BY <5>2, <5>3
        <4>6. Good(s, f, x)
          BY <4>3, <4>5 DEF Good
        <4>7. k + 1 \in (c + 1)..(e - b + 1) /\ b + (k + 1) - 1 = x
          BY <1>0, <2>1 DEF x
        <4>8. TurnOk(s, At(f, k + 1), b, e, c)
          BY <4>6, <4>7, TurnIsOk
        <4> QED
          BY <4>1, <4>8 DEF r
      <3> QED
        BY <3>3, <3>4
    <2> QED
      BY <2>5, <2>6
  <1> QED
    BY <1>7, <1>8

\* One turn of push's loop keeps what the decoder knows.
LEMMA TurnKeeps ==
    ASSUME NEW s \in Bytes, NEW b \in 0..Len(s), NEW e \in (b + 1)..Len(s), NEW c \in 1..(e - b),
           NEW d, Good(s, d, b + c - 1)
    PROVE  TurnOk(s, Turn(d, SubSeq(s, b + 1, e), c), b, e, c)
  <1> DEFINE input == SubSeq(s, b + 1, e)
             r == Turn(d, input, c)
  <1>0. Len(s) \in Nat /\ b \in Nat /\ e \in Nat /\ c \in Nat /\ b + c - 1 # Len(s)
    BY DEF Bytes
  <1>1. d \in Decoders /\ d.st \in States
    BY DEF Good, Decoders
  <1>2. CASE d.st = "header"
    BY <1>2, HeaderTurnOk DEF Turn
  <1>3. CASE d.st = "data"
    BY <1>3, DataTurnOk DEF Turn
  <1>4. CASE d.st \in {"cr", "lf"}
    <2>1. r = CrlfTurn(d, input, c)
      BY <1>4 DEF Turn
    <2>2. TurnOk(s, CrlfTurn(d, input, c), b, e, c)
      BY <1>4, CrlfTurnOk
    <2> QED
      BY <2>1, <2>2
  <1>5. CASE d.st = "trailers"
    BY <1>5, TrailersTurnOk DEF Turn
  <1>6. CASE d.st \in {"done", "failed"}
    <2>1. r = At(Failed(d), Len(input) + 1)
      BY <1>6 DEF Turn
    <2>2. Refused(s)
      <3>1. CASE d.st = "done"
        <4>1. Continues(s, d.out, RestAfterEnd(s, b + c - 1))
          BY <3>1 DEF Good, GoodEnd
        <4> QED
          BY <1>0, <4>1 DEF Continues, RestAfterEnd, Refused
      <3>2. CASE d.st = "failed"
        BY <3>2 DEF Good
      <3> QED
        BY <1>6, <3>1, <3>2
    <2>3. TurnOk(s, At(Failed(d), Len(input) + 1), b, e, c)
      BY <1>1, <2>2, FailedTurn
    <2> QED
      BY <2>1, <2>3
  <1> QED
    BY <1>1, <1>2, <1>3, <1>4, <1>5, <1>6 DEF States

\* push takes a frame to its end.
LEMMA PushKeeps ==
    ASSUME NEW s \in Bytes, NEW b \in 0..Len(s), NEW e \in (b + 1)..Len(s), NEW d, Good(s, d, b)
    PROVE  Good(s, Pushed(d, SubSeq(s, b + 1, e)), e)
  <1> DEFINE input == SubSeq(s, b + 1, e)
             L == Len(input)
             D == 0..L
             R == {x \in [dec : Decoders, cursor : Nat] :
                     x.cursor \in 1..(L + 1) /\ Good(s, x.dec, b + x.cursor - 1)}
             Eq(u) == u = [n \in D |-> IF n = 0 THEN At(d, 1) ELSE NextTurn(u[n - 1], input)]
             G == CHOOSE u : Eq(u)
             base == [n \in D |-> At(d, 1)]
             h == [y \in D \X R |-> NextTurn(y[2], input)]
             next == [n \in D |-> IF n = 0 THEN 0 ELSE n - 1]
             m == [n \in D |-> n]
  <1>0. Len(s) \in Nat /\ b \in Nat /\ e \in Nat /\ L = e - b /\ L \in Nat /\ b + 1 - 1 = b /\ b + (L + 1) - 1 = e
    BY FrameIs DEF Bytes
  <1>1. Pushed(d, input) = G[L].dec
    BY DEF Pushed
  <1>2. At(d, 1) \in R
    <2> DEFINE x == At(d, 1)
    <2>1. x.dec = d /\ x.cursor = 1 /\ x = [dec |-> d, cursor |-> 1]
      BY DEF At
    <2>2. d \in Decoders
      BY DEF Good
    <2>3. x \in [dec : Decoders, cursor : Nat]
      BY <2>1, <2>2
    <2>4. 1 \in 1..(L + 1) /\ Good(s, d, b + 1 - 1)
      BY <1>0
    <2> HIDE DEF x, L
    <2>5. x.cursor \in 1..(L + 1) /\ Good(s, x.dec, b + x.cursor - 1)
      BY <2>1, <2>4
    <2>6. x \in R
      BY <2>3, <2>5
    <2> QED
      BY <2>6 DEF x
  <1>3. ASSUME NEW x \in R
        PROVE  /\ NextTurn(x, input) \in R
               /\ x.cursor <= L => NextTurn(x, input).cursor > x.cursor
               /\ x.cursor > L => NextTurn(x, input) = x
    <2>0. x \in [dec : Decoders, cursor : Nat] /\ x.cursor \in 1..(L + 1) /\ Good(s, x.dec, b + x.cursor - 1)
          /\ x.cursor \in Nat
      <3> HIDE DEF L
      <3> QED
        OBVIOUS
    <2>1. CASE x.cursor > L
      <3>1. NextTurn(x, input) = x
        BY <2>1 DEF NextTurn
      <3> HIDE DEF L, R
      <3>2. ~(x.cursor <= L)
        BY <1>0, <2>0, <2>1
      <3> QED
        BY <3>1, <3>2
    <2>2. CASE x.cursor <= L
      <3> DEFINE c == x.cursor
                 y == Turn(x.dec, input, c)
      <3>1. NextTurn(x, input) = y
        <4>1. ~(x.cursor > L)
          <5> HIDE DEF L
          <5> QED
            BY <1>0, <2>0, <2>2
        <4> QED
          BY <4>1 DEF NextTurn
      <3>2. c \in 1..(e - b)
        BY <1>0, <2>0, <2>2
      <3>3. TurnOk(s, y, b, e, c)
        <4>1. Good(s, x.dec, b + c - 1)
          BY <2>0
        <4> HIDE DEF c
        <4> QED
          BY <3>2, <4>1, TurnKeeps
      <3>4. \E f, k : y = At(f, k)
        <4>1. HeaderTurn(x.dec, input, c) = At(HeaderTurn(x.dec, input, c).dec, HeaderTurn(x.dec, input, c).cursor)
          BY DEF HeaderTurn, At
        <4>2. DataTurn(x.dec, input, c) = At(DataTurn(x.dec, input, c).dec, DataTurn(x.dec, input, c).cursor)
          BY DEF DataTurn, At
        <4>3. CrlfTurn(x.dec, input, c) = At(CrlfTurn(x.dec, input, c).dec, CrlfTurn(x.dec, input, c).cursor)
          BY DEF CrlfTurn, At
        <4>4. TrailersTurn(x.dec, input, c) =
                 At(TrailersTurn(x.dec, input, c).dec, TrailersTurn(x.dec, input, c).cursor)
          BY DEF TrailersTurn, At
        <4> HIDE DEF c, L
        <4>5. \/ y = HeaderTurn(x.dec, input, c) \/ y = DataTurn(x.dec, input, c)
              \/ y = CrlfTurn(x.dec, input, c) \/ y = TrailersTurn(x.dec, input, c)
              \/ y = At(Failed(x.dec), Len(input) + 1)
          <5>1. x.dec.st \in States
            BY <2>0 DEF Decoders
          <5> QED
            BY <5>1 DEF Turn, States
        <4> HIDE DEF y
        <4> QED
          BY <4>1, <4>2, <4>3, <4>4, <4>5
      <3>5. PICK f, k : y = At(f, k)
        BY <3>4
      <3>6. y = [dec |-> f, cursor |-> k]
        BY <3>5 DEF At
      <3> HIDE DEF y, c, L
      <3>7. y.dec = f /\ y.cursor = k
        BY <3>6
      <3>8. k \in (c + 1)..(e - b + 1) /\ Good(s, f, b + k - 1) /\ f \in Decoders
        BY <3>3, <3>7 DEF TurnOk, Good
      <3>9. k \in Nat /\ k \in 1..(L + 1) /\ k > c
        BY <1>0, <3>2, <3>8
      <3>10. y \in R
        BY <3>6, <3>7, <3>8, <3>9
      <3>11. ~(x.cursor > L)
        BY <1>0, <2>0, <2>2
      <3> QED
        BY <3>1, <3>7, <3>9, <3>10, <3>11 DEF c
    <2> QED
      <3>1. x.cursor > L \/ x.cursor <= L
        <4> HIDE DEF L
        <4> QED
          BY <1>0, <2>0
      <3> QED
        BY <2>1, <2>2, <3>1
  <1> HIDE DEF R, L
  <1>4. base \in [D -> R]
    BY <1>2
  <1>5. h \in [D \X R -> R] /\ \A n \in D, x \in R : h[<<n, x>>] = NextTurn(x, input)
    <2> HIDE DEF input, D
    <2>1. \A x \in R : NextTurn(x, input) \in R
      BY <1>3
    <2> QED
      BY <2>1
  <1>6. next \in [D -> D] /\ \A n \in D : next[n] = IF n = 0 THEN 0 ELSE n - 1
    BY <1>0
  <1>7. m \in [D -> 0..L] /\ \A n \in D : m[n] = n
    BY <1>0
  <1>8. \A n \in D \ {0} : m[next[n]] < m[n]
    <2> TAKE n \in D \ {0}
    <2>1. next[n] = n - 1 /\ n - 1 \in D
      BY <1>0, <1>6
    <2> HIDE DEF m, next
    <2>2. m[n - 1] = n - 1 /\ m[n] = n
      BY <1>7, <2>1
    <2> QED
      BY <1>0, <2>1, <2>2
  <1>9. PICK u \in [D -> R] : Descends(u, D, {0}, base, h, next)
    <2>1. {0} \in SUBSET D
      BY <1>0
    <2> HIDE DEF D, base, h, next, m
    <2> QED
      BY <1>0, <1>4, <1>5, <1>6, <1>7, <1>8, <2>1, DescentExists
  <1>10. Eq(u)
    <2>1. ASSUME NEW n \in D PROVE u[n] = IF n = 0 THEN At(d, 1) ELSE NextTurn(u[n - 1], input)
      <3>1. u[n] = IF n \in {0} THEN base[n] ELSE h[<<n, u[next[n]]>>]
        BY <1>9 DEF Descends
      <3>2. CASE n = 0
        <4>1. base[n] = At(d, 1)
          OBVIOUS
        <4> HIDE DEF base
        <4> QED
          BY <3>1, <3>2, <4>1
      <3>3. CASE n # 0
        <4>1. next[n] = n - 1 /\ n - 1 \in D
          BY <1>0, <1>6, <3>3
        <4>2. u[n - 1] \in R
          BY <1>9, <4>1
        <4> HIDE DEF h, next, D, input
        <4>3. h[<<n, u[n - 1]>>] = NextTurn(u[n - 1], input)
          BY <1>5, <4>2
        <4> QED
          BY <3>1, <3>3, <4>1, <4>3
      <3> QED
        BY <3>2, <3>3
    <2> HIDE DEF D, input
    <2> QED
      BY <1>9, <2>1
  <1>11. Eq(G)
    BY <1>10
  <1> HIDE DEF G
  <1>12. \A n \in D : G[n] = IF n = 0 THEN At(d, 1) ELSE NextTurn(G[n - 1], input)
    BY <1>11
  <1> DEFINE T == {n \in D : G[n] \in R /\ (G[n].cursor >= n + 1)}
  <1>13. 0 \in T
    <2>1. 0 \in D
      BY <1>0
    <2>2. G[0] = At(d, 1)
      BY <1>12, <2>1
    <2>3. At(d, 1).cursor = 1 /\ 1 >= 0 + 1
      BY DEF At
    <2> QED
      BY <1>2, <2>1, <2>2, <2>3
  <1>14. ASSUME NEW n \in 1..L, n - 1 \in T PROVE n \in T
    <2>0. n \in D /\ n - 1 \in D /\ n # 0 /\ n \in Nat
      BY <1>0
    <2> DEFINE x == G[n - 1]
               y == NextTurn(x, input)
    <2>1. G[n] = y
      BY <1>12, <2>0
    <2>2. x \in R /\ x.cursor >= (n - 1) + 1
      BY <1>14
    <2>3. /\ y \in R /\ (x.cursor <= L => y.cursor > x.cursor) /\ (x.cursor > L => y = x)
      BY <1>3, <2>2
    <2> HIDE DEF x, y
    <2>4. x.cursor \in Nat /\ y.cursor \in Nat
      BY <2>2, <2>3 DEF R
    <2>5. y.cursor >= n + 1
      <3>1. CASE x.cursor <= L
        BY <1>0, <2>0, <2>2, <2>3, <2>4, <3>1
      <3>2. CASE x.cursor > L
        BY <1>0, <2>0, <2>3, <2>4, <3>2
      <3> QED
        BY <1>0, <2>4, <3>1, <3>2
    <2> QED
      BY <2>0, <2>1, <2>3, <2>5
  <1>15. L \in T
    <2> HIDE DEF T
    <2>1. \A n \in 0..L : n \in T
      BY <1>0, <1>13, <1>14, UpTo
    <2> QED
      BY <1>0, <2>1
  <1>16. G[L] \in R /\ G[L].cursor >= L + 1
    BY <1>15
  <1>17. G[L].cursor \in 1..(L + 1) /\ Good(s, G[L].dec, b + G[L].cursor - 1)
    BY <1>16 DEF R
  <1>18. G[L].cursor = L + 1
    BY <1>0, <1>16, <1>17
  <1>19. Good(s, G[L].dec, e)
    BY <1>0, <1>17, <1>18
  <1> QED
    BY <1>1, <1>19

-----------------------------------------------------------------------------

\* The decoder has been fed a prefix of a body, and knows of it what Good says.
DecoderInv ==
    /\ encoded \in Bytes /\ fed \in 0..Len(encoded)
    /\ Good(encoded, dec, fed)

LEMMA DecoderStarts ==
    ASSUME DecoderInit PROVE DecoderInv
  <1> DEFINE s == encoded
  <1>1. s \in Bytes /\ fed = 0 /\ dec = NewDecoder
    BY DecoderAssumption DEF DecoderInit, Bytes
  <1>2. Len(s) \in Nat /\ 0 \in 0..Len(s) /\ 1 \in 1..(Len(s) + 1) /\ MaxSection \in Nat
    BY <1>1, DecoderAssumption DEF Bytes
  <1>3. /\ dec.st = "header" /\ dec.line = <<>> /\ dec.out = <<>> /\ dec.left = 0
        /\ dec = [st |-> "header", left |-> 0, line |-> <<>>, out |-> <<>>]
    BY <1>1 DEF NewDecoder
  <1>4. <<>> \in Bytes
    BY DEF Bytes
  <1>5. dec \in Decoders
    BY <1>3, <1>4 DEF Decoders, States
  <1>6. SubSeq(s, 1, 0) = <<>>
    <2>1. SubSeq(s, 0 + 1, 0) = <<>>
      BY <1>1, <1>2, EmptySlice
    <2> QED
      BY <2>1
  <1>7. Continues(s, <<>>, WholeFrom(s)[1])
    <2>1. WholeFrom(s)[1] \in Results
      BY <1>1, <1>2, WholeUnfold
    <2> DEFINE w == WholeFrom(s)[1]
    <2>2. w.data \in Bytes /\ w.longest \in Nat
      BY <2>1 DEF Results
    <2>3. <<>> \o w.data = w.data
      BY <2>2, ConcatEmptySeq DEF Bytes
    <2>4. w.longest >= w.longest
      BY <2>2
    <2>5. Whole(s) = w
      BY DEF Whole
    <2> HIDE DEF w
    <2> QED
      BY <2>3, <2>4, <2>5 DEF Continues, w
  <1>8. GoodHeader(s, dec, 0)
    <2>1. 1 \in 1..(0 + 1) /\ 0 - 1 + 1 <= MaxSection /\ 1..(0 - 1) = {}
      BY <1>2
    <2> QED
      BY <1>3, <1>6, <1>7, <2>1 DEF GoodHeader
  <1>9. Good(s, dec, 0)
    BY <1>3, <1>5, <1>8 DEF Good
  <1> QED
    BY <1>1, <1>2, <1>9 DEF DecoderInv

LEMMA DecoderStep ==
    ASSUME DecoderInv, [DecoderNext]_decoderVars PROVE DecoderInv'
  <1>1. CASE Push
    <2>1. PICK to \in (fed + 1)..Len(encoded) :
            dec' = Pushed(dec, SubSeq(encoded, fed + 1, to)) /\ fed' = to
      BY <1>1 DEF Push
    <2>2. encoded' = encoded /\ to \in 0..Len(encoded)
      BY <1>1 DEF Push, DecoderInv, Bytes
    <2>3. Good(encoded, Pushed(dec, SubSeq(encoded, fed + 1, to)), to)
      BY PushKeeps DEF DecoderInv
    <2> QED
      BY <2>1, <2>2, <2>3 DEF DecoderInv
  <1>2. CASE UNCHANGED decoderVars
    BY <1>2 DEF decoderVars, DecoderInv
  <1> QED
    BY <1>1, <1>2 DEF DecoderNext

LEMMA DecoderInvIsEnough ==
    ASSUME DecoderInv PROVE DecodedAsWhole
  <1> DEFINE s == encoded
             o == Whole(s)
             n == Len(s)
  <1>0. s \in Bytes /\ n \in Nat /\ fed \in 0..n /\ Good(s, dec, fed) /\ MaxSection \in Nat
        /\ 1 \in 1..(n + 1) /\ dec.st \in States
    BY DecoderAssumption DEF DecoderInv, Bytes, Good, Decoders
  <1>1. o.ok \in BOOLEAN /\ o.longest \in Nat
    BY <1>0, WholeUnfold DEF Whole, Results
  <1> SUFFICES ASSUME fed = n \/ dec.st = "failed"
               PROVE  \/ o.longest > MaxSection + 1 /\ dec.st = "failed"
                      \/ (dec.st = "done") = o.ok /\ (o.ok => dec.out = o.data)
    BY DEF DecodedAsWhole
  <1>2. CASE dec.st = "failed"
    <2>1. Refused(s)
      BY <1>0, <1>2 DEF Good
    <2> HIDE DEF o
    <2> QED
      BY <1>1, <1>2, <2>1 DEF Refused, o
  <1>3. CASE dec.st # "failed"
    <2>1. fed = n /\ Good(s, dec, n)
      BY <1>0, <1>3
    <2>2. CASE dec.st = "done"
      <3>1. Continues(s, dec.out, RestAfterEnd(s, n))
        BY <2>1, <2>2 DEF Good, GoodEnd
      <3>2. o.ok = TRUE /\ o.data = dec.out \o <<>>
        BY <3>1 DEF Continues, RestAfterEnd
      <3>3. dec.out \in Bytes
        BY <2>1 DEF Good, Decoders
      <3>4. dec.out \o <<>> = dec.out
        BY <3>3, ConcatEmptySeq DEF Bytes
      <3> HIDE DEF o
      <3> QED
        BY <2>2, <3>2, <3>4
    <2>3. CASE dec.st # "done"
      <3> SUFFICES ~o.ok
        BY <1>1, <2>3
      <3>1. CASE dec.st = "header"
        <4>1. PICK p \in 1..(n + 1) : (\A i \in p..(n - 1) : ~CrlfAt(s, i)) /\ Continues(s, dec.out, WholeFrom(s)[p])
          BY <2>1, <3>1 DEF Good, GoodHeader
        <4>2. AfterCrlf(s, p) = 0
          <5>1. AfterCrlf(s, p) \in (p + 2)..(n + 1) => AfterCrlf(s, p) - 2 \in p..(n - 1)
            BY <1>0
          <5> QED
            BY <1>0, <4>1, <5>1, AfterCrlfSpec
        <4>3. WholeFrom(s)[p] = Nothing
          BY <1>0, <4>2, WholeUnfold DEF DecodeStep, NoChunk
        <4> QED
          BY <4>1, <4>3 DEF Continues, Nothing
      <3>2. CASE dec.st = "data"
        <4>1. dec.left \in Nat /\ Continues(s, dec.out, RestOfData(s, n + 1, dec.left))
          BY <2>1, <3>2 DEF Good, GoodData, Decoders
        <4>2. (n + 1) + dec.left + 1 > n
          BY <1>0, <4>1
        <4>3. RestOfData(s, n + 1, dec.left) = Nothing
          BY <4>2 DEF RestOfData
        <4> QED
          BY <4>1, <4>3 DEF Continues, Nothing
      <3>3. CASE dec.st = "cr"
        <4>1. Continues(s, dec.out, RestOfData(s, n + 1, 0))
          BY <2>1, <3>3 DEF Good, GoodCr
        <4>2. n + 1 \in 1..(n + 1) /\ ~((n + 1) + 1 <= n)
          BY <1>0
        <4> QED
          BY <1>0, <4>1, <4>2, NoCrlfRefused
      <3>4. CASE dec.st = "lf"
        <4>1. n >= 1 /\ Continues(s, dec.out, RestOfData(s, n, 0))
          BY <2>1, <3>4 DEF Good, GoodLf
        <4>2. n \in 1..(n + 1) /\ ~(n + 1 <= n)
          BY <1>0, <4>1
        <4> QED
          BY <1>0, <4>1, <4>2, NoCrlfRefused
      <3>5. CASE dec.st = "trailers"
        <4>1. PICK p \in 1..(n + 1) : (\A k \in p..n : ~SectionEnds(SubSeq(s, p, k)))
                                      /\ Continues(s, dec.out, RestOfTrailers(s, p))
          BY <2>1, <3>5 DEF Good, GoodTrailers
        <4>2. ASSUME o.ok PROVE FALSE
          <5>1. n + 1 >= p + 2 /\ SectionEnds(SubSeq(s, p, n))
            BY <1>0, <4>1, <4>2, AcceptedTrailers
          <5>2. n \in p..n
            BY <1>0, <5>1
          <5> QED
            BY <4>1, <5>1, <5>2
        <4> QED
          BY <4>2
      <3> QED
        BY <1>0, <1>3, <2>3, <3>1, <3>2, <3>3, <3>4, <3>5 DEF States
    <2> QED
      BY <2>2, <2>3
  <1> QED
    BY <1>2, <1>3

\* However a body is cut into frames, IncrementalAwsChunkedDecoder emits what
\* decode_aws_chunked decodes the whole body to, and refuses it when that does,
\* but for size lines and trailer sections over the cap.
THEOREM FramesDecodeAsWhole == DecoderSpec => []DecodedAsWhole
  <1>1. DecoderInit => DecoderInv
    BY DecoderStarts
  <1>2. DecoderInv /\ [DecoderNext]_decoderVars => DecoderInv'
    BY DecoderStep
  <1>3. DecoderInv => DecodedAsWhole
    BY DecoderInvIsEnough
  <1> QED
    BY <1>1, <1>2, <1>3, PTL DEF DecoderSpec

=============================================================================
