---------------------------- MODULE MemoryLedger ----------------------------
(***************************************************************************)
(* The in-flight memory ledger: tasks that buffer bodies (an upload, a     *)
(* response kept for the cache, a range assembled from cached pieces)      *)
(* reserve their bytes against one ceiling through a compare-and-exchange  *)
(* loop on one counter, grow the reservation chunk by chunk, and give it   *)
(* back when the Reservation is dropped, cancellation included.            *)
(***************************************************************************)
EXTENDS Integers, FiniteSets, Functions

CONSTANTS
    LedgerTasks,    \* tasks that buffer
    LedgerCeiling,  \* ceiling in bytes, 0: the ledger is disabled
    LedgerWord,     \* 2^64: one more than the counter can hold
    BodyLimit       \* bound: bytes of one body (max_bytes)

ASSUME LedgerAssumption ==
    /\ LedgerCeiling \in Nat /\ LedgerWord \in Nat /\ BodyLimit \in Nat \ {0}
    /\ LedgerCeiling < LedgerWord /\ BodyLimit < LedgerWord /\ IsFiniteSet(LedgerTasks)

VARIABLES
    reserved,   \* InflightLedger::reserved
    peak,       \* InflightLedger::peak
    buffering   \* the tasks

ledgerVars == <<reserved, peak, buffering>>

\* bytes: Reservation::bytes; acc: what is buffered; next: what will be once
\* the loop has its bytes; want: the bytes it asks for; cur: the counter as it
\* last saw it.
Buffering ==
    [pc : {"idle", "loop", "recordPeak", "hold"}, bytes : 0..LedgerWord, acc : 0..BodyLimit,
     next : 0..BodyLimit, want : 0..LedgerWord, cur : 0..LedgerWord]
NoBuffering == [pc |-> "idle", bytes |-> 0, acc |-> 0, next |-> 0, want |-> 0, cur |-> 0]

LedgerInit ==
    /\ reserved = 0 /\ peak = 0
    /\ buffering = [t \in LedgerTasks |-> NoBuffering]

Disabled == LedgerCeiling = 0

\* Both try_reserve and try_grow load the counter once and then loop; a
\* disabled ledger grants at once, and grants no bytes to count.
Ask(t, n, next) ==
    [buffering[t] EXCEPT !.next = next, !.pc = IF Disabled \/ n = 0 THEN "hold" ELSE "loop",
                         !.want = IF Disabled THEN 0 ELSE n,
                         !.cur = IF Disabled THEN 0 ELSE reserved]

\* A task reserves its Content-Length, or nothing when the length is unknown.
Reserve(t) ==
    /\ buffering[t].pc = "idle"
    /\ \E hint \in 0..BodyLimit : buffering' = [buffering EXCEPT ![t] = Ask(t, hint, 0)]
    /\ UNCHANGED <<reserved, peak>>

\* Seeded fault: the sum wraps.
FaultWrappingAdd(a, b) == (a + b) % LedgerWord
\* checked_add; a sum that overflows is over every ceiling.
CheckedAdd(a, b) == IF a + b < LedgerWord THEN a + b ELSE LedgerWord
Granted(t) == CheckedAdd(buffering[t].cur, buffering[t].want) <= LedgerCeiling

\* compare_exchange_weak succeeds: the reservation grows with the counter.
Exchange(t) ==
    /\ buffering[t].pc = "loop" /\ Granted(t)
    /\ reserved = buffering[t].cur
    /\ reserved' = CheckedAdd(reserved, buffering[t].want)
    /\ buffering' = [buffering EXCEPT ![t].pc = "recordPeak",
                        ![t].bytes = @ + buffering[t].want, ![t].cur = reserved']
    /\ UNCHANGED peak

\* It fails, because the counter moved or spuriously; the loop goes on with
\* the value it found.
ExchangeFails(t) ==
    /\ buffering[t].pc = "loop" /\ Granted(t)
    /\ buffering' = [buffering EXCEPT ![t].cur = reserved]
    /\ UNCHANGED <<reserved, peak>>

RecordPeak(t) ==
    /\ buffering[t].pc = "recordPeak"
    /\ peak' = IF buffering[t].cur > peak THEN buffering[t].cur ELSE peak
    /\ buffering' = [buffering EXCEPT ![t] = [@ EXCEPT !.pc = "hold",
                        !.acc = buffering[t].next, !.next = 0, !.want = 0, !.cur = 0]]
    /\ UNCHANGED reserved

\* Seeded fault: what was buffered is given back, not what was reserved.
FaultReleaseBuffered(t) ==
    reserved' = reserved - (IF buffering[t].acc > 0 THEN buffering[t].acc ELSE buffering[t].bytes)
\* Drop of the Reservation.
Release(t) == reserved' = reserved - buffering[t].bytes

\* Over the ceiling: the request is shed, or what was accumulated is aborted;
\* either way the task ends and its reservation is dropped.
Reject(t) ==
    /\ buffering[t].pc = "loop" /\ ~Granted(t)
    /\ Release(t)
    /\ buffering' = [buffering EXCEPT ![t] = NoBuffering]
    /\ UNCHANGED peak

\* A chunk arrives: what the reservation does not cover is asked for first,
\* and the chunk is kept once it is covered.  claim_overlapping does the same
\* for a repair fetch that overlaps its caller's reservation.
Covered(t, n) == Disabled \/ n <= buffering[t].bytes
Chunk(t) ==
    /\ buffering[t].pc = "hold"
    /\ \E n \in 1..(BodyLimit - buffering[t].acc) :
        LET need == buffering[t].acc + n IN
        buffering' = [buffering EXCEPT ![t] =
            IF Covered(t, need) THEN [buffering[t] EXCEPT !.acc = need]
            ELSE Ask(t, need - buffering[t].bytes, need)]
    /\ UNCHANGED <<reserved, peak>>

\* The body is complete, too large, or the client is gone: a cancellation
\* happens at an await, never inside the loop.
Finish(t) ==
    /\ buffering[t].pc = "hold"
    /\ Release(t)
    /\ buffering' = [buffering EXCEPT ![t] = NoBuffering]
    /\ UNCHANGED peak

LedgerNext ==
    \E t \in LedgerTasks :
        \/ Reserve(t) \/ Exchange(t) \/ ExchangeFails(t) \/ RecordPeak(t)
        \/ Reject(t) \/ Chunk(t) \/ Finish(t)

LedgerSpec == LedgerInit /\ [][LedgerNext]_ledgerVars

-----------------------------------------------------------------------------

\* State has its type.
LedgerTypeOK ==
    /\ reserved \in 0..LedgerWord /\ peak \in 0..LedgerWord
    /\ buffering \in [LedgerTasks -> Buffering]

HeldBytes == [t \in LedgerTasks |-> buffering[t].bytes]

\* The counter is the sum of the live reservations, and no task buffers more
\* than it reserved: nothing leaks or is released twice, whoever is rejected,
\* cancelled or loses the exchange.
LedgerCountsHeld ==
    /\ reserved = FoldFunction(+, 0, HeldBytes)
    /\ ~Disabled => \A t \in LedgerTasks : buffering[t].acc <= buffering[t].bytes

Budget == INSTANCE ByteBudget
    WITH Holders <- LedgerTasks, Ceiling <- LedgerCeiling,
         MaxTaken <- BodyLimit, held <- HeldBytes

\* The counter and its loop implement the ceiling: concurrent reservations
\* never add up to more.
LedgerImplementsBudget == Budget!BudgetSpec

=============================================================================
