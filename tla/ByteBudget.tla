----------------------------- MODULE ByteBudget -----------------------------
(***************************************************************************)
(* What a byte ceiling promises: at every moment the bytes the holders     *)
(* hold add up to at most the ceiling, a holder only adds to its own share *)
(* or gives all of it back.  MemoryLedger implements it with one atomic    *)
(* counter and no lock.                                                    *)
(***************************************************************************)
EXTENDS Integers, Functions

CONSTANTS Holders, Ceiling, MaxTaken

VARIABLE held

BudgetInit == held = [h \in Holders |-> 0]

Total == FoldFunction(+, 0, held)

\* One holder takes n more bytes, all of them or none.
Take(h) ==
    \E n \in 1..MaxTaken :
        /\ Total + n <= Ceiling
        /\ held' = [held EXCEPT ![h] = @ + n]

Give(h) ==
    /\ held[h] > 0
    /\ held' = [held EXCEPT ![h] = 0]

BudgetNext == \E h \in Holders : Take(h) \/ Give(h)

BudgetSpec == BudgetInit /\ [][BudgetNext]_held

=============================================================================
