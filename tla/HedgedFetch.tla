----------------------------- MODULE HedgedFetch -----------------------------
(***************************************************************************)
(* Hedged upstream fetches: the first byte of a fetch is raced against a   *)
(* second, identical request that starts when the first is late.  The      *)
(* sub-fetches of one client request share a budget of hedges, and one     *)
(* governor per process admits hedges by two counters that every fetch     *)
(* updates without a lock.  The first answer wins and the other request is *)
(* dropped; when both ran into the first-byte timeout the fetch is tried   *)
(* again.                                                                  *)
(***************************************************************************)
EXTENDS Naturals, FiniteSets

CONSTANTS
    Fetches,        \* sub-fetches
    ClientOf,       \* the client request a sub-fetch belongs to
    HedgeBudget,    \* hedge_max_per_request
    FractionNum,    \* max_inflight_fraction, as a quotient
    FractionDen,
    MaxRetries      \* upstream_idle_retries

Clients == {ClientOf[f] : f \in Fetches}

ASSUME HedgeAssumption ==
    /\ IsFiniteSet(Fetches) /\ DOMAIN ClientOf = Fetches
    /\ HedgeBudget \in Nat /\ MaxRetries \in Nat
    /\ FractionNum \in Nat /\ FractionDen \in Nat \ {0}

VARIABLES
    inflightFetches,  \* HedgeGovernor::inflight_fetches
    inflightHedges,   \* HedgeGovernor::inflight_hedges
    budget,           \* hedge_budget of each client request
    issued,           \* history: hedges sent for each client request
    race              \* the fetches

hedgeVars == <<inflightFetches, inflightHedges, budget, issued, race>>

Outcomes == {"none", "response", "error", "timeout", "cancelled"}
\* original and hedge: where the two arms are; an absent hedge was suppressed.
\* fetchesSeen, hedgesSeen: the governor's counters as the hedge arm read them.
Race ==
    [running : BOOLEAN, original : {"waiting", "timeout", "error"},
     hedge : {"sleeping", "claimed", "counting", "deciding", "waiting",
              "absent", "timeout", "error"},
     fetchesSeen : 0..Cardinality(Fetches), hedgesSeen : 0..Cardinality(Fetches),
     attempt : 0..MaxRetries, outcome : Outcomes]
NewRace(attempt, running) ==
    [running |-> running, original |-> "waiting", hedge |-> "sleeping",
     fetchesSeen |-> 0, hedgesSeen |-> 0, attempt |-> attempt, outcome |-> "none"]

HedgeInit ==
    /\ inflightFetches = 0 /\ inflightHedges = 0
    /\ budget = [c \in Clients |-> HedgeBudget]
    /\ issued = [c \in Clients |-> 0]
    /\ race = [f \in Fetches |-> NewRace(0, FALSE)]

Racing(f) == race[f].running
Arm(f, state) ==
    race' = [race EXCEPT ![f].hedge = state, ![f].fetchesSeen = 0, ![f].hedgesSeen = 0]

StartFetch(f) ==
    /\ ~Racing(f) /\ race[f].outcome = "none"
    /\ inflightFetches' = inflightFetches + 1
    /\ race' = [race EXCEPT ![f].running = TRUE]
    /\ UNCHANGED <<inflightHedges, budget, issued>>

\* The end of race_first_byte drops both arms: FetchGuard and, if the hedge is
\* on its way, HedgeGuard.
EndRace(f, after) ==
    /\ inflightFetches' = inflightFetches - 1
    /\ inflightHedges' = inflightHedges - (IF race[f].hedge = "waiting" THEN 1 ELSE 0)
    /\ race' = [race EXCEPT ![f] = after]
    /\ UNCHANGED <<budget, issued>>
Ended(f, outcome) == [NewRace(0, FALSE) EXCEPT !.outcome = outcome]

OriginalAnswers(f) ==
    /\ Racing(f) /\ race[f].original = "waiting"
    /\ EndRace(f, Ended(f, "response"))
OriginalFails(f) ==
    /\ Racing(f) /\ race[f].original = "waiting"
    /\ \E how \in {"timeout", "error"} : race' = [race EXCEPT ![f].original = how]
    /\ UNCHANGED <<inflightFetches, inflightHedges, budget, issued>>

\* trigger_after has passed: take one hedge from the budget of the request.
Trigger(f) ==
    /\ Racing(f) /\ race[f].hedge = "sleeping"
    /\ LET c == ClientOf[f] IN
       IF budget[c] > 0
       THEN budget' = [budget EXCEPT ![c] = @ - 1] /\ Arm(f, "claimed")
       ELSE UNCHANGED budget /\ Arm(f, "absent")
    /\ UNCHANGED <<inflightFetches, inflightHedges, issued>>

\* try_admit_hedge: two loads, a decision, an increment.
LoadFetches(f) ==
    /\ Racing(f) /\ race[f].hedge = "claimed"
    /\ race' = [race EXCEPT ![f].hedge = "counting", ![f].fetchesSeen = inflightFetches]
    /\ UNCHANGED <<inflightFetches, inflightHedges, budget, issued>>
LoadHedges(f) ==
    /\ Racing(f) /\ race[f].hedge = "counting"
    /\ race' = [race EXCEPT ![f].hedge = "deciding", ![f].hedgesSeen = inflightHedges]
    /\ UNCHANGED <<inflightFetches, inflightHedges, budget, issued>>

OverFraction(f) ==
    LET fetches == IF race[f].fetchesSeen = 0 THEN 1 ELSE race[f].fetchesSeen IN
    /\ race[f].hedgesSeen > 0
    /\ (race[f].hedgesSeen + 1) * FractionDen > FractionNum * fetches

Admit(f) ==
    /\ Racing(f) /\ race[f].hedge = "deciding" /\ ~OverFraction(f)
    /\ inflightHedges' = inflightHedges + 1
    /\ issued' = [issued EXCEPT ![ClientOf[f]] = @ + 1]
    /\ Arm(f, "waiting")
    /\ UNCHANGED <<inflightFetches, budget>>

\* Seeded fault: a suppressed hedge returns its share twice.
FaultDoubleRefund(c) == budget' = [budget EXCEPT ![c] = @ + 2]
Refund(c) == budget' = [budget EXCEPT ![c] = @ + 1]
Suppress(f) ==
    /\ Racing(f) /\ race[f].hedge = "deciding" /\ OverFraction(f)
    /\ Refund(ClientOf[f])
    /\ Arm(f, "absent")
    /\ UNCHANGED <<inflightFetches, inflightHedges, issued>>

HedgeAnswers(f) ==
    /\ Racing(f) /\ race[f].hedge = "waiting"
    /\ EndRace(f, Ended(f, "response"))
\* Seeded fault: the guard of a failed hedge is forgotten.
FaultGuardForgotten == UNCHANGED inflightHedges
DropHedgeGuard == inflightHedges' = inflightHedges - 1
HedgeFails(f) ==
    /\ Racing(f) /\ race[f].hedge = "waiting"
    /\ \E how \in {"timeout", "error"} : Arm(f, how)
    /\ DropHedgeGuard
    /\ UNCHANGED <<inflightFetches, budget, issued>>

\* Seeded fault: a suppressed hedge is not counted as finished.
FaultAbsentNotFinished(f) ==
    race[f].original # "waiting" /\ race[f].hedge \in {"timeout", "error"}
\* The race goes on while either arm may still produce a response.
BothFinished(f) ==
    race[f].original # "waiting" /\ race[f].hedge \in {"absent", "timeout", "error"}
AllTimedOut(f) == "error" \notin {race[f].original, race[f].hedge}
NobodyWins(f) ==
    /\ Racing(f) /\ BothFinished(f)
    /\ EndRace(f, IF ~AllTimedOut(f) THEN Ended(f, "error")
                  ELSE IF race[f].attempt < MaxRetries
                  THEN NewRace(race[f].attempt + 1, FALSE)
                  ELSE Ended(f, "timeout"))

\* The client request is dropped: a hedge that was claimed and not sent is
\* lost with its request's budget.
CancelFetch(f) ==
    /\ Racing(f)
    /\ EndRace(f, Ended(f, "cancelled"))

FetchStep(f) ==
    \/ StartFetch(f) \/ OriginalAnswers(f) \/ OriginalFails(f)
    \/ Trigger(f) \/ LoadFetches(f) \/ LoadHedges(f) \/ Admit(f) \/ Suppress(f)
    \/ HedgeAnswers(f) \/ HedgeFails(f) \/ NobodyWins(f)

HedgeDone == (\A f \in Fetches : race[f].outcome # "none") /\ UNCHANGED hedgeVars

HedgeNext == (\E f \in Fetches : FetchStep(f) \/ CancelFetch(f)) \/ HedgeDone

\* The runtime polls every task; each arm has a timeout and the timer fires.
HedgeFairness == \A f \in Fetches : WF_hedgeVars(FetchStep(f))

HedgeSpec == HedgeInit /\ [][HedgeNext]_hedgeVars /\ HedgeFairness

-----------------------------------------------------------------------------

HedgeTypeOK ==
    /\ inflightFetches \in 0..Cardinality(Fetches)
    /\ inflightHedges \in 0..Cardinality(Fetches)
    /\ budget \in [Clients -> 0..HedgeBudget]
    /\ race \in [Fetches -> Race]

\* The governor's counters are the fetches and the hedges under way: no order
\* of answers, failures, timeouts and cancellations leaks or drops one twice.
GovernorCountsGuards ==
    /\ inflightFetches = Cardinality({f \in Fetches : Racing(f)})
    /\ inflightHedges = Cardinality({f \in Fetches : Racing(f) /\ race[f].hedge = "waiting"})

\* docs/HEDGING.md: the budget is shared by the sub-fetches of a request and by
\* its retries, so no client request sends more hedges than its rule allows.
HedgesWithinBudget == \A c \in Clients : issued[c] <= HedgeBudget

\* Every fetch that begins ends, whichever arm is late, fails, is suppressed or
\* retried.
RaceEnds == \A f \in Fetches : Racing(f) ~> race[f].outcome # "none"

=============================================================================
