----------------------------- MODULE MCPageFill -----------------------------
(* Small instances of PageFill for TLC.                                    *)
EXTENDS PageFill, TLC

CONSTANTS r1, r2, r3, g1, g2, a, b

TwoRequests == {r1, r2}
ThreeRequests == {r1, r2, r3}
TwoPages == {g1, g2}
OnePage == {g1}
\* The first page may be cached in part.
MCPartsOf == [p \in Pages |-> IF p = g1 THEN {a, b} ELSE {a}]
\* One request spans both pages, the other one of them.
SpanWants == (r1 :> {g1, g2}) @@ (r2 :> {g1})
SameWants == [r \in Requests |-> {g1}]
OnePart == [p \in Pages |-> {a}]
\* The second request carries If-Match for the first version.
SecondConditional == [r \in Requests |-> IF r = r2 THEN 1 ELSE NoVersion]
=============================================================================
