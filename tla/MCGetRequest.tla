---------------------------- MODULE MCGetRequest ----------------------------
EXTENDS GetRequest, TLC

CONSTANTS r1, r2, a, b

Plain(kind) == [kind |-> kind, im |-> 0, inm |-> 0, ir |-> 0, signed |-> FALSE,
                policy |-> "cache"]

\* Full GETs and part GETs, with and without a condition.
ObjectShapes ==
    {Plain("get"), [Plain("get") EXCEPT !.im = 1], [Plain("get") EXCEPT !.inm = 2],
     Plain("part"), [Plain("get") EXCEPT !.policy = "nocache"],
     [Plain("get") EXCEPT !.policy = "disabled"]}
\* Range GETs: unconditional, signed, and with each kind of condition.
RangeShapes ==
    {Plain("range"), [Plain("range") EXCEPT !.inm = 1, !.signed = TRUE],
     [Plain("range") EXCEPT !.im = 1], [Plain("range") EXCEPT !.im = 2],
     [Plain("range") EXCEPT !.ir = 1]}
AllShapes == ObjectShapes \cup RangeShapes
NotModifiedRange == {[Plain("range") EXCEPT !.inm = 2]}

RequestSymmetry == Permutations(Requests)

=============================================================================
