-------------------------- MODULE MCSizeAccounting --------------------------
(* Small instances of SizeAccounting for TLC.                              *)
EXTENDS SizeAccounting

CONSTANTS i1, i2, w1, w2, a

TwoInstances == {i1, i2}
TwoWorkers == {w1, w2}
\* One worker in each process.
OneEach == [w \in Workers |-> IF w = w1 THEN i1 ELSE i2]
OneFile == {a}
\* Larger than the limit by itself.
Three == [f \in Files |-> 3]
=============================================================================
