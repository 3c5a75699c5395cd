--------------------------- MODULE MCBatchConsumer ---------------------------
(* Small instances of BatchConsumer for TLC.                               *)
EXTENDS BatchConsumer, TLC

CONSTANTS a1, a2, r1, r2, r3, r4, r5

OneAdder == {a1}
TwoAdders == {a1, a2}
TwoRecords == {r1, r2}
ThreeRecords == {r1, r2, r3}
FourRecords == {r1, r2, r3, r4}
FiveRecords == {r1, r2, r3, r4, r5}

(* Adders and records are interchangeable. *)
Interchangeable == Permutations(Adders) \cup Permutations(Records)
=============================================================================
