----------------------------- MODULE MCFileWatch -----------------------------
(* Small instances of FileWatch for TLC.                                   *)
EXTENDS FileWatch, TLC

CONSTANTS f1, f2, g1, g2, g3

OneFile == {f1}
TwoFiles == {f1, f2}
TwoReaders == {g1, g2}
ThreeReaders == {g1, g2, g3}

WholeLine == {[size |-> 1, line |-> TRUE]}
LongLine == {[size |-> 1, line |-> FALSE], [size |-> 2, line |-> TRUE]}
NoLimit == -1

(* Files and reader goroutines are interchangeable. *)
Interchangeable == Permutations(Paths) \cup Permutations(Readers)
=============================================================================
