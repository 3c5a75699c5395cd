----------------------------- MODULE MCLifecycle -----------------------------
(* Small instances of Lifecycle for TLC.                                   *)
EXTENDS Lifecycle, TLC

CONSTANTS x1, x2

TwoIndexes == {x1, x2}

(* An interval the sync clock replaces by the default, none, a good one.  *)
SomeIntervals == {-1, 0, 5}

(* Of the files of the first date, one may be left, and that is full.      *)
OneFullFile == {s \in [Files -> {0, FileSize}] : \A f, g \in Files : s[f] > 0 /\ s[g] > 0 => f = g}
=============================================================================
