----------------------------- MODULE MCPipeline -----------------------------
(* Small instances of Pipeline for TLC.                                    *)
EXTENDS Pipeline, TLC

CONSTANTS f1, g1

OneFile == {f1}
OneReader == {g1}

WholeLine == {[size |-> 1, line |-> TRUE]}
HalfLines == {[size |-> 1, line |-> FALSE], [size |-> 1, line |-> TRUE]}
NoLimit == -1
=============================================================================
