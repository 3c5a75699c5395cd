--------------------------- MODULE MCElasticSender ---------------------------
(* Small instances of ElasticSender for TLC.                               *)
EXTENDS ElasticSender, TLC

CONSTANTS s1, s2

TwoSenders == {s1, s2}
LastRecord == {4}
=============================================================================
