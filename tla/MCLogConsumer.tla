---------------------------- MODULE MCLogConsumer ----------------------------
(* Small instances of LogConsumer for TLC.                                 *)
EXTENDS LogConsumer, TLC

CONSTANTS a1, a2

TwoAdders == {a1, a2}
=============================================================================
