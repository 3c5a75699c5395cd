--------------------------- MODULE OrderedDelivery ---------------------------
(***************************************************************************)
(* What a buffering stage of the log pipeline promises, whatever its       *)
(* internal buffers and locks: records are accepted one at a time, and     *)
(* handed to the next stage in the order they were accepted, each exactly  *)
(* once, in chunks of any size.                                            *)
(***************************************************************************)
EXTENDS Integers, Sequences, Functions

CONSTANT Records    \* the records a client may submit; each one at most once

VARIABLES accepted,   \* the records accepted so far, in order
          delivered   \* the records handed to the next stage, in order

odvars == <<accepted, delivered>>

Init == /\ accepted = <<>>
        /\ delivered = <<>>

(* A client submits a record that was not submitted before. *)
Accept == /\ \E r \in Records \ Range(accepted) : accepted' = Append(accepted, r)
          /\ UNCHANGED delivered

(* The stage hands over the next one or more accepted records. *)
Deliver == /\ \E n \in (Len(delivered) + 1)..Len(accepted) :
                 delivered' = SubSeq(accepted, 1, n)
           /\ UNCHANGED accepted

Next == Accept \/ Deliver

Spec == Init /\ [][Next]_odvars
=============================================================================
