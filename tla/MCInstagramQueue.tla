--------------------------- MODULE MCInstagramQueue ---------------------------
(* InstagramQueue for TLC: two messages of one customer, two processes. *)
EXTENDS InstagramQueue

CONSTANT ali

MCSender == [j \in Jobs |-> ali]
=============================================================================
