------------------------- MODULE MCDeliveryReceipts -------------------------
(* Small instances of DeliveryReceipts: a message with an id, and an id of a    *)
(* message that was sent by other means.                                         *)
EXTENDS DeliveryReceipts, TLC

CONSTANTS m1, own1, foreign

MCOwner == (own1 :> m1) @@ (foreign :> NoMessage)
=============================================================================
