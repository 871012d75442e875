------------------------- MODULE MCMerchantOutbound -------------------------
(* Small instances of MerchantOutbound: one or two messages, one call of the *)
(* handler in each of two processes.                                          *)
EXTENDS MerchantOutbound, TLC

MCIds == Messages \X (1..MaxSends)
MCOwner == [id \in MCIds |-> id[1]]
MCProcess == [s \in Slots |-> s]
=============================================================================
