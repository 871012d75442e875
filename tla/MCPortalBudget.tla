--------------------------- MODULE MCPortalBudget ---------------------------
(* Small instances of PortalBudget: a voice note and a text message of one account *)
(* whose ceiling does not cover everything at once.                                *)
EXTENDS PortalBudget, TLC

MCCost == [k \in Kinds \cup {"audio"} |-> IF k = "audio" THEN 2 ELSE 1]
\* The voice note may be retried, the text message is handled beside it.
MCAttempts == [m \in Messages |-> IF m = 1 THEN 2 ELSE 1]
MCPerTurn == [k \in Kinds |-> 1]
=============================================================================
