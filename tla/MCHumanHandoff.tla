--------------------------- MODULE MCHumanHandoff ---------------------------
(* HumanHandoff for TLC: one call, two messages and the conversations they need. *)
EXTENDS HumanHandoff
=============================================================================
