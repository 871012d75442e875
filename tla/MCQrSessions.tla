----------------------------- MODULE MCQrSessions -----------------------------
(* QrSessions for TLC: one connection and two processes. *)
EXTENDS QrSessions
=============================================================================
