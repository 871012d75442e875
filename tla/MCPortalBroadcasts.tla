------------------------- MODULE MCPortalBroadcasts -------------------------
(* PortalBroadcasts for TLC: one broadcast to one customer, two senders. *)
EXTENDS PortalBroadcasts

CONSTANTS ali, sara
=============================================================================
