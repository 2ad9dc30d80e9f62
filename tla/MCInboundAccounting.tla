------------------------- MODULE MCInboundAccounting -------------------------
(***************************************************************************)
(* Two inbounds on two ports, so that a port can change hands.             *)
(***************************************************************************)
EXTENDS InboundAccounting
=============================================================================
