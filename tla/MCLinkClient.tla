---------------------------- MODULE MCLinkClient ----------------------------
(* Instances of LinkClient for TLC. *)
EXTENDS LinkClientClaims
=============================================================================
