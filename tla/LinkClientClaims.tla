-------------------------- MODULE LinkClientClaims --------------------------
(* What the repository says of the link that the code does not keep. *)
EXTENDS LinkClient

\* "The client remains usable: start after this connects again, which is what
\* lets unpair followed by pair work in one session" (LinkClient.java:143-145):
\* a link that is wanted and welcome ends up connected, and stays so.
PairingAgainWorks == <>[]Welcome => <>[]Up
=============================================================================
