----------------------------- MODULE MCPairing -----------------------------
(* Pairing with two pins.                                                   *)
EXTENDS Pairing

MCPins == {"123456", "654321"}
=============================================================================
