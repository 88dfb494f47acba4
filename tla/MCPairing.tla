------------------------------ MODULE MCPairing ------------------------------
(* Pairing with two sessions, so that two requests meet under one key.     *)
EXTENDS Pairing
=============================================================================
