----------------------------- MODULE MCReceiving -----------------------------
(* Receiving with two processes, so that one restarts the other or runs    *)
(* beside it, three requests, which is what it takes for advertisement and *)
(* switch to part, and two connections for one permit.                     *)
EXTENDS Receiving
=============================================================================
