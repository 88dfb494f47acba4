--------------------------- MODULE MCProtocolFsm ---------------------------
(* The two machines at both peers, with two pauses.                        *)
EXTENDS ProtocolFsm
=============================================================================
