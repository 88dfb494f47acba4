-------------------------- MODULE MCDaemonTransfer --------------------------
(* Instances of DaemonTransfer for TLC.                                    *)
EXTENDS DaemonTransfer

(* Two contents under the same name, each with a short last chunk: one of  *)
(* two chunks, and one of three, which is more than the window of two.     *)
TwoSizes == [v \in Versions |-> IF v = "v1" THEN 3 ELSE 5]
=============================================================================
