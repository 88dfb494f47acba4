----------------------------- MODULE MCConsent -----------------------------
(* Instances of Consent whose requests share a key, so that their offers   *)
(* replace and remove each other: pairings of one peer, or transfers with  *)
(* one id.                                                                 *)
EXTENDS Consent, TLC

OneKey == [h \in Handlers |-> "key"]

(* Watchers are interchangeable, and so are confirm commands.              *)
Symmetry == Permutations(Watchers) \cup Permutations(Confirms)
=============================================================================
