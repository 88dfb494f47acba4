----------------------------- MODULE MCFfiSession -----------------------------
EXTENDS FfiSession

(* Directories only; a file larger than the window and an empty file after *)
(* it; an empty file before another one.                                   *)
SmallManifests == {<<>>, <<2, 0>>, <<0, 1>>}
=============================================================================
