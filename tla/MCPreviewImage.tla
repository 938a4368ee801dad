--------------------------- MODULE MCPreviewImage ---------------------------
(* Two viewers (interchangeable), a cache of two ticks and a clock that    *)
(* runs long enough for two cache periods and an outage between them.      *)
EXTENDS PreviewImage, TLC

CONSTANTS v1, v2

MCViewers == {v1, v2}
Symmetry  == Permutations(MCViewers)
=============================================================================
