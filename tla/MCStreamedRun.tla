--------------------------- MODULE MCStreamedRun ---------------------------
(* One stream of at most three pieces, in both modes and by both endpoints.   *)
EXTENDS StreamedRun
=============================================================================
