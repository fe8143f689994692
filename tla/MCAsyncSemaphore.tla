-------------------------- MODULE MCAsyncSemaphore --------------------------
(* AsyncSemaphore for TLC.  Its run checks liveness, so it uses no symmetry. *)
EXTENDS AsyncSemaphoreRefinement
=============================================================================
