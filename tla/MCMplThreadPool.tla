--------------------------- MODULE MCMplThreadPool ---------------------------
(* Three workers: one can sleep, one wait for a task and one execute; two   *)
(* tasks: one may be forked, or submitted late, while the other runs.       *)
EXTENDS MplThreadPool
=============================================================================
