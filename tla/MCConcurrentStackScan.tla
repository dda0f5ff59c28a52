----------------------- MODULE MCConcurrentStackScan -----------------------
(* Two or three mutators.                                                  *)
EXTENDS ConcurrentStackScan
=============================================================================
