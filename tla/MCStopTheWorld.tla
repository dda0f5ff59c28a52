--------------------------- MODULE MCStopTheWorld ---------------------------
(* Two mutators that attach, detach, poll and call native code, one of     *)
(* which also stops the world itself, and one GC thread that stops it.     *)
EXTENDS StopTheWorld
=============================================================================
