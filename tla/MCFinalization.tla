--------------------------- MODULE MCFinalization ---------------------------
(* Two mutators call RunFinalization while an object is handed over, and   *)
(* the RP thread is stopped and started.                                   *)
EXTENDS Finalization
=============================================================================
