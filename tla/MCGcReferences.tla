--------------------------- MODULE MCGcReferences ---------------------------
(* Two markers and two references: two markers can race for one reference, *)
(* and a list can have an element before and after the one in hand.        *)
EXTENDS GcReferences
=============================================================================
