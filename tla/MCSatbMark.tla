----------------------------- MODULE MCSatbMark -----------------------------
(* Objects and mutators are interchangeable.                               *)
EXTENDS SatbMark, TLC

SatbSymmetry == Permutations(Objects) \cup Permutations(Mutators)
=============================================================================
