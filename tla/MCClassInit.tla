----------------------------- MODULE MCClassInit -----------------------------
(* A class C below a class B and an interface P without default method,    *)
(* behind which is an interface D with one; E lacks its second super.  The *)
(* <clinit> of C touches E, F and C itself, that of B touches D.           *)
EXTENDS ClassInit, TLC

MCSupers ==
    "B" :> << >> @@ "C" :> <<"B", "P">> @@ "P" :> <<"D">> @@ "D" :> << >>
        @@ "E" :> <<"D", "Missing">> @@ "F" :> << >>
MCUses == [c \in Classes |-> CASE c = "C" -> {"C", "E", "F"} [] c = "B" -> {"D"} [] OTHER -> {}]
=============================================================================
