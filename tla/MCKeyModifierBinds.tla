------------------------- MODULE MCKeyModifierBinds -------------------------
(* Small instances of KeyModifierBinds for TLC: a second has three          *)
(* milliseconds of two nanoseconds, and a tap takes less than two           *)
(* milliseconds.                                                           *)
EXTENDS KeyModifierBinds

Substitutes == [k \in Bound |-> IF k = "caps" THEN "esc" ELSE "paren"]

=============================================================================
