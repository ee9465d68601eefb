---------------------------- MODULE LayerGeometry ----------------------------
(***************************************************************************)
(* The arithmetic of layer surfaces (position and next_size in             *)
(* layer-shell.cpp).  Both treat the two axes alike, so one axis is        *)
(* defined here: an axis has a low edge (left, top) and a high edge (right,*)
(* bottom).  Values are C integers small enough not to overflow; division  *)
(* truncates towards zero.                                                 *)
(***************************************************************************)
EXTENDS Integers

Half(n) == IF n >= 0 THEN n \div 2 ELSE -((-n) \div 2)

(* Mutant: the margins of a centred surface are not halved. *)
PositionFullMargins(low, high, size, out, lm, hm) ==
    IF low = high THEN Half(out) - Half(size) + lm - hm
    ELSE IF high  THEN out - size - hm
    ELSE lm

(* low, high: the surface is anchored to that edge; lm, hm: their margins   *)
Position(low, high, size, out, lm, hm) ==
    IF low = high THEN Half(out) - Half(size) + Half(lm) - Half(hm)
    ELSE IF high  THEN out - size - hm
    ELSE lm

NextSize(low, high, size, out, lm, hm, req) ==
    IF low /\ high THEN out - lm - hm
    ELSE IF req > 0 THEN req ELSE size

=============================================================================
