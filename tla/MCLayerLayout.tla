---------------------------- MODULE MCLayerLayout ----------------------------
(* Small instances of LayerLayout for TLC. *)
EXTENDS LayerLayout, TLC

Pair(x, y) == [a \in Axes |-> IF a = "x" THEN x ELSE y]
MarginsOf(l, r, t, b) == [left |-> l, right |-> r, top |-> t, bottom |-> b]
NoMargins == MarginsOf(0, 0, 0, 0)
Nothing == {}
NoMargin == {NoMargins}

(* The exchange: stretched on one axis, on both, on none; an odd and an     *)
(* even output; margins that leave room or less than none; a request for   *)
(* half of an axis, and one beyond INT32_MAX.                              *)
ExchangeAnchors ==
    {{}, {"bottom", "right"}, {"left", "right", "top"}, {"left", "right", "top", "bottom"}}
ExchangeMargins == {MarginsOf(1, 0, 0, 2), MarginsOf(1, 2, 1, 0), MarginsOf(4, 3, -1, 0)}
ExchangeRequests == {Pair(2, 0), Pair(15, 3)}
ExchangeOutputs == {Pair(5, 4), Pair(4, 5)}
OnlyOutput == {Pair(5, 4)}

(* Margins that use up the whole width. *)
NothingLeft == {MarginsOf(2, 3, 0, 0)}

(* Panels at the four edges, and something that is not a panel.  Three of   *)
(* them take more than the output has.                                     *)
Panels ==
    {{"left", "right", "top"}, {"left", "right", "bottom"}, {"top", "bottom", "left"},
     {"top", "bottom", "right"}, {"top"}}

PanelZones == {-1, 2}

Interchangeable == Permutations(Ctxs)

=============================================================================
