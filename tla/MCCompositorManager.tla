------------------------- MODULE MCCompositorManager -------------------------
(* Small instances of the compositor manager and its tool for TLC. *)
EXTENDS CompositorManager, LayeredScreenshot, TLC

CONSTANTS s1, s2, d1, d2, o1

(* Addresses a million apart: the two surfaces share a uid. *)
SameUid == (s1 :> 7) @@ (s2 :> 7)

SupportsSome == (d1 :> {"natural-scroll"}) @@ (d2 :> Features)

(* no seat, one with two devices, two with one device each *)
SomeSeats == {<<>>, <<<<d1, d2>>>>, <<<<d1>>, <<d2>>>>}

SomeSubscriptions == {{"surfaces", "inputdevs"}}

SomeCommands ==
    {[op |-> "usage"], get, [op |-> "watch"]} \cup
    [op : {"set-output-scale"}, id : {o1}, scale : {2 * One}] \cup
    [op : {"set-natural-scroll"}, seat : {0}, device : {1}, enable : {TRUE}] \cup
    [op : {"activate-surface"}, uid : {7}]

=============================================================================
