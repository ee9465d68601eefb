----------------------------- MODULE LayerLayout -----------------------------
(***************************************************************************)
(* How layer surfaces get their place, their size and their share of an    *)
(* output (layer-shell.cpp): requests change the layout state of a context *)
(* at once, a commit places the surface and, if its size is not what the   *)
(* layout asks for, sends a configure event, which the client answers with *)
(* another commit; the desktop shell asks for what is left of the output   *)
(* whenever it places a window.                                            *)
(*                                                                         *)
(* All surfaces are on one output at the origin, live throughout, and      *)
(* react to their commits (the subject of LayerShell).                     *)
(***************************************************************************)
EXTENDS LayerGeometry, SequencesExt

CONSTANTS Ctxs,
          Anchors,     \* values of set_anchor: sets of edges
          Margins,     \* values of set_margin: [Edges -> Int]
          Requests,    \* values of set_size: [Axes -> Nat], below Modulus
          Zones,       \* values of set_exclusive_zone: int32_t
          Outputs,     \* sizes of the output: [Axes -> Nat], int32_t
          MaxSize,     \* the largest buffer a client can make, per axis
          MaxChanges,  \* bound on the changes of layout, client and output
          Modulus      \* 2^32 in the code

Axes == {"x", "y"}
Edges == {"left", "right", "top", "bottom"}
Low == [x |-> "left", y |-> "top"]
High == [x |-> "right", y |-> "bottom"]
Sizes == [Axes -> 1..MaxSize]

(* The values of an int32_t *)
Int32 == -(Modulus \div 2)..(Modulus \div 2 - 1)

ASSUME LayoutConstants ==
    /\ Anchors \subseteq SUBSET Edges
    /\ Margins \subseteq [Edges -> Int]
    /\ Requests \subseteq [Axes -> 0..(Modulus - 1)]
    /\ Zones \subseteq Int32
    /\ Outputs \subseteq [Axes -> 1..(Modulus \div 2 - 1)]
    /\ MaxSize \in Nat /\ MaxChanges \in Nat
    /\ Modulus \in Nat /\ Modulus % 2 = 0
    /\ MaxSize < Modulus \div 2

VARIABLES output,     \* the size of the output
          ctx,        \* layout state of the contexts
          size,       \* of the buffer of the surface; 0 before the first commit
          shown,      \* contexts whose surface is assigned to the output
          position,   \* of the view
          configure,  \* the latest configure event, if the client has not handled it
          dirty,      \* history: contexts whose layout is newer than their commit
          changes     \* history: number of changes made

vars == <<output, ctx, size, shown, position, configure, dirty, changes>>

(* uint32_t to int32_t and back *)
ToInt(n) == IF n < Modulus \div 2 THEN n ELSE n - Modulus

(* Mutant: the size is sent as it is. *)
ToUintNone(n) == n

ToUint(n) == n % Modulus

Layouts == [anchor : SUBSET Edges, margin : [Edges -> Int], zone : Int32,
            req : [Axes -> Int32]]

TypeOK ==
    /\ output \in Outputs
    /\ ctx \in [Ctxs -> Layouts]
    /\ size \in [Ctxs -> [Axes -> 0..MaxSize]]
    /\ shown \subseteq Ctxs
    /\ position \in [Ctxs -> [Axes -> Int]]
    /\ configure \in [Ctxs -> SUBSET [Axes -> 0..(Modulus - 1)]]
    /\ \A k \in Ctxs : Cardinality(configure[k]) <= 1
    /\ dirty \subseteq Ctxs
    /\ changes \in 0..MaxChanges

Zero == [a \in Axes |-> 0]

(* the members' initial values, and the configure sent by the constructor *)
Init ==
    /\ output \in Outputs
    /\ ctx = [k \in Ctxs |-> [anchor |-> {"top"}, margin |-> [e \in Edges |-> 0],
                              req |-> Zero, zone |-> 0]]
    /\ size = [k \in Ctxs |-> Zero]
    /\ shown = {}
    /\ position = [k \in Ctxs |-> Zero]
    /\ configure = [k \in Ctxs |-> {[a \in Axes |-> 1]}]
    /\ dirty = Ctxs
    /\ changes = 0

-----------------------------------------------------------------------------
(* A surface of size s under context c on an output of size o *)

PositionOn(c, s, o) ==
    [a \in Axes |-> Position(Low[a] \in c.anchor, High[a] \in c.anchor,
                             s[a], o[a], c.margin[Low[a]], c.margin[High[a]])]

NextSizeOn(c, s, o) ==
    [a \in Axes |-> NextSize(Low[a] \in c.anchor, High[a] \in c.anchor, s[a], o[a],
                             c.margin[Low[a]], c.margin[High[a]], c.req[a])]

-----------------------------------------------------------------------------
(* Requests: immediate, without a look at the rest of the state *)

Change ==
    /\ changes < MaxChanges
    /\ changes' = changes + 1

Layout(k, c) ==
    /\ Change
    /\ ctx' = [ctx EXCEPT ![k] = c]
    /\ dirty' = dirty \cup {k}
    /\ UNCHANGED <<output, size, shown, position, configure>>

SetSize(k, r) == Layout(k, [ctx[k] EXCEPT !.req = [a \in Axes |-> ToInt(r[a])]])
SetAnchor(k, anchor) == Layout(k, [ctx[k] EXCEPT !.anchor = anchor])
SetExclusiveZone(k, z) == Layout(k, [ctx[k] EXCEPT !.zone = z])
SetMargin(k, m) == Layout(k, [ctx[k] EXCEPT !.margin = m])

(* The output is resized; the plugin does not listen for that. *)
ResizeOutput(o) ==
    /\ Change
    /\ output' = o
    /\ dirty' = Ctxs
    /\ UNCHANGED <<ctx, size, shown, position, configure>>

-----------------------------------------------------------------------------
(* Commits *)

(* Mutant: the size is compared on one axis only. *)
HintOneAxis(k, s, left) ==
    LET next == NextSizeOn(ctx[k], s, output)
    IN IF next["x"] = s["x"] THEN left ELSE {[a \in Axes |-> ToUint(next[a])]}

(* Mutant: the hint is computed from the size of the previous commit. *)
HintLate(k, s, left) ==
    LET next == NextSizeOn(ctx[k], size[k], output)
    IN IF next = s THEN left ELSE {[a \in Axes |-> ToUint(next[a])]}

(* The event to be handled after a commit of size s, if left is what the    *)
(* client still had.                                                       *)
Hint(k, s, left) ==
    LET next == NextSizeOn(ctx[k], s, output)
    IN IF next = s THEN left ELSE {[a \in Axes |-> ToUint(next[a])]}

(* committed_callback, for a surface of size s *)
CommitSized(k, s, left) ==
    /\ size' = [size EXCEPT ![k] = s]
    /\ shown' = shown \cup {k}
    /\ position' = [position EXCEPT ![k] = PositionOn(ctx[k], s, output)]
    /\ configure' = [configure EXCEPT ![k] = Hint(k, s, left)]
    /\ dirty' = dirty \ {k}
    /\ UNCHANGED <<output, ctx>>

(* The client commits for its own reasons, with any size. *)
Commit(k, s) ==
    /\ Change
    /\ CommitSized(k, s, configure[k])

(* The client answers the configure event: it takes the size it is given,   *)
(* and where that is zero the one it decides on.                           *)
Obey(k, s) ==
    /\ \E asked \in configure[k] : \A a \in Axes : asked[a] \in {0, s[a]}
    /\ CommitSized(k, s, {})
    /\ UNCHANGED changes

(* It cannot make a buffer of that size. *)
Dismiss(k) ==
    /\ \E asked \in configure[k], a \in Axes : asked[a] > MaxSize
    /\ configure' = [configure EXCEPT ![k] = {}]
    /\ dirty' = dirty \cup {k}
    /\ UNCHANGED <<output, ctx, size, shown, position, changes>>

Answer(k) == Dismiss(k) \/ \E s \in Sizes : Obey(k, s)

-----------------------------------------------------------------------------
(* The area left to the desktop shell: a pixman_rectangle32_t, whose x and  *)
(* y are int32_t and whose width and height are uint32_t                    *)

(* uint32_t -= int32_t, and int32_t += int32_t as it is compiled *)
Less(n, z) == ToUint(n - z)
Moved(n, z) == ToInt(ToUint(n + z))

(* Mutant: a negative zone counts. *)
ReserveAny(area, c) ==
    CASE c.anchor = {"left", "right", "top"} ->
           [area EXCEPT !.y = Moved(@, c.zone), !.height = Less(@, c.zone)]
      [] c.anchor = {"left", "right", "bottom"} -> [area EXCEPT !.height = Less(@, c.zone)]
      [] c.anchor = {"top", "bottom", "left"} ->
           [area EXCEPT !.x = Moved(@, c.zone), !.width = Less(@, c.zone)]
      [] c.anchor = {"top", "bottom", "right"} -> [area EXCEPT !.width = Less(@, c.zone)]
      [] OTHER -> area

Reserve(area, c) ==
    IF c.zone <= 0 THEN area
    ELSE CASE c.anchor = {"left", "right", "top"} ->
                [area EXCEPT !.y = Moved(@, c.zone), !.height = Less(@, c.zone)]
           [] c.anchor = {"left", "right", "bottom"} ->
                [area EXCEPT !.height = Less(@, c.zone)]
           [] c.anchor = {"top", "bottom", "left"} ->
                [area EXCEPT !.x = Moved(@, c.zone), !.width = Less(@, c.zone)]
           [] c.anchor = {"top", "bottom", "right"} ->
                [area EXCEPT !.width = Less(@, c.zone)]
           [] OTHER -> area

(* lsh_get_output_work_area, for one order of the map's elements *)
WorkAreaIn(order) ==
    FoldLeft(Reserve, [x |-> 0, y |-> 0, width |-> output["x"], height |-> output["y"]],
             [i \in DOMAIN order |-> ctx[order[i]]])

(* The order of an unordered map is any. *)
WorkAreas == {WorkAreaIn(order) : order \in SetToSeqs(shown)}

-----------------------------------------------------------------------------
Next ==
    \/ \E k \in Ctxs : \/ \E r \in Requests : SetSize(k, r)
                       \/ \E anchor \in Anchors : SetAnchor(k, anchor)
                       \/ \E z \in Zones : SetExclusiveZone(k, z)
                       \/ \E m \in Margins : SetMargin(k, m)
                       \/ \E s \in Sizes : Commit(k, s)
                       \/ Answer(k)
    \/ \E o \in Outputs : ResizeOutput(o)

(* A client owes an answer to a configure event, and nothing else. *)
Spec == Init /\ [][Next]_vars /\ \A k \in Ctxs : WF_vars(Answer(k))

-----------------------------------------------------------------------------
(* The exchange of configure events and commits comes to rest when the      *)
(* client obeys: configure events that repeat or alternate (231-234) would  *)
(* keep client and compositor busy for ever.                               *)
ExchangeEnds == <>[](\A k \in Ctxs : configure[k] = {})

(* ... and it rests at what was asked for: a surface whose layout has been  *)
(* committed has, on every axis, what the margins leave between two edges   *)
(* it is stretched between, or else the size the client requested (125-143, *)
(* 229-234), whatever requests, commits, resizes and out-of-date events     *)
(* crossed on the way, and whichever of the two axes was wrong.             *)
RestsAsAsked ==
    <>[](\A k \in Ctxs \ dirty, a \in Axes :
           LET c == ctx[k]
           IN IF {Low[a], High[a]} \subseteq c.anchor
              THEN size[k][a] = output[a] - c.margin[Low[a]] - c.margin[High[a]]
              ELSE c.req[a] > 0 => size[k][a] = c.req[a])

(* How far the exchange is from its end: there is nothing to answer, the    *)
(* event says what the layout asks for now, or it is out of date.           *)
Distance(k) ==
    CASE configure[k] = {} -> 0
      [] configure[k] = {[a \in Axes |-> ToUint(NextSizeOn(ctx[k], size[k], output)[a])]} -> 1
      [] OTHER -> 2

(* What the margins leave of a stretched axis is a size that can be sent:   *)
(* an int32_t, and not 0, which leaves the size to the client.              *)
Sendable(k) ==
    \A a \in Axes :
        {Low[a], High[a]} \subseteq ctx[k].anchor =>
          output[a] - ctx[k].margin[Low[a]] - ctx[k].margin[High[a]]
            \in Int32 \ {0}

(* Every answer brings the exchange nearer to its end, so that a client     *)
(* answers at most twice (231-234): the answer to an event that is out of   *)
(* date is told the right size, and the answer to the right size, also one  *)
(* where the client chose what it was left to choose, is told nothing.      *)
AnswersSettle ==
    [][\A k \in Ctxs : Answer(k) /\ Sendable(k) => Distance(k)' < Distance(k)]_vars

(* A surface stretched between two edges, once it has the size asked for,   *)
(* lies within the output, although its place is computed from four halves  *)
(* that are each rounded (108, 116).                                       *)
StretchedWithinOutput ==
    \A k \in shown \ dirty, a \in Axes :
        LET c == ctx[k]
            lm == c.margin[Low[a]]
            hm == c.margin[High[a]]
        IN /\ {Low[a], High[a]} \subseteq c.anchor
           /\ size[k] = NextSizeOn(c, size[k], output)
           /\ lm >= 0 /\ hm >= 0 /\ lm + hm <= output[a]
           => position[k][a] >= 0 /\ position[k][a] + size[k][a] <= output[a]

(* Sum of the zones that are docked at edge e: the surface is anchored to   *)
(* all edges but the opposite one.                                         *)
Docked(e) == Edges \ (CASE e = "left" -> {"right"} [] e = "right" -> {"left"}
                        [] e = "top" -> {"bottom"} [] e = "bottom" -> {"top"})

Taken(e) ==
    MapThenSumSet(LAMBDA k : ctx[k].zone,
                  {k \in shown : ctx[k].zone > 0 /\ ctx[k].anchor = Docked(e)})

(* The desktop is given one area, whatever the order in which the unordered *)
(* map is walked (373-387) and however often its unsigned sizes wrap; and   *)
(* on each axis on which the positive zones docked at its edges fit into    *)
(* the output it is the output less those zones.                            *)
WorkAreaExact ==
    /\ Cardinality(WorkAreas) = 1
    /\ \A area \in WorkAreas :
          LET width == output["x"] - Taken("left") - Taken("right")
              height == output["y"] - Taken("top") - Taken("bottom")
          IN /\ width >= 0 => /\ area.x = Taken("left")
                              /\ area.width = width
             /\ height >= 0 => /\ area.y = Taken("top")
                               /\ area.height = height

=============================================================================
