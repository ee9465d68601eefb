-------------------------- MODULE LayerLayoutProofs --------------------------
(***************************************************************************)
(* Proofs about the layout of layer surfaces, for outputs, sizes, margins  *)
(* and zones of any size (short of overflow) and any number of surfaces.   *)
(***************************************************************************)
EXTENDS LayerLayout, Inductions

(* position for a stretched axis: the four halves of line 108, each rounded *)
(* on its own, keep a surface of the size next_size asks for within the     *)
(* output, if the margins are not negative and fit.                         *)
THEOREM StretchedInside ==
    ASSUME NEW out \in Int, NEW lm \in Nat, NEW hm \in Nat, NEW req \in Int,
           NEW old \in Int, lm + hm <= out
    PROVE  LET s == NextSize(TRUE, TRUE, old, out, lm, hm, req)
               p == Position(TRUE, TRUE, s, out, lm, hm)
           IN  p >= 0 /\ p + s <= out
<1> DEFINE s == out - lm - hm
           p == out \div 2 - s \div 2 + lm \div 2 - hm \div 2
<1>1. NextSize(TRUE, TRUE, old, out, lm, hm, req) = s /\ s \in Nat
  BY DEF NextSize
<1>2. Position(TRUE, TRUE, s, out, lm, hm) = p
  BY <1>1 DEF Position, Half
<1>3. p >= 0 /\ p + s <= out
  OBVIOUS
<1> QED
  BY <1>1, <1>2, <1>3

(* next_size is settled by one answer: a surface that has the size asked    *)
(* for is asked for that size again.                                        *)
THEOREM SizeSettles ==
    ASSUME NEW low \in BOOLEAN, NEW high \in BOOLEAN, NEW old \in Int, NEW out \in Int,
           NEW lm \in Int, NEW hm \in Int, NEW req \in Int
    PROVE  LET next == NextSize(low, high, old, out, lm, hm, req)
           IN  NextSize(low, high, next, out, lm, hm, req) = next
BY DEF NextSize

-----------------------------------------------------------------------------
(* The conversions at the protocol's border stay within their types. *)
LEMMA ToIntType ==
    ASSUME NEW n \in 0..(Modulus - 1)
    PROVE  ToInt(n) \in Int32
BY LayoutConstants DEF ToInt, Int32

(* The same towards the client. *)
LEMMA ToUintType ==
    ASSUME NEW n \in Int
    PROVE  ToUint(n) \in 0..(Modulus - 1)
BY LayoutConstants DEF ToUint

(* An int32_t is an integer, and an output has a size. *)
LEMMA Widths ==
    /\ Int32 \subseteq Int /\ 0 \in Int32
    /\ \A o \in Outputs : o \in [Axes -> Nat \ {0}]
BY LayoutConstants DEF Int32

(* Place and size asked for are integers on both axes. *)
LEMMA GeometryType ==
    ASSUME NEW c \in Layouts, NEW s \in [Axes -> 0..MaxSize], NEW o \in [Axes -> Nat]
    PROVE  /\ PositionOn(c, s, o) \in [Axes -> Int]
           /\ NextSizeOn(c, s, o) \in [Axes -> Int]
<1> USE LayoutConstants DEF Layouts, Axes, Edges, Low, High, Int32
<1>1. ASSUME NEW n \in Int PROVE Half(n) \in Int
  BY DEF Half
<1>2. ASSUME NEW a \in Axes
      PROVE  /\ Low[a] \in Edges /\ High[a] \in Edges
             /\ s[a] \in Int /\ o[a] \in Int /\ c.req[a] \in Int
             /\ c.margin[Low[a]] \in Int /\ c.margin[High[a]] \in Int
  OBVIOUS
<1>3. ASSUME NEW a \in Axes
      PROVE  /\ PositionOn(c, s, o)[a] \in Int
             /\ NextSizeOn(c, s, o)[a] \in Int
  BY <1>1, <1>2 DEF PositionOn, NextSizeOn, Position, NextSize
<1> QED
  BY <1>3 DEF PositionOn, NextSizeOn

(* The event a commit may leave behind is at most one, of unsigned sizes. *)
LEMMA HintType ==
    ASSUME NEW k \in Ctxs, ctx[k] \in Layouts, output \in [Axes -> Nat],
           NEW s \in [Axes -> 0..MaxSize],
           NEW left \in SUBSET [Axes -> 0..(Modulus - 1)], Cardinality(left) <= 1
    PROVE  /\ Hint(k, s, left) \in SUBSET [Axes -> 0..(Modulus - 1)]
           /\ Cardinality(Hint(k, s, left)) <= 1
<1> DEFINE next == NextSizeOn(ctx[k], s, output)
           event == [a \in Axes |-> ToUint(next[a])]
<1>1. next \in [Axes -> Int]
  BY GeometryType
<1>2. event \in [Axes -> 0..(Modulus - 1)]
  BY <1>1, ToUintType
<1>3. Cardinality({event}) = 1
  BY FS_Singleton
<1> QED
  BY <1>2, <1>3 DEF Hint

(* What a request writes into a context is of the context's type. *)
LEMMA RequestType ==
    ASSUME NEW c \in Layouts
    PROVE  /\ \A r \in Requests :
                [c EXCEPT !.req = [a \in Axes |-> ToInt(r[a])]] \in Layouts
           /\ \A anchor \in Anchors : [c EXCEPT !.anchor = anchor] \in Layouts
           /\ \A z \in Zones : [c EXCEPT !.zone = z] \in Layouts
           /\ \A mg \in Margins : [c EXCEPT !.margin = mg] \in Layouts
<1>1. ASSUME NEW r \in Requests
      PROVE  [a \in Axes |-> ToInt(r[a])] \in [Axes -> Int32]
  BY ToIntType, LayoutConstants
<1> QED
  BY <1>1, LayoutConstants DEF Layouts

(* A commit of a buffer the client can make. *)
LEMMA CommitType ==
    ASSUME TypeOK, NEW k \in Ctxs, NEW s \in Sizes,
           NEW left \in SUBSET [Axes -> 0..(Modulus - 1)], Cardinality(left) <= 1,
           CommitSized(k, s, left), changes' \in 0..MaxChanges
    PROVE  TypeOK'
<1>1. s \in [Axes -> 0..MaxSize] /\ output \in [Axes -> Nat] /\ ctx[k] \in Layouts
  BY LayoutConstants, Widths DEF Sizes, TypeOK
<1>2. PositionOn(ctx[k], s, output) \in [Axes -> Int]
  BY <1>1, GeometryType
<1>3. /\ Hint(k, s, left) \in SUBSET [Axes -> 0..(Modulus - 1)]
      /\ Cardinality(Hint(k, s, left)) <= 1
  BY <1>1, HintType
<1> QED
  BY <1>1, <1>2, <1>3 DEF TypeOK, CommitSized

(* Every request, commit, answer and resize keeps the state well-formed. *)
LEMMA TypeStep == TypeOK /\ [Next]_vars => TypeOK'
<1> SUFFICES ASSUME TypeOK, [Next]_vars PROVE TypeOK'
  OBVIOUS
<1> USE LayoutConstants, Widths
<1>1. ASSUME NEW k \in Ctxs, NEW c \in Layouts, Layout(k, c) PROVE TypeOK'
  BY <1>1 DEF TypeOK, Layout, Change
<1>t. \A k \in Ctxs : ctx[k] \in Layouts
  BY DEF TypeOK
<1>2. ASSUME NEW k \in Ctxs, NEW r \in Requests, SetSize(k, r) PROVE TypeOK'
  BY <1>1, <1>2, <1>t, RequestType DEF SetSize
<1>3. ASSUME NEW k \in Ctxs, NEW anchor \in Anchors, SetAnchor(k, anchor) PROVE TypeOK'
  BY <1>1, <1>3, <1>t, RequestType DEF SetAnchor
<1>4. ASSUME NEW k \in Ctxs, NEW z \in Zones, SetExclusiveZone(k, z) PROVE TypeOK'
  BY <1>1, <1>4, <1>t, RequestType DEF SetExclusiveZone
<1>5. ASSUME NEW k \in Ctxs, NEW mg \in Margins, SetMargin(k, mg) PROVE TypeOK'
  BY <1>1, <1>5, <1>t, RequestType DEF SetMargin
<1>6. ASSUME NEW k \in Ctxs, NEW s \in Sizes, Commit(k, s) PROVE TypeOK'
  BY <1>6, CommitType DEF Commit, Change, TypeOK
<1>7. ASSUME NEW k \in Ctxs, NEW s \in Sizes, Obey(k, s) PROVE TypeOK'
  <2>1. {} \in SUBSET [Axes -> 0..(Modulus - 1)] /\ Cardinality({}) <= 1
    BY FS_EmptySet
  <2> QED
    BY <1>7, <2>1, CommitType DEF Obey, TypeOK
<1>8. ASSUME NEW k \in Ctxs, Dismiss(k) PROVE TypeOK'
  <2>1. Cardinality({}) <= 1
    BY FS_EmptySet
  <2> QED
    BY <1>8, <2>1 DEF Dismiss, TypeOK
<1>9. ASSUME NEW o \in Outputs, ResizeOutput(o) PROVE TypeOK'
  BY <1>9 DEF ResizeOutput, Change, TypeOK
<1>10. CASE UNCHANGED vars
  BY <1>10 DEF vars, TypeOK
<1> QED
  BY <1>2, <1>3, <1>4, <1>5, <1>6, <1>7, <1>8, <1>9, <1>10 DEF Next, Answer

(* A surface that has not been touched since its last commit is where that  *)
(* commit put it.                                                          *)
Settled ==
    \A k \in Ctxs \ dirty : position[k] = PositionOn(ctx[k], size[k], output)

(* Only a commit makes a surface clean, and it computes its place.          *)
LEMMA SettledStep == TypeOK /\ Settled /\ [Next]_vars => Settled'
<1> SUFFICES ASSUME TypeOK, Settled, [Next]_vars PROVE Settled'
  OBVIOUS
<1>1. ASSUME NEW k \in Ctxs, NEW c, Layout(k, c) PROVE Settled'
  BY <1>1 DEF TypeOK, Settled, Layout, PositionOn
<1>2. ASSUME NEW k \in Ctxs, NEW s \in Sizes, NEW left, CommitSized(k, s, left)
      PROVE  Settled'
  <2> SUFFICES ASSUME NEW j \in (Ctxs \ dirty)'
               PROVE  (position[j] = PositionOn(ctx[j], size[j], output))'
    BY DEF Settled
  <2> USE DEF PositionOn
  <2>1. CASE j = k
    BY <1>2, <2>1 DEF CommitSized, TypeOK
  <2>2. CASE j # k
    <3>1. /\ size'[j] = size[j] /\ position'[j] = position[j] /\ j \in Ctxs \ dirty
          /\ UNCHANGED <<output, ctx>>
      BY <1>2, <2>2 DEF CommitSized, TypeOK
    <3> QED
      BY <3>1 DEF Settled
  <2> QED
    BY <2>1, <2>2
<1>3. ASSUME NEW k \in Ctxs, Dismiss(k) PROVE Settled'
  BY <1>3 DEF TypeOK, Settled, Dismiss, PositionOn
<1>4. ASSUME NEW o \in Outputs, ResizeOutput(o) PROVE Settled'
  BY <1>4 DEF Settled, ResizeOutput
<1>5. CASE UNCHANGED vars
  BY <1>5 DEF vars, Settled, PositionOn
<1> QED
  BY <1>1, <1>2, <1>3, <1>4, <1>5
     DEF Next, Answer, SetSize, SetAnchor, SetExclusiveZone, SetMargin, Commit, Obey

(* Types and settledness hold throughout. *)
LEMMA Invariance == Spec => [](TypeOK /\ Settled)
<1>1. Init => TypeOK /\ Settled
  <2> SUFFICES ASSUME Init PROVE TypeOK /\ Settled
    OBVIOUS
  <2> DEFINE event == [a \in Axes |-> 1]
  <2>1. {event} \in SUBSET [Axes -> 0..(Modulus - 1)] /\ Cardinality({event}) <= 1
    <3>1. event \in [Axes -> 0..(Modulus - 1)]
      BY LayoutConstants
    <3>2. Cardinality({event}) = 1
      BY FS_Singleton
    <3> QED
      BY <3>1, <3>2
  <2>2. \A k \in Ctxs : configure[k] = {event}
    BY DEF Init
  <2>3. TypeOK
    BY <2>1, <2>2, LayoutConstants, Widths DEF Init, TypeOK, Layouts, Zero, Edges
  <2> QED
    BY <2>3 DEF Init, Settled
<1> QED
  BY <1>1, TypeStep, SettledStep, PTL DEF Spec

(* The layout's state always has its declared shape: in particular every    *)
(* configure event carries sizes of 32 unsigned bits.                       *)
THEOREM TypeCorrect == Spec => []TypeOK
BY Invariance, PTL

(* A stretched surface of the size asked for lies within its output. *)
THEOREM StretchedIsWithin == Spec => []StretchedWithinOutput
<1>1. TypeOK /\ Settled => StretchedWithinOutput
  <2> SUFFICES ASSUME TypeOK, Settled, NEW k \in shown \ dirty, NEW a \in Axes,
                      {Low[a], High[a]} \subseteq ctx[k].anchor,
                      size[k] = NextSizeOn(ctx[k], size[k], output),
                      ctx[k].margin[Low[a]] >= 0, ctx[k].margin[High[a]] >= 0,
                      ctx[k].margin[Low[a]] + ctx[k].margin[High[a]] <= output[a]
               PROVE  position[k][a] >= 0 /\ position[k][a] + size[k][a] <= output[a]
    BY DEF StretchedWithinOutput
  <2> DEFINE lm == ctx[k].margin[Low[a]]
             hm == ctx[k].margin[High[a]]
             s == NextSize(TRUE, TRUE, size[k][a], output[a], lm, hm, ctx[k].req[a])
  <2>1. /\ k \in Ctxs /\ lm \in Nat /\ hm \in Nat /\ output[a] \in Int
        /\ size[k][a] \in Int /\ ctx[k].req[a] \in Int
    BY LayoutConstants DEF TypeOK, Layouts, Axes, Edges, Low, High, Int32
  <2>2. size[k][a] = s
    BY DEF NextSizeOn, NextSize
  <2>3. position[k][a] = Position(TRUE, TRUE, size[k][a], output[a], lm, hm)
    BY <2>1 DEF Settled, PositionOn, Position
  <2> HIDE DEF lm, hm, s
  <2>4. lm + hm <= output[a]
    BY DEF lm, hm
  <2>5. LET p == Position(TRUE, TRUE, s, output[a], lm, hm)
        IN  p >= 0 /\ p + s <= output[a]
    BY <2>1, <2>4, StretchedInside DEF s
  <2> QED
    BY <2>2, <2>3, <2>5
<1> QED
  BY <1>1, Invariance, PTL

-----------------------------------------------------------------------------
(* On one axis: s is an answer to a size that can be sent. *)
Answers(low, high, old, out, lm, hm, req, s) ==
    /\ low \in BOOLEAN /\ high \in BOOLEAN /\ old \in 0..MaxSize /\ out \in Int
    /\ lm \in Int /\ hm \in Int
    /\ req \in Int32 /\ s \in 1..MaxSize
    /\ low /\ high => out - lm - hm \in Int32 \ {0}
    /\ ToUint(NextSize(low, high, old, out, lm, hm, req)) \in {0, s}

(* The size taken in answer is the one asked for from then on. *)
LEMMA AxisSettles ==
    ASSUME NEW low, NEW high, NEW old, NEW out, NEW lm, NEW hm, NEW req, NEW s,
           Answers(low, high, old, out, lm, hm, req, s)
    PROVE  NextSize(low, high, s, out, lm, hm, req) = s
<1> USE LayoutConstants DEF Answers, Int32
<1>1. ASSUME NEW n \in Int32, n # 0, ToUint(n) \in {0, s}
      PROVE  n = s
  <2>1. CASE n >= 0
    <3>1. n % Modulus = n
      BY <2>1
    <3> QED
      BY <1>1, <3>1 DEF ToUint
  <2>2. CASE n < 0
    <3>1. n % Modulus = n + Modulus
      BY <2>2
    <3> QED
      BY <1>1, <2>2, <3>1 DEF ToUint
  <2> QED
    BY <2>1, <2>2
<1>2. CASE low /\ high
  BY <1>1, <1>2 DEF NextSize
<1>3. CASE ~(low /\ high) /\ req > 0
  BY <1>1, <1>3 DEF NextSize
<1>4. CASE ~(low /\ high) /\ ~(req > 0)
  BY <1>4 DEF NextSize
<1> QED
  BY <1>2, <1>3, <1>4

(* An obedient answer to what the layout asks for is what it asks for. *)
LEMMA Obedience ==
    ASSUME TypeOK, NEW k \in Ctxs, Sendable(k), NEW s \in Sizes,
           \A a \in Axes : ToUint(NextSizeOn(ctx[k], size[k], output)[a]) \in {0, s[a]}
    PROVE  NextSizeOn(ctx[k], s, output) = s
<1>1. ASSUME NEW a \in Axes
      PROVE  NextSizeOn(ctx[k], s, output)[a] = s[a]
  <2> DEFINE low == Low[a] \in ctx[k].anchor
             high == High[a] \in ctx[k].anchor
             lm == ctx[k].margin[Low[a]]
             hm == ctx[k].margin[High[a]]
             old == size[k][a]
             out == output[a]
             req == ctx[k].req[a]
             sa == s[a]
  <2>1. /\ low \in BOOLEAN /\ high \in BOOLEAN /\ old \in 0..MaxSize /\ out \in Int
        /\ lm \in Int /\ hm \in Int /\ req \in Int32
        /\ sa \in 1..MaxSize
    BY LayoutConstants, Widths DEF TypeOK, Layouts, Axes, Edges, Low, High, Sizes
  <2>2. low /\ high => out - lm - hm \in Int32 \ {0}
    BY DEF Sendable
  <2>3. ToUint(NextSize(low, high, old, out, lm, hm, req)) \in {0, sa}
    BY DEF NextSizeOn
  <2>4. NextSizeOn(ctx[k], s, output)[a] = NextSize(low, high, sa, out, lm, hm, req)
    BY DEF NextSizeOn
  <2> HIDE DEF low, high, lm, hm, old, out, req, sa
  <2>5. Answers(low, high, old, out, lm, hm, req, sa)
    BY <2>1, <2>2, <2>3 DEF Answers
  <2>6. NextSize(low, high, sa, out, lm, hm, req) = sa
    BY <2>5, AxisSettles
  <2> QED
    BY <2>4, <2>6 DEF sa
<1> QED
  BY <1>1 DEF NextSizeOn, Sizes

(* Every answer, obedient or not, brings the exchange nearer to its end.   *)
LEMMA AnswerSettles ==
    ASSUME TypeOK, NEW k \in Ctxs, Answer(k), Sendable(k)
    PROVE  Distance(k)' < Distance(k)
<1>1. configure[k] # {} => Distance(k) \in {1, 2}
  BY DEF Distance
<1>2. CASE Dismiss(k)
  <2>1. configure[k] # {} /\ configure'[k] = {}
    BY <1>2 DEF Dismiss, TypeOK
  <2>2. Distance(k)' = 0
    BY <2>1 DEF Distance
  <2> QED
    BY <1>1, <2>1, <2>2
<1>3. ASSUME NEW s \in Sizes, Obey(k, s)
      PROVE  Distance(k)' < Distance(k)
  <2> DEFINE event(t) == {[a \in Axes |-> ToUint(NextSizeOn(ctx[k], t, output)[a])]}
  <2>1. /\ configure[k] # {} /\ size'[k] = s /\ UNCHANGED <<ctx, output>>
        /\ configure'[k] = Hint(k, s, {})
    BY <1>3 DEF Obey, CommitSized, TypeOK
  <2>2. configure'[k] = IF NextSizeOn(ctx[k], s, output) = s THEN {} ELSE event(s)
    BY <2>1 DEF Hint
  <2>3. Distance(k)' = CASE configure'[k] = {} -> 0
                         [] configure'[k] = event(s) -> 1
                         [] OTHER -> 2
    BY <2>1 DEF Distance, NextSizeOn
  <2>4. CASE configure[k] = event(size[k])
    <3>1. \A a \in Axes : ToUint(NextSizeOn(ctx[k], size[k], output)[a]) \in {0, s[a]}
      BY <1>3, <2>4 DEF Obey
    <3>2. NextSizeOn(ctx[k], s, output) = s
      BY <3>1, Obedience
    <3>3. Distance(k)' = 0
      BY <2>2, <2>3, <3>2
    <3> QED
      BY <1>1, <2>1, <3>3
  <2>5. CASE configure[k] # event(size[k])
    <3>1. Distance(k) = 2
      BY <2>1, <2>5 DEF Distance
    <3>2. Distance(k)' \in {0, 1}
      BY <2>2, <2>3
    <3> QED
      BY <3>1, <3>2
  <2> QED
    BY <2>4, <2>5
<1> QED
  BY <1>2, <1>3 DEF Answer

(* The exchange needs at most two answers to come to rest, for every       *)
(* layout and output that leaves a stretched surface a size that can be    *)
(* sent.                                                                   *)
THEOREM AnswersDo == Spec => AnswersSettle
<1>1. TypeOK /\ [Next]_vars =>
        [\A k \in Ctxs : Answer(k) /\ Sendable(k) => Distance(k)' < Distance(k)]_vars
  BY AnswerSettles
<1> QED
  BY <1>1, TypeCorrect, PTL DEF Spec, AnswersSettle

-----------------------------------------------------------------------------
(* The work area.  Its sums and folds are recursive functions on sets, met  *)
(* with the inductions over finite sets.  Areas whose fields are not        *)
(* limited are what the code computes modulo 2^32.                          *)
Areas == [x : Int, y : Int, width : Int, height : Int]
Whole == [x |-> 0, y |-> 0, width |-> output["x"], height |-> output["y"]]

(* The rectangle that an area is kept as. *)
Kept(area) ==
    [x |-> ToInt(ToUint(area.x)), y |-> ToInt(ToUint(area.y)),
     width |-> ToUint(area.width), height |-> ToUint(area.height)]

(* What a context takes at an edge, and what it leaves of an area. *)
Share(e, c) == IF c.zone > 0 /\ c.anchor = Docked(e) THEN c.zone ELSE 0

Left(area, c) ==
    [x |-> area.x + Share("left", c), y |-> area.y + Share("top", c),
     width |-> area.width - Share("left", c) - Share("right", c),
     height |-> area.height - Share("top", c) - Share("bottom", c)]

(* Numbers that differ by a multiple of k have the same remainder.         *)
LEMMA SameRemainder ==
    ASSUME NEW k \in Nat \ {0}, NEW m \in Int, NEW n \in Int, NEW q \in Int,
           m = n + q * k
    PROVE  m % k = n % k
<1> DEFINE r == n % k
           d == n \div k
<1>1. r \in 0..(k - 1) /\ d \in Int /\ n = d * k + r
  OBVIOUS
<1> HIDE DEF r, d
<1>2. m = (d + q) * k + r /\ d + q \in Int
  BY <1>1
<1>3. ASSUME NEW a \in Int, NEW b \in 0..(k - 1)
      PROVE  (a * k + b) % k = b
  OBVIOUS
<1> QED
  BY <1>1, <1>2, <1>3 DEF r

(* Both conversions change a number by a multiple of the modulus. *)
LEMMA Conversions ==
    ASSUME NEW n \in Int
    PROVE  /\ \E q \in Int : ToUint(n) = n + q * Modulus
           /\ \E q \in Int : ToInt(ToUint(n)) = n + q * Modulus
<1> DEFINE d == n \div Modulus
<1>1. Modulus \in Nat \ {0}
  BY LayoutConstants
<1>2. d \in Int /\ n = d * Modulus + ToUint(n) /\ ToUint(n) \in Int
  BY <1>1 DEF ToUint
<1> HIDE DEF d
<1>3. /\ -d \in Int /\ -d - 1 \in Int
      /\ (-d) * Modulus = -(d * Modulus)
      /\ (-d - 1) * Modulus = -(d * Modulus) - Modulus
  BY <1>1, <1>2
<1>4. /\ ToUint(n) = n + (-d) * Modulus
      /\ ToUint(n) - Modulus = n + (-d - 1) * Modulus
  <2> DEFINE p == d * Modulus
  <2>1. p \in Int
    BY <1>1, <1>2
  <2>2. n = p + ToUint(n)
    BY <1>2
  <2>3. (-d) * Modulus = -p /\ (-d - 1) * Modulus = -p - Modulus
    BY <1>3
  <2> HIDE DEF p
  <2> QED
    BY <1>1, <1>2, <2>1, <2>2, <2>3
<1> QED
  BY <1>3, <1>4 DEF ToInt

(* So it does not matter whether they are made before or after a sum.      *)
LEMMA Wraps ==
    ASSUME NEW n \in Int, NEW z \in Int
    PROVE  /\ Less(ToUint(n), z) = ToUint(n - z)
           /\ Moved(ToInt(ToUint(n)), z) = ToInt(ToUint(n + z))
<1>1. Modulus \in Nat \ {0}
  BY LayoutConstants
<1>2. PICK q \in Int : ToUint(n) = n + q * Modulus
  BY Conversions
<1>3. PICK p \in Int : ToInt(ToUint(n)) = n + p * Modulus
  BY Conversions
<1> DEFINE a == n + q * Modulus
           b == n + p * Modulus
<1>4. a \in Int /\ b \in Int /\ n - z \in Int /\ n + z \in Int
  BY <1>1
<1>5. a - z = (n - z) + q * Modulus /\ b + z = (n + z) + p * Modulus
  BY <1>1
<1>6. ToUint(n) = a /\ ToInt(ToUint(n)) = b
  BY <1>2, <1>3
<1> HIDE DEF a, b
<1>7. (a - z) % Modulus = (n - z) % Modulus
  <2> DEFINE m == a - z
             l == n - z
  <2>1. m \in Int /\ l \in Int /\ m = l + q * Modulus
    BY <1>4, <1>5
  <2> HIDE DEF m, l
  <2>2. m % Modulus = l % Modulus
    BY <1>1, <2>1, SameRemainder
  <2> QED
    BY <2>2 DEF m, l
<1>8. (b + z) % Modulus = (n + z) % Modulus
  <2> DEFINE m == b + z
             l == n + z
  <2>1. m \in Int /\ l \in Int /\ m = l + p * Modulus
    BY <1>4, <1>5
  <2> HIDE DEF m, l
  <2>2. m % Modulus = l % Modulus
    BY <1>1, <2>1, SameRemainder
  <2> QED
    BY <2>2 DEF m, l
<1>9. Less(a, z) = ToUint(n - z)
  BY <1>7 DEF Less, ToUint
<1>10. Moved(b, z) = ToInt(ToUint(n + z))
  BY <1>8 DEF Moved, ToUint
<1> QED
  BY <1>6, <1>9, <1>10

(* A context takes its share at each edge, and nothing elsewhere, modulo    *)
(* 2^32.                                                                   *)
LEMMA ReserveShares ==
    ASSUME NEW area \in Areas, NEW c \in Layouts
    PROVE  Reserve(Kept(area), c) = Kept(Left(area, c))
<1> DEFINE L == {"left", "top", "bottom"}
           R == {"right", "top", "bottom"}
           T == {"left", "right", "top"}
           B == {"left", "right", "bottom"}
           x == area.x
           y == area.y
           w == area.width
           h == area.height
           z == c.zone
           a == Kept(area)
<1> SUFFICES Reserve(a, c) = Kept(Left(area, c))
  OBVIOUS
<1>0. z \in Int /\ x \in Int /\ y \in Int /\ w \in Int /\ h \in Int
  BY Widths DEF Layouts, Areas
<1>1. /\ Docked("left") = L /\ Docked("right") = R
      /\ Docked("top") = T /\ Docked("bottom") = B
  BY DEF Docked, Edges
<1>2. L # R /\ L # T /\ L # B /\ R # T /\ R # B /\ T # B
  OBVIOUS
<1>3. Reserve(a, c) =
        IF z <= 0 THEN a
        ELSE CASE c.anchor = T ->
                    [a EXCEPT !.y = Moved(a.y, z), !.height = Less(a.height, z)]
               [] c.anchor = B -> [a EXCEPT !.height = Less(a.height, z)]
               [] c.anchor = L ->
                    [a EXCEPT !.x = Moved(a.x, z), !.width = Less(a.width, z)]
               [] c.anchor = R -> [a EXCEPT !.width = Less(a.width, z)]
               [] OTHER -> a
  <2>1. {"top", "bottom", "left"} = L /\ {"top", "bottom", "right"} = R
    OBVIOUS
  <2> HIDE DEF L, R, a
  <2> QED
    BY <2>1 DEF Reserve
<1>4. /\ Less(ToUint(w), z) = ToUint(w - z) /\ Less(ToUint(h), z) = ToUint(h - z)
      /\ Moved(ToInt(ToUint(x)), z) = ToInt(ToUint(x + z))
      /\ Moved(ToInt(ToUint(y)), z) = ToInt(ToUint(y + z))
  BY <1>0, Wraps
<1>5. ASSUME NEW l \in Int, NEW r \in Int, NEW t \in Int, NEW b \in Int,
             Share("left", c) = l, Share("right", c) = r,
             Share("top", c) = t, Share("bottom", c) = b
      PROVE  Kept(Left(area, c)) =
               [x |-> ToInt(ToUint(x + l)), y |-> ToInt(ToUint(y + t)),
                width |-> ToUint(w - l - r), height |-> ToUint(h - t - b)]
  BY <1>5 DEF Kept, Left
<1>6. a = [x |-> ToInt(ToUint(x)), y |-> ToInt(ToUint(y)),
           width |-> ToUint(w), height |-> ToUint(h)]
  BY DEF Kept
<1>7. /\ x + 0 = x /\ y + 0 = y
      /\ w - 0 - 0 = w /\ w - z - 0 = w - z /\ w - 0 - z = w - z
      /\ h - 0 - 0 = h /\ h - z - 0 = h - z /\ h - 0 - z = h - z
  BY <1>0
<1> HIDE DEF L, R, T, B, x, y, w, h, a
<1>8. CASE z > 0 /\ c.anchor = T
  <2>1. /\ Share("top", c) = z
        /\ Share("left", c) = 0 /\ Share("right", c) = 0 /\ Share("bottom", c) = 0
    BY <1>1, <1>2, <1>8 DEF Share
  <2> HIDE DEF z
  <2>2. Kept(Left(area, c)) =
          [x |-> ToInt(ToUint(x)), y |-> ToInt(ToUint(y + z)),
           width |-> ToUint(w), height |-> ToUint(h - z)]
    BY <1>0, <1>5, <1>7, <2>1
  <2>3. Reserve(a, c) = [a EXCEPT !.y = Moved(a.y, z), !.height = Less(a.height, z)]
    BY <1>0, <1>2, <1>3, <1>8
  <2> QED
    BY <1>4, <1>6, <2>2, <2>3
<1>9. CASE z > 0 /\ c.anchor = B
  <2>1. /\ Share("bottom", c) = z
        /\ Share("left", c) = 0 /\ Share("right", c) = 0 /\ Share("top", c) = 0
    BY <1>1, <1>2, <1>9 DEF Share
  <2> HIDE DEF z
  <2>2. Kept(Left(area, c)) =
          [x |-> ToInt(ToUint(x)), y |-> ToInt(ToUint(y)),
           width |-> ToUint(w), height |-> ToUint(h - z)]
    BY <1>0, <1>5, <1>7, <2>1
  <2>3. Reserve(a, c) = [a EXCEPT !.height = Less(a.height, z)]
    BY <1>0, <1>2, <1>3, <1>9
  <2> QED
    BY <1>4, <1>6, <2>2, <2>3
<1>10. CASE z > 0 /\ c.anchor = L
  <2>1. /\ Share("left", c) = z
        /\ Share("right", c) = 0 /\ Share("top", c) = 0 /\ Share("bottom", c) = 0
    BY <1>1, <1>2, <1>10 DEF Share
  <2> HIDE DEF z
  <2>2. Kept(Left(area, c)) =
          [x |-> ToInt(ToUint(x + z)), y |-> ToInt(ToUint(y)),
           width |-> ToUint(w - z), height |-> ToUint(h)]
    BY <1>0, <1>5, <1>7, <2>1
  <2>3. Reserve(a, c) = [a EXCEPT !.x = Moved(a.x, z), !.width = Less(a.width, z)]
    BY <1>0, <1>2, <1>3, <1>10
  <2> QED
    BY <1>4, <1>6, <2>2, <2>3
<1>11. CASE z > 0 /\ c.anchor = R
  <2>1. /\ Share("right", c) = z
        /\ Share("left", c) = 0 /\ Share("top", c) = 0 /\ Share("bottom", c) = 0
    BY <1>1, <1>2, <1>11 DEF Share
  <2> HIDE DEF z
  <2>2. Kept(Left(area, c)) =
          [x |-> ToInt(ToUint(x)), y |-> ToInt(ToUint(y)),
           width |-> ToUint(w - z), height |-> ToUint(h)]
    BY <1>0, <1>5, <1>7, <2>1
  <2>3. Reserve(a, c) = [a EXCEPT !.width = Less(a.width, z)]
    BY <1>0, <1>2, <1>3, <1>11
  <2> QED
    BY <1>4, <1>6, <2>2, <2>3
<1>12. CASE z <= 0 \/ c.anchor \notin {L, R, T, B}
  <2>1. \A e \in Edges : Share(e, c) = 0
    BY <1>0, <1>1, <1>12 DEF Share, Edges
  <2>2. Reserve(a, c) = a
    BY <1>0, <1>3, <1>12
  <2> HIDE DEF z
  <2>3. Kept(Left(area, c)) = a
    BY <1>5, <1>6, <1>7, <2>1 DEF Edges
  <2> QED
    BY <2>2, <2>3
<1> QED
  BY <1>0, <1>8, <1>9, <1>10, <1>11, <1>12

DockedAt(e) == {k \in shown : ctx[k].zone > 0 /\ ctx[k].anchor = Docked(e)}

(* What is taken at an edge is a sum in which the order does not matter.   *)
LEMMA TakenIsSum ==
    ASSUME TypeOK, IsFiniteSet(shown), NEW e
    PROVE  \E total : /\ IsSum(total, DockedAt(e), [k \in DockedAt(e) |-> ctx[k].zone])
                      /\ Taken(e) = total[DockedAt(e)]
<1> DEFINE S == DockedAt(e)
           z == [k \in S |-> ctx[k].zone]
           choose == [T \in SUBSET S |-> CHOOSE k \in T : TRUE]
           step == [p \in S \X Int |-> z[p[1]] + p[2]]
           Sums(g) == g = [T \in SUBSET S |->
                IF T = {} THEN 0
                ELSE ctx[CHOOSE k \in T : TRUE].zone + g[T \ {CHOOSE k \in T : TRUE}]]
           total == CHOOSE g : Sums(g)
<1>1. Taken(e) = total[S]
  BY DEF Taken, MapThenSumSet, MapThenFoldSet, DockedAt
<1>2. S \subseteq shown /\ \A k \in S : ctx[k].zone \in Int
  BY Widths DEF DockedAt, TypeOK, Layouts
<1> HIDE DEF S
<1>3. IsFiniteSet(S)
  BY <1>2, FS_Subset
<1>4. z \in [S -> Int] /\ step \in [S \X Int -> Int]
  BY <1>2
<1>5. \A T \in SUBSET S : T # {} => /\ choose[T] = CHOOSE k \in T : TRUE
                                    /\ choose[T] \in T
  OBVIOUS
<1>6. Chooses(choose, S)
  BY <1>5 DEF Chooses
<1>7. \A k \in S : \A n \in Int : step[<<k, n>>] = z[k] + n
  OBVIOUS
<1>8. \A k \in S : z[k] = ctx[k].zone
  OBVIOUS
<1> HIDE DEF step, choose, z
<1>9. PICK g \in [SUBSET S -> Int] : IsFold(g, S, Int, 0, choose, step)
  <2>1. 0 \in Int
    OBVIOUS
  <2> QED
    BY <1>3, <1>4, <1>6, <2>1, FoldExists
<1>10. ASSUME NEW T \in SUBSET S
       PROVE  g[T] = IF T = {} THEN 0 ELSE z[choose[T]] + g[T \ {choose[T]}]
  <2>1. g[T] = IF T = {} THEN 0 ELSE step[<<choose[T], g[T \ {choose[T]}]>>]
    BY <1>5, <1>9 DEF IsFold
  <2>2. CASE T # {}
    <3>1. choose[T] \in S /\ g[T \ {choose[T]}] \in Int
      BY <1>5, <1>9, <2>2
    <3> QED
      BY <1>7, <2>1, <2>2, <3>1
  <2> QED
    BY <2>1, <2>2
<1>11. ASSUME NEW f
       PROVE  Sums(f) <=> f = [T \in SUBSET S |->
                IF T = {} THEN 0 ELSE z[choose[T]] + f[T \ {choose[T]}]]
  <2>1. ASSUME NEW T \in SUBSET S
        PROVE  (IF T = {} THEN 0
                ELSE ctx[CHOOSE k \in T : TRUE].zone + f[T \ {CHOOSE k \in T : TRUE}])
               = IF T = {} THEN 0 ELSE z[choose[T]] + f[T \ {choose[T]}]
    <3>1. CASE T # {}
      <4>1. z[choose[T]] = ctx[CHOOSE k \in T : TRUE].zone
        BY <1>5, <1>8, <3>1
      <4> QED
        BY <1>5, <3>1, <4>1
    <3> QED
      BY <3>1
  <2> QED
    BY <2>1
<1>12. Sums(g)
  <2>1. g = [T \in SUBSET S |-> IF T = {} THEN 0 ELSE z[choose[T]] + g[T \ {choose[T]}]]
    BY <1>9, <1>10
  <2> HIDE DEF Sums
  <2> QED
    BY <1>11, <2>1
<1>13. total = [T \in SUBSET S |->
                  IF T = {} THEN 0 ELSE z[choose[T]] + total[T \ {choose[T]}]]
  <2>1. Sums(total)
    <3> HIDE DEF Sums
    <3> QED
      BY <1>12
  <2> HIDE DEF Sums, total
  <2> QED
    BY <1>11, <2>1
<1> HIDE DEF total, Sums
<1>14. IsFold(total, S, Int, 0, choose, step)
  <2> SUFFICES ASSUME NEW T \in SUBSET S, T # {}, total[T \ {choose[T]}] \in Int
               PROVE  total[T] = step[<<choose[T], total[T \ {choose[T]}]>>]
    BY <1>13 DEF IsFold
  <2>1. total[T] = z[choose[T]] + total[T \ {choose[T]}]
    BY <1>13
  <2>2. choose[T] \in S
    BY <1>5
  <2> QED
    BY <1>7, <2>1, <2>2
<1>15. total \in [SUBSET S -> Int]
  <2>1. 0 \in Int
    OBVIOUS
  <2>2. \A T \in SUBSET S : total[T] \in Int
    BY <1>3, <1>4, <1>6, <1>14, <2>1, FoldType
  <2> QED
    BY <1>13, <2>2
<1>16. IsSum(total, S, z)
  <2>1. \A T \in SUBSET S :
          total[T] = IF T = {} THEN 0 ELSE z[choose[T]] + total[T \ {choose[T]}]
    BY <1>13
  <2> QED
    BY <1>3, <1>4, <1>6, <1>15, <2>1, SumOrder
<1> QED
  BY <1>1, <1>16 DEF S, z

(* It is not negative: only positive zones count. *)
LEMMA TakenNatural ==
    ASSUME TypeOK, IsFiniteSet(shown), NEW e
    PROVE  Taken(e) \in Nat
<1> DEFINE S == DockedAt(e)
           z == [k \in S |-> ctx[k].zone]
<1>1. PICK total : IsSum(total, S, z) /\ Taken(e) = total[S]
  BY TakenIsSum
<1>2. S \subseteq shown /\ \A k \in S : z[k] \in Nat
  <2>1. \A k \in S : k \in shown /\ ctx[k].zone > 0
    BY DEF DockedAt
  <2>2. ASSUME NEW k \in S PROVE z[k] \in Nat
    <3>1. ctx[k] \in Layouts
      BY <2>1 DEF TypeOK
    <3>2. ctx[k].zone \in Int
      BY <3>1, Widths DEF Layouts
    <3> QED
      BY <2>1, <3>2
  <2> QED
    BY <2>1, <2>2
<1> HIDE DEF S, z
<1> DEFINE C == {T \in SUBSET S : total[T] \in Nat}
<1>3. IsFiniteSet(S)
  BY <1>2, FS_Subset
<1>4. {} \in C
  BY <1>1 DEF IsSum
<1>5. ASSUME NEW T \in SUBSET S, NEW k \in S \ T, T \in C
      PROVE  T \cup {k} \in C
  <2>1. (T \cup {k}) \ {k} = T /\ T \cup {k} \in SUBSET S
    BY <1>5
  <2>2. total[T \cup {k}] = z[k] + total[T]
    BY <1>1, <2>1 DEF IsSum
  <2>3. z[k] \in Nat /\ total[T] \in Nat
    BY <1>2, <1>5
  <2> QED
    BY <2>1, <2>2, <2>3
<1>6. SUBSET S \subseteq C
  <2> HIDE DEF C
  <2> QED
    BY <1>3, <1>4, <1>5, SubsetInduction
<1> QED
  BY <1>1, <1>6

(* The walk over the map, one context after another. *)
LEMMA AreaFold ==
    ASSUME TypeOK, NEW n \in Nat, NEW order \in [1..n -> Ctxs]
    PROVE  \E area \in [0..n -> Areas] :
             /\ area[0] = Whole
             /\ \A i \in 0..(n - 1) : area[i + 1] = Reserve(area[i], ctx[order[i + 1]])
             /\ WorkAreaIn(order) = area[n]
<1> DEFINE S == 1..n
           step == [p \in S \X Areas |-> Reserve(p[2], ctx[order[p[1]]])]
           Eq(iter) == iter = [T \in SUBSET S |->
                 IF T = {} THEN Whole
                 ELSE Reserve(iter[T \ {Max(T)}], [i \in S |-> ctx[order[i]]][Max(T)])]
           iter == CHOOSE f : Eq(f)
<1>1. WorkAreaIn(order) = iter[S]
  BY DEF WorkAreaIn, FoldLeft, MapThenFoldSet, Whole
<1>2. \A i \in S : ctx[order[i]] \in Layouts
  BY DEF TypeOK
<1>3. step \in [S \X Areas -> Areas]
  <2>1. ASSUME NEW area \in Areas, NEW c \in Layouts
        PROVE  Reserve(area, c) \in Areas
    <3>1. ASSUME NEW m \in Int, NEW z \in Int
          PROVE  Less(m, z) \in Int /\ Moved(m, z) \in Int
      <4>1. m - z \in Int /\ m + z \in Int
        OBVIOUS
      <4>2. ToUint(m - z) \in 0..(Modulus - 1) /\ ToUint(m + z) \in 0..(Modulus - 1)
        BY <4>1, ToUintType
      <4>3. ToInt(ToUint(m + z)) \in Int
        BY <4>2, ToIntType, Widths
      <4>4. ToUint(m - z) \in Int
        BY <4>2, LayoutConstants
      <4> QED
        BY <4>3, <4>4 DEF Less, Moved
    <3>2. c.zone \in Int
      BY Widths DEF Layouts
    <3> QED
      BY <3>1, <3>2 DEF Reserve, Areas
  <2> QED
    BY <1>2, <2>1
<1>4. Whole \in Areas
  <2>1. output \in [Axes -> Int]
    BY Widths DEF TypeOK
  <2> QED
    BY <2>1 DEF Whole, Areas, Axes
<1>5. \A i \in S : \A area \in Areas : step[<<i, area>>] = Reserve(area, ctx[order[i]])
  OBVIOUS
<1>6. \A T \in SUBSET S : T # {} => Largest(n)[T] = Max(T) /\ Max(T) \in S
  BY LargestChooses
<1> HIDE DEF step
<1>7. \E f : Eq(f)
  <2>1. PICK f \in [SUBSET S -> Areas] : IsFold(f, S, Areas, Whole, Largest(n), step)
    BY <1>3, <1>4, LargestChooses, FoldExists
  <2>2. ASSUME NEW T \in SUBSET S
        PROVE  f[T] = IF T = {} THEN Whole
                      ELSE Reserve(f[T \ {Max(T)}], [i \in S |-> ctx[order[i]]][Max(T)])
    <3>1. CASE T = {}
      BY <2>1, <3>1 DEF IsFold
    <3>2. CASE T # {}
      <4>1. f[T \ {Max(T)}] \in Areas
        BY <2>1
      <4>2. f[T] = step[<<Max(T), f[T \ {Max(T)}]>>]
        BY <1>6, <2>1, <3>2, <4>1 DEF IsFold
      <4> QED
        BY <1>5, <1>6, <3>2, <4>1, <4>2
    <3> QED
      BY <3>1, <3>2
  <2>3. Eq(f)
    BY <2>1, <2>2
  <2> QED
    BY <2>3
<1>8. Eq(iter)
  BY <1>7
<1> HIDE DEF iter
<1>9. IsFold(iter, S, Areas, Whole, Largest(n), step)
  <2>1. ASSUME NEW T \in SUBSET S, T # {}, iter[T \ {Max(T)}] \in Areas
        PROVE  iter[T] = step[<<Max(T), iter[T \ {Max(T)}]>>]
    <3>1. iter[T] = Reserve(iter[T \ {Max(T)}], ctx[order[Max(T)]])
      BY <1>6, <1>8, <2>1
    <3> QED
      BY <1>5, <1>6, <2>1, <3>1
  <2>2. iter[{}] = Whole
    BY <1>8
  <2> QED
    BY <1>6, <2>1, <2>2 DEF IsFold
<1> HIDE DEF Eq
<1>10. /\ \A i \in 0..n : iter[1..i] \in Areas
       /\ iter[1..0] = Whole
       /\ \A i \in 0..(n - 1) : iter[1..(i + 1)] = step[<<i + 1, iter[1..i]>>]
  <2>1. InSteps(iter, n, Areas, Whole, step)
    BY <1>3, <1>4, <1>9, FoldSteps
  <2> QED
    BY <2>1 DEF InSteps
<1> DEFINE area == [i \in 0..n |-> iter[1..i]]
<1>11. area \in [0..n -> Areas] /\ area[0] = Whole /\ area[n] = iter[S]
  BY <1>10
<1>12. ASSUME NEW i \in 0..(n - 1)
       PROVE  area[i + 1] = Reserve(area[i], ctx[order[i + 1]])
  <2>1. i \in 0..n /\ i + 1 \in 0..n /\ i + 1 \in S
    OBVIOUS
  <2>2. iter[1..(i + 1)] = Reserve(iter[1..i], ctx[order[i + 1]])
    BY <1>5, <1>10, <2>1
  <2> QED
    BY <2>1, <2>2
<1> HIDE DEF area
<1> QED
  BY <1>1, <1>11, <1>12

(* The contexts docked at an edge among the first i of an order. *)
First(order, i, e) == {order[j] : j \in 1..i} \cap DockedAt(e)

IsOrder(order, n) ==
    /\ order \in [1..n -> shown]
    /\ \A i, j \in 1..n : i # j => order[i] # order[j]

IsZoneSum(total, e) == IsSum(total, DockedAt(e), [k \in DockedAt(e) |-> ctx[k].zone])

(* The next context adds what it takes. *)
LEMMA NextShare ==
    ASSUME TypeOK, NEW e, NEW n \in Nat, NEW order, IsOrder(order, n),
           NEW total, IsZoneSum(total, e), NEW i \in 0..(n - 1)
    PROVE  /\ total[First(order, i, e)] \in Int
           /\ total[First(order, i + 1, e)]
                = total[First(order, i, e)] + Share(e, ctx[order[i + 1]])
<1> DEFINE S == DockedAt(e)
           z == [k \in S |-> ctx[k].zone]
           A == First(order, i, e)
           B == First(order, i + 1, e)
           k == order[i + 1]
<1>1. A \in SUBSET S /\ B \in SUBSET S
  BY DEF First
<1>2. /\ total \in [SUBSET S -> Int]
      /\ \A T \in SUBSET S : \A x \in T : total[T] = z[x] + total[T \ {x}]
  BY DEF IsSum, IsZoneSum
<1>3. k \in shown /\ k \notin A
  <2>1. i + 1 \in 1..n /\ \A j \in 1..i : j \in 1..n /\ j # i + 1
    OBVIOUS
  <2> QED
    BY <2>1 DEF First, IsOrder
<1>4. \A x : x \in {order[j] : j \in 1..(i + 1)}
              <=> x = k \/ x \in {order[j] : j \in 1..i}
  <2>1. \A j : j \in 1..(i + 1) <=> j = i + 1 \/ j \in 1..i
    OBVIOUS
  <2> QED
    BY <2>1
<1>5. ctx[k].zone \in Int
  BY <1>3, Widths DEF TypeOK, Layouts
<1>6. CASE k \in S
  <2>1. k \in B /\ B \ {k} = A
    BY <1>3, <1>4, <1>6 DEF First
  <2>2. total[B] = z[k] + total[A]
    <3> HIDE DEF A, B, k, z, S
    <3>1. total[B] = z[k] + total[B \ {k}]
      BY <1>1, <1>2, <2>1
    <3> QED
      BY <2>1, <3>1
  <2>3. z[k] = ctx[k].zone /\ Share(e, ctx[k]) = ctx[k].zone
    BY <1>6 DEF DockedAt, Share
  <2>4. total[A] \in Int
    BY <1>1, <1>2
  <2> HIDE DEF A, B, k, z
  <2>5. total[B] = total[A] + Share(e, ctx[k])
    BY <1>5, <2>2, <2>3, <2>4
  <2> QED
    BY <2>4, <2>5 DEF A, B, k
<1>7. CASE k \notin S
  <2>1. B = A
    BY <1>3, <1>4, <1>7 DEF First
  <2>2. Share(e, ctx[k]) = 0
    BY <1>3, <1>7 DEF DockedAt, Share
  <2>3. total[A] \in Int
    BY <1>1, <1>2
  <2> HIDE DEF A, B, k, z
  <2>4. total[B] = total[A] + Share(e, ctx[k])
    BY <2>1, <2>2, <2>3
  <2> QED
    BY <2>3, <2>4 DEF A, B, k
<1> QED
  BY <1>6, <1>7

(* The output less the zones docked at its edges. *)
Rest == [x |-> Taken("left"), y |-> Taken("top"),
         width |-> output["x"] - Taken("left") - Taken("right"),
         height |-> output["y"] - Taken("top") - Taken("bottom")]

(* A rectangle that fits is kept as it is: so is the output at first.       *)
LEMMA KeptWhole ==
    ASSUME TypeOK
    PROVE  Kept(Whole) = Whole
<1>1. \A n \in 0..(Modulus - 1) : ToUint(n) = n
  BY LayoutConstants DEF ToUint
<1>2. 0 \in 0..(Modulus - 1) /\ ToInt(0) = 0
  BY LayoutConstants DEF ToInt
<1>3. output["x"] \in 0..(Modulus - 1) /\ output["y"] \in 0..(Modulus - 1)
  BY LayoutConstants DEF TypeOK, Axes
<1>4. ToUint(0) = 0 /\ ToUint(output["x"]) = output["x"] /\ ToUint(output["y"]) = output["y"]
  BY <1>1, <1>2, <1>3
<1> QED
  BY <1>2, <1>4 DEF Kept, Whole

(* The work area is the same for every order of the map. *)
LEMMA AreaOfOrder ==
    ASSUME TypeOK, IsFiniteSet(shown), NEW order \in SetToSeqs(shown)
    PROVE  WorkAreaIn(order) = Kept(Rest)
<1> DEFINE n == Cardinality(shown)
<1>1. n \in Nat
  BY FS_CardinalityType
<1>2. IsOrder(order, n)
  BY DEF SetToSeqs, IsOrder
<1>3. \A k \in shown : \E i \in 1..n : order[i] = k
  <2>1. order \in Injection(1..n, shown)
    BY <1>2 DEF IsOrder, Injection, IsInjective
  <2>2. Cardinality(1..n) = n /\ IsFiniteSet(1..n)
    BY <1>1, FS_Interval
  <2>3. order \in Surjection(1..n, shown)
    BY <2>1, <2>2, FS_Injection
  <2> QED
    BY <2>3 DEF Surjection
<1>4. output["x"] \in Int /\ output["y"] \in Int
  <2>1. output \in [Axes -> Int]
    BY Widths DEF TypeOK
  <2> QED
    BY <2>1 DEF Axes
<1> HIDE DEF n
<1>14. ASSUME NEW e, NEW total, IsZoneSum(total, e), NEW i \in 0..(n - 1)
       PROVE  /\ total[First(order, i, e)] \in Int
              /\ total[First(order, i + 1, e)]
                   = total[First(order, i, e)] + Share(e, ctx[order[i + 1]])
  BY <1>1, <1>2, <1>14, NextShare
<1>5. PICK L : IsZoneSum(L, "left") /\ Taken("left") = L[DockedAt("left")]
  BY TakenIsSum DEF IsZoneSum
<1>6. PICK R : IsZoneSum(R, "right") /\ Taken("right") = R[DockedAt("right")]
  BY TakenIsSum DEF IsZoneSum
<1>7. PICK T : IsZoneSum(T, "top") /\ Taken("top") = T[DockedAt("top")]
  BY TakenIsSum DEF IsZoneSum
<1>8. PICK B : IsZoneSum(B, "bottom") /\ Taken("bottom") = B[DockedAt("bottom")]
  BY TakenIsSum DEF IsZoneSum
<1>9. PICK area \in [0..n -> Areas] :
         /\ area[0] = Whole
         /\ \A i \in 0..(n - 1) : area[i + 1] = Reserve(area[i], ctx[order[i + 1]])
         /\ WorkAreaIn(order) = area[n]
  <2>1. order \in [1..n -> Ctxs]
    BY <1>2 DEF TypeOK, IsOrder
  <2> QED
    BY <1>1, <2>1, AreaFold
<1> DEFINE At(i) ==
             [x |-> L[First(order, i, "left")], y |-> T[First(order, i, "top")],
              width |-> output["x"] - L[First(order, i, "left")] - R[First(order, i, "right")],
              height |-> output["y"] - T[First(order, i, "top")] - B[First(order, i, "bottom")]]
           N == {i \in Nat : i <= n => area[i] = Kept(At(i))}
<1>10. 0 \in N
  <2>1. \A e : First(order, 0, e) = {}
    BY DEF First
  <2>2. L[{}] = 0 /\ R[{}] = 0 /\ T[{}] = 0 /\ B[{}] = 0
    BY <1>5, <1>6, <1>7, <1>8 DEF IsSum, IsZoneSum
  <2>3. At(0) = [x |-> 0, y |-> 0, width |-> output["x"] - 0 - 0,
                 height |-> output["y"] - 0 - 0]
    BY <2>1, <2>2
  <2>4. output["x"] - 0 - 0 = output["x"] /\ output["y"] - 0 - 0 = output["y"]
    BY <1>4
  <2>5. At(0) = Whole
    <3> HIDE DEF At
    <3> QED
      BY <2>3, <2>4 DEF Whole
  <2> HIDE DEF At
  <2> QED
    BY <1>9, <2>5, KeptWhole
<1>11. ASSUME NEW i \in Nat, i \in N
       PROVE  i + 1 \in N
  <2> SUFFICES ASSUME i + 1 <= n
               PROVE  area[i + 1] = Kept(At(i + 1))
    OBVIOUS
  <2> DEFINE c == ctx[order[i + 1]]
             l == L[First(order, i, "left")]
             r == R[First(order, i, "right")]
             t == T[First(order, i, "top")]
             b == B[First(order, i, "bottom")]
  <2>1. i + 1 \in 1..n /\ (i + 1) - 1 = i /\ i <= n /\ i \in 0..(n - 1)
    BY <1>1
  <2>2. c \in Layouts
    BY <1>2, <2>1 DEF TypeOK, IsOrder
  <2>3. area[i + 1] = Reserve(area[i], c)
    BY <1>1, <1>9, <2>1
  <2>4. area[i] = Kept(At(i))
    BY <1>11, <2>1
  <2>5. l \in Int /\ L[First(order, i + 1, "left")] = l + Share("left", c)
    BY <1>5, <1>14, <2>1
  <2>6. r \in Int /\ R[First(order, i + 1, "right")] = r + Share("right", c)
    BY <1>6, <1>14, <2>1
  <2>7. t \in Int /\ T[First(order, i + 1, "top")] = t + Share("top", c)
    BY <1>7, <1>14, <2>1
  <2>8. b \in Int /\ B[First(order, i + 1, "bottom")] = b + Share("bottom", c)
    BY <1>8, <1>14, <2>1
  <2>9. \A e \in Edges : Share(e, c) \in Int
    BY <2>2, Widths DEF Layouts, Share
  <2>10. /\ At(i) = [x |-> l, y |-> t, width |-> output["x"] - l - r,
                     height |-> output["y"] - t - b]
         /\ At(i) \in Areas
    BY <1>4, <2>5, <2>6, <2>7, <2>8 DEF Areas
  <2>11. area[i + 1] = Kept(Left(At(i), c))
    <3> HIDE DEF c, At
    <3> QED
      BY <2>2, <2>3, <2>4, <2>10, ReserveShares
  <2> HIDE DEF c, l, r, t, b
  <2>12. /\ output["x"] - l - r - Share("left", c) - Share("right", c)
              = output["x"] - (l + Share("left", c)) - (r + Share("right", c))
         /\ output["y"] - t - b - Share("top", c) - Share("bottom", c)
              = output["y"] - (t + Share("top", c)) - (b + Share("bottom", c))
    <3>2. /\ Share("left", c) \in Int /\ Share("right", c) \in Int
          /\ Share("top", c) \in Int /\ Share("bottom", c) \in Int
      BY <2>9 DEF Edges
    <3>3. l \in Int /\ r \in Int /\ t \in Int /\ b \in Int
      BY <2>5, <2>6, <2>7, <2>8
    <3> DEFINE ow == output["x"]
               oh == output["y"]
               sl == Share("left", c)
               sr == Share("right", c)
               st == Share("top", c)
               sb == Share("bottom", c)
    <3> HIDE DEF ow, oh, sl, sr, st, sb
    <3>4. /\ ow \in Int /\ oh \in Int /\ sl \in Int /\ sr \in Int
          /\ st \in Int /\ sb \in Int
      BY <1>4, <3>2 DEF ow, oh, sl, sr, st, sb
    <3>5. ow - l - r - sl - sr = ow - (l + sl) - (r + sr)
      BY <3>3, <3>4
    <3>6. oh - t - b - st - sb = oh - (t + st) - (b + sb)
      BY <3>3, <3>4
    <3> QED
      BY <3>5, <3>6 DEF ow, oh, sl, sr, st, sb
  <2>13. Left(At(i), c) = At(i + 1)
    <3>1. Left(At(i), c) =
            [x |-> l + Share("left", c), y |-> t + Share("top", c),
             width |-> output["x"] - l - r - Share("left", c) - Share("right", c),
             height |-> output["y"] - t - b - Share("top", c) - Share("bottom", c)]
      <4> HIDE DEF At
      <4> QED
        BY <2>10 DEF Left
    <3>2. At(i + 1) =
            [x |-> l + Share("left", c), y |-> t + Share("top", c),
             width |-> output["x"] - (l + Share("left", c)) - (r + Share("right", c)),
             height |-> output["y"] - (t + Share("top", c)) - (b + Share("bottom", c))]
      BY <2>5, <2>6, <2>7, <2>8
    <3> HIDE DEF At
    <3> QED
      BY <2>12, <3>1, <3>2
  <2> HIDE DEF At
  <2> QED
    BY <2>11, <2>13
<1>12. area[n] = Kept(At(n))
  <2>1. Nat \subseteq N
    <3> HIDE DEF N
    <3> QED
      BY <1>10, <1>11, NaturalInduction
  <2>2. n \in N
    BY <1>1, <2>1
  <2> HIDE DEF At
  <2> QED
    BY <1>1, <2>2
<1>13. \A e : First(order, n, e) = DockedAt(e)
  BY <1>3 DEF First, DockedAt
<1>15. At(n) = Rest
  BY <1>5, <1>6, <1>7, <1>8, <1>13 DEF Rest
<1> HIDE DEF At
<1> QED
  BY <1>9, <1>12, <1>15

(* Surfaces are assigned to the output one commit at a time. *)
FinitelyShown == IsFiniteSet(shown)

(* At any time finitely many surfaces have been committed. *)
LEMMA ShownFinite == Spec => []FinitelyShown
<1> USE DEF FinitelyShown
<1>1. Init => FinitelyShown
  BY FS_EmptySet DEF Init
<1>2. FinitelyShown /\ [Next]_vars => FinitelyShown'
  <2> SUFFICES ASSUME IsFiniteSet(shown), [Next]_vars PROVE IsFiniteSet(shown')
    OBVIOUS
  <2>1. ASSUME NEW k \in Ctxs, NEW s \in Sizes, NEW left, CommitSized(k, s, left)
        PROVE  IsFiniteSet(shown')
    BY <2>1, FS_AddElement DEF CommitSized
  <2>2. ASSUME NEW k \in Ctxs, NEW c, Layout(k, c) PROVE IsFiniteSet(shown')
    BY <2>2 DEF Layout
  <2> QED
    BY <2>1, <2>2 DEF Next, vars, Answer, SetSize, SetAnchor, SetExclusiveZone,
                      SetMargin, Commit, Obey, Dismiss, ResizeOutput
<1> HIDE DEF FinitelyShown
<1> QED
  BY <1>1, <1>2, PTL DEF Spec

(* On an axis on which they fit, the zones leave what is kept as it is.     *)
LEMMA KeptRest ==
    ASSUME NEW o \in 1..(Modulus \div 2 - 1), NEW low \in Nat, NEW high \in Nat,
           o - low - high >= 0
    PROVE  /\ ToInt(ToUint(low)) = low
           /\ ToUint(o - low - high) = o - low - high
<1>1. /\ low \in 0..(Modulus - 1) /\ low < Modulus \div 2
      /\ o - low - high \in 0..(Modulus - 1)
  BY LayoutConstants
<1>2. \A n \in 0..(Modulus - 1) : ToUint(n) = n
  BY LayoutConstants DEF ToUint
<1> QED
  BY <1>1, <1>2 DEF ToInt

(* lsh_get_output_work_area gives the desktop the same area in whatever     *)
(* order it meets the contexts of its unordered map, whatever its unsigned  *)
(* sizes do on the way; and on an axis on which the zones fit into the      *)
(* output, that area is the output less the zones.                         *)
THEOREM AreaIsExact == Spec => []WorkAreaExact
<1>1. TypeOK /\ FinitelyShown => WorkAreaExact
  <2> SUFFICES ASSUME TypeOK, IsFiniteSet(shown) PROVE WorkAreaExact
    BY DEF FinitelyShown
  <2>1. \A area \in WorkAreas : area = Kept(Rest)
    BY AreaOfOrder DEF WorkAreas
  <2>2. /\ Taken("left") \in Nat /\ Taken("right") \in Nat
        /\ Taken("top") \in Nat /\ Taken("bottom") \in Nat
    BY TakenNatural
  <2>3. /\ output["x"] \in 1..(Modulus \div 2 - 1)
        /\ output["y"] \in 1..(Modulus \div 2 - 1)
    BY LayoutConstants DEF TypeOK, Axes
  <2>4. /\ Kept(Rest).x = ToInt(ToUint(Taken("left")))
        /\ Kept(Rest).y = ToInt(ToUint(Taken("top")))
        /\ Kept(Rest).width = ToUint(output["x"] - Taken("left") - Taken("right"))
        /\ Kept(Rest).height = ToUint(output["y"] - Taken("top") - Taken("bottom"))
    BY DEF Kept, Rest
  <2>5. output["x"] - Taken("left") - Taken("right") >= 0 =>
          /\ Kept(Rest).x = Taken("left")
          /\ Kept(Rest).width = output["x"] - Taken("left") - Taken("right")
    BY <2>2, <2>3, <2>4, KeptRest
  <2>6. output["y"] - Taken("top") - Taken("bottom") >= 0 =>
          /\ Kept(Rest).y = Taken("top")
          /\ Kept(Rest).height = output["y"] - Taken("top") - Taken("bottom")
    BY <2>2, <2>3, <2>4, KeptRest
  <2>7. WorkAreas # {}
    <3> DEFINE n == Cardinality(shown)
    <3>1. n \in Nat /\ \E order : order \in Bijection(1..n, shown)
      BY FS_CardinalityType DEF ExistsBijection
    <3>2. PICK order : order \in Bijection(1..n, shown)
      BY <3>1
    <3>3. order \in SetToSeqs(shown)
      BY <3>2 DEF SetToSeqs, Bijection, Injection, IsInjective
    <3> QED
      BY <3>3 DEF WorkAreas
  <2>8. Cardinality(WorkAreas) = 1
    <3>1. WorkAreas = {Kept(Rest)}
      BY <2>1, <2>7
    <3> QED
      BY <3>1, FS_Singleton
  <2> QED
    BY <2>1, <2>5, <2>6, <2>8 DEF WorkAreaExact
<1>2. Spec => []TypeOK
  BY Invariance, PTL
<1> QED
  BY <1>1, <1>2, ShownFinite, PTL

=============================================================================
