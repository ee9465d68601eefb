----------------------- MODULE KeyModifierBindsProofs -----------------------
(***************************************************************************)
(* Proofs about the time arithmetic of key-modifier-binds.cpp, for all     *)
(* times, and about its grab and what is sent, for any set of keys.       *)
(***************************************************************************)
EXTENDS KeyModifierBinds, TLAPS

(* A second has nanoseconds. *)
LEMMA SecondPositive == NSEC_PER_SEC \in Nat \ {0}
BY TimespecConstants DEF NSEC_PER_SEC

(* The difference of two normalised times is normalised and exact, whether  *)
(* or not the nanoseconds borrow (21-24).                                  *)
THEOREM Exact ==
    ASSUME NEW a \in Timespec, NEW b \in Timespec
    PROVE  /\ timespec_sub(a, b) \in Timespec
           /\ Nanoseconds(timespec_sub(a, b)) = Nanoseconds(a) - Nanoseconds(b)
<1> DEFINE N == NSEC_PER_SEC
<1>1. N \in Nat \ {0}
  BY SecondPositive
<1>2. /\ a.tv_sec \in Int /\ b.tv_sec \in Int
      /\ a.tv_nsec \in 0..(N - 1) /\ b.tv_nsec \in 0..(N - 1)
  BY DEF Timespec
<1>3. /\ (a.tv_sec - b.tv_sec) * N = a.tv_sec * N - b.tv_sec * N
      /\ (a.tv_sec - b.tv_sec - 1) * N = a.tv_sec * N - b.tv_sec * N - N
  <2> HIDE DEF N
  <2> QED
    BY <1>1, <1>2
<1> QED
  BY <1>1, <1>2, <1>3 DEF timespec_sub, Nanoseconds, Timespec

(* A number of nanoseconds and the time it stands for. *)
LEMMA Clock ==
    ASSUME NEW n \in Nat
    PROVE  AsTimespec(n) \in Timespec /\ Nanoseconds(AsTimespec(n)) = n
<1>1. NSEC_PER_SEC \in Nat \ {0}
  BY SecondPositive
<1>2. /\ n \div NSEC_PER_SEC \in Int /\ n % NSEC_PER_SEC \in 0..(NSEC_PER_SEC - 1)
      /\ n = (n \div NSEC_PER_SEC) * NSEC_PER_SEC + (n % NSEC_PER_SEC)
  <2> DEFINE N == NSEC_PER_SEC
  <2> HIDE DEF N
  <2>1. N \in Nat \ {0}
    BY <1>1 DEF N
  <2>2. /\ n \div N \in Int /\ n % N \in 0..(N - 1)
        /\ n = (n \div N) * N + (n % N)
    BY <2>1
  <2> QED
    BY <2>2 DEF N
<1> QED
  BY <1>2 DEF AsTimespec, Timespec, Nanoseconds

(* Dividing by k undoes multiplying by it and adding less than k. *)
LEMMA DivUnique ==
    ASSUME NEW k \in Nat \ {0}, NEW q \in Int, NEW r \in 0..(k - 1), NEW n \in Int,
           n = q * k + r
    PROVE  n \div k = q
OBVIOUS

(* timespec_to_msec rounds a normalised time down to milliseconds. *)
THEOREM Milliseconds ==
    ASSUME NEW t \in Timespec
    PROVE  timespec_to_msec(t) = Nanoseconds(t) \div NSEC_PER_MSEC
<1> DEFINE M == MSEC_PER_SEC
           K == NSEC_PER_MSEC
           q == t.tv_nsec \div K
           r == t.tv_nsec % K
<1>1. M \in Nat \ {0} /\ K \in Nat \ {0}
  BY TimespecConstants
<1>2. t.tv_sec \in Int /\ t.tv_nsec \in Nat
  BY SecondPositive DEF Timespec
<1>3. Nanoseconds(t) = t.tv_sec * (M * K) + t.tv_nsec
  BY DEF Nanoseconds, NSEC_PER_SEC
<1>4. timespec_to_msec(t) = t.tv_sec * M + q
  BY DEF timespec_to_msec
<1> HIDE DEF M, K
<1>5. q \in Int /\ r \in 0..(K - 1) /\ t.tv_nsec = q * K + r
  BY <1>1, <1>2
<1> HIDE DEF q, r
<1>6. t.tv_sec * (M * K) + (q * K + r) = (t.tv_sec * M + q) * K + r
  BY <1>1, <1>2, <1>5
<1>7. (t.tv_sec * (M * K) + t.tv_nsec) \div K = t.tv_sec * M + q
  <2> DEFINE Q == t.tv_sec * M + q
             n == t.tv_sec * (M * K) + t.tv_nsec
  <2>1. Q \in Int /\ n \in Int /\ n = Q * K + r
    BY <1>1, <1>2, <1>5, <1>6
  <2> HIDE DEF Q, n
  <2>2. n \div K = Q
    BY <1>1, <1>5, <2>1, DivUnique
  <2> QED
    BY <2>2 DEF Q, n
<1> QED
  BY <1>3, <1>4, <1>7 DEF K

-----------------------------------------------------------------------------
(* The grab object is that of the press the history is waiting on. *)
Pending ==
    /\ Waiting <=> grab = "keymod"
    /\ \A g \in kg : /\ last.event = <<g.this_key, "pressed">>
                     /\ g.press_time = AsTimespec(last.at)

Inv == TypeOK /\ GrabOwned /\ Pending /\ InputMethodKept

(* Sequences of at most two elements, as the events a key gives.           *)
LEMMA Short ==
    ASSUME NEW S
    PROVE  /\ <<>> \in Seq(S)
           /\ \A e \in S : <<e>> \in Seq(S)
           /\ \A e, f \in S : <<e, f>> \in Seq(S)
OBVIOUS

(* An event that is passed on leaves no grab of this plugin behind. *)
LEMMA PassStep ==
    ASSUME Inv, NEW k \in Keys, NEW s \in States, grab # "keymod", Pass(<<k, s>>),
           held' \in SUBSET Keys, Remember(k, s), UNCHANGED <<now, im>>,
           s = "pressed" => ~BindingRuns(k)
    PROVE  Inv'
<1>1. kg = {} /\ kg' = {} /\ grab' = grab /\ ~Waiting
  BY DEF Inv, GrabOwned, Pending, Pass
<1>2. /\ last' = [event |-> <<k, s>>, at |-> now, alone |-> held \cap Modifiers = {}]
  BY <1>1, Zenon DEF Remember
<1>3. ~Waiting'
  <2>1. last'.event = <<k, s>> /\ last'.alone = (held \cap Modifiers = {})
    BY <1>2
  <2>2. <<k, s>> \in Bound \X {"pressed"} => k \in Bound /\ s = "pressed"
    OBVIOUS
  <2>3. k \in Bound /\ s = "pressed" => held \cap Modifiers # {}
    BY DEF BindingRuns
  <2> QED
    BY <2>1, <2>2, <2>3 DEF Waiting
<1>4. sent' \in Seq(Events) /\ sent_im' \in Seq(Events)
  <2>1. <<k, s>> \in Events
    BY DEF Events
  <2> QED
    BY <2>1, Short DEF Pass
<1>5. last' \in [event : Events \cup {<<>>}, at : 0..MaxTime, alone : BOOLEAN]
  BY <1>2 DEF Events, Inv, TypeOK
<1>6. TypeOK'
  BY <1>1, <1>4, <1>5 DEF Inv, TypeOK, Pass
<1>7. InputMethodKept'
  BY DEF Inv, InputMethodKept, Pass, Base
<1> QED
  BY <1>1, <1>3, <1>6, <1>7 DEF Inv, GrabOwned, Pending

(* An event that ends the grab leaves neither grab nor object behind. *)
LEMMA EndStep ==
    ASSUME Inv, NEW k \in Keys, NEW s \in States, grab = "keymod",
           NEW g \in kg, EndGrab(g, k, s),
           held' \in SUBSET Keys, Remember(k, s), UNCHANGED <<now, im>>
    PROVE  Inv'
<1>1. kg' = {} /\ grab' = Base /\ grab' # "keymod" /\ Waiting
  BY DEF Inv, GrabOwned, Pending, EndGrab, Restored, Base
<1>2. last' = [event |-> <<k, s>>, at |-> now, alone |-> FALSE]
  BY <1>1 DEF Remember
<1>3. ~Waiting'
  BY <1>2 DEF Waiting
<1>4. sent' \in Seq(Events) /\ sent_im' \in Seq(Events)
  <2>1. g.emit_key \in Keys
    BY DEF Inv, TypeOK, KeymodGrab
  <2>2. SentAtEnd(g, k, s) \in Seq(Events)
    <3>1. /\ <<k, s>> \in Events
          /\ <<g.emit_key, "pressed">> \in Events /\ <<g.emit_key, "released">> \in Events
      BY <2>1 DEF Events, States
    <3> QED
      BY <3>1, Short DEF SentAtEnd
  <2> QED
    BY <2>2, Short DEF EndGrab
<1>5. last' \in [event : Events \cup {<<>>}, at : 0..MaxTime, alone : BOOLEAN]
  BY <1>2 DEF Events, Inv, TypeOK
<1>6. TypeOK'
  BY <1>1, <1>4, <1>5 DEF Inv, TypeOK, Base, EndGrab
<1>7. InputMethodKept'
  BY <1>1 DEF InputMethodKept, Base
<1> QED
  BY <1>1, <1>3, <1>6, <1>7 DEF Inv, GrabOwned, Pending

(* The grab starts with the press that the history waits on from then on. *)
LEMMA StartStep ==
    ASSUME Inv, NEW k \in Keys, BindingRuns(k), StartGrab(k),
           held' = held \cup {k}, Remember(k, "pressed"), UNCHANGED <<now, im>>
    PROVE  Inv'
<1> DEFINE g == [this_key |-> k, emit_key |-> EmitKey[k], press_time |-> AsTimespec(now)]
<1>1. k \in Bound /\ held \cap Modifiers = {} /\ kg = {} /\ ~Waiting
  BY DEF BindingRuns, Inv, GrabOwned, Pending
<1>2. kg' = {g} /\ grab' = "keymod"
  BY <1>1 DEF StartGrab
<1>3. last' = [event |-> <<k, "pressed">>, at |-> now, alone |-> TRUE]
  BY <1>1 DEF Remember
<1>4. Waiting'
  BY <1>1, <1>3 DEF Waiting
<1>5. g \in KeymodGrab
  <2>1. AsTimespec(now) \in Timespec
    BY Clock DEF Inv, TypeOK
  <2>2. EmitKey[k] \in Keys
    BY <1>1, KeyConstants
  <2> QED
    BY <1>1, <2>1, <2>2 DEF KeymodGrab
<1>6. last' \in [event : Events \cup {<<>>}, at : 0..MaxTime, alone : BOOLEAN]
  BY <1>3 DEF Events, States, Inv, TypeOK
<1>7. sent' \in Seq(Events) /\ sent_im' \in Seq(Events)
  BY DEF StartGrab
<1>8. TypeOK'
  BY <1>2, <1>5, <1>6, <1>7 DEF Inv, TypeOK, StartGrab
<1>9. GrabOwned'
  BY <1>2 DEF GrabOwned
<1>10. Pending'
  BY <1>2, <1>3, <1>4 DEF Pending
<1>11. InputMethodKept'
  BY <1>2 DEF InputMethodKept
<1> QED
  BY <1>8, <1>9, <1>10, <1>11 DEF Inv

(* Every key event, cancellation, tick and coming or going of the input     *)
(* method keeps the invariant.                                             *)
LEMMA InvStep == Inv /\ [Next]_vars => Inv'
<1> SUFFICES ASSUME Inv, [Next]_vars PROVE Inv'
  OBVIOUS
<1>1. ASSUME NEW k \in Keys, Press(k) PROVE Inv'
  <2>1. /\ held' = held \cup {k} /\ held' \in SUBSET Keys /\ "pressed" \in States
        /\ Remember(k, "pressed") /\ UNCHANGED <<now, im>>
    BY <1>1 DEF Press, Inv, TypeOK, States
  <2>2. CASE BindingRuns(k) /\ StartGrab(k)
    BY <2>1, <2>2, StartStep
  <2>3. CASE ~BindingRuns(k) /\ grab # "keymod" /\ Pass(<<k, "pressed">>)
    BY <2>1, <2>3, PassStep
  <2>4. CASE grab = "keymod" /\ \E g \in kg : EndGrab(g, k, "pressed")
    BY <2>1, <2>4, EndStep
  <2> QED
    BY <1>1, <2>2, <2>3, <2>4 DEF Press
<1>2. ASSUME NEW k \in Keys, Release(k) PROVE Inv'
  <2>1. /\ held' \in SUBSET Keys /\ "released" \in States /\ "released" # "pressed"
        /\ Remember(k, "released") /\ UNCHANGED <<now, im>>
    BY <1>2 DEF Release, Inv, TypeOK, States
  <2>2. CASE grab # "keymod" /\ Pass(<<k, "released">>)
    BY <2>1, <2>2, PassStep
  <2>3. CASE grab = "keymod" /\ \E g \in kg : EndGrab(g, k, "released")
    BY <2>1, <2>3, EndStep
  <2> QED
    BY <1>2, <2>2, <2>3 DEF Release
<1>3. CASE Cancel
  <2>1. kg' = {} /\ grab' = "default"
    BY <1>3 DEF Cancel, Inv, GrabOwned
  <2>2. /\ last' \in [event : Events \cup {<<>>}, at : 0..MaxTime, alone : BOOLEAN]
        /\ last'.event = <<>>
    BY <1>3 DEF Cancel, Inv, TypeOK
  <2>3. ~Waiting'
    BY <2>2 DEF Waiting
  <2>4. TypeOK'
    BY <1>3, <2>1, <2>2 DEF Cancel, Inv, TypeOK
  <2>5. InputMethodKept'
    BY <1>3, <2>1 DEF Cancel, InputMethodKept
  <2> QED
    BY <2>1, <2>3, <2>4, <2>5 DEF Inv, GrabOwned, Pending
<1>4. CASE Tick
  <2>1. TypeOK'
    <3>1. now' \in 0..MaxTime
      BY <1>4, KeyConstants DEF Tick, Inv, TypeOK
    <3>2. sent' \in Seq(Events) /\ sent_im' \in Seq(Events)
      BY <1>4, Short DEF Tick
    <3>3. UNCHANGED <<held, im, grab, kg, last, cancelled>>
      BY <1>4 DEF Tick
    <3> QED
      BY <3>1, <3>2, <3>3 DEF Inv, TypeOK
  <2> QED
    BY <1>4, <2>1 DEF Tick, Inv, GrabOwned, Pending, Waiting, InputMethodKept, Base
<1>5. CASE UNCHANGED vars
  <2>1. TypeOK'
    BY <1>5 DEF vars, Inv, TypeOK
  <2> QED
    BY <1>5, <2>1 DEF vars, Inv, GrabOwned, Pending, Waiting, InputMethodKept, Base
<1>6. CASE InputMethodGrabs
  <2>1. /\ last' \in [event : Events \cup {<<>>}, at : 0..MaxTime, alone : BOOLEAN]
        /\ last'.event = <<>>
    BY <1>6 DEF InputMethodGrabs, Inv, TypeOK
  <2>2. ~Waiting'
    BY <2>1 DEF Waiting
  <2>3. TypeOK'
    <3>1. sent' \in Seq(Events) /\ sent_im' \in Seq(Events)
      BY <1>6, Short DEF InputMethodGrabs
    <3>2. /\ im' \in BOOLEAN /\ cancelled' \in BOOLEAN /\ kg' \subseteq KeymodGrab
          /\ grab' \in {"default", "input_method", "keymod"}
          /\ UNCHANGED <<now, held>>
      BY <1>6 DEF InputMethodGrabs
    <3> QED
      BY <2>1, <3>1, <3>2 DEF Inv, TypeOK
  <2> QED
    BY <1>6, <2>2, <2>3
       DEF InputMethodGrabs, Inv, GrabOwned, Pending, InputMethodKept, Base
<1>7. CASE InputMethodLeaves
  <2>1. /\ UNCHANGED <<now, held, kg, last>> /\ im' = FALSE /\ cancelled' = FALSE
        /\ sent' = <<>> /\ sent_im' = <<>> /\ im
        /\ grab' = IF grab = "input_method" THEN "default" ELSE grab
    BY <1>7 DEF InputMethodLeaves
  <2>2. TypeOK'
    BY <2>1, Short DEF Inv, TypeOK
  <2>3. GrabOwned' /\ Pending'
    BY <2>1 DEF Inv, GrabOwned, Pending, Waiting
  <2>4. InputMethodKept'
    BY <2>1 DEF Inv, TypeOK, InputMethodKept, Base
  <2> QED
    BY <2>2, <2>3, <2>4 DEF Inv
<1> QED
  BY <1>1, <1>2, <1>3, <1>4, <1>5, <1>6, <1>7 DEF Next

(* The invariant holds throughout. *)
LEMMA Invariance == Spec => []Inv
<1>1. Init => Inv
  <2> SUFFICES ASSUME Init PROVE Inv
    OBVIOUS
  <2>1. TypeOK
    <3>1. 0 \in 0..MaxTime
      BY KeyConstants
    <3>2. sent \in Seq(Events) /\ sent_im \in Seq(Events)
      BY Short DEF Init
    <3>3. grab \in {"default", "input_method", "keymod"} /\ im \in BOOLEAN
      BY DEF Init, Base
    <3>4. last \in [event : Events \cup {<<>>}, at : 0..MaxTime, alone : BOOLEAN]
      BY <3>1 DEF Init
    <3>5. now \in 0..MaxTime /\ held = {} /\ kg = {} /\ cancelled = FALSE
      BY <3>1 DEF Init
    <3> QED
      BY <3>2, <3>3, <3>4, <3>5 DEF TypeOK
  <2>2. GrabOwned /\ Pending
    BY DEF Init, GrabOwned, Pending, Waiting, Base
  <2>3. InputMethodKept
    BY DEF Init, InputMethodKept
  <2> QED
    BY <2>1, <2>2, <2>3 DEF Inv
<1> QED
  BY <1>1, InvStep, PTL DEF Spec

(* The keyboard's state always has its declared shape; in particular the    *)
(* grab never keeps the press time that it is constructed with.            *)
THEOREM TypeCorrect == Spec => []TypeOK
BY Invariance, PTL DEF Inv

(* The grab object lives exactly as long as the grab, for any set of keys,  *)
(* bindings and modifiers.                                                 *)
THEOREM Owned == Spec => []GrabOwned
BY Invariance, PTL DEF Inv

(* The input method that is there, and none that left, has the keyboard     *)
(* while no key of the plugin waits, unless a grab was cancelled.           *)
THEOREM Kept == Spec => []InputMethodKept
BY Invariance, PTL DEF Inv

-----------------------------------------------------------------------------
(* In nanoseconds, the time that timespec_sub and timespec_to_msec give for *)
(* two readings of the clock is their difference, rounded down.            *)
LEMMA Elapsed ==
    ASSUME NEW m \in Nat, NEW n \in Nat
    PROVE  timespec_to_msec(timespec_sub(AsTimespec(n), AsTimespec(m)))
             = (n - m) \div NSEC_PER_MSEC
<1>1. /\ AsTimespec(n) \in Timespec /\ Nanoseconds(AsTimespec(n)) = n
      /\ AsTimespec(m) \in Timespec /\ Nanoseconds(AsTimespec(m)) = m
  BY Clock
<1>2. /\ timespec_sub(AsTimespec(n), AsTimespec(m)) \in Timespec
      /\ Nanoseconds(timespec_sub(AsTimespec(n), AsTimespec(m))) = n - m
  BY <1>1, Exact
<1> QED
  BY <1>2, Milliseconds

(* The substitute key is sent exactly for a tap, for any set of keys, any   *)
(* hold limit and any times.                                               *)
THEOREM ExactlyTaps == Spec => EmitsExactlyTaps
<1> DEFINE Tap == /\ Waiting
                  /\ held \ held' = {last.event[1]}
                  /\ (now - last.at) \div NSEC_PER_MSEC < HoldLimit
<1>1. ASSUME Inv, Next PROVE Len(sent') = 2 <=> Tap
  <2>1. ASSUME NEW k \in Keys, NEW s \in States, Pass(<<k, s>>), grab # "keymod"
        PROVE  Len(sent') # 2 /\ ~Waiting
    BY <1>1, <2>1 DEF Pass, Inv, Pending
  <2>2. ASSUME NEW k \in Keys, NEW s \in States, NEW g \in kg, grab = "keymod",
               EndGrab(g, k, s)
        PROVE  /\ Waiting /\ last.event[1] = g.this_key /\ g.this_key \in held
               /\ Len(sent') = 2 <=>
                    k = g.this_key /\ (now - last.at) \div NSEC_PER_MSEC < HoldLimit
    <3>1. Waiting /\ last.event[1] = g.this_key /\ g.this_key \in held
      BY <1>1, <2>2 DEF Inv, Pending, GrabOwned
    <3>2. g.press_time = AsTimespec(last.at) /\ now \in Nat /\ last.at \in Nat
      BY <1>1, KeyConstants DEF Inv, Pending, TypeOK
    <3>3. Tapped(g) <=> (now - last.at) \div NSEC_PER_MSEC < HoldLimit
      BY <3>2, Elapsed DEF Tapped
    <3>4. Len(sent') = 2 <=> k = g.this_key /\ Tapped(g)
      BY <2>2 DEF EndGrab, SentAtEnd
    <3> QED
      BY <3>1, <3>3, <3>4
  <2>3. ASSUME NEW k \in Keys, Press(k) PROVE Len(sent') = 2 <=> Tap
    <3>1. k \notin held /\ held \ held' = {} /\ "pressed" \in States
      BY <2>3 DEF Press, States
    <3>2. CASE BindingRuns(k) /\ StartGrab(k)
      <4>1. sent' = <<>>
        BY <3>2 DEF StartGrab
      <4> HIDE <3>2
      <4>2. Len(sent') # 2
        BY <4>1
      <4>3. held \ held' # {last.event[1]}
        BY <3>1
      <4> QED
        BY <4>2, <4>3
    <3>3. CASE ~BindingRuns(k) /\ grab # "keymod" /\ Pass(<<k, "pressed">>)
      BY <2>1, <3>1, <3>3
    <3>4. CASE grab = "keymod" /\ \E g \in kg : EndGrab(g, k, "pressed")
      BY <2>2, <3>1, <3>4
    <3> QED
      BY <2>3, <3>2, <3>3, <3>4 DEF Press
  <2>4. ASSUME NEW k \in Keys, Release(k) PROVE Len(sent') = 2 <=> Tap
    <3>1. held \ held' = {k} /\ "released" \in States
      BY <2>4 DEF Release, States
    <3>2. CASE grab # "keymod" /\ Pass(<<k, "released">>)
      BY <2>1, <3>1, <3>2
    <3>3. CASE grab = "keymod" /\ \E g \in kg : EndGrab(g, k, "released")
      BY <2>2, <3>1, <3>3
    <3> QED
      BY <2>4, <3>2, <3>3 DEF Release
  <2>5. CASE Cancel \/ InputMethodGrabs \/ InputMethodLeaves \/ Tick
    <3>1. Len(sent') # 2 /\ held \ held' = {}
      BY <2>5 DEF Cancel, InputMethodGrabs, InputMethodLeaves, Tick
    <3> QED
      BY <3>1
  <2> QED
    BY <1>1, <2>3, <2>4, <2>5 DEF Next
<1>2. Inv /\ [Next]_vars => [Len(sent') = 2 <=> Tap]_vars
  BY <1>1
<1> QED
  BY <1>2, Invariance, PTL DEF Spec, EmitsExactlyTaps

(* No event of an ordinary key is lost, doubled or held back, whatever keys *)
(* are bound.                                                              *)
THEOREM Delivered == Spec => OthersDelivered
<1> DEFINE Changed == (held' \cup held) \ (held' \cap held)
           Way(k) == IF k \in held' THEN "pressed" ELSE "released"
           Others == \A k \in Keys \ Bound : held' # held /\ {k} = Changed =>
                       sent' \o sent_im' = <<<<k, Way(k)>>>>
<1>1. ASSUME Inv, Next PROVE Others
  <2>1. ASSUME NEW e, Pass(e) PROVE sent' \o sent_im' = <<e>>
    <3>1. \/ sent' = <<e>> /\ sent_im' = <<>>
          \/ sent' = <<>> /\ sent_im' = <<e>>
      BY <2>1, Zenon DEF Pass
    <3>2. <<e>> \o <<>> = <<e>> /\ <<>> \o <<e>> = <<e>>
      OBVIOUS
    <3> QED
      BY <3>1, <3>2, Zenon
  <2>2. ASSUME NEW k \in Keys \ Bound, NEW s, NEW g \in kg, EndGrab(g, k, s)
        PROVE  sent' \o sent_im' = <<<<k, s>>>>
    <3>1. k # g.this_key
      BY <1>1, <2>2 DEF Inv, TypeOK, KeymodGrab
    <3> QED
      BY <2>2, <3>1 DEF EndGrab, SentAtEnd
  <2>3. ASSUME NEW k \in Keys \ Bound, NEW j \in Keys, Press(j), {k} = Changed
        PROVE  sent' \o sent_im' = <<<<k, Way(k)>>>>
    <3>1. j = k /\ k \in held'
      BY <2>3 DEF Press
    <3>2. ~BindingRuns(k)
      BY DEF BindingRuns
    <3> QED
      BY <2>1, <2>2, <2>3, <3>1, <3>2 DEF Press
  <2>4. ASSUME NEW k \in Keys \ Bound, NEW j \in Keys, Release(j), {k} = Changed
        PROVE  sent' \o sent_im' = <<<<k, Way(k)>>>>
    <3>1. j = k /\ k \notin held'
      BY <2>4 DEF Release
    <3> QED
      BY <2>1, <2>2, <2>4, <3>1 DEF Release
  <2>5. CASE Cancel \/ InputMethodGrabs \/ InputMethodLeaves \/ Tick
    BY <2>5 DEF Cancel, InputMethodGrabs, InputMethodLeaves, Tick
  <2> QED
    BY <1>1, <2>3, <2>4, <2>5 DEF Next
<1>2. Inv /\ [Next]_vars => [Others]_vars
  BY <1>1
<1> QED
  BY <1>2, Invariance, PTL DEF Spec, OthersDelivered

=============================================================================
