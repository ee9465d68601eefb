-------------------------- MODULE KeyModifierBinds --------------------------
(***************************************************************************)
(* Keys that act as another key when they are tapped alone                 *)
(* (key-modifier-binds.cpp).  The press of such a key starts a keyboard    *)
(* grab; the next key event ends it.  If that is the release of the key,   *)
(* soon enough, the other key is sent; if it is an event of another key,   *)
(* the grab sends that on itself.                                          *)
(*                                                                         *)
(* notify_key of libweston is modelled as external: it records which keys  *)
(* are down, runs the bindings if no grab is active and then gives the     *)
(* event to the grab that is current now.  So is the input method, which   *)
(* may take and leave the keyboard at any time.  One seat, one focus.      *)
(***************************************************************************)
EXTENDS Timespec, Sequences

CONSTANTS Keys,
          Bound,      \* keys with a binding
          Modifiers,  \* keys that count as modifiers of a binding
          EmitKey,    \* [Bound -> Keys]: the key sent instead
          HoldLimit,  \* 400 in the code, in milliseconds
          MaxTime     \* bound on the clock, in nanoseconds

ASSUME KeyConstants ==
    /\ Bound \subseteq Keys /\ Modifiers \subseteq Keys
    /\ EmitKey \in [Bound -> Keys]
    /\ HoldLimit \in Nat /\ MaxTime \in Nat

VARIABLES now,        \* the clock
          held,       \* keys that are down
          im,         \* the keyboard has an input method
          grab,       \* keyboard->grab
          kg,         \* the keymod_binding_grab objects that are allocated and
                      \* that the input method has not displaced
          sent,       \* key events the last step sent to the focus
          sent_im,    \* ... and to the input method
          last,       \* history: the last key event; none if the grab was taken
          cancelled   \* history: a cancelled grab has not been made up for

vars == <<now, held, im, grab, kg, sent, sent_im, last, cancelled>>

States == {"pressed", "released"}
Events == Keys \X States
KeymodGrab == [this_key : Bound, emit_key : Keys, press_time : Timespec]

(* The grab that is current when no binding is active *)
Base == IF im THEN "input_method" ELSE "default"

TypeOK ==
    /\ now \in 0..MaxTime
    /\ held \subseteq Keys
    /\ im \in BOOLEAN
    /\ grab \in {"default", "input_method", "keymod"}
    /\ kg \subseteq KeymodGrab
    /\ sent \in Seq(Events) /\ sent_im \in Seq(Events)
    /\ last \in [event : Events \cup {<<>>}, at : 0..MaxTime, alone : BOOLEAN]
    /\ cancelled \in BOOLEAN

Init ==
    /\ now = 0
    /\ held = {}
    /\ im \in BOOLEAN
    /\ grab = Base
    /\ kg = {}
    /\ sent = <<>> /\ sent_im = <<>>
    /\ last = [event |-> <<>>, at |-> 0, alone |-> FALSE]
    /\ cancelled = FALSE

-----------------------------------------------------------------------------
(* What the current grab does with an event *)

(* the default grab and the grab of the input method *)
Pass(event) ==
    /\ sent' = IF grab = "default" THEN <<event>> ELSE <<>>
    /\ sent_im' = IF grab = "default" THEN <<>> ELSE <<event>>
    /\ UNCHANGED <<grab, kg, cancelled>>

(* Mutant: the press is not given to the new grab. *)
StartGrabUnset(k) ==
    /\ kg' = kg \cup {[this_key |-> k, emit_key |-> EmitKey[k],
                       press_time |-> [tv_sec |-> 0, tv_nsec |-> -1]]}
    /\ grab' = "keymod"
    /\ sent' = <<>> /\ sent_im' = <<>>
    /\ cancelled' = cancelled

(* start_keymod_grab.  press_time is set by the press that started it,      *)
(* which the new grab is given at once and keeps to itself.                *)
StartGrab(k) ==
    /\ kg' = kg \cup {[this_key |-> k, emit_key |-> EmitKey[k],
                       press_time |-> AsTimespec(now)]}
    /\ grab' = "keymod"
    /\ sent' = <<>> /\ sent_im' = <<>>
    /\ cancelled' = cancelled

Tapped(g) ==
    timespec_to_msec(timespec_sub(AsTimespec(now), g.press_time)) < HoldLimit

(* Mutant: only presses are passed on. *)
SentOnPress(g, k, state) ==
    IF k # g.this_key THEN (IF state = "pressed" THEN <<<<k, state>>>> ELSE <<>>)
    ELSE IF Tapped(g) THEN <<<<g.emit_key, "pressed">>, <<g.emit_key, "released">>>>
    ELSE <<>>

(* what goes to the focus when event <<k, state>> ends grab g *)
SentAtEnd(g, k, state) ==
    IF k # g.this_key THEN <<<<k, state>>>>
    ELSE IF Tapped(g) THEN <<<<g.emit_key, "pressed">>, <<g.emit_key, "released">>>>
    ELSE <<>>

(* Mutant: the grab of the input method is not restored. *)
RestoredDefault(g) == "default"

Restored(g) == Base

(* Mutant: the object is not deleted. *)
EndGrabLeak(g, k, state) ==
    /\ sent' = SentAtEnd(g, k, state)
    /\ sent_im' = <<>>
    /\ grab' = Restored(g)
    /\ kg' = kg
    /\ cancelled' = FALSE

(* keymod_binding_key, for any event but the press that started the grab *)
EndGrab(g, k, state) ==
    /\ sent' = SentAtEnd(g, k, state)
    /\ sent_im' = <<>>
    /\ grab' = Restored(g)
    /\ kg' = kg \ {g}
    /\ cancelled' = FALSE

-----------------------------------------------------------------------------
(* notify_key *)

(* A binding without modifiers runs when none is down; the modifiers are    *)
(* updated after the event has been handled.                               *)
BindingRuns(k) == grab # "keymod" /\ k \in Bound /\ held \cap Modifiers = {}

(* History: a bound key went down alone and nothing has happened since. *)
Waiting == last.alone /\ last.event \in Bound \X {"pressed"}

Remember(k, state) ==
    last' = [event |-> <<k, state>>, at |-> now,
             alone |-> held \cap Modifiers = {} /\ ~Waiting]

Press(k) ==
    /\ k \notin held
    /\ held' = held \cup {k}
    /\ \/ BindingRuns(k) /\ StartGrab(k)
       \/ ~BindingRuns(k) /\ grab # "keymod" /\ Pass(<<k, "pressed">>)
       \/ grab = "keymod" /\ \E g \in kg : EndGrab(g, k, "pressed")
    /\ Remember(k, "pressed")
    /\ UNCHANGED <<now, im>>

Release(k) ==
    /\ k \in held
    /\ held' = held \ {k}
    /\ \/ grab # "keymod" /\ Pass(<<k, "released">>)
       \/ grab = "keymod" /\ \E g \in kg : EndGrab(g, k, "released")
    /\ Remember(k, "released")
    /\ UNCHANGED <<now, im>>

(* keymod_binding_cancel: the input method's grab is not restored *)
Cancel ==
    /\ grab = "keymod"
    /\ grab' = "default"
    /\ \E g \in kg : kg' = kg \ {g}
    /\ sent' = <<>> /\ sent_im' = <<>>
    /\ last' = [last EXCEPT !.event = <<>>]
    /\ cancelled' = TRUE
    /\ UNCHANGED <<now, held, im>>

(* input_method_context.grab_keyboard: whatever grab is active ends without *)
(* being cancelled, so an object of this plugin is left behind, allocated   *)
(* and pointed to by nobody.                                               *)
InputMethodGrabs ==
    /\ im' = TRUE
    /\ grab' = "input_method"
    /\ kg' = {}
    /\ sent' = <<>> /\ sent_im' = <<>>
    /\ last' = [last EXCEPT !.event = <<>>]
    /\ cancelled' = FALSE
    /\ UNCHANGED <<now, held>>

(* The input method gives the keyboard back; another grab stays. *)
InputMethodLeaves ==
    /\ im
    /\ im' = FALSE
    /\ grab' = IF grab = "input_method" THEN "default" ELSE grab
    /\ sent' = <<>> /\ sent_im' = <<>>
    /\ cancelled' = FALSE
    /\ UNCHANGED <<now, held, kg, last>>

Tick ==
    /\ now < MaxTime
    /\ now' = now + 1
    /\ sent' = <<>> /\ sent_im' = <<>>
    /\ UNCHANGED <<held, im, grab, kg, last, cancelled>>

Next ==
    \/ \E k \in Keys : Press(k) \/ Release(k)
    \/ Cancel
    \/ InputMethodGrabs \/ InputMethodLeaves
    \/ Tick

Spec == Init /\ [][Next]_vars

-----------------------------------------------------------------------------
(* The grab object exists exactly while it is the keyboard's grab, so an    *)
(* event never meets a deleted one and the plugin itself loses none (78,    *)
(* 95), also when the input method takes the keyboard in between: one       *)
(* object at most, of a key that is down.                                  *)
GrabOwned ==
    /\ grab = "keymod" <=> kg # {}
    /\ \A g, h \in kg : g = h
    /\ \A g \in kg : g.this_key \in held

(* The substitute key is sent exactly for a tap (45-63): the release of a   *)
(* bound key less than the limit after its press, when no key was pressed   *)
(* or released and nobody took the keyboard in between, and the press found *)
(* no modifier down and no other bound key waiting.                        *)
EmitsExactlyTaps ==
    [][Len(sent') = 2 <=>
         /\ Waiting
         /\ held \ held' = {last.event[1]}
         /\ (now - last.at) \div NSEC_PER_MSEC < HoldLimit]_vars

(* No event of an ordinary key is lost, doubled or held back by the grabs   *)
(* of other keys: each reaches somebody once, when it happens.              *)
OthersDelivered ==
    [][\A k \in Keys \ Bound : held' # held /\ {k} = (held' \cup held) \ (held' \cap held) =>
         sent' \o sent_im' = <<<<k, IF k \in held' THEN "pressed" ELSE "released">>>>]_vars

(* The input method, whenever it came, has the keyboard while no key of     *)
(* this plugin is waiting, and nobody has it on behalf of one that left: it *)
(* is looked up when the grab ends, not when it starts (75-77).  The one    *)
(* exception is a cancelled grab, after which the code leaves the keyboard  *)
(* with the default grab (92-96).                                          *)
InputMethodKept == grab # "keymod" => grab = Base \/ (grab = "default" /\ cancelled)

=============================================================================
