------------------------ MODULE CompositorManagement ------------------------
(***************************************************************************)
(* The compositor-management plugin (compositor-management.cpp).  A client *)
(* that binds the global, a manager, subscribes to topics and sends        *)
(* commands.  The plugin listens to signals of the compositor; a signal    *)
(* and almost every command send the subscribers of a topic an update,     *)
(* which is a file with a snapshot of everything the plugin knows.         *)
(*                                                                         *)
(* Handlers and listeners run one at a time in the event loop.  Updates    *)
(* travel to each manager in order and arrive some time later, so what a   *)
(* manager says of an output, a device index or a surface refers to a      *)
(* state that may be past.                                                 *)
(*                                                                         *)
(* Abstractions.  The geometry, name and heads of an output are its place. *)
(* A device has one setting per setter request, on or off, and takes only  *)
(* those it supports; scales are wl_fixed_t, so 256 is 1.0.                *)
(***************************************************************************)
EXTENDS Naturals, Sequences

CONSTANTS Managers,         \* wldip_compositor_manager resources
          Surfaces,         \* addresses a weston_surface can have
          DesktopSurfaces,  \* those that are desktop surfaces
          Uid,              \* address modulo 1000000
          Layers,
          Outputs,          \* output ids
          Places,           \* everything about an output but its scale
          Scales,           \* wl_fixed_t values
          Devices,
          Features,         \* one for each device_set_... request
          Supports,         \* features a device can be configured in
          SeatLists,        \* the seats there can be at start, with devices
          Indices,          \* seat and device indices in requests
          None

One == 256

ASSUME ManagementAssumption ==
    /\ DesktopSurfaces \subseteq Surfaces
    /\ Uid \in [Surfaces -> Nat]
    /\ One \in Scales /\ Scales \subseteq Nat
    /\ Supports \in [Devices -> SUBSET Features]
    /\ SeatLists \subseteq Seq(Seq(Devices))
    /\ Indices \subseteq Nat
    /\ None \notin Devices

Topics == {"surfaces", "outputs", "inputdevs"}
Views == [surface : Surfaces, layer : Layers]
OutputData == [place : Places, scale : Scales \ 0..(One - 1)]

VARIABLES running,      \* the compositor has not crashed
          desk_shell,   \* the desktop shell had registered its API
          view_list, outputs, seats, setting,
          active,       \* surface activated last
          bound,        \* resources with cm_impl
          subscribers,  \* the three sets, by topic
          inbox,        \* updates on their way to each manager
          known,        \* the update each manager received last
          told          \* history: subscriptions followed by an update

server == <<running, desk_shell, view_list, outputs, seats, setting, active>>
mvars == <<server, bound, subscribers, inbox, known, told>>

(* make_update: the topics' parts of the state at the time of the call *)
make_update(v, o, se, st) ==
    [surfaces |-> {v[i].surface : i \in DOMAIN v},
     outputs |-> o,
     inputdevs |-> [i \in DOMAIN se |-> [j \in DOMAIN se[i] |->
                      [device |-> se[i][j], setting |-> st[se[i][j]]]]]]

Now == make_update(view_list, outputs, seats, setting)

Init ==
    /\ running = TRUE
    /\ desk_shell \in BOOLEAN
    /\ view_list = <<>>
    /\ outputs \in [Outputs -> {None} \cup [place : Places, scale : {One}]]
    /\ seats \in SeatLists
    /\ setting = [d \in Devices |-> [f \in Features |-> FALSE]]
    /\ active = None
    /\ bound = {}
    /\ subscribers = [t \in Topics |-> {}]
    /\ inbox = [m \in Managers |-> <<>>]
    /\ known = [m \in Managers |-> None]
    /\ told = {}

-----------------------------------------------------------------------------
(* Updates *)

Deliver(ms, updates) ==
    /\ inbox' = [m \in Managers |-> IF m \in ms THEN inbox[m] \o updates ELSE inbox[m]]
    /\ told' = told \cup {p \in ms \X Topics : p[1] \in subscribers[p[2]]}
    /\ UNCHANGED <<bound, subscribers, known>>

(* Mutant: only a subscriber is answered. *)
send_update_to_subscribed(m, u) ==
    Deliver({m} \cap UNION {subscribers[t] : t \in Topics}, <<u>>)

send_update_to(m, u) == Deliver({m}, <<u>>)

(* Mutant: whoever has an update to read is not sent another. *)
send_update_unless_pending(topic, updates) ==
    Deliver({m \in subscribers[topic] : inbox[m] = <<>>}, updates)

(* send_update_surface, send_update_output, send_update_inputdevs *)
send_update(topic, updates) == Deliver(subscribers[topic], updates)

(* libwayland hands the update to the client's on_update, in order *)
Receive(m) ==
    /\ m \in bound
    /\ inbox[m] # <<>>
    /\ known' = [known EXCEPT ![m] = Head(inbox[m])]
    /\ inbox' = [inbox EXCEPT ![m] = Tail(@)]
    /\ UNCHANGED <<server, bound, subscribers, told>>

-----------------------------------------------------------------------------
(* Managers come, subscribe, ask and go *)

bind_manager(m) ==
    /\ running
    /\ m \notin bound
    /\ bound' = bound \cup {m}
    /\ known' = [known EXCEPT ![m] = None]
    /\ UNCHANGED <<server, subscribers, inbox, told>>

(* cm_subscribe: sends nothing, so the subscriber knows what it knew *)
cm_subscribe(m, topics) ==
    /\ subscribers' = [t \in Topics |->
         IF t \in topics THEN subscribers[t] \cup {m} ELSE subscribers[t]]
    /\ UNCHANGED <<server, bound, inbox, known, told>>

cm_get(m) == send_update_to(m, Now) /\ UNCHANGED server

(* Mutant: the input device subscription is forgotten. *)
LeftByAllButInputdevs(m) == {"surfaces", "outputs"}

LeftBy(m) == Topics

(* The only way out: the client disconnects, which destroys its resource. *)
cm_destructor(m) ==
    /\ running
    /\ m \in bound
    /\ bound' = bound \ {m}
    /\ subscribers' = [t \in Topics |->
         IF t \in LeftBy(m) THEN subscribers[t] \ {m} ELSE subscribers[t]]
    /\ inbox' = [inbox EXCEPT ![m] = <<>>]
    /\ told' = {p \in told : p[1] # m}
    /\ UNCHANGED <<server, known>>

-----------------------------------------------------------------------------
(* Commands *)

First(S) == CHOOSE i \in S : \A j \in S : i <= j

(* The first view whose surface has that uid.  A desktop surface is        *)
(* activated through the shell, whose activate signal sends an update of   *)
(* its own.  Without the shell's API the null pointer crashes; without a   *)
(* seat, what is handed over is no seat, which crashes or goes unnoticed.  *)
cm_desktop_surface_activate(m, uid) ==
    LET named == {i \in DOMAIN view_list : Uid[view_list[i].surface] = uid}
        surface == view_list[First(named)].surface
        found == named # {} /\ surface \in DesktopSurfaces
    IN
    /\ UNCHANGED <<desk_shell, view_list, outputs, seats, setting>>
    /\ \/ /\ ~found
          /\ send_update("surfaces", <<Now>>)
          /\ UNCHANGED <<running, active>>
       \/ /\ found /\ desk_shell
          /\ active' = surface
          /\ send_update("surfaces", <<Now, Now>>)
          /\ UNCHANGED running
       \/ /\ found /\ (~desk_shell \/ seats = <<>>)
          /\ running' = FALSE
          /\ UNCHANGED <<active, bound, subscribers, inbox, known, told>>

(* Mutant: no scale is too small. *)
TooSmallNever(scale) == FALSE

TooSmall(scale) == scale < One

(* A scale below one is ignored.  An unknown output is not, as far as the  *)
(* update goes.  A new scale may resize the output, which is a signal.     *)
cm_output_set_scale(m, id, scale) ==
    \/ TooSmall(scale) /\ UNCHANGED <<server, bound, subscribers, inbox, known, told>>
    \/ /\ ~TooSmall(scale)
       /\ outputs' = IF outputs[id] = None THEN outputs
                     ELSE [outputs EXCEPT ![id].scale = scale]
       /\ LET u == make_update(view_list, outputs', seats, setting)
          IN \E updates \in {<<u>>, <<u, u>>} : send_update("outputs", updates)
       /\ UNCHANGED <<running, desk_shell, view_list, seats, setting, active>>

(* with_input_device: counts from zero; a seat of another back end lists   *)
(* no devices                                                              *)
DeviceAt(seat_idx, device_idx) ==
    IF /\ seat_idx + 1 \in DOMAIN seats
       /\ device_idx + 1 \in DOMAIN seats[seat_idx + 1]
    THEN seats[seat_idx + 1][device_idx + 1]
    ELSE None

(* the twelve cm_device_set_... handlers *)
cm_device_set(m, seat_idx, device_idx, feature, enable) ==
    LET device == DeviceAt(seat_idx, device_idx)
    IN
    /\ setting' = IF device # None /\ feature \in Supports[device]
                  THEN [setting EXCEPT ![device][feature] = enable] ELSE setting
    /\ send_update("inputdevs", <<make_update(view_list, outputs, seats, setting')>>)
    /\ UNCHANGED <<running, desk_shell, view_list, outputs, seats, active>>

-----------------------------------------------------------------------------
(* What happens in the compositor.  Most of it is a signal. *)

(* A new surface has no view yet, so the update says what was known. *)
on_create_surface ==
    send_update("surfaces", <<Now>>) /\ UNCHANGED server

(* No signal the plugin listens to. *)
MapView(v) ==
    /\ \E i \in 0..Len(view_list) :
         view_list' = SubSeq(view_list, 1, i) \o <<v>> \o
                      SubSeq(view_list, i + 1, Len(view_list))
    /\ UNCHANGED <<running, desk_shell, outputs, seats, setting, active>>
    /\ UNCHANGED <<bound, subscribers, inbox, known, told>>

UnmapView(i) ==
    /\ view_list' = SubSeq(view_list, 1, i - 1) \o
                    SubSeq(view_list, i + 1, Len(view_list))
    /\ UNCHANGED <<running, desk_shell, outputs, seats, setting, active>>
    /\ UNCHANGED <<bound, subscribers, inbox, known, told>>

(* the shell or a client activates a surface *)
on_activate(s) ==
    /\ active' = s
    /\ send_update("surfaces", <<Now>>)
    /\ UNCHANGED <<running, desk_shell, view_list, outputs, seats, setting>>

(* on_output_created, _destroyed, _moved, _resized and _heads_changed: the *)
(* signal is emitted once the output list is what it has become            *)
OutputSignal(o) ==
    /\ outputs' = o
    /\ send_update("outputs", <<make_update(view_list, outputs', seats, setting)>>)
    /\ UNCHANGED <<running, desk_shell, view_list, seats, setting, active>>

on_output_created(id, data) ==
    outputs[id] = None /\ OutputSignal([outputs EXCEPT ![id] = data])

on_output_destroyed(id) ==
    outputs[id] # None /\ OutputSignal([outputs EXCEPT ![id] = None])

on_output_changed(id, place) ==
    outputs[id] # None /\ OutputSignal([outputs EXCEPT ![id].place = place])

(* A device that is plugged in is new to libinput: it has no settings. *)
on_input_devices_changed ==
    /\ \/ \E i \in DOMAIN seats, d \in Devices :
            /\ \A k \in DOMAIN seats : \A j \in DOMAIN seats[k] : seats[k][j] # d
            /\ seats' = [seats EXCEPT ![i] = Append(@, d)]
            /\ setting' = [setting EXCEPT ![d] = [f \in Features |-> FALSE]]
       \/ \E i \in DOMAIN seats : \E j \in DOMAIN seats[i] :
            /\ seats' = [seats EXCEPT ![i] =
                           SubSeq(@, 1, j - 1) \o SubSeq(@, j + 1, Len(@))]
            /\ UNCHANGED setting
    /\ send_update("inputdevs", <<make_update(view_list, outputs, seats', setting')>>)
    /\ UNCHANGED <<running, desk_shell, view_list, outputs, active>>

-----------------------------------------------------------------------------
Command(m) ==
    \/ cm_get(m)
    \/ \E s \in Surfaces : cm_desktop_surface_activate(m, Uid[s])
    \/ \E id \in Outputs, scale \in Scales : cm_output_set_scale(m, id, scale)
    \/ \E s, d \in Indices, f \in Features, e \in BOOLEAN : cm_device_set(m, s, d, f, e)

Signal ==
    \/ on_create_surface
    \/ \E s \in DesktopSurfaces : on_activate(s)
    \/ \E v \in Views : MapView(v)
    \/ \E i \in DOMAIN view_list : UnmapView(i)
    \/ \E id \in Outputs, p \in Places : on_output_created(id, [place |-> p, scale |-> One])
    \/ \E id \in Outputs : on_output_destroyed(id)
    \/ \E id \in Outputs, p \in Places : on_output_changed(id, p)
    \/ on_input_devices_changed

Visit(m) == bind_manager(m) \/ cm_destructor(m) \/ Receive(m)

Next ==
    \/ \E m \in Managers : Visit(m)
    \/ /\ running
       /\ \/ \E m \in bound, topics \in SUBSET Topics : cm_subscribe(m, topics)
          \/ \E m \in bound : Command(m)
          \/ Signal

Spec == Init /\ [][Next]_mvars

-----------------------------------------------------------------------------
Update == [surfaces : SUBSET Surfaces,
           outputs : [Outputs -> {None} \cup OutputData],
           inputdevs : Seq(Seq([device : Devices, setting : [Features -> BOOLEAN]]))]

(* The state keeps its shape; in particular no output has a scale below one,*)
(* whatever scale is asked for (425), and the seats stay as many.           *)
TypeOK ==
    /\ running \in BOOLEAN /\ desk_shell \in BOOLEAN
    /\ view_list \in Seq(Views)
    /\ outputs \in [Outputs -> {None} \cup OutputData]
    /\ seats \in Seq(Seq(Devices))
    /\ setting \in [Devices -> [Features -> BOOLEAN]]
    /\ active \in {None} \cup DesktopSurfaces
    /\ bound \subseteq Managers
    /\ subscribers \in [Topics -> SUBSET Managers]
    /\ inbox \in [Managers -> Seq(Update)]
    /\ known \in [Managers -> {None} \cup Update]
    /\ told \subseteq Managers \X Topics

Newest(m) == IF inbox[m] = <<>> THEN known[m] ELSE inbox[m][Len(inbox[m])]

(* Nobody is sent to after its resource is gone: every set of subscribers   *)
(* holds live resources only (562-564), however many topics a manager took  *)
(* and whenever its client dies.                                            *)
SubscribersAlive == \A t \in Topics : subscribers[t] \subseteq bound

(* Once a subscriber of outputs or of input devices has been sent anything, *)
(* the newest update on its way or received says what that part of the      *)
(* state is now, through signals, commands of other managers and hot-plug:  *)
(* no change goes untold and no snapshot is taken before the change.        *)
SubscribersCurrent ==
    \A p \in told : p[2] # "surfaces" => Newest(p[1])[p[2]] = Now[p[2]]

(* The same for the surfaces topic, "notify on surface events"              *)
(* (wldip-compositor-manager.xml:13).                                       *)
SurfacesCurrent ==
    \A p \in told : p[2] = "surfaces" => Newest(p[1])[p[2]] = Now[p[2]]

(* Hot-plug moves the devices of a seat to other indices.  A subscriber of  *)
(* input devices that was sent anything and has read all that was sent      *)
(* names the device it sees: whatever was plugged in or out before, a       *)
(* command with seat and index (311-331, 439-558) changes no device but     *)
(* the one its last update has there.                                      *)
RightDevice ==
    [][setting' # setting =>
         \A m \in Managers, s, d \in Indices, f \in Features, e \in BOOLEAN :
           /\ <<m, "inputdevs">> \in told
           /\ inbox[m] = <<>>
           /\ cm_device_set(m, s, d, f, e)
           => LET seen == known[m].inputdevs
              IN \A x \in Devices : setting'[x] # setting[x] =>
                   /\ s + 1 \in DOMAIN seen
                   /\ d + 1 \in DOMAIN seen[s + 1]
                   /\ x = seen[s + 1][d + 1].device]_mvars

=============================================================================
