----------------------- MODULE CompositorManagerProofs -----------------------
(***************************************************************************)
(* Proofs about the command line tool among any number of other managers,  *)
(* whatever they, the user and the compositor's environment do.            *)
(***************************************************************************)
EXTENDS CompositorManager, CompositorManagementProofs

(* A request is on the wire only while the tool is bound. *)
WireOK ==
    /\ command \in Commands
    /\ wire \in Seq({get, [op |-> "subscribe"]} \cup Commands)
    /\ wire # <<>> => Tool \in bound

(* What a handler sends goes to the subscribers of a topic or to the asker. *)
LEMMA SendsTo ==
    ASSUME NEW m, NEW topic \in Topics, NEW us, send_update(topic, us)
    PROVE  /\ UNCHANGED <<bound, subscribers, known>>
           /\ \A k \in Managers : (\A t \in Topics : k \notin subscribers[t]) =>
                inbox'[k] = inbox[k]
BY DEF send_update, Deliver

Setter(m) ==
    \/ \E s \in Surfaces : cm_desktop_surface_activate(m, Uid[s])
    \/ \E id \in Outputs, scale \in Scales : cm_output_set_scale(m, id, scale)
    \/ \E s, d \in Indices, f \in Features, e \in BOOLEAN : cm_device_set(m, s, d, f, e)

(* A command other than get answers nobody who did not subscribe.          *)
LEMMA SetterFrame ==
    ASSUME NEW m \in Managers, Setter(m)
    PROVE  /\ UNCHANGED <<bound, subscribers, known>>
           /\ \A k \in Managers : (\A t \in Topics : k \notin subscribers[t]) =>
                inbox'[k] = inbox[k]
<1>1. CASE \E s \in Surfaces : cm_desktop_surface_activate(m, Uid[s])
  <2>1. \/ \E us \in {<<Now>>, <<Now, Now>>} : send_update("surfaces", us)
        \/ UNCHANGED <<bound, subscribers, inbox, known>>
    BY <1>1 DEF cm_desktop_surface_activate
  <2> QED
    BY <2>1, SendsTo DEF Topics
<1>2. CASE \E id \in Outputs, scale \in Scales : cm_output_set_scale(m, id, scale)
  <2>1. \/ \E us : send_update("outputs", us)
        \/ UNCHANGED <<bound, subscribers, inbox, known>>
    BY <1>2 DEF cm_output_set_scale
  <2> QED
    BY <2>1, SendsTo DEF Topics
<1>3. CASE \E s, d \in Indices, f \in Features, e \in BOOLEAN : cm_device_set(m, s, d, f, e)
  BY <1>3, SendsTo DEF cm_device_set, Topics
<1> QED
  BY <1>1, <1>2, <1>3 DEF Setter

(* No command of one manager is answered to another that did not subscribe. *)
LEMMA CommandFrame ==
    ASSUME Inv, NEW m \in Managers, Command(m)
    PROVE  /\ UNCHANGED <<bound, subscribers, known>>
           /\ \A k \in Managers \ {m} : (\A t \in Topics : k \notin subscribers[t]) =>
                inbox'[k] = inbox[k]
<1>1. CASE cm_get(m)
  BY <1>1 DEF cm_get, send_update_to, Deliver, Inv, MailInv, MailOK
<1>2. CASE Setter(m)
  BY <1>2, SetterFrame
<1> QED
  BY <1>1, <1>2 DEF Command, Setter

(* Nor does a signal send anything to somebody who did not subscribe.      *)
LEMMA SignalFrame ==
    ASSUME Signal
    PROVE  /\ UNCHANGED <<bound, subscribers, known>>
           /\ \A k \in Managers : (\A t \in Topics : k \notin subscribers[t]) =>
                inbox'[k] = inbox[k]
<1>1. CASE on_create_surface \/ \E s \in DesktopSurfaces : on_activate(s)
  BY <1>1, SendsTo DEF on_create_surface, on_activate, Topics
<1>2. CASE (\E v \in Views : MapView(v)) \/ \E i \in DOMAIN view_list : UnmapView(i)
  BY <1>2 DEF MapView, UnmapView
<1>3. CASE \E o : OutputSignal(o)
  BY <1>3, SendsTo DEF OutputSignal, Topics
<1>4. CASE on_input_devices_changed
  BY <1>4, SendsTo DEF on_input_devices_changed, Topics
<1> QED
  BY <1>1, <1>2, <1>3, <1>4
     DEF Signal, on_output_created, on_output_destroyed, on_output_changed

(* What the others do leaves the tool's resource, its subscriptions and    *)
(* what it has read alone, and sends it nothing it did not subscribe to.   *)
LEMMA OthersFrame ==
    ASSUME Inv, Others
    PROVE  /\ [Next]_mvars
           /\ Tool \in bound' <=> Tool \in bound
           /\ known'[Tool] = known[Tool]
           /\ \A t \in Topics : Tool \in subscribers'[t] <=> Tool \in subscribers[t]
           /\ (\A t \in Topics : Tool \notin subscribers[t]) => inbox'[Tool] = inbox[Tool]
<1> USE ToolAssumption
<1>1. CASE \E m \in Managers \ {Tool} : Visit(m)
  <2> PICK m \in Managers \ {Tool} : Visit(m)
    BY <1>1
  <2>1. [Next]_mvars
    BY DEF Next
  <2> QED
    BY <2>1 DEF Visit, bind_manager, cm_destructor, LeftBy, Receive, Inv, MailInv, MailOK
<1>2. CASE /\ running
           /\ \E m \in bound \ {Tool}, topics \in Subscriptions : cm_subscribe(m, topics)
  <2> PICK m \in bound \ {Tool}, topics \in Subscriptions : cm_subscribe(m, topics)
    BY <1>2
  <2>1. topics \in SUBSET Topics
    OBVIOUS
  <2>2. [Next]_mvars
    BY <1>2, <2>1 DEF Next
  <2> QED
    BY <2>2 DEF cm_subscribe, Inv, MailInv, MailOK
<1>3. CASE running /\ (Signal \/ \E m \in bound \ {Tool} : Command(m))
  <2>1. [Next]_mvars
    BY <1>3 DEF Next
  <2>2. bound \subseteq Managers
    BY DEF Inv, MailInv, MailOK
  <2> QED
    BY <1>3, <2>1, <2>2, CommandFrame, SignalFrame
<1> QED
  BY <1>1, <1>2, <1>3 DEF Others

-----------------------------------------------------------------------------
(* The tool is a manager: it does nothing that CompositorManagement does   *)
(* not let a manager do.                                                   *)
ToolInv == Inv /\ WireOK

(* What the tool can have sent is a request with the arguments it needs. *)
LEMMA RequestTypes ==
    ASSUME NEW r \in {get, [op |-> "subscribe"]} \cup Commands
    PROVE  /\ r.op = "set-output-scale" => r.id \in Outputs /\ r.scale \in Scales
           /\ r.op = "set-natural-scroll" =>
                r.seat \in Indices /\ r.device \in Indices /\ r.enable \in BOOLEAN
           /\ r.op = "activate-surface" => \E s \in Surfaces : r.uid = Uid[s]
BY ToolAssumption DEF get

(* Serving the tool's request is serving a manager's command. *)
LEMMA ServeImplements ==
    ASSUME ToolInv, Serve
    PROVE  Next
<1> USE ToolAssumption DEF ToolInv, WireOK
<1> DEFINE r == Head(wire)
<1>1. /\ running /\ Tool \in bound
      /\ r \in {get, [op |-> "subscribe"]} \cup Commands
  BY DEF Serve
<1> HIDE DEF r
<1>2. CASE r.op = "subscribe" /\ cm_subscribe(Tool, Topics)
  BY <1>1, <1>2 DEF Next
<1>3. CASE r.op = "get" /\ cm_get(Tool)
  BY <1>1, <1>3 DEF Next, Command
<1>4. CASE r.op = "set-output-scale" /\ cm_output_set_scale(Tool, r.id, r.scale)
  <2>1. Command(Tool)
    BY <1>1, <1>4, RequestTypes DEF Command
  <2> QED
    BY <1>1, <2>1 DEF Next
<1>5. CASE /\ r.op = "set-natural-scroll"
           /\ cm_device_set(Tool, r.seat, r.device, "natural-scroll", r.enable)
  <2>1. Command(Tool)
    BY <1>1, <1>5, RequestTypes DEF Command
  <2> QED
    BY <1>1, <2>1 DEF Next
<1>6. CASE r.op = "activate-surface" /\ cm_desktop_surface_activate(Tool, r.uid)
  <2>1. Command(Tool)
    BY <1>1, <1>6, RequestTypes DEF Command
  <2> QED
    BY <1>1, <2>1 DEF Next
<1> QED
  BY <1>2, <1>3, <1>4, <1>5, <1>6 DEF Serve, r

(* Every step of the tool or around it is a step of CompositorManagement.  *)
LEMMA StepImplements == ToolInv /\ [ToolNext]_vars => [Next]_mvars
<1> SUFFICES ASSUME ToolInv, [ToolNext]_vars PROVE [Next]_mvars
  OBVIOUS
<1> USE ToolAssumption
<1>1. CASE Start
  BY <1>1 DEF Start, Next, Visit
<1>2. CASE StartFails \/ Interrupt
  BY <1>2 DEF StartFails, Interrupt
<1>3. CASE Serve
  BY <1>3, ServeImplements
<1>4. CASE OnUpdate
  BY <1>4 DEF OnUpdate, Next, Visit
<1>5. CASE Gone
  BY <1>5 DEF Gone, Next, Visit
<1>6. CASE Others
  BY <1>6, OthersFrame DEF ToolInv
<1>7. CASE UNCHANGED vars
  BY <1>7 DEF vars
<1> QED
  BY <1>1, <1>2, <1>3, <1>4, <1>5, <1>6, <1>7 DEF ToolNext

(* The wire holds requests of the tool only, and only while it is bound.   *)
LEMMA WireStep == ToolInv /\ [ToolNext]_vars => WireOK'
<1> SUFFICES ASSUME ToolInv, [ToolNext]_vars PROVE WireOK'
  OBVIOUS
<1> USE ToolAssumption DEF WireOK
<1>1. CASE Start
  <2>1. Requests(command) \in Seq({get, [op |-> "subscribe"]} \cup Commands)
    <3> DEFINE S == {get, [op |-> "subscribe"]} \cup Commands
    <3>1. command \in S /\ get \in S /\ [op |-> "subscribe"] \in S
      BY DEF ToolInv
    <3>2. Requests(command) \in {<<>>, <<[op |-> "subscribe"]>>, <<get>>, <<command, get>>}
      BY DEF Requests
    <3> HIDE DEF S
    <3>3. ASSUME NEW x \in S, NEW y \in S
          PROVE  <<>> \in Seq(S) /\ <<x>> \in Seq(S) /\ <<x, y>> \in Seq(S)
      OBVIOUS
    <3>4. Requests(command) \in Seq(S)
      BY <3>1, <3>2, <3>3
    <3> QED
      BY <3>4 DEF S
  <2> QED
    BY <1>1, <2>1 DEF Start, bind_manager, ToolInv
<1>2. CASE StartFails \/ Interrupt \/ UNCHANGED vars
  BY <1>2 DEF StartFails, Interrupt, vars, mvars, tvars, ToolInv
<1>3. CASE Serve
  <2>1. bound' = bound
    <3>1. CASE cm_subscribe(Tool, Topics)
      BY <3>1 DEF cm_subscribe
    <3>2. CASE ~cm_subscribe(Tool, Topics)
      BY <1>3, <3>2 DEF Serve, cm_get, cm_output_set_scale, cm_device_set,
           cm_desktop_surface_activate, send_update, send_update_to, Deliver
    <3> QED
      BY <3>1, <3>2
  <2>2. wire \in Seq({get, [op |-> "subscribe"]} \cup Commands) /\ wire # <<>>
    BY <1>3 DEF Serve, ToolInv
  <2>3. Tail(wire) \in Seq({get, [op |-> "subscribe"]} \cup Commands)
    BY <2>2
  <2> QED
    BY <1>3, <2>1, <2>2, <2>3 DEF Serve, ToolInv
<1>4. CASE OnUpdate
  BY <1>4 DEF OnUpdate, Receive, ToolInv
<1>5. CASE Gone
  BY <1>5 DEF Gone, ToolInv
<1>6. CASE Others
  BY <1>6, OthersFrame DEF Others, ToolInv
<1> QED
  BY <1>1, <1>2, <1>3, <1>4, <1>5, <1>6 DEF ToolNext

(* The invariant of the managers holds with the tool among them.           *)
LEMMA ToolInvariance == ToolSpec => []ToolInv
<1>1. ToolInit => ToolInv
  <2>1. Init => Inv
    BY InitInv
  <2> QED
    BY <2>1 DEF ToolInit, ToolInv, WireOK
<1>2. ToolInv /\ [ToolNext]_vars => ToolInv'
  BY StepImplements, WireStep, InvStep DEF ToolInv
<1> QED
  BY <1>1, <1>2, PTL DEF ToolSpec

(* The specification with the tool implements the one of any managers, so  *)
(* everything that is proved of the latter holds with the tool as well.    *)
THEOREM ToolIsAManager == ToolSpec => Spec
<1>1. ToolInit => Init
  BY DEF ToolInit
<1> QED
  BY <1>1, StepImplements, ToolInvariance, PTL DEF ToolSpec, Spec

-----------------------------------------------------------------------------
(* How far the tool's request has come: its command is still on the wire,  *)
(* or it was served and the state shows its effect until somebody          *)
(* interferes, or the answer to get shows it and is all there is to read.  *)
Waiting ==
    /\ \A t \in Topics : Tool \notin subscribers[t]
    /\ \/ /\ wire = <<command, get>> /\ inbox[Tool] = <<>>
          /\ command.op \in {"set-output-scale", "set-natural-scroll", "activate-surface"}
       \/ /\ wire = <<get>> /\ inbox[Tool] = <<>>
          /\ ~interfered => Effect(command, Now)
       \/ /\ wire = <<>> /\ Len(inbox[Tool]) = 1
          /\ ~interfered => Effect(command, Head(inbox[Tool]))

Phase ==
    /\ pc = "start" => wire = <<>> /\ Tool \notin bound /\ inbox[Tool] = <<>>
    /\ pc = "waiting" => Waiting
    /\ pc = "done" => (~interfered => Effect(command, known[Tool]))

(* The effect of a command depends on what it is about only. *)
LEMMA EffectOfTarget ==
    ASSUME NEW c, NEW u, NEW v, Target(c, u) = Target(c, v), Effect(c, u)
    PROVE  Effect(c, v)
BY DEF Effect

(* A command that was served has its effect at once. *)
LEMMA ScaleEffect ==
    ASSUME Inv, NEW id \in Outputs, NEW scale \in Scales, NEW c,
           c.op = "set-output-scale", c.id = id, c.scale = scale,
           cm_output_set_scale(Tool, id, scale)
    PROVE  Effect(c, Now')
<1> SUFFICES ASSUME scale >= One, Target(c, Now')[1]
             PROVE  Target(c, Now')[2] = scale
  BY DEF Effect
<1>1. Now'["outputs"] = outputs'
  BY UpdateParts DEF Now
<1>2. ~TooSmall(scale)
  BY ManagementAssumption DEF TooSmall, One
<1>3. outputs' = IF outputs[id] = None THEN outputs
                 ELSE [outputs EXCEPT ![id].scale = scale]
  BY <1>2 DEF cm_output_set_scale
<1>4. outputs'[id] # None
  BY <1>1 DEF Target
<1>5. outputs[id] \in OutputData
  BY <1>3, <1>4 DEF Inv, ServerOK
<1>6. outputs'[id].scale = scale
  BY <1>3, <1>4, <1>5 DEF Inv, ServerOK, OutputData
<1> QED
  BY <1>1, <1>4, <1>6 DEF Target

(* The same for a device that supports natural scrolling. *)
LEMMA ScrollEffect ==
    ASSUME Inv, NEW s \in Indices, NEW d \in Indices, NEW e \in BOOLEAN, NEW c,
           c.op = "set-natural-scroll", c.seat = s, c.device = d, c.enable = e,
           cm_device_set(Tool, s, d, "natural-scroll", e)
    PROVE  Effect(c, Now')
<1> DEFINE t == Target(c, Now')
<1> SUFFICES ASSUME t[1], "natural-scroll" \in Supports[t[2].device]
             PROVE  t[2].setting["natural-scroll"] = e
  BY DEF Effect
<1>1. Now'.inputdevs = [i \in DOMAIN seats |-> [j \in DOMAIN seats[i] |->
                          [device |-> seats[i][j], setting |-> setting'[seats[i][j]]]]]
  BY DEF Now, make_update, cm_device_set
<1> HIDE DEF Now
<1>2. s + 1 \in DOMAIN seats /\ d + 1 \in DOMAIN seats[s + 1]
  BY <1>1 DEF Target
<1>3. t[2] = [device |-> seats[s + 1][d + 1], setting |-> setting'[seats[s + 1][d + 1]]]
  BY <1>1, <1>2 DEF Target
<1>4. DeviceAt(s, d) = seats[s + 1][d + 1] /\ seats[s + 1][d + 1] \in Devices
  BY <1>2 DEF DeviceAt, Inv, ServerOK
<1>5. setting'[seats[s + 1][d + 1]]["natural-scroll"] = e
  BY <1>3, <1>4, ManagementAssumption, ToolAssumption DEF cm_device_set, Inv, ServerOK
<1> QED
  BY <1>3, <1>5

(* Whatever command is the tool's, serving it has its effect. *)
LEMMA ServeCommand ==
    ASSUME ToolInv, Serve, wire = <<command, get>>,
           command.op \in {"set-output-scale", "set-natural-scroll", "activate-surface"}
    PROVE  Setter(Tool) /\ Effect(command, Now')
<1> USE ToolAssumption
<1>1. Head(wire) = command /\ command \in Commands
  BY DEF ToolInv, WireOK
<1>2. CASE command.op = "set-output-scale"
  <2>1. /\ cm_output_set_scale(Tool, command.id, command.scale)
        /\ command.id \in Outputs /\ command.scale \in Scales
    BY <1>1, <1>2, RequestTypes DEF Serve
  <2> QED
    BY <1>2, <2>1, ScaleEffect DEF Setter, ToolInv
<1>3. CASE command.op = "set-natural-scroll"
  <2>1. /\ cm_device_set(Tool, command.seat, command.device, "natural-scroll", command.enable)
        /\ command.seat \in Indices /\ command.device \in Indices /\ command.enable \in BOOLEAN
    BY <1>1, <1>3, RequestTypes DEF Serve
  <2> QED
    BY <1>3, <2>1, ScrollEffect DEF Setter, ToolInv
<1>4. CASE command.op = "activate-surface"
  <2>1. /\ cm_desktop_surface_activate(Tool, command.uid)
        /\ \E s \in Surfaces : command.uid = Uid[s]
    BY <1>1, <1>4, RequestTypes DEF Serve
  <2>2. Effect(command, Now')
    BY <1>4 DEF Effect
  <2> QED
    BY <2>1, <2>2 DEF Setter
<1> QED
  BY <1>2, <1>3, <1>4

(* The request goes from phase to phase, whoever moves. *)
LEMMA PhaseStep == ToolInv /\ Phase /\ [ToolNext]_vars => Phase'
<1> SUFFICES ASSUME ToolInv, Phase, [ToolNext]_vars PROVE Phase'
  OBVIOUS
<1> USE ToolAssumption
<1>1. CASE Start
  <2>1. pc = "start" /\ bind_manager(Tool) /\ wire' = Requests(command) /\ command' = command
    BY <1>1 DEF Start
  <2>2. inbox'[Tool] = <<>> /\ \A t \in Topics : Tool \notin subscribers'[t]
    BY <2>1 DEF Phase, bind_manager, ToolInv, Inv, MailInv, SubscribersAlive
  <2>3. CASE command.op \in {"usage", "watch"}
    BY <1>1, <2>3 DEF Start, Phase
  <2>4. CASE command.op = "get"
    <3>1. wire' = <<get>> /\ Effect(command', Now') /\ pc' = "waiting"
      BY <1>1, <2>1, <2>4 DEF Start, Requests, Effect
    <3> QED
      BY <2>2, <3>1 DEF Phase, Waiting
  <2>5. CASE command.op \in {"set-output-scale", "set-natural-scroll", "activate-surface"}
    <3>1. wire' = <<command', get>> /\ pc' = "waiting"
      BY <1>1, <2>1, <2>5 DEF Start, Requests
    <3> QED
      BY <2>1, <2>2, <2>5, <3>1 DEF Phase, Waiting
  <2> QED
    BY <2>3, <2>4, <2>5 DEF ToolInv, WireOK, get
<1>2. CASE StartFails \/ Interrupt
  BY <1>2 DEF StartFails, Interrupt, Phase
<1>3. CASE Serve
  <2>1. UNCHANGED <<pc, command, interfered>> /\ wire' = Tail(wire) /\ wire # <<>>
    BY <1>3 DEF Serve
  <2>2. known' = known
    BY <1>3 DEF Serve, cm_subscribe, cm_get, cm_output_set_scale, cm_device_set,
         cm_desktop_surface_activate, send_update, send_update_to, Deliver
  <2>3. CASE pc = "waiting" /\ wire = <<command, get>>
    <3>1. command.op \in {"set-output-scale", "set-natural-scroll", "activate-surface"}
      BY <2>3 DEF Phase, Waiting, get
    <3>2. Setter(Tool) /\ Effect(command, Now')
      BY <1>3, <2>3, <3>1, ServeCommand
    <3>3. inbox'[Tool] = <<>> /\ subscribers' = subscribers
      BY <2>3, <3>2, SetterFrame DEF Phase, Waiting
    <3>4. wire' = <<get>>
      BY <2>1, <2>3
    <3> QED
      BY <2>1, <2>3, <3>2, <3>3, <3>4 DEF Phase, Waiting
  <2>4. CASE pc = "waiting" /\ wire = <<get>>
    <3>1. cm_get(Tool)
      BY <1>3, <2>4 DEF Serve, get
    <3>2. /\ inbox'[Tool] = inbox[Tool] \o <<Now>> /\ subscribers' = subscribers
          /\ wire' = <<>>
      BY <2>1, <2>4, <3>1 DEF cm_get, send_update_to, Deliver
    <3>3. inbox[Tool] = <<>> /\ (~interfered => Effect(command, Now))
      BY <2>4 DEF Phase, Waiting
    <3>4. Len(inbox'[Tool]) = 1 /\ Head(inbox'[Tool]) = Now
      BY <3>2, <3>3
    <3> QED
      BY <2>1, <2>4, <3>2, <3>3, <3>4 DEF Phase, Waiting
  <2> QED
    BY <2>1, <2>2, <2>3, <2>4 DEF Phase, Waiting
<1>4. CASE OnUpdate
  <2>1. CASE pc = "waiting"
    <3>1. /\ known'[Tool] = Head(inbox[Tool]) /\ inbox[Tool] # <<>>
          /\ pc' = "done" /\ UNCHANGED <<command, interfered>>
      BY <1>4, <2>1 DEF OnUpdate, Receive, ToolInv, Inv, MailInv, MailOK
    <3> QED
      BY <2>1, <3>1 DEF Phase, Waiting
  <2>2. CASE pc = "watching"
    BY <1>4, <2>2 DEF OnUpdate, Phase
  <2> QED
    BY <1>4, <2>1, <2>2 DEF OnUpdate
<1>5. CASE Gone
  BY <1>5 DEF Gone, Phase, cm_destructor
<1>6. CASE Others
  <2>1. /\ UNCHANGED <<pc, command, wire>>
        /\ interfered' = (interfered \/ (wire = <<get>> /\
                            Target(command, Now') # Target(command, Now)))
    BY <1>6 DEF Others
  <2>2. /\ Tool \in bound' <=> Tool \in bound
        /\ known'[Tool] = known[Tool]
        /\ \A t \in Topics : Tool \in subscribers'[t] <=> Tool \in subscribers[t]
        /\ (\A t \in Topics : Tool \notin subscribers[t]) => inbox'[Tool] = inbox[Tool]
    BY <1>6, OthersFrame DEF ToolInv
  <2>3. CASE pc = "start"
    <3>1. \A t \in Topics : Tool \notin subscribers[t]
      BY <2>3 DEF Phase, ToolInv, Inv, MailInv, SubscribersAlive
    <3> QED
      BY <2>1, <2>2, <2>3, <3>1 DEF Phase
  <2>4. CASE pc = "waiting"
    <3>1. /\ \A t \in Topics : Tool \notin subscribers'[t]
          /\ inbox'[Tool] = inbox[Tool] /\ Waiting
      BY <2>2, <2>4 DEF Phase, Waiting
    <3>2. CASE wire = <<get>> /\ ~interfered'
      BY <2>1, <2>4, <3>1, <3>2, EffectOfTarget DEF Phase, Waiting
    <3>3. CASE wire # <<get>> \/ interfered'
      BY <2>1, <2>4, <3>1, <3>3 DEF Phase, Waiting
    <3> QED
      BY <3>2, <3>3
  <2>5. CASE pc = "done"
    BY <2>1, <2>2, <2>5 DEF Phase
  <2> QED
    BY <2>1, <2>3, <2>4, <2>5 DEF Phase
<1>7. CASE UNCHANGED vars
  <2>1. Now' = Now
    BY <1>7 DEF vars, mvars, server, Now
  <2> QED
    BY <1>7, <2>1 DEF vars, mvars, tvars, Phase, Waiting
<1> QED
  BY <1>1, <1>2, <1>3, <1>4, <1>5, <1>6, <1>7 DEF ToolNext

(* The update a command ends with shows the command's effect, however many *)
(* managers there are and whatever they do in between, unless one of them  *)
(* or a signal touched the same thing.                                     *)
THEOREM Visible == ToolSpec => []CommandVisible
<1>1. ToolInit => Phase
  BY ToolAssumption DEF ToolInit, Init, Phase
<1>2. Phase => CommandVisible
  BY DEF Phase, CommandVisible, Printed
<1> QED
  BY <1>1, <1>2, PhaseStep, ToolInvariance, PTL DEF ToolSpec

(* A command that waits has exactly one answer to come, however many other *)
(* managers there are and whatever they cause to be sent.                  *)
THEOREM OneAnswer == ToolSpec => []OneAnswerToCome
<1>1. ToolInit => Phase
  BY ToolAssumption DEF ToolInit, Init, Phase
<1>2. Phase => OneAnswerToCome
  BY DEF Phase, Waiting, OneAnswerToCome
<1> QED
  BY <1>1, <1>2, PhaseStep, ToolInvariance, PTL DEF ToolSpec

=============================================================================
