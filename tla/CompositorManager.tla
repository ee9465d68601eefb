-------------------------- MODULE CompositorManager --------------------------
(***************************************************************************)
(* The command line tool (compositor-manager.cpp) as one of the managers   *)
(* of CompositorManagement, the other managers being any clients.  Its     *)
(* requests wait in the socket (wire) until the compositor serves them.    *)
(***************************************************************************)
EXTENDS CompositorManagement

CONSTANTS Tool,           \* the manager that is the tool
          Commands,       \* the command lines it can be given
          Subscriptions,  \* what the other managers subscribe to
          MaxChanges      \* bound on other managers' commands and on signals

get == [op |-> "get"]

ASSUME ToolAssumption ==
    /\ Tool \in Managers
    /\ "natural-scroll" \in Features
    /\ Commands \subseteq
         {[op |-> "usage"], get, [op |-> "watch"]} \cup
         [op : {"set-output-scale"}, id : Outputs, scale : Scales] \cup
         [op : {"set-natural-scroll"}, seat : Indices, device : Indices,
          enable : BOOLEAN] \cup
         [op : {"activate-surface"}, uid : {Uid[s] : s \in Surfaces}]
    /\ Subscriptions \subseteq SUBSET Topics

VARIABLES pc,          \* how far main has come
          command,     \* its arguments
          wire,        \* requests sent and not yet served
          interfered,  \* history: what the command was about was changed by
                       \* somebody else before the tool's get was served
          changes      \* how much of MaxChanges is used

tvars == <<pc, command, wire, interfered, changes>>
vars == <<mvars, tvars>>

(* Mutant: the state is asked for first. *)
RequestsGetFirst(c) ==
    CASE c.op = "usage" -> <<>>
      [] c.op = "watch" -> <<[op |-> "subscribe"]>>
      [] c.op = "get"   -> <<get>>
      [] OTHER          -> <<get, c>>

(* Mutant: the state is only asked for when get is the command. *)
RequestsWithoutGet(c) ==
    CASE c.op = "usage" -> <<>>
      [] c.op = "watch" -> <<[op |-> "subscribe"]>>
      [] c.op = "get"   -> <<get>>
      [] OTHER          -> <<c>>

(* what main sends: run_get follows every command *)
Requests(c) ==
    CASE c.op = "usage" -> <<>>
      [] c.op = "watch" -> <<[op |-> "subscribe"]>>
      [] c.op = "get"   -> <<get>>
      [] OTHER          -> <<c, get>>

ToolInit ==
    /\ Init
    /\ pc = "start"
    /\ command \in Commands
    /\ wire = <<>>
    /\ interfered = FALSE
    /\ changes = 0

-----------------------------------------------------------------------------
(* wl_display_connect, the registry, handle_global and the round trip that *)
(* makes the bind take effect; then the requests of the command            *)
Start ==
    /\ pc = "start"
    /\ bind_manager(Tool)
    /\ wire' = Requests(command)
    /\ pc' = CASE command.op = "usage" -> "failed"
               [] command.op = "watch" -> "watching"
               [] OTHER                -> "waiting"
    /\ UNCHANGED <<command, interfered, changes>>

(* There is no compositor, or one without the plugin. *)
StartFails ==
    /\ pc = "start"
    /\ ~running
    /\ pc' = "failed"
    /\ UNCHANGED <<mvars, command, wire, interfered, changes>>

(* The compositor reads the tool's next request. *)
Serve ==
    /\ running
    /\ wire # <<>>
    /\ wire' = Tail(wire)
    /\ LET r == Head(wire)
       IN \/ r.op = "subscribe" /\ cm_subscribe(Tool, Topics)
          \/ r.op = "get" /\ cm_get(Tool)
          \/ r.op = "set-output-scale" /\ cm_output_set_scale(Tool, r.id, r.scale)
          \/ /\ r.op = "set-natural-scroll"
             /\ cm_device_set(Tool, r.seat, r.device, "natural-scroll", r.enable)
          \/ r.op = "activate-surface" /\ cm_desktop_surface_activate(Tool, r.uid)
    /\ UNCHANGED <<pc, command, interfered, changes>>

(* on_update, and the end of run_get's loop: updates_recvd is no longer 0 *)
OnUpdate ==
    /\ pc \in {"waiting", "watching"}
    /\ Receive(Tool)
    /\ pc' = IF pc = "waiting" THEN "done" ELSE pc
    /\ UNCHANGED <<command, wire, interfered, changes>>

(* The user interrupts it: that is the only end of watch. *)
Interrupt ==
    /\ pc \in {"waiting", "watching"}
    /\ pc' = "killed"
    /\ UNCHANGED <<mvars, command, wire, interfered, changes>>

(* The process is gone, and the compositor notices. *)
Gone ==
    /\ pc \in {"done", "failed", "killed"}
    /\ cm_destructor(Tool)
    /\ wire' = <<>>
    /\ UNCHANGED <<pc, command, interfered, changes>>

(* What command c is about, in update u: whether it is there, and it *)
Target(c, u) ==
    IF c.op = "set-output-scale"
    THEN <<u.outputs[c.id] # None,
           IF u.outputs[c.id] = None THEN 0 ELSE u.outputs[c.id].scale>>
    ELSE IF c.op = "set-natural-scroll"
    THEN LET there == /\ c.seat + 1 \in DOMAIN u.inputdevs
                      /\ c.device + 1 \in DOMAIN u.inputdevs[c.seat + 1]
         IN <<there, IF there THEN u.inputdevs[c.seat + 1][c.device + 1] ELSE None>>
    ELSE <<FALSE, None>>

(* Everybody else *)
Others ==
    /\ \/ /\ \E m \in Managers \ {Tool} : Visit(m)
          /\ UNCHANGED changes
       \/ /\ running
          /\ \E m \in bound \ {Tool}, topics \in Subscriptions : cm_subscribe(m, topics)
          /\ UNCHANGED changes
       \/ /\ running /\ changes < MaxChanges
          /\ changes' = changes + 1
          /\ Signal \/ \E m \in bound \ {Tool} : Command(m)
    /\ interfered' = (interfered \/ (wire = <<get>> /\ Target(command, Now') # Target(command, Now)))
    /\ UNCHANGED <<pc, command, wire>>

ToolNext == Start \/ StartFails \/ Serve \/ OnUpdate \/ Interrupt \/ Gone \/ Others

(* The compositor serves its clients and the tool dispatches its events. *)
ToolSpec == ToolInit /\ [][ToolNext]_vars /\ WF_vars(Serve) /\ WF_vars(OnUpdate)

-----------------------------------------------------------------------------
(* on_update prints outputs, heads and surfaces inside the loop over seats *)
Printed ==
    IF known[Tool] # None /\ known[Tool].inputdevs # <<>> THEN known[Tool] ELSE None

(* Update u says that c was obeyed. *)
Effect(c, u) ==
    LET t == Target(c, u)
    IN /\ (c.op = "set-output-scale" /\ c.scale >= One /\ t[1]) => t[2] = c.scale
       /\ (/\ c.op = "set-natural-scroll" /\ t[1]
           /\ "natural-scroll" \in Supports[t[2].device]) =>
             t[2].setting["natural-scroll"] = c.enable

(* A command that ended shows its effect: the update that ends run_get's    *)
(* loop (308) is the answer to the tool's own get and was made after its    *)
(* command was served, so an output that is there has the scale asked for,  *)
(* and a device that supports it the setting, unless somebody else changed  *)
(* it in between.                                                           *)
CommandVisible ==
    (pc = "done" /\ ~interfered /\ Printed # None) => Effect(command, Printed)

(* While run_get's loop (306-312) waits, exactly one answer is to come: the *)
(* tool's get is the last request the compositor has not read and nothing   *)
(* can be read yet, or the one update that ends the loop is there.  It      *)
(* never waits for an update that nobody will send, and none that others'   *)
(* changes caused ends the loop in place of the answer.                     *)
OneAnswerToCome ==
    pc = "waiting" =>
      IF wire = <<>> THEN Len(inbox[Tool]) = 1
      ELSE wire[Len(wire)] = get /\ inbox[Tool] = <<>>

(* A command ends (306-312), unless the user interrupts it or the           *)
(* compositor crashes, which the loop does not notice.                      *)
CommandEnds == (pc = "waiting") ~> (pc \in {"done", "killed"} \/ ~running)

(* Once changes cease, a watcher (316-323) that was told anything shows the *)
(* outputs and the input devices as they are, if there is a seat to show    *)
(* them under.                                                              *)
WatchCatchesUp ==
    <>[](pc = "watching" /\ running /\ seats # <<>> =>
           \A t \in Topics \ {"surfaces"} :
             <<Tool, t>> \in told => Printed # None /\ Printed[t] = Now[t])

=============================================================================
