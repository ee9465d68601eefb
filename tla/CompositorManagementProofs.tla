--------------------- MODULE CompositorManagementProofs ---------------------
(***************************************************************************)
(* Proofs about compositor management, for any number of managers, topics  *)
(* taken, surfaces, outputs, seats and devices, and any number of updates  *)
(* on their way; and about the screenshots, for any list of views.         *)
(***************************************************************************)
EXTENDS LayeredScreenshot, Inductions

(* The parts of TypeOK that a delivery leaves alone, and those it changes. *)
ServerOK ==
    /\ running \in BOOLEAN /\ desk_shell \in BOOLEAN
    /\ view_list \in Seq(Views)
    /\ outputs \in [Outputs -> {None} \cup OutputData]
    /\ seats \in Seq(Seq(Devices))
    /\ setting \in [Devices -> [Features -> BOOLEAN]]
    /\ active \in {None} \cup DesktopSurfaces

MailOK ==
    /\ bound \subseteq Managers
    /\ subscribers \in [Topics -> SUBSET Managers]
    /\ inbox \in [Managers -> Seq(Update)]
    /\ known \in [Managers -> {None} \cup Update]
    /\ told \subseteq Managers \X Topics

(* Only a subscription that is still there is counted as followed. *)
ToldSubscribed == \A p \in told : p[1] \in subscribers[p[2]]

MailInv == MailOK /\ SubscribersAlive /\ ToldSubscribed /\ SubscribersCurrent

Inv == ServerOK /\ MailInv

-----------------------------------------------------------------------------
(* What an update says of a topic depends on that part of the state only.  *)
LEMMA UpdateParts ==
    ASSUME NEW v1, NEW v2, NEW o1, NEW o2, NEW se1, NEW se2, NEW st1, NEW st2
    PROVE  /\ make_update(v1, o1, se1, st1)["outputs"] = o1
           /\ se1 = se2 /\ st1 = st2 =>
                make_update(v1, o1, se1, st1)["inputdevs"] =
                make_update(v2, o2, se2, st2)["inputdevs"]
BY DEF make_update

(* An update made of well-formed state is a well-formed update.            *)
LEMMA UpdateType ==
    ASSUME NEW v \in Seq(Views), NEW o \in [Outputs -> {None} \cup OutputData],
           NEW se \in Seq(Seq(Devices)), NEW st \in [Devices -> [Features -> BOOLEAN]]
    PROVE  make_update(v, o, se, st) \in Update
<1> DEFINE Device == [device : Devices, setting : [Features -> BOOLEAN]]
           Of(i) == [j \in DOMAIN se[i] |-> [device |-> se[i][j], setting |-> st[se[i][j]]]]
<1>1. {v[i].surface : i \in DOMAIN v} \in SUBSET Surfaces
  <2>1. \A i \in DOMAIN v : v[i] \in Views
    BY LenProperties
  <2> QED
    BY <2>1 DEF Views
<1>2. ASSUME NEW i \in DOMAIN se PROVE Of(i) \in Seq(Device)
  <2>1. se[i] \in Seq(Devices)
    BY <1>2
  <2>2. \A j \in DOMAIN se[i] : se[i][j] \in Devices
    BY <2>1
  <2>3. DOMAIN se[i] = 1..Len(se[i]) /\ Len(se[i]) \in Nat
    BY <2>1
  <2>4. Of(i) \in [1..Len(se[i]) -> Device]
    BY <2>2, <2>3
  <2> QED
    BY <2>3, <2>4, SeqDef DEF Of
<1>3. DOMAIN se = 1..Len(se) /\ Len(se) \in Nat
  OBVIOUS
<1>4. [i \in DOMAIN se |-> Of(i)] \in Seq(Seq(Device))
  <2> HIDE DEF Of, Device
  <2>1. [i \in 1..Len(se) |-> Of(i)] \in [1..Len(se) -> Seq(Device)]
    BY <1>2, <1>3
  <2> QED
    BY <1>3, <2>1, SeqDef
<1> QED
  BY <1>1, <1>4 DEF make_update, Update

(* A delivery to any set of live resources leaves everybody who follows a  *)
(* topic with the truth, if the update was made after the change and those *)
(* who are not sent it follow no topic that changed.                       *)
LEMMA Delivered ==
    ASSUME MailInv, NEW ms \in SUBSET Managers, NEW u \in Update,
           NEW us \in {<<u>>, <<u, u>>}, Deliver(ms, us), u = Now',
           \A p \in told : p[2] # "surfaces" /\ p[1] \notin ms => Now'[p[2]] = Now[p[2]]
    PROVE  MailInv'
<1> USE DEF MailInv, MailOK
<1>1. us \in Seq(Update) /\ Len(us) > 0 /\ us[Len(us)] = u
  <2>1. CASE us = <<u>>
    BY <2>1
  <2>2. CASE us = <<u, u>>
    BY <2>2
  <2> QED
    BY <2>1, <2>2
<1>2. ASSUME NEW m \in Managers
      PROVE  /\ inbox'[m] \in Seq(Update)
             /\ m \in ms => Newest(m)' = u
             /\ m \notin ms => Newest(m)' = Newest(m)
  <2>1. inbox[m] \in Seq(Update)
    OBVIOUS
  <2>2. CASE m \in ms
    <3>1. inbox'[m] = inbox[m] \o us
      BY <2>2 DEF Deliver
    <3>2. inbox'[m] \in Seq(Update) /\ Len(inbox'[m]) = Len(inbox[m]) + Len(us)
      BY <1>1, <2>1, <3>1, ConcatProperties
    <3>3. inbox'[m] # <<>> /\ inbox'[m][Len(inbox'[m])] = u
      BY <1>1, <2>1, <3>1, <3>2, ConcatProperties, LenProperties
    <3> QED
      BY <2>2, <3>2, <3>3 DEF Newest
  <2>3. CASE m \notin ms
    BY <2>1, <2>3 DEF Deliver, Newest
  <2> QED
    BY <2>2, <2>3
<1>3. MailOK'
  BY <1>2 DEF Deliver
<1>4. SubscribersAlive' /\ ToldSubscribed'
  BY DEF Deliver, SubscribersAlive, ToldSubscribed
<1>5. SubscribersCurrent'
  <2> SUFFICES ASSUME NEW p \in told', p[2] # "surfaces"
               PROVE  Newest(p[1])'[p[2]] = Now'[p[2]]
    BY DEF SubscribersCurrent
  <2>1. p[1] \in Managers /\ p[2] \in Topics
    BY DEF Deliver
  <2>2. CASE p[1] \in ms
    BY <1>2, <2>1, <2>2
  <2>3. CASE p[1] \notin ms
    <3>1. p \in told
      BY <2>3 DEF Deliver
    <3>2. Newest(p[1])' = Newest(p[1])
      BY <1>2, <2>1, <2>3
    <3> QED
      BY <2>3, <3>1, <3>2 DEF SubscribersCurrent
  <2> QED
    BY <2>2, <2>3
<1> QED
  BY <1>3, <1>4, <1>5

-----------------------------------------------------------------------------
(* Removing and inserting keeps a list a list. *)
LEMMA Removed ==
    ASSUME NEW S, NEW q \in Seq(S), NEW i \in DOMAIN q
    PROVE  SubSeq(q, 1, i - 1) \o SubSeq(q, i + 1, Len(q)) \in Seq(S)
<1>1. i \in 1..Len(q) /\ Len(q) \in Nat
  BY LenProperties
<1>2. SubSeq(q, 1, i - 1) \in Seq(S) /\ SubSeq(q, i + 1, Len(q)) \in Seq(S)
  BY <1>1, SubSeqProperties
<1> QED
  BY <1>2, ConcatProperties

(* A sequence with one more element at any place is a sequence.            *)
LEMMA Inserted ==
    ASSUME NEW S, NEW q \in Seq(S), NEW e \in S, NEW i \in 0..Len(q)
    PROVE  SubSeq(q, 1, i) \o <<e>> \o SubSeq(q, i + 1, Len(q)) \in Seq(S)
<1>1. Len(q) \in Nat /\ <<e>> \in Seq(S)
  OBVIOUS
<1>2. SubSeq(q, 1, i) \in Seq(S) /\ SubSeq(q, i + 1, Len(q)) \in Seq(S)
  BY <1>1, SubSeqProperties
<1>3. SubSeq(q, 1, i) \o <<e>> \in Seq(S)
  BY <1>1, <1>2, ConcatProperties
<1> QED
  BY <1>2, <1>3, ConcatProperties

(* Nothing is sent, and only the views may have changed.                   *)
LEMMA Unsent ==
    ASSUME MailInv, Now'["outputs"] = Now["outputs"], Now'["inputdevs"] = Now["inputdevs"],
           UNCHANGED <<bound, subscribers, inbox, known, told>>
    PROVE  MailInv'
<1>1. \A m : Newest(m)' = Newest(m)
  BY DEF Newest
<1>2. SubscribersCurrent'
  <2> SUFFICES ASSUME NEW p \in told, p[2] # "surfaces"
               PROVE  Newest(p[1])'[p[2]] = Now'[p[2]]
    BY DEF SubscribersCurrent
  <2>1. p[2] \in {"outputs", "inputdevs"}
    BY DEF MailInv, MailOK, Topics
  <2>2. Newest(p[1])[p[2]] = Now[p[2]]
    BY DEF MailInv, SubscribersCurrent
  <2> QED
    BY <1>1, <2>1, <2>2
<1> QED
  BY <1>2 DEF MailInv, MailOK, SubscribersAlive, ToldSubscribed

(* send_update after a change of the topic's part of the state.            *)
LEMMA Sent ==
    ASSUME Inv, ServerOK', NEW topic \in Topics, NEW us \in {<<Now'>>, <<Now', Now'>>},
           send_update(topic, us),
           topic = "outputs" \/ outputs' = outputs,
           topic = "inputdevs" \/ (seats' = seats /\ setting' = setting)
    PROVE  MailInv'
<1>1. Now' \in Update
  BY UpdateType DEF ServerOK, Now
<1>2. ASSUME NEW p \in told, p[2] # "surfaces", p[1] \notin subscribers[topic]
      PROVE  Now'[p[2]] = Now[p[2]]
  <2>1. p[2] \in {"outputs", "inputdevs"} /\ p[2] # topic
    BY <1>2 DEF Inv, MailInv, MailOK, ToldSubscribed, Topics
  <2>2. CASE p[2] = "outputs"
    BY <2>1, <2>2, UpdateParts DEF Now
  <2>3. CASE p[2] = "inputdevs"
    BY <2>1, <2>3, UpdateParts DEF Now
  <2> QED
    BY <2>1, <2>2, <2>3
<1>3. subscribers[topic] \in SUBSET Managers
  BY DEF Inv, MailInv, MailOK
<1> QED
  BY <1>1, <1>2, <1>3, Delivered DEF send_update, Inv

(* Clients come, go, read and subscribe. *)
LEMMA VisitStep ==
    ASSUME Inv, NEW m \in Managers, Visit(m)
    PROVE  Inv'
<1>0. Now' = Now /\ ServerOK'
  BY DEF Visit, bind_manager, cm_destructor, Receive, server, Inv, ServerOK, Now
<1>1. CASE bind_manager(m)
  <2>1. \A p \in told : p[1] # m
    BY <1>1 DEF bind_manager, Inv, MailInv, SubscribersAlive, ToldSubscribed, MailOK
  <2>2. MailOK' /\ SubscribersAlive' /\ ToldSubscribed'
    BY <1>1 DEF bind_manager, Inv, MailInv, SubscribersAlive, ToldSubscribed, MailOK
  <2>3. SubscribersCurrent'
    BY <1>0, <1>1, <2>1 DEF bind_manager, Inv, MailInv, MailOK, SubscribersCurrent, Newest
  <2> QED
    BY <1>0, <2>2, <2>3 DEF Inv, MailInv
<1>2. CASE cm_destructor(m)
  <2>1. MailOK'
    BY <1>2 DEF cm_destructor, Inv, MailInv, MailOK
  <2>2. SubscribersAlive' /\ ToldSubscribed'
    BY <1>2 DEF cm_destructor, LeftBy, Inv, MailInv, MailOK, SubscribersAlive, ToldSubscribed
  <2>3. SubscribersCurrent'
    <3>1. \A p \in told' : p \in told /\ p[1] # m
      BY <1>2 DEF cm_destructor
    <3>2. \A p \in told' : Newest(p[1])' = Newest(p[1])
      BY <1>2, <3>1 DEF cm_destructor, Newest, Inv, MailInv, MailOK
    <3> QED
      BY <1>0, <3>1, <3>2 DEF SubscribersCurrent, Inv, MailInv
  <2> QED
    BY <1>0, <2>1, <2>2, <2>3 DEF Inv, MailInv
<1>3. CASE Receive(m)
  <2>1. inbox[m] \in Seq(Update) /\ inbox[m] # <<>>
    BY <1>3 DEF Receive, Inv, MailInv, MailOK
  <2>2. Head(inbox[m]) \in Update /\ Tail(inbox[m]) \in Seq(Update)
    BY <2>1
  <2>3. MailOK' /\ SubscribersAlive' /\ ToldSubscribed'
    BY <1>3, <2>2 DEF Receive, Inv, MailInv, MailOK, SubscribersAlive, ToldSubscribed
  <2>4. Newest(m)' = Newest(m)
    <3>1. inbox'[m] = Tail(inbox[m]) /\ known'[m] = Head(inbox[m])
      BY <1>3 DEF Receive, Inv, MailInv, MailOK
    <3>2. CASE Tail(inbox[m]) = <<>>
      <4>1. Len(<<>>) = 0
        OBVIOUS
      <4>2. Len(Tail(inbox[m])) = 0
        BY <3>2, <4>1, Zenon
      <4>3. Len(inbox[m]) \in Nat /\ Len(Tail(inbox[m])) = Len(inbox[m]) - 1
        BY <2>1, HeadTailProperties, LenProperties
      <4>4. inbox[m][Len(inbox[m])] = Head(inbox[m])
        BY <2>1, <4>2, <4>3
      <4> QED
        BY <2>1, <3>1, <3>2, <4>4 DEF Newest
    <3>3. CASE Tail(inbox[m]) # <<>>
      BY <2>1, <2>2, <3>1, <3>3 DEF Newest
    <3> QED
      BY <3>2, <3>3
  <2>5. \A k \in Managers : Newest(k)' = Newest(k)
    BY <1>3, <2>4 DEF Receive, Newest, Inv, MailInv, MailOK
  <2>6. SubscribersCurrent'
    BY <1>0, <1>3, <2>5 DEF Receive, SubscribersCurrent, Inv, MailInv, MailOK
  <2> QED
    BY <1>0, <2>3, <2>6 DEF Inv, MailInv
<1> QED
  BY <1>1, <1>2, <1>3 DEF Visit

(* A subscription brings the state it was made in along. *)
LEMMA SubscribeStep ==
    ASSUME Inv, NEW m \in bound, NEW topics \in SUBSET Topics, cm_subscribe(m, topics)
    PROVE  Inv'
<1>1. Now' = Now /\ ServerOK'
  BY DEF cm_subscribe, server, Inv, ServerOK, Now
<1>2. MailOK' /\ SubscribersAlive' /\ ToldSubscribed'
  BY DEF cm_subscribe, Inv, MailInv, MailOK, SubscribersAlive, ToldSubscribed
<1>3. SubscribersCurrent'
  BY <1>1 DEF cm_subscribe, Inv, MailInv, SubscribersCurrent, Newest
<1> QED
  BY <1>1, <1>2, <1>3 DEF Inv, MailInv

(* The commands change at most the scale of an output, one setting or the  *)
(* activated surface, and answer with what they made of it.                *)
LEMMA CommandStep ==
    ASSUME Inv, NEW m \in bound, Command(m)
    PROVE  Inv'
<1> USE ManagementAssumption
<1>1. CASE cm_get(m)
  <2>1. Now' = Now /\ ServerOK'
    BY <1>1 DEF cm_get, server, Inv, ServerOK, Now
  <2>2. Now' \in Update /\ {m} \in SUBSET Managers
    BY <2>1, UpdateType DEF Inv, ServerOK, Now, MailInv, MailOK
  <2> QED
    BY <1>1, <2>1, <2>2, Delivered DEF cm_get, send_update_to, Inv
<1>2. CASE \E s \in Surfaces : cm_desktop_surface_activate(m, Uid[s])
  <2> PICK s \in Surfaces : cm_desktop_surface_activate(m, Uid[s])
    BY <1>2
  <2> DEFINE named == {i \in DOMAIN view_list : Uid[view_list[i].surface] = Uid[s]}
             surface == view_list[First(named)].surface
             found == named # {} /\ surface \in DesktopSurfaces
  <2>0. UNCHANGED <<desk_shell, view_list, outputs, seats, setting>> /\ Now' = Now
    BY DEF cm_desktop_surface_activate, Now
  <2>1. CASE /\ ~found /\ send_update("surfaces", <<Now>>) /\ UNCHANGED <<running, active>>
    <3>1. ServerOK'
      BY <2>0, <2>1 DEF Inv, ServerOK
    <3> QED
      BY <2>0, <2>1, <3>1, Sent DEF Topics, Inv
  <2>2. CASE /\ found /\ desk_shell /\ active' = surface
             /\ send_update("surfaces", <<Now, Now>>) /\ UNCHANGED running
    <3>1. ServerOK'
      BY <2>0, <2>2 DEF Inv, ServerOK
    <3> QED
      BY <2>0, <2>2, <3>1, Sent DEF Topics, Inv
  <2>3. CASE /\ running' = FALSE
             /\ UNCHANGED <<active, bound, subscribers, inbox, known, told>>
    BY <2>0, <2>3, Unsent DEF Inv, ServerOK
  <2> QED
    BY <2>1, <2>2, <2>3 DEF cm_desktop_surface_activate
<1>3. CASE \E id \in Outputs, scale \in Scales : cm_output_set_scale(m, id, scale)
  <2> PICK id \in Outputs, scale \in Scales : cm_output_set_scale(m, id, scale)
    BY <1>3
  <2>1. CASE UNCHANGED <<server, bound, subscribers, inbox, known, told>>
    <3>1. Now' = Now /\ ServerOK'
      BY <2>1 DEF server, Inv, ServerOK, Now
    <3> QED
      BY <2>1, <3>1, Unsent DEF Inv
  <2>2. CASE ~TooSmall(scale)
    <3> USE <2>2 DEF cm_output_set_scale
    <3>1. UNCHANGED <<running, desk_shell, view_list, seats, setting, active>>
      OBVIOUS
    <3>2. scale \in Scales \ 0..(One - 1)
      <4>1. scale \in Nat /\ ~(scale < One) /\ One \in Nat
        BY <2>2 DEF TooSmall, One
      <4> QED
        BY <4>1
    <3>3. outputs' \in [Outputs -> {None} \cup OutputData]
      <4>1. CASE outputs' = outputs
        BY <4>1 DEF Inv, ServerOK
      <4>2. CASE outputs[id] # None /\ outputs' = [outputs EXCEPT ![id].scale = scale]
        <5> HIDE DEF cm_output_set_scale
        <5>1. outputs \in [Outputs -> {None} \cup OutputData]
          BY DEF Inv, ServerOK
        <5>2. outputs[id] \in OutputData
          BY <4>2, <5>1
        <5>3. [outputs[id] EXCEPT !.scale = scale] \in OutputData
          BY <5>2, <3>2 DEF OutputData
        <5>4. outputs' = [outputs EXCEPT ![id] = [outputs[id] EXCEPT !.scale = scale]]
          BY <4>2, <5>1
        <5> QED
          BY <5>1, <5>3, <5>4
      <4> QED
        BY <4>1, <4>2
    <3>4. ServerOK'
      BY <3>1, <3>3 DEF Inv, ServerOK
    <3>5. \E us \in {<<Now'>>, <<Now', Now'>>} : send_update("outputs", us)
      BY <3>1 DEF Now
    <3> HIDE DEF cm_output_set_scale
    <3> QED
      BY <3>1, <3>4, <3>5, Sent DEF Topics, Inv
  <2> QED
    BY <2>1, <2>2 DEF cm_output_set_scale
<1>4. CASE \E s, d \in Indices, f \in Features, e \in BOOLEAN : cm_device_set(m, s, d, f, e)
  <2> PICK s \in Indices, d \in Indices, f \in Features, e \in BOOLEAN :
             cm_device_set(m, s, d, f, e)
    BY <1>4
  <2>1. UNCHANGED <<running, desk_shell, view_list, outputs, seats, active>>
    BY DEF cm_device_set
  <2>2. setting' \in [Devices -> [Features -> BOOLEAN]]
    BY DEF cm_device_set, Inv, ServerOK
  <2>3. ServerOK'
    BY <2>1, <2>2 DEF Inv, ServerOK
  <2>4. send_update("inputdevs", <<Now'>>)
    BY <2>1 DEF cm_device_set, Now
  <2> QED
    BY <2>1, <2>3, <2>4, Sent DEF Topics, Inv
<1> QED
  BY <1>1, <1>2, <1>3, <1>4 DEF Command

(* A signal is followed by the updates of its topic; a view that comes or  *)
(* goes is followed by none, and is no part of the other two topics.       *)
LEMMA SignalStep ==
    ASSUME Inv, Signal
    PROVE  Inv'
<1> USE ManagementAssumption
<1>1. CASE on_create_surface
  <2>1. Now' = Now /\ ServerOK'
    BY <1>1 DEF on_create_surface, server, Inv, ServerOK, Now
  <2>2. send_update("surfaces", <<Now'>>) /\ UNCHANGED <<outputs, seats, setting>>
    BY <1>1, <2>1 DEF on_create_surface, server
  <2> QED
    BY <2>1, <2>2, Sent DEF Topics, Inv
<1>2. CASE \E s \in DesktopSurfaces : on_activate(s)
  <2>1. Now' = Now /\ ServerOK'
    BY <1>2 DEF on_activate, Inv, ServerOK, Now
  <2>2. send_update("surfaces", <<Now'>>) /\ UNCHANGED <<outputs, seats, setting>>
    BY <1>2, <2>1 DEF on_activate
  <2> QED
    BY <2>1, <2>2, Sent DEF Topics, Inv
<1>3. ASSUME NEW view_list1, view_list' = view_list1, view_list1 \in Seq(Views),
             UNCHANGED <<running, desk_shell, outputs, seats, setting, active>>,
             UNCHANGED <<bound, subscribers, inbox, known, told>>
      PROVE  Inv'
  <2>1. ServerOK'
    BY <1>3 DEF Inv, ServerOK
  <2>2. Now'["outputs"] = Now["outputs"] /\ Now'["inputdevs"] = Now["inputdevs"]
    BY <1>3, UpdateParts DEF Now
  <2> QED
    BY <1>3, <2>1, <2>2, Unsent DEF Inv
<1>4. CASE \E v \in Views : MapView(v)
  <2> PICK v \in Views, i \in 0..Len(view_list) :
        view_list' = SubSeq(view_list, 1, i) \o <<v>> \o
                     SubSeq(view_list, i + 1, Len(view_list))
    BY <1>4 DEF MapView
  <2>1. view_list' \in Seq(Views)
    BY Inserted DEF Inv, ServerOK
  <2> QED
    BY <1>3, <1>4, <2>1 DEF MapView
<1>5. CASE \E i \in DOMAIN view_list : UnmapView(i)
  <2> PICK i \in DOMAIN view_list : UnmapView(i)
    BY <1>5
  <2>1. view_list' \in Seq(Views)
    BY Removed DEF UnmapView, Inv, ServerOK
  <2> QED
    BY <1>3, <2>1 DEF UnmapView
<1>6. ASSUME NEW o \in [Outputs -> {None} \cup OutputData], OutputSignal(o)
      PROVE  Inv'
  <2>1. UNCHANGED <<running, desk_shell, view_list, seats, setting, active>> /\ outputs' = o
    BY <1>6 DEF OutputSignal
  <2>2. ServerOK'
    BY <2>1 DEF Inv, ServerOK
  <2>3. send_update("outputs", <<Now'>>)
    BY <1>6, <2>1 DEF OutputSignal, Now
  <2> QED
    BY <2>1, <2>2, <2>3, Sent DEF Topics, Inv
<1>7. CASE \E id \in Outputs, p \in Places :
             on_output_created(id, [place |-> p, scale |-> One])
  <2> PICK id \in Outputs, p \in Places :
             on_output_created(id, [place |-> p, scale |-> One])
    BY <1>7
  <2> DEFINE o == [outputs EXCEPT ![id] = [place |-> p, scale |-> One]]
  <2>1. outputs \in [Outputs -> {None} \cup OutputData] /\ One \in Scales \ 0..(One - 1)
    BY DEF Inv, ServerOK, One
  <2>2. o \in [Outputs -> {None} \cup OutputData]
    BY <2>1 DEF OutputData
  <2> QED
    BY <1>6, <2>2 DEF on_output_created
<1>8. CASE \E id \in Outputs : on_output_destroyed(id)
  <2> PICK id \in Outputs : on_output_destroyed(id)
    BY <1>8
  <2>1. [outputs EXCEPT ![id] = None] \in [Outputs -> {None} \cup OutputData]
    BY DEF Inv, ServerOK
  <2> QED
    BY <1>6, <2>1 DEF on_output_destroyed
<1>9. CASE \E id \in Outputs, p \in Places : on_output_changed(id, p)
  <2> PICK id \in Outputs, p \in Places : on_output_changed(id, p)
    BY <1>9
  <2>1. outputs[id] \in OutputData
    BY DEF Inv, ServerOK, on_output_changed
  <2>2. [outputs EXCEPT ![id].place = p] \in [Outputs -> {None} \cup OutputData]
    BY <2>1 DEF Inv, ServerOK, OutputData
  <2> QED
    BY <1>6, <2>2 DEF on_output_changed
<1>10. CASE on_input_devices_changed
  <2>1. /\ UNCHANGED <<running, desk_shell, view_list, outputs, active>>
        /\ send_update("inputdevs", <<Now'>>)
    BY <1>10 DEF on_input_devices_changed, Now
  <2>2. seats' \in Seq(Seq(Devices)) /\ setting' \in [Devices -> [Features -> BOOLEAN]]
    <3>1. CASE \E i \in DOMAIN seats, d \in Devices :
                 /\ seats' = [seats EXCEPT ![i] = Append(@, d)]
                 /\ setting' = [setting EXCEPT ![d] = [f \in Features |-> FALSE]]
      <4> PICK i \in DOMAIN seats, d \in Devices :
                 /\ seats' = [seats EXCEPT ![i] = Append(@, d)]
                 /\ setting' = [setting EXCEPT ![d] = [f \in Features |-> FALSE]]
        BY <3>1
      <4>1. seats \in Seq(Seq(Devices)) /\ i \in 1..Len(seats)
        BY DEF Inv, ServerOK
      <4>2. Append(seats[i], d) \in Seq(Devices)
        BY <4>1
      <4>3. seats' \in Seq(Seq(Devices))
        BY <4>1, <4>2, ExceptSeq
      <4> QED
        BY <4>3 DEF Inv, ServerOK
    <3>2. CASE \E i \in DOMAIN seats : \E j \in DOMAIN seats[i] :
                 /\ seats' = [seats EXCEPT ![i] =
                                SubSeq(@, 1, j - 1) \o SubSeq(@, j + 1, Len(@))]
                 /\ UNCHANGED setting
      <4>1. PICK i \in DOMAIN seats : \E j \in DOMAIN seats[i] :
                 /\ seats' = [seats EXCEPT ![i] =
                                SubSeq(@, 1, j - 1) \o SubSeq(@, j + 1, Len(@))]
                 /\ UNCHANGED setting
        BY <3>2
      <4>2. seats \in Seq(Seq(Devices)) /\ i \in 1..Len(seats) /\ seats[i] \in Seq(Devices)
        BY DEF Inv, ServerOK
      <4>3. \A j \in DOMAIN seats[i] :
              SubSeq(seats[i], 1, j - 1) \o SubSeq(seats[i], j + 1, Len(seats[i])) \in Seq(Devices)
        BY <4>2, Removed
      <4>4. \A q \in Seq(Devices) : [seats EXCEPT ![i] = q] \in Seq(Seq(Devices))
        BY <4>2, ExceptSeq
      <4> QED
        BY <4>1, <4>3, <4>4 DEF Inv, ServerOK
    <3> QED
      BY <1>10, <3>1, <3>2 DEF on_input_devices_changed
  <2>3. ServerOK'
    BY <2>1, <2>2 DEF Inv, ServerOK
  <2> QED
    BY <2>1, <2>3, Sent DEF Topics, Inv
<1> QED
  BY <1>1, <1>2, <1>4, <1>5, <1>7, <1>8, <1>9, <1>10 DEF Signal

(* Every handler and every signal keeps the invariant. *)
LEMMA InvStep == Inv /\ [Next]_mvars => Inv'
<1> SUFFICES ASSUME Inv, [Next]_mvars PROVE Inv'
  OBVIOUS
<1>1. CASE \E m \in Managers : Visit(m)
  BY <1>1, VisitStep
<1>2. CASE \E m \in bound, topics \in SUBSET Topics : cm_subscribe(m, topics)
  BY <1>2, SubscribeStep
<1>3. CASE \E m \in bound : Command(m)
  BY <1>3, CommandStep
<1>4. CASE Signal
  BY <1>4, SignalStep
<1>5. CASE UNCHANGED mvars
  <2>1. Now' = Now /\ ServerOK'
    BY <1>5 DEF mvars, server, Inv, ServerOK, Now
  <2> QED
    BY <1>5, <2>1, Unsent DEF mvars, Inv
<1> QED
  BY <1>1, <1>2, <1>3, <1>4, <1>5 DEF Next

(* The plugin starts with nobody bound and nothing sent. *)
LEMMA InitInv == Init => Inv
<1> SUFFICES ASSUME Init PROVE Inv
  OBVIOUS
<1>1. [place : Places, scale : {One}] \subseteq OutputData
  <2>1. One \in Scales \ 0..(One - 1)
    BY ManagementAssumption DEF One
  <2> QED
    BY <2>1 DEF OutputData
<1>2. ServerOK
  BY <1>1, ManagementAssumption DEF Init, ServerOK
<1> QED
  BY <1>2 DEF Init, Inv, MailInv, MailOK, SubscribersAlive, ToldSubscribed, SubscribersCurrent

(* The invariant holds throughout. *)
LEMMA Invariance == Spec => []Inv
BY InitInv, InvStep, PTL DEF Spec

-----------------------------------------------------------------------------
(* The state keeps its shape; no output ever has a scale below one.        *)
THEOREM TypeCorrect == Spec => []TypeOK
<1>1. Inv => TypeOK
  BY DEF Inv, ServerOK, MailInv, MailOK, TypeOK
<1> QED
  BY <1>1, Invariance, PTL

(* No update is ever sent to a resource that is gone.                      *)
THEOREM Alive == Spec => []SubscribersAlive
BY Invariance, PTL DEF Inv, MailInv

(* Whoever subscribed to outputs or input devices and was sent an update   *)
(* since has the truth in hand or on its way.                              *)
THEOREM Current == Spec => []SubscribersCurrent
BY Invariance, PTL DEF Inv, MailInv

(* What the plugin takes to be at a seat and an index is what a subscriber  *)
(* that has nothing left to read sees there.                               *)
LEMMA SeenDevice ==
    ASSUME Inv, NEW m, <<m, "inputdevs">> \in told, inbox[m] = <<>>,
           NEW i \in DOMAIN seats, NEW j \in DOMAIN seats[i]
    PROVE  LET seen == known[m].inputdevs
           IN /\ i \in DOMAIN seen
              /\ j \in DOMAIN seen[i]
              /\ seen[i][j].device = seats[i][j]
<1> DEFINE p == <<m, "inputdevs">>
<1>1. Newest(p[1])[p[2]] = Now[p[2]]
  BY DEF Inv, MailInv, SubscribersCurrent
<1>2. known[m].inputdevs = Now.inputdevs
  BY <1>1 DEF Newest
<1>3. Now.inputdevs = [k \in DOMAIN seats |-> [l \in DOMAIN seats[k] |->
                         [device |-> seats[k][l], setting |-> setting[seats[k][l]]]]]
  BY DEF Now, make_update
<1>4. Now.inputdevs[i] = [l \in DOMAIN seats[i] |->
                         [device |-> seats[i][l], setting |-> setting[seats[i][l]]]]
  BY <1>3
<1>5. i \in DOMAIN Now.inputdevs /\ j \in DOMAIN Now.inputdevs[i]
  BY <1>3, <1>4
<1>6. Now.inputdevs[i][j].device = seats[i][j]
  BY <1>4
<1> QED
  BY <1>2, <1>5, <1>6

(* Whatever came and went before, a setter changes no device but the one    *)
(* that a subscriber which has read everything sees at those indices.      *)
THEOREM Right == Spec => RightDevice
<1> DEFINE R == setting' # setting =>
         \A m \in Managers, s, d \in Indices, f \in Features, e \in BOOLEAN :
           /\ <<m, "inputdevs">> \in told
           /\ inbox[m] = <<>>
           /\ cm_device_set(m, s, d, f, e)
           => LET seen == known[m].inputdevs
              IN \A x \in Devices : setting'[x] # setting[x] =>
                   /\ s + 1 \in DOMAIN seen
                   /\ d + 1 \in DOMAIN seen[s + 1]
                   /\ x = seen[s + 1][d + 1].device
<1>1. ASSUME Inv PROVE R
  <2> SUFFICES ASSUME NEW m \in Managers, NEW s \in Indices, NEW d \in Indices,
                      NEW f \in Features, NEW e \in BOOLEAN, NEW x \in Devices,
                      <<m, "inputdevs">> \in told, inbox[m] = <<>>,
                      cm_device_set(m, s, d, f, e), setting'[x] # setting[x]
               PROVE  LET seen == known[m].inputdevs
                      IN /\ s + 1 \in DOMAIN seen
                         /\ d + 1 \in DOMAIN seen[s + 1]
                         /\ x = seen[s + 1][d + 1].device
    OBVIOUS
  <2>1. DeviceAt(s, d) # None /\ x = DeviceAt(s, d)
    BY <1>1 DEF cm_device_set, Inv, ServerOK
  <2>2. /\ s + 1 \in DOMAIN seats /\ d + 1 \in DOMAIN seats[s + 1]
        /\ x = seats[s + 1][d + 1]
    BY <2>1 DEF DeviceAt
  <2> QED
    BY <1>1, <2>2, SeenDevice
<1>2. Inv /\ [Next]_mvars => [R]_mvars
  BY <1>1
<1> QED
  BY <1>2, Invariance, PTL DEF Spec, RightDevice

-----------------------------------------------------------------------------
(* Screenshots.  What the plugin's vectors and the client's files hold is   *)
(* computed by folds; their values are met one element after another.       *)

(* One step of the walk over a list of views, for layer l. *)
Push(l, vector, v) == IF v.layer = l THEN Append(vector, v) ELSE vector

IsWalk(acc, l, s) ==
    /\ acc \in [0..Len(s) -> Seq(Views)]
    /\ acc[0] = <<>>
    /\ \A i \in 0..(Len(s) - 1) : acc[i + 1] = Push(l, acc[i], s[i + 1])

(* The fold that collects the views of a layer has its values along the list. *)
LEMMA InWalk ==
    ASSUME NEW l, NEW s \in Seq(Views)
    PROVE  \E acc : IsWalk(acc, l, s) /\ In(l, s) = acc[Len(s)]
<1> DEFINE n == Len(s)
           S == 1..n
           V == Seq(Views)
           step == [p \in S \X V |-> Push(l, p[2], s[p[1]])]
           Eq(iter) == iter = [T \in SUBSET DOMAIN s |->
                 IF T = {} THEN <<>>
                 ELSE IF s[Max(T)].layer = l
                      THEN Append(iter[T \ {Max(T)}], s[Max(T)])
                      ELSE iter[T \ {Max(T)}]]
           iter == CHOOSE f : Eq(f)
<1>1. In(l, s) = iter[DOMAIN s]
  BY DEF In, FoldLeft, MapThenFoldSet
<1>2. n \in Nat /\ DOMAIN s = S /\ \A i \in S : s[i] \in Views
  BY LenProperties
<1> HIDE DEF n
<1>3. step \in [S \X V -> V]
  <2>1. ASSUME NEW q \in V, NEW v \in Views
        PROVE  Push(l, q, v) \in V
    BY AppendProperties DEF Push
  <2> HIDE DEF V
  <2> QED
    BY <1>2, <2>1
<1>4. <<>> \in V
  OBVIOUS
<1>5. \A i \in S : \A q \in V : step[<<i, q>>] = Push(l, q, s[i])
  <2> HIDE DEF V
  <2> QED
    OBVIOUS
<1>6. \A T \in SUBSET S : T # {} => Largest(n)[T] = Max(T) /\ Max(T) \in S
  BY <1>2, LargestChooses
<1> HIDE DEF step, V
<1>7. \E f : Eq(f)
  <2>1. PICK f \in [SUBSET S -> V] : IsFold(f, S, V, <<>>, Largest(n), step)
    <3>1. IsFiniteSet(S) /\ Chooses(Largest(n), S)
      BY <1>2, LargestChooses
    <3> DEFINE empty == <<>>
    <3>2. empty \in V
      BY <1>4
    <3> HIDE DEF S, empty
    <3>3. \E f \in [SUBSET S -> V] : IsFold(f, S, V, empty, Largest(n), step)
      BY <1>3, <3>1, <3>2, FoldExists
    <3> QED
      BY <3>3 DEF S, empty
  <2>2. ASSUME NEW T \in SUBSET S
        PROVE  f[T] = IF T = {} THEN <<>>
                 ELSE IF s[Max(T)].layer = l
                      THEN Append(f[T \ {Max(T)}], s[Max(T)])
                      ELSE f[T \ {Max(T)}]
    <3>1. CASE T = {}
      BY <2>1, <3>1 DEF IsFold
    <3>2. CASE T # {}
      <4>1. f[T \ {Max(T)}] \in V
        BY <2>1
      <4>2. f[T] = step[<<Max(T), f[T \ {Max(T)}]>>]
        BY <1>6, <2>1, <3>2, <4>1 DEF IsFold
      <4> QED
        BY <1>5, <1>6, <3>2, <4>1, <4>2 DEF Push
    <3> QED
      BY <3>1, <3>2
  <2>3. Eq(f)
    BY <1>2, <2>1, <2>2
  <2> QED
    BY <2>3
<1>8. Eq(iter)
  BY <1>7
<1> HIDE DEF iter
<1>9. IsFold(iter, S, V, <<>>, Largest(n), step)
  <2>1. ASSUME NEW T \in SUBSET S, T # {}, iter[T \ {Max(T)}] \in V
        PROVE  iter[T] = step[<<Max(T), iter[T \ {Max(T)}]>>]
    <3>1. iter[T] = Push(l, iter[T \ {Max(T)}], s[Max(T)])
      BY <1>2, <1>8, <2>1 DEF Push
    <3> QED
      BY <1>5, <1>6, <2>1, <3>1
  <2>2. iter[{}] = <<>>
    BY <1>8
  <2> QED
    BY <1>6, <2>1, <2>2 DEF IsFold
<1> HIDE DEF Eq
<1>10. InSteps(iter, n, V, <<>>, step)
  BY <1>2, <1>3, <1>4, <1>9, FoldSteps
<1> DEFINE acc == [i \in 0..n |-> iter[1..i]]
<1>11. acc \in [0..n -> V] /\ acc[0] = <<>> /\ acc[n] = iter[S]
  BY <1>2, <1>10 DEF InSteps
<1>12. ASSUME NEW i \in 0..(n - 1)
       PROVE  acc[i + 1] = Push(l, acc[i], s[i + 1])
  <2>1. i \in 0..n /\ i + 1 \in 0..n /\ i + 1 \in S
    BY <1>2
  <2>2. iter[1..(i + 1)] = Push(l, iter[1..i], s[i + 1])
    BY <1>5, <1>10, <2>1 DEF InSteps
  <2> QED
    BY <2>1, <2>2
<1> HIDE DEF acc
<1> QED
  BY <1>1, <1>2, <1>11, <1>12 DEF IsWalk, n, V

(* A walk over a longer list passes through the shorter. *)
LEMMA InAppend ==
    ASSUME NEW l
    PROVE  /\ In(l, <<>>) = <<>>
           /\ \A s \in Seq(Views) : In(l, s) \in Seq(Views)
           /\ \A s \in Seq(Views), e \in Views : In(l, Append(s, e)) = Push(l, In(l, s), e)
<1>1. In(l, <<>>) = <<>>
  <2>1. <<>> \in Seq(Views) /\ Len(<<>>) = 0
    OBVIOUS
  <2>2. PICK a : IsWalk(a, l, <<>>) /\ In(l, <<>>) = a[Len(<<>>)]
    BY <2>1, InWalk
  <2>3. a[0] = <<>>
    BY <2>2 DEF IsWalk
  <2> QED
    BY <2>1, <2>2, <2>3, Zenon
<1>2. ASSUME NEW s \in Seq(Views)
      PROVE  In(l, s) \in Seq(Views)
  <2>1. Len(s) \in 0..Len(s)
    BY LenProperties
  <2>2. PICK a : IsWalk(a, l, s) /\ In(l, s) = a[Len(s)]
    BY InWalk
  <2>3. a \in [0..Len(s) -> Seq(Views)]
    BY <2>2 DEF IsWalk
  <2> QED
    BY <2>1, <2>2, <2>3
<1>3. ASSUME NEW s \in Seq(Views), NEW e \in Views
      PROVE  In(l, Append(s, e)) = Push(l, In(l, s), e)
  <2> DEFINE t == Append(s, e)
             n == Len(s)
  <2>1. /\ t \in Seq(Views) /\ Len(t) = n + 1 /\ n \in Nat
        /\ \A i \in 1..n : t[i] = s[i]
        /\ t[n + 1] = e
    BY AppendProperties
  <2> HIDE DEF t, n
  <2>2. PICK a : IsWalk(a, l, s) /\ In(l, s) = a[n]
    BY InWalk DEF n
  <2>3. PICK b : IsWalk(b, l, t) /\ In(l, t) = b[n + 1]
    BY <2>1, InWalk
  <2> DEFINE N == {i \in Nat : i <= n => a[i] = b[i]}
  <2>4. 0 \in N
    BY <2>2, <2>3 DEF IsWalk
  <2>5. ASSUME NEW i \in Nat, i \in N
        PROVE  i + 1 \in N
    <3> SUFFICES ASSUME i + 1 <= n PROVE a[i + 1] = b[i + 1]
      OBVIOUS
    <3>1. i \in 0..(n - 1) /\ i \in 0..((n + 1) - 1) /\ i <= n /\ i + 1 \in 1..n
      BY <2>1
    <3>2. a[i + 1] = Push(l, a[i], s[i + 1])
      BY <2>2, <3>1 DEF IsWalk, n
    <3>3. b[i + 1] = Push(l, b[i], t[i + 1])
      BY <2>1, <2>3, <3>1 DEF IsWalk
    <3> QED
      BY <2>1, <2>5, <3>1, <3>2, <3>3
  <2>6. Nat \subseteq N
    <3> HIDE DEF N
    <3> QED
      BY <2>4, <2>5, NaturalInduction
  <2>7. a[n] = b[n]
    BY <2>1, <2>6
  <2>8. b[n + 1] = Push(l, b[n], t[n + 1])
    <3>1. n \in 0..((n + 1) - 1)
      BY <2>1
    <3> QED
      BY <2>1, <2>3, <3>1 DEF IsWalk
  <2> QED
    BY <2>1, <2>2, <2>3, <2>7, <2>8 DEF t
<1> QED
  BY <1>1, <1>2, <1>3

(* The views of a layer in two lists, one after the other. *)
LEMMA InConcat ==
    ASSUME NEW l, NEW s \in Seq(Views), NEW t \in Seq(Views)
    PROVE  In(l, s \o t) = In(l, s) \o In(l, t)
<1> DEFINE C == {u \in Seq(Views) : In(l, s \o u) = In(l, s) \o In(l, u)}
<1>1. <<>> \in C
  <2>1. s \o <<>> = s /\ In(l, s) \o <<>> = In(l, s)
    BY InAppend, ConcatEmptySeq
  <2>2. <<>> \in Seq(Views)
    OBVIOUS
  <2> QED
    BY <2>1, <2>2, InAppend
<1>2. ASSUME NEW u \in Seq(Views), NEW e \in Views, u \in C
      PROVE  Append(u, e) \in C
  <2>1. s \o Append(u, e) = Append(s \o u, e) /\ Append(u, e) \in Seq(Views)
        /\ s \o u \in Seq(Views)
    BY AppendIsConcat, AppendProperties, ConcatProperties, ConcatAssociative
  <2>2. In(l, s \o Append(u, e)) = Push(l, In(l, s) \o In(l, u), e)
    <3> DEFINE w == s \o u
    <3> HIDE DEF w
    <3>1. w \in Seq(Views)
      BY <2>1 DEF w
    <3>2. In(l, Append(w, e)) = Push(l, In(l, w), e)
      BY <3>1, InAppend
    <3> QED
      BY <1>2, <2>1, <3>2 DEF w
  <2>3. In(l, Append(u, e)) = Push(l, In(l, u), e)
    BY InAppend
  <2>4. In(l, s) \in Seq(Views) /\ In(l, u) \in Seq(Views)
    BY InAppend
  <2>5. In(l, s) \o Append(In(l, u), e) = Append(In(l, s) \o In(l, u), e)
    BY <2>4, AppendIsConcat, ConcatProperties, ConcatAssociative
  <2> QED
    BY <2>1, <2>2, <2>3, <2>5 DEF Push
<1>3. Seq(Views) \subseteq C
  <2> HIDE DEF C
  <2> QED
    BY <1>1, <1>2, SequenceInduction
<1> QED
  BY <1>3

(* The views of a layer are all in it, and none in another. *)
LEMMA InIn ==
    ASSUME NEW l, NEW m, NEW s \in Seq(Views)
    PROVE  In(l, In(m, s)) = IF l = m THEN In(m, s) ELSE <<>>
<1> DEFINE C == {u \in Seq(Views) : In(l, In(m, u)) = IF l = m THEN In(m, u) ELSE <<>>}
<1>1. <<>> \in C
  <2>1. <<>> \in Seq(Views)
    OBVIOUS
  <2> QED
    BY <2>1, InAppend
<1>2. ASSUME NEW u \in Seq(Views), NEW e \in Views, u \in C
      PROVE  Append(u, e) \in C
  <2>1. Append(u, e) \in Seq(Views) /\ In(m, u) \in Seq(Views)
    BY AppendProperties, InAppend
  <2>2. In(m, Append(u, e)) = Push(m, In(m, u), e)
    BY InAppend
  <2>3. CASE e.layer = m
    <3>1. In(m, Append(u, e)) = Append(In(m, u), e)
      BY <2>2, <2>3 DEF Push
    <3>2. In(l, In(m, Append(u, e))) = Push(l, In(l, In(m, u)), e)
      <4> DEFINE w == In(m, u)
      <4> HIDE DEF w
      <4>1. w \in Seq(Views)
        BY <2>1 DEF w
      <4>2. In(l, Append(w, e)) = Push(l, In(l, w), e)
        BY <4>1, InAppend
      <4> QED
        BY <3>1, <4>2 DEF w
    <3> QED
      BY <1>2, <2>1, <2>3, <3>1, <3>2 DEF Push
  <2>4. CASE e.layer # m
    BY <1>2, <2>1, <2>2, <2>4 DEF Push
  <2> QED
    BY <2>3, <2>4
<1>3. Seq(Views) \subseteq C
  <2> HIDE DEF C
  <2> QED
    BY <1>1, <1>2, SequenceInduction
<1> QED
  BY <1>3

(* The places of a layer's views in a list. *)
SpotsOf(ls, s) == {i \in 1..Len(s) : s[i].layer \in ls}

(* A layer has as many views as it has places in the list. *)
LEMMA InLen ==
    ASSUME NEW l, NEW s \in Seq(Views)
    PROVE  Len(In(l, s)) = Cardinality(SpotsOf({l}, s))
<1> DEFINE C == {u \in Seq(Views) : Len(In(l, u)) = Cardinality(SpotsOf({l}, u))}
<1>1. <<>> \in C
  <2>1. <<>> \in Seq(Views) /\ Len(<<>>) = 0
    OBVIOUS
  <2>2. SpotsOf({l}, <<>>) = {}
    BY <2>1 DEF SpotsOf
  <2> QED
    BY <2>1, <2>2, InAppend, FS_EmptySet
<1>2. ASSUME NEW u \in Seq(Views), NEW e \in Views, u \in C
      PROVE  Append(u, e) \in C
  <2> DEFINE t == Append(u, e)
             n == Len(u)
             P == SpotsOf({l}, u)
  <2>1. /\ t \in Seq(Views) /\ Len(t) = n + 1 /\ n \in Nat
        /\ \A i \in 1..n : t[i] = u[i]
        /\ t[n + 1] = e
    BY AppendProperties, LenProperties
  <2>2. In(l, t) = Push(l, In(l, u), e) /\ In(l, u) \in Seq(Views)
    BY InAppend
  <2> HIDE DEF t
  <2>3. SpotsOf({l}, t) = IF e.layer = l THEN P \cup {n + 1} ELSE P
    BY <2>1 DEF SpotsOf
  <2>4. IsFiniteSet(P) /\ n + 1 \notin P
    <3>1. P \subseteq 1..n /\ n + 1 \notin 1..n
      BY <2>1 DEF SpotsOf
    <3>2. IsFiniteSet(1..n)
      BY <2>1, FS_Interval
    <3>3. IsFiniteSet(P)
      BY <3>1, <3>2, FS_Subset
    <3> QED
      BY <3>1, <3>3
  <2>5. Cardinality(P \cup {n + 1}) = Cardinality(P) + 1
    BY <2>4, FS_AddElement
  <2>6. Len(In(l, t)) = IF e.layer = l THEN Len(In(l, u)) + 1 ELSE Len(In(l, u))
    BY <2>2, AppendProperties DEF Push
  <2> QED
    BY <1>2, <2>1, <2>3, <2>5, <2>6 DEF t
<1>3. Seq(Views) \subseteq C
  <2> HIDE DEF C
  <2> QED
    BY <1>1, <1>2, SequenceInduction
<1> QED
  BY <1>3

(* The client's counter and the files it has written. *)
Acc == UNION {[counter : {c}, files : [0..(c - 1) -> Views]] : c \in Nat}

Saved(acc) == [i \in 1..acc.counter |-> acc.files[i - 1]]

(* The files of a layer continue those of the layers before it. *)
LEMMA SaveLayerAppends ==
    ASSUME NEW acc \in Acc, NEW q \in Seq(Views)
    PROVE  /\ SaveLayer(acc, q) \in Acc
           /\ Saved(acc) \in Seq(Views) /\ Len(Saved(acc)) = acc.counter
           /\ Saved(SaveLayer(acc, q)) = Saved(acc) \o q
           /\ SaveLayer(acc, q).counter = acc.counter + Len(q)
<1> DEFINE c == acc.counter
           f == acc.files
           n == Len(q)
           d == c + n
           new == SaveLayer(acc, q)
           at(k) == IF k \in c..(c + n - 1) THEN q[k - c + 1] ELSE f[k]
           g == [k \in 0..(d - 1) |-> at(k)]
<1>1. c \in Nat /\ f \in [0..(c - 1) -> Views]
  BY DEF Acc
<1>2. n \in Nat /\ \A i \in 1..n : q[i] \in Views
  BY LenProperties
<1> HIDE DEF c, f, n
<1>3. new.counter = d /\ new.files = g /\ new = [counter |-> d, files |-> g]
  <2> DEFINE h == [k \in DOMAIN f \cup (c..(c + n - 1)) |-> at(k)]
  <2>1. new = [counter |-> c + n, files |-> h]
    BY DEF SaveLayer, c, f, n
  <2>2. DOMAIN f \cup (c..(c + n - 1)) = 0..(d - 1)
    BY <1>1, <1>2
  <2>3. h = g
    <3> HIDE DEF at
    <3> QED
      BY <2>2
  <2> HIDE DEF g, h, new
  <2> QED
    BY <2>1, <2>3
<1>4. d \in Nat /\ g \in [0..(d - 1) -> Views]
  <2>1. d \in Nat
    BY <1>1, <1>2
  <2>2. ASSUME NEW i \in 0..(d - 1)
        PROVE  at(i) \in Views
    <3>1. CASE i \in c..(d - 1)
      <4>1. i - c + 1 \in 1..n
        BY <1>1, <1>2, <3>1
      <4>2. at(i) = q[i - c + 1]
        BY <1>1, <1>2, <3>1
      <4> HIDE DEF at
      <4> QED
        BY <1>2, <4>1, <4>2
    <3>2. CASE i \notin c..(d - 1)
      <4>1. i \in 0..(c - 1)
        BY <1>1, <1>2, <3>2
      <4> QED
        BY <1>1, <3>2, <4>1
    <3> QED
      BY <3>1, <3>2
  <2> HIDE DEF at
  <2> QED
    BY <2>1, <2>2
<1>5. new \in Acc
  <2> HIDE DEF g, d, new
  <2>1. [counter |-> d, files |-> g] \in [counter : {d}, files : [0..(d - 1) -> Views]]
    BY <1>4
  <2> QED
    BY <1>3, <1>4, <2>1 DEF Acc
<1>6. Saved(acc) \in [1..c -> Views]
  <2>1. \A i \in 1..c : i - 1 \in 0..(c - 1)
    BY <1>1
  <2> QED
    BY <1>1, <2>1 DEF Saved, c, f
<1>7. Saved(acc) \in Seq(Views) /\ Len(Saved(acc)) = c
  BY <1>1, <1>6, SeqDef
<1>8. Saved(new) = Saved(acc) \o q
  <2> DEFINE s == Saved(acc)
  <2>1. Saved(new) = [i \in 1..d |-> g[i - 1]]
    BY <1>3 DEF Saved
  <2>2. s \o q \in Seq(Views) /\ Len(s \o q) = d
        /\ \A i \in 1..d : (s \o q)[i] = IF i <= c THEN s[i] ELSE q[i - c]
    BY <1>7, ConcatProperties DEF n
  <2>3. s \o q \in [1..d -> Views]
    BY <2>2, LenProperties
  <2>4. ASSUME NEW i \in 1..d
        PROVE  g[i - 1] = (s \o q)[i]
    <3>1. i - 1 \in 0..(d - 1)
      BY <1>4
    <3>2. CASE i <= c
      <4>1. i - 1 \notin c..(d - 1) /\ i \in 1..c
        BY <1>1, <3>2
      <4>2. g[i - 1] = f[i - 1]
        BY <3>1, <4>1
      <4>3. s[i] = f[i - 1]
        BY <4>1 DEF Saved, c, f
      <4> HIDE DEF s, g, d
      <4> QED
        BY <2>2, <3>2, <4>2, <4>3
    <3>3. CASE ~(i <= c)
      <4>1. i - 1 \in c..(d - 1) /\ (i - 1) - c + 1 = i - c
        BY <1>1, <1>2, <3>3
      <4>2. g[i - 1] = q[i - c]
        <5>1. at(i - 1) = q[(i - 1) - c + 1]
          BY <1>1, <1>2, <4>1
        <5> HIDE DEF at
        <5> QED
          BY <3>1, <4>1, <5>1
      <4> HIDE DEF s, g, d
      <4> QED
        BY <2>2, <3>3, <4>2
    <3> QED
      BY <3>2, <3>3
  <2> HIDE DEF s, g, d, new
  <2> QED
    BY <2>1, <2>3, <2>4 DEF s
<1> QED
  BY <1>3, <1>5, <1>7, <1>8 DEF c, n

(* on_done has its values along the layers of the screenshot. *)
LEMMA SaveWalk ==
    ASSUME NEW n \in Nat, NEW shot \in [1..n -> Seq(Views)]
    PROVE  \E acc \in [0..n -> Acc] :
             /\ acc[0] = [counter |-> 0, files |-> <<>>]
             /\ \A i \in 0..(n - 1) : acc[i + 1] = SaveLayer(acc[i], shot[i + 1])
             /\ on_done(shot, <<>>) = acc[n].files
<1> DEFINE S == 1..n
           base == [counter |-> 0, files |-> <<>>]
           step == [p \in S \X Acc |-> SaveLayer(p[2], shot[p[1]])]
           Eq(iter) == iter = [T \in SUBSET DOMAIN shot |->
                 IF T = {} THEN base ELSE SaveLayer(iter[T \ {Max(T)}], shot[Max(T)])]
           iter == CHOOSE f : Eq(f)
<1>1. on_done(shot, <<>>) = iter[DOMAIN shot].files
  BY DEF on_done, FoldLeft, MapThenFoldSet
<1>2. DOMAIN shot = S /\ \A i \in S : shot[i] \in Seq(Views)
  OBVIOUS
<1>3. step \in [S \X Acc -> Acc]
  <2>1. \A i \in S : \A a \in Acc : SaveLayer(a, shot[i]) \in Acc
    BY <1>2, SaveLayerAppends
  <2> QED
    BY <2>1
<1>4. base \in Acc
  <2>1. 0..(0 - 1) = {}
    OBVIOUS
  <2>2. <<>> \in [{} -> Views]
    OBVIOUS
  <2>3. base \in [counter : {0}, files : [0..(0 - 1) -> Views]]
    BY <2>1, <2>2
  <2>4. 0 \in Nat
    OBVIOUS
  <2> HIDE DEF base
  <2> QED
    BY <2>3, <2>4 DEF Acc
<1>5. \A i \in S : \A a \in Acc : step[<<i, a>>] = SaveLayer(a, shot[i])
  OBVIOUS
<1>6. \A T \in SUBSET S : T # {} => Largest(n)[T] = Max(T) /\ Max(T) \in S
  BY LargestChooses
<1> HIDE DEF step, base
<1>7. \E f : Eq(f)
  <2>1. PICK f \in [SUBSET S -> Acc] : IsFold(f, S, Acc, base, Largest(n), step)
    <3>1. IsFiniteSet(S) /\ Chooses(Largest(n), S)
      BY LargestChooses
    <3> HIDE DEF S
    <3> QED
      BY <1>3, <1>4, <3>1, FoldExists
  <2>2. ASSUME NEW T \in SUBSET S
        PROVE  f[T] = IF T = {} THEN base ELSE SaveLayer(f[T \ {Max(T)}], shot[Max(T)])
    <3>1. CASE T = {}
      BY <2>1, <3>1 DEF IsFold
    <3>2. CASE T # {}
      <4>1. f[T \ {Max(T)}] \in Acc
        BY <2>1
      <4>2. f[T] = step[<<Max(T), f[T \ {Max(T)}]>>]
        BY <1>6, <2>1, <3>2, <4>1 DEF IsFold
      <4> QED
        BY <1>5, <1>6, <3>2, <4>1, <4>2
    <3> QED
      BY <3>1, <3>2
  <2>3. Eq(f)
    BY <1>2, <2>1, <2>2
  <2> QED
    BY <2>3
<1>8. Eq(iter)
  BY <1>7
<1> HIDE DEF iter
<1>9. IsFold(iter, S, Acc, base, Largest(n), step)
  <2>1. ASSUME NEW T \in SUBSET S, T # {}, iter[T \ {Max(T)}] \in Acc
        PROVE  iter[T] = step[<<Max(T), iter[T \ {Max(T)}]>>]
    <3>1. iter[T] = SaveLayer(iter[T \ {Max(T)}], shot[Max(T)])
      BY <1>2, <1>8, <2>1
    <3> QED
      BY <1>5, <1>6, <2>1, <3>1
  <2>2. iter[{}] = base
    BY <1>8
  <2> QED
    BY <1>6, <2>1, <2>2 DEF IsFold
<1> HIDE DEF Eq
<1>10. InSteps(iter, n, Acc, base, step)
  BY <1>3, <1>4, <1>9, FoldSteps
<1> DEFINE acc == [i \in 0..n |-> iter[1..i]]
<1>11. acc \in [0..n -> Acc] /\ acc[0] = base /\ acc[n] = iter[S]
  BY <1>10 DEF InSteps
<1>12. ASSUME NEW i \in 0..(n - 1)
       PROVE  acc[i + 1] = SaveLayer(acc[i], shot[i + 1])
  <2>1. i \in 0..n /\ i + 1 \in 0..n /\ i + 1 \in S
    OBVIOUS
  <2>2. iter[1..(i + 1)] = SaveLayer(iter[1..i], shot[i + 1])
    BY <1>5, <1>10, <2>1 DEF InSteps
  <2> QED
    BY <2>1, <2>2
<1> HIDE DEF acc
<1> QED
  BY <1>1, <1>2, <1>11, <1>12 DEF base

(* The layers of the first i of an order. *)
FirstLayers(order, i) == {order[j] : j \in 1..i}

(* After i layers the client has written the views of those layers, those   *)
(* of each in their order.                                                 *)
SavesAll(acc, order, n, v) ==
    /\ \A i, j \in 1..n : i # j => order[i] # order[j]
    /\ acc \in [0..n -> Acc]
    /\ acc[0] = [counter |-> 0, files |-> <<>>]
    /\ \A i \in 0..(n - 1) : acc[i + 1] = SaveLayer(acc[i], In(order[i + 1], v))

HasSaved(acc, order, i, v) ==
    /\ acc[i].counter = Cardinality(SpotsOf(FirstLayers(order, i), v))
    /\ \A l : In(l, Saved(acc[i])) =
                IF l \in FirstLayers(order, i) THEN In(l, v) ELSE <<>>

(* After each layer the counter and the files are right for the layers so far. *)
LEMMA SaveProgress ==
    ASSUME NEW v \in Seq(Views), NEW n \in Nat, NEW order, NEW acc,
           SavesAll(acc, order, n, v)
    PROVE  HasSaved(acc, order, n, v)
<1> USE DEF SavesAll
<1> DEFINE Done(i) ==
             /\ acc[i].counter = Cardinality(SpotsOf(FirstLayers(order, i), v))
             /\ \A l : In(l, Saved(acc[i])) =
                         IF l \in FirstLayers(order, i) THEN In(l, v) ELSE <<>>
           N == {i \in Nat : i <= n => Done(i)}
<1>1. 0 \in N
  <2>1. FirstLayers(order, 0) = {} /\ SpotsOf({}, v) = {}
    BY DEF FirstLayers, SpotsOf
  <2>2. acc[0].counter = 0 /\ Saved(acc[0]) = <<>>
    BY DEF Saved
  <2>3. Done(0)
    BY <2>1, <2>2, InAppend, FS_EmptySet
  <2> HIDE DEF Done
  <2> QED
    BY <2>3
<1>2. ASSUME NEW i \in Nat, i \in N
      PROVE  i + 1 \in N
  <2> SUFFICES ASSUME i + 1 <= n PROVE Done(i + 1)
    OBVIOUS
  <2> DEFINE m == order[i + 1]
             q == In(m, v)
             F == FirstLayers(order, i)
             G == FirstLayers(order, i + 1)
  <2>1. i \in 0..(n - 1) /\ i \in 0..n /\ i <= n /\ i + 1 \in 1..n
    OBVIOUS
  <2>2. Done(i)
    BY <1>2, <2>1
  <2>3. acc[i] \in Acc /\ acc[i + 1] = SaveLayer(acc[i], q) /\ q \in Seq(Views)
    BY <2>1, InAppend
  <2>4. G = F \cup {m}
    <3>1. \A j : j \in 1..(i + 1) <=> j = i + 1 \/ j \in 1..i
      OBVIOUS
    <3> QED
      BY <3>1 DEF FirstLayers
  <2>5. m \notin F
    <3>1. \A j \in 1..i : j \in 1..n /\ j # i + 1
      BY <2>1
    <3> QED
      BY <2>1, <3>1 DEF FirstLayers
  <2> HIDE DEF m, F, G, Done
  <2>6. /\ Saved(acc[i]) \in Seq(Views) /\ acc[i].counter = Len(Saved(acc[i]))
        /\ Saved(acc[i + 1]) = Saved(acc[i]) \o q
        /\ acc[i + 1].counter = acc[i].counter + Len(q)
    <3> DEFINE a == acc[i]
    <3> HIDE DEF q, a
    <3>1. a \in Acc /\ q \in Seq(Views) /\ acc[i + 1] = SaveLayer(a, q)
      BY <2>3 DEF a
    <3>2. /\ Saved(a) \in Seq(Views) /\ Len(Saved(a)) = a.counter
          /\ Saved(SaveLayer(a, q)) = Saved(a) \o q
          /\ SaveLayer(a, q).counter = a.counter + Len(q)
      BY <3>1, SaveLayerAppends
    <3> QED
      BY <3>1, <3>2 DEF a
  <2>7. acc[i + 1].counter = Cardinality(SpotsOf(G, v))
    <3> DEFINE A == SpotsOf(F, v)
               B == SpotsOf({m}, v)
    <3>1. SpotsOf(G, v) = A \cup B /\ A \cap B = {}
      BY <2>4, <2>5 DEF SpotsOf
    <3>2. IsFiniteSet(A) /\ IsFiniteSet(B)
      <4>1. A \subseteq 1..Len(v) /\ B \subseteq 1..Len(v)
        BY DEF SpotsOf
      <4>2. IsFiniteSet(1..Len(v))
        BY LenProperties, FS_Interval
      <4> QED
        BY <4>1, <4>2, FS_Subset
    <3>3. Len(q) = Cardinality(B)
      BY InLen
    <3>4. acc[i].counter = Cardinality(A)
      BY <2>2 DEF Done, F
    <3>5. Cardinality(A) \in Nat /\ Cardinality(B) \in Nat
      BY <3>2, FS_CardinalityType
    <3> HIDE DEF A, B, q
    <3>6. Cardinality(A \cup B) = Cardinality(A) + Cardinality(B)
      <4>1. Cardinality(A \cap B) = 0
        BY <3>1, FS_EmptySet
      <4>2. Cardinality(A \cup B) = Cardinality(A) + Cardinality(B) - Cardinality(A \cap B)
        BY <3>2, FS_Union
      <4> QED
        BY <3>5, <4>1, <4>2
    <3> QED
      BY <2>6, <3>1, <3>3, <3>4, <3>6
  <2>8. ASSUME NEW l
        PROVE  In(l, Saved(acc[i + 1])) = IF l \in G THEN In(l, v) ELSE <<>>
    <3>1. In(l, Saved(acc[i + 1])) = In(l, Saved(acc[i])) \o In(l, q)
      <4>1. \A a, b \in Seq(Views) : In(l, a \o b) = In(l, a) \o In(l, b)
        BY InConcat
      <4> HIDE DEF q
      <4> QED
        BY <2>3, <2>6, <4>1
    <3>2. In(l, Saved(acc[i])) = IF l \in F THEN In(l, v) ELSE <<>>
      BY <2>2 DEF Done, F
    <3>3. In(l, q) = IF l = m THEN In(m, v) ELSE <<>>
      BY InIn
    <3>4. In(l, v) \o <<>> = In(l, v) /\ <<>> \o In(l, v) = In(l, v)
          /\ <<>> \o <<>> = <<>>
      BY InAppend, ConcatEmptySeq
    <3> HIDE DEF q
    <3> QED
      BY <2>4, <2>5, <3>1, <3>2, <3>3, <3>4
  <2> QED
    BY <2>7, <2>8 DEF Done, G
<1>3. Nat \subseteq N
  <2> HIDE DEF N
  <2> QED
    BY <1>1, <1>2, NaturalInduction
<1> HIDE DEF Done
<1>4. Done(n)
  BY <1>3
<1> QED
  BY <1>4 DEF Done, HasSaved

(* After the last layer there is nothing that was not saved. *)
LEMMA AllSaved == view_list \in Seq(Views) => EveryViewSaved
<1> DEFINE v == view_list
           size == Len(v)
           D == DOMAIN layers
<1> SUFFICES ASSUME v \in Seq(Views), NEW shot \in Screenshots
             PROVE  LET files == on_done(shot, <<>>)
                        saved == [i \in 1..Len(v) |-> files[i - 1]]
                    IN  /\ DOMAIN files = 0..(Len(v) - 1)
                        /\ \A l \in D : In(l, saved) = In(l, v)
  BY DEF EveryViewSaved
<1>1. size \in Nat /\ DOMAIN v = 1..size /\ \A i \in 1..size : v[i] \in Views
  BY LenProperties
<1>2. D = {v[i].layer : i \in 1..size} /\ \A l \in D : layers[l] = In(l, v)
  BY <1>1 DEF layers
<1>3. IsFiniteSet(D)
  <2> DEFINE of == [i \in 1..size |-> v[i].layer]
  <2>1. of \in Surjection(1..size, D)
    BY <1>2 DEF Surjection
  <2>2. IsFiniteSet(1..size)
    BY <1>1, FS_Interval
  <2> QED
    BY <2>1, <2>2, FS_Surjection
<1> DEFINE n == Cardinality(D)
<1>4. n \in Nat
  BY <1>3, FS_CardinalityType
<1>5. PICK order \in SetToSeqs(D) : shot = [i \in DOMAIN order |-> layers[order[i]]]
  BY DEF Screenshots
<1>6. /\ order \in [1..n -> D] /\ DOMAIN order = 1..n
      /\ \A i, j \in 1..n : i # j => order[i] # order[j]
  BY DEF SetToSeqs
<1> HIDE DEF D, n, v, size
<1>7. FirstLayers(order, n) = D
  <2>1. order \in Injection(1..n, D)
    BY <1>6 DEF Injection, IsInjective
  <2>2. Cardinality(1..n) = n /\ IsFiniteSet(1..n)
    BY <1>4, FS_Interval
  <2>3. order \in Surjection(1..n, D)
    BY <1>3, <2>1, <2>2, FS_Injection DEF n
  <2> QED
    BY <2>3 DEF Surjection, FirstLayers
<1>8. \A i \in 1..n : shot[i] = In(order[i], v)
  BY <1>2, <1>5, <1>6
<1>9. shot \in [1..n -> Seq(Views)]
  <2>1. \A i \in 1..n : In(order[i], v) \in Seq(Views)
    BY InAppend
  <2> QED
    BY <1>5, <1>6, <1>8, <2>1
<1>10. PICK acc \in [0..n -> Acc] :
         /\ acc[0] = [counter |-> 0, files |-> <<>>]
         /\ \A i \in 0..(n - 1) : acc[i + 1] = SaveLayer(acc[i], shot[i + 1])
         /\ on_done(shot, <<>>) = acc[n].files
  BY <1>4, <1>9, SaveWalk
<1>11. \A i \in 0..(n - 1) : acc[i + 1] = SaveLayer(acc[i], In(order[i + 1], v))
  <2>1. \A i \in 0..(n - 1) : i + 1 \in 1..n
    BY <1>4
  <2> QED
    BY <1>8, <1>10, <2>1
<1>12. /\ acc[n].counter = Cardinality(SpotsOf(D, v))
       /\ \A l \in D : In(l, Saved(acc[n])) = In(l, v)
  <2>1. SavesAll(acc, order, n, v)
    BY <1>6, <1>10, <1>11 DEF SavesAll
  <2>2. HasSaved(acc, order, n, v)
    BY <1>4, <2>1, SaveProgress
  <2> QED
    BY <1>7, <2>2 DEF HasSaved
<1>13. acc[n].counter = size
  <2>1. SpotsOf(D, v) = 1..size
    BY <1>1, <1>2 DEF SpotsOf, size
  <2> QED
    BY <1>1, <1>12, <2>1, FS_Interval
<1>14. acc[n] \in Acc
  BY <1>4, <1>10
<1>15. acc[n].files \in [0..(size - 1) -> Views]
  BY <1>13, <1>14 DEF Acc
<1> QED
  BY <1>10, <1>12, <1>13, <1>15 DEF Saved, size

(* Whatever order the map of layers has, the client saves every view of the *)
(* list in a file of its own, and those of a layer in their order.          *)
THEOREM ScreenshotComplete == Spec => []EveryViewSaved
<1>1. Inv => EveryViewSaved
  BY AllSaved DEF Inv, ServerOK
<1> QED
  BY <1>1, Invariance, PTL

=============================================================================
