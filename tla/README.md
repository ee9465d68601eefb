# Weston with Extra Dip: models, checks and proofs

Weston with Extra Dip is a set of plugins for the Weston compositor. This
directory holds TLA+ modules of the plugins that keep state, the TLC
configurations that check them on small instances, and proofs checked by TLAPS.
Line numbers refer to the files of the repository's root.

## 1. The system

Every plugin is loaded into the compositor by `wet_module_init` and from then on
runs only as callbacks of the compositor's one event loop. There are no threads:
a request handler, a listener of a signal, a binding or a call of a plugin's API
runs to its end before anything else does. What makes the code hard is not
preemption but the order in which clients, surfaces, resources, outputs and
events come and go, and who still points to what when they do.

| component | state | operations | interacts with |
|---|---|---|---|
| `capabilities` (`capabilities.cpp`) | names known, capabilities per `wl_client` address, capability sets, the important client's listener | API create / check / grant / revoke; bind; create set, grant to set, spawn, destroy; death of a client | other plugins call its API; libwayland destroys clients and resources; ends the event loop |
| `layer-shell` (`layer-shell.cpp`) | one `lsh_context` per layer surface, the `lsh_views` map, listeners on surface and output, the surface's commit callback | get_layer_surface, five setters, destroy, commit, loss of surface / resource / output, click and touch bindings, work area query | checks capabilities; Weston's views, outputs, seats; the desktop shell calls `lsh_get_output_work_area` |
| `gamma-control` (`gamma-control.cpp`) | one `gamma_context` per control, the resource's pointer to it | get control, set gamma, destroy | writes the output's hardware table |
| `key-modifier-binds` (`key-modifier-binds.cpp`) | one `keymod_binding_grab` while it is the keyboard's grab | start of the grab, key, modifiers, cancel | `notify_key` of libweston, the input method's grab |
| `compositor-management` (`compositor-management.cpp`) | three sets of subscribed resources | bind, subscribe, get, 14 commands, 8 signals that send an update, death of a subscriber | Weston's view, output and seat lists, the desktop shell's API; serialises with FlatBuffers |
| `compositor-manager` (`compositor-manager.cpp`) | number of updates received, requests in the socket | command line tool: get, watch, three commands | client of compositor-management |
| `layered-screenshot`, `layered-screenshooter` | none | one request, one answer | Weston's views |
| `schemas/`, `protocols/`, build files | | | interface descriptions |

What is hard, and what makes each part correct:

* **capabilities.** Capabilities are copied: from the registry to the first
  client, from a client to a set, from a set to a connection. Revocation, death
  and reuse of addresses act on one of the copies. Correct means that delegation
  creates nothing, that a set never exceeds its owner, that an entry does not
  outlive a client that had a listener, and that the compositor does not outlive
  its first client.
* **layer-shell, life cycle.** A context hangs on a surface, a resource, a view
  and an output, which die in any order, and each of three destructors deletes
  it. Correct means that nobody is left with a pointer to a deleted context,
  that a live one still hears the commits of its surface, and that a lost
  output is announced.
* **layer-shell, focus.** Commits, clicks and touches compete for the keyboard
  with each other and with the desktop shell.
* **layer-shell, layout.** Requests, commits, resizes and configure events
  cross. Correct means that the exchange comes to rest, that it rests at the
  size that the layout asks for, and that the desktop gets what the panels
  leave, in whatever order they are looked at.
* **gamma-control.** Failure deletes the context in the middle of the life of
  its resource; outputs go while controls for them exist.
* **key-modifier-binds.** A key event of any key ends the grab, and must be sent
  on, turned into another key or swallowed; times of different seconds are
  subtracted.
* **compositor-management.** An update is a snapshot, made at the time of a
  signal or a command and read some time later; commands name things by an
  index or a number seen in one; subscribers go at any time. Correct means that
  no snapshot is taken before the change that caused it, that every subscriber
  is left with the present state and none is sent to after its death, and that
  a command of a client that has read it changes what the client sees at that
  place.
* **compositor-manager.** Its loop ends with the first update of any kind.
  Correct means that this is one made after its command was served, and that it
  comes.
* **layered-screenshot.** Views come grouped by layer out of an unordered map and
  are saved under running numbers. Correct means that every view is saved, once,
  and in the order of its layer.

The complete list of hazards, each at its line, with the properties that cover
it, is in `PROJECT.json`.

## 2. Modules

| module | models |
|---|---|
| `Capabilities` | capabilities.cpp, all of it |
| `CapabilityCustody` | what it promises: the abstract specification |
| `CapabilitiesProofs` | theorems about both |
| `LayerShell` | layer-shell.cpp: life cycle and keyboard focus |
| `LayerShellProofs` | theorems about it |
| `LayerGeometry` | `position` and `next_size`, per axis, as pure operators |
| `LayerLayout` | layer-shell.cpp: layout requests, commits, configure events, work area; uses `LayerGeometry` |
| `LayerLayoutProofs` | theorems about geometry, layout and the work area |
| `GammaControl` | gamma-control.cpp |
| `GammaControlProofs` | theorems about it |
| `Timespec` | `timespec_sub` and `timespec_to_msec` |
| `KeyModifierBinds` | key-modifier-binds.cpp and as much of `notify_key` as it relies on; uses `Timespec` |
| `KeyModifierBindsProofs` | theorems about both |
| `CompositorManagement` | compositor-management.cpp with any number of managers |
| `CompositorManagementProofs` | theorems about it and about `LayeredScreenshot` |
| `CompositorManager` | compositor-manager.cpp, composed with `CompositorManagement`: one manager is the tool |
| `CompositorManagerProofs` | theorems about the composition |
| `LayeredScreenshot` | layered-screenshot.cpp and layered-screenshooter.cpp as functions of the view list of `CompositorManagement` |
| `Inductions` | induction and recursion as facts about sets, for the proofs about sums and folds |
| `MC...` | definitions for TLC: symmetry sets, values of constants |

Operators that start with "Mutant:" in their comment are not used by the
specifications: each is what a plausible mistake would make of the definition
that follows it.

### Capabilities

`keys` and `caps` are the map `extra_dip_capabilities::caps`: `keys` says which
addresses have an entry (`operator[]` creates one even for a read), `caps` what
is in it. `Clients` are addresses, so a client that connects may find the entry
of a dead one. `NoClient` is the null pointer that `wl_client_create` returns
when it fails, and which `cs_spawn` uses as a key all the same. `cs` are the
`capability_set` objects with their resources: `"freed"` is the state after the
destroy request, where the object is gone and the resource still points to it.
`ClientGone` is `wl_client_destroy`: first the destroy listeners (`vip_is_down`,
`normal_client_is_down`), then the resources (`cs_destructor`). It is what a
disconnection, a refused grant and a failed socket all lead to. A second delete
either aborts the process or is not noticed. `bound` remembers which addresses
have a listener. `minted` and `revoked` are history.

`CapabilityCustody` says the same without clients: a capability is `issued` by the
first client's arrival or by a plugin's grant, and whatever else happens, what is
`circulating` (in an entry or a live set) can only shrink. `issued` is refined by
`minted`, `circulating` by the union of entries and live sets, so that a delegation
that adds anything, even a registered capability, is a step the abstract
specification does not have.

### LayerShell

Each table that can point to a context is a set: the heap, the `lsh_views` map,
the surface's destroy listener, the output's (`watching`; `stale` once the
output is gone with the listener still linked), the resource's user data, and
the commit callback (`committed`). `DeleteContexts` is the destructor.
`DestroyLsh`, `SurfaceGone` and `TearResource` are the three ways into it. The
death of a client destroys its resources one at a time in any order (`dying`,
`Teardown`), with nothing in between. A request that names a head whose output
has just gone crashes the compositor (`GetLayerSurfaceNoOutput`). Commits are modelled as far as they map
the view and take the keyboard; sizes are the subject of `LayerLayout`.

### LayerLayout

`ctx` holds the members set by requests; `configure` is the latest configure
event the client has not handled (it may skip older ones); `dirty` marks
surfaces whose layout or output changed after their last commit. A well-behaved
client answers a configure event with a commit of that size, deciding itself
where the event says zero (`Obey`), or gives up on a size it cannot make
(`Dismiss`). `ToInt` and `ToUint` are the conversions at the protocol's border,
with a modulus in place of 2^32. `WorkAreas` folds `Reserve` over every order of
the map. The area is a `pixman_rectangle32_t`, with signed `x` and `y` and unsigned
`width` and `height`: `Less` and `Moved` are its `-=` and `+=`, which wrap.

### GammaControl

`heap`, `user_data` and `res` are context, pointer and resource. `table` says
whose table is in the hardware. `HasSetGamma` is the test made once, when the
control is created, of what is called much later. The null `head->output` crashes.

### KeyModifierBinds

One seat, one keyboard focus. `Press` and `Release` are `notify_key`: it records
the key, runs the binding if no grab is active and no modifier is down, and then
hands the event to the grab that is current *now*, which is how the press that
starts a grab reaches it and sets `press_time`. `sent` and `sent_im` are what
the last step sent to the focused client and to the input method. An input method
takes the keyboard (`InputMethodGrabs`) and leaves it (`InputMethodLeaves`) at any
time, also while a key waits: it then displaces the grab without cancelling it,
and the object is left behind. `cancelled` is history: a grab was cancelled and
nothing has put the input method back since.

### CompositorManagement

`view_list`, `outputs`, `seats` and `setting` are what the plugin reads of the
compositor, `subscribers` is what it keeps itself. `make_update` makes a
snapshot of those four; `Deliver` appends it to the `inbox` of each receiver,
where it waits until the client reads it (`Receive`), which makes it `known`.
One action stands for each request; the twelve `device_set_...` requests are one
action with the feature as a parameter. A command that sets off a signal sends
the signal's update within the same action: activation always does, a new scale
may. `told` is history: the subscriptions that an update has followed.
`Signal` is the rest of the compositor. Surfaces become mapped and unmapped
without a signal the plugin listens to (`MapView`, `UnmapView`).

### CompositorManager

`ToolSpec` is a `CompositorManagement` in which one manager is the command line
tool and the others, with the environment, are `Others`. `pc` is the place in
`main`, `wire` the requests sent and not yet served: `run_get` follows every
command, so a command is at most two requests, and somebody else's commands and
signals fall before, between and after them. An update from elsewhere could end
the loop if the tool were subscribed; it is not, which is why `CommandVisible`
holds. `interfered` remembers whether the thing the command was about was changed
by somebody else between the two requests.

### LayeredScreenshot

`layers` is the map of `shoot`, `Screenshots` the orders in which it can be
walked, `on_done` the directory of files after the client has handled one. It is
evaluated in every state of `manager_tool`. `SaveLayer` is the inner loop of `on_done`, with the
running number as part of what it carries along.

## 3. Runs

Deadlock is not checked where the system really may stop: the compositor ends or
has crashed, or all bounded changes are used up with nobody owing an answer. It is
checked for `keymod_taps`.

| run | question | instance |
|---|---|---|
| `capabilities` | safety, refinement and termination | 3 addresses (root, child, grandchild), 1 name, 1 set |
| `capabilities_destroy` | fails: a set is deleted once | 2 addresses, 1 name, 1 set |
| `layershell` | tables agree, commits heard, losses announced, who gets the keyboard | 2 clients, 2 surfaces, 2 contexts, 1 head; the layers top, overlay, bottom and an invalid one; symmetric |
| `layershell_overtaken`, `layershell_unlink` | fail: see section 6 | 2 surfaces, 2 contexts |
| `layout_exchange` | configure events and commits: settling with every answer, ending, and at the right size | 1 surface; odd and even output, margins that leave room and less than none |
| `layout_area` | work area | 3 panels at any edges, which together take more than the output |
| `layout_zero` | fails: see section 6 | 1 surface |
| `keymod_taps` | substitute keys, ownership of the grab, the input method | 2 bound keys, 1 of them a modifier, 5 keys, 2 seconds of 6 ticks |
| `gamma_controls` | controls and contexts | 2 clients, 4 controls, 2 heads, symmetric |
| `manager_tool` | updates, subscribers, commands, one answer for each, the tool's loops, screenshots | the tool and 1 other manager; 1 output at 2 places; scales below, at and above 1.0; 2 devices on no seat, one or two; 2 surfaces that share a uid, one of them no desktop surface; 2 layers |
| `management_stale` | fails: see section 6 | the same |

Why the bounds suffice.

* *capabilities.* Reuse of an address, a set that outlives a revocation and a
  client that is not the first need two addresses; delegation through a
  connection that itself delegates needs the third. Names do not interact.
* *layershell.* Two contexts are two on one surface, one on each of two, or one
  after the other was destroyed. One head suffices because contexts of different
  heads share nothing but the focused surface. The bottom layer stands for the
  background, which no condition tells from it.
* *layout.* Requests are independent per axis except in the test of line 231, so
  an instance with one value out of each class (edge sets stretched on no, one,
  both axes; margins odd, negative, too large) covers the branches; `MaxChanges`
  bounds only changes, not answers. Three panels of two units on an output of
  five by four leave less than nothing on either axis, so that the unsigned size
  wraps.
* *keymod_taps.* The units (a millisecond of two nanoseconds, a second of three
  milliseconds, a limit of two) keep the borrow, the rounding and both sides of
  the limit.
* *gamma_controls.* A control that failed, one that is in order, and one for each
  way a context is deleted, with and without gamma support.
* *manager_tool.* `MaxChanges`, here 2, bounds the signals and the commands of
  other managers, and nothing else: the tool's requests, subscriptions, arrivals,
  departures and deliveries are free. Two changes are what it takes to fall on
  both sides of a request, to plug a device and unplug another (which moves an
  index) before a command that names one, and to remove an output and bring it back.

The theorems of section 5 remove these bounds for every safety property that a
passing run checks. What the runs show and the theorems do not is that the
liveness properties hold, and, in the runs that fail, what does not hold.

## 4. Fairness and assumptions

* `WF_vars(Terminate)` in `Capabilities`: `weston_compositor_exit` makes the
  event loop return after the batch it is in.
* `WF_vars(Teardown)` in `LayerShell`: the loop of `wl_client_destroy` runs to
  its end. No property needs more.
* `WF_vars(Answer(k))` in `LayerLayout`: a client handles a configure event some
  time. It is an assumption about clients, stated by the protocol, and is what
  "the exchange comes to rest" means. Commits of the client's own accord are not
  fair and bounded.
* `WF_vars(Serve)` and `WF_vars(OnUpdate)` in `CompositorManager`: the
  compositor's event loop reads the requests of each client that has sent any,
  and the tool's loops (compositor-manager.cpp:308, 321) dispatch what has
  arrived. Without the first a command need not be answered, without the second
  the answer need not be read. Nothing is assumed of the user, who may interrupt
  at any time, of other managers or of signals.
* Updates to one client arrive in order and complete: they are events on one
  socket.
* Clients use libwayland, so nothing is sent on an object after its destroy
  request (`Usable`).
* `LayerShell` has a seat. `CompositorManagement` has those it starts with:
  devices come and go, seats do not.
* A setting that the device can take is taken (libinput does not fail), and a
  device that is plugged in starts with its defaults.
* The sums of sizes and margins in `position` and `next_size` do not overflow 32
  bits. Of exclusive zones nothing is assumed: they are any `int32_t`, and the work
  area wraps as `uint32_t` does; its `x` and `y` wrap as they are compiled, though
  signed overflow is undefined in C++. An output is smaller than 2^31.
* The desktop shell's work area hook is called with a real output.

## 5. Proofs

All proofs hold for every value of the constants.

`CapabilitiesProofs`. `Inv` is the conjunction of the type invariant and the four
safety invariants of `capabilities`. It is inductive as it stands because
the history variables make the invariants strong enough: that an entry is within
`minted` and `minted` within `known_caps` is what the first client's bind needs
(`EntryKnown`: replacing its entry by the snapshot loses nothing, so sets it has
are still within it), and that a set is within its owner or what was revoked
from it survives revocation. There is one lemma per conjunct (`TypeStep`,
`ConservedStep`, `OwnerStep`, `CleanupStep`, `VipStep`), with one step per action.
`TypeCorrect`, `Conservation`, `Attenuation`, `Cleanup` and `Guarding` state the
results.

`Refinement`: the plugin implements the safety part of
`CapabilityCustody` under the mapping of `Capabilities`. It needs one more
invariant, `VipArrived`: there is an important client only after it arrived, and
the exit is requested only by its death. Each action maps to one abstract
action: connections, delegation, revocation and ordinary deaths to `Withdraw`,
the important client's death to `CustodianDies`, an abort to `Abort`.

`LayerShellProofs`. `Inv` is the type invariant, `TablesAgree`, `HearsCommits`,
`OutputLossAnnounced` and `Watched`: a context with a head is still linked to its
output or was sent closed. `Watched` is what a lost output needs, since only those
that are linked are told. `DeleteStep` is about the destructor, whichever contexts
it is run for, and serves all four ways into it: it leaves alone what the other
contexts need as long as their resource and surface stay. `OnlyIfAsked` and
`YieldsToTopmost` follow for every step that moves the keyboard; the second needs
`TablesAgree`, because the binding looks at `lsh_views` and the property at what
is allocated.

`LayerLayoutProofs`. `StretchedInside`: on an axis with both edges anchored, a
surface of the size `next_size` asks for lies inside the output whenever the
margins are not negative and fit, although the position is computed from four
halves rounded on their own. `SizeSettles`: a surface that has the size asked
for is asked for the same size again, so one obedient commit ends the exchange
when that size can be sent. `TypeCorrect` and `StretchedIsWithin` carry this over
to any number of surfaces and any sequence of requests, commits and resizes.
`StretchedWithinOutput` speaks of surfaces whose last commit is up to date; the
invariant behind it is `Settled`: such a surface stands where `position` puts it.

`AnswersDo` is the part of `ExchangeEnds` that does not need fairness.
`AnswersSettle` gives the exchange a distance from its end: 0 without an event
to answer, 1 if the event says what the layout asks for now, 2 if it is out of
date. Every answer lowers it. The answer to an event that is out of date meets
the right one, or none; the answer to the right one leaves a size for which
`next_size` gives the same again (`AxisSettles`), because what the client was
free to choose is what it is asked for from then on, and a negative size, which
arrives as one above half of the modulus, can only be dismissed. The condition
`Sendable` excludes what `layout_zero` shows to go on for ever: a stretched axis on
which nothing is left, so that the client is left to choose where the layout is
not. It also says that the size left is an `int32_t`, as sizes do not overflow.

`AreaIsExact` is `WorkAreaExact`. `Reserve` computes modulo 2^32 what `Left` computes
without limit, and `Kept` is what is left of an unlimited rectangle in a limited
one. `Wraps`: it does not matter whether numbers are limited before or after a sum
(`Conversions` and `SameRemainder` are the arithmetic). So `ReserveShares`: `Reserve`
takes from a limited area a share at each edge, zero unless the context is docked
there with a positive zone, modulo 2^32. `TakenIsSum`: the community modules' sum
over the docked surfaces is one in which each element counts once whatever order
it is summed in. `AreaOfOrder`: after the first `i` elements of any order, the area
is what is kept of what the sums over those leave, and so at the end the same in
every order. `KeptRest`: on an axis where the zones fit, what is kept is what is
left. The other axis is not touched by one that wraps. `ShownFinite` says that there
are finitely many surfaces at any time, without which there would be no order to
walk them in.

`Inductions`. The library states induction over a predicate, which is an operator
and out of the provers' reach. Here it is stated over sets: a set that has 0 and
the successors of its members has every natural (`NaturalInduction`, from the
well-foundedness of `<`), and in the same way for sequences that grow at their end
and for the subsets of a finite set. `FoldExists` says that the recursive functions
behind `FoldLeft` and `MapThenSumSet`, which the community modules `CHOOSE`, exist;
`FoldType` that their values are where they should be; `SumOrder` that a sum does not
depend on which element is taken first; `FoldSteps` that a fold over a sequence
passes through its prefixes.

`GammaControlProofs`. `Pointers`: `PointersAgree` for any number of clients,
controls and heads. It needs `FailedDetached`: a control that failed has lost its
context and keeps its resource, so that a failed control is neither revived nor
counted as free. `InertAfterFailure`: `FailedIsInert`, an action property that
follows from the same invariant. `DeleteStep` treats the four ways into the
destructor at once.

`KeyModifierBindsProofs`. `Exact`: `timespec_sub` of any two normalised times is
normalised and exact, so the borrow of line 21 is right for every pair.
`Milliseconds`: `timespec_to_msec` rounds down. From both, `Elapsed`: what line 54
compares with the limit is the time that went by. The invariant is `TypeOK`,
`GrabOwned`, `InputMethodKept` and `Pending`: a grab is active exactly while the history waits on
the press that started it, and carries that press's key and time. It is
inductive with one lemma per kind of step (`StartStep`, `PassStep`, `EndStep`).
`Owned` is `GrabOwned`; `ExactlyTaps` and `Delivered` are the action properties of
`keymod_taps`. `Kept` is `InputMethodKept`: line 75 asks for
the input method when the grab ends, so that neither its arrival nor its departure
during a grab is missed.

`CompositorManagementProofs`. `Inv` is `ServerOK` (the part of the type invariant
about the compositor) and `MailInv`: the types of the mail, `SubscribersAlive`,
`SubscribersCurrent` and `ToldSubscribed`, which says that who counts as told is
still subscribed. Without that the invariant is not inductive: somebody counted
as told but not subscribed would miss the next update. The argument splits at
`Deliver`: `Delivered` says that sending the present state to all subscribers of
the topic that changed keeps `MailInv` whatever the state has become (`Sent`), and
`Unsent` that sending nothing keeps it if outputs and devices stay. Every command
and signal is an instance of one or the other. `Right` is the action property
`RightDevice`: line 324 counts in the lists there are now, and by
`SubscribersCurrent` those are what a subscriber sees that has nothing left to read
(`SeenDevice`), whatever was plugged in or out before.

`ScreenshotComplete` is `EveryViewSaved`, for lists of views of any length. `InConcat`:
the views of a layer in two lists are those in the first followed by those in
the second. `SaveLayerAppends`: saving a layer puts its views after what was saved so
far, since the counter is where that ends. `SaveProgress`: after the first `i`
layers of any order the counter is the number of places in the view list that
belong to those layers, and the files hold, of each of these layers, the views in
the list's order, and nothing of the others. Of all layers, that is the length
of the list. A counter that starts at zero for each layer breaks the second step.

`CompositorManagerProofs`. `ToolIsAManager`: `ToolSpec => Spec`, so every theorem of
`CompositorManagementProofs` holds with the tool running. The invariant `WireOK`
says that requests are on the wire only while the tool is bound, which is what
makes each `Serve` a step of a bound manager. `Visible` is `CommandVisible`, by the
invariant `Phase`: as long as the tool waits, its inbox is empty until its `get` is
served, because it is subscribed to nothing (`OthersFrame`); after the command
and before the `get`, the state shows the effect unless somebody interfered; and
after the `get` the inbox holds exactly one update, which shows it. `ScaleEffect`
and `ScrollEffect` are about the two commands. `OneAnswer` follows from `Phase` too:
`OneAnswerToCome` is the part of `CommandEnds` that does not need fairness, that a
tool that waits has an answer to wait for, and no other update in its place.

Constants are constrained by the `ASSUME` of each module and nothing else: sets of
names, heads and keys may be of any size, `Modulus` is any even number, the
units of time are any positive numbers.

Only model-checked: liveness (the fairness part of `ImplementsCustody`,
`ExchangeEnds`, `RestsAsAsked`, `CommandEnds`, `WatchCatchesUp`), since TLAPS does not
prove liveness under fairness. What the two of the exchange and the last two rest
on is proved: `AnswersSettle`, `OneAnswerToCome` and `SubscribersCurrent`.

## 6. What the code does differently

In these places the program does not do what its protocol files or its own code
lead one to expect. For the first five TLC finds the behaviour in the run named.
The others have no run: those marked "in" are in a module as the code has them,
and the code does them in every behaviour that gets there; those marked "out" were
met while reading and are in no module.

| run, or whether modelled | code | what happens |
|---|---|---|
| `capabilities_destroy` | capabilities.cpp:124 | `cs_destroy` deletes the set and leaves the resource pointing to it; the disconnection deletes it again |
| `layershell_unlink` | layer-shell.cpp:152 | after `closed`, destroying the layer surface as told unlinks a listener from a freed output |
| `layershell_overtaken` | layer-shell.cpp:239 | a commit in the top layer takes the keyboard from the overlay layer |
| `layout_zero` | layer-shell.cpp:231 | with margins that use up the output exactly, configure events and commits alternate for ever |
| `management_stale` | compositor-management.cpp:46 | subscribers of surfaces are told of a surface before it has a view, and not when it is mapped or unmapped |
| in | layer-shell.cpp:189 | a closed layer surface can be mapped again by a commit, although further changes "will be ignored" (wlr-layer-shell-unstable-v1.xml:266) |
| in | layer-shell.cpp:85 | naming a head whose output has just gone crashes the compositor |
| in | layer-shell.cpp:107 | a surface anchored to neither edge of an axis is centred like one anchored to both, margins included |
| in | layer-shell.cpp:116 | margins of edges that are not anchored move the surface |
| in | layer-shell.cpp:272 | exclusive zones apply without a commit |
| in | layer-shell.cpp:377 | panels whose zones exceed the output leave the desktop an unsigned size just below 2^32 |
| in | capabilities.cpp:109 | a client at the address of one that was spawned and never bound the global finds its capabilities |
| in | key-modifier-binds.cpp:92 | a cancelled grab leaves the keyboard with the default grab, also with an input method |
| in | key-modifier-binds.cpp:31 | the grab object is left behind when an input method takes the keyboard while a key waits |
| in | gamma-control.cpp:91 | several controls per output |
| in | gamma-control.cpp:24 | the table is not restored |
| out | compositor-management.cpp:104 | the click methods shown of a device are computed from its scroll methods |
| in | compositor-management.cpp:251 | a uid is an address modulo a million: two surfaces can share one, and activation (line 407) takes the first view that has it |
| out | compositor-management.cpp:261 | the primary output of a surface without an output is shown as 0, which is also an output's id |
| out | compositor-management.cpp:46 | no signal is listened to for heads that come and go without an output, or for new seats |
| in | compositor-management.cpp:409 | activating a surface without a seat or without the desktop shell's API crashes |
| in | compositor-manager.cpp:220 | outputs, heads and surfaces are printed inside the loop over seats: once per seat, and never without one |
| in | compositor-manager.cpp:308 | the loop does not notice that the connection has ended |
| out | layered-screenshot.cpp:47 | the order of every layer is sent as 0, so the client cannot restore it |

## 7. Plan

Done: the modules of section 2. What is left, in order of worth:

1. `Compositor`: `Capabilities` and `LayerShell` composed. A client's layer is
   decided by what it holds when it asks; revocation does not move it. Abstract
   specification: layers are only ever given to clients that held the name.
2. Several seats in `LayerShell` and a compositor without one; the desktop
   shell's own binding as a separate step; seats that come and go in
   `CompositorManagement`.

### Not modelled, and why

* The FlatBuffers encoding (`schemas/` and the code generated from it), WebP
  output and the printing in the client tools keep no state and decide nothing.
  That everything is printed in the loop over seats is modelled, as `Printed`.
* The values libinput reports of a device: one setting per setter request stands
  for them.
* What fails below the plugin without being looked at: `shm_open`, `ftruncate`,
  `mmap` and `write` of an update or a screenshot.
* Handlers without an effect: `get_popup` and `ack_configure` of a layer surface,
  `destroy` of the gamma manager; the grab's modifiers handler, which passes its
  arguments on.
