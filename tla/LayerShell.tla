----------------------------- MODULE LayerShell -----------------------------
(***************************************************************************)
(* Life cycle and keyboard focus of layer surfaces (layer-shell.cpp).      *)
(*                                                                         *)
(* A layer surface is an lsh_context tied to four things that die in any   *)
(* order: the wl_surface whose role it is, the protocol resource through   *)
(* which the client speaks of it, the view it adds to the scene, and the   *)
(* output its client named.  A context k of Ctxs stands for the object, its*)
(* view and its resource, which are created together; what is still alive  *)
(* of them, and which tables still point to them, is the state.            *)
(*                                                                         *)
(* libweston and the desktop shell are modelled from how this plugin uses  *)
(* them.  When a client dies its resources are destroyed one by one in an  *)
(* order the plugin does not control; nothing else runs in between.        *)
(***************************************************************************)
EXTENDS Naturals, FiniteSets

CONSTANTS Clients,
          Surfaces,  \* wl_surface objects; reused after they are destroyed
          Ctxs,      \* lsh_context objects with their view and resource
          Heads,     \* weston_head objects a client can name as wl_output
          Layers,    \* layers the clients ask for
          Desktop,   \* any surface of the desktop shell
          None       \* the null pointer

LayerNames == {"background", "bottom", "top", "overlay"}

ASSUME DistinctNames ==
    /\ None \notin Clients \cup Surfaces \cup Ctxs \cup Heads \cup {Desktop}
    /\ Desktop \notin Surfaces \cup Ctxs

VARIABLES running,      \* FALSE once the compositor has crashed
          shell,        \* clients with a zwlr_layer_shell_v1 resource
          owner,        \* of a wl_surface; None if there is no such surface
          role,         \* of a wl_surface
          committed,    \* surface->committed_private; None also stands for no callback
          heap,         \* contexts that are allocated
          lsh_views,    \* contexts that have an entry in the map
          listening,    \* contexts whose surface_destroy_listener is linked
          user_data,    \* contexts their resource points to
          res,          \* the client that has the resource; None if it is gone
          ctx,          \* the members of a context that requests set
          mapped,       \* contexts whose view is mapped
          watching,     \* contexts whose output_destroy_listener is linked
          stale,        \* ... is still linked into the list of a dead output
          up,           \* heads that have an output
          closed,       \* contexts that were sent the closed event
          focus,        \* the surface that has the keyboard
          dying,        \* the client whose resources are being destroyed
          shared,       \* history: surfaces with several contexts at a time
          stale_unlink  \* history: a listener was unlinked from freed memory

tables == <<heap, lsh_views, listening, user_data, watching, stale>>
clients == <<shell, dying>>
surfaces == <<owner, role, committed>>
outputs == <<up, closed>>
history == <<running, shared, stale_unlink>>
vars == <<running, shell, owner, role, committed, tables, res, ctx, mapped,
          up, closed, focus, dying, shared, stale_unlink>>

NoCtx == [surface |-> None, head |-> None, layer |-> "top", interactive |-> FALSE]

TypeOK ==
    /\ running \in BOOLEAN
    /\ shell \subseteq Clients
    /\ owner \in [Surfaces -> Clients \cup {None}]
    /\ role \in [Surfaces -> {"none", "layer-shell", "other"}]
    /\ committed \in [Surfaces -> Ctxs \cup {None}]
    /\ heap \subseteq Ctxs
    /\ lsh_views \subseteq Ctxs
    /\ listening \subseteq Ctxs
    /\ user_data \subseteq Ctxs
    /\ res \in [Ctxs -> Clients \cup {None}]
    /\ ctx \in [Ctxs -> [surface : Surfaces \cup {None}, head : Heads \cup {None},
                         layer : LayerNames, interactive : BOOLEAN]]
    /\ mapped \subseteq Ctxs
    /\ watching \subseteq Ctxs
    /\ stale \subseteq Ctxs
    /\ up \subseteq Heads
    /\ closed \subseteq Ctxs
    /\ focus \in Surfaces \cup {Desktop, None}
    /\ dying \in Clients \cup {None}
    /\ shared \subseteq Surfaces
    /\ stale_unlink \in BOOLEAN

Init ==
    /\ running = TRUE
    /\ shell = {}
    /\ owner = [s \in Surfaces |-> None]
    /\ role = [s \in Surfaces |-> "none"]
    /\ committed = [s \in Surfaces |-> None]
    /\ heap = {} /\ lsh_views = {} /\ listening = {} /\ user_data = {}
    /\ res = [k \in Ctxs |-> None]
    /\ ctx = [k \in Ctxs |-> NoCtx]
    /\ mapped = {} /\ watching = {} /\ stale = {}
    /\ up = Heads
    /\ closed = {}
    /\ focus = None
    /\ dying = None
    /\ shared = {}
    /\ stale_unlink = FALSE

Serving == running /\ dying = None
ContextsOf(s) == {k \in heap : ctx[k].surface = s}

-----------------------------------------------------------------------------
(* Construction *)

(* bind_shell, for a client that passes the capability check *)
BindShell(c) ==
    /\ Serving
    /\ shell' = shell \cup {c}
    /\ UNCHANGED <<history, surfaces, tables, res, ctx, mapped, outputs, focus, dying>>

(* wl_compositor.create_surface; "other": another role follows at once *)
CreateSurface(c, s, r) ==
    /\ Serving
    /\ owner[s] = None
    /\ owner' = [owner EXCEPT ![s] = c]
    /\ role' = [role EXCEPT ![s] = r]
    /\ UNCHANGED <<history, clients, committed, tables, res, ctx, mapped, outputs, focus>>

(* Mutant: the bound check on the layer is off by one. *)
RefusedByRole(s, layer) == role[s] = "other"

Refused(s, layer) == layer \notin LayerNames \/ role[s] = "other"

(* may: the client holds the "layer-shell-overlay" capability *)
GrantedLayer(layer, may) == IF layer = "overlay" /\ ~may THEN "top" ELSE layer

(* Mutant: the callback is set together with the role, once per surface. *)
CommittedWithRole(s, k) ==
    IF role[s] = "none" THEN [committed EXCEPT ![s] = k] ELSE committed

CommittedTo(s, k) == [committed EXCEPT ![s] = k]

(* get_layer_surface and the constructor of lsh_context, for no head or one *)
(* that has an output                                                       *)
GetLayerSurface(c, s, k, h, layer, may) ==
    /\ Serving
    /\ c \in shell
    /\ owner[s] = c
    /\ ~Refused(s, layer)
    /\ res[k] = None
    /\ h \in up \cup {None}
    /\ role' = [role EXCEPT ![s] = "layer-shell"]
    /\ ctx' = [ctx EXCEPT ![k] = [surface |-> s, head |-> h, interactive |-> FALSE,
                                  layer |-> GrantedLayer(layer, may)]]
    /\ heap' = heap \cup {k}
    /\ lsh_views' = lsh_views \cup {k}
    /\ listening' = listening \cup {k}
    /\ watching' = IF h = None THEN watching ELSE watching \cup {k}
    /\ committed' = CommittedTo(s, k)
    /\ res' = [res EXCEPT ![k] = c]
    /\ user_data' = user_data \cup {k}
    /\ shared' = IF ContextsOf(s) = {} THEN shared ELSE shared \cup {s}
    /\ UNCHANGED <<running, clients, owner, mapped, stale, outputs, focus, stale_unlink>>

(* The output went while the request that names its head was on its way:    *)
(* the constructor takes a member of the null output (85) and crashes.      *)
GetLayerSurfaceNoOutput(c, s, h, layer) ==
    /\ Serving
    /\ c \in shell
    /\ owner[s] = c
    /\ ~Refused(s, layer)
    /\ h \notin up
    /\ role' = [role EXCEPT ![s] = "layer-shell"]
    /\ running' = FALSE
    /\ UNCHANGED <<clients, owner, committed, tables, res, ctx, mapped, outputs, focus,
                   shared, stale_unlink>>

(* A protocol error or a closed connection: wl_client_destroy begins. *)
ClientDies(c) ==
    /\ dying' = c
    /\ UNCHANGED <<history, shell, surfaces, tables, res, ctx, mapped, outputs, focus>>

GetLayerSurfaceRefused(c, s, layer) ==
    /\ Serving
    /\ c \in shell
    /\ owner[s] = c
    /\ Refused(s, layer)
    /\ ClientDies(c)

Disconnect(c) == Serving /\ ClientDies(c)

-----------------------------------------------------------------------------
(* Destruction *)

(* Mutant: the destructor leaves the listener on the surface. *)
StillListening(K) == listening

Unlinked(K) == listening \ K

SurfacesOf(K) == {ctx[k].surface : k \in K}

(* weston_surface_unmap unmaps all views of the surface. *)
Unmapped(K) == {k \in mapped : ctx[k].surface \in SurfacesOf(K)}

(* ~lsh_context of every context in K.  Unlinking from the list of a dead  *)
(* output writes to freed memory: the compositor crashes or goes on.       *)
DeleteContexts(K) ==
    /\ heap' = heap \ K
    /\ lsh_views' = lsh_views \ K
    /\ listening' = Unlinked(K)
    /\ user_data' = user_data \ K
    /\ watching' = watching \ K
    /\ stale' = stale \ K
    /\ closed' = closed \ K
    /\ ctx' = [k \in Ctxs |-> IF k \in K THEN NoCtx ELSE ctx[k]]
    /\ mapped' = mapped \ Unmapped(K)
    /\ committed' = [s \in Surfaces |->
                       IF s \in SurfacesOf(K) THEN None ELSE committed[s]]
    /\ shared' = {s \in shared : ContextsOf(s) \ K # {}}
    /\ stale_unlink' = (stale_unlink \/ K \cap stale # {})
    /\ \/ running' = running
       \/ K \cap stale # {} /\ running' = FALSE

(* The keyboard leaves a surface when a mapped view of it is unmapped. *)
FocusWithout(K) == IF focus \in SurfacesOf(Unmapped(K)) THEN None ELSE focus

(* destroy_lsh: the context goes, the resource stays without user data *)
DestroyLsh(k) ==
    /\ Serving
    /\ k \in user_data
    /\ DeleteContexts({k})
    /\ focus' = FocusWithout({k})
    /\ UNCHANGED <<clients, owner, role, res, up>>

(* on_surface_gone in every context that listens; then libweston destroys  *)
(* the surface, and the keyboard leaves it.                                *)
SurfaceGone(s) ==
    /\ owner' = [owner EXCEPT ![s] = None]
    /\ role' = [role EXCEPT ![s] = "none"]
    /\ DeleteContexts({k \in listening : ctx[k].surface = s})
    /\ focus' = IF focus = s THEN None ELSE focus
    /\ UNCHANGED <<clients, res, up>>

DestroySurface(s) ==
    /\ Serving
    /\ owner[s] # None
    /\ SurfaceGone(s)

-----------------------------------------------------------------------------
(* wl_client_destroy, one resource of the client at a time *)

TearSurface(s) ==
    /\ running
    /\ dying # None
    /\ owner[s] = dying
    /\ SurfaceGone(s)

(* Mutant: the context is left to its surface. *)
LeftToSurface(k) == {}

DeletedWith(k) == {k} \cap user_data

(* lsh_destructor *)
TearResource(k) ==
    /\ running
    /\ dying # None
    /\ res[k] = dying
    /\ res' = [res EXCEPT ![k] = None]
    /\ DeleteContexts(DeletedWith(k))
    /\ focus' = FocusWithout(DeletedWith(k))
    /\ UNCHANGED <<clients, owner, role, up>>

TearDone ==
    /\ running
    /\ dying # None
    /\ dying \notin {owner[s] : s \in Surfaces} \cup {res[k] : k \in Ctxs}
    /\ shell' = shell \ {dying}
    /\ dying' = None
    /\ UNCHANGED <<history, surfaces, tables, res, ctx, mapped, outputs, focus>>

-----------------------------------------------------------------------------
(* Outputs *)

(* Mutant: only what is on the screen is closed. *)
AnnouncedMapped(h) == {k \in watching \cap mapped : ctx[k].head = h}

Announced(h) == {k \in watching : ctx[k].head = h}

(* on_output_gone: the listener stays linked, the head stays set *)
OutputGone(h) ==
    /\ Serving
    /\ h \in up
    /\ up' = up \ {h}
    /\ closed' = closed \cup Announced(h)
    /\ watching' = {k \in watching : ctx[k].head # h}
    /\ stale' = stale \cup {k \in watching : ctx[k].head = h}
    /\ UNCHANGED <<history, clients, surfaces, heap, lsh_views, listening, user_data, res, ctx, mapped, focus>>

OutputBack(h) ==
    /\ Serving
    /\ h \notin up
    /\ up' = up \cup {h}
    /\ UNCHANGED <<history, clients, surfaces, tables, res, ctx, mapped, closed, focus>>

-----------------------------------------------------------------------------
(* Keyboard focus *)

SetKeyboardInteractivity(k, v) ==
    /\ Serving
    /\ k \in user_data
    /\ ctx' = [ctx EXCEPT ![k].interactive = v]
    /\ UNCHANGED <<history, clients, surfaces, tables, res, mapped, outputs, focus>>

(* The view is put on its head's output, else on one libweston picks, which *)
(* may be none.                                                            *)
MayHaveOutput(k, has) == ctx[k].head \in up => has

(* committed_callback of surface s: the view is mapped, and a surface above *)
(* the desktop that wants the keyboard takes it.  Geometry is the subject   *)
(* of LayerGeometry.                                                       *)
Commit(s, has) ==
    LET k == committed[s]
    IN /\ Serving
       /\ k # None
       /\ MayHaveOutput(k, has)
       /\ mapped' = mapped \cup {k}
       /\ focus' = IF has /\ ctx[k].layer \in {"top", "overlay"} /\ ctx[k].interactive
                   THEN s ELSE focus
       /\ UNCHANGED <<history, clients, surfaces, tables, res, ctx, outputs>>

Interactive(layer) == {k \in lsh_views : ctx[k].interactive /\ ctx[k].layer = layer}

(* Mutant: one pass over the map instead of one for each layer. *)
OnePass == Interactive("overlay") \cup Interactive("top")

(* refocus_topmost_interactive_surface takes the first match in the order   *)
(* of an unordered map: any of these.                                      *)
Topmost == IF Interactive("overlay") # {} THEN Interactive("overlay")
           ELSE Interactive("top")

(* Mutant: the click is enough. *)
TakesAnyClick(target) == IF target = Desktop THEN Desktop ELSE ctx[target].surface

TakesClick(target) ==
    CASE target = Desktop -> Desktop
      [] target # Desktop /\ ctx[target].interactive -> ctx[target].surface
      [] OTHER -> focus

(* click_to_activate_binding and touch_to_activate_binding, together with   *)
(* the desktop shell's own binding, which runs before them.  The target is  *)
(* a mapped view of this plugin or a surface of the desktop.               *)
Activate(target) ==
    /\ Serving
    /\ target \in mapped \cup {Desktop}
    /\ \/ \E k \in Topmost : focus' = ctx[k].surface
       \/ Topmost = {} /\ focus' = TakesClick(target)
    /\ UNCHANGED <<history, clients, surfaces, tables, res, ctx, mapped, outputs>>

(* The desktop shell moves the keyboard for reasons of its own. *)
DesktopFocus ==
    /\ Serving
    /\ focus' = Desktop
    /\ UNCHANGED <<history, clients, surfaces, tables, res, ctx, mapped, outputs>>

-----------------------------------------------------------------------------
Request(c) ==
    \/ BindShell(c)
    \/ \E s \in Surfaces, r \in {"none", "other"} : CreateSurface(c, s, r)
    \/ \E s \in Surfaces, k \in Ctxs, h \in Heads \cup {None}, layer \in Layers,
          may \in BOOLEAN : GetLayerSurface(c, s, k, h, layer, may)
    \/ \E s \in Surfaces, h \in Heads, layer \in Layers :
          GetLayerSurfaceNoOutput(c, s, h, layer)
    \/ \E s \in Surfaces, layer \in Layers : GetLayerSurfaceRefused(c, s, layer)
    \/ Disconnect(c)

OnContext(k) ==
    \/ DestroyLsh(k)
    \/ \E v \in BOOLEAN : SetKeyboardInteractivity(k, v)

OnSurface(s) ==
    \/ DestroySurface(s)
    \/ \E has \in BOOLEAN : Commit(s, has)

Teardown ==
    \/ \E s \in Surfaces : TearSurface(s)
    \/ \E k \in Ctxs : TearResource(k)
    \/ TearDone

Environment ==
    \/ \E h \in Heads : OutputGone(h) \/ OutputBack(h)
    \/ \E target \in Ctxs \cup {Desktop} : Activate(target)
    \/ DesktopFocus

Next ==
    \/ \E c \in Clients : Request(c)
    \/ \E k \in Ctxs : OnContext(k)
    \/ \E s \in Surfaces : OnSurface(s)
    \/ Teardown
    \/ Environment

(* The loop that destroys a client's resources runs to its end. *)
Spec == Init /\ [][Next]_vars /\ WF_vars(Teardown)

-----------------------------------------------------------------------------
(* In whatever order surface, resource and client go, nobody is left with a *)
(* pointer to a deleted context, and a context never outlives what its      *)
(* destructor touches (145-166): the map, the listener on the surface and   *)
(* the user data point exactly to the allocated contexts, so no context is  *)
(* deleted twice; each of these has its resource and its surface; and a     *)
(* commit (187) finds an allocated context of the committed surface.        *)
TablesAgree ==
    /\ lsh_views = heap /\ listening = heap /\ user_data = heap
    /\ watching \cup stale \cup mapped \cup closed \subseteq heap
    /\ \A k \in heap : /\ res[k] # None
                      /\ ctx[k].surface \in Surfaces
                      /\ owner[ctx[k].surface] = res[k]
    /\ \A s \in Surfaces : committed[s] # None => committed[s] \in ContextsOf(s)

(* A layer surface reacts to the commits of its wl_surface (91-92) until it *)
(* is destroyed, unless the client gave the wl_surface a second one: then   *)
(* the newest is heard, and after either is destroyed (163-164) neither.    *)
HearsCommits ==
    \A k \in heap : ctx[k].surface \in shared \/ committed[ctx[k].surface] = k

(* Every layer surface whose output went away was told that it is closed    *)
(* (175), whether or not it was ever mapped, and also when the head got     *)
(* another output in between.                                              *)
OutputLossAnnounced ==
    \A k \in heap : ctx[k].head \in Heads \ up => k \in closed

(* The keyboard is given only to surfaces that have a layer surface that    *)
(* asked for it, by a commit (241), a click or a touch (420, 434), and only *)
(* while it exists.                                                        *)
FocusOnlyIfAsked ==
    [][focus' # focus /\ focus' \in Surfaces =>
         \E k \in ContextsOf(focus') : ctx[k].interactive]_vars

Wants(layer) == {k \in heap : ctx[k].layer = layer /\ ctx[k].interactive}

(* After a click or a touch on any view, the plugin's or not, while no grab *)
(* is active (the bindings return at 415 and 429 otherwise), the keyboard   *)
(* belongs to the topmost layer above the desktop with an interactive       *)
(* surface, as the plugin's binding runs after the desktop shell's          *)
(* (396-397).                                                              *)
ClickYieldsToTopmost ==
    [][(\E target \in Ctxs \cup {Desktop} : Activate(target)) =>
         /\ Wants("overlay") # {} => focus' \in SurfacesOf(Wants("overlay"))
         /\ Wants("overlay") = {} /\ Wants("top") # {} =>
                focus' \in SurfacesOf(Wants("top"))]_vars

-----------------------------------------------------------------------------
(* What the protocol description says and the plugin does not do *)

(* "For layers above the shell surface layers, the seat will always give    *)
(* exclusive keyboard focus to the top-most layer which has keyboard        *)
(* interactivity set to true" (wlr-layer-shell-unstable-v1.xml:181-183): a  *)
(* mapped overlay surface that has the keyboard and wants it does not lose  *)
(* it to a surface of a lower layer.  committed_callback does not look at   *)
(* other surfaces.                                                         *)
TopmostKeepsFocus ==
    [][\A k \in heap \cap mapped :
         /\ focus = ctx[k].surface /\ committed[focus] = k
         /\ ctx[k].interactive /\ ctx[k].layer = "overlay"
         => focus' = focus \/
            focus' \notin {ctx[j].surface : j \in {i \in heap : ctx[i].layer # "overlay"}}]_vars

(* "The client should destroy the resource after receiving this event"      *)
(* (wlr-layer-shell-unstable-v1.xml:267): doing so is safe.                 *)
SafeDestroyAfterClosed == ~stale_unlink

=============================================================================
