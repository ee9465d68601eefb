-------------------------- MODULE LayerShellProofs --------------------------
(***************************************************************************)
(* Proofs about the life cycle and the keyboard focus of layer surfaces,   *)
(* for any number of clients, surfaces, contexts and heads.                *)
(***************************************************************************)
EXTENDS LayerShell, TLAPS

(* A context with a head is told of the output's end, or was told already. *)
Watched == \A k \in heap : ctx[k].head # None => k \in watching \cup closed

Inv == TypeOK /\ TablesAgree /\ HearsCommits /\ OutputLossAnnounced /\ Watched

-----------------------------------------------------------------------------
(* The destructor *)

(* Whichever contexts are deleted, those that stay keep what they need if   *)
(* their resource and their surface stay.                                  *)
LEMMA DeleteStep ==
    ASSUME Inv, NEW K \in SUBSET heap, DeleteContexts(K),
           res' \in [Ctxs -> Clients \cup {None}],
           owner' \in [Surfaces -> Clients \cup {None}],
           role' \in [Surfaces -> {"none", "layer-shell", "other"}],
           focus' \in Surfaces \cup {Desktop, None},
           UNCHANGED <<clients, up>>,
           \A k \in heap \ K : /\ res'[k] = res[k]
                               /\ owner'[ctx[k].surface] = owner[ctx[k].surface]
    PROVE  Inv'
<1> USE DistinctNames
<1>1. /\ heap' = heap \ K /\ lsh_views' = lsh_views \ K /\ listening' = listening \ K
      /\ user_data' = user_data \ K /\ watching' = watching \ K /\ stale' = stale \ K
      /\ closed' = closed \ K /\ mapped' = mapped \ Unmapped(K)
      /\ ctx' = [k \in Ctxs |-> IF k \in K THEN NoCtx ELSE ctx[k]]
      /\ committed' = [s \in Surfaces |->
                         IF s \in SurfacesOf(K) THEN None ELSE committed[s]]
      /\ shared' = {s \in shared : ContextsOf(s) \ K # {}}
      /\ stale_unlink' \in BOOLEAN /\ running' \in BOOLEAN
  BY DEF DeleteContexts, Unlinked, Inv, TypeOK
<1>2. \A k \in heap' : k \in heap \ K /\ ctx'[k] = ctx[k] /\ k \in Ctxs
  BY <1>1 DEF Inv, TypeOK
<1>3. TypeOK'
  BY <1>1 DEF Inv, TypeOK, clients, NoCtx, LayerNames
<1>4. TablesAgree'
  <2>1. lsh_views' = heap' /\ listening' = heap' /\ user_data' = heap'
    BY <1>1 DEF Inv, TablesAgree
  <2>2. watching' \cup stale' \cup mapped' \cup closed' \subseteq heap'
    BY <1>1 DEF Inv, TablesAgree, Unmapped, SurfacesOf
  <2>3. \A k \in heap' : /\ res'[k] # None
                         /\ ctx'[k].surface \in Surfaces
                         /\ owner'[ctx'[k].surface] = res'[k]
    BY <1>2 DEF Inv, TablesAgree
  <2>4. ASSUME NEW s \in Surfaces, committed'[s] # None
        PROVE  committed'[s] \in ContextsOf(s)'
    <3>1. s \notin SurfacesOf(K) /\ committed'[s] = committed[s]
      BY <1>1, <2>4
    <3>2. committed[s] \in heap /\ ctx[committed[s]].surface = s
      BY <2>4, <3>1 DEF Inv, TablesAgree, ContextsOf
    <3>3. committed[s] \notin K
      BY <3>1, <3>2 DEF SurfacesOf
    <3> QED
      BY <1>1, <1>2, <3>1, <3>2, <3>3 DEF ContextsOf
  <2> QED
    BY <2>1, <2>2, <2>3, <2>4 DEF TablesAgree
<1>5. HearsCommits'
  <2> SUFFICES ASSUME NEW k \in heap', committed'[ctx'[k].surface] # k
               PROVE  ctx'[k].surface \in shared'
    BY DEF HearsCommits
  <2> DEFINE s == ctx[k].surface
  <2>1. k \in heap \ K /\ ctx'[k] = ctx[k] /\ s \in Surfaces
    BY <1>2 DEF Inv, TablesAgree
  <2>2. s \in shared
    <3>1. CASE s \notin SurfacesOf(K)
      BY <1>1, <2>1, <3>1 DEF Inv, HearsCommits
    <3>2. CASE s \in SurfacesOf(K)
      <4>1. PICK j \in K : ctx[j].surface = s
        BY <3>2 DEF SurfacesOf
      <4>2. j # k /\ j \in heap
        BY <2>1
      <4> QED
        BY <2>1, <4>1, <4>2 DEF Inv, HearsCommits
    <3> QED
      BY <3>1, <3>2
  <2>3. k \in ContextsOf(s) \ K
    BY <2>1 DEF ContextsOf
  <2>4. s \in shared'
    BY <1>1, <2>2, <2>3
  <2> QED
    BY <2>1, <2>4
<1>6. OutputLossAnnounced' /\ Watched'
  <2>1. \A k \in heap' : (k \in watching' <=> k \in watching) /\ (k \in closed' <=> k \in closed)
    BY <1>1, <1>2
  <2> QED
    BY <1>2, <2>1 DEF Inv, OutputLossAnnounced, Watched
<1> QED
  BY <1>3, <1>4, <1>5, <1>6 DEF Inv

(* What remains of the focus is a surface, the desktop or nothing.         *)
LEMMA FocusAfter ==
    ASSUME Inv, NEW K
    PROVE  FocusWithout(K) \in Surfaces \cup {Desktop, None}
BY DEF FocusWithout, Inv, TypeOK

(* A surface takes along the contexts that hang on it. *)
LEMMA SurfaceGoneStep ==
    ASSUME Inv, NEW s \in Surfaces, SurfaceGone(s)
    PROVE  Inv'
<1> DEFINE K == {k \in listening : ctx[k].surface = s}
<1>1. /\ DeleteContexts(K) /\ UNCHANGED <<clients, res, up>>
      /\ owner' = [owner EXCEPT ![s] = None] /\ role' = [role EXCEPT ![s] = "none"]
      /\ focus' = IF focus = s THEN None ELSE focus
  BY DEF SurfaceGone
<1>2. K \in SUBSET heap
  BY DEF Inv, TablesAgree
<1>3. \A k \in heap \ K : owner'[ctx[k].surface] = owner[ctx[k].surface]
  BY <1>1 DEF Inv, TypeOK, TablesAgree
<1>4. /\ res' \in [Ctxs -> Clients \cup {None}]
      /\ owner' \in [Surfaces -> Clients \cup {None}]
      /\ role' \in [Surfaces -> {"none", "layer-shell", "other"}]
      /\ focus' \in Surfaces \cup {Desktop, None}
  BY <1>1 DEF Inv, TypeOK
<1> HIDE DEF K
<1> QED
  BY <1>1, <1>2, <1>3, <1>4, DeleteStep

(* The destroy request and the end of the resource delete at most the       *)
(* context of that resource.                                               *)
LEMMA ResourceStep ==
    ASSUME Inv, NEW k \in Ctxs, DestroyLsh(k) \/ TearResource(k)
    PROVE  Inv'
<1> DEFINE K == {k} \cap user_data
<1>1. /\ DeleteContexts(K) /\ UNCHANGED <<clients, owner, role, up>>
      /\ focus' = FocusWithout(K)
      /\ res' = res \/ res' = [res EXCEPT ![k] = None]
  <2>1. CASE DestroyLsh(k)
    <3>1. K = {k}
      BY <2>1 DEF DestroyLsh
    <3> QED
      BY <2>1, <3>1 DEF DestroyLsh
  <2>2. CASE TearResource(k)
    BY <2>2 DEF TearResource, DeletedWith
  <2> QED
    BY <2>1, <2>2
<1>2. K \in SUBSET heap
  BY DEF Inv, TablesAgree
<1>3. \A j \in heap \ K : res'[j] = res[j]
  BY <1>1 DEF Inv, TablesAgree, TypeOK
<1>4. /\ res' \in [Ctxs -> Clients \cup {None}]
      /\ owner' \in [Surfaces -> Clients \cup {None}]
      /\ role' \in [Surfaces -> {"none", "layer-shell", "other"}]
  BY <1>1 DEF Inv, TypeOK
<1>5. focus' \in Surfaces \cup {Desktop, None}
  BY <1>1, FocusAfter
<1> HIDE DEF K
<1> QED
  BY <1>1, <1>2, <1>3, <1>4, <1>5, DeleteStep

(* A new context is in every table, and is the one that hears its surface. *)
LEMMA GetStep ==
    ASSUME Inv, NEW c \in Clients, NEW s \in Surfaces, NEW k \in Ctxs,
           NEW h \in Heads \cup {None}, NEW layer, NEW may \in BOOLEAN,
           GetLayerSurface(c, s, k, h, layer, may)
    PROVE  Inv'
<1> USE DistinctNames
<1>1. /\ owner[s] = c /\ res[k] = None /\ h \in up \cup {None}
      /\ role' = [role EXCEPT ![s] = "layer-shell"]
      /\ heap' = heap \cup {k} /\ lsh_views' = lsh_views \cup {k}
      /\ listening' = listening \cup {k} /\ user_data' = user_data \cup {k}
      /\ watching' = IF h = None THEN watching ELSE watching \cup {k}
      /\ committed' = [committed EXCEPT ![s] = k]
      /\ res' = [res EXCEPT ![k] = c]
      /\ shared' = IF ContextsOf(s) = {} THEN shared ELSE shared \cup {s}
      /\ UNCHANGED <<running, shell, dying, owner, mapped, stale, up, closed, focus, stale_unlink>>
  BY DEF GetLayerSurface, CommittedTo, clients, outputs
<1>2. /\ ctx' = [ctx EXCEPT ![k] = [surface |-> s, head |-> h, interactive |-> FALSE,
                                    layer |-> GrantedLayer(layer, may)]]
      /\ GrantedLayer(layer, may) \in LayerNames
  BY DEF GetLayerSurface, GrantedLayer, Refused, LayerNames
<1>3. k \notin heap
  BY <1>1 DEF Inv, TablesAgree
<1>4. /\ ctx'[k].surface = s /\ ctx'[k].head = h
      /\ \A j \in heap : j \in Ctxs /\ j # k /\ ctx'[j] = ctx[j] /\ res'[j] = res[j]
  BY <1>1, <1>2, <1>3 DEF Inv, TypeOK
<1>5. TypeOK'
  BY <1>1, <1>2 DEF Inv, TypeOK
<1>6. TablesAgree'
  <2>1. \A j \in heap' : /\ res'[j] # None /\ ctx'[j].surface \in Surfaces
                         /\ owner'[ctx'[j].surface] = res'[j]
    BY <1>1, <1>4 DEF Inv, TypeOK, TablesAgree
  <2>2. \A t \in Surfaces : committed'[t] # None => committed'[t] \in ContextsOf(t)'
    BY <1>1, <1>4 DEF Inv, TypeOK, TablesAgree, ContextsOf
  <2> QED
    BY <1>1, <2>1, <2>2 DEF Inv, TablesAgree
<1>7. HearsCommits'
  <2> SUFFICES ASSUME NEW j \in heap'
               PROVE  ctx'[j].surface \in shared' \/ committed'[ctx'[j].surface] = j
    BY DEF HearsCommits
  <2>1. CASE j = k
    BY <1>1, <1>4, <2>1 DEF Inv, TypeOK
  <2>2. CASE j # k /\ ctx[j].surface = s
    <3>1. j \in ContextsOf(s)
      BY <1>1, <2>2 DEF ContextsOf
    <3> QED
      BY <1>1, <1>4, <2>2, <3>1
  <2>3. CASE j # k /\ ctx[j].surface # s
    BY <1>1, <1>4, <2>3 DEF Inv, TypeOK, TablesAgree, HearsCommits
  <2> QED
    BY <2>1, <2>2, <2>3
<1>8. OutputLossAnnounced' /\ Watched'
  BY <1>1, <1>4 DEF Inv, OutputLossAnnounced, Watched
<1> QED
  BY <1>5, <1>6, <1>7, <1>8 DEF Inv

(* Requests of clients *)
LEMMA RequestStep ==
    ASSUME Inv, NEW c \in Clients, Request(c)
    PROVE  Inv'
<1> USE DistinctNames
<1>1. CASE BindShell(c)
  BY <1>1 DEF BindShell, Inv, TypeOK, TablesAgree, HearsCommits, OutputLossAnnounced, Watched,
              ContextsOf, history, surfaces, tables, outputs
<1>2. CASE \E s \in Surfaces, r \in {"none", "other"} : CreateSurface(c, s, r)
  <2> PICK s \in Surfaces, r \in {"none", "other"} : CreateSurface(c, s, r)
    BY <1>2
  <2>1. /\ owner[s] = None /\ owner' = [owner EXCEPT ![s] = c]
        /\ role' = [role EXCEPT ![s] = r]
        /\ UNCHANGED <<history, clients, committed, tables, res, ctx, mapped, outputs, focus>>
    BY DEF CreateSurface
  <2>2. \A k \in heap : ctx[k].surface # s
    BY <2>1 DEF Inv, TablesAgree
  <2>3. TypeOK'
    BY <2>1 DEF Inv, TypeOK, history, clients, tables, outputs
  <2>4. TablesAgree'
    BY <2>1, <2>2 DEF Inv, TypeOK, TablesAgree, ContextsOf, tables, outputs
  <2>5. HearsCommits' /\ OutputLossAnnounced' /\ Watched'
    BY <2>1 DEF Inv, HearsCommits, OutputLossAnnounced, Watched, history, tables, outputs
  <2> QED
    BY <2>3, <2>4, <2>5 DEF Inv
<1>3. CASE \E s \in Surfaces, k \in Ctxs, h \in Heads \cup {None}, layer \in Layers,
              may \in BOOLEAN : GetLayerSurface(c, s, k, h, layer, may)
  BY <1>3, GetStep
<1>4. CASE \E s \in Surfaces, h \in Heads, layer \in Layers :
             GetLayerSurfaceNoOutput(c, s, h, layer)
  <2> PICK s \in Surfaces, h \in Heads, layer \in Layers :
             GetLayerSurfaceNoOutput(c, s, h, layer)
    BY <1>4
  <2>1. /\ role' = [role EXCEPT ![s] = "layer-shell"] /\ running' = FALSE
        /\ UNCHANGED <<clients, owner, committed, tables, res, ctx, mapped, outputs, focus,
                       shared, stale_unlink>>
    BY DEF GetLayerSurfaceNoOutput
  <2>2. TypeOK'
    BY <2>1 DEF Inv, TypeOK, clients, tables, outputs
  <2>3. TablesAgree'
    BY <2>1 DEF Inv, TablesAgree, ContextsOf, tables, outputs
  <2>4. HearsCommits' /\ OutputLossAnnounced' /\ Watched'
    BY <2>1 DEF Inv, HearsCommits, OutputLossAnnounced, Watched, tables, outputs
  <2> QED
    BY <2>2, <2>3, <2>4 DEF Inv
<1>5. CASE ClientDies(c)
  BY <1>5 DEF ClientDies, Inv, TypeOK, TablesAgree, HearsCommits, OutputLossAnnounced, Watched,
              ContextsOf, history, surfaces, tables, outputs
<1> QED
  BY <1>1, <1>2, <1>3, <1>4, <1>5 DEF Request, GetLayerSurfaceRefused, Disconnect

(* Commits, clicks, changes of outputs and of the keyboard's owner *)
LEMMA CommitStep ==
    ASSUME Inv, NEW s \in Surfaces, NEW has \in BOOLEAN, Commit(s, has)
    PROVE  Inv'
<1>1. /\ committed[s] \in heap
      /\ mapped' = mapped \cup {committed[s]} /\ focus' \in {s, focus}
      /\ UNCHANGED <<history, clients, surfaces, tables, res, ctx, outputs>>
  BY DEF Commit, Inv, TablesAgree, ContextsOf
<1>2. TypeOK'
  BY <1>1 DEF Inv, TypeOK, history, clients, surfaces, tables, outputs
<1>3. TablesAgree'
  BY <1>1 DEF Inv, TablesAgree, ContextsOf, surfaces, tables, outputs
<1>4. HearsCommits' /\ OutputLossAnnounced' /\ Watched'
  BY <1>1 DEF Inv, HearsCommits, OutputLossAnnounced, Watched, history, surfaces, tables, outputs
<1> QED
  BY <1>2, <1>3, <1>4 DEF Inv

(* Clients, surfaces and heads that come and go keep the invariant.        *)
LEMMA EnvironmentStep ==
    ASSUME Inv, Environment
    PROVE  Inv'
<1>1. ASSUME NEW h \in Heads, OutputGone(h) PROVE Inv'
  <2>1. /\ up' = up \ {h} /\ closed' = closed \cup {k \in watching : ctx[k].head = h}
        /\ watching' = {k \in watching : ctx[k].head # h}
        /\ stale' = stale \cup {k \in watching : ctx[k].head = h}
        /\ UNCHANGED <<history, clients, surfaces, heap, lsh_views, listening, user_data,
                       res, ctx, mapped, focus>>
    BY <1>1 DEF OutputGone, Announced
  <2>2. TypeOK'
    BY <2>1 DEF Inv, TypeOK, history, clients, surfaces
  <2>3. TablesAgree'
    BY <2>1 DEF Inv, TablesAgree, ContextsOf, surfaces
  <2>4. HearsCommits' /\ OutputLossAnnounced' /\ Watched'
    BY <2>1, DistinctNames
       DEF Inv, HearsCommits, OutputLossAnnounced, Watched, history, surfaces
  <2> QED
    BY <2>2, <2>3, <2>4 DEF Inv
<1>2. ASSUME NEW h \in Heads, OutputBack(h) PROVE Inv'
  <2>1. /\ up' = up \cup {h}
        /\ UNCHANGED <<history, clients, surfaces, tables, res, ctx, mapped, closed, focus>>
    BY <1>2 DEF OutputBack
  <2>2. TypeOK'
    BY <2>1 DEF Inv, TypeOK, history, clients, surfaces, tables
  <2>3. TablesAgree'
    BY <2>1 DEF Inv, TablesAgree, ContextsOf, surfaces, tables
  <2>4. HearsCommits' /\ OutputLossAnnounced' /\ Watched'
    BY <2>1 DEF Inv, HearsCommits, OutputLossAnnounced, Watched, history, surfaces, tables
  <2> QED
    BY <2>2, <2>3, <2>4 DEF Inv
<1>3. ASSUME UNCHANGED <<history, clients, surfaces, tables, res, ctx, mapped, outputs>>,
             focus' \in Surfaces \cup {Desktop, None}
      PROVE  Inv'
  BY <1>3 DEF Inv, TypeOK, TablesAgree, HearsCommits, OutputLossAnnounced, Watched,
              ContextsOf, history, clients, surfaces, tables, outputs
<1>4. ASSUME NEW target \in Ctxs \cup {Desktop}, Activate(target) PROVE Inv'
  <2>1. \A k \in Topmost : ctx[k].surface \in Surfaces
    BY DEF Topmost, Interactive, Inv, TablesAgree
  <2>2. TakesClick(target) \in Surfaces \cup {Desktop, None}
    BY <1>4 DEF Activate, TakesClick, Inv, TypeOK, TablesAgree
  <2> QED
    BY <1>3, <1>4, <2>1, <2>2 DEF Activate
<1>5. CASE DesktopFocus
  BY <1>3, <1>5 DEF DesktopFocus
<1> QED
  BY <1>1, <1>2, <1>4, <1>5 DEF Environment

(* Every request, commit and loss keeps the invariant. *)
LEMMA InvStep == Inv /\ [Next]_vars => Inv'
<1> SUFFICES ASSUME Inv, [Next]_vars PROVE Inv'
  OBVIOUS
<1>1. ASSUME NEW k \in Ctxs, NEW v \in BOOLEAN, SetKeyboardInteractivity(k, v)
      PROVE  Inv'
  <2>1. /\ ctx' = [ctx EXCEPT ![k].interactive = v]
        /\ UNCHANGED <<history, clients, surfaces, tables, res, mapped, outputs, focus>>
    BY <1>1 DEF SetKeyboardInteractivity
  <2>2. \A j \in Ctxs : ctx'[j].surface = ctx[j].surface /\ ctx'[j].head = ctx[j].head
    BY <2>1 DEF Inv, TypeOK
  <2>3. TypeOK'
    BY <2>1 DEF Inv, TypeOK, history, clients, surfaces, tables, outputs
  <2>4. TablesAgree'
    BY <2>1, <2>2 DEF Inv, TypeOK, TablesAgree, ContextsOf, surfaces, tables, outputs
  <2>5. HearsCommits' /\ OutputLossAnnounced' /\ Watched'
    BY <2>1, <2>2 DEF Inv, TypeOK, HearsCommits, OutputLossAnnounced, Watched,
                      history, surfaces, tables, outputs
  <2> QED
    BY <2>3, <2>4, <2>5 DEF Inv
<1>2. CASE TearDone
  BY <1>2 DEF TearDone, Inv, TypeOK, TablesAgree, HearsCommits, OutputLossAnnounced, Watched,
              ContextsOf, history, surfaces, tables, outputs
<1>3. CASE UNCHANGED vars
  BY <1>3 DEF vars, Inv, TypeOK, TablesAgree, HearsCommits, OutputLossAnnounced, Watched,
              ContextsOf, tables
<1>4. CASE \E k \in Ctxs : OnContext(k)
  BY <1>1, <1>4, ResourceStep DEF OnContext
<1>5. CASE \E s \in Surfaces : OnSurface(s)
  BY <1>5, SurfaceGoneStep, CommitStep DEF OnSurface, DestroySurface
<1>6. CASE Teardown
  BY <1>2, <1>6, SurfaceGoneStep, ResourceStep DEF Teardown, TearSurface
<1> QED
  BY <1>3, <1>4, <1>5, <1>6, RequestStep, EnvironmentStep DEF Next

(* The invariant holds throughout. *)
LEMMA Invariance == Spec => []Inv
<1>1. Init => Inv
  <2> SUFFICES ASSUME Init PROVE Inv
    OBVIOUS
  <2>1. TypeOK
    BY DistinctNames DEF Init, TypeOK, NoCtx, LayerNames
  <2>2. TablesAgree /\ HearsCommits /\ OutputLossAnnounced /\ Watched
    BY DEF Init, TablesAgree, HearsCommits, OutputLossAnnounced, Watched, ContextsOf
  <2> QED
    BY <2>1, <2>2 DEF Inv
<1> QED
  BY <1>1, InvStep, PTL DEF Spec

-----------------------------------------------------------------------------
(* Tables, surfaces, contexts and outputs keep their shape.                *)
THEOREM TypeCorrect == Spec => []TypeOK
BY Invariance, PTL DEF Inv

(* In whatever order surfaces, resources, clients and outputs go, no table  *)
(* keeps a deleted context and no context is left without what it needs.   *)
THEOREM Agreement == Spec => []TablesAgree
BY Invariance, PTL DEF Inv

(* Of any number of layer surfaces on a wl_surface, the one that does not   *)
(* hear commits shared the wl_surface with another.                        *)
THEOREM Hearing == Spec => []HearsCommits
BY Invariance, PTL DEF Inv

(* However often heads lose and regain outputs, every loss was announced.  *)
THEOREM LossAnnounced == Spec => []OutputLossAnnounced
BY Invariance, PTL DEF Inv

(* Only a surface that asked for it is given the keyboard.                 *)
THEOREM OnlyIfAsked == Spec => FocusOnlyIfAsked
<1> DEFINE A == focus' # focus /\ focus' \in Surfaces =>
                  \E k \in ContextsOf(focus') : ctx[k].interactive
<1>1. ASSUME Inv, Next PROVE A
  <2> SUFFICES ASSUME focus' # focus, focus' \in Surfaces
               PROVE  \E k \in heap : ctx[k].surface = focus' /\ ctx[k].interactive
    BY DEF ContextsOf
  <2> USE DistinctNames
  <2>1. ASSUME NEW s \in Surfaces, NEW has \in BOOLEAN, Commit(s, has)
        PROVE  \E k \in heap : ctx[k].surface = focus' /\ ctx[k].interactive
    BY <1>1, <2>1 DEF Commit, Inv, TablesAgree, ContextsOf
  <2>2. ASSUME NEW target \in Ctxs \cup {Desktop}, Activate(target)
        PROVE  \E k \in heap : ctx[k].surface = focus' /\ ctx[k].interactive
    BY <1>1, <2>2 DEF Activate, Topmost, Interactive, TakesClick, Inv, TablesAgree
  <2>3. ~DesktopFocus
    BY DEF DesktopFocus
  <2>4. \A K : focus' # FocusWithout(K)
    BY DEF FocusWithout
  <2>5. \A k \in Ctxs : ~DestroyLsh(k) /\ ~TearResource(k)
    BY <2>4 DEF DestroyLsh, TearResource
  <2>6. \A s \in Surfaces : ~DestroySurface(s) /\ ~TearSurface(s)
    BY DEF DestroySurface, TearSurface, SurfaceGone
  <2>7. ~TearDone /\ \A h \in Heads : ~OutputGone(h) /\ ~OutputBack(h)
    BY DEF TearDone, OutputGone, OutputBack
  <2>8. \A c \in Clients : ~Request(c)
    BY DEF Request, BindShell, CreateSurface, GetLayerSurface, GetLayerSurfaceNoOutput,
           GetLayerSurfaceRefused, Disconnect, ClientDies
  <2>9. \A k \in Ctxs, v \in BOOLEAN : ~SetKeyboardInteractivity(k, v)
    BY DEF SetKeyboardInteractivity
  <2> QED
    BY <1>1, <2>1, <2>2, <2>3, <2>5, <2>6, <2>7, <2>8, <2>9
       DEF Next, OnContext, OnSurface, Teardown, Environment
<1>2. Inv /\ [Next]_vars => [A]_vars
  BY <1>1
<1> QED
  BY <1>2, Invariance, PTL DEF Spec, FocusOnlyIfAsked

(* After a click or a touch the keyboard is with the topmost layer that     *)
(* wants it, in whatever order the map is searched.                        *)
THEOREM YieldsToTopmost == Spec => ClickYieldsToTopmost
<1> DEFINE C == (\E target \in Ctxs \cup {Desktop} : Activate(target)) =>
                  /\ Wants("overlay") # {} => focus' \in SurfacesOf(Wants("overlay"))
                  /\ Wants("overlay") = {} /\ Wants("top") # {} =>
                        focus' \in SurfacesOf(Wants("top"))
<1>1. ASSUME Inv PROVE C
  <2>1. \A layer : Interactive(layer) = Wants(layer)
    BY <1>1 DEF Interactive, Wants, Inv, TablesAgree
  <2>2. Topmost = IF Wants("overlay") # {} THEN Wants("overlay") ELSE Wants("top")
    BY <2>1 DEF Topmost
  <2> QED
    BY <2>2 DEF Activate, SurfacesOf
<1>2. Inv /\ [Next]_vars => [C]_vars
  BY <1>1
<1> QED
  BY <1>2, Invariance, PTL DEF Spec, ClickYieldsToTopmost

=============================================================================
