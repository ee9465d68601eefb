---------------------------- MODULE Capabilities ----------------------------
(***************************************************************************)
(* The capabilities plugin (capabilities.cpp): a registry of capability    *)
(* names, a map from wl_client addresses to the capabilities they hold, and*)
(* capability_set objects with which a client hands a part of its own      *)
(* capabilities to a connection it spawns.  The first client that binds    *)
(* the global is the "important" one: it gets everything registered so far *)
(* and the compositor exits when it dies.                                  *)
(*                                                                         *)
(* The compositor is one event loop, so every request, every call of the   *)
(* plugin API and every client death is one step.  wl_client_destroy       *)
(* first notifies the client's destroy listeners and then destroys its     *)
(* resources; wl_resource_post_error destroys the client before the        *)
(* dispatch of its message ends.                                           *)
(***************************************************************************)
EXTENDS Naturals, FiniteSets

CONSTANTS Clients,   \* addresses a wl_client can have; reused after a death
          Caps,      \* capability names
          Sets,      \* wldip_capability_set resources
          NoClient   \* the null wl_client

ASSUME NoClientAssumption == NoClient \notin Clients

VARIABLES status,               \* what the event loop is doing
          live,                 \* the connected clients
          first_client_arrived,
          vip,                  \* client that carries vip_destroy_listener
          bound,                \* addresses whose latest connection bound the global
          known_caps,
          keys,                 \* addresses that have an entry in the caps map
          caps,                 \* the entries; {} where there is none
          cs,                   \* the capability_set objects
          minted,               \* history: capabilities put into circulation
          revoked,              \* history: capabilities taken from a live client
          double_delete         \* history: a capability_set was deleted twice

vars == <<status, live, first_client_arrived, vip, bound, known_caps, keys,
          caps, cs, minted, revoked, double_delete>>

session == <<status, live, first_client_arrived, vip, bound>>
history == <<minted, revoked, double_delete>>

Keys == Clients \cup {NoClient}
NoSet == [owner |-> NoClient, state |-> "none", caps |-> {}]

(* Entries and sets hold only names that were created: a grant of any other *)
(* name is refused (59, 87).                                               *)
TypeOK ==
    /\ status \in {"running", "exiting", "stopped", "aborted"}
    /\ live \subseteq Clients
    /\ first_client_arrived \in BOOLEAN
    /\ vip \in Keys
    /\ bound \subseteq Clients
    /\ known_caps \subseteq Caps
    /\ keys \subseteq Keys
    /\ caps \in [Keys -> SUBSET known_caps]
    /\ cs \in [Sets -> [owner : Keys, state : {"none", "alive", "freed"},
                        caps : SUBSET known_caps]]
    /\ minted \subseteq Caps
    /\ revoked \subseteq Clients \X Caps
    /\ double_delete \in BOOLEAN

(* wet_module_init: the plugin is registered, nobody has connected *)
Init ==
    /\ status = "running"
    /\ live = {}
    /\ first_client_arrived = FALSE
    /\ vip = NoClient
    /\ bound = {}
    /\ known_caps = {}
    /\ keys = {}
    /\ caps = [c \in Keys |-> {}]
    /\ cs = [s \in Sets |-> NoSet]
    /\ minted = {}
    /\ revoked = {}
    /\ double_delete = FALSE

(* weston_compositor_exit ends the loop after the current batch of events, *)
(* so requests are still served while it is exiting.                       *)
Serving == status \in {"running", "exiting"}

-----------------------------------------------------------------------------
(* Clients come and go *)

(* Allocation reuses the address of a client that died, whatever entry the *)
(* map still has for it.                                                   *)
NewClient(c) ==
    /\ c \notin live
    /\ live' = live \cup {c}
    /\ bound' = bound \ {c}

Connect(c) ==
    /\ Serving
    /\ NewClient(c)
    /\ UNCHANGED <<status, first_client_arrived, vip, known_caps, keys, caps, cs, history>>

Owned(c) == {s \in Sets : cs[s].owner = c /\ cs[s].state # "none"}

(* Mutant: the important client is a client like any other. *)
StatusAfterNoVip(c) == status

(* vip_is_down *)
StatusAfter(c) == IF vip = c THEN "exiting" ELSE status

(* Mutant: the important client is given its own listener only. *)
EraseEntryButVip(c) ==
    /\ keys' = IF c \in bound /\ c # vip THEN keys \ {c} ELSE keys
    /\ caps' = caps

(* normal_client_is_down: runs once for every bind, so only if c bound *)
EraseEntry(c) ==
    /\ keys' = IF c \in bound THEN keys \ {c} ELSE keys
    /\ caps' = IF c \in bound THEN [caps EXCEPT ![c] = {}] ELSE caps

(* cs_destructor on every capability_set resource of c: it deletes the     *)
(* object also when cs_destroy already did.  The second delete aborts the  *)
(* compositor or goes unnoticed.                                           *)
DestroySets(c) ==
    LET twice == \E s \in Owned(c) : cs[s].state = "freed"
    IN /\ cs' = [s \in Sets |-> IF s \in Owned(c) THEN NoSet ELSE cs[s]]
       /\ double_delete' = (double_delete \/ twice)
       /\ \/ status' = StatusAfter(c)
          \/ twice /\ status' = "aborted"

(* wl_client_destroy, whatever caused it *)
ClientGone(c) ==
    /\ Serving
    /\ c \in live
    /\ live' = live \ {c}
    /\ vip' = IF vip = c THEN NoClient ELSE vip
    /\ EraseEntry(c)
    /\ DestroySets(c)
    /\ revoked' = {p \in revoked : p[1] # c}
    /\ UNCHANGED <<first_client_arrived, bound, known_caps, minted>>

Disconnect(c) == ClientGone(c)

-----------------------------------------------------------------------------
(* The API for the other plugins *)

(* Mutant: the name is taken as it comes. *)
CreatedAny(cap) == TRUE

Created(cap) == cap \in known_caps

ApiCreate(cap) ==
    /\ Serving
    /\ known_caps' = known_caps \cup {cap}
    /\ UNCHANGED <<session, keys, caps, cs, history>>

(* A check reads through operator[], which creates the entry. *)
ApiCheck(c, cap) ==
    /\ Serving
    /\ c \in live
    /\ Created(cap)
    /\ keys' = keys \cup {c}
    /\ UNCHANGED <<session, known_caps, caps, cs, history>>

ApiGrant(c, cap) ==
    /\ Serving
    /\ c \in live
    /\ Created(cap)
    /\ keys' = keys \cup {c}
    /\ caps' = [caps EXCEPT ![c] = @ \cup {cap}]
    /\ minted' = minted \cup {cap}
    /\ UNCHANGED <<session, known_caps, cs, revoked, double_delete>>

ApiRevoke(c, cap) ==
    /\ Serving
    /\ c \in live
    /\ keys' = keys \cup {c}
    /\ caps' = [caps EXCEPT ![c] = @ \ {cap}]
    /\ revoked' = IF cap \in caps[c] THEN revoked \cup {<<c, cap>>} ELSE revoked
    /\ UNCHANGED <<session, known_caps, cs, minted, double_delete>>

-----------------------------------------------------------------------------
(* Requests *)

BindCaps(c) ==
    /\ Serving
    /\ c \in live
    /\ bound' = bound \cup {c}
    /\ \/ /\ ~first_client_arrived
          /\ first_client_arrived' = TRUE
          /\ keys' = keys \cup {c}
          /\ caps' = [caps EXCEPT ![c] = known_caps]
          /\ minted' = minted \cup known_caps
          /\ vip' = c
       \/ /\ first_client_arrived
          /\ UNCHANGED <<first_client_arrived, keys, caps, minted, vip>>
    /\ UNCHANGED <<status, live, known_caps, cs, revoked, double_delete>>

CreateCapabilitySet(c, s) ==
    /\ Serving
    /\ c \in live \cap bound
    /\ cs[s].state = "none"
    /\ cs' = [cs EXCEPT ![s] = [owner |-> c, state |-> "alive", caps |-> {}]]
    /\ UNCHANGED <<session, known_caps, keys, caps, history>>

(* The client library sends nothing on an object it has destroyed. *)
Usable(c, s) ==
    /\ Serving
    /\ c \in live
    /\ cs[s].owner = c
    /\ cs[s].state = "alive"

(* Mutant: it is enough that the capability exists. *)
GrantableIfKnown(c, cap) == cap \in known_caps

Grantable(c, cap) == cap \in known_caps \cap caps[c]

CsGrant(c, s, cap) ==
    /\ Usable(c, s)
    /\ Grantable(c, cap)
    /\ cs' = [cs EXCEPT ![s].caps = @ \cup {cap}]
    /\ UNCHANGED <<session, known_caps, keys, caps, history>>

(* nonexistent or denied: a protocol error, which ends the connection *)
CsGrantRefused(c, s, cap) ==
    /\ Usable(c, s)
    /\ ~Grantable(c, cap)
    /\ ClientGone(c)

(* Mutant: the child gets everything there is. *)
SpawnedCapsAll(s) == known_caps

SpawnedCaps(s) == cs[s].caps

(* cs_spawn: the set is copied into the entry of the new client, which     *)
(* gets no destroy listener of its own.                                    *)
CsSpawn(c, s, n) ==
    /\ Usable(c, s)
    /\ NewClient(n)
    /\ keys' = keys \cup {n}
    /\ caps' = [caps EXCEPT ![n] = SpawnedCaps(s)]
    /\ UNCHANGED <<status, first_client_arrived, vip, known_caps, cs, history>>

(* wl_client_create failed: its null result is used as the map's key *)
CsSpawnNoClient(c, s) ==
    /\ Usable(c, s)
    /\ keys' = keys \cup {NoClient}
    /\ caps' = [caps EXCEPT ![NoClient] = SpawnedCaps(s)]
    /\ UNCHANGED <<session, known_caps, cs, history>>

(* socketpair failed: a protocol error *)
CsSpawnNoSocket(c, s) ==
    /\ Usable(c, s)
    /\ ClientGone(c)

(* cs_destroy deletes the object and leaves the resource and its user_data *)
CsDestroy(c, s) ==
    /\ Usable(c, s)
    /\ cs' = [cs EXCEPT ![s].state = "freed", ![s].caps = {}]
    /\ UNCHANGED <<session, known_caps, keys, caps, history>>

(* wl_display_run returns *)
Terminate ==
    /\ status = "exiting"
    /\ status' = "stopped"
    /\ UNCHANGED <<live, first_client_arrived, vip, bound, known_caps, keys, caps, cs, history>>

-----------------------------------------------------------------------------
ClientStep(c) ==
    \/ Connect(c)
    \/ Disconnect(c)
    \/ BindCaps(c)
    \/ \E cap \in Caps : ApiCheck(c, cap) \/ ApiGrant(c, cap) \/ ApiRevoke(c, cap)

SetStep(c, s) ==
    \/ CreateCapabilitySet(c, s)
    \/ \E cap \in Caps : CsGrant(c, s, cap) \/ CsGrantRefused(c, s, cap)
    \/ \E n \in Clients : CsSpawn(c, s, n)
    \/ CsSpawnNoClient(c, s)
    \/ CsSpawnNoSocket(c, s)
    \/ CsDestroy(c, s)

Next ==
    \/ \E cap \in Caps : ApiCreate(cap)
    \/ \E c \in Clients : ClientStep(c)
    \/ \E c \in Clients, s \in Sets : SetStep(c, s)
    \/ Terminate

(* The event loop gets to the end of its batch; clients owe it nothing. *)
Spec == Init /\ [][Next]_vars /\ WF_vars(Terminate)

-----------------------------------------------------------------------------
(* What circulates: the entries of the map and the sets that can be spawned *)
Circulating ==
    (UNION {caps[c] : c \in Keys}) \cup
    (UNION {cs[s].caps : s \in {x \in Sets : cs[x].state = "alive"}})

(* Delegation conserves capabilities: whatever sequence of grants to sets,  *)
(* spawns, failed spawns and address reuses happens, a capability in the    *)
(* map or in a live set was put into circulation by the snapshot for the    *)
(* first client (155) or by a plugin's grant (66), and it was created       *)
(* before that.                                                             *)
CapsConserved ==
    /\ Circulating \subseteq minted
    /\ minted \subseteq known_caps

(* A capability_set never exceeds its owner: what it can hand to a new      *)
(* connection (109) is what the owner holds, or held until a plugin revoked *)
(* it, since a revocation (74) does not reach the sets filled before it.    *)
SetsWithinOwner ==
    \A s \in Sets : cs[s].state = "alive" =>
        /\ cs[s].owner \in live \cap bound
        /\ \A cap \in cs[s].caps : \/ cap \in caps[cs[s].owner]
                                    \/ <<cs[s].owner, cap>> \in revoked

(* The entry of a client that bound the global does not outlive it (146),   *)
(* so whoever gets its address next does not inherit it; the entry of a     *)
(* client that never bound the global may stay, as no listener is on it.    *)
CleanupComplete == \A c \in bound \ live : c \notin keys

(* The compositor runs normally only while the first client lives: from its *)
(* arrival on, either it is connected and carries the listener that ends    *)
(* the session (157), or the end of the loop has been requested (141).      *)
VipGuards ==
    (first_client_arrived /\ status = "running") => vip \in live \cap bound

(* The plugin implements the abstract custody of capabilities. *)
Custodian == IF ~first_client_arrived THEN "awaited"
             ELSE IF vip = NoClient THEN "gone" ELSE "present"

Custody == INSTANCE CapabilityCustody WITH
    registry <- known_caps,
    issued <- minted,
    circulating <- Circulating,
    custodian <- Custodian,
    up <- Serving

(* Every step of the plugin is a step the abstract custody allows, and the  *)
(* death of the first client (139-142) is followed by the end of the event  *)
(* loop, also when a client dies or a request is served in the same batch.  *)
ImplementsCustody == Custody!Spec

(* A capability_set object is deleted once: "destroy the capability_set" is *)
(* the last use of it (wldip-capabilities.xml:34-36).                       *)
SetDestroyedOnce == ~double_delete

=============================================================================
