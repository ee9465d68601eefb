------------------------- MODULE CapabilitiesProofs -------------------------
(***************************************************************************)
(* Proofs about the capabilities plugin, for any number of clients,        *)
(* capabilities and capability sets.                                       *)
(***************************************************************************)
EXTENDS Capabilities, TLAPS

(* Each invariant is proved from the type invariant and those before it;    *)
(* their conjunction is inductive.                                         *)
Inv ==
    /\ TypeOK
    /\ CapsConserved
    /\ SetsWithinOwner
    /\ CleanupComplete
    /\ VipGuards

(* The type invariant is inductive: every request, API call, connection and *)
(* death keeps the plugin's tables well-formed.                             *)
LEMMA TypeStep == TypeOK /\ [Next]_vars => TypeOK'
<1> SUFFICES ASSUME TypeOK, [Next]_vars PROVE TypeOK'
  OBVIOUS
<1> USE NoClientAssumption DEF TypeOK, Keys, NoSet, session, history
<1>1. ASSUME NEW c \in Clients, Connect(c) PROVE TypeOK'
  BY <1>1 DEF Connect, NewClient
<1>2. ASSUME NEW c \in Clients, ClientGone(c) PROVE TypeOK'
  BY <1>2 DEF ClientGone, Serving, EraseEntry, DestroySets, StatusAfter, Owned
<1>3. ASSUME NEW c \in Clients, BindCaps(c) PROVE TypeOK'
  BY <1>3 DEF BindCaps
<1>4. ASSUME NEW c \in Clients, NEW cap \in Caps, ApiCheck(c, cap) PROVE TypeOK'
  BY <1>4 DEF ApiCheck
<1>5. ASSUME NEW c \in Clients, NEW cap \in Caps, ApiGrant(c, cap) PROVE TypeOK'
  BY <1>5 DEF ApiGrant, Created
<1>6. ASSUME NEW c \in Clients, NEW cap \in Caps, ApiRevoke(c, cap) PROVE TypeOK'
  BY <1>6 DEF ApiRevoke
<1>7. ASSUME NEW cap \in Caps, ApiCreate(cap) PROVE TypeOK'
  BY <1>7 DEF ApiCreate
<1>8. ASSUME NEW c \in Clients, NEW s \in Sets, CreateCapabilitySet(c, s) PROVE TypeOK'
  BY <1>8 DEF CreateCapabilitySet
<1>9. ASSUME NEW c \in Clients, NEW s \in Sets, NEW cap \in Caps, CsGrant(c, s, cap)
      PROVE TypeOK'
  BY <1>9 DEF CsGrant, Grantable
<1>10. ASSUME NEW c \in Clients, NEW s \in Sets, NEW n \in Clients, CsSpawn(c, s, n)
       PROVE TypeOK'
  BY <1>10 DEF CsSpawn, NewClient, SpawnedCaps
<1>11. ASSUME NEW c \in Clients, NEW s \in Sets, CsSpawnNoClient(c, s) PROVE TypeOK'
  BY <1>11 DEF CsSpawnNoClient, SpawnedCaps
<1>12. ASSUME NEW c \in Clients, NEW s \in Sets, CsDestroy(c, s) PROVE TypeOK'
  BY <1>12 DEF CsDestroy
<1>13. CASE Terminate
  BY <1>13 DEF Terminate
<1>14. CASE UNCHANGED vars
  BY <1>14 DEF vars
<1> QED
  BY <1>1, <1>2, <1>3, <1>4, <1>5, <1>6, <1>7, <1>8, <1>9, <1>10, <1>11, <1>12,
     <1>13, <1>14
     DEF Next, ClientStep, SetStep, Disconnect, CsGrantRefused, CsSpawnNoSocket

(* A step that changes neither the entries, the sets, the history nor the   *)
(* registry conserves capabilities.                                        *)
LEMMA ConservedSame ==
    ASSUME CapsConserved, UNCHANGED <<caps, cs, minted, known_caps>>
    PROVE  CapsConserved'
BY DEF CapsConserved, Circulating

(* Grants to sets and spawns copy what circulates; only the snapshot for    *)
(* the first client and a plugin's grant add to it, and to minted.          *)
LEMMA ConservedStep == TypeOK /\ CapsConserved /\ [Next]_vars => CapsConserved'
<1> SUFFICES ASSUME TypeOK, CapsConserved, [Next]_vars PROVE CapsConserved'
  OBVIOUS
<1>1. /\ \A c \in Keys : caps[c] \subseteq minted
      /\ \A s \in Sets : cs[s].state = "alive" => cs[s].caps \subseteq minted
      /\ minted \subseteq known_caps
  <2>1. \A c \in Keys : caps[c] \subseteq Circulating
    BY Zenon DEF Circulating
  <2>2. \A s \in Sets : cs[s].state = "alive" => cs[s].caps \subseteq Circulating
    BY Zenon DEF Circulating
  <2> QED
    BY <2>1, <2>2 DEF CapsConserved
<1>2. ASSUME \A c \in Keys : caps'[c] \subseteq minted',
             \A s \in Sets : cs'[s].state = "alive" => cs'[s].caps \subseteq minted',
             minted' \subseteq known_caps'
      PROVE  CapsConserved'
  <2>1. ASSUME NEW cap \in Circulating' PROVE cap \in minted'
    <3>1. \/ \E c \in Keys : cap \in caps'[c]
          \/ \E s \in Sets : cs'[s].state = "alive" /\ cap \in cs'[s].caps
      BY <2>1, Zenon DEF Circulating
    <3> QED
      BY <1>2, <3>1
  <2> QED
    BY <1>2, <2>1 DEF CapsConserved
<1> USE <1>1 DEF TypeOK, Keys, NoSet, session, history
<1>3. ASSUME NEW c \in Clients, ClientGone(c) PROVE CapsConserved'
  <2>1. /\ minted' = minted /\ known_caps' = known_caps
        /\ \A k \in Keys : caps'[k] \subseteq caps[k]
    BY <1>3 DEF ClientGone, EraseEntry
  <2>2. \A s \in Sets : cs'[s].state = "alive" => cs'[s] = cs[s]
    BY <1>3 DEF ClientGone, DestroySets
  <2> QED
    BY <1>2, <2>1, <2>2
<1>4. ASSUME NEW c \in Clients, BindCaps(c) PROVE CapsConserved'
  BY <1>2, <1>4 DEF BindCaps
<1>5. ASSUME NEW c \in Clients, NEW cap \in Caps, ApiGrant(c, cap) PROVE CapsConserved'
  BY <1>2, <1>5 DEF ApiGrant, Created
<1>6. ASSUME NEW c \in Clients, NEW cap \in Caps, ApiRevoke(c, cap) PROVE CapsConserved'
  BY <1>2, <1>6 DEF ApiRevoke
<1>7. ASSUME NEW cap \in Caps, ApiCreate(cap) PROVE CapsConserved'
  BY <1>2, <1>7 DEF ApiCreate
<1>8. ASSUME NEW c \in Clients, NEW s \in Sets, CreateCapabilitySet(c, s)
      PROVE CapsConserved'
  BY <1>2, <1>8 DEF CreateCapabilitySet
<1>9. ASSUME NEW c \in Clients, NEW s \in Sets, NEW cap \in Caps, CsGrant(c, s, cap)
      PROVE CapsConserved'
  BY <1>2, <1>9 DEF CsGrant, Grantable, Usable
<1>10. ASSUME NEW c \in Clients, NEW s \in Sets, NEW n \in Clients, CsSpawn(c, s, n)
       PROVE CapsConserved'
  BY <1>2, <1>10 DEF CsSpawn, SpawnedCaps, Usable
<1>11. ASSUME NEW c \in Clients, NEW s \in Sets, CsSpawnNoClient(c, s)
       PROVE CapsConserved'
  BY <1>2, <1>11 DEF CsSpawnNoClient, SpawnedCaps, Usable
<1>12. ASSUME NEW c \in Clients, NEW s \in Sets, CsDestroy(c, s) PROVE CapsConserved'
  BY <1>2, <1>12 DEF CsDestroy
<1>13. ASSUME NEW c \in Clients, Connect(c) \/ \E cap \in Caps : ApiCheck(c, cap)
       PROVE CapsConserved'
  BY <1>13, ConservedSame DEF Connect, ApiCheck
<1>14. CASE Terminate \/ UNCHANGED vars
  BY <1>14, ConservedSame DEF Terminate, vars
<1> QED
  BY <1>3, <1>4, <1>5, <1>6, <1>7, <1>8, <1>9, <1>10, <1>11, <1>12, <1>13, <1>14
     DEF Next, ClientStep, SetStep, Disconnect, CsGrantRefused, CsSpawnNoSocket

(* What CapsConserved says of one entry: needed where the first client's    *)
(* entry is replaced by the snapshot of the registry.                       *)
LEMMA EntryKnown ==
    ASSUME CapsConserved, NEW c \in Keys
    PROVE  caps[c] \subseteq known_caps
<1>1. caps[c] \subseteq Circulating
  BY Zenon DEF Circulating
<1> QED
  BY <1>1 DEF CapsConserved

(* A set's owner is live and keeps what the set has, or is remembered as    *)
(* having lost it; the death of a client takes its sets along, and the      *)
(* address of a new client is not that of a live owner.                     *)
LEMMA OwnerStep ==
    TypeOK /\ CapsConserved /\ SetsWithinOwner /\ [Next]_vars => SetsWithinOwner'
<1> SUFFICES ASSUME TypeOK, CapsConserved, SetsWithinOwner, [Next]_vars
             PROVE  SetsWithinOwner'
  OBVIOUS
<1> USE NoClientAssumption DEF TypeOK, Keys, NoSet, session, history, SetsWithinOwner
<1>1. ASSUME NEW c \in Clients, Connect(c) PROVE SetsWithinOwner'
  BY <1>1 DEF Connect, NewClient
<1>2. ASSUME NEW c \in Clients, ClientGone(c) PROVE SetsWithinOwner'
  <2> SUFFICES ASSUME NEW s \in Sets, cs'[s].state = "alive"
               PROVE  /\ cs'[s].owner \in live' \cap bound'
                      /\ \A cap \in cs'[s].caps :
                            cap \in caps'[cs'[s].owner] \/ <<cs'[s].owner, cap>> \in revoked'
    OBVIOUS
  <2>1. cs'[s] = cs[s] /\ cs[s].owner # c
    BY <1>2 DEF ClientGone, DestroySets, Owned
  <2>2. caps'[cs[s].owner] = caps[cs[s].owner]
    BY <1>2, <2>1 DEF ClientGone, EraseEntry
  <2>3. \A cap : <<cs[s].owner, cap>> \in revoked => <<cs[s].owner, cap>> \in revoked'
    BY <1>2, <2>1 DEF ClientGone
  <2>4. live' = live \ {c} /\ bound' = bound
    BY <1>2 DEF ClientGone
  <2> QED
    BY <2>1, <2>2, <2>3, <2>4
<1>3. ASSUME NEW c \in Clients, BindCaps(c) PROVE SetsWithinOwner'
  BY <1>3, EntryKnown DEF BindCaps
<1>4. ASSUME NEW c \in Clients, NEW cap \in Caps, ApiCheck(c, cap) PROVE SetsWithinOwner'
  BY <1>4 DEF ApiCheck
<1>5. ASSUME NEW c \in Clients, NEW cap \in Caps, ApiGrant(c, cap) PROVE SetsWithinOwner'
  BY <1>5 DEF ApiGrant
<1>6. ASSUME NEW c \in Clients, NEW cap \in Caps, ApiRevoke(c, cap) PROVE SetsWithinOwner'
  BY <1>6 DEF ApiRevoke
<1>7. ASSUME NEW cap \in Caps, ApiCreate(cap) PROVE SetsWithinOwner'
  BY <1>7 DEF ApiCreate
<1>8. ASSUME NEW c \in Clients, NEW s \in Sets, CreateCapabilitySet(c, s)
      PROVE SetsWithinOwner'
  BY <1>8 DEF CreateCapabilitySet
<1>9. ASSUME NEW c \in Clients, NEW s \in Sets, NEW cap \in Caps, CsGrant(c, s, cap)
      PROVE SetsWithinOwner'
  BY <1>9 DEF CsGrant, Grantable, Usable
<1>10. ASSUME NEW c \in Clients, NEW s \in Sets, NEW n \in Clients, CsSpawn(c, s, n)
       PROVE SetsWithinOwner'
  BY <1>10 DEF CsSpawn, NewClient
<1>11. ASSUME NEW c \in Clients, NEW s \in Sets, CsSpawnNoClient(c, s)
       PROVE SetsWithinOwner'
  BY <1>11 DEF CsSpawnNoClient
<1>12. ASSUME NEW c \in Clients, NEW s \in Sets, CsDestroy(c, s) PROVE SetsWithinOwner'
  BY <1>12 DEF CsDestroy
<1>13. CASE Terminate \/ UNCHANGED vars
  BY <1>13 DEF Terminate, vars
<1> QED
  BY <1>1, <1>2, <1>3, <1>4, <1>5, <1>6, <1>7, <1>8, <1>9, <1>10, <1>11, <1>12, <1>13
     DEF Next, ClientStep, SetStep, Disconnect, CsGrantRefused, CsSpawnNoSocket

(* Entries appear only under live clients and under the null client, and    *)
(* the death of a bound client erases its own.                              *)
LEMMA CleanupStep == TypeOK /\ CleanupComplete /\ [Next]_vars => CleanupComplete'
<1> SUFFICES ASSUME TypeOK, CleanupComplete, [Next]_vars PROVE CleanupComplete'
  OBVIOUS
<1> USE NoClientAssumption DEF TypeOK, Keys, session, CleanupComplete
<1>1. ASSUME NEW c \in Clients, Connect(c) PROVE CleanupComplete'
  BY <1>1 DEF Connect, NewClient
<1>2. ASSUME NEW c \in Clients, ClientGone(c) PROVE CleanupComplete'
  BY <1>2 DEF ClientGone, EraseEntry
<1>3. ASSUME NEW c \in Clients,
             BindCaps(c) \/ \E cap \in Caps :
                               ApiCheck(c, cap) \/ ApiGrant(c, cap) \/ ApiRevoke(c, cap)
      PROVE CleanupComplete'
  BY <1>3 DEF BindCaps, ApiCheck, ApiGrant, ApiRevoke
<1>4. ASSUME NEW cap \in Caps, ApiCreate(cap) PROVE CleanupComplete'
  BY <1>4 DEF ApiCreate
<1>5. ASSUME NEW c \in Clients, NEW s \in Sets,
             \/ CreateCapabilitySet(c, s) \/ CsSpawnNoClient(c, s) \/ CsDestroy(c, s)
             \/ \E cap \in Caps : CsGrant(c, s, cap)
             \/ \E n \in Clients : CsSpawn(c, s, n)
      PROVE CleanupComplete'
  BY <1>5 DEF CreateCapabilitySet, CsSpawnNoClient, CsDestroy, CsGrant, CsSpawn, NewClient
<1>6. CASE Terminate \/ UNCHANGED vars
  BY <1>6 DEF Terminate, vars
<1> QED
  BY <1>1, <1>2, <1>3, <1>4, <1>5, <1>6
     DEF Next, ClientStep, SetStep, Disconnect, CsGrantRefused, CsSpawnNoSocket

(* The first client stays the vip, live and bound, until its death, which   *)
(* moves the compositor out of "running" in the same step.                  *)
LEMMA VipStep == VipGuards /\ [Next]_vars => VipGuards'
<1> SUFFICES ASSUME VipGuards, [Next]_vars PROVE VipGuards'
  OBVIOUS
<1> USE DEF session, VipGuards
<1>1. ASSUME NEW c \in Clients, Connect(c) PROVE VipGuards'
  BY <1>1 DEF Connect, NewClient
<1>2. ASSUME NEW c \in Clients, ClientGone(c) PROVE VipGuards'
  BY <1>2 DEF ClientGone, DestroySets, StatusAfter
<1>3. ASSUME NEW c \in Clients, BindCaps(c) PROVE VipGuards'
  BY <1>3 DEF BindCaps
<1>4. ASSUME NEW c \in Clients, NEW s \in Sets, NEW n \in Clients, CsSpawn(c, s, n)
      PROVE VipGuards'
  BY <1>4 DEF CsSpawn, NewClient
<1>5. ASSUME UNCHANGED session PROVE VipGuards'
  BY <1>5
<1>6. ASSUME NEW c \in Clients, NEW cap \in Caps,
             ApiCheck(c, cap) \/ ApiGrant(c, cap) \/ ApiRevoke(c, cap)
      PROVE VipGuards'
  <2>1. UNCHANGED session
    BY <1>6, Zenon DEF ApiCheck, ApiGrant, ApiRevoke
  <2> QED
    BY <1>5, <2>1
<1>7. ASSUME NEW cap \in Caps, ApiCreate(cap) PROVE VipGuards'
  BY <1>5, <1>7, Zenon DEF ApiCreate
<1>8. ASSUME NEW c \in Clients, NEW s \in Sets,
             \/ CreateCapabilitySet(c, s) \/ CsSpawnNoClient(c, s) \/ CsDestroy(c, s)
             \/ \E cap \in Caps : CsGrant(c, s, cap)
      PROVE VipGuards'
  <2>1. UNCHANGED session
    BY <1>8, Zenon DEF CreateCapabilitySet, CsSpawnNoClient, CsDestroy, CsGrant
  <2> QED
    BY <1>5, <2>1
<1>9. CASE Terminate \/ UNCHANGED vars
  BY <1>9 DEF Terminate, vars
<1> QED
  BY <1>1, <1>2, <1>3, <1>4, <1>6, <1>7, <1>8, <1>9
     DEF Next, ClientStep, SetStep, Disconnect, CsGrantRefused, CsSpawnNoSocket

-----------------------------------------------------------------------------
(* The conjunction is inductive: the five step lemmas, in the order in      *)
(* which they depend on each other.                                         *)
LEMMA Invariance == Spec => []Inv
<1>1. Init => Inv
  <2> SUFFICES ASSUME Init PROVE Inv
    OBVIOUS
  <2> USE NoClientAssumption DEF Init, Keys, NoSet
  <2>1. TypeOK
    BY DEF TypeOK
  <2>2. Circulating = {}
    <3>1. ASSUME NEW cap \in Circulating PROVE FALSE
      <4>1. \/ \E c \in Keys : cap \in caps[c]
            \/ \E s \in Sets : cs[s].state = "alive" /\ cap \in cs[s].caps
        BY <3>1, Zenon DEF Circulating
      <4> QED
        BY <4>1
    <3> QED
      BY <3>1, Zenon
  <2>3. CapsConserved
    BY <2>2 DEF CapsConserved
  <2>4. SetsWithinOwner
    BY DEF SetsWithinOwner
  <2>5. CleanupComplete /\ VipGuards
    BY DEF CleanupComplete, VipGuards
  <2> QED
    BY <2>1, <2>3, <2>4, <2>5 DEF Inv
<1>2. Inv /\ [Next]_vars => Inv'
  BY TypeStep, ConservedStep, OwnerStep, CleanupStep, VipStep DEF Inv
<1> QED
  BY <1>1, <1>2, PTL DEF Spec

(* The plugin's state always has its declared shape. *)
THEOREM TypeCorrect == Spec => []TypeOK
BY Invariance, PTL DEF Inv

(* Delegation never creates a capability: all that clients hold or could    *)
(* hand on came from the first client's snapshot or a plugin's grant.       *)
THEOREM Conservation == Spec => []CapsConserved
BY Invariance, PTL DEF Inv

(* A capability_set never exceeds what its live owner holds or was revoked. *)
THEOREM Attenuation == Spec => []SetsWithinOwner
BY Invariance, PTL DEF Inv

(* No entry of a client that bound the global outlives it. *)
THEOREM Cleanup == Spec => []CleanupComplete
BY Invariance, PTL DEF Inv

(* The compositor is not in normal operation without its first client. *)
THEOREM Guarding == Spec => []VipGuards
BY Invariance, PTL DEF Inv

-----------------------------------------------------------------------------
(* The safety part of the refinement: every behaviour of the plugin is one  *)
(* the abstract custody allows.  (That the event loop ends after the        *)
(* custodian's death rests on fairness and is left to TLC.)                 *)

(* The important client has arrived when there is one, and the compositor   *)
(* is told to exit only by its death.                                       *)
VipArrived ==
    /\ vip # NoClient => first_client_arrived
    /\ status = "exiting" => first_client_arrived /\ vip = NoClient

(* vip is set once, in the step that sets first_client_arrived, and cleared *)
(* in the step that requests the exit.                                      *)
LEMMA ArrivalStep == VipArrived /\ [Next]_vars => VipArrived'
<1> SUFFICES ASSUME VipArrived, [Next]_vars PROVE VipArrived'
  OBVIOUS
<1> USE DEF session, VipArrived
<1>1. ASSUME NEW c \in Clients, Connect(c) PROVE VipArrived'
  BY <1>1 DEF Connect
<1>2. ASSUME NEW c \in Clients, ClientGone(c) PROVE VipArrived'
  BY <1>2, NoClientAssumption DEF ClientGone, DestroySets, StatusAfter
<1>3. ASSUME NEW c \in Clients, BindCaps(c) PROVE VipArrived'
  BY <1>3 DEF BindCaps
<1>4. ASSUME NEW c \in Clients, NEW s \in Sets, NEW n \in Clients, CsSpawn(c, s, n)
      PROVE VipArrived'
  BY <1>4 DEF CsSpawn
<1>5. ASSUME UNCHANGED session PROVE VipArrived'
  BY <1>5
<1>6. ASSUME NEW c \in Clients, NEW cap \in Caps,
             ApiCheck(c, cap) \/ ApiGrant(c, cap) \/ ApiRevoke(c, cap)
      PROVE VipArrived'
  <2>1. UNCHANGED session
    BY <1>6, Zenon DEF ApiCheck, ApiGrant, ApiRevoke
  <2> QED
    BY <1>5, <2>1
<1>7. ASSUME NEW cap \in Caps, ApiCreate(cap) PROVE VipArrived'
  BY <1>5, <1>7, Zenon DEF ApiCreate
<1>8. ASSUME NEW c \in Clients, NEW s \in Sets,
             \/ CreateCapabilitySet(c, s) \/ CsSpawnNoClient(c, s) \/ CsDestroy(c, s)
             \/ \E cap \in Caps : CsGrant(c, s, cap)
      PROVE VipArrived'
  <2>1. UNCHANGED session
    BY <1>8, Zenon DEF CreateCapabilitySet, CsSpawnNoClient, CsDestroy, CsGrant
  <2> QED
    BY <1>5, <2>1
<1>9. CASE Terminate \/ UNCHANGED vars
  BY <1>9 DEF Terminate, vars
<1> QED
  BY <1>1, <1>2, <1>3, <1>4, <1>6, <1>7, <1>8, <1>9
     DEF Next, ClientStep, SetStep, Disconnect, CsGrantRefused, CsSpawnNoSocket

(* What circulates, element by element, before and after a step. *)
LEMMA CirculatingMembers ==
    /\ \A cap : cap \in Circulating <=>
          \/ \E c \in Keys : cap \in caps[c]
          \/ \E s \in Sets : cs[s].state = "alive" /\ cap \in cs[s].caps
    /\ \A cap : cap \in Circulating' <=>
          \/ \E c \in Keys : cap \in caps'[c]
          \/ \E s \in Sets : cs'[s].state = "alive" /\ cap \in cs'[s].caps
BY Zenon DEF Circulating

(* A step after which every entry and every live set holds only what        *)
(* circulated before adds nothing to what circulates.                       *)
LEMMA NothingAdded ==
    ASSUME \A c \in Keys : caps'[c] \subseteq Circulating,
           \A s \in Sets : cs'[s].state = "alive" => cs'[s].caps \subseteq Circulating
    PROVE  Circulating' \subseteq Circulating
BY CirculatingMembers

(* The entries and the live sets themselves circulate. *)
LEMMA Circulates ==
    /\ \A c \in Keys : caps[c] \subseteq Circulating
    /\ \A s \in Sets : cs[s].state = "alive" => cs[s].caps \subseteq Circulating
BY CirculatingMembers

(* What a withdrawal leaves alone. *)
AbstractSame == UNCHANGED <<first_client_arrived, vip, status, minted>>

(* A step of the plugin that leaves the registry and the session alone and  *)
(* adds nothing is a withdrawal.                                            *)
LEMMA Withdrawal ==
    ASSUME Serving, UNCHANGED known_caps, AbstractSame,
           Circulating' \subseteq Circulating
    PROVE  Custody!Withdraw
BY DEF Custody!Withdraw, Custodian, Serving, AbstractSame

(* Each action of the plugin is an action of the custody or a stutter.      *)
LEMMA CustodyStep ==
    Inv /\ VipArrived /\ [Next]_vars => [Custody!Next]_(Custody!vars)
<1> SUFFICES ASSUME Inv, VipArrived, [Next]_vars
             PROVE  [Custody!Next]_(Custody!vars)
  OBVIOUS
<1> USE DEF Keys
<1>t. TypeOK /\ CapsConserved
  BY DEF Inv
<1>1. ASSUME Custody!Withdraw PROVE Custody!Next
  BY <1>1 DEF Custody!Next
<1>2. ASSUME NEW c \in Clients, Connect(c) PROVE Custody!Next
  <2>1. Circulating' \subseteq Circulating
    BY <1>2, Circulates, NothingAdded DEF Connect
  <2> QED
    BY <1>1, <1>2, <2>1, Withdrawal DEF Connect, AbstractSame, history
<1>3. ASSUME NEW c \in Clients, ClientGone(c) PROVE Custody!Next
  <2>1. /\ \A k \in Keys : caps'[k] \subseteq caps[k]
        /\ \A s \in Sets : cs'[s].state = "alive" => cs'[s] = cs[s]
    BY <1>t, <1>3 DEF ClientGone, EraseEntry, DestroySets, NoSet, TypeOK
  <2>2. Circulating' \subseteq Circulating
    BY <2>1, Circulates, NothingAdded
  <2>3. /\ Serving /\ UNCHANGED <<known_caps, first_client_arrived, minted>>
        /\ vip' = IF vip = c THEN NoClient ELSE vip
        /\ status' = StatusAfter(c) \/ status' = "aborted"
    BY <1>3 DEF ClientGone, DestroySets
  <2>4. CASE vip = c
    <3>1. first_client_arrived /\ vip # NoClient /\ vip' = NoClient
      BY <2>3, <2>4, NoClientAssumption DEF VipArrived
    <3>2. Custody!CustodianDies
      BY <2>2, <2>3, <3>1 DEF Custody!CustodianDies, Custodian, Serving
    <3> QED
      BY <3>2 DEF Custody!Next
  <2>5. CASE vip # c /\ status' = status
    BY <1>1, <2>2, <2>3, <2>5, Withdrawal DEF AbstractSame
  <2>6. CASE vip # c /\ status' = "aborted"
    <3>1. Custody!Abort
      BY <2>2, <2>3, <2>6 DEF Custody!Abort, Custodian, Serving
    <3> QED
      BY <3>1 DEF Custody!Next
  <2> QED
    BY <2>3, <2>4, <2>5, <2>6 DEF StatusAfter
<1>4. ASSUME NEW c \in Clients, BindCaps(c) PROVE Custody!Next
  <2>1. CASE first_client_arrived
    <3>1. UNCHANGED <<caps, cs, known_caps>> /\ Serving /\ AbstractSame
      BY <1>4, <2>1 DEF BindCaps, AbstractSame
    <3>2. Circulating' \subseteq Circulating
      BY <3>1, Circulates, NothingAdded
    <3> QED
      BY <1>1, <3>1, <3>2, Withdrawal
  <2>2. CASE ~first_client_arrived
    <3>1. /\ caps' = [caps EXCEPT ![c] = known_caps]
          /\ UNCHANGED <<cs, known_caps, status>> /\ Serving
          /\ first_client_arrived' /\ vip' = c
          /\ minted' = minted \cup known_caps
      BY <1>4, <2>2 DEF BindCaps
    <3>2. caps[c] \subseteq known_caps
      BY <1>t, EntryKnown
    <3>3. Circulating' = Circulating \cup known_caps
      BY <1>t, <3>1, <3>2, CirculatingMembers DEF TypeOK
    <3>4. Custody!CustodianArrives
      BY <2>2, <3>1, <3>3, NoClientAssumption
         DEF Custody!CustodianArrives, Custodian, Serving
    <3> QED
      BY <3>4 DEF Custody!Next
  <2> QED
    BY <2>1, <2>2
<1>5. ASSUME NEW c \in Clients, NEW cap \in Caps, ApiCheck(c, cap) PROVE Custody!Next
  <2>1. Circulating' \subseteq Circulating
    BY <1>5, Circulates, NothingAdded DEF ApiCheck
  <2> QED
    BY <1>1, <1>5, <2>1, Withdrawal DEF ApiCheck, AbstractSame, session, history
<1>6. ASSUME NEW c \in Clients, NEW cap \in Caps, ApiGrant(c, cap) PROVE Custody!Next
  <2>1. Circulating' = Circulating \cup {cap}
    BY <1>t, <1>6, CirculatingMembers DEF ApiGrant, TypeOK
  <2>2. Custody!PluginGrants(cap)
    BY <1>6, <2>1
       DEF ApiGrant, Created, Custody!PluginGrants, Custodian, Serving, session, history
  <2> QED
    BY <2>2 DEF Custody!Next
<1>7. ASSUME NEW c \in Clients, NEW cap \in Caps, ApiRevoke(c, cap) PROVE Custody!Next
  <2>1. Circulating' \subseteq Circulating
    BY <1>t, <1>7, Circulates, NothingAdded DEF ApiRevoke, TypeOK
  <2> QED
    BY <1>1, <1>7, <2>1, Withdrawal DEF ApiRevoke, AbstractSame, session, history
<1>8. ASSUME NEW cap \in Caps, ApiCreate(cap) PROVE Custody!Next
  <2>1. Circulating' = Circulating
    BY <1>8 DEF ApiCreate, Circulating
  <2>2. Custody!Register(cap)
    BY <1>8, <2>1 DEF ApiCreate, Custody!Register, Custodian, Serving, session, history
  <2> QED
    BY <2>2 DEF Custody!Next
<1>9. ASSUME NEW c \in Clients, NEW s \in Sets, CreateCapabilitySet(c, s)
      PROVE Custody!Next
  <2>1. Circulating' \subseteq Circulating
    BY <1>t, <1>9, Circulates, NothingAdded DEF CreateCapabilitySet, TypeOK
  <2> QED
    BY <1>1, <1>9, <2>1, Withdrawal DEF CreateCapabilitySet, AbstractSame, session, history
<1>10. ASSUME NEW c \in Clients, NEW s \in Sets, NEW cap \in Caps, CsGrant(c, s, cap)
       PROVE Custody!Next
  <2>1. Circulating' \subseteq Circulating
    BY <1>t, <1>10, Circulates, NothingAdded DEF CsGrant, Usable, Grantable, TypeOK
  <2> QED
    BY <1>1, <1>10, <2>1, Withdrawal DEF CsGrant, Usable, AbstractSame, session, history
<1>11. ASSUME NEW c \in Clients, NEW s \in Sets, NEW n \in Clients, CsSpawn(c, s, n)
       PROVE Custody!Next
  <2>1. Circulating' \subseteq Circulating
    BY <1>t, <1>11, Circulates, NothingAdded DEF CsSpawn, SpawnedCaps, Usable, TypeOK
  <2> QED
    BY <1>1, <1>11, <2>1, Withdrawal DEF CsSpawn, Usable, AbstractSame, history
<1>12. ASSUME NEW c \in Clients, NEW s \in Sets, CsSpawnNoClient(c, s)
       PROVE Custody!Next
  <2>1. Circulating' \subseteq Circulating
    BY <1>t, <1>12, Circulates, NothingAdded
       DEF CsSpawnNoClient, SpawnedCaps, Usable, TypeOK
  <2> QED
    BY <1>1, <1>12, <2>1, Withdrawal DEF CsSpawnNoClient, Usable, AbstractSame, session, history
<1>13. ASSUME NEW c \in Clients, NEW s \in Sets, CsDestroy(c, s) PROVE Custody!Next
  <2>1. Circulating' \subseteq Circulating
    BY <1>t, <1>13, Circulates, NothingAdded DEF CsDestroy, TypeOK
  <2> QED
    BY <1>1, <1>13, <2>1, Withdrawal DEF CsDestroy, Usable, AbstractSame, session, history
<1>14. CASE Terminate
  <2>1. Circulating' = Circulating
    BY <1>14 DEF Terminate, Circulating
  <2>2. Custody!Stop
    BY <1>14, <2>1 DEF history, Terminate, VipArrived, Custody!Stop, Custodian, Serving
  <2> QED
    BY <2>2 DEF Custody!Next
<1>15. CASE UNCHANGED vars
  BY <1>15 DEF vars, Custody!vars, Custodian, Serving, Circulating
<1> QED
  BY <1>2, <1>3, <1>4, <1>5, <1>6, <1>7, <1>8, <1>9, <1>10, <1>11, <1>12, <1>13,
     <1>14, <1>15
     DEF Next, ClientStep, SetStep, Disconnect, CsGrantRefused, CsSpawnNoSocket

(* The plugin implements the abstract custody, for every number of clients, *)
(* capabilities and sets: capabilities enter circulation only with the      *)
(* first client's arrival or a plugin's grant, there is one first client,   *)
(* and the loop ends only after its death.                                  *)
THEOREM Refinement == Spec => Custody!Init /\ [][Custody!Next]_(Custody!vars)
<1>1. Init => Custody!Init
  <2> SUFFICES ASSUME Init PROVE Custody!Init
    OBVIOUS
  <2>1. \A cap : cap \notin Circulating
    BY CirculatingMembers DEF Init, NoSet
  <2> QED
    BY <2>1 DEF Init, Custody!Init, Custodian, Serving
<1>2. Init => VipArrived
  BY DEF Init, VipArrived
<1>3. Spec => []VipArrived
  BY <1>2, ArrivalStep, PTL DEF Spec
<1> QED
  BY <1>1, <1>3, Invariance, CustodyStep, PTL DEF Spec

=============================================================================
