-------------------------- MODULE CapabilityCustody --------------------------
(***************************************************************************)
(* What the capabilities plugin promises, without clients, maps or sets:   *)
(* capabilities enter circulation only when the custodian (the first       *)
(* client) arrives or when a plugin grants a registered one, whatever      *)
(* clients delegate to each other; there is one custodian in the life of   *)
(* the compositor; and the compositor does not outlive it for long.        *)
(***************************************************************************)
CONSTANT Caps

VARIABLES registry,     \* the capabilities that plugins have created
          issued,       \* those that the custodian or a plugin's grant brought in
          circulating,  \* the capabilities anybody holds or could hand on
          custodian,    \* "awaited", "present" or "gone"
          up            \* the compositor's event loop runs

vars == <<registry, issued, circulating, custodian, up>>

Init ==
    /\ registry = {}
    /\ issued = {}
    /\ circulating = {}
    /\ custodian = "awaited"
    /\ up = TRUE

Register(cap) ==
    /\ up
    /\ registry' = registry \cup {cap}
    /\ UNCHANGED <<issued, circulating, custodian, up>>

CustodianArrives ==
    /\ up
    /\ custodian = "awaited"
    /\ custodian' = "present"
    /\ issued' = issued \cup registry
    /\ circulating' = circulating \cup registry
    /\ UNCHANGED <<registry, up>>

PluginGrants(cap) ==
    /\ up
    /\ cap \in registry
    /\ issued' = issued \cup {cap}
    /\ circulating' = circulating \cup {cap}
    /\ UNCHANGED <<registry, custodian, up>>

(* delegation, revocation, death of a client: nothing new circulates *)
Withdraw ==
    /\ up
    /\ circulating' \subseteq circulating
    /\ UNCHANGED <<registry, issued, custodian, up>>

CustodianDies ==
    /\ up
    /\ custodian = "present"
    /\ custodian' = "gone"
    /\ circulating' \subseteq circulating
    /\ UNCHANGED <<registry, issued>>
    /\ up' \in BOOLEAN

Stop ==
    /\ up
    /\ custodian = "gone"
    /\ up' = FALSE
    /\ UNCHANGED <<registry, issued, circulating, custodian>>

(* the compositor may abort when the objects of a client are torn down *)
Abort ==
    /\ up
    /\ up' = FALSE
    /\ circulating' \subseteq circulating
    /\ UNCHANGED <<registry, issued, custodian>>

Next ==
    \/ \E cap \in Caps : Register(cap) \/ PluginGrants(cap)
    \/ CustodianArrives
    \/ Withdraw
    \/ CustodianDies
    \/ Stop
    \/ Abort

Spec == Init /\ [][Next]_vars /\ WF_vars(Stop)

=============================================================================
