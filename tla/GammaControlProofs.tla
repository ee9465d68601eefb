------------------------- MODULE GammaControlProofs -------------------------
(***************************************************************************)
(* Proofs about gamma controls, for any number of clients, controls and    *)
(* heads.                                                                  *)
(***************************************************************************)
EXTENDS GammaControl, TLAPS

(* A control that failed has lost its context, and still has its resource. *)
FailedDetached == \A k \in failed : k \notin heap /\ res[k] # None

Inv == TypeOK /\ PointersAgree /\ FailedDetached

(* Deleting contexts takes their pointers along, whatever else the step     *)
(* does to the resources of other controls.                                *)
LEMMA DeleteStep ==
    ASSUME Inv, NEW K \in SUBSET Controls, DeleteContexts(K),
           res' \in [Controls -> Clients \cup {None}],
           \A k \in Controls \ K : k \in heap => res'[k] # None,
           failed' \subseteq failed \cup K,
           \A k \in failed' : res'[k] # None,
           UNCHANGED <<running, up, table>>
    PROVE  Inv'
BY DEF Inv, TypeOK, PointersAgree, FailedDetached, DeleteContexts, PointersWithout,
       HeadsWithout

(* Each request, failure, death and change of outputs keeps resource,       *)
(* pointer and context together.                                           *)
LEMMA InvStep == Inv /\ [Next]_vars => Inv'
<1> SUFFICES ASSUME Inv, [Next]_vars PROVE Inv'
  OBVIOUS
<1> USE GammaConstants
<1>1. ASSUME NEW c \in Clients, NEW k \in Controls, NEW h \in Heads,
             GetGammaControl(c, k, h)
      PROVE  Inv'
  <2> USE <1>1 DEF GetGammaControl, HasSetGamma
  <2> c # None /\ k \notin heap /\ k \notin failed
    BY DEF Inv, PointersAgree, FailedDetached
  <2>1. CASE Crash
    BY <2>1 DEF Crash, Inv, TypeOK, PointersAgree, FailedDetached
  <2>2. CASE /\ res' = [res EXCEPT ![k] = c]
             /\ heap' = heap \cup {k} /\ user_data' = user_data \cup {k}
             /\ head' = [head EXCEPT ![k] = h] /\ h \in Capable
             /\ UNCHANGED <<failed, running, up, table>>
    <3> HIDE <1>1 DEF GetGammaControl, HasSetGamma
    <3>1. TypeOK'
      BY <2>2 DEF Inv, TypeOK
    <3>2. PointersAgree' /\ FailedDetached'
      BY <2>2 DEF Inv, TypeOK, PointersAgree, FailedDetached
    <3> QED
      BY <3>1, <3>2 DEF Inv
  <2>3. CASE /\ res' = [res EXCEPT ![k] = c]
             /\ failed' = failed \cup {k}
             /\ UNCHANGED <<heap, user_data, head, running, up, table>>
    <3> HIDE <1>1 DEF GetGammaControl, HasSetGamma
    <3> QED
      BY <2>3 DEF Inv, TypeOK, PointersAgree, FailedDetached
  <2> QED
    BY <2>1, <2>2, <2>3
<1>2. ASSUME NEW k \in Controls, SetGamma(k) PROVE Inv'
  BY <1>2 DEF SetGamma, Inv, TypeOK, PointersAgree, FailedDetached
<1>3. ASSUME NEW k \in Controls, SetGammaNoOutput(k) PROVE Inv'
  BY <1>3 DEF SetGammaNoOutput, Crash, Inv, TypeOK, PointersAgree, FailedDetached
<1>4. ASSUME NEW k \in Controls, SetGammaUnread(k) PROVE Inv'
  <2>1. /\ DeleteContexts({k}) /\ failed' = failed \cup {k}
        /\ UNCHANGED <<running, up, table>> /\ res' = res /\ k \in user_data
    BY <1>4 DEF SetGammaUnread, DeletedWhenFailed
  <2>2. /\ {k} \in SUBSET Controls
        /\ res' \in [Controls -> Clients \cup {None}]
    BY <2>1 DEF Inv, TypeOK
  <2>3. /\ \A j \in Controls \ {k} : j \in heap => res'[j] # None
        /\ \A j \in failed' : res'[j] # None
    BY <2>1 DEF Inv, PointersAgree, FailedDetached
  <2> QED
    BY <2>1, <2>2, <2>3, DeleteStep
<1>5. ASSUME NEW c \in Clients, ClientGone(c) PROVE Inv'
  <2> DEFINE K == {k \in Controls : res[k] = c}
  <2>1. /\ DeleteContexts(K \cap user_data) /\ UNCHANGED <<running, up, table>>
        /\ res' = [k \in Controls |-> IF k \in K THEN None ELSE res[k]]
        /\ failed' = failed \ K
    BY <1>5 DEF ClientGone
  <2>2. \A k \in Controls \ (K \cap user_data) : k \in heap => res'[k] # None
    BY <2>1 DEF Inv, PointersAgree
  <2>3. \A k \in failed' : res'[k] # None
    BY <2>1 DEF Inv, FailedDetached, TypeOK
  <2>4. res' \in [Controls -> Clients \cup {None}]
    BY <2>1 DEF Inv, TypeOK
  <2> QED
    BY <2>1, <2>2, <2>3, <2>4, DeleteStep
<1>6. ASSUME NEW k \in Controls, SetGammaWrongSize(k) PROVE Inv'
  BY <1>5, <1>6 DEF SetGammaWrongSize, Inv, TypeOK, PointersAgree
<1>7. ASSUME NEW k \in Controls, DestroyControl(k) PROVE Inv'
  BY <1>7, DeleteStep DEF DestroyControl, Inv, TypeOK, PointersAgree, FailedDetached
<1>8. ASSUME NEW h \in Heads, OutputGone(h) \/ OutputBack(h) PROVE Inv'
  BY <1>8 DEF OutputGone, OutputBack, Inv, TypeOK, PointersAgree, FailedDetached
<1>9. CASE UNCHANGED vars
  BY <1>9 DEF vars, Inv, TypeOK, PointersAgree, FailedDetached
<1> QED
  BY <1>1, <1>2, <1>3, <1>4, <1>5, <1>6, <1>7, <1>8, <1>9 DEF Next, Disconnect

(* The invariant holds throughout. *)
LEMMA Invariance == Spec => []Inv
<1>1. Init => Inv
  BY GammaConstants DEF Init, Inv, TypeOK, PointersAgree, FailedDetached
<1> QED
  BY <1>1, InvStep, PTL DEF Spec

(* The state of the controls always has its declared shape. *)
THEOREM TypeCorrect == Spec => []TypeOK
BY Invariance, PTL DEF Inv

(* No resource ever points to a deleted context, and none is deleted twice. *)
THEOREM Pointers == Spec => []PointersAgree
BY Invariance, PTL DEF Inv

(* A control that was sent the failed event never writes a table again: a   *)
(* table is written through the pointer to the context, which is gone.      *)
THEOREM InertAfterFailure == Spec => FailedIsInert
<1> DEFINE Inert == \A h \in Heads : table'[h] # table[h] => table'[h] \notin failed
<1>1. Inv /\ [Next]_vars => [Inert]_vars
  <2> SUFFICES ASSUME Inv, [Next]_vars, NEW h \in Heads, table'[h] # table[h]
               PROVE  table'[h] \notin failed
    OBVIOUS
  <2>1. None \notin failed
    BY GammaConstants DEF Inv, TypeOK
  <2>2. CASE \E k \in Controls : SetGamma(k)
    BY <2>2 DEF SetGamma, Inv, TypeOK, PointersAgree, FailedDetached
  <2>3. CASE \E g \in Heads : OutputGone(g)
    BY <2>1, <2>3 DEF OutputGone, Inv, TypeOK
  <2>4. CASE UNCHANGED table
    BY <2>4
  <2> QED
    BY <2>2, <2>3, <2>4
       DEF Next, GetGammaControl, Crash, SetGammaNoOutput, SetGammaUnread,
           SetGammaWrongSize, ClientGone, DestroyControl, Disconnect, OutputBack, vars
<1> QED
  BY <1>1, Invariance, PTL DEF Spec, FailedIsInert

=============================================================================
