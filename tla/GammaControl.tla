---------------------------- MODULE GammaControl ----------------------------
(***************************************************************************)
(* Gamma controls (gamma-control.cpp): an object through which a client    *)
(* writes the gamma table of an output.  A control k stands for the        *)
(* gamma_context and its resource, which are created together.             *)
(***************************************************************************)
CONSTANTS Clients,
          Controls,
          Heads,    \* weston_head objects, all of them with a wl_output
          Capable,  \* heads whose output has a set_gamma function
          None      \* the null pointer; also the original gamma table

ASSUME GammaConstants ==
    /\ Capable \subseteq Heads
    /\ None \notin Clients \cup Controls

VARIABLES running,    \* FALSE once the compositor has crashed
          up,         \* heads that have an output
          heap,       \* controls whose gamma_context is allocated
          user_data,  \* controls whose resource points to their context
          res,        \* the client that has the resource
          head,       \* gamma_context::head
          failed,     \* controls that were sent the failed event
          table       \* the control that wrote the table of a head's output

vars == <<running, up, heap, user_data, res, head, failed, table>>

(* A context only ever names a head whose output had a set_gamma function   *)
(* when the control was made (83), which is what is called later (62).      *)
TypeOK ==
    /\ running \in BOOLEAN
    /\ up \subseteq Heads
    /\ heap \subseteq Controls /\ user_data \subseteq Controls
    /\ res \in [Controls -> Clients \cup {None}]
    /\ head \in [Controls -> Capable \cup {None}]
    /\ failed \subseteq Controls
    /\ table \in [Heads -> Controls \cup {None}]

Init ==
    /\ running = TRUE
    /\ up = Heads
    /\ heap = {} /\ user_data = {} /\ failed = {}
    /\ res = [k \in Controls |-> None]
    /\ head = [k \in Controls |-> None]
    /\ table = [h \in Heads |-> None]

(* head->output is null: the access through it crashes the compositor *)
Crash ==
    /\ running' = FALSE
    /\ UNCHANGED <<up, heap, user_data, res, head, failed, table>>

(* Mutant: the output is taken as it comes. *)
HasSetGammaAny(h) == TRUE

HasSetGamma(h) == h \in Capable

(* get_gamma_control.  Without a set_gamma function the context is deleted  *)
(* again; the resource stays.                                              *)
GetGammaControl(c, k, h) ==
    /\ running
    /\ res[k] = None
    /\ \/ h \notin up /\ Crash
       \/ /\ h \in up
          /\ res' = [res EXCEPT ![k] = c]
          /\ \/ /\ HasSetGamma(h)
                /\ heap' = heap \cup {k} /\ user_data' = user_data \cup {k}
                /\ head' = [head EXCEPT ![k] = h]
                /\ UNCHANGED failed
             \/ /\ ~HasSetGamma(h)
                /\ failed' = failed \cup {k}
                /\ UNCHANGED <<heap, user_data, head>>
          /\ UNCHANGED <<running, up, table>>

(* Mutant: the destructor leaves the resource pointing to the context. *)
PointersKept(K) == user_data

PointersWithout(K) == user_data \ K

HeadsWithout(K) == [k \in Controls |-> IF k \in K THEN None ELSE head[k]]

(* ~gamma_context of the controls in K; the tables stay as they are *)
DeleteContexts(K) ==
    /\ heap' = heap \ K
    /\ user_data' = PointersWithout(K)
    /\ head' = HeadsWithout(K)

SetGamma(k) ==
    /\ running
    /\ k \in user_data
    /\ head[k] \in up
    /\ table' = [table EXCEPT ![head[k]] = k]
    /\ UNCHANGED <<running, up, heap, user_data, res, head, failed>>

SetGammaNoOutput(k) ==
    /\ running
    /\ k \in user_data
    /\ head[k] \notin up
    /\ Crash

(* Mutant: the context lives on after the failed event. *)
FailedKept(k) == {}

DeletedWhenFailed(k) == {k}

(* the table cannot be read from the file descriptor *)
SetGammaUnread(k) ==
    /\ running
    /\ k \in user_data
    /\ head[k] \in up
    /\ failed' = failed \cup {k}
    /\ DeleteContexts(DeletedWhenFailed(k))
    /\ UNCHANGED <<running, up, res, table>>

(* wl_client_destroy: control_destructor on each resource of the client *)
ClientGone(c) ==
    LET K == {k \in Controls : res[k] = c}
    IN /\ DeleteContexts(K \cap user_data)
       /\ res' = [k \in Controls |-> IF k \in K THEN None ELSE res[k]]
       /\ failed' = failed \ K
       /\ UNCHANGED <<running, up, table>>

(* the file has the wrong size: a protocol error *)
SetGammaWrongSize(k) ==
    /\ running
    /\ k \in user_data
    /\ head[k] \in up
    /\ ClientGone(res[k])

Disconnect(c) == running /\ ClientGone(c)

(* destroy_control: the resource stays *)
DestroyControl(k) ==
    /\ running
    /\ k \in user_data
    /\ DeleteContexts({k})
    /\ UNCHANGED <<running, up, res, failed, table>>

OutputGone(h) ==
    /\ running
    /\ h \in up
    /\ up' = up \ {h}
    /\ table' = [table EXCEPT ![h] = None]
    /\ UNCHANGED <<running, heap, user_data, res, head, failed>>

OutputBack(h) ==
    /\ running
    /\ up' = up \cup {h}
    /\ UNCHANGED <<running, heap, user_data, res, head, failed, table>>

Next ==
    \/ \E c \in Clients, k \in Controls, h \in Heads : GetGammaControl(c, k, h)
    \/ \E k \in Controls : \/ SetGamma(k) \/ SetGammaNoOutput(k) \/ SetGammaUnread(k)
                           \/ SetGammaWrongSize(k) \/ DestroyControl(k)
    \/ \E c \in Clients : Disconnect(c)
    \/ \E h \in Heads : OutputGone(h) \/ OutputBack(h)

Spec == Init /\ [][Next]_vars

-----------------------------------------------------------------------------
(* A resource points to its context exactly while that is allocated, so a   *)
(* request that follows a failure, or the destruction of the resource after *)
(* the destroy request (66-76), never meets a deleted context; and a        *)
(* context has its resource, which its destructor writes to (24).           *)
PointersAgree ==
    /\ user_data = heap
    /\ \A k \in heap : res[k] # None /\ head[k] \in Heads

(* "This event indicates that the gamma control is no longer valid": after  *)
(* failed was sent (57, 85) nothing the client asks through the control     *)
(* reaches the hardware.                                                   *)
FailedIsInert ==
    [][\A h \in Heads : table'[h] # table[h] => table'[h] \notin failed]_vars

=============================================================================
