--------------------------- MODULE MCCapabilities ---------------------------
(* Small instances of the capabilities plugin for TLC. *)
EXTENDS Capabilities, TLC

(* Addresses, names and resources are interchangeable.  Symmetry is used    *)
(* only by runs without a liveness property.                                *)
Interchangeable ==
    Permutations(Clients) \cup Permutations(Caps) \cup Permutations(Sets)

=============================================================================
