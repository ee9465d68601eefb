---------------------------- MODULE MCLayerShell ----------------------------
(* Small instances of LayerShell for TLC. *)
EXTENDS LayerShell, TLC

Interchangeable ==
    Permutations(Clients) \cup Permutations(Surfaces) \cup Permutations(Ctxs)

=============================================================================
