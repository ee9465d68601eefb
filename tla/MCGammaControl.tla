--------------------------- MODULE MCGammaControl ---------------------------
(* Small instances of GammaControl for TLC. *)
EXTENDS GammaControl, TLC

Interchangeable == Permutations(Clients) \cup Permutations(Controls)

=============================================================================
