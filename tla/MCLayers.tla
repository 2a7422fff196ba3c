------------------------------ MODULE MCLayers ------------------------------
(* Layers and clients are interchangeable.                                 *)
EXTENDS Layers, TLC

Interchangeable == Permutations(Layers) \cup Permutations(Clients)
=============================================================================
