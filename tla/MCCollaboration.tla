--------------------------- MODULE MCCollaboration ---------------------------
(* Two users, the first with two sockets; every layer is of one design.    *)
EXTENDS Collaboration, TLC

CONSTANTS ann, bob, a1, a2, b1, shirt

TwoUsers == (a1 :> ann) @@ (a2 :> ann) @@ (b1 :> bob)
AllOfShirt == [l \in Layers |-> shirt]

Interchangeable == Permutations(Tasks) \cup Permutations(Layers) \cup Permutations({a1, a2})
=============================================================================
