---------------------------- MODULE MCExtentCache ----------------------------
(* Bounded instances of ExtentCache: the clients are interchangeable. *)
EXTENDS ExtentCache, TLC

CONSTANTS c1, c2

Clients == {c1, c2}
Symmetry == Permutations(Clients)
=============================================================================
