---------------------------- MODULE MCStateHandlers ----------------------------
(* Sockets are alike: symmetry is sound for these invariants. *)
EXTENDS StateHandlers, TLC
CONSTANTS h1, h2, n1, n2, n3
Alike == Permutations(Sockets) \cup Permutations(Handlers)
=============================================================================
