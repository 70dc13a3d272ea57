------------------------- MODULE MC_SessionRegistry -------------------------
(* Model checking of SessionRegistry: the client tasks are interchangeable. *)
EXTENDS SessionRegistry, TLC

Symmetry == Permutations(Clients)
=============================================================================
