------------------------------ MODULE MCRouter ------------------------------
(***************************************************************************)
(* Router for TLC: connections and buffers are interchangeable.            *)
(***************************************************************************)
EXTENDS RouterRefinement, TLC

Symmetry == Permutations(Conns) \cup Permutations(Bufs) \cup Permutations(Clients)

=============================================================================
