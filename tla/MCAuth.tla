------------------------------- MODULE MCAuth -------------------------------
(***************************************************************************)
(* Auth for TLC: keys are interchangeable, and so are connections.         *)
(***************************************************************************)
EXTENDS Auth, TLC

Symmetry == Permutations(Conns) \cup Permutations(Keys)

=============================================================================
