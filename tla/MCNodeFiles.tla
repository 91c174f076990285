---------------------------- MODULE MCNodeFiles -----------------------------
(***************************************************************************)
(* NodeFiles for TLC.                                                      *)
(***************************************************************************)
EXTENDS NodeFiles, TLC

Symmetry == Permutations(Procs) \cup Permutations(Users)

\* The daemon and the clients use different files: every step of one commutes
\* with every step of the other, and no property is about both, so that states
\* in which both have started need not be expanded.
Apart == starts = 0 \/ loads = 0

=============================================================================
