---------------------------------- MODULE MCWriteBehind ----------------------------------
(* Instances of WriteBehind for TLC. *)
EXTENDS WriteBehind, TLC

\* Clients and keys are interchangeable (not used with liveness).
Symmetry == Permutations(Clients) \cup Permutations(Keys)

=============================================================================
