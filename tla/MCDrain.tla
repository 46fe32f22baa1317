---------------------------------- MODULE MCDrain ----------------------------------
(* Instances of Drain for TLC. *)
EXTENDS Drain, TLC

\* The agents of a kind are interchangeable (not used with liveness).
Symmetry == Permutations(Clients) \cup Permutations(Drainers)

=============================================================================
