----------------------------- MODULE MCMPSC -----------------------------
(* Module MPSC for TLC. *)
EXTENDS MPSC, TLC

\* The producers are interchangeable (not used with liveness).
Symmetry == Permutations(Producers)

=============================================================================
