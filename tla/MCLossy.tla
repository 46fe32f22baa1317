------------------------------ MODULE MCLossy ------------------------------
(* Module Lossy for TLC: a reader that may collide twice with two others. *)
EXTENDS Lossy, TLC

CONSTANTS r1, r2, r3

MCMaxAdds == r1 :> 1 @@ r2 :> 1 @@ r3 :> 1

Symmetry == Permutations(Readers)

=============================================================================
