----------------------------- MODULE MCHashMap -----------------------------
(* Module HashMap for TLC. *)
EXTENDS HashMap, TLC

CONSTANTS k1, k2, r, w1, w2

\* Two keys that always collide in their tag, and meet in one bucket or not,
\* depending on the table.
MCHashes ==
    { (k1 :> [h1 |-> 0, h2 |-> "a"] @@ k2 :> [h1 |-> 0, h2 |-> "a"]),
      (k1 :> [h1 |-> 0, h2 |-> "a"] @@ k2 :> [h1 |-> 1, h2 |-> "a"]) }

\* One that reads, two that write.
MCOps == r :> {"get", "range"} @@ w1 :> {"set", "delete"} @@ w2 :> {"set", "delete"}
MCMaxCalls == r :> 1 @@ w1 :> 1 @@ w2 :> 1

Symmetry == Permutations({w1, w2})

=============================================================================
