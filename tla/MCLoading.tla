----------------------------- MODULE MCLoading -----------------------------
(* Module Loading for TLC: the agents and the keys are interchangeable. *)
EXTENDS Loading, TLC

CONSTANTS a1, a2, a3, k1, k2

\* One key with everything that can happen to it; two keys, and the bulk operations;
\* and bulk loaders that panic, where the panic reaches the caller.
MCScenarios ==
    {[agents |-> {a1, a2, a3}, keys |-> {k1}, extras |-> FALSE,
      ops |-> {"get", "refresh", "set", "invalidate", "evict"},
      outcomes |-> {"value", "notFound", "error", "panic"}],
     [agents |-> {a1, a2}, keys |-> {k1, k2}, extras |-> TRUE,
      ops |-> {"get", "bulkGet", "bulkRefresh", "set", "invalidate"},
      outcomes |-> {"value", "notFound", "error"}],
     [agents |-> {a1, a2}, keys |-> {k1, k2}, extras |-> TRUE,
      ops |-> {"get", "bulkGet", "set", "invalidate"}, outcomes |-> {"value", "panic"}]}

Symmetry == Permutations(Agents) \cup Permutations(Keys)

=============================================================================
