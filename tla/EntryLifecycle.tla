------------------------------- MODULE EntryLifecycle -------------------------------
(***************************************************************************)
(* What the cache promises about each entry, whatever the interleaving     *)
(* (options.go, OnDeletion and OnAtomicDeletion): a key is bound to at most *)
(* one entry, an entry leaves the map once, for one cause, and the         *)
(* deletion listener is told of it once, afterwards, with the same cause.  *)
(***************************************************************************)
EXTENDS Naturals

CONSTANTS Keys, Entries, NoEntry

Causes == {"replacement", "invalidation", "overflow"}

VARIABLES
    store,   \* the entry bound to each key
    stage,   \* "unborn", "present", "removed", "told"
    cause    \* why an entry was removed

lifecycleVars == <<store, stage, cause>>

Init ==
    /\ store = [k \in Keys |-> NoEntry]
    /\ stage = [e \in Entries |-> "unborn"]
    /\ cause = [e \in Entries |-> "none"]

\* A new entry takes the key; the one before it, if any, is replaced.
Put(k, e) ==
    /\ stage[e] = "unborn"
    /\ store' = [store EXCEPT ![k] = e]
    /\ stage' = [x \in Entries |-> IF x = e THEN "present"
                                   ELSE IF x = store[k] THEN "removed" ELSE stage[x]]
    /\ cause' = [x \in Entries |-> IF x = store[k] THEN "replacement" ELSE cause[x]]

\* The entry of a key goes, and the listener will be told, or is told at once.
Remove(k, why, next) ==
    /\ store[k] # NoEntry
    /\ store' = [store EXCEPT ![k] = NoEntry]
    /\ stage' = [stage EXCEPT ![store[k]] = next]
    /\ cause' = [cause EXCEPT ![store[k]] = why]

Tell(e) ==
    /\ stage[e] = "removed"
    /\ stage' = [stage EXCEPT ![e] = "told"]
    /\ UNCHANGED <<store, cause>>

Next ==
    \/ \E k \in Keys, e \in Entries : Put(k, e)
    \/ \E k \in Keys, why \in Causes, next \in {"removed", "told"} : Remove(k, why, next)
    \/ \E e \in Entries : Tell(e)

Spec == Init /\ [][Next]_lifecycleVars

=============================================================================
