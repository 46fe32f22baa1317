---------------------------------- MODULE AtomicMap ----------------------------------
(***************************************************************************)
(* What the hash map promises to the cache, and what the modules Drain,    *)
(* WriteBehind and Loading assume of it: a function from keys to nodes     *)
(* that changes when a writer's call takes effect, once, on its key, and   *)
(* reads that answer with a node the key has had at some moment of the     *)
(* read.                                                                   *)
(***************************************************************************)
CONSTANTS Keys, Procs, None

VARIABLES
    contents,  \* the node of each key, or None
    writing,   \* the key each process is about to write, or None
    reading,   \* the key each process is reading, or None
    seen,      \* what that key has held since
    got        \* what the last read of each process has answered

mapVars == <<contents, writing, reading, seen, got>>

Init ==
    /\ contents \in [Keys -> {None} \cup (Keys \X {None})]
    /\ \A k \in Keys : contents[k] \in {None, <<k, None>>}
    /\ writing = [p \in Procs |-> None]
    /\ reading = [p \in Procs |-> None]
    /\ seen = [p \in Procs |-> {}]
    /\ got = [p \in Procs |-> None]

Read(p) ==
    /\ reading[p] = None
    /\ \E k \in Keys :
         /\ reading' = [reading EXCEPT ![p] = k]
         /\ seen' = [seen EXCEPT ![p] = {contents[k]}]
    /\ UNCHANGED <<contents, writing, got>>

Answer(p) ==
    /\ reading[p] # None
    /\ \E n \in seen[p] : got' = [got EXCEPT ![p] = n]
    /\ reading' = [reading EXCEPT ![p] = None]
    /\ seen' = [seen EXCEPT ![p] = {}]
    /\ UNCHANGED <<contents, writing>>

BeginWrite(p) ==
    /\ writing[p] = None
    /\ \E k \in Keys : writing' = [writing EXCEPT ![p] = k]
    /\ UNCHANGED <<contents, reading, seen, got>>

\* The key gets a node of this process, loses its node, or keeps it.
Write(p) ==
    LET k == writing[p]
    IN  /\ k # None
        /\ writing' = [writing EXCEPT ![p] = None]
        /\ \E n \in {contents[k], None, <<k, p>>} :
             /\ contents' = [contents EXCEPT ![k] = n]
             /\ seen' = [q \in Procs |-> IF reading[q] = k THEN seen[q] \cup {n} ELSE seen[q]]
        /\ UNCHANGED <<reading, got>>

Next == \E p \in Procs : Read(p) \/ Answer(p) \/ BeginWrite(p) \/ Write(p)

Spec == Init /\ [][Next]_mapVars

=============================================================================
