------------------------------ MODULE Loading ------------------------------
(***************************************************************************)
(* Loading through the cache (singleflight.go, and Get, BulkGet, Refresh,  *)
(* BulkRefresh of cache_impl.go): one call per key is registered in the    *)
(* singleflight table, the goroutine that registered it runs the loader    *)
(* and installs the result, the others wait.  Explicit writes and          *)
(* evictions cancel the call of their key.                                 *)
(*                                                                         *)
(* An agent is one operation: a goroutine inside a public method, or the   *)
(* executor goroutine of a refresh.  The call that agent a registers for   *)
(* key k is named <<a, k>>, and so is the node it installs.  What an       *)
(* installed node means to the policy is the subject of WriteBehind.       *)
(***************************************************************************)
EXTENDS Naturals, FiniteSets

CONSTANTS
    Agents,
    Keys,
    Scenarios,  \* the bounds: the agents, the keys and the operations in use, what a
                \* loader may do, and whether a bulk loader may return keys it was
                \* not asked for
    Nobody

Loads  == {"get", "bulkGet", "refresh", "bulkRefresh"}
Writes == {"set", "invalidate", "evict"}

ASSUME LoadingAssumption ==
    /\ Nobody \notin Agents
    /\ \A s \in Scenarios :
         /\ s.agents \subseteq Agents /\ s.keys \subseteq Keys /\ s.ops \subseteq Loads \cup Writes
         /\ s.outcomes \subseteq {"value", "notFound", "error", "panic"}
         /\ s.extras \in BOOLEAN

Calls == Agents \X Keys

\* A node: the agent that created it, and whether it is an extra of its bulk load.
Nodes  == (Agents \cup {Nobody}) \X BOOLEAN
NoNode == <<>>

VARIABLES
    scenario,    \* the one this behaviour is about
    cached,      \* the hash map
    bucket,      \* who has locked the bucket of a key
    registered,  \* the singleflight table: the agent that owns the key's call
    outcome,     \* what the loader did for a call
    finished,    \* the calls whose wait group is done
    pc, op,
    keys,        \* the keys of an operation
    todo,        \* those the loop an agent is in has still to visit
    found,       \* those its lookup has found in the map
    owned,       \* those of its calls that it has still to load
    joined,      \* the calls of others it waits for
    batch,       \* the calls of the last load it has still to finish
    extras,      \* the extra keys of that load
    current,     \* the key whose bucket it holds
    correct,     \* isCorrectCall of afterDeleteCall
    target,      \* the node an eviction is about
    \* history
    calls,       \* the calls registered so far
    installed,   \* the calls whose value has been put into the map
    author,      \* the node, or the operation, of the last change of a key
    seen,        \* the calls of its key that existed when a writer cancelled it
    superseded,  \* the calls a later write of their key has made obsolete
    overtaken,   \* the calls that existed when their key was written
    behind       \* superseded, as it was when an agent began

tables  == <<scenario, cached, bucket, registered, outcome, finished>>
locals  == <<op, keys, todo, found, owned, joined, batch, extras, current, correct, target>>
history == <<calls, installed, author, seen, superseded, overtaken, behind>>
vars    == <<tables, pc, locals, history>>

Refreshes(a) == op[a] \in {"refresh", "bulkRefresh"}
IsBulk(a)    == op[a] \in {"bulkGet", "bulkRefresh"}
Free(k)      == bucket[k] = Nobody
CallsOf(k)   == {c \in calls : c[2] = k}
Goto(a, l)   == pc' = [pc EXCEPT ![a] = l]

Init ==
    /\ scenario \in Scenarios
    /\ cached \in [Keys -> {NoNode, <<Nobody, FALSE>>}]
    /\ \A k \in Keys \ scenario.keys : cached[k] = NoNode
    /\ bucket = [k \in Keys |-> Nobody]
    /\ registered = [k \in Keys |-> Nobody]
    /\ outcome = [c \in Calls |-> "none"]
    /\ finished = {}
    /\ pc = [a \in Agents |-> "off"]
    /\ op = [a \in Agents |-> "none"]
    /\ keys = [a \in Agents |-> {}]
    /\ todo = [a \in Agents |-> {}]
    /\ found = [a \in Agents |-> {}]
    /\ owned = [a \in Agents |-> {}]
    /\ joined = [a \in Agents |-> {}]
    /\ batch = [a \in Agents |-> {}]
    /\ extras = [a \in Agents |-> {}]
    /\ current = [a \in Agents |-> Nobody]
    /\ correct = [a \in Agents |-> FALSE]
    /\ target = [a \in Agents |-> NoNode]
    /\ calls = {}
    /\ installed = {}
    /\ author = cached
    /\ seen = [a \in Agents |-> {}]
    /\ superseded = {}
    /\ overtaken = {}
    /\ behind = [a \in Agents |-> {}]

--------------------------------------------------------------------------------
(* Operations begin *)

\* Get and Refresh name one key, BulkGet and BulkRefresh several.  A Get that
\* finds an entry due for a refresh returns it and begins a refresh.
BeginLoad(a) ==
    /\ pc[a] = "off" /\ a \in scenario.agents
    /\ \E o \in scenario.ops \cap Loads, K \in SUBSET scenario.keys :
         /\ K # {}
         /\ o \in {"get", "refresh"} => Cardinality(K) = 1
         /\ op' = [op EXCEPT ![a] = o]
         /\ keys' = [keys EXCEPT ![a] = K]
         /\ todo' = [todo EXCEPT ![a] = K]
    /\ behind' = [behind EXCEPT ![a] = superseded]
    /\ Goto(a, "lookup")
    /\ UNCHANGED <<tables, found, owned, joined, batch, extras, current, correct, target,
                   calls, installed, author, seen, superseded, overtaken>>

\* Set or Compute; Invalidate; deleteNodeFromMap for a node that was in the map
\* when the maintenance learned of it (it evicts a node once).
BeginWrite(a) ==
    /\ pc[a] = "off" /\ a \in scenario.agents
    /\ \E o \in scenario.ops \cap Writes, k \in scenario.keys :
         /\ o = "evict" =>
              /\ cached[k] # NoNode
              /\ \A b \in Agents : ~(op[b] = "evict" /\ current[b] = k /\ target[b] = cached[k])
         /\ op' = [op EXCEPT ![a] = o]
         /\ current' = [current EXCEPT ![a] = k]
         /\ target' = [target EXCEPT ![a] = cached[k]]
    /\ Goto(a, "lock")
    /\ UNCHANGED <<tables, keys, todo, found, owned, joined, batch, extras, correct, history>>

--------------------------------------------------------------------------------
(* Finding or registering the calls *)

\* getNode, or getNodeQuietly for a refresh: an entry that has expired counts as
\* absent.  A refresh starts calls for all its keys, a get for the absent ones.
Lookup(a) ==
    /\ pc[a] = "lookup"
    /\ \E k \in todo[a] :
         \E hit \in {FALSE, cached[k] # NoNode} :
           LET f    == IF hit THEN found[a] \cup {k} ELSE found[a]
               rest == todo[a] \ {k}
               miss == IF Refreshes(a) THEN keys[a] ELSE keys[a] \ f
           IN  /\ found' = [found EXCEPT ![a] = f]
               /\ todo' = [todo EXCEPT ![a] = IF rest = {} THEN miss ELSE rest]
               /\ Goto(a, IF rest # {} THEN "lookup"
                          ELSE IF miss # {} THEN "startCall" ELSE "done")
    /\ UNCHANGED <<tables, op, keys, owned, joined, batch, extras, current, correct,
                   target, history>>

\* The key has been dealt with: what comes after the loop over the keys.
KeyStarted(a, k, mine) ==
    LET rest == todo[a] \ {k}
    IN  /\ todo' = [todo EXCEPT ![a] = rest]
        /\ Goto(a, IF rest # {} THEN "startCall" ELSE IF mine # {} THEN "load" ELSE "wait")

\* Mutant: a call is joined without looking whether there is one.
JoinBlindly(a, k) ==
    /\ joined' = [joined EXCEPT ![a] = @ \cup {<<registered[k], k>>}]
    /\ KeyStarted(a, k, owned[a])
    /\ UNCHANGED <<registered, owned, calls>>

Join(a, k) ==
    /\ registered[k] # Nobody
    /\ joined' = [joined EXCEPT ![a] = @ \cup {<<registered[k], k>>}]
    /\ KeyStarted(a, k, owned[a])
    /\ UNCHANGED <<registered, owned, calls>>

\* startCall's fast path ...
StartCall(a) ==
    /\ pc[a] = "startCall"
    /\ \E k \in todo[a] :
         /\ current' = [current EXCEPT ![a] = k]
         /\ \/ Join(a, k)
            \/ /\ registered[k] = Nobody
               /\ Goto(a, "insert")
               /\ UNCHANGED <<registered, joined, todo, owned, calls>>
    /\ UNCHANGED <<scenario, cached, bucket, outcome, finished, op, keys, found, batch, extras, correct,
                   target, installed, author, seen, superseded, overtaken, behind>>

\* Mutant: no double check.
InsertUnchecked(a) ==
    /\ pc[a] = "insert"
    /\ LET k == current[a]
       IN  /\ registered' = [registered EXCEPT ![k] = a]
           /\ owned' = [owned EXCEPT ![a] = @ \cup {k}]
           /\ calls' = calls \cup {<<a, k>>}
           /\ KeyStarted(a, k, owned[a] \cup {k})
    /\ UNCHANGED <<scenario, cached, bucket, outcome, finished, op, keys, found, joined, batch, extras,
                   current, correct, target, installed, author, seen, superseded,
                   overtaken, behind>>

\* ... and its Compute, with the double check.
Insert(a) ==
    /\ pc[a] = "insert"
    /\ LET k == current[a]
       IN  \/ Join(a, k)
           \/ /\ registered[k] = Nobody
              /\ registered' = [registered EXCEPT ![k] = a]
              /\ owned' = [owned EXCEPT ![a] = @ \cup {k}]
              /\ calls' = calls \cup {<<a, k>>}
              /\ KeyStarted(a, k, owned[a] \cup {k})
              /\ UNCHANGED joined
    /\ UNCHANGED <<scenario, cached, bucket, outcome, finished, op, keys, found, batch, extras,
                   current, correct, target, installed, author, seen, superseded,
                   overtaken, behind>>

--------------------------------------------------------------------------------
(* doCall and doBulkCall *)

\* What the loader is asked for: BulkRefresh loads the absent keys first and
\* reloads the present ones by a second call.
ToLoad(a) ==
    IF op[a] = "bulkRefresh" /\ owned[a] \ found[a] # {}
    THEN owned[a] \ found[a] ELSE owned[a]

\* The loader returns.  A bulk load that fails fails all its calls; one that
\* succeeds may leave keys out and add others.
Loaded(a, result, more) ==
    /\ outcome' = [c \in Calls |-> IF c[1] = a /\ c[2] \in ToLoad(a) THEN result[c[2]]
                                   ELSE outcome[c]]
    /\ extras' = [extras EXCEPT ![a] = more]

Load(a) ==
    /\ pc[a] = "load"
    /\ \/ \E r \in scenario.outcomes :
            /\ IsBulk(a) => r \in {"error", "panic"}
            /\ Loaded(a, [k \in Keys |-> r], {})
       \/ /\ IsBulk(a)
          /\ \E R \in SUBSET (IF scenario.extras THEN scenario.keys ELSE ToLoad(a)) :
               Loaded(a, [k \in Keys |-> IF k \in R THEN "value" ELSE "missing"], R \ ToLoad(a))
    /\ batch' = [batch EXCEPT ![a] = ToLoad(a)]
    /\ owned' = [owned EXCEPT ![a] = @ \ ToLoad(a)]
    /\ Goto(a, "finish")
    /\ UNCHANGED <<scenario, cached, bucket, registered, finished, op, keys, todo, found, joined,
                   current, correct, target, history>>

Failed(a, r) == \E k \in Keys : outcome[<<a, k>>] = r

\* Every call of the load has been finished.  wrapLoad panics again when the
\* loader has; BulkGet returns when its own load has failed.
EndLoad(a) ==
    /\ pc[a] = "finish"
    /\ batch[a] \cup extras[a] = {}
    /\ Goto(a, IF Failed(a, "panic") \/ (op[a] = "bulkGet" /\ Failed(a, "error")) THEN "done"
               ELSE IF owned[a] # {} THEN "load" ELSE "wait")
    /\ UNCHANGED <<tables, locals, history>>

--------------------------------------------------------------------------------
(* afterDeleteCall: the end of a call, in the bucket of its key *)

\* hashmap.Compute locks the bucket.  The made-up call of an extra key is not in
\* the table, and counts as correct.
Finish(a) ==
    /\ pc[a] = "finish"
    /\ \E k \in batch[a] \cup extras[a] :
         /\ Free(k)
         /\ bucket' = [bucket EXCEPT ![k] = a]
         /\ current' = [current EXCEPT ![a] = k]
         /\ correct' = [correct EXCEPT ![a] = k \notin batch[a]]
         /\ Goto(a, IF k \in batch[a] THEN "deleteCall" ELSE "update")
    /\ UNCHANGED <<scenario, cached, registered, outcome, finished, op, keys, todo, found, owned,
                   joined, batch, extras, target, history>>

\* Mutant: a failed call stays in the table.
DeleteCallUnlessFailed(a) ==
    /\ pc[a] = "deleteCall"
    /\ Goto(a, IF registered[current[a]] = a /\ outcome[<<a, current[a]>>] # "error"
               THEN "deregister" ELSE "update")
    /\ UNCHANGED <<tables, locals, history>>

\* deleteCall's fast path ...
DeleteCall(a) ==
    /\ pc[a] = "deleteCall"
    /\ Goto(a, IF registered[current[a]] = a THEN "deregister" ELSE "update")
    /\ UNCHANGED <<tables, locals, history>>

\* Mutant: the answer is the wrong way round.
DeregisterInverted(a) ==
    /\ pc[a] = "deregister"
    /\ LET k == current[a]
       IN  /\ registered' = [registered EXCEPT ![k] = IF @ = a THEN Nobody ELSE @]
           /\ correct' = [correct EXCEPT ![a] = registered'[k] # Nobody]
    /\ Goto(a, "update")
    /\ UNCHANGED <<scenario, cached, bucket, outcome, finished, op, keys, todo, found, owned,
                   joined, batch, extras, current, target, history>>

\* ... and its Compute, which answers whether the entry is gone.
Deregister(a) ==
    /\ pc[a] = "deregister"
    /\ LET k == current[a]
       IN  /\ registered' = [registered EXCEPT ![k] = IF @ = a THEN Nobody ELSE @]
           /\ correct' = [correct EXCEPT ![a] = registered'[k] = Nobody]
    /\ Goto(a, "update")
    /\ UNCHANGED <<scenario, cached, bucket, outcome, finished, op, keys, todo, found, owned,
                   joined, batch, extras, current, target, history>>

\* The node that a finished call leaves in the map.
Result(a, k) ==
    IF k \notin batch[a] THEN <<a, TRUE>>
    ELSE IF correct[a] /\ outcome[<<a, k>>] = "value" THEN <<a, FALSE>>
    ELSE IF correct[a] /\ outcome[<<a, k>>] \in {"notFound", "missing"} THEN NoNode
    ELSE cached[k]

Update(a) ==
    /\ pc[a] = "update"
    /\ LET k == current[a]
           n == Result(a, k)
       IN  /\ cached' = [cached EXCEPT ![k] = n]
           /\ bucket' = [bucket EXCEPT ![k] = Nobody]
           /\ author' = IF n = cached[k] THEN author
                        ELSE [author EXCEPT ![k] = <<a, k \notin batch[a]>>]
           /\ installed' = installed \cup
                             (IF n = <<a, FALSE>> THEN {<<a, k>>} ELSE {})
           /\ extras' = [extras EXCEPT ![a] = @ \ {k}]
           /\ Goto(a, IF k \in batch[a] THEN "cancel" ELSE "finish")
    /\ UNCHANGED <<scenario, registered, outcome, finished, op, keys, todo, found, owned, joined,
                   batch, current, correct, target, calls, seen, superseded,
                   overtaken, behind>>

\* The wait group is released after the bucket.
Cancel(a) ==
    /\ pc[a] = "cancel"
    /\ finished' = finished \cup {<<a, current[a]>>}
    /\ batch' = [batch EXCEPT ![a] = @ \ {current[a]}]
    /\ Goto(a, "finish")
    /\ UNCHANGED <<scenario, cached, bucket, registered, outcome, op, keys, todo, found, owned,
                   joined, extras, current, correct, target, history>>

\* The operation returns when the calls of the others are done.
Wait(a) ==
    /\ pc[a] = "wait"
    /\ joined[a] \subseteq finished
    /\ Goto(a, "done")
    /\ UNCHANGED <<tables, locals, history>>

--------------------------------------------------------------------------------
(* Explicit writes and evictions, in the bucket of their key *)

Lock(a) ==
    /\ pc[a] = "lock"
    /\ Free(current[a])
    /\ bucket' = [bucket EXCEPT ![current[a]] = a]
    /\ Goto(a, "dropCall")
    /\ UNCHANGED <<scenario, cached, registered, outcome, finished, locals, history>>

\* Mutant: the call is only cancelled when there is a node to replace or remove.
DropCallIfPresent(a) ==
    /\ pc[a] = "dropCall"
    /\ registered' = IF cached[current[a]] = NoNode THEN registered
                     ELSE [registered EXCEPT ![current[a]] = Nobody]
    /\ seen' = [seen EXCEPT ![a] = CallsOf(current[a])]
    /\ Goto(a, "write")
    /\ UNCHANGED <<scenario, cached, bucket, outcome, finished, locals, calls, installed,
                   author, superseded, overtaken, behind>>

\* singleflight.delete
DropCall(a) ==
    /\ pc[a] = "dropCall"
    /\ registered' = [registered EXCEPT ![current[a]] = Nobody]
    /\ seen' = [seen EXCEPT ![a] = CallsOf(current[a])]
    /\ Goto(a, "write")
    /\ UNCHANGED <<scenario, cached, bucket, outcome, finished, locals, calls, installed,
                   author, superseded, overtaken, behind>>

\* Only an eviction may find that its node is no longer the current one.
Write(a) ==
    /\ pc[a] = "write"
    /\ LET k       == current[a]
           applies == op[a] = "evict" => cached[k] = target[a]
       IN  /\ cached' = IF ~applies THEN cached
                        ELSE [cached EXCEPT ![k] = IF op[a] = "set" THEN <<a, FALSE>> ELSE NoNode]
           /\ bucket' = [bucket EXCEPT ![k] = Nobody]
           /\ author' = IF applies THEN [author EXCEPT ![k] = <<a, FALSE>>] ELSE author
           /\ superseded' = IF applies THEN superseded \cup seen[a] ELSE superseded
           /\ overtaken' = IF applies THEN overtaken \cup CallsOf(k) ELSE overtaken
    /\ Goto(a, "done")
    /\ UNCHANGED <<scenario, registered, outcome, finished, locals, calls, installed, seen, behind>>

--------------------------------------------------------------------------------

Terminating ==
    /\ \A a \in Agents : pc[a] \in {"off", "done"}
    /\ UNCHANGED vars

LoadStep(a) ==
    \/ Lookup(a) \/ StartCall(a) \/ Insert(a) \/ Load(a) \/ EndLoad(a)
    \/ Finish(a) \/ DeleteCall(a) \/ Deregister(a) \/ Update(a) \/ Cancel(a) \/ Wait(a)

WriteStep(a) == Lock(a) \/ DropCall(a) \/ Write(a)

AgentStep(a) == LoadStep(a) \/ WriteStep(a)

Next ==
    \/ \E a \in Agents : BeginLoad(a) \/ BeginWrite(a) \/ AgentStep(a)
    \/ Terminating

Spec == Init /\ [][Next]_vars

--------------------------------------------------------------------------------
(* Properties *)

\* The variables stay in their ranges: in particular a joined call is one that
\* some agent has registered.
TypeOK ==
    /\ scenario \in Scenarios
    /\ cached \in [Keys -> Nodes \cup {NoNode}]
    /\ bucket \in [Keys -> Agents \cup {Nobody}]
    /\ registered \in [Keys -> Agents \cup {Nobody}]
    /\ outcome \in [Calls -> {"none", "value", "notFound", "missing", "error", "panic"}]
    /\ finished \subseteq Calls
    /\ pc \in [Agents -> {"off", "lookup", "startCall", "insert", "load", "finish",
                          "deleteCall", "deregister", "update", "cancel", "wait",
                          "lock", "dropCall", "write", "done"}]
    /\ op \in [Agents -> Loads \cup Writes \cup {"none"}]
    /\ keys \in [Agents -> SUBSET Keys]
    /\ todo \in [Agents -> SUBSET Keys]
    /\ found \in [Agents -> SUBSET Keys]
    /\ owned \in [Agents -> SUBSET Keys]
    /\ joined \in [Agents -> SUBSET Calls]
    /\ batch \in [Agents -> SUBSET Keys]
    /\ extras \in [Agents -> SUBSET Keys]
    /\ current \in [Agents -> Keys \cup {Nobody}]
    /\ correct \in [Agents -> BOOLEAN]
    /\ target \in [Agents -> Nodes \cup {NoNode}]
    /\ calls \subseteq Calls
    /\ installed \subseteq Calls
    /\ author \in [Keys -> Nodes \cup {NoNode}]
    /\ seen \in [Agents -> SUBSET Calls]
    /\ superseded \subseteq Calls
    /\ overtaken \subseteq Calls
    /\ behind \in [Agents -> SUBSET Calls]

\* A registered call never undoes a later write: once a Set, Invalidate or eviction
\* has taken effect, no call registered before it began changes the key any more,
\* neither by installing its value nor by deleting a key it did not find.  Only an
\* extra key has no call that a write could cancel, and may overwrite a newer value:
\* what a load changes otherwise is a key it was asked for.
NoStaleChange ==
    \A a \in Agents, k \in Keys :
        /\ author[k] = <<a, FALSE>> => <<a, k>> \notin superseded
        /\ author[k] = <<a, TRUE>> => IsBulk(a) /\ scenario.extras

\* An operation that begins after a write has returned does not join a load from
\* before the write: a Get after an Invalidate never returns the old value.
NoStaleJoin == \A a \in Agents : joined[a] \cap behind[a] = {}

\* While a key is being loaded it is not loaded a second time, unless a write or
\* an eviction of the key has come in between.
SingleFlight ==
    \A k \in Keys : \A c, d \in CallsOf(k) :
        outcome[c] = "none" /\ outcome[d] = "none" /\ c # d =>
            \E w \in Agents : pc[w] \in {"write", "done"} /\ {c, d} \cap seen[w] # {}

\* The call that is registered for a key, and every call somebody waits for, is
\* going to be finished by its owner: it is among the calls the owner has still
\* to load or to finish.  A call without an owner would block its waiters, and
\* every later Get of the key, for ever.  The owner does not wait for others itself, so
\* two bulk loads never wait for each other.
CallsAttended ==
    \A a \in Agents, k \in Keys :
        registered[k] = a \/ (\E b \in Agents : <<a, k>> \in joined[b] \ finished) =>
            k \in owned[a] \cup batch[a] /\ pc[a] \notin {"wait", "done"}

\* A value that has been loaded gets into the cache, unless the key has been
\* written or invalidated in the meantime, or an eviction, of whichever node the
\* key had before, has cancelled the call.
LoadsAreCached ==
    \A c \in finished : outcome[c] = "value" =>
        \/ c \in installed \cup overtaken
        \/ \E w \in Agents : op[w] = "evict" /\ c \in seen[w]

\* The table of calls is sound: one load per key, and every call has somebody to finish it.
CallsSound == TypeOK /\ SingleFlight /\ CallsAttended

=============================================================================
