---------------------------------- MODULE WriteBehind ----------------------------------
(***************************************************************************)
(* A size-bounded cache: operations change the hash map at once, and tell  *)
(* the eviction policy later, by a task that goes through the write buffer *)
(* to the maintenance (cache_impl.go).  Between the two, maintenance may   *)
(* evict; tasks of one key may reach the policy out of order.              *)
(*                                                                         *)
(* That the maintenance runs under mutual exclusion, and that no task is   *)
(* lost or run twice, is the subject of module Drain; here it is one       *)
(* process.  hashmap.Compute locks the bucket, so it is one step.          *)
(* No entry expires here.                                                  *)
(***************************************************************************)
EXTENDS Policy

CONSTANTS
    Clients,
    Keys,
    Weights,     \* what the weigher may return ({1} for MaximumSize)
    Maximums,    \* values of the maximum
    ReadCap,     \* bound: reads recorded at the same time
    Sequential   \* one goroutine with a caller-runs executor: a call returns
                 \* only when its task has been run

ASSUME WriteBehindAssumption ==
    /\ Weights \subseteq Nat
    /\ Maximums # {} /\ Maximums \subseteq Nat \ {0}
    /\ ReadCap \in Nat
    /\ Sequential \in BOOLEAN

VARIABLES
    map,          \* the hash map
    born,         \* the nodes allocated so far
    keyOf,        \* the key and the weight of each node
    weight,
    retired,      \* nodes that makeRetired has visited
    policy,       \* the policy record (module Policy)
    maximum,
    readBuffer,   \* recorded reads
    writeBuffer,  \* queued tasks
    pending,      \* the task a client has created and not pushed yet
    phase,        \* where the maintenance is
    cursor,       \* the local variables of evictFromMain
    snapshot,     \* the nodes InvalidateAll has still to delete
    gone,         \* the cause given to OnAtomicDeletion, per node
    told          \* the causes given to OnDeletion, per node

mapVars    == <<map, born, keyOf, weight, retired, gone>>
bufferVars == <<readBuffer, writeBuffer, pending>>
vars == <<map, born, keyOf, weight, retired, policy, maximum, readBuffer,
          writeBuffer, pending, phase, cursor, snapshot, gone, told>>

Phases == {"idle", "reads", "tasks", "main", "climb",
           "discardTasks", "discardNodes"}

NoTask == [reason |-> "none", node |-> NoNode, old |-> NoNode, cause |-> "none"]
Task(reason, n, old, cause) == [reason |-> reason, node |-> n, old |-> old, cause |-> cause]

Alive == born \ (retired \cup policy.dead)

NoCursor == Cursor(NoNode, "probation", NoNode, "probation", NoNode)

Init ==
    /\ map = [k \in Keys |-> NoNode]
    /\ born = {}
    /\ keyOf = [n \in Nodes |-> NoNode]
    /\ weight = [n \in Nodes |-> 0]
    /\ retired = {}
    /\ maximum \in Maximums
    /\ policy = EmptyPolicy(maximum)
    /\ readBuffer = <<>>
    /\ writeBuffer = <<>>
    /\ pending = [c \in Clients |-> NoTask]
    /\ phase = "idle"
    /\ cursor = NoCursor
    /\ snapshot = {}
    /\ gone = [n \in Nodes |-> "none"]
    /\ told = [n \in Nodes |-> <<>>]

--------------------------------------------------------------------------------
(* Client operations *)

\* A client may call when its last task has been pushed; a single-threaded
\* program calls when nothing is left to do.
Ready(c) ==
    /\ pending[c] = NoTask
    /\ Sequential => writeBuffer = <<>> /\ phase = "idle"

\* Set, or Compute with WriteOp: atomicSet in the bucket, then the task of
\* afterWrite.
Set(c, k, w) ==
    /\ Ready(c)
    /\ born # Nodes
    /\ LET old == map[k]
           n == CHOOSE x \in Nodes : x \notin born
       IN  /\ map' = [map EXCEPT ![k] = n]
           /\ retired' = retired \cup ({old} \cap Alive)
           /\ gone' = IF old = NoNode THEN gone ELSE [gone EXCEPT ![old] = "replacement"]
           /\ pending' = [pending EXCEPT ![c] =
                             IF old = NoNode THEN Task("add", n, NoNode, "none")
                             ELSE Task("update", n, old, "replacement")]
           /\ born' = born \cup {n}
           /\ keyOf' = [keyOf EXCEPT ![n] = k]
           /\ weight' = [weight EXCEPT ![n] = w]
    /\ UNCHANGED <<policy, maximum, readBuffer, writeBuffer, phase, cursor, snapshot, told>>

\* Invalidate, or Compute with InvalidateOp, of a key that is present.
Invalidate(c, k) ==
    /\ Ready(c)
    /\ map[k] # NoNode
    /\ LET old == map[k]
       IN  /\ map' = [map EXCEPT ![k] = NoNode]
           /\ retired' = retired \cup ({old} \cap Alive)
           /\ gone' = [gone EXCEPT ![old] = "invalidation"]
           /\ pending' = [pending EXCEPT ![c] = Task("delete", old, NoNode, "invalidation")]
    /\ UNCHANGED <<born, keyOf, weight, policy, maximum, readBuffer, writeBuffer,
                   phase, cursor, snapshot, told>>

\* A hit records the node, if the lossy read buffer takes it.
Read(k) ==
    /\ Sequential => phase = "idle" /\ writeBuffer = <<>> /\ \A c \in Clients : pending[c] = NoTask
    /\ map[k] # NoNode
    /\ Len(readBuffer) < ReadCap
    /\ readBuffer' = Append(readBuffer, map[k])
    /\ UNCHANGED <<map, born, keyOf, weight, retired, policy, maximum, writeBuffer,
                   pending, phase, cursor, snapshot, gone, told>>

\* afterWriteTask.  (A task that does not fit is run by its writer under the
\* mutex after the buffer has been drained: the same as pushing it just then.)
Push(c) ==
    /\ pending[c] # NoTask
    /\ writeBuffer' = Append(writeBuffer, pending[c])
    /\ pending' = [pending EXCEPT ![c] = NoTask]
    /\ UNCHANGED <<map, born, keyOf, weight, retired, policy, maximum, readBuffer,
                   phase, cursor, snapshot, gone, told>>

--------------------------------------------------------------------------------
(* Maintenance *)

\* Holding the mutex, in a phase, with no eviction in hand.
At(ph) == phase = ph /\ cursor.evict = NoNode

\* The mutex is free for a maintenance.
CanStart ==
    /\ phase = "idle"
    /\ Sequential => \A c \in Clients : pending[c] = NoTask

StartMaintenance ==
    /\ CanStart
    /\ readBuffer # <<>> \/ writeBuffer # <<>>
    /\ phase' = "reads"
    /\ UNCHANGED <<map, born, keyOf, weight, retired, policy, maximum, readBuffer,
                   writeBuffer, pending, cursor, snapshot, gone, told>>

SetMaximum(m) ==
    /\ CanStart
    /\ m # maximum
    /\ maximum' = m
    /\ policy' = Resize(policy, m)
    /\ phase' = "reads"
    /\ UNCHANGED <<map, born, keyOf, weight, retired, readBuffer, writeBuffer,
                   pending, cursor, snapshot, gone, told>>

\* drainReadBuffer: onAccess for every recorded node.
DrainReadBuffer ==
    /\ At("reads")
    /\ LET access(p, n) == Access(p, weight, n)
       IN  policy' = FoldLeft(access, policy, readBuffer)
    /\ readBuffer' = <<>>
    /\ phase' = "tasks"
    /\ UNCHANGED <<map, born, keyOf, weight, retired, maximum, writeBuffer, pending,
                   cursor, snapshot, gone, told>>

\* Mutant: a node that is no longer alive is not even counted.
RunAddUncounted(n) ==
    LET p == CountAdded(policy, weight, n)
    IN  /\ policy' = CASE n \notin Alive -> policy
                       [] n \in Alive /\ weight[n] > maximum -> p
                       [] OTHER -> PushBack(p, "window", n)
        /\ cursor' = IF n \in Alive /\ weight[n] > maximum
                     THEN [cursor EXCEPT !.evict = n] ELSE cursor
        /\ UNCHANGED told

\* runTask of an add: a node that is no longer alive is counted and not linked;
\* one that can never fit is evicted.
RunAdd(n) ==
    LET p == CountAdded(policy, weight, n)
    IN  /\ policy' = CASE n \notin Alive \/ weight[n] > maximum -> p
                       [] OTHER -> IF weight[n] > policy.limit.window
                                   THEN PushFront(p, "window", n)
                                   ELSE PushBack(p, "window", n)
        /\ cursor' = IF n \in Alive /\ weight[n] > maximum
                     THEN [cursor EXCEPT !.evict = n] ELSE cursor
        /\ UNCHANGED told

\* runTask of an update.  (The node's weight is added after the eviction of a
\* node that can never fit, which does not read the sizes.)
RunUpdate(n, old, cause) ==
    LET p == CountUpdated(UpdateNode(policy, weight, n, old), weight, n)
    IN  /\ policy' = IF weight[n] > maximum THEN p ELSE Refresh(p, weight, n)
        /\ cursor' = IF weight[n] > maximum THEN [cursor EXCEPT !.evict = n] ELSE cursor
        /\ told' = [told EXCEPT ![old] = Append(@, cause)]

RunDelete(n, cause) ==
    /\ policy' = Delete(policy, weight, n)
    /\ told' = [told EXCEPT ![n] = Append(@, cause)]
    /\ UNCHANGED cursor

RunTask(t) ==
    \/ t.reason = "add"    /\ RunAdd(t.node)
    \/ t.reason = "update" /\ RunUpdate(t.node, t.old, t.cause)
    \/ t.reason = "delete" /\ RunDelete(t.node, t.cause)

\* drainWriteBuffer: pop and run a task, for as long as there is one.
DrainWriteBuffer ==
    /\ At("tasks") \/ At("discardTasks")
    /\ writeBuffer # <<>>
    /\ RunTask(Head(writeBuffer))
    /\ writeBuffer' = Tail(writeBuffer)
    /\ UNCHANGED <<map, born, keyOf, weight, retired, maximum, readBuffer, pending,
                   phase, snapshot, gone>>

\* The buffer is empty: evictNodes begins with evictFromWindow.
EvictWindow ==
    /\ At("tasks")
    /\ writeBuffer = <<>>
    /\ policy' = EvictFromWindow(policy, weight)
    /\ cursor' = StartCursor(policy', FirstMoved(policy, weight))
    /\ phase' = "main"
    /\ UNCHANGED <<map, born, keyOf, weight, retired, maximum, readBuffer,
                   writeBuffer, pending, snapshot, gone, told>>

\* One iteration of evictFromMain, up to its call of evictNode.
EvictMain ==
    /\ At("main")
    /\ policy.weighted > maximum
    /\ cursor.victimQueue # "exhausted"
    /\ \E lowest \in BOOLEAN :
         cursor' = Decide(policy, weight, Alive, maximum, cursor, lowest)
    /\ UNCHANGED <<map, born, keyOf, weight, retired, policy, maximum, readBuffer,
                   writeBuffer, pending, phase, snapshot, gone, told>>

\* Mutant: one entry too many may stay.
EvictMainEndOffByOne ==
    /\ At("main")
    /\ policy.weighted <= maximum + 1 \/ cursor.victimQueue = "exhausted"
    /\ phase' = "climb"
    /\ cursor' = NoCursor
    /\ UNCHANGED <<map, born, keyOf, weight, retired, policy, maximum, readBuffer,
                   writeBuffer, pending, snapshot, gone, told>>

EvictMainEnd ==
    /\ At("main")
    /\ policy.weighted <= maximum \/ cursor.victimQueue = "exhausted"
    /\ phase' = "climb"
    /\ cursor' = NoCursor
    /\ UNCHANGED <<map, born, keyOf, weight, retired, policy, maximum, readBuffer,
                   writeBuffer, pending, snapshot, gone, told>>

\* Mutant: the key is removed, whichever node it is bound to.
RemoveKeyFromMap(n, cause) ==
    LET present == map[keyOf[n]] # NoNode
    IN  /\ map' = [map EXCEPT ![keyOf[n]] = NoNode]
        /\ retired' = retired \cup ({n} \cap Alive)
        /\ gone' = IF present THEN [gone EXCEPT ![n] = cause] ELSE gone
        /\ told' = IF present THEN [told EXCEPT ![n] = Append(@, cause)] ELSE told

\* Mutant: the listener is told of a node that somebody else has removed.
RemoveAndAlwaysTell(n, cause) ==
    LET current == map[keyOf[n]] = n
    IN  /\ map' = IF current THEN [map EXCEPT ![keyOf[n]] = NoNode] ELSE map
        /\ retired' = IF current THEN retired \cup ({n} \cap Alive) ELSE retired
        /\ gone' = IF current THEN [gone EXCEPT ![n] = cause] ELSE gone
        /\ told' = [told EXCEPT ![n] = Append(@, cause)]

\* Node n leaves the map if it is still there (deleteNodeFromMap), the deques
\* and the sizes; the listeners are told only in the first case.
RemoveFromMap(n, cause) ==
    LET current == map[keyOf[n]] = n
    IN  /\ map' = IF current THEN [map EXCEPT ![keyOf[n]] = NoNode] ELSE map
        /\ retired' = IF current THEN retired \cup ({n} \cap Alive) ELSE retired
        /\ gone' = IF current THEN [gone EXCEPT ![n] = cause] ELSE gone
        /\ told' = IF current THEN [told EXCEPT ![n] = Append(@, cause)] ELSE told

EvictNode ==
    LET n == cursor.evict
    IN  /\ n # NoNode
        /\ RemoveFromMap(n, "overflow")
        /\ policy' = Delete(policy, weight, n)
        /\ cursor' = [cursor EXCEPT !.evict = NoNode]
        /\ UNCHANGED <<born, keyOf, weight, maximum, readBuffer, writeBuffer, pending,
                       phase, snapshot>>

\* climb: the protected queue is trimmed, and the window grows or shrinks.
ClimbWindow ==
    /\ At("climb")
    /\ \E a \in Adjustments(policy, maximum) : policy' = Climb(policy, weight, a)
    /\ phase' = "idle"
    /\ UNCHANGED <<map, born, keyOf, weight, retired, maximum, readBuffer,
                   writeBuffer, pending, cursor, snapshot, gone, told>>

--------------------------------------------------------------------------------
(* InvalidateAll *)

InvalidateAll ==
    /\ CanStart
    /\ \E k \in Keys : map[k] # NoNode
    /\ readBuffer' = <<>>
    /\ phase' = "discardTasks"
    /\ UNCHANGED <<map, born, keyOf, weight, retired, policy, maximum, writeBuffer,
                   pending, cursor, snapshot, gone, told>>

TakeSnapshot ==
    /\ At("discardTasks")
    /\ writeBuffer = <<>>
    /\ snapshot' = {map[k] : k \in Keys} \ {NoNode}
    /\ phase' = "discardNodes"
    /\ UNCHANGED <<map, born, keyOf, weight, retired, policy, maximum, readBuffer,
                   writeBuffer, pending, cursor, gone, told>>

\* deleteNode: the delete task of a node that was still in the map runs at once.
DeleteNode ==
    /\ At("discardNodes")
    /\ \E n \in snapshot :
         /\ RemoveFromMap(n, "invalidation")
         /\ policy' = IF map[keyOf[n]] = n THEN Delete(policy, weight, n) ELSE policy
         /\ snapshot' = snapshot \ {n}
    /\ UNCHANGED <<born, keyOf, weight, maximum, readBuffer, writeBuffer, pending,
                   phase, cursor>>

\* The loop also stops when writers have half filled the write buffer (bound: a
\* queued task does).  The nodes left over are then invalidated one by one by
\* ordinary calls of Invalidate, which any client may make anyway.
EndInvalidateAll ==
    /\ At("discardNodes")
    /\ snapshot = {} \/ writeBuffer # <<>>
    /\ snapshot' = {}
    /\ phase' = "idle"
    /\ UNCHANGED <<map, born, keyOf, weight, retired, policy, maximum, readBuffer,
                   writeBuffer, pending, cursor, gone, told>>

--------------------------------------------------------------------------------

Settled ==
    /\ phase = "idle"
    /\ writeBuffer = <<>>
    /\ \A c \in Clients : pending[c] = NoTask

\* Bound: all the nodes have been used; the clients are done.
Terminating ==
    /\ Settled
    /\ born = Nodes
    /\ UNCHANGED vars

ClientStep ==
    \/ \E c \in Clients, k \in Keys, w \in Weights : Set(c, k, w)
    \/ \E c \in Clients, k \in Keys : Invalidate(c, k)
    \/ \E k \in Keys : Read(k)

MaintenanceStep ==
    \/ StartMaintenance \/ DrainReadBuffer \/ DrainWriteBuffer
    \/ EvictWindow \/ EvictMain \/ EvictMainEnd \/ EvictNode \/ ClimbWindow
    \/ TakeSnapshot \/ DeleteNode \/ EndInvalidateAll

Next ==
    \/ ClientStep
    \/ \E c \in Clients : Push(c)
    \/ \E m \in Maximums : SetMaximum(m)
    \/ InvalidateAll
    \/ MaintenanceStep
    \/ Terminating

Spec == Init /\ [][Next]_vars

\* The goroutine that holds the mutex keeps running.
FairSpec == Spec /\ WF_vars(MaintenanceStep)

--------------------------------------------------------------------------------
(* Properties *)

TaskSet == [reason : {"none", "add", "update", "delete"},
            node : Nodes \cup {NoNode}, old : Nodes \cup {NoNode},
            cause : {"none", "replacement", "invalidation"}]

\* The variables stay in their ranges, and the sizes in one word.
TypeOK ==
    /\ map \in [Keys -> Nodes \cup {NoNode}]
    /\ born \subseteq Nodes
    /\ keyOf \in [Nodes -> Keys \cup {NoNode}]
    /\ weight \in [Nodes -> Weights \cup {0}]
    /\ retired \subseteq born
    /\ policy.dead \subseteq born
    /\ \A q \in Queues : ToSet(policy.deque[q]) \subseteq born
    /\ policy.weighted \in 0..(Word - 1)
    /\ \A q \in {"window", "protected"} : policy.size[q] \in 0..(Word - 1)
    /\ maximum \in Maximums
    /\ ToSet(readBuffer) \subseteq born
    /\ ToSet(writeBuffer) \subseteq TaskSet
    /\ pending \in [Clients -> TaskSet]
    /\ phase \in Phases
    /\ snapshot \subseteq born

\* The map holds exactly the nodes that are alive: the eviction policy may take
\* a node's own state as the truth about the map, without looking it up.
MapHoldsTheAlive ==
    /\ \A k \in Keys : map[k] # NoNode => map[k] \in Alive /\ keyOf[map[k]] = k
    /\ \A n \in Alive : map[keyOf[n]] = n

\* A node is in at most one deque, once, the deque its queue type names;
\* otherwise Delete would unlink it from the wrong one.
LinkedOnce ==
    \A n \in Nodes : \A q \in Queues :
        Cardinality({i \in DOMAIN policy.deque[q] : policy.deque[q][i] = n})
            <= (IF policy.queue[n] = q THEN 1 ELSE 0)

\* The tasks that are still on their way to the policy.
Tasks == ToSet(writeBuffer) \cup {pending[c] : c \in Clients}

Weigh(S) == MapThenSumSet(LAMBDA n : weight[n], S)

\* The type invariant and the last two together: what the policy reads from a node, its
\* state and its queue type, is the truth about the map and the deques.
NodesSound == TypeOK /\ MapHoldsTheAlive /\ LinkedOnce

\* weightedSize is never wrong by anything but the tasks on their way, in
\* whatever order they come: it is the weight of the nodes the policy has been
\* told of, less that of the nodes that are dead.  So when everything has settled
\* it is the weight of what is in the map.
WeightAccounted ==
    LET announced == born \ {t.node : t \in {x \in Tasks : x.reason \in {"add", "update"}}}
    IN  /\ policy.weighted = Minus(Weigh(announced) % Word, Weigh(policy.dead) % Word)
        /\ Settled => policy.weighted = Weigh({map[k] : k \in Keys} \ {NoNode}) % Word

\* Every entry that has left the map has been reported to OnDeletion exactly
\* once, with the cause that OnAtomicDeletion was given, when all has settled.
DeletionsReported ==
    Settled => \A n \in born :
        told[n] = IF n \in Alive THEN <<>> ELSE <<gone[n]>>

\* The cache refines the promise made about its entries.
Stage(n) ==
    IF n \notin born THEN "unborn"
    ELSE IF gone[n] = "none" THEN "present"
    ELSE IF told[n] = <<>> THEN "removed"
    ELSE IF told[n] = <<gone[n]>> THEN "told" ELSE "broken"

Entry == INSTANCE EntryLifecycle WITH
    Entries <- Nodes, NoEntry <- NoNode, store <- map,
    stage <- [n \in Nodes |-> Stage(n)], cause <- gone

EntryLifecycleHolds == Entry!Spec

\* The maintenance always comes to an end, whatever the sizes have become.
MaintenanceEnds == phase # "idle" ~> phase = "idle"

\* What one region gains the other loses, whatever steps, leftovers and changes of the
\* maximum there have been: both limits stay as meaningful as they were at first.
LimitsBalance ==
    /\ policy.limit.window \in 1..maximum /\ policy.limit.protected \in 0..maximum
    /\ policy.limit.window + policy.limit.protected
         = WindowMaximum(maximum) + ProtectedMaximum(maximum)

\* In the absence of concurrency the policy's books are exact: the deques hold
\* the nodes of the map, the sizes their weights, and the limits balance.
BooksExact ==
    /\ LimitsBalance
    /\ Settled =>
        /\ UNION {ToSet(policy.deque[q]) : q \in Queues} = {map[k] : k \in Keys} \ {NoNode}
        /\ \A q \in {"window", "protected"} :
             policy.size[q] = Weigh(ToSet(policy.deque[q]))

\* The cache does not contain more than its maximum once it has settled.
BoundedWhenSettled == Settled => policy.weighted <= maximum

=============================================================================
