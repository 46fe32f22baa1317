---------------------------------- MODULE Expiration ----------------------------------
(***************************************************************************)
(* Entries with a deadline (cache_impl.go with ExpiryCalculator, clock.go):*)
(* readers and writers that have looked at the clock some time ago set,    *)
(* extend and shorten deadlines, while the maintenance schedules the nodes *)
(* on the timing wheel and removes those whose deadline has passed.  The   *)
(* maintenance may begin at any time: the periodic goroutine (module       *)
(* PeriodicCleanUp) and the operations (module Drain) ask for it.          *)
(***************************************************************************)
EXTENDS TimerWheel, NoValue

CONSTANTS
    Keys, Clients,
    Ops,         \* the operations each client may call
    TTLs,        \* the durations the calculator and the callers give
    Start,       \* the clock when the cache is made
    MaxTime,     \* bound: the clock
    MaxNodes,    \* bound: how many nodes are made
    MaxCalls     \* bound: how many calls the clients make

Operations == {"get", "setExpiresAfter", "set", "setIfAbsent", "invalidate", "compute",
               "computeIfAbsent", "computeIfPresent"}

ASSUME ExpirationAssumption ==
    /\ MaxTime \in Nat /\ Start \in 0..MaxTime /\ MaxNodes \in Nat \ {0} /\ MaxCalls \in Nat
    /\ TTLs \subseteq Nat \ {0}
    /\ \A d \in TTLs : MaxTime + d < Word
    /\ Ops \in [Clients -> SUBSET Operations]
    /\ None \notin Nat

NodeIds == 1..MaxNodes

VARIABLES
    clock,
    calculator,      \* of ExpiryCreating, ExpiryWriting and ExpiryAccessing; it does not change
    map, nodes,      \* the hash map, and the nodes made so far
    readBuffer, tasks,
    wheel,
    maint,           \* the maintenance
    pc, my, calls,   \* the clients
    told,            \* how often OnDeletion was given each node
    misjudged        \* history: the nodes of a SetIfAbsent that took them for both

data == <<map, nodes>>
vars == <<clock, calculator, data, readBuffer, tasks, wheel, maint, pc, my, calls, told, misjudged>>

HasExpired(n, now) == nodes[n].expiresAt <= now
Absent(n, now)     == IF n = None THEN TRUE ELSE HasExpired(n, now)
IsAlive(n)         == nodes[n].state = "alive"

\* The durations a calculator may give an entry, which is shown with the one it has left.
ExpireAfterCreate       == TTLs
ExpireAfterUpdate(left) == IF calculator = "creating" THEN {left} ELSE TTLs
ExpireAfterRead(left)   == IF calculator = "accessing" THEN TTLs ELSE {left}

NoCall  == [op |-> "none", key |-> None, now |-> 0, node |-> None, old |-> None,
            expected |-> 0, expires |-> 0, kept |-> FALSE]
NoMaint == [pc |-> "off", scan |-> <<>>, held |-> {}, node |-> None]

\* A new cache, or one with an entry that the maintenance has scheduled already.
Init ==
    /\ clock = Start
    /\ calculator \in {"creating", "writing", "accessing"}
    /\ \/ map = [k \in Keys |-> None] /\ nodes = <<>> /\ wheel = EmptyWheel
       \/ \E k \in Keys, d \in TTLs :
            /\ map = [j \in Keys |-> IF j = k THEN 1 ELSE None]
            /\ nodes = <<[key |-> k, state |-> "alive", expiresAt |-> Start + d]>>
            /\ wheel = Schedule([EmptyWheel EXCEPT !.time = Start], 1, Start + d)
    /\ readBuffer = {} /\ tasks = <<>>
    /\ maint = NoMaint
    /\ pc = [c \in Clients |-> "off"]
    /\ my = [c \in Clients |-> NoCall]
    /\ calls = 0
    /\ told = [n \in NodeIds |-> 0]
    /\ misjudged = {}

Tick ==
    /\ clock < MaxTime
    /\ clock' = clock + 1
    /\ UNCHANGED <<calculator, data, readBuffer, tasks, wheel, maint, pc, my, calls, told, misjudged>>

--------------------------------------------------------------------------------
(* The operations of the clients *)

Step(c, from, to) == pc[c] = from /\ pc' = [pc EXCEPT ![c] = to]
Keep(c, rec)      == my' = [my EXCEPT ![c] = rec]
Return(c, from)   == Step(c, from, "off") /\ Keep(c, NoCall)
ToRecord(c, from, n) == /\ Step(c, from, "record")
                        /\ Keep(c, [my[c] EXCEPT !.node = n, !.expires = 0, !.expected = 0])

\* Every operation takes the time first.
Call(c) ==
    /\ calls < MaxCalls /\ calls' = calls + 1
    /\ \E op \in Ops[c], k \in Keys :
         /\ Step(c, "off", IF op \in {"get", "setExpiresAfter", "computeIfAbsent", "computeIfPresent"}
                           THEN "lookup" ELSE "compute")
         /\ Keep(c, [NoCall EXCEPT !.op = op, !.key = k, !.now = clock])
    /\ UNCHANGED <<data, readBuffer, tasks, told, misjudged>>

\* The node, and the deadline it is to get.  SetExpiresAfter does not ask whether the
\* entry has expired already.
Lookup(c) ==
    LET n      == map[my[c].key]
        absent == (IF my[c].op = "setExpiresAfter" THEN n = None ELSE Absent(n, my[c].now))
    IN  /\ pc[c] = "lookup"
        /\ \/ absent /\ my[c].op = "computeIfAbsent" /\ Step(c, "lookup", "compute") /\ UNCHANGED my
           \/ absent /\ my[c].op # "computeIfAbsent" /\ Return(c, "lookup")
           \/ /\ ~absent /\ Step(c, "lookup", "load")
              /\ \E d \in IF my[c].op = "setExpiresAfter" THEN TTLs
                        ELSE ExpireAfterRead(nodes[n].expiresAt - my[c].now) :
                   Keep(c, [my[c] EXCEPT !.node = n, !.expires = my[c].now + d])
        /\ UNCHANGED <<data, readBuffer, tasks, calls, told, misjudged>>

\* setExpiresAfterRead: nothing to do if that is the deadline by now.
LoadExpiresAt(c) ==
    LET expiresAt == nodes[my[c].node].expiresAt
    IN  /\ pc[c] = "load"
        /\ \/ my[c].expires = expiresAt /\ ToRecord(c, "load", my[c].node)
           \/ /\ my[c].expires # expiresAt /\ Step(c, "load", "cas")
              /\ Keep(c, [my[c] EXCEPT !.expected = expiresAt])
        /\ UNCHANGED <<data, readBuffer, tasks, calls, told, misjudged>>

CasExpiresAt(c) ==
    /\ ToRecord(c, "cas", my[c].node)
    /\ nodes' = [nodes EXCEPT ![my[c].node].expiresAt =
                    IF @ = my[c].expected THEN my[c].expires ELSE @]
    /\ UNCHANGED <<map, readBuffer, tasks, calls, told, misjudged>>

\* The read buffer accepts the node or not.
Record(c) ==
    /\ readBuffer' \in {readBuffer, readBuffer \cup {my[c].node}}
    /\ IF my[c].op = "computeIfPresent"
       THEN Step(c, "record", "compute") /\ UNCHANGED my
       ELSE Return(c, "record")
    /\ UNCHANGED <<data, tasks, calls, told, misjudged>>

\* What the functions given to the hash map's Compute may do, under the lock of the bucket.
Fate(c, old, kind) ==
    LET found == ~Absent(old, my[c].now)
    IN  CASE my[c].op = "set"              -> kind = "write"
          [] my[c].op = "invalidate"       -> kind = "delete"
          [] my[c].op = "setIfAbsent"      -> kind = (IF found THEN "extend" ELSE "write")
          [] my[c].op = "computeIfAbsent"  -> IF found THEN kind = "cancel" ELSE kind \in {"write", "cancel"}
          [] my[c].op = "computeIfPresent" ->
               IF found THEN kind \in {"write", "delete", "cancel"} ELSE kind = "cancel"
          [] my[c].op = "compute"          -> kind \in {"write", "delete", "cancel"}

\* Only SetIfAbsent needs its time once more.
Computed(c, n, old, kept) ==
    Keep(c, [my[c] EXCEPT !.node = n, !.old = old, !.kept = kept,
                          !.now = IF my[c].op = "setIfAbsent" THEN @ ELSE 0])

Retire(n) == IF n = None THEN nodes
             ELSE [nodes EXCEPT ![n].state = IF @ = "alive" THEN "retired" ELSE @]

\* atomicSet: the new node inherits the deadline of the old one, and then gets its own.
AtomicSet(c, old) ==
    /\ Len(nodes) < MaxNodes
    /\ \E d \in IF Absent(old, my[c].now) THEN ExpireAfterCreate
               ELSE ExpireAfterUpdate(nodes[old].expiresAt - my[c].now) :
         nodes' = Append(Retire(old), [key |-> my[c].key, state |-> "alive",
                                       expiresAt |-> my[c].now + d])
    /\ map' = [map EXCEPT ![my[c].key] = Len(nodes')]
    /\ Computed(c, Len(nodes'), old, FALSE)

\* atomicDelete
AtomicDelete(c, old) ==
    /\ nodes' = Retire(old)
    /\ map' = [map EXCEPT ![my[c].key] = None]
    /\ Computed(c, None, old, FALSE)

Compute(c) ==
    LET old == map[my[c].key]
    IN  /\ pc[c] = "compute"
        /\ \E kind \in {"write", "delete", "cancel", "extend"} :
             /\ Fate(c, old, kind)
             /\ \/ kind = "write" /\ AtomicSet(c, old)
                \/ kind = "delete" /\ AtomicDelete(c, old)
                \/ /\ kind = "cancel" /\ old # None /\ Absent(old, my[c].now)
                   /\ AtomicDelete(c, old)
                \/ /\ kind = "cancel" /\ ~(old # None /\ Absent(old, my[c].now))
                   /\ Computed(c, old, old, TRUE)
                   /\ UNCHANGED data
                \/ /\ kind = "extend"
                   /\ \E d \in ExpireAfterRead(nodes[old].expiresAt - my[c].now) :
                        nodes' = [nodes EXCEPT ![old].expiresAt = my[c].now + d]
                   /\ Computed(c, old, old, TRUE)
                   /\ UNCHANGED map
        /\ Step(c, "compute", "after")
        /\ UNCHANGED <<readBuffer, tasks, calls, told, misjudged>>

\* Mutant: the task of an update does not know the node it replaces.
PushNew(kind, n, old) == tasks' = Append(tasks, [kind |-> kind, node |-> n, old |-> None])
Push(kind, n, old) == tasks' = Append(tasks, [kind |-> kind, node |-> n, old |-> old])

\* afterWrite, afterDelete and afterRead: SetIfAbsent looks at the old node once more in
\* order to know what it has done.
Wrote(c) == IF my[c].op = "setIfAbsent" THEN Absent(my[c].old, my[c].now)
            ELSE ~my[c].kept /\ my[c].node # None
After(c) ==
    /\ pc[c] = "after"
    /\ misjudged' = IF my[c].op = "setIfAbsent" /\ Wrote(c) = my[c].kept
                    THEN misjudged \cup ({my[c].node, my[c].old} \ {None}) ELSE misjudged
    /\ \/ /\ Wrote(c)
          /\ Push(IF my[c].old = None THEN "add" ELSE "update", my[c].node, my[c].old)
          /\ Return(c, "after") /\ UNCHANGED readBuffer
       \/ /\ ~Wrote(c) /\ my[c].node = None /\ my[c].old # None
          /\ Push("delete", my[c].old, my[c].old)
          /\ Return(c, "after") /\ UNCHANGED readBuffer
       \/ /\ ~Wrote(c) /\ my[c].op = "setIfAbsent"
          /\ Step(c, "after", "record") /\ Keep(c, [NoCall EXCEPT !.op = "get", !.node = my[c].old])
          /\ UNCHANGED <<tasks, readBuffer>>
       \/ /\ ~Wrote(c) /\ my[c].op # "setIfAbsent" /\ my[c].node = my[c].old
          /\ Return(c, "after") /\ UNCHANGED <<tasks, readBuffer>>
    /\ UNCHANGED <<data, calls, told>>

Client(c) ==
    /\ Call(c) \/ Lookup(c) \/ LoadExpiresAt(c) \/ CasExpiresAt(c) \/ Record(c) \/ Compute(c) \/ After(c)
    /\ UNCHANGED <<clock, calculator, wheel, maint>>

--------------------------------------------------------------------------------
(* maintenance *)

Tell(n) == told' = [told EXCEPT ![n] = @ + 1]

Begin ==
    /\ maint.pc = "off"
    /\ maint' = [maint EXCEPT !.pc = "reads"]
    /\ UNCHANGED <<data, readBuffer, tasks, wheel, told>>

\* Mutant: a node that is not alive any more is scheduled, too.
AddAnyway(w, n) == Schedule(w, n, nodes[n].expiresAt)
AddIfAlive(w, n) == IF IsAlive(n) THEN Schedule(w, n, nodes[n].expiresAt) ELSE w

\* onAccess: a node that is scheduled is scheduled anew.
OnAccess ==
    /\ maint.pc = "reads"
    /\ \E n \in readBuffer :
         /\ readBuffer' = readBuffer \ {n}
         /\ wheel' = IF ~Scheduled(wheel, n) THEN wheel
                     ELSE AddIfAlive(Unschedule(wheel, {n}), n)
    /\ UNCHANGED <<data, tasks, maint, told>>

ReadsDrained ==
    /\ maint.pc = "reads" /\ readBuffer = {}
    /\ maint' = [maint EXCEPT !.pc = "tasks"]
    /\ UNCHANGED <<data, readBuffer, tasks, wheel, told>>

RunTask ==
    /\ maint.pc = "tasks" /\ tasks # <<>>
    /\ LET t == Head(tasks)
       IN  \/ t.kind = "add" /\ wheel' = AddIfAlive(wheel, t.node) /\ UNCHANGED told
           \/ t.kind = "update" /\ wheel' = AddIfAlive(Unschedule(wheel, {t.old}), t.node) /\ Tell(t.old)
           \/ t.kind = "delete" /\ wheel' = Unschedule(wheel, {t.node}) /\ Tell(t.node)
    /\ tasks' = Tail(tasks)
    /\ UNCHANGED <<data, readBuffer, maint>>

\* DeleteExpired goes on with the nodes it holds, or takes the next list off the wheel.
Scan(w, scan, held) ==
    LET full == {i \in DOMAIN scan : InBucket(w, scan[i]) # {}}
        next == InBucket(w, scan[Min(full)])
    IN  /\ wheel' = IF held = {} /\ full # {} THEN Unschedule(w, next) ELSE w
        /\ maint' = IF held # {} THEN [NoMaint EXCEPT !.pc = "scan", !.scan = scan, !.held = held]
                    ELSE IF full = {} THEN NoMaint
                    ELSE [NoMaint EXCEPT !.pc = "scan", !.held = next,
                                         !.scan = SubSeq(scan, Min(full) + 1, Len(scan))]

\* expireNodes: the wheel is set to the clock.
DeleteExpired ==
    /\ maint.pc = "tasks" /\ tasks = <<>>
    /\ Scan([wheel EXCEPT !.time = clock], ToScan(wheel.time, clock), {})
    /\ UNCHANGED <<data, readBuffer, tasks, told>>

ScanNode ==
    /\ maint.pc = "scan"
    /\ \E n \in maint.held :
         \/ /\ nodes[n].expiresAt < wheel.time
            /\ maint' = [maint EXCEPT !.pc = "evict", !.node = n, !.held = @ \ {n}]
            /\ UNCHANGED wheel
         \/ /\ nodes[n].expiresAt >= wheel.time
            /\ Scan(Schedule(wheel, n, nodes[n].expiresAt), maint.scan, maint.held \ {n})
    /\ UNCHANGED <<data, readBuffer, tasks, told>>

\* Mutant: whatever node the key has now is removed.
EvictKey ==
    /\ maint.pc = "evict"
    /\ LET n == maint.node
       IN  /\ map' = [map EXCEPT ![nodes[n].key] = None]
           /\ nodes' = [nodes EXCEPT ![n].state = "dead"]
           /\ IF map[nodes[n].key] # None THEN Tell(n) ELSE UNCHANGED told
    /\ Scan(wheel, maint.scan, maint.held)
    /\ UNCHANGED <<readBuffer, tasks>>

\* evictNode: it is not asked once more whether the deadline has passed.
EvictNode ==
    /\ maint.pc = "evict"
    /\ LET n == maint.node
           current == map[nodes[n].key] = n
       IN  /\ map' = IF current THEN [map EXCEPT ![nodes[n].key] = None] ELSE map
           /\ nodes' = [nodes EXCEPT ![n].state = "dead"]
           /\ IF current THEN Tell(n) ELSE UNCHANGED told
    /\ Scan(wheel, maint.scan, maint.held)
    /\ UNCHANGED <<readBuffer, tasks>>

MaintenanceStep ==
    /\ Begin \/ OnAccess \/ ReadsDrained \/ RunTask \/ DeleteExpired \/ ScanNode \/ EvictNode
    /\ UNCHANGED <<clock, calculator, pc, my, calls, misjudged>>

Next == Tick \/ (\E c \in Clients : Client(c)) \/ MaintenanceStep

Spec == Init /\ [][Next]_vars

--------------------------------------------------------------------------------
(* Properties *)

\* The variables stay in their ranges; the wheel holds nodes, and is not ahead of the clock.
TypeOK ==
    /\ map \in [Keys -> (DOMAIN nodes) \cup {None}]
    /\ \A n \in DOMAIN nodes : nodes[n].expiresAt \in 0..(Word - 1)
    /\ DOMAIN wheel.in \subseteq DOMAIN nodes
    /\ wheel.time <= clock
    /\ \A i \in DOMAIN tasks : /\ tasks[i].node \in DOMAIN nodes
                               /\ tasks[i].kind # "add" => tasks[i].old \in DOMAIN nodes
    /\ readBuffer \subseteq DOMAIN nodes /\ misjudged \subseteq DOMAIN nodes

\* Nobody is between its change of the map and its task, nothing is queued, and no
\* maintenance is running.
AtRest == /\ \A c \in Clients : pc[c] # "after"
          /\ tasks = <<>> /\ maint.pc = "off"

TrackedBut(S) ==
    AtRest => \A n \in (DOMAIN nodes) \ S :
                 (\E k \in Keys : map[k] = n) <=> Scheduled(wheel, n)

\* What is in the map is on the wheel, and nothing else is: no order of the tasks and
\* recorded reads leaves a removed node scheduled or an entry without a timer, but
\* for the entries about which SetIfAbsent has changed its mind.
EntriesTracked == TrackedBut(misjudged)

\* Every entry is removed automatically once its duration has elapsed (options.go:103),
\* and therefore on the wheel.
AllEntriesTracked == TrackedBut({})

\* The listener is told of every node that has left the map, once, whoever removed it.
ToldOnce ==
    \A n \in (DOMAIN nodes) \ misjudged :
        /\ told[n] <= 1
        /\ told[n] = 1 => \A k \in Keys : map[k] # n
        /\ AtRest /\ told[n] = 0 => \E k \in Keys : map[k] = n

\* After every run of the maintenance each scheduled node has its deadline ahead, or in
\* the present tick; but for the nodes that were scheduled after their deadline, and
\* those whose deadline has been put forward since.
OnTime(n) == LET s == wheel.in[n] IN s.late \/ nodes[n].expiresAt < s.by
                                     \/ Ticks(nodes[n].expiresAt, 1) >= Ticks(wheel.time, 1)
EveryDeadlineMet == maint.pc \in {"off", "reads", "tasks"} => \A n \in DOMAIN wheel.in : OnTime(n)

\* With the type invariant: the wheel and the map agree, and the wheel is not ahead.
TimersSound == TypeOK /\ EntriesTracked

=============================================================================
