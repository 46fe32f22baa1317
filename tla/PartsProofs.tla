----------------------------- MODULE PartsProofs -----------------------------
(***************************************************************************)
(* Proofs about three parts of the library that have nothing to do with    *)
(* each other.                                                             *)
(*                                                                         *)
(* Expiration, for any wheel, keys, clients, operations and durations that *)
(* do not overflow: the wheel and the map agree (TimersSound), and         *)
(* OnDeletion is told of every node that has left the map, once (ToldOnce).*)
(* The invariant keeps an account of every node: a task that brings it to  *)
(* the wheel is in somebody's hands or the node is tracked there; a task   *)
(* that takes it away is, or the listener was told.                        *)
(*                                                                         *)
(* Leaderboard, for any finite set of members, any agents,                 *)
(* any capacity, any scores and any cap: the board is faithful.  What is   *)
(* needed beyond the property: an agent in a locked section holds the      *)
(* mutex, so that the sum it has read is still due when it writes; as long *)
(* as nobody is lowered, a member on the board has its best score, and     *)
(* nobody has been dropped from a board that still has room; and a change  *)
(* that is still to be told is the member's score.                         *)
(*                                                                         *)
(* Refresh, for any callers and plans, any period and any backoff: reloads *)
(* are sound (ReloadsSound).  The invariant says who holds the bucket and  *)
(* who is registered; that a version in the map, or read from it, had been *)
(* installed for good, so that no version is installed twice; and what is  *)
(* to come of a call that has not ended: it is registered, or the writer   *)
(* that has cancelled it is about to replace the version.                  *)
(***************************************************************************)
EXTENDS Expiration, Leaderboard, Refresh, FiniteSetTheorems, TLAPS

--------------------------------------------------------------------------------
(* What is owed to a node *)

NoTask == [kind |-> "none", node |-> None, old |-> None]

\* The task that a client is about to push, if it does not change its mind.
Owed(c) ==
    LET call == my[c]
    IN  IF pc[c] # "after" \/ call.kept THEN NoTask
        ELSE IF call.node # None
        THEN [kind |-> IF call.old = None THEN "add" ELSE "update",
              node |-> call.node, old |-> call.old]
        ELSE IF call.old # None THEN [kind |-> "delete", node |-> call.old, old |-> call.old]
        ELSE NoTask

\* A task brings a node to the wheel, or takes it from there.
Does(t, way, n) ==
    \/ way = "brings" /\ t.kind \in {"add", "update"} /\ t.node = n
    \/ way = "takes" /\ t.kind \in {"update", "delete"} /\ t.old = n

Ways == {"brings", "takes"}

\* There is such a task, in a client's hands or in the buffer; there is one at most.
SomeTask(way, n) ==
    \/ \E c \in Clients : Does(Owed(c), way, n)
    \/ \E i \in DOMAIN tasks : Does(tasks[i], way, n)

OneTask(way, n) ==
    /\ \A c, d \in Clients : Does(Owed(c), way, n) /\ Does(Owed(d), way, n) => c = d
    /\ \A i, j \in DOMAIN tasks : Does(tasks[i], way, n) /\ Does(tasks[j], way, n) => i = j
    /\ \A c \in Clients, i \in DOMAIN tasks : ~(Does(Owed(c), way, n) /\ Does(tasks[i], way, n))

InMap(n) == map[nodes[n].key] = n

\* A node is on the wheel, or in the hands of the maintenance that has taken it off.
Tracked(n) == \/ Scheduled(wheel, n) \/ n \in maint.held
              \/ maint.pc = "evict" /\ maint.node = n

--------------------------------------------------------------------------------
(* The inductive invariant *)

Ids     == DOMAIN nodes
SomeIds == Ids \cup {None}

NodeSet == [key : Keys, state : {"alive", "retired", "dead"}, expiresAt : 0..(Word - 1)]

TaskSet == [kind : {"add", "update", "delete"}, node : Ids, old : SomeIds]

CallSet == [op : Operations \cup {"none"}, key : Keys \cup {None}, now : Nat, node : SomeIds,
            old : SomeIds, expected : Nat, expires : 0..(Word - 1), kept : BOOLEAN]

Types ==
    /\ clock \in 0..MaxTime
    /\ nodes \in Seq(NodeSet) /\ Len(nodes) <= MaxNodes
    /\ map \in [Keys -> SomeIds]
    /\ readBuffer \subseteq Ids /\ misjudged \subseteq Ids
    /\ tasks \in Seq(TaskSet)
    /\ DOMAIN wheel = {"time", "in"} /\ wheel.time \in 0..clock /\ DOMAIN wheel.in \subseteq Ids
    /\ DOMAIN maint = {"pc", "scan", "held", "node"} /\ maint.held \subseteq Ids
    /\ told \in [1..MaxNodes -> Nat]

\* A client is where its operation leads it, with what it needs there.
CallSound(at, call) ==
    /\ at \in {"off", "lookup", "load", "cas", "record", "compute", "after"}
    /\ call \in CallSet /\ call.now <= clock
    /\ at \in {"lookup", "compute", "after"} \/ call.op = "computeIfPresent" => call.key \in Keys
    /\ at \in {"load", "cas", "record"} => call.node # None
    /\ at \in {"lookup", "load", "cas", "record"} =>
         call.op \in {"get", "setExpiresAfter", "computeIfAbsent", "computeIfPresent"}
    /\ at \in {"compute", "after"} => call.op \in Operations \ {"get", "setExpiresAfter"}
    /\ at = "after" => /\ call.kept => call.node = call.old
                       /\ call.op = "setIfAbsent" => call.node # None

CallsSound ==
    /\ DOMAIN pc = Clients /\ my \in [Clients -> CallSet]
    /\ \A c \in Clients : CallSound(pc[c], my[c])

TasksSound ==
    \A i \in DOMAIN tasks : /\ tasks[i].kind # "add" => tasks[i].old # None
                            /\ tasks[i].kind = "delete" => tasks[i].node = tasks[i].old

\* The nodes in the map are the ones that are alive.
MapSound ==
    /\ \A k \in Keys : map[k] # None => nodes[map[k]].key = k
    /\ \A n \in Ids : IsAlive(n) <=> InMap(n)

\* The maintenance holds nothing between its runs, and what it holds is not on the wheel.
MaintSound ==
    /\ maint.pc \in {"off", "reads", "tasks", "scan", "evict"}
    /\ maint.pc \in {"off", "reads", "tasks"} => maint.held = {}
    /\ \A n \in maint.held : ~Scheduled(wheel, n)
    /\ maint.pc = "evict" => /\ maint.node \in Ids \ maint.held
                             /\ ~Scheduled(wheel, maint.node)

\* A node in the map is tracked or will be brought; one that has left it will be taken, or
\* was told and is tracked no more.
Account(n) ==
    /\ OneTask("brings", n) /\ OneTask("takes", n)
    /\ ~(SomeTask("brings", n) /\ Tracked(n))
    /\ InMap(n) => /\ ~SomeTask("takes", n) /\ told[n] = 0
                   /\ SomeTask("brings", n) \/ Tracked(n)
    /\ ~InMap(n) => \/ SomeTask("takes", n) /\ told[n] = 0
                    \/ ~SomeTask("takes", n) /\ told[n] = 1 /\ ~Tracked(n)

Accounted == \A n \in Ids \ misjudged : Account(n)

Untold == \A n \in (1..MaxNodes) \ Ids : told[n] = 0

Inv == Types /\ CallsSound /\ TasksSound /\ MapSound /\ MaintSound /\ Accounted /\ Untold

--------------------------------------------------------------------------------
(* Lemmas about the wheel *)

IsWheel(w) == DOMAIN w = {"time", "in"}

\* To schedule a node puts it on the wheel, whatever its bucket.
LEMMA ScheduleSound ==
    ASSUME NEW w, IsWheel(w), NEW n, NEW t
    PROVE  /\ IsWheel(Schedule(w, n, t)) /\ Schedule(w, n, t).time = w.time
           /\ \A x : Scheduled(Schedule(w, n, t), x) <=> x = n \/ Scheduled(w, x)
<1> DEFINE e == [bucket |-> FindBucket(w, t), by |-> t, late |-> t < w.time]
           f == [m \in DOMAIN w.in \cup {n} |-> IF m = n THEN e ELSE w.in[m]]
<1>1. DOMAIN f = DOMAIN w.in \cup {n}
  OBVIOUS
<1> HIDE DEF f
<1>2. Schedule(w, n, t) = [w EXCEPT !.in = f]
  BY DEF Schedule, f
<1>3. IsWheel([w EXCEPT !.in = f]) /\ [w EXCEPT !.in = f].in = f /\ [w EXCEPT !.in = f].time = w.time
  BY DEF IsWheel
<1>4. QED
  BY <1>1, <1>2, <1>3 DEF Scheduled

\* To unschedule nodes takes these from the wheel.
LEMMA UnscheduleSound ==
    ASSUME NEW w, IsWheel(w), NEW N
    PROVE  /\ IsWheel(Unschedule(w, N)) /\ Unschedule(w, N).time = w.time
           /\ \A x : Scheduled(Unschedule(w, N), x) <=> Scheduled(w, x) /\ x \notin N
<1> DEFINE f == Restrict(w.in, DOMAIN w.in \ N)
<1>1. DOMAIN f = DOMAIN w.in \ N
  BY DEF Restrict
<1> HIDE DEF f
<1>2. Unschedule(w, N) = [w EXCEPT !.in = f]
  BY DEF Unschedule, f
<1>3. IsWheel([w EXCEPT !.in = f]) /\ [w EXCEPT !.in = f].in = f /\ [w EXCEPT !.in = f].time = w.time
  BY DEF IsWheel
<1>4. QED
  BY <1>1, <1>2, <1>3 DEF Scheduled

\* Only a node that is alive is scheduled.
LEMMA AddIfAliveSound ==
    ASSUME NEW w, IsWheel(w), NEW n
    PROVE  /\ IsWheel(AddIfAlive(w, n)) /\ AddIfAlive(w, n).time = w.time
           /\ \A x : Scheduled(AddIfAlive(w, n), x) <=> (x = n /\ IsAlive(n)) \/ Scheduled(w, x)
  BY ScheduleSound DEF AddIfAlive

\* DeleteExpired goes on with the nodes it holds or takes others off the wheel: those that
\* are tracked stay so, and when it has none it has ended.
LEMMA ScanSound ==
    ASSUME NEW w, IsWheel(w), NEW scan, NEW held, \A x \in held : ~Scheduled(w, x),
           Scan(w, scan, held)
    PROVE  /\ IsWheel(wheel') /\ wheel'.time = w.time
           /\ DOMAIN maint' = {"pc", "scan", "held", "node"}
           /\ maint'.pc = "scan" \/ (maint'.pc = "off" /\ maint'.held = {})
           /\ \A x \in maint'.held : ~Scheduled(wheel', x)
           /\ \A x : Scheduled(wheel', x) \/ x \in maint'.held <=> Scheduled(w, x) \/ x \in held
<1> DEFINE full == {i \in DOMAIN scan : InBucket(w, scan[i]) # {}}
           next == InBucket(w, scan[Min(full)])
<1>1. \A x \in next : Scheduled(w, x)
  BY DEF InBucket, Scheduled
<1>2. /\ wheel' = IF held = {} /\ full # {} THEN Unschedule(w, next) ELSE w
      /\ maint' = IF held # {} THEN [NoMaint EXCEPT !.pc = "scan", !.scan = scan, !.held = held]
                  ELSE IF full = {} THEN NoMaint
                  ELSE [NoMaint EXCEPT !.pc = "scan", !.held = next,
                                       !.scan = SubSeq(scan, Min(full) + 1, Len(scan))]
  BY DEF Scan
<1> HIDE DEF full, next
<1>3. CASE held # {}
  BY <1>2, <1>3 DEF NoMaint
<1>4. CASE held = {} /\ full = {}
  BY <1>2, <1>4 DEF NoMaint
<1>5. CASE held = {} /\ full # {}
  <2>1. wheel' = Unschedule(w, next) /\ maint'.held = next /\ maint'.pc = "scan"
        /\ DOMAIN maint' = {"pc", "scan", "held", "node"}
    BY <1>2, <1>5 DEF NoMaint
  <2>2. QED
    BY <1>1, <1>5, <2>1, UnscheduleSound
<1>6. QED
  BY <1>3, <1>4, <1>5

--------------------------------------------------------------------------------
(* Steps of the clients that owe nothing *)

\* What a step may do to the nodes without new ones, or new deaths: move deadlines.
NodesKept ==
    /\ nodes' \in Seq(NodeSet) /\ Ids' = Ids
    /\ \A n \in Ids : nodes'[n].key = nodes[n].key /\ nodes'[n].state = nodes[n].state

\* A client takes a step, the others do not.
LEMMA CallsStep ==
    ASSUME CallsSound, NEW c \in Clients, NEW at, NEW call,
           pc' = [pc EXCEPT ![c] = at], my' = [my EXCEPT ![c] = call],
           Ids \subseteq Ids', clock' = clock, CallSound(at, call)'
    PROVE  CallsSound'
<1>1. CallSet \subseteq CallSet'
  BY DEF CallSet, SomeIds
<1>2. ASSUME NEW d \in Clients, d # c PROVE CallSound(pc[d], my[d])' 
  <2>1. pc'[d] = pc[d] /\ my'[d] = my[d]
    BY <1>2 DEF CallsSound
  <2>2. CallSound(pc[d], my[d])
    BY DEF CallsSound
  <2>3. QED
    BY <1>1, <2>1, <2>2 DEF CallSound
<1>3. /\ pc'[c] = at /\ my'[c] = call /\ DOMAIN pc' = Clients
      /\ my' \in [Clients -> CallSet']
  BY <1>1 DEF CallsSound, CallSound
<1>4. CallSound(pc[c], my[c])'
  BY <1>3
<1>5. QED
  BY <1>2, <1>3, <1>4 DEF CallsSound

\* The account of a node that the step has nothing to do with.
LEMMA AccountKept ==
    ASSUME NEW n, Account(n), tasks' = tasks,
           \A c \in Clients, way \in Ways : Does(Owed(c)', way, n) <=> Does(Owed(c), way, n),
           InMap(n)' <=> InMap(n), Tracked(n)' <=> Tracked(n), told'[n] = told[n]
    PROVE  Account(n)'
<1>1. ASSUME NEW way \in Ways
      PROVE  (SomeTask(way, n)' <=> SomeTask(way, n)) /\ (OneTask(way, n) => OneTask(way, n)')
  BY DEF SomeTask, OneTask, Does
<1>2. "brings" \in Ways /\ "takes" \in Ways
  BY DEF Ways
<1>3. QED
  BY <1>1, <1>2 DEF Account

\* A step of a client that changes deadlines only.
LEMMA QuietStep ==
    ASSUME Inv, NEW c \in Clients, NEW at, NEW call, pc[c] # "after", at # "after" \/ call.kept,
           pc' = [pc EXCEPT ![c] = at], my' = [my EXCEPT ![c] = call],
           NodesKept, CallSound(at, call)', readBuffer' \subseteq Ids,
           UNCHANGED <<clock, map, tasks, wheel, maint, told, misjudged>>
    PROVE  Inv'
<1>1. CallsSound'
  BY CallsStep DEF Inv, NodesKept
<1>2. Types'
  <2>1. TaskSet' = TaskSet /\ SomeIds' = SomeIds
    BY DEF TaskSet, SomeIds, NodesKept
  <2>2. Len(nodes') = Len(nodes)
    BY DEF NodesKept, Ids, Inv, Types
  <2>3. QED
    BY <2>1, <2>2 DEF Types, Inv, NodesKept
<1>3. \A n \in Ids : (InMap(n)' <=> InMap(n)) /\ (IsAlive(n)' <=> IsAlive(n))
  BY DEF NodesKept, InMap, IsAlive
<1>4. MapSound'
  <2>1. ASSUME NEW k \in Keys, map[k] # None PROVE nodes'[map[k]].key = k
    BY <2>1 DEF Inv, Types, MapSound, NodesKept, SomeIds
  <2>2. QED
    BY <1>3, <2>1 DEF Inv, MapSound, NodesKept
<1>5. \A d \in Clients : Owed(d)' = Owed(d)
  <2>1. DOMAIN pc = Clients /\ DOMAIN my = Clients
    BY DEF Inv, CallsSound
  <2>2. Owed(c)' = NoTask /\ Owed(c) = NoTask
    BY <2>1 DEF Owed
  <2>3. ASSUME NEW d \in Clients, d # c PROVE Owed(d)' = Owed(d)
    <3>1. pc'[d] = pc[d] /\ my'[d] = my[d]
      BY <2>1, <2>3
    <3>2. QED
      BY <3>1 DEF Owed
  <2>4. QED
    BY <2>2, <2>3
<1>6. Accounted'
  <2>1. ASSUME NEW n \in Ids \ misjudged PROVE Account(n)'
    <3>1. Account(n) /\ (Tracked(n)' <=> Tracked(n))
      BY DEF Inv, Accounted, Tracked, Scheduled
    <3>2. QED
      BY <1>3, <1>5, <3>1, AccountKept
  <2>2. QED
    BY <2>1 DEF Accounted, NodesKept
<1>7. TasksSound' /\ MaintSound' /\ Untold'
  BY DEF Inv, TasksSound, MaintSound, Untold, NodesKept, Scheduled
<1>8. QED
  BY <1>1, <1>2, <1>4, <1>6, <1>7 DEF Inv

\* The nodes are as they are declared.
LEMMA NodeTyped ==
    ASSUME Types, NEW n \in Ids
    PROVE  /\ n \in Nat /\ nodes[n] \in NodeSet /\ nodes[n].key \in Keys
           /\ nodes[n].expiresAt \in 0..(Word - 1)
<1>1. nodes[n] \in NodeSet /\ n \in Nat
  BY DEF Types, Ids
<1>2. QED
  BY <1>1 DEF NodeSet

\* A node's deadline is at most a duration after a time that is not over.
LEMMA NewDeadline ==
    ASSUME Types, NEW t \in Nat, t <= clock, NEW d \in TTLs PROVE t + d \in 0..(Word - 1)
<1>1. /\ d \in Nat /\ MaxTime \in Nat /\ Word \in Nat /\ MaxTime + d < Word
      /\ clock \in Nat /\ clock <= MaxTime
  BY ExpirationAssumption, TimerWheelAssumption DEF Types
<1>2. QED
  BY <1>1

\* A client that calls nothing is sound.
LEMMA NothingToCall == ASSUME Types PROVE CallSound("off", NoCall)
<1>1. NoCall \in CallSet /\ NoCall.op = "none" /\ NoCall.now = 0 /\ clock \in Nat
  BY ExpirationAssumption, TimerWheelAssumption DEF NoCall, CallSet, SomeIds, Types
<1>2. QED
  BY <1>1 DEF CallSound

\* To move a deadline keeps the nodes.
LEMMA MovedDeadline ==
    ASSUME Types, NEW n \in Ids, NEW t \in 0..(Word - 1), nodes' = [nodes EXCEPT ![n].expiresAt = t]
    PROVE  NodesKept
<1>1. nodes \in Seq(NodeSet) /\ nodes[n] \in NodeSet
  BY NodeTyped DEF Types
<1>2. PICK r : r = [nodes[n] EXCEPT !.expiresAt = t]
  OBVIOUS
<1>3. r \in NodeSet /\ r.key = nodes[n].key /\ r.state = nodes[n].state
  BY <1>1, <1>2 DEF NodeSet
<1>4. nodes' = [nodes EXCEPT ![n] = r]
  BY <1>2
<1>5. nodes' \in Seq(NodeSet) /\ DOMAIN nodes' = DOMAIN nodes
  BY <1>1, <1>3, <1>4 DEF Ids
<1>6. \A m \in Ids : nodes'[m] = IF m = n THEN r ELSE nodes[m]
  BY <1>1, <1>4 DEF Ids
<1>7. QED
  BY <1>3, <1>5, <1>6 DEF NodesKept, Ids

LEMMA CallStep == ASSUME Inv, NEW c \in Clients, Client(c), Call(c) PROVE Inv'
<1> DEFINE at(op)      == IF op \in {"get", "setExpiresAfter", "computeIfAbsent", "computeIfPresent"}
                          THEN "lookup" ELSE "compute"
           call(op, k) == [NoCall EXCEPT !.op = op, !.key = k, !.now = clock]
<1>1. PICK op \in Ops[c], k \in Keys : Step(c, "off", at(op)) /\ Keep(c, call(op, k))
  BY DEF Call
<1>2. op \in Operations /\ clock \in Nat /\ 0 \in 0..(Word - 1)
  BY ExpirationAssumption, TimerWheelAssumption DEF Inv, Types
<1>3. UNCHANGED <<clock, map, nodes, readBuffer, tasks, wheel, maint, told, misjudged>>
  BY DEF Client, Call, data
<1>4. PICK new : new = call(op, k)
  OBVIOUS
<1>5. new \in CallSet /\ new.op = op /\ new.key = k /\ new.now = clock
  BY <1>2, <1>4 DEF CallSet, NoCall, SomeIds
<1>6. CallSet' = CallSet
  BY <1>3 DEF CallSet, SomeIds, Ids
<1>7. CallSound(at(op), new)
  BY <1>2, <1>5 DEF CallSound, Operations
<1>8. CallSound(at(op), new)'
  BY <1>3, <1>6, <1>7 DEF CallSound
<1>9. NodesKept /\ readBuffer' \subseteq Ids
  BY <1>3 DEF NodesKept, Inv, Types, Ids
<1>10. /\ pc[c] = "off" /\ pc' = [pc EXCEPT ![c] = at(op)] /\ my' = [my EXCEPT ![c] = new]
       /\ at(op) # "after"
  BY <1>1, <1>4 DEF Step, Keep
<1>11. pc[c] # "after"
  BY <1>10
<1> HIDE DEF at
<1>12. QED
  BY <1>3, <1>8, <1>9, <1>10, <1>11, QuietStep

LEMMA LookupStep == ASSUME Inv, NEW c \in Clients, Client(c), Lookup(c) PROVE Inv'
<1> DEFINE n == map[my[c].key]
           call == my[c]
<1>1. /\ UNCHANGED <<clock, map, nodes, readBuffer, tasks, wheel, maint, told, misjudged>>
      /\ pc[c] = "lookup"
  BY Zenon DEF Client, Lookup, data
<1>2. NodesKept /\ readBuffer' \subseteq Ids /\ CallSet' = CallSet
  BY <1>1 DEF NodesKept, Inv, Types, Ids, CallSet, SomeIds
<1>3. CallSound(pc[c], call)
  BY DEF Inv, CallsSound
<1>4. PICK at, new : /\ pc' = [pc EXCEPT ![c] = at] /\ my' = [my EXCEPT ![c] = new]
                     /\ at # "after" /\ CallSound(at, new)
  <2>1. CASE Return(c, "lookup")
    BY <2>1, NothingToCall DEF Return, Step, Keep, Inv
  <2>2. CASE Step(c, "lookup", "compute") /\ my[c].op = "computeIfAbsent" /\ UNCHANGED my
    <3>1. CallSound("compute", call)
      BY <1>1, <1>3, <2>2 DEF CallSound, Operations
    <3>2. my' = [my EXCEPT ![c] = call] /\ pc' = [pc EXCEPT ![c] = "compute"]
      BY <2>2 DEF Step, Inv, CallsSound
    <3>3. QED
      BY <3>1, <3>2
  <2>3. ASSUME Step(c, "lookup", "load"), n # None,
               NEW d \in (IF my[c].op = "setExpiresAfter" THEN TTLs
                          ELSE ExpireAfterRead(nodes[n].expiresAt - my[c].now)),
               Keep(c, [my[c] EXCEPT !.node = n, !.expires = my[c].now + d])
        PROVE  \E at, new : /\ pc' = [pc EXCEPT ![c] = at] /\ my' = [my EXCEPT ![c] = new]
                            /\ at # "after" /\ CallSound(at, new)
    <3> DEFINE new == [my[c] EXCEPT !.node = n, !.expires = my[c].now + d]
    <3>1. call \in CallSet /\ call.now <= clock /\ call.key \in Keys
      BY <1>1, <1>3 DEF CallSound
    <3>2. n \in Ids /\ nodes[n].expiresAt \in 0..(Word - 1)
      <4>1. n \in Ids
        BY <2>3, <3>1 DEF Inv, Types, SomeIds
      <4>2. QED
        BY <4>1, NodeTyped DEF Inv
    <3>3. my[c].now + d \in 0..(Word - 1)
      <4>1. CASE d \in TTLs
        BY <3>1, <4>1, NewDeadline DEF Inv, CallSet
      <4>2. CASE d = nodes[n].expiresAt - my[c].now
        <5>1. my[c].now \in Nat /\ nodes[n].expiresAt \in Nat
          BY <3>1, <3>2 DEF CallSet
        <5>2. QED
          BY <3>2, <4>2, <5>1
      <4>3. QED
        BY <2>3, <4>1, <4>2 DEF ExpireAfterRead
    <3>4. /\ new \in CallSet /\ new.node = n /\ new.now = call.now /\ new.key = call.key
          /\ new.op = call.op
      BY <3>1, <3>2, <3>3 DEF CallSet, SomeIds
    <3> HIDE DEF new
    <3>5. CallSound("load", new)
      BY <1>1, <1>3, <2>3, <3>4 DEF CallSound
    <3>6. my' = [my EXCEPT ![c] = new] /\ pc' = [pc EXCEPT ![c] = "load"]
      BY <2>3 DEF Step, Keep, new
    <3>7. QED
      BY <3>5, <3>6
  <2> DEFINE absent == (IF my[c].op = "setExpiresAfter" THEN n = None ELSE Absent(n, my[c].now))
  <2>4. ~absent => n # None
    BY Zenon DEF Absent
  <2>5. \/ absent /\ my[c].op = "computeIfAbsent" /\ Step(c, "lookup", "compute") /\ UNCHANGED my
        \/ absent /\ my[c].op # "computeIfAbsent" /\ Return(c, "lookup")
        \/ /\ ~absent /\ Step(c, "lookup", "load")
           /\ \E d \in (IF my[c].op = "setExpiresAfter" THEN TTLs
                        ELSE ExpireAfterRead(nodes[n].expiresAt - my[c].now)) :
                Keep(c, [my[c] EXCEPT !.node = n, !.expires = my[c].now + d])
    BY Zenon DEF Lookup
  <2> HIDE DEF absent, n
  <2>6. QED
    BY <2>1, <2>2, <2>3, <2>4, <2>5
<1>5. CallSound(at, new)'
  BY <1>1, <1>2, <1>4 DEF CallSound
<1>6. pc[c] # "after"
  BY <1>1
<1>7. QED
  BY <1>1, <1>2, <1>4, <1>5, <1>6, QuietStep, Zenon

\* What a client needs in order to be at "record".
LEMMA ToRecordSound ==
    ASSUME Inv, NEW c \in Clients, NEW from, from \in {"load", "cas"}, ToRecord(c, from, my[c].node)
    PROVE  \E new : /\ pc' = [pc EXCEPT ![c] = "record"] /\ my' = [my EXCEPT ![c] = new]
                    /\ pc[c] = from /\ CallSound("record", new)
<1>1. CallSound(pc[c], my[c]) /\ pc[c] = from
  BY DEF Inv, CallsSound, ToRecord, Step
<1>2. PICK new : new = [my[c] EXCEPT !.expires = 0, !.expected = 0]
  OBVIOUS
<1>3. 0 \in 0..(Word - 1)
  BY TimerWheelAssumption
<1>4. my[c] \in CallSet
  BY <1>1 DEF CallSound
<1>5. /\ new \in CallSet /\ new.node = my[c].node /\ new.op = my[c].op /\ new.now = my[c].now
      /\ new.key = my[c].key /\ new = [my[c] EXCEPT !.node = my[c].node, !.expires = 0, !.expected = 0]
  BY <1>2, <1>3, <1>4 DEF CallSet
<1>6. CallSound("record", new)
  BY <1>1, <1>5 DEF CallSound
<1>7. QED
  BY <1>1, <1>5, <1>6 DEF ToRecord, Step, Keep

LEMMA LoadExpiresAtStep == ASSUME Inv, NEW c \in Clients, Client(c), LoadExpiresAt(c) PROVE Inv'
<1>1. /\ UNCHANGED <<clock, map, nodes, readBuffer, tasks, wheel, maint, told, misjudged>>
      /\ pc[c] = "load"
  BY DEF Client, LoadExpiresAt, data
<1>2. NodesKept /\ readBuffer' \subseteq Ids /\ CallSet' = CallSet
  BY <1>1 DEF NodesKept, Inv, Types, Ids, CallSet, SomeIds
<1>3. CallSound(pc[c], my[c])
  BY DEF Inv, CallsSound
<1>4. PICK at, new : /\ pc' = [pc EXCEPT ![c] = at] /\ my' = [my EXCEPT ![c] = new]
                     /\ at # "after" /\ CallSound(at, new)
  <2>1. CASE ToRecord(c, "load", my[c].node)
    BY <2>1, ToRecordSound
  <2>2. CASE /\ Step(c, "load", "cas")
             /\ Keep(c, [my[c] EXCEPT !.expected = nodes[my[c].node].expiresAt])
    <3>1. my[c] \in CallSet /\ my[c].node \in Ids
      BY <1>1, <1>3 DEF CallSound, CallSet, SomeIds
    <3>2. nodes[my[c].node].expiresAt \in Nat
      BY <3>1, NodeTyped DEF Inv
    <3>3. PICK new : new = [my[c] EXCEPT !.expected = nodes[my[c].node].expiresAt]
      OBVIOUS
    <3>4. /\ new \in CallSet /\ new.node = my[c].node /\ new.op = my[c].op /\ new.now = my[c].now
          /\ new.key = my[c].key /\ new.expires = my[c].expires
      BY <3>1, <3>2, <3>3 DEF CallSet
    <3>5. CallSound("cas", new)
      BY <1>1, <1>3, <3>4 DEF CallSound
    <3>6. QED
      BY <2>2, <3>3, <3>5 DEF Step, Keep
  <2>3. QED
    BY <2>1, <2>2 DEF LoadExpiresAt
<1>5. CallSound(at, new)' /\ pc[c] # "after"
  BY <1>1, <1>2, <1>4 DEF CallSound
<1>6. QED
  BY <1>1, <1>2, <1>4, <1>5, QuietStep

LEMMA CasExpiresAtStep == ASSUME Inv, NEW c \in Clients, Client(c), CasExpiresAt(c) PROVE Inv'
<1>1. /\ UNCHANGED <<clock, map, readBuffer, tasks, wheel, maint, told, misjudged>>
      /\ ToRecord(c, "cas", my[c].node) /\ pc[c] = "cas"
  BY DEF Client, CasExpiresAt, ToRecord, Step
<1>2. CallSound(pc[c], my[c])
  BY DEF Inv, CallsSound
<1> DEFINE n == my[c].node
           t == IF nodes[n].expiresAt = my[c].expected THEN my[c].expires ELSE nodes[n].expiresAt
<1>3. n \in Ids /\ t \in 0..(Word - 1)
  <2>1. n \in Ids /\ my[c].expires \in 0..(Word - 1)
    BY <1>1, <1>2 DEF CallSound, CallSet, SomeIds
  <2>2. QED
    BY <2>1, NodeTyped DEF Inv
<1>4. nodes' = [nodes EXCEPT ![n].expiresAt = t]
  BY DEF CasExpiresAt
<1>5. NodesKept
  <2> HIDE DEF n, t
  <2>1. QED
    BY <1>3, <1>4, MovedDeadline DEF Inv
<1>6. PICK new : /\ pc' = [pc EXCEPT ![c] = "record"] /\ my' = [my EXCEPT ![c] = new]
                 /\ CallSound("record", new)
  BY <1>1, ToRecordSound
<1>7. readBuffer' \subseteq Ids /\ CallSet' = CallSet
  BY <1>1, <1>5 DEF NodesKept, Inv, Types, CallSet, SomeIds
<1>8. CallSound("record", new)' /\ pc[c] # "after"
  BY <1>1, <1>6, <1>7 DEF CallSound
<1>9. QED
  BY <1>1, <1>5, <1>6, <1>7, <1>8, QuietStep

LEMMA RecordStep == ASSUME Inv, NEW c \in Clients, Client(c), Record(c) PROVE Inv'
<1>1. /\ UNCHANGED <<clock, map, nodes, tasks, wheel, maint, told, misjudged>>
      /\ pc[c] = "record"
  BY DEF Client, Record, data, Return, Step
<1>2. CallSound(pc[c], my[c])
  BY DEF Inv, CallsSound
<1>3. my[c] \in CallSet /\ my[c].node \in Ids
  BY <1>1, <1>2 DEF CallSound, CallSet, SomeIds
<1>4. NodesKept /\ readBuffer' \subseteq Ids /\ CallSet' = CallSet
  BY <1>1, <1>3 DEF Record, NodesKept, Inv, Types, Ids, CallSet, SomeIds
<1>5. PICK at, new : /\ pc' = [pc EXCEPT ![c] = at] /\ my' = [my EXCEPT ![c] = new]
                     /\ at # "after" /\ CallSound(at, new)
  <2>1. CASE Return(c, "record")
    BY <2>1, NothingToCall DEF Return, Step, Keep, Inv
  <2>2. CASE Step(c, "record", "compute") /\ my[c].op = "computeIfPresent" /\ UNCHANGED my
    <3>1. CallSound("compute", my[c])
      BY <1>1, <1>2, <2>2 DEF CallSound, Operations
    <3>2. my' = [my EXCEPT ![c] = my[c]] /\ pc' = [pc EXCEPT ![c] = "compute"]
      BY <2>2 DEF Step, Inv, CallsSound
    <3>3. QED
      BY <3>1, <3>2
  <2>3. QED
    BY <2>1, <2>2 DEF Record
<1>6. CallSound(at, new)' /\ pc[c] # "after"
  BY <1>1, <1>4, <1>5 DEF CallSound
<1>7. QED
  BY <1>1, <1>4, <1>5, <1>6, QuietStep

LEMMA TickStep == ASSUME Inv, Tick PROVE Inv'
<1>1. /\ clock \in Nat /\ clock' = clock + 1 /\ clock' \in 0..MaxTime
      /\ UNCHANGED <<map, nodes, readBuffer, tasks, wheel, maint, pc, my, told, misjudged>>
  BY ExpirationAssumption DEF Inv, Types, Tick, data
<1>2. Ids' = Ids /\ SomeIds' = SomeIds /\ CallSet' = CallSet /\ TaskSet' = TaskSet
  BY <1>1 DEF Ids, SomeIds, CallSet, TaskSet
<1>3. Types'
  BY <1>1, <1>2 DEF Inv, Types
<1>4. CallsSound'
  <2>1. ASSUME NEW c \in Clients PROVE CallSound(pc[c], my[c])'
    <3>1. CallSound(pc[c], my[c]) /\ my[c].now \in Nat
      BY DEF Inv, CallsSound, CallSet
    <3>2. QED
      BY <1>1, <1>2, <3>1 DEF CallSound
  <2>2. QED
    BY <1>1, <1>2, <2>1 DEF Inv, CallsSound
<1>5. TasksSound' /\ MapSound' /\ MaintSound' /\ Untold'
  BY <1>1, <1>2 DEF Inv, TasksSound, MapSound, MaintSound, Untold, IsAlive, InMap, Scheduled
<1>6. Accounted'
  <2>1. ASSUME NEW n \in Ids \ misjudged PROVE Account(n)'
    <3>1. Account(n) /\ (Tracked(n)' <=> Tracked(n)) /\ (InMap(n)' <=> InMap(n))
      BY <1>1 DEF Inv, Accounted, Tracked, Scheduled, InMap
    <3>2. \A c \in Clients : Owed(c)' = Owed(c)
      BY <1>1 DEF Owed
    <3>3. QED
      BY <1>1, <3>1, <3>2, AccountKept
  <2>2. QED
    BY <1>1, <1>2, <2>1 DEF Accounted
<1>7. QED
  BY <1>3, <1>4, <1>5, <1>6 DEF Inv

--------------------------------------------------------------------------------
(* The maintenance *)

\* While the clients pause, what they need stays.
LEMMA CallsPause ==
    ASSUME CallsSound, Ids' = Ids, UNCHANGED <<clock, pc, my>>
    PROVE  CallsSound' /\ \A c \in Clients : Owed(c)' = Owed(c)
<1>1. CallSet' = CallSet
  BY DEF CallSet, SomeIds
<1>2. \A c \in Clients : CallSound(pc[c], my[c])'
  BY <1>1 DEF CallsSound, CallSound
<1>3. QED
  BY <1>1, <1>2 DEF CallsSound, Owed

\* The wheel and what the maintenance holds are typed.
WheelTyped ==
    /\ DOMAIN wheel = {"time", "in"} /\ wheel.time \in 0..clock /\ DOMAIN wheel.in \subseteq Ids
    /\ DOMAIN maint = {"pc", "scan", "held", "node"} /\ maint.held \subseteq Ids

\* A step of the maintenance that no node leaves the map by: it may lose track of those
\* that have left it before.
LEMMA WheelStep ==
    ASSUME Inv, UNCHANGED <<clock, map, nodes, tasks, pc, my, told, misjudged>>,
           readBuffer' \subseteq Ids, WheelTyped', MaintSound',
           \A n \in Ids \ misjudged : /\ Tracked(n)' => Tracked(n)
                                      /\ InMap(n) /\ Tracked(n) => Tracked(n)'
    PROVE  Inv'
<1>1. Ids' = Ids /\ SomeIds' = SomeIds /\ TaskSet' = TaskSet
  BY DEF Ids, SomeIds, TaskSet
<1>2. CallsSound' /\ \A c \in Clients : Owed(c)' = Owed(c)
  BY <1>1, CallsPause DEF Inv
<1>3. Types'
  BY <1>1 DEF Inv, Types, WheelTyped
<1>4. TasksSound' /\ MapSound' /\ Untold'
  BY <1>1 DEF Inv, TasksSound, MapSound, Untold, IsAlive, InMap
<1>5. Accounted'
  <2>1. ASSUME NEW n \in Ids \ misjudged PROVE Account(n)'
    <3>1. Account(n) /\ (InMap(n)' <=> InMap(n))
      BY DEF Inv, Accounted, InMap
    <3>2. \A way \in Ways : /\ SomeTask(way, n)' <=> SomeTask(way, n)
                            /\ OneTask(way, n)' <=> OneTask(way, n)
      BY <1>2 DEF SomeTask, OneTask, Does
    <3>3. QED
      BY <3>1, <3>2 DEF Account, Ways
  <2>2. QED
    BY <1>1, <2>1 DEF Accounted
<1>6. QED
  BY <1>2, <1>3, <1>4, <1>5 DEF Inv

LEMMA BeginStep == ASSUME Inv, MaintenanceStep, Begin PROVE Inv'
<1>1. /\ UNCHANGED <<clock, map, nodes, tasks, pc, my, told, misjudged, readBuffer, wheel>>
      /\ maint.pc = "off" /\ maint' = [maint EXCEPT !.pc = "reads"]
  BY DEF MaintenanceStep, Begin, data
<1>2. maint'.pc = "reads" /\ maint'.held = {} /\ maint.held = {} /\ DOMAIN maint' = DOMAIN maint
  BY <1>1 DEF Inv, Types, MaintSound
<1>3. readBuffer' \subseteq Ids /\ WheelTyped' /\ MaintSound'
  BY <1>1, <1>2 DEF Inv, Types, WheelTyped, MaintSound, Ids
<1>4. \A n \in Ids \ misjudged : Tracked(n)' <=> Tracked(n)
  BY <1>1, <1>2 DEF Tracked, Scheduled
<1>5. QED
  BY <1>1, <1>3, <1>4, WheelStep

LEMMA ReadsDrainedStep == ASSUME Inv, MaintenanceStep, ReadsDrained PROVE Inv'
<1>1. /\ UNCHANGED <<clock, map, nodes, tasks, pc, my, told, misjudged, readBuffer, wheel>>
      /\ maint.pc = "reads" /\ maint' = [maint EXCEPT !.pc = "tasks"]
  BY DEF MaintenanceStep, ReadsDrained, data
<1>2. maint'.pc = "tasks" /\ maint'.held = {} /\ maint.held = {} /\ DOMAIN maint' = DOMAIN maint
  BY <1>1 DEF Inv, Types, MaintSound
<1>3. readBuffer' \subseteq Ids /\ WheelTyped' /\ MaintSound'
  BY <1>1, <1>2 DEF Inv, Types, WheelTyped, MaintSound, Ids
<1>4. \A n \in Ids \ misjudged : Tracked(n)' <=> Tracked(n)
  BY <1>1, <1>2 DEF Tracked, Scheduled
<1>5. QED
  BY <1>1, <1>3, <1>4, WheelStep

LEMMA OnAccessStep == ASSUME Inv, MaintenanceStep, OnAccess PROVE Inv'
<1>1. /\ UNCHANGED <<clock, map, nodes, tasks, pc, my, told, misjudged, maint>>
      /\ maint.pc = "reads"
  BY DEF MaintenanceStep, OnAccess, data
<1>2. PICK n \in readBuffer : /\ readBuffer' = readBuffer \ {n}
                              /\ wheel' = IF ~Scheduled(wheel, n) THEN wheel
                                          ELSE AddIfAlive(Unschedule(wheel, {n}), n)
  BY DEF OnAccess
<1>3. IsWheel(wheel) /\ n \in Ids /\ maint.held = {} /\ Ids' = Ids
  BY <1>1, <1>2 DEF Inv, Types, IsWheel, MaintSound, Ids
<1>4. /\ IsWheel(wheel') /\ wheel'.time = wheel.time
      /\ \A x : Scheduled(wheel', x) <=> Scheduled(wheel, x) /\ (x = n => IsAlive(n))
  <2>1. CASE ~Scheduled(wheel, n)
    BY <1>2, <1>3, <2>1
  <2>2. CASE Scheduled(wheel, n)
    BY <1>2, <1>3, <2>2, UnscheduleSound, AddIfAliveSound
  <2>3. QED
    BY <2>1, <2>2
<1>5. readBuffer' \subseteq Ids /\ WheelTyped' /\ MaintSound'
  BY <1>1, <1>2, <1>3, <1>4 DEF Inv, Types, WheelTyped, MaintSound, IsWheel, Scheduled
<1>6. ASSUME NEW m \in Ids \ misjudged
      PROVE  (Tracked(m)' => Tracked(m)) /\ (InMap(m) /\ Tracked(m) => Tracked(m)')
  <2>1. InMap(m) => IsAlive(m)
    BY DEF Inv, MapSound
  <2>2. QED
    BY <1>1, <1>3, <1>4, <2>1 DEF Tracked
<1>7. QED
  BY <1>1, <1>5, <1>6, WheelStep

\* A scan that begins with the nodes the maintenance has, keeps track of them all.
LEMMA ScanStep ==
    ASSUME Inv, UNCHANGED <<clock, map, nodes, tasks, pc, my, told, misjudged, readBuffer>>,
           NEW w, IsWheel(w), w.time \in 0..clock, NEW scan, NEW held, Scan(w, scan, held),
           maint.pc # "evict", held \subseteq Ids, \A x \in held : ~Scheduled(w, x),
           \A x : Scheduled(w, x) \/ x \in held <=> Scheduled(wheel, x) \/ x \in maint.held
    PROVE  Inv'
<1>1. /\ IsWheel(wheel') /\ wheel'.time = w.time
      /\ DOMAIN maint' = {"pc", "scan", "held", "node"}
      /\ maint'.pc = "scan" \/ (maint'.pc = "off" /\ maint'.held = {})
      /\ \A x \in maint'.held : ~Scheduled(wheel', x)
      /\ \A x : Scheduled(wheel', x) \/ x \in maint'.held <=> Scheduled(w, x) \/ x \in held
  BY ScanSound
<1>2. \A x : Scheduled(wheel', x) \/ x \in maint'.held <=> Scheduled(wheel, x) \/ x \in maint.held
  BY <1>1
<1>3. Ids' = Ids /\ \A x : Scheduled(wheel, x) \/ x \in maint.held => x \in Ids
  BY DEF Ids, Inv, Types, Scheduled
<1>4. MaintSound'
  BY <1>1 DEF MaintSound
<1>5. readBuffer' \subseteq Ids /\ WheelTyped'
  BY <1>1, <1>2, <1>3 DEF Inv, Types, WheelTyped, IsWheel, Scheduled
<1>6. \A n \in Ids \ misjudged : Tracked(n)' <=> Tracked(n)
  BY <1>1, <1>2 DEF Tracked
<1>7. QED
  BY <1>4, <1>5, <1>6, WheelStep

LEMMA DeleteExpiredStep == ASSUME Inv, MaintenanceStep, DeleteExpired PROVE Inv'
<1>1. UNCHANGED <<clock, map, nodes, tasks, pc, my, told, misjudged, readBuffer>>
  BY DEF MaintenanceStep, DeleteExpired, data
<1>2. PICK w : w = [wheel EXCEPT !.time = clock]
  OBVIOUS
<1>3. /\ IsWheel(w) /\ w.time = clock /\ clock \in 0..clock
      /\ \A x : Scheduled(w, x) <=> Scheduled(wheel, x)
  BY <1>2, ExpirationAssumption DEF Inv, Types, IsWheel, Scheduled
<1>4. Scan(w, ToScan(wheel.time, clock), {}) /\ maint.held = {} /\ maint.pc = "tasks"
  BY <1>2 DEF DeleteExpired, Inv, MaintSound
<1>5. QED
  BY <1>1, <1>3, <1>4, ScanStep

LEMMA ScanNodeStep == ASSUME Inv, MaintenanceStep, ScanNode PROVE Inv'
<1>1. /\ UNCHANGED <<clock, map, nodes, tasks, pc, my, told, misjudged, readBuffer>>
      /\ maint.pc = "scan"
  BY DEF MaintenanceStep, ScanNode, data
<1>2. PICK n \in maint.held :
         \/ /\ maint' = [maint EXCEPT !.pc = "evict", !.node = n, !.held = @ \ {n}]
            /\ UNCHANGED wheel
         \/ Scan(Schedule(wheel, n, nodes[n].expiresAt), maint.scan, maint.held \ {n})
  BY DEF ScanNode
<1>3. IsWheel(wheel) /\ wheel.time \in 0..clock /\ maint.held \subseteq Ids /\ Ids' = Ids
      /\ \A x \in maint.held : ~Scheduled(wheel, x)
  BY <1>1 DEF Inv, Types, IsWheel, MaintSound, Ids
<1>4. CASE /\ maint' = [maint EXCEPT !.pc = "evict", !.node = n, !.held = @ \ {n}]
           /\ UNCHANGED wheel
  <2>1. /\ maint'.pc = "evict" /\ maint'.node = n /\ maint'.held = maint.held \ {n}
        /\ DOMAIN maint' = DOMAIN maint
    BY <1>4 DEF Inv, Types
  <2>2. readBuffer' \subseteq Ids /\ WheelTyped' /\ MaintSound'
    BY <1>1, <1>3, <1>4, <2>1 DEF Inv, Types, WheelTyped, MaintSound, Scheduled
  <2>3. \A m \in Ids \ misjudged : Tracked(m)' <=> Tracked(m)
    BY <1>1, <1>2, <1>4, <2>1 DEF Tracked, Scheduled
  <2>4. QED
    BY <1>1, <2>2, <2>3, WheelStep
<1>5. CASE Scan(Schedule(wheel, n, nodes[n].expiresAt), maint.scan, maint.held \ {n})
  <2>1. PICK w : w = Schedule(wheel, n, nodes[n].expiresAt)
    OBVIOUS
  <2>2. /\ IsWheel(w) /\ w.time = wheel.time
        /\ \A x : Scheduled(w, x) <=> x = n \/ Scheduled(wheel, x)
    BY <1>3, <2>1, ScheduleSound
  <2>3. Scan(w, maint.scan, maint.held \ {n}) /\ maint.held \ {n} \subseteq Ids
    BY <1>3, <1>5, <2>1
  <2>4. \A x \in maint.held \ {n} : ~Scheduled(w, x)
    BY <1>3, <2>2
  <2>5. \A x : Scheduled(w, x) \/ x \in maint.held \ {n} <=> Scheduled(wheel, x) \/ x \in maint.held
    BY <1>2, <2>2
  <2>6. QED
    BY <1>1, <1>3, <2>2, <2>3, <2>4, <2>5, ScanStep
<1>6. QED
  BY <1>2, <1>4, <1>5

LEMMA EvictNodeStep == ASSUME Inv, MaintenanceStep, EvictNode PROVE Inv'
<1>1. UNCHANGED <<clock, tasks, pc, my, misjudged, readBuffer>> /\ maint.pc = "evict"
  BY DEF MaintenanceStep, EvictNode
<1>2. PICK n : n = maint.node
  OBVIOUS
<1>3. /\ map' = IF InMap(n) THEN [map EXCEPT ![nodes[n].key] = None] ELSE map
      /\ nodes' = [nodes EXCEPT ![n].state = "dead"]
      /\ told' = IF InMap(n) THEN [told EXCEPT ![n] = @ + 1] ELSE told
      /\ Scan(wheel, maint.scan, maint.held)
  BY <1>2 DEF EvictNode, Tell, InMap
<1>4. n \in Ids \ maint.held /\ ~Scheduled(wheel, n)
  BY <1>1, <1>2 DEF Inv, MaintSound
<1>5. nodes \in Seq(NodeSet) /\ nodes[n] \in NodeSet /\ nodes[n].key \in Keys /\ n \in 1..MaxNodes
  BY <1>4, NodeTyped, ExpirationAssumption DEF Inv, Types, Ids
<1>6. /\ nodes' \in Seq(NodeSet) /\ Ids' = Ids /\ Len(nodes') = Len(nodes)
      /\ \A m \in Ids : /\ nodes'[m].key = nodes[m].key
                        /\ nodes'[m].state = IF m = n THEN "dead" ELSE nodes[m].state
  <2>1. PICK r : r = [nodes[n] EXCEPT !.state = "dead"]
    OBVIOUS
  <2>2. r \in NodeSet /\ r.key = nodes[n].key /\ r.state = "dead"
    BY <1>5, <2>1 DEF NodeSet
  <2>3. nodes' = [nodes EXCEPT ![n] = r]
    BY <1>3, <2>1
  <2>4. QED
    BY <1>4, <1>5, <2>2, <2>3 DEF Ids
<1>7. /\ IsWheel(wheel') /\ wheel'.time = wheel.time
      /\ DOMAIN maint' = {"pc", "scan", "held", "node"}
      /\ maint'.pc = "scan" \/ (maint'.pc = "off" /\ maint'.held = {})
      /\ \A x \in maint'.held : ~Scheduled(wheel', x)
      /\ \A x : Scheduled(wheel', x) \/ x \in maint'.held <=> Scheduled(wheel, x) \/ x \in maint.held
  BY <1>3, ScanSound DEF Inv, Types, IsWheel, MaintSound
<1>8. \A x : Tracked(x)' <=> Tracked(x) /\ x # n
  BY <1>1, <1>2, <1>4, <1>7 DEF Tracked
<1>9. \A m \in Ids : InMap(m)' <=> InMap(m) /\ m # n
  <2>1. ASSUME NEW m \in Ids PROVE InMap(m)' <=> InMap(m) /\ m # n
    <3>1. nodes'[m].key = nodes[m].key /\ nodes[m].key \in Keys /\ m # None /\ map \in [Keys -> SomeIds]
      BY <1>6, NodeTyped, ExpirationAssumption DEF Inv, Types
    <3>2. QED
      BY <1>3, <1>5, <3>1 DEF InMap
  <2>2. QED
    BY <2>1
<1>10. Types'
  <2>1. TaskSet' = TaskSet /\ SomeIds' = SomeIds /\ map' \in [Keys -> SomeIds]
    BY <1>3, <1>6 DEF TaskSet, SomeIds, Inv, Types
  <2>2. told' \in [1..MaxNodes -> Nat]
    BY <1>3, <1>5 DEF Inv, Types
  <2>3. maint'.held \subseteq Ids /\ DOMAIN wheel'.in \subseteq Ids
    BY <1>7 DEF Inv, Types, Scheduled
  <2>4. QED
    BY <1>1, <1>6, <1>7, <2>1, <2>2, <2>3 DEF Inv, Types, IsWheel
<1>11. CallsSound' /\ \A c \in Clients : Owed(c)' = Owed(c)
  BY <1>1, <1>6, CallsPause DEF Inv
<1>12. TasksSound' /\ MaintSound' /\ Untold'
  BY <1>1, <1>3, <1>4, <1>6, <1>7 DEF Inv, Types, TasksSound, MaintSound, Untold
<1>13. MapSound'
  <2>1. ASSUME NEW k \in Keys, map'[k] # None PROVE nodes'[map'[k]].key = k
    <3>1. map'[k] = map[k] /\ map[k] \in Ids
      BY <1>3, <1>5, <2>1 DEF Inv, Types, SomeIds
    <3>2. QED
      BY <1>6, <2>1, <3>1 DEF Inv, MapSound
  <2>2. ASSUME NEW m \in Ids PROVE IsAlive(m)' <=> InMap(m)'
    BY <1>6, <1>9 DEF Inv, MapSound, IsAlive
  <2>3. QED
    BY <1>6, <2>1, <2>2 DEF MapSound
<1>14. Accounted'
  <2>1. ASSUME NEW m \in Ids \ misjudged PROVE Account(m)'
    <3>1. Account(m)
      BY DEF Inv, Accounted
    <3>2. \A way \in Ways : /\ SomeTask(way, m)' <=> SomeTask(way, m)
                            /\ OneTask(way, m)' <=> OneTask(way, m)
      BY <1>1, <1>11 DEF SomeTask, OneTask, Does
    <3>3. CASE m # n
      <4>1. told'[m] = told[m]
        BY <1>3, <1>5, <3>3 DEF Inv, Types
      <4>2. QED
        BY <1>8, <1>9, <3>1, <3>2, <3>3, <4>1 DEF Account, Ways
    <3>4. CASE m = n
      <4>1. Tracked(m) /\ ~Tracked(m)' /\ ~InMap(m)'
        BY <1>1, <1>2, <1>8, <1>9, <3>4 DEF Tracked
      <4>2. told'[m] = IF InMap(m) THEN told[m] + 1 ELSE told[m]
        BY <1>3, <1>5, <3>4 DEF Inv, Types
      <4>3. QED
        BY <3>1, <3>2, <4>1, <4>2 DEF Account, Ways
    <3>5. QED
      BY <3>3, <3>4
  <2>2. QED
    BY <1>1, <1>6, <2>1 DEF Accounted
<1>15. QED
  BY <1>10, <1>11, <1>12, <1>13, <1>14 DEF Inv

\* The first task leaves the buffer.
LEMMA TaskTaken ==
    ASSUME NEW S, tasks \in Seq(S), tasks # <<>>, tasks' = Tail(tasks), NEW n, NEW way,
           \A c \in Clients : Owed(c)' = Owed(c), OneTask(way, n)
    PROVE  /\ OneTask(way, n)'
           /\ SomeTask(way, n)' <=> SomeTask(way, n) /\ ~Does(Head(tasks), way, n)
<1>1. /\ Len(tasks) \in Nat \ {0} /\ Head(tasks) = tasks[1] /\ DOMAIN tasks = 1..Len(tasks)
      /\ DOMAIN tasks' = 1..(Len(tasks) - 1) /\ \A i \in DOMAIN tasks' : tasks'[i] = tasks[i + 1]
  OBVIOUS
<1>2. \A i \in DOMAIN tasks' : i + 1 \in DOMAIN tasks /\ i + 1 # 1
  BY <1>1
<1>3. OneTask(way, n)'
  <2>1. ASSUME NEW i \in DOMAIN tasks', NEW j \in DOMAIN tasks',
               Does(tasks'[i], way, n), Does(tasks'[j], way, n)
        PROVE  i = j
    <3>1. i + 1 = j + 1
      BY <1>1, <1>2, <2>1 DEF OneTask
    <3>2. QED
      BY <1>1, <3>1
  <2>2. \A c, d \in Clients : Does(Owed(c)', way, n) /\ Does(Owed(d)', way, n) => c = d
    BY DEF OneTask
  <2>3. \A c \in Clients, i \in DOMAIN tasks' : ~(Does(Owed(c)', way, n) /\ Does(tasks'[i], way, n))
    BY <1>1, <1>2 DEF OneTask
  <2>4. QED
    BY <2>1, <2>2, <2>3 DEF OneTask, Does
<1>4. (\E i \in DOMAIN tasks' : Does(tasks'[i], way, n))
      <=> \E i \in DOMAIN tasks \ {1} : Does(tasks[i], way, n)
  <2>1. ASSUME NEW i \in DOMAIN tasks \ {1}, Does(tasks[i], way, n)
        PROVE  \E j \in DOMAIN tasks' : Does(tasks'[j], way, n)
    <3>1. i - 1 \in DOMAIN tasks' /\ (i - 1) + 1 = i
      BY <1>1
    <3>2. QED
      BY <1>1, <2>1, <3>1
  <2>2. QED
    BY <1>1, <1>2, <2>1
<1>5. 1 \in DOMAIN tasks
  BY <1>1
<1>6. CASE Does(Head(tasks), way, n)
  <2>1. /\ \A c \in Clients : ~Does(Owed(c), way, n)
        /\ \A i \in DOMAIN tasks \ {1} : ~Does(tasks[i], way, n)
    BY <1>1, <1>5, <1>6 DEF OneTask
  <2>2. (SomeTask(way, n))' <=> \/ \E c \in Clients : Does(Owed(c)', way, n)
                               \/ \E i \in DOMAIN tasks' : Does(tasks'[i], way, n)
    BY DEF SomeTask, Does
  <2>3. QED
    BY <1>3, <1>4, <1>6, <2>1, <2>2
<1>7. CASE ~Does(Head(tasks), way, n)
  <2>1. (\E i \in DOMAIN tasks \ {1} : Does(tasks[i], way, n))
          <=> \E i \in DOMAIN tasks : Does(tasks[i], way, n)
    BY <1>1, <1>7
  <2>2. (SomeTask(way, n))' <=> \/ \E c \in Clients : Does(Owed(c)', way, n)
                               \/ \E i \in DOMAIN tasks' : Does(tasks'[i], way, n)
    BY DEF SomeTask, Does
  <2>3. QED
    BY <1>3, <1>4, <1>7, <2>1, <2>2 DEF SomeTask
<1>8. QED
  BY <1>6, <1>7

LEMMA RunTaskStep == ASSUME Inv, MaintenanceStep, RunTask PROVE Inv'
<1>1. /\ UNCHANGED <<clock, map, nodes, pc, my, misjudged, readBuffer, maint>>
      /\ maint.pc = "tasks" /\ tasks # <<>> /\ tasks' = Tail(tasks)
  BY DEF MaintenanceStep, RunTask, data
<1>2. PICK t : t = Head(tasks)
  OBVIOUS
<1>3. /\ tasks \in Seq(TaskSet) /\ IsWheel(wheel) /\ maint.held = {} /\ Ids' = Ids
      /\ Ids \subseteq 1..MaxNodes /\ told \in [1..MaxNodes -> Nat] /\ None \notin Ids
  BY <1>1, ExpirationAssumption DEF Inv, Types, IsWheel, MaintSound, Ids
<1>4. /\ t \in TaskSet /\ t = tasks[1] /\ 1 \in DOMAIN tasks
      /\ \A i \in DOMAIN tasks' : i + 1 \in DOMAIN tasks /\ tasks'[i] = tasks[i + 1]
      /\ tasks' \in Seq(TaskSet)
  BY <1>1, <1>2, <1>3
<1>5. /\ t.kind \in {"add", "update", "delete"} /\ t.node \in Ids
      /\ t.kind # "add" => t.old \in Ids /\ (t.kind = "delete" => t.node = t.old)
  BY <1>4 DEF Inv, TasksSound, TaskSet, SomeIds
<1> DEFINE Takes(n)  == Does(t, "takes", n)
           Brings(n) == Does(t, "brings", n)
<1>6. /\ IsWheel(wheel') /\ wheel'.time = wheel.time
      /\ \A n \in Ids : Scheduled(wheel', n) <=>
           (Scheduled(wheel, n) /\ ~Takes(n)) \/ (Brings(n) /\ IsAlive(n))
      /\ \A n : Scheduled(wheel', n) => n \in Ids
      /\ told' \in [1..MaxNodes -> Nat]
      /\ \A n \in 1..MaxNodes : told'[n] = IF Takes(n) THEN told[n] + 1 ELSE told[n]
  <2>1. \A n : Scheduled(wheel, n) => n \in Ids
    BY DEF Inv, Types, Scheduled
  <2>2. CASE t.kind = "add"
    <3>1. wheel' = AddIfAlive(wheel, t.node) /\ told' = told
      BY <1>2, <2>2 DEF RunTask
    <3>2. \A n : ~Takes(n) /\ (Brings(n) <=> n = t.node)
      BY <2>2 DEF Does
    <3> HIDE DEF Takes, Brings
    <3>3. QED
      BY <1>3, <1>5, <2>1, <3>1, <3>2, AddIfAliveSound
  <2>3. CASE t.kind = "update"
    <3>1. wheel' = AddIfAlive(Unschedule(wheel, {t.old}), t.node) /\ Tell(t.old)
      BY <1>2, <2>3 DEF RunTask
    <3>2. \A n : (Takes(n) <=> n = t.old) /\ (Brings(n) <=> n = t.node)
      BY <2>3 DEF Does
    <3>3. PICK w : w = Unschedule(wheel, {t.old})
      OBVIOUS
    <3>4. /\ IsWheel(w) /\ w.time = wheel.time
          /\ \A x : Scheduled(w, x) <=> Scheduled(wheel, x) /\ x # t.old
      BY <1>3, <3>3, UnscheduleSound
    <3>5. /\ IsWheel(wheel') /\ wheel'.time = w.time
          /\ \A x : Scheduled(wheel', x) <=> (x = t.node /\ IsAlive(t.node)) \/ Scheduled(w, x)
      BY <3>1, <3>3, <3>4, AddIfAliveSound
    <3>6. t.old \in 1..MaxNodes
      BY <1>3, <1>5, <2>3
    <3> HIDE DEF Takes, Brings
    <3>7. /\ told' \in [1..MaxNodes -> Nat]
          /\ \A n \in 1..MaxNodes : told'[n] = IF Takes(n) THEN told[n] + 1 ELSE told[n]
      <4>1. told' = [told EXCEPT ![t.old] = @ + 1] /\ told[t.old] + 1 \in Nat
        BY <1>3, <3>1, <3>6 DEF Tell
      <4>2. QED
        BY <1>3, <3>2, <3>6, <4>1
    <3>8. QED
      BY <1>5, <2>1, <3>2, <3>4, <3>5, <3>7
  <2>4. CASE t.kind = "delete"
    <3>1. wheel' = Unschedule(wheel, {t.node}) /\ Tell(t.node) /\ t.node = t.old
      BY <1>2, <1>5, <2>4 DEF RunTask
    <3>2. \A n : (Takes(n) <=> n = t.node) /\ ~Brings(n)
      BY <2>4, <3>1 DEF Does
    <3>3. /\ IsWheel(wheel') /\ wheel'.time = wheel.time
          /\ \A x : Scheduled(wheel', x) <=> Scheduled(wheel, x) /\ x # t.node
      BY <1>3, <3>1, UnscheduleSound
    <3> HIDE DEF Takes, Brings
    <3>4. /\ told' \in [1..MaxNodes -> Nat]
          /\ \A n \in 1..MaxNodes : told'[n] = IF Takes(n) THEN told[n] + 1 ELSE told[n]
      <4>1. t.node \in 1..MaxNodes
        BY <1>3, <1>5
      <4>2. told' = [told EXCEPT ![t.node] = @ + 1] /\ told[t.node] + 1 \in Nat
        BY <1>3, <3>1, <4>1 DEF Tell
      <4>3. QED
        BY <1>3, <3>2, <4>1, <4>2
    <3>5. QED
      BY <2>1, <3>2, <3>3, <3>4
  <2>5. QED
    BY <1>5, <2>2, <2>3, <2>4
<1>7. Types'
  <2>1. TaskSet' = TaskSet /\ SomeIds' = SomeIds
    BY <1>3 DEF TaskSet, SomeIds
  <2>2. DOMAIN wheel'.in \subseteq Ids
    BY <1>6 DEF Scheduled
  <2> HIDE DEF Takes, Brings
  <2>3. QED
    BY <1>1, <1>3, <1>4, <1>6, <2>1, <2>2 DEF Inv, Types, IsWheel
<1>8. CallsSound' /\ \A c \in Clients : Owed(c)' = Owed(c)
  BY <1>1, <1>3, CallsPause DEF Inv
<1>9. TasksSound'
  BY <1>4 DEF Inv, TasksSound
<1>10. MapSound' /\ MaintSound'
  BY <1>1, <1>3 DEF Inv, MapSound, MaintSound, IsAlive, InMap
<1>11. Untold'
  <2>1. ASSUME NEW n \in (1..MaxNodes) \ Ids PROVE ~Takes(n)
    BY <1>5 DEF Does
  <2> HIDE DEF Takes
  <2>2. QED
    BY <1>3, <1>6, <2>1 DEF Inv, Untold
<1>12. Accounted'
  <2>1. ASSUME NEW n \in Ids \ misjudged PROVE Account(n)'
    <3>1. Account(n) /\ (InMap(n)' <=> InMap(n)) /\ (IsAlive(n) <=> InMap(n))
      BY <1>1 DEF Inv, Accounted, InMap, MapSound
    <3>2. /\ OneTask("brings", n)' /\ OneTask("takes", n)'
          /\ SomeTask("brings", n)' <=> SomeTask("brings", n) /\ ~Brings(n)
          /\ SomeTask("takes", n)' <=> SomeTask("takes", n) /\ ~Takes(n)
      BY <1>1, <1>2, <1>3, <1>8, <3>1, TaskTaken DEF Account
    <3>3. (Brings(n) => SomeTask("brings", n)) /\ (Takes(n) => SomeTask("takes", n))
      BY <1>4 DEF SomeTask
    <3>4. Tracked(n)' <=> (Tracked(n) /\ ~Takes(n)) \/ (Brings(n) /\ InMap(n))
      <4>1. (Tracked(n)' <=> Scheduled(wheel', n)) /\ (Tracked(n) <=> Scheduled(wheel, n))
        BY <1>1, <1>3 DEF Tracked
      <4> HIDE DEF Takes, Brings
      <4>2. QED
        BY <1>6, <3>1, <4>1
    <3>5. told'[n] = IF Takes(n) THEN told[n] + 1 ELSE told[n]
      <4> HIDE DEF Takes
      <4>1. QED
        BY <1>3, <1>6
    <3> HIDE DEF Takes, Brings
    <3>6. CASE InMap(n)
      BY <3>1, <3>2, <3>3, <3>4, <3>5, <3>6 DEF Account
    <3>7. CASE ~InMap(n)
      BY <3>1, <3>2, <3>3, <3>4, <3>5, <3>7 DEF Account
    <3>8. QED
      BY <3>6, <3>7
  <2>2. QED
    BY <1>1, <1>3, <2>1 DEF Accounted
<1>13. QED
  BY <1>7, <1>8, <1>9, <1>10, <1>11, <1>12 DEF Inv

--------------------------------------------------------------------------------
(* The steps of the clients that owe a task *)

\* The task that a client owes, or one that does the same to a node, enters the buffer.
LEMMA TaskPushed ==
    ASSUME NEW S, tasks \in Seq(S), NEW c \in Clients, Owed(c)' = NoTask,
           \A d \in Clients : d # c => Owed(d)' = Owed(d), NEW n, NEW way, NEW t,
           \/ tasks' = tasks /\ ~Does(Owed(c), way, n)
           \/ tasks' = Append(tasks, t) /\ (Does(t, way, n) <=> Does(Owed(c), way, n)),
           OneTask(way, n)
    PROVE  OneTask(way, n)' /\ (SomeTask(way, n)' <=> SomeTask(way, n))
<1>1. ~Does(Owed(c)', way, n)
  BY DEF Does, NoTask
<1>2. (SomeTask(way, n))' <=> \/ \E d \in Clients : Does(Owed(d)', way, n)
                             \/ \E i \in DOMAIN tasks' : Does(tasks'[i], way, n)
  BY DEF SomeTask, Does
<1>3. CASE tasks' = tasks /\ ~Does(Owed(c), way, n)
  <2>1. \A d \in Clients : Does(Owed(d)', way, n) <=> Does(Owed(d), way, n)
    BY <1>1, <1>3
  <2>2. QED
    BY <1>2, <1>3, <2>1 DEF OneTask, SomeTask, Does
<1>4. CASE tasks' = Append(tasks, t) /\ (Does(t, way, n) <=> Does(Owed(c), way, n))
  <2>1. PICK m : m = Len(tasks) + 1
    OBVIOUS
  <2>2. /\ DOMAIN tasks' = DOMAIN tasks \cup {m} /\ m \notin DOMAIN tasks /\ tasks'[m] = t
        /\ \A i \in DOMAIN tasks : tasks'[i] = tasks[i]
    BY <1>4, <2>1
  <2>3. (\E i \in DOMAIN tasks' : Does(tasks'[i], way, n))
          <=> Does(Owed(c), way, n) \/ \E i \in DOMAIN tasks : Does(tasks[i], way, n)
    BY <1>4, <2>2
  <2>4. (\E d \in Clients : Does(Owed(d)', way, n)) <=> \E d \in Clients \ {c} : Does(Owed(d), way, n)
    BY <1>1
  <2>5. SomeTask(way, n)' <=> SomeTask(way, n)
    BY <1>2, <2>3, <2>4 DEF SomeTask
  <2>6. ASSUME NEW i \in DOMAIN tasks', NEW j \in DOMAIN tasks',
               Does(tasks'[i], way, n), Does(tasks'[j], way, n)
        PROVE  i = j
    BY <1>4, <2>2, <2>6 DEF OneTask
  <2>7. \A d, e \in Clients : Does(Owed(d)', way, n) /\ Does(Owed(e)', way, n) => d = e
    BY <1>1 DEF OneTask
  <2>8. \A d \in Clients, i \in DOMAIN tasks' : ~(Does(Owed(d)', way, n) /\ Does(tasks'[i], way, n))
    BY <1>1, <1>4, <2>2 DEF OneTask
  <2>9. OneTask(way, n)'
    BY <2>6, <2>7, <2>8 DEF OneTask, Does
  <2>10. QED
    BY <2>5, <2>9
<1>5. QED
  BY <1>3, <1>4

LEMMA AfterStep == ASSUME Inv, NEW c \in Clients, Client(c), After(c) PROVE Inv'
<1>1. /\ UNCHANGED <<clock, map, nodes, wheel, maint, told, readBuffer>> /\ pc[c] = "after"
      /\ misjudged' = IF my[c].op = "setIfAbsent" /\ Wrote(c) = my[c].kept
                      THEN misjudged \cup ({my[c].node, my[c].old} \ {None}) ELSE misjudged
  BY DEF Client, After, data
<1>2. PICK call : call = my[c]
  OBVIOUS
<1>3. /\ call \in CallSet /\ call.node \in SomeIds /\ call.old \in SomeIds /\ call.kept \in BOOLEAN
      /\ call.kept => call.node = call.old
      /\ call.op = "setIfAbsent" => call.node # None
  BY <1>1, <1>2 DEF Inv, CallsSound, CallSound, CallSet
<1>4. /\ tasks \in Seq(TaskSet) /\ TaskSet' = TaskSet /\ Ids' = Ids /\ SomeIds' = SomeIds
      /\ CallSet' = CallSet /\ None \notin Ids
  BY <1>1, ExpirationAssumption DEF Inv, Types, TaskSet, SomeIds, CallSet, Ids
<1>5. PICK t : t = [kind |-> IF call.node = None THEN "delete"
                             ELSE IF call.old = None THEN "add" ELSE "update",
                    node |-> IF call.node = None THEN call.old ELSE call.node, old |-> call.old]
  OBVIOUS
<1>6. PICK at, new :
        /\ pc' = [pc EXCEPT ![c] = at] /\ my' = [my EXCEPT ![c] = new] /\ at # "after"
        /\ CallSound(at, new)
        /\ \/ /\ tasks' = Append(tasks, t) /\ (call.node # None \/ call.old # None)
              /\ call.kept => misjudged' = misjudged \cup ({call.node, call.old} \ {None})
           \/ /\ tasks' = tasks
              /\ \/ call.kept \/ (call.node = None /\ call.old = None)
                 \/ misjudged' = misjudged \cup ({call.node, call.old} \ {None})
  <2>1. (Wrote(c) <=> IF call.op = "setIfAbsent" THEN Absent(call.old, call.now)
                      ELSE ~call.kept /\ call.node # None)
        /\ Wrote(c) \in BOOLEAN
    <3>1. Absent(call.old, call.now) \in BOOLEAN
      <4>1. CASE call.old = None
        BY <4>1 DEF Absent
      <4>2. CASE call.old \in Ids
        <5>1. nodes[call.old].expiresAt \in Int /\ call.now \in Int
          BY <1>3, <4>2, NodeTyped, TimerWheelAssumption DEF Inv, CallSet
        <5>2. (nodes[call.old].expiresAt <= call.now) \in BOOLEAN
          BY <5>1
        <5>3. Absent(call.old, call.now) = (nodes[call.old].expiresAt <= call.now)
          BY <1>4, <4>2, Zenon DEF Absent, HasExpired
        <5>4. QED
          BY <5>2, <5>3, Zenon
      <4>3. QED
        BY <1>3, <4>1, <4>2 DEF SomeIds
    <3>2. QED
      BY <1>2, <3>1 DEF Wrote
  <2> DEFINE P(at, new) ==
        /\ pc' = [pc EXCEPT ![c] = at] /\ my' = [my EXCEPT ![c] = new] /\ at # "after"
        /\ CallSound(at, new)
        /\ \/ /\ tasks' = Append(tasks, t) /\ (call.node # None \/ call.old # None)
              /\ call.kept => misjudged' = misjudged \cup ({call.node, call.old} \ {None})
           \/ /\ tasks' = tasks
              /\ \/ call.kept \/ (call.node = None /\ call.old = None)
                 \/ misjudged' = misjudged \cup ({call.node, call.old} \ {None})
  <2>2. Return(c, "after") => /\ pc' = [pc EXCEPT ![c] = "off"] /\ my' = [my EXCEPT ![c] = NoCall]
                              /\ CallSound("off", NoCall)
    BY NothingToCall DEF Return, Step, Keep, Inv
  <2>3. CASE /\ Wrote(c) /\ Return(c, "after")
             /\ Push(IF call.old = None THEN "add" ELSE "update", call.node, call.old)
    <3>1. call.node # None
      BY <1>3, <2>1, <2>3
    <3>2. tasks' = Append(tasks, t)
      BY <1>5, <2>3, <3>1 DEF Push
    <3>3. call.kept => misjudged' = misjudged \cup ({call.node, call.old} \ {None})
      BY <1>1, <1>2, <1>3, <2>1, <2>3
    <3>4. P("off", NoCall)
      BY <2>2, <2>3, <3>1, <3>2, <3>3
    <3>5. QED
      BY <3>4
  <2>4. CASE /\ ~Wrote(c) /\ call.node = None /\ call.old # None
             /\ Push("delete", call.old, call.old) /\ Return(c, "after")
    <3>1. tasks' = Append(tasks, t) /\ ~call.kept
      BY <1>3, <1>5, <2>4 DEF Push
    <3>2. P("off", NoCall)
      BY <2>2, <2>4, <3>1
    <3>3. QED
      BY <3>2
  <2>5. CASE /\ ~Wrote(c) /\ call.op = "setIfAbsent" /\ UNCHANGED tasks
             /\ Step(c, "after", "record") /\ Keep(c, [NoCall EXCEPT !.op = "get", !.node = call.old])
    <3>1. call.old # None
      BY <2>1, <2>5 DEF Absent
    <3>2. PICK new : new = [NoCall EXCEPT !.op = "get", !.node = call.old]
      OBVIOUS
    <3>3. /\ new \in CallSet /\ new.node # None /\ new.op = "get" /\ new.now = 0 /\ clock \in Nat
      <4>1. NoCall \in CallSet /\ NoCall.now = 0 /\ clock \in Nat
        BY ExpirationAssumption, TimerWheelAssumption DEF NoCall, CallSet, SomeIds, Inv, Types
      <4>2. QED
        BY <1>3, <3>1, <3>2, <4>1 DEF CallSet, NoCall, Operations
    <3>4. CallSound("record", new)
      BY <3>3 DEF CallSound
    <3>5. call.kept \/ misjudged' = misjudged \cup ({call.node, call.old} \ {None})
      BY <1>1, <1>2, <1>3, <2>1, <2>5
    <3>6. P("record", new)
      BY <2>5, <3>2, <3>4, <3>5 DEF Step, Keep
    <3>7. QED
      BY <3>6
  <2>6. CASE /\ ~Wrote(c) /\ call.op # "setIfAbsent" /\ call.node = call.old
             /\ Return(c, "after") /\ UNCHANGED tasks
    <3>1. call.kept \/ (call.node = None /\ call.old = None)
      BY <1>3, <2>1, <2>6
    <3>2. P("off", NoCall)
      BY <2>2, <2>6, <3>1
    <3>3. QED
      BY <3>2
  <2> HIDE DEF P
  <2>7. \/ /\ Wrote(c) /\ Return(c, "after")
           /\ Push(IF call.old = None THEN "add" ELSE "update", call.node, call.old)
        \/ /\ ~Wrote(c) /\ call.node = None /\ call.old # None
           /\ Push("delete", call.old, call.old) /\ Return(c, "after")
        \/ /\ ~Wrote(c) /\ call.op = "setIfAbsent" /\ UNCHANGED tasks
           /\ Step(c, "after", "record") /\ Keep(c, [NoCall EXCEPT !.op = "get", !.node = call.old])
        \/ /\ ~Wrote(c) /\ call.op # "setIfAbsent" /\ call.node = call.old
           /\ Return(c, "after") /\ UNCHANGED tasks
    BY <1>2 DEF After
  <2>8. QED
    BY <2>3, <2>4, <2>5, <2>6, <2>7
<1>7. /\ misjudged \subseteq misjudged' /\ misjudged' \subseteq Ids
      /\ misjudged' # misjudged => \A n \in Ids \ misjudged' : n # call.node /\ n # call.old
  BY <1>1, <1>2, <1>3, <1>4 DEF Inv, Types, SomeIds
<1>8. tasks' \in Seq(TaskSet) /\ TasksSound'
  <2>1. CASE tasks' = tasks
    BY <1>4, <2>1 DEF Inv, TasksSound
  <2>2. CASE tasks' = Append(tasks, t) /\ (call.node # None \/ call.old # None)
    <3>1. t \in TaskSet /\ (t.kind # "add" => t.old # None) /\ (t.kind = "delete" => t.node = t.old)
      BY <1>3, <1>5, <2>2 DEF TaskSet, SomeIds
    <3>2. tasks' \in Seq(TaskSet)
      BY <1>4, <2>2, <3>1
    <3>3. ASSUME NEW i \in DOMAIN tasks'
          PROVE  tasks'[i] = t \/ (i \in DOMAIN tasks /\ tasks'[i] = tasks[i])
      BY <1>4, <2>2
    <3>4. QED
      BY <3>1, <3>2, <3>3 DEF Inv, TasksSound
  <2>3. QED
    BY <1>6, <2>1, <2>2
<1>9. Types'
  BY <1>1, <1>4, <1>7, <1>8 DEF Inv, Types
<1>10. CallsSound'
  <2>1. CallSound(at, new)'
    BY <1>1, <1>4, <1>6 DEF CallSound
  <2>2. QED
    BY <1>1, <1>4, <1>6, <2>1, CallsStep DEF Inv
<1>11. MapSound' /\ MaintSound' /\ Untold'
  BY <1>1, <1>4 DEF Inv, MapSound, MaintSound, Untold, IsAlive, InMap
<1>12. DOMAIN pc = Clients /\ DOMAIN my = Clients
  BY DEF Inv, CallsSound
<1>13. Owed(c)' = NoTask /\ \A d \in Clients : d # c => Owed(d)' = Owed(d)
  <2>1. Owed(c)' = NoTask
    BY <1>6, <1>12 DEF Owed
  <2>2. ASSUME NEW d \in Clients, d # c PROVE pc'[d] = pc[d] /\ my'[d] = my[d]
    BY <1>6, <1>12, <2>2
  <2>3. QED
    BY <2>1, <2>2 DEF Owed
<1>14. /\ Owed(c) = IF call.kept \/ (call.node = None /\ call.old = None) THEN NoTask ELSE t
       /\ \A way \in Ways : \A n : Does(t, way, n) => n = call.node \/ n = call.old
  <2>1. Owed(c) = IF call.kept \/ (call.node = None /\ call.old = None) THEN NoTask ELSE t
    BY <1>1, <1>2, <1>5 DEF Owed
  <2>2. QED
    BY <1>5, <2>1 DEF Does
<1>15. Accounted'
  <2>1. ASSUME NEW n \in Ids \ misjudged' PROVE Account(n)'
    <3>1. /\ Account(n) /\ (InMap(n)' <=> InMap(n)) /\ (Tracked(n)' <=> Tracked(n))
      BY <1>1, <1>7 DEF Inv, Accounted, InMap, Tracked
    <3>2. ASSUME NEW way \in Ways
          PROVE  \/ tasks' = tasks /\ ~Does(Owed(c), way, n)
                 \/ tasks' = Append(tasks, t) /\ (Does(t, way, n) <=> Does(Owed(c), way, n))
      <4>1. CASE n = call.node \/ n = call.old
        <5>1. misjudged' = misjudged /\ n # None
          BY <1>4, <1>7, <4>1
        <5>2. ~(misjudged' = misjudged \cup ({call.node, call.old} \ {None}))
          BY <4>1, <5>1
        <5>3. \/ tasks' = Append(tasks, t) /\ (call.node # None \/ call.old # None) /\ ~call.kept
              \/ tasks' = tasks /\ (call.kept \/ (call.node = None /\ call.old = None))
          BY <1>6, <5>2
        <5>4. QED
          BY <1>14, <5>3 DEF Does, NoTask
      <4>2. CASE ~(n = call.node \/ n = call.old)
        BY <1>6, <1>14, <4>2 DEF Does, NoTask
      <4>3. QED
        BY <4>1, <4>2
    <3>3. \A way \in Ways :
             OneTask(way, n) => OneTask(way, n)' /\ (SomeTask(way, n)' <=> SomeTask(way, n))
      BY <1>4, <1>13, <3>2, TaskPushed
    <3>4. QED
      BY <1>1, <3>1, <3>3 DEF Account, Ways
  <2>2. QED
    BY <1>4, <2>1 DEF Accounted
<1>16. QED
  BY <1>8, <1>9, <1>10, <1>11, <1>15 DEF Inv

\* A node that is replaced or deleted keeps all but its state.
LEMMA RetireSound ==
    ASSUME Types, NEW n \in SomeIds
    PROVE  /\ Retire(n) \in Seq(NodeSet) /\ Len(Retire(n)) = Len(nodes) /\ DOMAIN Retire(n) = Ids
           /\ \A x \in Ids : /\ Retire(n)[x].key = nodes[x].key
                             /\ x # n => Retire(n)[x].state = nodes[x].state
                             /\ x = n => Retire(n)[x].state # "alive"
<1>1. nodes \in Seq(NodeSet) /\ None \notin Ids
  BY ExpirationAssumption DEF Types, Ids
<1>2. CASE n = None
  BY <1>1, <1>2 DEF Retire, Ids
<1>3. CASE n \in Ids
  <2>1. PICK r : r = [nodes[n] EXCEPT !.state = IF @ = "alive" THEN "retired" ELSE @]
    OBVIOUS
  <2>2. r \in NodeSet /\ r.key = nodes[n].key /\ r.state # "alive"
    BY <1>3, <2>1, NodeTyped DEF NodeSet
  <2>3. Retire(n) = [nodes EXCEPT ![n] = r]
    BY <1>1, <1>3, <2>1 DEF Retire
  <2>4. QED
    BY <1>1, <1>3, <2>2, <2>3 DEF Ids
<1>4. QED
  BY <1>2, <1>3 DEF SomeIds

\* A client has left the lock of the bucket.
LEMMA ComputedSound ==
    ASSUME Inv, NEW c \in Clients, Step(c, "compute", "after"), clock' = clock, Ids \subseteq Ids',
           NEW n \in SomeIds', NEW old \in SomeIds', NEW kept \in BOOLEAN, Computed(c, n, old, kept),
           kept => n = old, my[c].op = "setIfAbsent" => n # None
    PROVE  \E new : /\ pc' = [pc EXCEPT ![c] = "after"] /\ my' = [my EXCEPT ![c] = new]
                    /\ CallSound("after", new)' /\ new.node = n /\ new.old = old /\ new.kept = kept
                    /\ CallsSound'
<1>1. CallSound("compute", my[c]) /\ pc' = [pc EXCEPT ![c] = "after"]
  BY DEF Inv, CallsSound, Step
<1>2. PICK t : t = IF my[c].op = "setIfAbsent" THEN my[c].now ELSE 0
  OBVIOUS
<1>3. my[c] \in CallSet /\ t \in Nat /\ t <= clock /\ clock \in Nat /\ my[c] \in CallSet'
  BY <1>1, <1>2, ExpirationAssumption DEF CallSound, CallSet, Inv, Types, SomeIds
<1>4. PICK new : new = [my[c] EXCEPT !.node = n, !.old = old, !.kept = kept, !.now = t]
  OBVIOUS
<1>5. /\ new \in CallSet' /\ new.node = n /\ new.old = old /\ new.kept = kept /\ new.now = t
      /\ new.op = my[c].op /\ new.key = my[c].key
  BY <1>3, <1>4 DEF CallSet
<1>6. my' = [my EXCEPT ![c] = new]
  BY <1>2, <1>4 DEF Computed, Keep
<1>7. CallSound("after", new)'
  BY <1>1, <1>3, <1>5 DEF CallSound
<1>8. CallsSound'
  BY <1>1, <1>6, <1>7, CallsStep DEF Inv
<1>9. QED
  BY <1>1, <1>5, <1>6, <1>7, <1>8

\* What the clients owe after a change of the map.
LEMMA OwedNow ==
    ASSUME Inv, NEW c \in Clients, pc[c] = "compute", NEW new, pc' = [pc EXCEPT ![c] = "after"],
           my' = [my EXCEPT ![c] = new], new.kept = FALSE
    PROVE  /\ Owed(c) = NoTask /\ \A d \in Clients : d # c => Owed(d)' = Owed(d)
           /\ Owed(c)' = IF new.node # None
                         THEN [kind |-> IF new.old = None THEN "add" ELSE "update",
                               node |-> new.node, old |-> new.old]
                         ELSE IF new.old # None
                         THEN [kind |-> "delete", node |-> new.old, old |-> new.old]
                         ELSE NoTask
<1>1. DOMAIN pc = Clients /\ DOMAIN my = Clients
  BY DEF Inv, CallsSound
<1>2. pc'[c] = "after" /\ my'[c] = new
  BY <1>1
<1>3. ASSUME NEW d \in Clients, d # c PROVE Owed(d)' = Owed(d)
  <2>1. pc'[d] = pc[d] /\ my'[d] = my[d]
    BY <1>1, <1>3
  <2>2. QED
    BY <2>1 DEF Owed
<1>4. QED
  BY <1>2, <1>3 DEF Owed

\* The account of a node that a client has removed from the map.
LEMMA LeftMap ==
    ASSUME NEW n, NEW c \in Clients, tasks' = tasks, Owed(c) = NoTask,
           \A d \in Clients : d # c => Owed(d)' = Owed(d),
           Account(n), InMap(n), ~InMap(n)', Tracked(n)' <=> Tracked(n), told' = told,
           Does(Owed(c)', "takes", n), ~Does(Owed(c)', "brings", n)
    PROVE  Account(n)'
<1>1. ~Does(Owed(c), "brings", n) /\ ~SomeTask("takes", n)
  BY DEF Does, NoTask, Account
<1>2. \A d \in Clients : Does(Owed(d)', "brings", n) <=> Does(Owed(d), "brings", n)
  BY <1>1
<1>3. (SomeTask("brings", n)' <=> SomeTask("brings", n)) /\ OneTask("brings", n)'
  BY <1>2 DEF SomeTask, OneTask, Does, Account
<1>4. SomeTask("takes", n)'
  BY DEF SomeTask
<1>5. /\ \A d \in Clients : d # c => ~Does(Owed(d)', "takes", n)
      /\ \A i \in DOMAIN tasks : ~Does(tasks[i], "takes", n)
  BY <1>1 DEF SomeTask
<1>6. OneTask("takes", n)'
  <2>1. \A d, e \in Clients : Does(Owed(d)', "takes", n) /\ Does(Owed(e)', "takes", n) => d = e
    BY <1>5
  <2>2. QED
    BY <1>5, <2>1 DEF OneTask, Does
<1>7. QED
  BY <1>3, <1>4, <1>6 DEF Account

\* Compute leaves the entry as it is, but for its deadline.
LEMMA ComputeKeeps ==
    ASSUME Inv, NEW c \in Clients, Client(c), Step(c, "compute", "after"), NodesKept,
           UNCHANGED <<map, readBuffer, tasks, told, misjudged>>,
           NEW old \in SomeIds, Computed(c, old, old, TRUE), my[c].op = "setIfAbsent" => old # None
    PROVE  Inv'
<1>1. UNCHANGED <<clock, wheel, maint>> /\ Ids' = Ids /\ SomeIds' = SomeIds
  BY DEF Client, NodesKept, SomeIds
<1>2. PICK new : /\ pc' = [pc EXCEPT ![c] = "after"] /\ my' = [my EXCEPT ![c] = new]
                 /\ CallSound("after", new)' /\ new.kept = TRUE
  BY <1>1, ComputedSound
<1>3. readBuffer' \subseteq Ids /\ pc[c] # "after"
  BY DEF Inv, Types, Step
<1>4. QED
  BY <1>1, <1>2, <1>3, QuietStep

\* The entry that a client finds is the one that is alive.
LEMMA FoundSound ==
    ASSUME Inv, NEW k \in Keys
    PROVE  /\ map[k] \in SomeIds
           /\ map[k] # None => nodes[map[k]].key = k /\ InMap(map[k])
           /\ \A x \in Ids : nodes[x].key = k => (InMap(x) <=> x = map[k])
  BY DEF Inv, Types, MapSound, InMap

LEMMA ComputeDeletes ==
    ASSUME Inv, NEW c \in Clients, Client(c), Step(c, "compute", "after"),
           UNCHANGED <<readBuffer, tasks, told, misjudged>>, my[c].op # "setIfAbsent",
           my[c].key \in Keys, AtomicDelete(c, map[my[c].key])
    PROVE  Inv'
<1>1. UNCHANGED <<clock, wheel, maint>> /\ pc[c] = "compute"
  BY DEF Client, Step
<1>2. PICK k : k = my[c].key
  OBVIOUS
<1>3. PICK old : old = map[k]
  OBVIOUS
<1>4. /\ k \in Keys /\ nodes' = Retire(old) /\ map' = [map EXCEPT ![k] = None]
      /\ Computed(c, None, old, FALSE)
  BY <1>2, <1>3 DEF AtomicDelete
<1>5. /\ old \in SomeIds /\ None \notin Ids
      /\ old # None => nodes[old].key = k /\ InMap(old)
      /\ \A x \in Ids : nodes[x].key = k => (InMap(x) <=> x = old)
  BY <1>3, <1>4, FoundSound, ExpirationAssumption DEF Inv, Types, Ids
<1>6. /\ nodes' \in Seq(NodeSet) /\ Len(nodes') = Len(nodes) /\ Ids' = Ids /\ SomeIds' = SomeIds
      /\ \A x \in Ids : /\ nodes'[x].key = nodes[x].key
                        /\ x # old => nodes'[x].state = nodes[x].state
                        /\ x = old => nodes'[x].state # "alive"
  BY <1>4, <1>5, RetireSound DEF Inv, Ids, SomeIds
<1>7. \A x \in Ids : InMap(x)' <=> InMap(x) /\ x # old
  <2>1. ASSUME NEW x \in Ids PROVE InMap(x)' <=> InMap(x) /\ x # old
    <3>1. nodes'[x].key = nodes[x].key /\ nodes[x].key \in Keys /\ x # None
      BY <1>5, <1>6, NodeTyped DEF Inv
    <3>2. QED
      BY <1>4, <1>5, <3>1 DEF InMap, Inv, Types
  <2>2. QED
    BY <2>1
<1>8. PICK new : /\ pc' = [pc EXCEPT ![c] = "after"] /\ my' = [my EXCEPT ![c] = new]
                 /\ new.node = None /\ new.old = old /\ new.kept = FALSE /\ CallsSound'
  <2>1. None \in SomeIds' /\ old \in SomeIds' /\ Ids \subseteq Ids' /\ FALSE \in BOOLEAN
    BY <1>5, <1>6 DEF SomeIds
  <2>2. PICK kept \in BOOLEAN : kept = FALSE
    OBVIOUS
  <2>3. Computed(c, None, old, kept)
    BY <1>4, <2>2
  <2>4. \E new : /\ pc' = [pc EXCEPT ![c] = "after"] /\ my' = [my EXCEPT ![c] = new]
                 /\ new.node = None /\ new.old = old /\ new.kept = kept /\ CallsSound'
    BY <1>1, <2>1, <2>2, <2>3, ComputedSound
  <2>5. QED
    BY <2>2, <2>4
<1>9. /\ Owed(c) = NoTask /\ \A d \in Clients : d # c => Owed(d)' = Owed(d)
      /\ Owed(c)' = IF old # None THEN [kind |-> "delete", node |-> old, old |-> old] ELSE NoTask
  BY <1>1, <1>8, OwedNow
<1>10. Types'
  <2>1. TaskSet' = TaskSet /\ map' \in [Keys -> SomeIds]
    BY <1>4, <1>6 DEF TaskSet, Inv, Types, SomeIds
  <2>2. QED
    BY <1>1, <1>6, <2>1 DEF Inv, Types
<1>11. TasksSound' /\ MaintSound' /\ Untold'
  BY <1>1, <1>6 DEF Inv, TasksSound, MaintSound, Untold
<1>12. MapSound'
  <2>1. ASSUME NEW j \in Keys, map'[j] # None PROVE nodes'[map'[j]].key = j
    <3>1. map'[j] = map[j] /\ map[j] \in Ids
      BY <1>4, <2>1 DEF Inv, Types, SomeIds
    <3>2. QED
      BY <1>6, <2>1, <3>1 DEF Inv, MapSound
  <2>2. ASSUME NEW m \in Ids PROVE IsAlive(m)' <=> InMap(m)'
    BY <1>6, <1>7 DEF Inv, MapSound, IsAlive
  <2>3. QED
    BY <1>6, <2>1, <2>2 DEF MapSound
<1>13. Accounted'
  <2>1. ASSUME NEW x \in Ids \ misjudged PROVE Account(x)'
    <3>1. Account(x) /\ (Tracked(x)' <=> Tracked(x))
      BY <1>1 DEF Inv, Accounted, Tracked
    <3>2. CASE x # old
      <4>1. \A d \in Clients, way \in Ways : Does(Owed(d)', way, x) <=> Does(Owed(d), way, x)
        BY <1>9, <3>2 DEF Does, NoTask
      <4>2. QED
        BY <1>7, <3>1, <3>2, <4>1, AccountKept
    <3>3. CASE x = old
      <4>1. Does(Owed(c)', "takes", x) /\ ~Does(Owed(c)', "brings", x) /\ InMap(x) /\ ~InMap(x)'
        BY <1>5, <1>7, <1>9, <3>3 DEF Does
      <4>2. QED
        BY <1>9, <3>1, <4>1, LeftMap
    <3>4. QED
      BY <3>2, <3>3
  <2>2. QED
    BY <1>6, <2>1 DEF Accounted
<1>14. QED
  BY <1>8, <1>10, <1>11, <1>12, <1>13 DEF Inv

LEMMA ComputeWrites ==
    ASSUME Inv, NEW c \in Clients, Client(c), Step(c, "compute", "after"),
           UNCHANGED <<readBuffer, tasks, told, misjudged>>,
           my[c].key \in Keys, AtomicSet(c, map[my[c].key])
    PROVE  Inv'
<1>1. UNCHANGED <<clock, wheel, maint>> /\ pc[c] = "compute"
  BY DEF Client, Step
<1>2. PICK k : k = my[c].key
  OBVIOUS
<1>3. PICK old : old = map[k]
  OBVIOUS
<1>4. PICK m : m = Len(nodes) + 1
  OBVIOUS
<1>5. /\ k \in Keys /\ old \in SomeIds /\ None \notin Nat /\ Ids \subseteq Nat
      /\ old # None => nodes[old].key = k /\ InMap(old)
      /\ \A x \in Ids : nodes[x].key = k => (InMap(x) <=> x = old)
  BY <1>2, <1>3, FoundSound, ExpirationAssumption DEF Inv, Types, Ids
<1>6. PICK t \in 0..(Word - 1) :
         nodes' = Append(Retire(old), [key |-> k, state |-> "alive", expiresAt |-> t])
  <2>1. PICK d \in (IF Absent(old, my[c].now) THEN ExpireAfterCreate
                    ELSE ExpireAfterUpdate(nodes[old].expiresAt - my[c].now)) :
           nodes' = Append(Retire(old), [key |-> k, state |-> "alive", expiresAt |-> my[c].now + d])
    BY <1>2, <1>3 DEF AtomicSet
  <2>2. my[c].now \in Nat /\ my[c].now <= clock
    BY DEF Inv, CallsSound, CallSound, CallSet
  <2>3. CASE d \in TTLs
    BY <2>1, <2>2, <2>3, NewDeadline DEF Inv
  <2>4. CASE ~Absent(old, my[c].now) /\ d = nodes[old].expiresAt - my[c].now
    <3>1. old \in Ids
      BY <1>5, <2>4 DEF Absent, SomeIds
    <3>2. nodes[old].expiresAt \in 0..(Word - 1)
      BY <3>1, NodeTyped DEF Inv
    <3>3. my[c].now + d \in 0..(Word - 1)
      BY <2>2, <2>4, <3>2
    <3>4. QED
      BY <2>1, <3>3
  <2>5. QED
    BY <2>1, <2>3, <2>4 DEF ExpireAfterCreate, ExpireAfterUpdate
<1>7. /\ Retire(old) \in Seq(NodeSet) /\ Len(Retire(old)) = Len(nodes) /\ DOMAIN Retire(old) = Ids
      /\ \A x \in Ids : /\ Retire(old)[x].key = nodes[x].key
                        /\ x # old => Retire(old)[x].state = nodes[x].state
                        /\ x = old => Retire(old)[x].state # "alive"
  BY <1>5, RetireSound DEF Inv
<1>8. /\ nodes' \in Seq(NodeSet) /\ Len(nodes') = m /\ Ids' = Ids \cup {m} /\ m \notin Ids
      /\ m \in 1..MaxNodes /\ nodes'[m].key = k /\ nodes'[m].state = "alive"
      /\ \A x \in Ids : /\ nodes'[x].key = nodes[x].key
                        /\ x # old => nodes'[x].state = nodes[x].state
                        /\ x = old => nodes'[x].state # "alive"
  <2>1. PICK r : r = [key |-> k, state |-> "alive", expiresAt |-> t]
    OBVIOUS
  <2>2. r \in NodeSet /\ r.key = k /\ r.state = "alive"
    BY <1>5, <2>1 DEF NodeSet
  <2>3. Len(nodes) < MaxNodes /\ Len(nodes) \in Nat /\ MaxNodes \in Nat /\ Ids = 1..Len(nodes)
    BY ExpirationAssumption DEF AtomicSet, Inv, Types, Ids
  <2>4. PICK s : s = Retire(old)
    OBVIOUS
  <2>5. nodes' = Append(s, r) /\ s \in Seq(NodeSet) /\ Len(s) = Len(nodes)
    BY <1>6, <1>7, <2>1, <2>4
  <2>6. /\ nodes' \in Seq(NodeSet) /\ Len(nodes') = m /\ DOMAIN nodes' = 1..m /\ nodes'[m] = r
        /\ \A x \in 1..Len(nodes) : nodes'[x] = s[x]
    BY <1>4, <2>2, <2>5
  <2>7. QED
    BY <1>4, <1>7, <2>2, <2>3, <2>4, <2>6 DEF Ids
<1>9. map' = [map EXCEPT ![k] = m] /\ Computed(c, m, old, FALSE) /\ m # None
  <2>1. Len(nodes') = m /\ m \in Nat
    BY <1>8
  <2>2. map' = [map EXCEPT ![k] = Len(nodes')] /\ Computed(c, Len(nodes'), old, FALSE)
    BY <1>2, <1>3 DEF AtomicSet
  <2>3. m # None
    BY <1>5, <2>1
  <2>4. Computed(c, m, old, FALSE)
    BY <2>1, <2>2, Zenon
  <2>5. QED
    BY <2>1, <2>2, <2>3, <2>4
<1>10. /\ \A x \in Ids : InMap(x)' <=> InMap(x) /\ x # old
       /\ InMap(m)'
  <2>1. ASSUME NEW x \in Ids PROVE InMap(x)' <=> InMap(x) /\ x # old
    <3>1. nodes'[x].key = nodes[x].key /\ nodes[x].key \in Keys /\ x # m
      BY <1>8, NodeTyped DEF Inv
    <3>2. QED
      BY <1>5, <1>9, <3>1 DEF InMap, Inv, Types
  <2>2. InMap(m)'
    BY <1>5, <1>8, <1>9 DEF InMap, Inv, Types
  <2>3. QED
    BY <2>1, <2>2
<1>11. PICK new : /\ pc' = [pc EXCEPT ![c] = "after"] /\ my' = [my EXCEPT ![c] = new]
                  /\ new.node = m /\ new.old = old /\ new.kept = FALSE /\ CallsSound'
  <2>1. m \in SomeIds' /\ old \in SomeIds' /\ Ids \subseteq Ids'
    BY <1>5, <1>8 DEF SomeIds
  <2>2. PICK kept \in BOOLEAN : kept = FALSE
    OBVIOUS
  <2>3. Computed(c, m, old, kept)
    BY <1>9, <2>2
  <2>4. \E new : /\ pc' = [pc EXCEPT ![c] = "after"] /\ my' = [my EXCEPT ![c] = new]
                 /\ new.node = m /\ new.old = old /\ new.kept = kept /\ CallsSound'
    BY <1>1, <1>9, <2>1, <2>2, <2>3, ComputedSound
  <2>5. QED
    BY <2>2, <2>4
<1>12. /\ Owed(c) = NoTask /\ \A d \in Clients : d # c => Owed(d)' = Owed(d)
       /\ Owed(c)' = [kind |-> IF old = None THEN "add" ELSE "update", node |-> m, old |-> old]
  BY <1>1, <1>9, <1>11, OwedNow
<1>13. Types'
  <2>1. TaskSet \subseteq TaskSet' /\ map' \in [Keys -> SomeIds']
    BY <1>5, <1>8, <1>9 DEF TaskSet, Inv, Types, SomeIds
  <2>2. tasks' \in Seq(TaskSet')
    BY <2>1 DEF Inv, Types
  <2>3. Len(nodes') <= MaxNodes
    BY <1>8
  <2>4. QED
    BY <1>1, <1>8, <2>1, <2>2, <2>3 DEF Inv, Types
<1>14. TasksSound' /\ MaintSound' /\ Untold'
  BY <1>1, <1>8 DEF Inv, TasksSound, MaintSound, Untold
<1>15. MapSound'
  <2>1. ASSUME NEW j \in Keys, map'[j] # None PROVE nodes'[map'[j]].key = j
    <3>1. CASE j = k
      BY <1>5, <1>8, <1>9, <3>1 DEF Inv, Types
    <3>2. CASE j # k
      <4>1. map'[j] = map[j] /\ map[j] \in Ids
        BY <1>9, <2>1, <3>2 DEF Inv, Types, SomeIds
      <4>2. QED
        BY <1>8, <2>1, <4>1 DEF Inv, MapSound
    <3>3. QED
      BY <3>1, <3>2
  <2>2. ASSUME NEW x \in Ids PROVE IsAlive(x)' <=> InMap(x)'
    BY <1>8, <1>10 DEF Inv, MapSound, IsAlive
  <2>3. IsAlive(m)' <=> InMap(m)'
    BY <1>8, <1>10 DEF IsAlive
  <2>4. QED
    BY <1>8, <2>1, <2>2, <2>3 DEF MapSound
<1>16. Account(m)'
  <2>1. /\ \A i \in DOMAIN tasks : tasks[i].node \in Ids /\ tasks[i].old \in SomeIds
        /\ m \notin SomeIds
    <3>1. \A i \in DOMAIN tasks : tasks[i] \in TaskSet
      BY DEF Inv, Types
    <3>2. QED
      BY <1>8, <1>9, <3>1 DEF TaskSet, SomeIds
  <2>2. \A i \in DOMAIN tasks, way \in Ways : ~Does(tasks[i], way, m)
    BY <1>8, <2>1 DEF Does
  <2>3. \A d \in Clients \ {c}, way \in Ways : ~Does(Owed(d)', way, m)
    <3>1. \A d \in Clients : my[d].node \in SomeIds /\ my[d].old \in SomeIds
      BY DEF Inv, CallsSound, CallSet
    <3>2. \A d \in Clients : Owed(d).node \in SomeIds /\ Owed(d).old \in SomeIds
      BY <3>1 DEF Owed, NoTask, SomeIds
    <3>3. QED
      BY <1>12, <2>1, <3>2 DEF Does
  <2>4. Does(Owed(c)', "brings", m) /\ ~Does(Owed(c)', "takes", m)
    BY <1>5, <1>12, <2>1 DEF Does
  <2>5. SomeTask("brings", m)' /\ ~SomeTask("takes", m)'
    <3>1. SomeTask("brings", m)'
      BY <2>4 DEF SomeTask
    <3>2. (SomeTask("takes", m))' <=> \/ \E d \in Clients : Does(Owed(d)', "takes", m)
                                     \/ \E i \in DOMAIN tasks' : Does(tasks'[i], "takes", m)
      BY DEF SomeTask, Does
    <3>3. QED
      BY <2>2, <2>3, <2>4, <3>1, <3>2 DEF Ways
  <2>6. \A way \in Ways : OneTask(way, m)'
    <3>1. ASSUME NEW way \in Ways PROVE OneTask(way, m)'
      <4>1. \A d, e \in Clients : Does(Owed(d)', way, m) /\ Does(Owed(e)', way, m) => d = e
        BY <2>3
      <4>2. \A i \in DOMAIN tasks' : ~Does(tasks'[i], way, m)
        BY <2>2
      <4>3. QED
        BY <4>1, <4>2 DEF OneTask, Does
    <3>2. QED
      BY <3>1
  <2>7. ~Tracked(m)' /\ told'[m] = 0
    BY <1>1, <1>8 DEF Tracked, Scheduled, Inv, Types, MaintSound, Untold
  <2>8. QED
    BY <1>10, <2>5, <2>6, <2>7 DEF Account, Ways
<1>17. Accounted'
  <2>1. ASSUME NEW x \in Ids \ misjudged PROVE Account(x)'
    <3>1. Account(x) /\ (Tracked(x)' <=> Tracked(x)) /\ x # m /\ x # None
      BY <1>1, <1>5, <1>8 DEF Inv, Accounted, Tracked
    <3>2. CASE x # old
      <4>1. \A d \in Clients, way \in Ways : Does(Owed(d)', way, x) <=> Does(Owed(d), way, x)
        BY <1>12, <3>1, <3>2 DEF Does, NoTask
      <4>2. QED
        BY <1>10, <3>1, <3>2, <4>1, AccountKept
    <3>3. CASE x = old
      <4>1. Does(Owed(c)', "takes", x) /\ ~Does(Owed(c)', "brings", x) /\ InMap(x) /\ ~InMap(x)'
        <5>1. Owed(c)' = [kind |-> "update", node |-> m, old |-> x]
          BY <1>12, <3>1, <3>3
        <5>2. Does(Owed(c)', "takes", x) /\ ~Does(Owed(c)', "brings", x)
          BY <3>1, <5>1 DEF Does
        <5>3. InMap(x) /\ ~InMap(x)'
          BY <1>5, <1>10, <3>1, <3>3
        <5>4. QED
          BY <5>2, <5>3
      <4>2. QED
        BY <1>12, <3>1, <4>1, LeftMap
    <3>4. QED
      BY <3>2, <3>3
  <2>2. QED
    BY <1>8, <1>16, <2>1 DEF Accounted
<1>18. QED
  BY <1>11, <1>13, <1>14, <1>15, <1>17 DEF Inv

LEMMA ComputeStep == ASSUME Inv, NEW c \in Clients, Client(c), Compute(c) PROVE Inv'
<1>1. /\ UNCHANGED <<readBuffer, tasks, told, misjudged, clock>> /\ Step(c, "compute", "after")
      /\ pc[c] = "compute"
  BY Zenon DEF Client, Compute
<1>2. PICK old : old = map[my[c].key]
  BY Zenon
<1>3. PICK kind \in {"write", "delete", "cancel", "extend"} :
         /\ Fate(c, old, kind)
         /\ \/ kind = "write" /\ AtomicSet(c, old)
            \/ kind = "delete" /\ AtomicDelete(c, old)
            \/ kind = "cancel" /\ old # None /\ Absent(old, my[c].now) /\ AtomicDelete(c, old)
            \/ /\ kind = "cancel" /\ ~(old # None /\ Absent(old, my[c].now))
               /\ Computed(c, old, old, TRUE) /\ UNCHANGED data
            \/ /\ kind = "extend"
               /\ \E d \in ExpireAfterRead(nodes[old].expiresAt - my[c].now) :
                    nodes' = [nodes EXCEPT ![old].expiresAt = my[c].now + d]
               /\ Computed(c, old, old, TRUE) /\ UNCHANGED map
  BY <1>2, Zenon DEF Compute
<1>4. CallSound("compute", my[c]) /\ my[c].key \in Keys /\ my[c].now \in Nat /\ my[c].now <= clock
  BY <1>1 DEF Inv, CallsSound, CallSound, CallSet
<1>5. old \in SomeIds
  BY <1>2, <1>4, FoundSound
<1>6. \/ my[c].op # "setIfAbsent"
      \/ my[c].op = "setIfAbsent" /\ (kind = "write" \/ (kind = "extend" /\ ~Absent(old, my[c].now)))
  BY <1>3 DEF Fate
<1>7. kind = "extend" => my[c].op = "setIfAbsent"
  BY <1>3, <1>4 DEF Fate, CallSound, Operations
<1>8. CASE AtomicSet(c, old)
  BY <1>1, <1>2, <1>4, <1>8, ComputeWrites
<1>9. CASE AtomicDelete(c, old) /\ my[c].op # "setIfAbsent"
  BY <1>1, <1>2, <1>4, <1>9, ComputeDeletes
<1>10. CASE Computed(c, old, old, TRUE) /\ UNCHANGED data /\ my[c].op # "setIfAbsent"
  <2>1. NodesKept /\ UNCHANGED map
    BY <1>10 DEF NodesKept, data, Inv, Types, Ids
  <2>2. QED
    BY <1>1, <1>5, <1>10, <2>1, ComputeKeeps
<1>11. CASE /\ Computed(c, old, old, TRUE) /\ UNCHANGED map /\ ~Absent(old, my[c].now)
            /\ \E d \in ExpireAfterRead(nodes[old].expiresAt - my[c].now) :
                 nodes' = [nodes EXCEPT ![old].expiresAt = my[c].now + d]
  <2>1. old \in Ids /\ old # None
    BY <1>5, <1>11 DEF Absent, SomeIds
  <2>2. PICK d \in ExpireAfterRead(nodes[old].expiresAt - my[c].now) :
           nodes' = [nodes EXCEPT ![old].expiresAt = my[c].now + d]
    BY <1>11
  <2>3. my[c].now + d \in 0..(Word - 1)
    <3>1. CASE d \in TTLs
      BY <1>4, <3>1, NewDeadline DEF Inv
    <3>2. CASE d = nodes[old].expiresAt - my[c].now
      <4>1. nodes[old].expiresAt \in 0..(Word - 1)
        BY <2>1, NodeTyped DEF Inv
      <4>2. QED
        BY <1>4, <3>2, <4>1
    <3>3. QED
      BY <2>2, <3>1, <3>2 DEF ExpireAfterRead
  <2>4. NodesKept
    BY <2>1, <2>2, <2>3, MovedDeadline DEF Inv
  <2>5. QED
    BY <1>1, <1>5, <1>11, <2>1, <2>4, ComputeKeeps
<1>12. QED
  BY <1>3, <1>6, <1>7, <1>8, <1>9, <1>10, <1>11, Zenon

--------------------------------------------------------------------------------
(* The invariant, and what it gives *)

LEMMA InitInv == ASSUME Init PROVE Inv
<1>1. /\ clock = Start /\ clock \in 0..MaxTime /\ tasks = <<>> /\ maint = NoMaint
      /\ readBuffer = {} /\ misjudged = {}
      /\ pc = [c \in Clients |-> "off"] /\ my = [c \in Clients |-> NoCall]
      /\ told = [n \in 1..MaxNodes |-> 0] /\ None \notin Nat /\ MaxNodes \in Nat \ {0}
  BY ExpirationAssumption DEF Init, NodeIds
<1>2. /\ nodes \in Seq(NodeSet) /\ Len(nodes) <= MaxNodes /\ map \in [Keys -> SomeIds]
      /\ IsWheel(wheel) /\ wheel.time \in 0..clock
      /\ \A n : Scheduled(wheel, n) <=> n \in Ids
      /\ \A k \in Keys : map[k] # None => nodes[map[k]].key = k
      /\ \A n \in Ids : IsAlive(n) /\ InMap(n)
  <2>1. PICK w : w = [EmptyWheel EXCEPT !.time = Start]
    OBVIOUS
  <2>2. IsWheel(w) /\ w.time = Start /\ (\A n : ~Scheduled(w, n))
        /\ IsWheel(EmptyWheel) /\ EmptyWheel.time = 0 /\ (\A n : ~Scheduled(EmptyWheel, n))
    BY <2>1 DEF EmptyWheel, IsWheel, Scheduled
  <2>3. Start \in 0..Start /\ 0 \in 0..Start
    BY ExpirationAssumption
  <2>4. CASE map = [k \in Keys |-> None] /\ nodes = <<>> /\ wheel = EmptyWheel
    BY <1>1, <2>2, <2>3, <2>4 DEF Ids, SomeIds
  <2>5. ASSUME NEW k \in Keys, NEW d \in TTLs, map = [j \in Keys |-> IF j = k THEN 1 ELSE None],
               nodes = <<[key |-> k, state |-> "alive", expiresAt |-> Start + d]>>,
               wheel = Schedule(w, 1, Start + d)
        PROVE  /\ nodes \in Seq(NodeSet) /\ Len(nodes) <= MaxNodes /\ map \in [Keys -> SomeIds]
               /\ IsWheel(wheel) /\ wheel.time \in 0..clock
               /\ \A n : Scheduled(wheel, n) <=> n \in Ids
               /\ \A j \in Keys : map[j] # None => nodes[map[j]].key = j
               /\ \A n \in Ids : IsAlive(n) /\ InMap(n)
    <3>1. PICK r : r = [key |-> k, state |-> "alive", expiresAt |-> Start + d]
      OBVIOUS
    <3>2. Start + d \in 0..(Word - 1)
      BY ExpirationAssumption, TimerWheelAssumption
    <3>3. r \in NodeSet /\ r.key = k /\ r.state = "alive" /\ nodes = <<r>>
      BY <2>5, <3>1, <3>2 DEF NodeSet
    <3>4. nodes \in Seq(NodeSet) /\ Len(nodes) = 1 /\ Ids = {1} /\ nodes[1] = r
      BY <3>3 DEF Ids
    <3>5. /\ IsWheel(wheel) /\ wheel.time = w.time
          /\ \A x : Scheduled(wheel, x) <=> x = 1 \/ Scheduled(w, x)
      BY <2>2, <2>5, ScheduleSound
    <3>6. map \in [Keys -> SomeIds] /\ \A j \in Keys : map[j] # None => map[j] = 1 /\ j = k
      BY <2>5, <3>4 DEF SomeIds
    <3>7. map[k] = 1
      BY <2>5
    <3>8. IsAlive(1) /\ InMap(1)
      BY <3>3, <3>4, <3>7 DEF IsAlive, InMap
    <3>9. QED
      BY <1>1, <2>2, <2>3, <3>3, <3>4, <3>5, <3>6, <3>8
  <2>6. QED
    BY <2>1, <2>4, <2>5 DEF Init
<1>3. Types
  <2>1. /\ DOMAIN maint = {"pc", "scan", "held", "node"} /\ maint.held = {}
        /\ told \in [1..MaxNodes -> Nat] /\ tasks \in Seq(TaskSet)
    BY <1>1 DEF NoMaint
  <2>2. QED
    BY <1>1, <1>2, <2>1 DEF Types, IsWheel, Scheduled
<1>4. CallsSound
  BY <1>1, <1>3, NothingToCall DEF CallsSound, CallSound
<1>5. TasksSound /\ MapSound /\ MaintSound /\ Untold
  BY <1>1, <1>2 DEF TasksSound, MapSound, MaintSound, Untold, NoMaint
<1>6. Accounted
  <2>1. ASSUME NEW n \in Ids PROVE Account(n)
    <3>1. \A c \in Clients : Owed(c) = NoTask
      BY <1>1 DEF Owed
    <3>2. \A way : ~SomeTask(way, n) /\ OneTask(way, n)
      BY <1>1, <3>1 DEF SomeTask, OneTask, Does, NoTask
    <3>3. InMap(n) /\ Tracked(n) /\ told[n] = 0
      BY <1>1, <1>2, <1>3 DEF Tracked, Ids, Types
    <3>4. QED
      BY <3>2, <3>3 DEF Account
  <2>2. QED
    BY <2>1 DEF Accounted
<1>7. QED
  BY <1>3, <1>4, <1>5, <1>6 DEF Inv

LEMMA NextInv == ASSUME Inv, [Next]_vars PROVE Inv'
<1>1. CASE Tick
  BY <1>1, TickStep
<1>2. ASSUME NEW c \in Clients, Client(c) PROVE Inv'
  BY <1>2, CallStep, LookupStep, LoadExpiresAtStep, CasExpiresAtStep, RecordStep, ComputeStep,
     AfterStep DEF Client
<1>3. CASE MaintenanceStep
  BY <1>3, BeginStep, OnAccessStep, ReadsDrainedStep, RunTaskStep, DeleteExpiredStep, ScanNodeStep,
     EvictNodeStep DEF MaintenanceStep
<1>4. CASE UNCHANGED vars
  <2>1. /\ UNCHANGED <<clock, map, nodes, readBuffer, tasks, wheel, maint, pc, my, told, misjudged>>
    BY <1>4 DEF vars, data
  <2>2. readBuffer' \subseteq Ids /\ WheelTyped' /\ MaintSound'
    BY <2>1 DEF Inv, Types, WheelTyped, MaintSound, Ids
  <2>3. \A n \in Ids \ misjudged : Tracked(n)' <=> Tracked(n)
    BY <2>1 DEF Tracked
  <2>4. QED
    BY <2>1, <2>2, <2>3, WheelStep
<1>5. QED
  BY <1>1, <1>2, <1>3, <1>4 DEF Next

LEMMA Invariant == Spec => []Inv
<1>1. Init => Inv
  BY InitInv
<1>2. Inv /\ [Next]_vars => Inv'
  BY NextInv
<1>3. QED
  BY <1>1, <1>2, PTL DEF Spec

\* At rest nothing is owed, and a node is on the wheel or lost.
LEMMA RestSound ==
    ASSUME Inv, AtRest, NEW n \in Ids
    PROVE  /\ ~SomeTask("brings", n) /\ ~SomeTask("takes", n)
           /\ Tracked(n) <=> Scheduled(wheel, n)
<1>1. \A c \in Clients : Owed(c) = NoTask
  BY DEF AtRest, Owed
<1>2. \A way : ~SomeTask(way, n)
  BY <1>1 DEF AtRest, SomeTask, Does, NoTask
<1>3. QED
  BY <1>2 DEF AtRest, Tracked, Inv, MaintSound

\* A node is in the map when it is the one of its key.
LEMMA InMapSound == ASSUME Inv, NEW n \in Ids PROVE (\E k \in Keys : map[k] = n) <=> InMap(n)
<1>1. n # None /\ nodes[n].key \in Keys
  BY NodeTyped, ExpirationAssumption DEF Inv
<1>2. QED
  BY <1>1 DEF Inv, MapSound, InMap

\* The wheel and the map: at rest, that is when no operation is under way, no task is
\* queued and no maintenance runs, exactly the entries of the map are scheduled on the
\* wheel, those apart about which SetIfAbsent has changed its mind (cache_impl.go, set,
\* and policy.go, scheduling in the maintenance).
THEOREM TimersAreSound == Spec => []TimersSound
<1>1. Inv => TimersSound
  <2> SUFFICES ASSUME Inv PROVE TimersSound
    OBVIOUS
  <2>1. TypeOK
    <3>1. \A n \in DOMAIN nodes : nodes[n].expiresAt \in 0..(Word - 1)
      BY NodeTyped DEF Inv, Ids
    <3>2. \A i \in DOMAIN tasks : tasks[i] \in TaskSet
      BY DEF Inv, Types
    <3>3. \A i \in DOMAIN tasks : /\ tasks[i].node \in DOMAIN nodes
                                  /\ tasks[i].kind # "add" => tasks[i].old \in DOMAIN nodes
      BY <3>2 DEF Inv, TasksSound, TaskSet, SomeIds, Ids
    <3>4. wheel.time <= clock
      BY ExpirationAssumption DEF Inv, Types
    <3>5. QED
      BY <3>1, <3>3, <3>4 DEF TypeOK, Inv, Types, Ids, SomeIds
  <2>2. EntriesTracked
    <3>1. ASSUME AtRest, NEW n \in Ids \ misjudged
          PROVE  (\E k \in Keys : map[k] = n) <=> Scheduled(wheel, n)
      <4>1. Account(n)
        BY DEF Inv, Accounted
      <4>2. /\ ~SomeTask("brings", n) /\ ~SomeTask("takes", n)
            /\ Tracked(n) <=> Scheduled(wheel, n)
        BY <3>1, RestSound
      <4>3. QED
        BY <4>1, <4>2, InMapSound DEF Account
    <3>2. QED
      BY <3>1 DEF EntriesTracked, TrackedBut, Ids
  <2>3. QED
    BY <2>1, <2>2 DEF TimersSound
<1>2. QED
  BY <1>1, Invariant, PTL

\* OnDeletion is given every node that has left the map, and once, whether it was replaced,
\* deleted or removed because its deadline had passed; it is given no node of the map.
THEOREM DeletionsAreTold == Spec => []ToldOnce
<1>1. Inv => ToldOnce
  <2> SUFFICES ASSUME Inv, NEW n \in Ids \ misjudged
               PROVE  /\ told[n] <= 1
                      /\ told[n] = 1 => \A k \in Keys : map[k] # n
                      /\ AtRest /\ told[n] = 0 => \E k \in Keys : map[k] = n
    BY DEF ToldOnce, Ids
  <2>1. Account(n)
    BY DEF Inv, Accounted
  <2>2. told[n] = 0 \/ (told[n] = 1 /\ ~InMap(n))
    BY <2>1 DEF Account
  <2>3. ASSUME AtRest, told[n] = 0 PROVE InMap(n)
    BY <2>1, <2>3, RestSound DEF Account
  <2>4. QED
    BY <2>2, <2>3, InMapSound
<1>2. QED
  BY <1>1, Invariant, PTL

--------------------------------------------------------------------------------
(* The leaderboard *)

Values == Int \cup {None}

BoardCalls == [pc : {"off", "lock", "read", "write", "notify"}, op : {"none", "set", "add", "remove"},
          member : Members \cup {None}, given : Int, score : Int]

BoardTypes ==
    /\ scores \in [Members -> Values] /\ best \in [Members -> Values]
    /\ credit \in [Members -> Values] /\ replica \in [Members -> Values]
    /\ agent \in [Agents -> BoardCalls]
    /\ lowered \in BOOLEAN
    /\ raced \subseteq Members
    /\ \A a \in Agents : ~AgentAt(a, "off") => agent[a].member \in Members /\ agent[a].op # "none"

--------------------------------------------------------------------------------
(* The inductive invariant *)

\* Only the holder of the mutex reads and writes, and what it has read is still there.
Locking ==
    \A a \in Agents :
        /\ AgentAt(a, "read") \/ AgentAt(a, "write") => mu = a
        /\ AgentAt(a, "read") => agent[a].op = "add"
        /\ AgentAt(a, "write") /\ agent[a].op = "add" =>
             agent[a].score = Normalize(Base(scores, agent[a].member) + agent[a].given)
        /\ AgentAt(a, "notify") => agent[a].op # "remove"

\* HighestRetained made inductive: what a member has on the board is its best score, and a
\* board that has room has never dropped anybody.
Ranked ==
    /\ Cardinality(Retained(scores)) <= Capacity
    /\ ~lowered =>
         /\ \A m \in Retained(scores) : best[m] # None /\ best[m] <= scores[m]
         /\ \A m \in Retained(scores), n \in Members \ Retained(scores) :
               best[n] = None \/ best[n] <= scores[m]
         /\ Cardinality(Retained(scores)) < Capacity =>
               \A n \in Members \ Retained(scores) : best[n] = None

Telling(a, m) == AgentAt(a, "notify") /\ agent[a].member = m

\* ReplicaAgrees made inductive: of a member that was not raced one change at most is to
\* be told, and it is the score the member has.
Told ==
    /\ \A m \in Members \ raced : \A a, b \in Agents : Telling(a, m) /\ Telling(b, m) => a = b
    /\ \A m \in Retained(scores) \ raced :
         /\ \A a \in Agents : Telling(a, m) => agent[a].score = scores[m]
         /\ (\A a \in Agents : ~Telling(a, m)) => replica[m] = scores[m]

BoardInv == BoardTypes /\ Locking /\ AddsCounted /\ Ranked /\ Told

--------------------------------------------------------------------------------
(* Lemmas about the operators *)

\* The lower of two numbers.
LEMMA LowerOfTwo ==
    ASSUME NEW x \in Int, NEW y \in Int
    PROVE  Min({x, y}) = IF x <= y THEN x ELSE y
<1>1. \E z \in {x, y} : \A w \in {x, y} : z <= w
  OBVIOUS
<1>2. Min({x, y}) \in {x, y} /\ \A w \in {x, y} : Min({x, y}) <= w
  BY <1>1 DEF Min
<1>3. QED
  BY <1>2

\* The higher of two numbers.
LEMMA HigherOfTwo ==
    ASSUME NEW x \in Int, NEW y \in Int
    PROVE  Max({x, y}) = IF x >= y THEN x ELSE y
<1>1. \E z \in {x, y} : \A w \in {x, y} : z >= w
  OBVIOUS
<1>2. Max({x, y}) \in {x, y} /\ \A w \in {x, y} : Max({x, y}) >= w
  BY <1>1 DEF Max
<1>3. QED
  BY <1>2

\* A normalized score is a score.
LEMMA NormalizeType ==
    ASSUME NEW x \in Int PROVE Normalize(x) \in Int
  BY LowerOfTwo, LeaderboardAssumption DEF Normalize

\* The members on the board are finitely many.
LEMMA RetainedFinite ==
    ASSUME NEW s
    PROVE  IsFiniteSet(Retained(s)) /\ Cardinality(Retained(s)) \in Nat
<1>1. IsFiniteSet(Members) /\ Retained(s) \subseteq Members
  BY LeaderboardAssumption DEF Retained
<1>2. QED
  BY <1>1, FS_Subset, FS_CardinalityType

\* Trimming keeps all of a board that is not overfull, and otherwise fills it.
LEMMA TrimKeeps ==
    ASSUME NEW s, NEW kept, Trim(s, kept)
    PROVE  /\ Cardinality(Retained(kept)) <= Capacity
           /\ Retained(kept) \subseteq Retained(s)
           /\ \A m \in Retained(kept) : kept[m] = s[m]
           /\ \A m \in Retained(kept), n \in Retained(s) \ Retained(kept) : s[m] >= s[n]
           /\ Retained(kept) = Retained(s) \/
                (Cardinality(Retained(kept)) = Capacity /\ Cardinality(Retained(s)) > Capacity)
<1>1. /\ IsFiniteSet(Retained(s)) /\ Cardinality(Retained(s)) \in Nat /\ Capacity \in Int
      /\ IsFiniteSet(Retained(kept))
  BY RetainedFinite, LeaderboardAssumption
<1>2. /\ \A m \in Members : kept[m] \in {s[m], None}
      /\ Cardinality(Retained(kept)) = Min({Capacity, Cardinality(Retained(s))})
      /\ \A m \in Retained(kept), n \in Retained(s) \ Retained(kept) : s[m] >= s[n]
  BY DEF Trim
<1>3. Retained(kept) \subseteq Retained(s) /\ \A m \in Retained(kept) : kept[m] = s[m]
  BY <1>2 DEF Retained
<1>4. Cardinality(Retained(kept)) =
        IF Capacity <= Cardinality(Retained(s)) THEN Capacity
                                                      ELSE Cardinality(Retained(s))
  BY <1>1, <1>2, LowerOfTwo
<1>5. Cardinality(Retained(kept)) = Cardinality(Retained(s))
        => Retained(kept) = Retained(s)
  BY <1>1, <1>3, FS_Subset
<1>6. QED
  BY <1>1, <1>2, <1>3, <1>4, <1>5

\* The highest score so far.
Better(b, x) == IF b = None THEN x ELSE Max({b, x})

--------------------------------------------------------------------------------
(* What the steps do *)

\* The score that is written is the one that is due.
Due(a) == IF agent[a].op = "set" THEN agent[a].score
          ELSE Normalize(Base(credit, agent[a].member) + agent[a].given)

\* What becomes of the call of a, and of nobody else's.
Turns(a, call) == agent' = [agent EXCEPT ![a] = call]

\* A new score, and the board trimmed.
Scored(a) ==
    LET m == agent[a].member
        x == agent[a].score
        s == [scores EXCEPT ![m] = x]
    IN  /\ agent[a].op # "remove"
        /\ Trim(s, scores') /\ scores' \in [Members -> Values]
        /\ best' = [best EXCEPT ![m] = Better(@, x)]
        /\ credit' = [n \in Members |->
                         IF scores'[n] = None THEN None ELSE IF n = m THEN Due(a) ELSE credit[n]]
        /\ Turns(a, [agent[a] EXCEPT !.pc = "notify"])
        /\ scores[m] # None /\ x < scores[m] => lowered'

\* A removal.
Removed(a) ==
    LET m == agent[a].member
        s == [scores EXCEPT ![m] = None]
    IN  /\ agent[a].op = "remove"
        /\ Trim(s, scores') /\ scores' \in [Members -> Values]
        /\ best' = best
        /\ credit' = [n \in Members |->
                         IF scores'[n] = None THEN None
                         ELSE IF n = m THEN Normalize(Base(credit, m) + agent[a].given)
                         ELSE credit[n]]
        /\ Turns(a, BoardIdle)
        /\ scores[m] # None => lowered'

WriteDoes(a) ==
    /\ AgentAt(a, "write")
    /\ Scored(a) \/ Removed(a)
    /\ lowered => lowered'
    /\ lowered' \in BOOLEAN
    /\ raced' = raced \cup {n \in {agent[a].member} :
                              \E b \in Agents \ {a} : AgentAt(b, "notify") /\ agent[b].member = n}
    /\ mu' = None
    /\ UNCHANGED replica

\* Every Write does that.
LEMMA WriteEffect ==
    ASSUME BoardTypes, Locking, NEW a \in Agents,
           WriteScore(a)
    PROVE  WriteDoes(a)
<1> DEFINE m == agent[a].member
           x == IF agent[a].op = "remove" THEN None ELSE agent[a].score
           due == IF agent[a].op = "set" THEN x
                  ELSE Normalize(Base(credit, m) + agent[a].given)
<1>1. /\ AgentAt(a, "write") /\ m \in Members /\ agent[a].op \in {"set", "add", "remove"}
      /\ agent[a] \in BoardCalls /\ agent[a].score \in Int
  BY DEF WriteScore, BoardTypes, AgentAt, BoardCalls
<1>2. x \in Values /\ (x = None <=> agent[a].op = "remove")
  BY <1>1, LeaderboardAssumption DEF Values
<1>3. PICK kept \in [Members -> {None, x} \cup {scores[n] : n \in Members}] :
                Trim([scores EXCEPT ![m] = x], kept) /\ scores' = kept
  BY DEF WriteScore
<1>4. Trim([scores EXCEPT ![m] = x], scores') /\ scores' \in [Members -> Values]
  BY <1>2, <1>3 DEF BoardTypes, Values
<1>5. /\ best' = IF x = None THEN best
                 ELSE [best EXCEPT ![m] = IF @ = None THEN x ELSE Max({@, x})]
      /\ credit' = [n \in Members |->
                       IF scores'[n] = None THEN None ELSE IF n = m THEN due ELSE credit[n]]
      /\ raced' = raced \cup {n \in {m} :
                                \E b \in Agents \ {a} : AgentAt(b, "notify") /\ agent[b].member = n}
      /\ agent' = [agent EXCEPT ![a] = IF x = None THEN BoardIdle
                                                   ELSE [agent[a] EXCEPT !.pc = "notify"]]
      /\ lowered' = (lowered \/ Lowers(a))
      /\ mu' = None /\ replica' = replica
  BY DEF WriteScore
<1>6. lowered' \in BOOLEAN /\ (lowered => lowered') /\ (Lowers(a) => lowered')
  BY <1>5 DEF BoardTypes
<1>7. CASE agent[a].op = "remove"
  <2>1. x = None
    BY <1>7
  <2>2. scores[m] # None => Lowers(a)
    BY <1>7 DEF Lowers
  <2>3. Removed(a)
    BY <1>4, <1>5, <1>6, <1>7, <2>1, <2>2 DEF Removed, Turns
  <2>4. QED
    BY <1>1, <1>5, <1>6, <2>3 DEF WriteDoes
<1>8. CASE agent[a].op # "remove"
  <2>1. x = agent[a].score /\ x # None
    BY <1>2, <1>8
  <2>2. scores[m] # None /\ x < scores[m] => Lowers(a)
    BY <1>8, <2>1 DEF Lowers
  <2>3. due = Due(a)
    BY <2>1 DEF Due
  <2>4. best' = [best EXCEPT ![m] = Better(@, x)]
    BY <1>5, <2>1 DEF Better
  <2>5. Scored(a)
    BY <1>4, <1>5, <1>6, <1>8, <2>1, <2>2, <2>3, <2>4 DEF Scored, Turns
  <2>6. QED
    BY <1>1, <1>5, <1>6, <2>5 DEF WriteDoes
<1>9. QED
  BY <1>7, <1>8

\* The board after a new score, member by member.
ScoredBoard(a) ==
    LET m == agent[a].member
        x == agent[a].score
        R == Retained(scores)
        K == Retained(scores')
    IN  /\ m \in Members /\ x \in Int
        /\ K \subseteq R \cup {m}
        /\ Cardinality(K) <= Capacity
        /\ \A n \in K : scores'[n] = IF n = m THEN x ELSE scores[n]
        /\ \A n \in R \ K : n # m => \A k \in K : scores'[k] >= scores[n]
        /\ m \notin K => \A k \in K : scores'[k] >= x
        /\ \/ K = R \cup {m} /\ (m \in R \/ Cardinality(R) < Capacity)
           \/ /\ m \notin R /\ Cardinality(K) = Capacity
              /\ \E d \in R \cup {m} : d \notin K

\* So it is.
LEMMA ScoredTrims ==
    ASSUME BoardTypes, Ranked, NEW a \in Agents,
           AgentAt(a, "write"), Scored(a)
    PROVE  ScoredBoard(a)
<1> DEFINE m == agent[a].member
           x == agent[a].score
           s == [scores EXCEPT ![m] = x]
           R == Retained(scores)
           K == Retained(scores')
<1>1. m \in Members /\ x \in Int /\ x # None
  BY LeaderboardAssumption DEF BoardTypes, AgentAt, BoardCalls
<1>2. /\ \A n \in Members : s[n] = IF n = m THEN x ELSE scores[n]
      /\ Retained(s) = R \cup {m}
  BY <1>1 DEF BoardTypes, Retained
<1>3. Trim(s, scores')
  BY DEF Scored
<1> HIDE DEF s
<1>4. /\ Cardinality(K) <= Capacity
      /\ K \subseteq R \cup {m}
      /\ \A n \in K : scores'[n] = s[n]
      /\ \A k \in K, n \in (R \cup {m}) \ K : s[k] >= s[n]
      /\ K = R \cup {m} \/ (Cardinality(K) = Capacity /\ Cardinality(R \cup {m}) > Capacity)
  BY <1>2, <1>3, TrimKeeps
<1>5. IsFiniteSet(R) /\ Cardinality(R) \in Nat /\ Cardinality(R) <= Capacity /\ Capacity \in Nat
      /\ IsFiniteSet(K) /\ Cardinality(K) \in Nat
  BY RetainedFinite, LeaderboardAssumption DEF Ranked
<1>6. Cardinality(R \cup {m}) = IF m \in R THEN Cardinality(R) ELSE Cardinality(R) + 1
  BY <1>5, FS_AddElement
<1>7. K \subseteq Members /\ R \subseteq Members
  BY DEF Retained
<1>8. /\ \A n \in K : scores'[n] = IF n = m THEN x ELSE scores[n]
      /\ \A n \in R \ K : n # m => \A k \in K : scores'[k] >= scores[n]
      /\ m \notin K => \A k \in K : scores'[k] >= x
  BY <1>1, <1>2, <1>4, <1>7
<1>9. CASE K = R \cup {m}
  <2>1. m \in R \/ Cardinality(R) < Capacity
    BY <1>4, <1>5, <1>6, <1>9
  <2>2. QED
    BY <1>1, <1>4, <1>8, <1>9, <2>1 DEF ScoredBoard
<1>10. CASE K # R \cup {m}
  <2>1. Cardinality(K) = Capacity /\ m \notin R
    BY <1>4, <1>5, <1>6, <1>10
  <2>2. \E d \in R \cup {m} : d \notin K
    BY <1>4, <1>10
  <2>3. QED
    BY <1>1, <1>4, <1>8, <2>1, <2>2 DEF ScoredBoard
<1>11. QED
  BY <1>9, <1>10

\* The board after a removal: nobody else is dropped.
LEMMA RemovedTrims ==
    ASSUME BoardTypes, Ranked, NEW a \in Agents,
           AgentAt(a, "write"), Removed(a)
    PROVE  /\ agent[a].member \in Members
           /\ Retained(scores') = Retained(scores) \ {agent[a].member}
           /\ \A n \in Retained(scores') : scores'[n] = scores[n]
           /\ Cardinality(Retained(scores')) <= Capacity
<1> DEFINE m == agent[a].member
           s == [scores EXCEPT ![m] = None]
           R == Retained(scores)
<1>1. m \in Members
  BY DEF BoardTypes, AgentAt
<1>2. /\ \A n \in Members : s[n] = IF n = m THEN None ELSE scores[n]
      /\ Retained(s) = R \ {m}
  BY <1>1 DEF BoardTypes, Retained
<1>3. Trim(s, scores')
  BY DEF Removed
<1> HIDE DEF s
<1>4. /\ IsFiniteSet(R) /\ Cardinality(R) \in Nat /\ Cardinality(R) <= Capacity /\ Capacity \in Nat
      /\ Cardinality(R \ {m}) \in Nat /\ Cardinality(R \ {m}) <= Cardinality(R)
  BY RetainedFinite, FS_Subset, FS_CardinalityType, LeaderboardAssumption DEF Ranked
<1>5. Retained(scores') = R \ {m} /\ \A n \in Retained(scores') : scores'[n] = s[n]
  <2>1. /\ \A n \in Retained(scores') : scores'[n] = s[n]
        /\ Retained(scores') = Retained(s) \/ Cardinality(Retained(s)) > Capacity
    BY <1>3, TrimKeeps
  <2>2. Cardinality(Retained(s)) <= Capacity /\ Cardinality(Retained(s)) \in Nat
    BY <1>2, <1>4
  <2>3. QED
    BY <1>2, <1>4, <2>1, <2>2
<1>6. R \subseteq Members
  BY DEF Retained
<1>7. QED
  BY <1>1, <1>2, <1>4, <1>5, <1>6

--------------------------------------------------------------------------------
(* Every step keeps the invariant *)

\* A call that goes on.
LEMMA TurnsEffect ==
    ASSUME BoardTypes, NEW a \in Agents, NEW call, Turns(a, call)
    PROVE  agent'[a] = call /\ \A b \in Agents : b # a => agent'[b] = agent[b]
  BY DEF Turns, BoardTypes

\* An agent that goes on without a change of the board.
BoardQuiet(a) ==
    /\ UNCHANGED <<scores, boardHistory>>
    /\ \A b \in Agents : b # a => agent'[b] = agent[b] /\ (mu = b <=> mu' = b)
    /\ agent' \in [Agents -> BoardCalls]
    /\ ~AgentAt(a, "notify") /\ ~AgentAt(a, "notify")'
    /\ ~AgentAt(a, "off")' => agent'[a].member \in Members /\ agent'[a].op # "none"
    /\ AgentAt(a, "read")' \/ AgentAt(a, "write")' => mu' = a
    /\ AgentAt(a, "read")' => agent'[a].op = "add"
    /\ AgentAt(a, "write")' /\ agent'[a].op = "add" =>
         agent'[a].score = Normalize(Base(scores, agent'[a].member) + agent'[a].given)

\* Begin, Lock and Read are of that kind.
LEMMA BoardQuietEffect ==
    ASSUME BoardTypes, Locking, NEW a \in Agents,
           BeginCall(a) \/ LockBoard(a) \/ ReadScore(a)
    PROVE  BoardQuiet(a)
<1>1. agent[a] \in BoardCalls
  BY DEF BoardTypes
<1>2. BoardIdle \in BoardCalls /\ BoardIdle.pc = "off"
  BY DEF BoardIdle, BoardCalls
<1>3. CASE BeginCall(a)
  <2>1. PICK o \in {"set", "add", "remove"}, m \in Members, x \in Scores :
           agent' = [agent EXCEPT ![a] = [pc |-> "lock", op |-> o, member |-> m, given |-> x,
                                          score |-> Normalize(x)]]
    BY <1>3 DEF BeginCall
  <2> DEFINE call == [pc |-> "lock", op |-> o, member |-> m, given |-> x, score |-> Normalize(x)]
  <2>2. x \in Int /\ Normalize(x) \in Int
    BY NormalizeType, LeaderboardAssumption
  <2>3. call \in BoardCalls /\ call.pc = "lock" /\ call.member \in Members /\ call.op # "none"
    BY <2>2 DEF BoardCalls
  <2> HIDE DEF call
  <2>4. agent' = [agent EXCEPT ![a] = call]
    BY <2>1 DEF call
  <2>5. /\ agent'[a] = call /\ agent' \in [Agents -> BoardCalls]
        /\ \A b \in Agents : b # a => agent'[b] = agent[b]
    BY <2>3, <2>4 DEF BoardTypes
  <2>6. QED
    BY <1>3, <2>3, <2>5 DEF BeginCall, BoardQuiet, AgentAt, board, boardHistory
<1>4. CASE LockBoard(a)
  <2> DEFINE call == [agent[a] EXCEPT !.pc = IF agent[a].op = "add" THEN "read" ELSE "write"]
  <2>1. /\ call \in BoardCalls /\ call.pc = (IF agent[a].op = "add" THEN "read" ELSE "write")
        /\ call.op = agent[a].op /\ call.member = agent[a].member
    BY <1>1 DEF BoardCalls
  <2>2. agent' = [agent EXCEPT ![a] = call]
    BY <1>4 DEF LockBoard
  <2> HIDE DEF call
  <2>3. /\ agent'[a] = call /\ agent' \in [Agents -> BoardCalls]
        /\ \A b \in Agents : b # a => agent'[b] = agent[b]
    BY <2>1, <2>2 DEF BoardTypes
  <2>4. agent[a].member \in Members /\ agent[a].op # "none" /\ mu = None /\ mu' = a /\ agent[a].pc = "lock"
    BY <1>4 DEF LockBoard, BoardTypes, AgentAt
  <2>5. QED
    BY <1>4, <2>1, <2>3, <2>4, LeaderboardAssumption DEF LockBoard, BoardQuiet, AgentAt, boardHistory
<1>5. CASE ReadScore(a)
  <2> DEFINE sum == Base(scores, agent[a].member) + agent[a].given
             call == [agent[a] EXCEPT !.pc = "write", !.score = Normalize(sum)]
  <2>1. /\ agent[a].pc = "read" /\ agent[a].member \in Members /\ mu = a
        /\ agent[a].op = "add" /\ UNCHANGED <<scores, boardHistory>>
    BY <1>5 DEF ReadScore, BoardTypes, Locking, AgentAt
  <2>2. sum \in Int /\ Normalize(sum) \in Int
    BY <1>1, <2>1, NormalizeType DEF BoardTypes, Values, Base, BoardCalls
  <2>3. /\ call \in BoardCalls /\ call.pc = "write" /\ call.op = agent[a].op
        /\ call.member = agent[a].member /\ call.given = agent[a].given /\ call.score = Normalize(sum)
    BY <1>1, <2>2 DEF BoardCalls
  <2>4. \/ agent' = [agent EXCEPT ![a] = call] /\ mu' = mu
        \/ agent' = [agent EXCEPT ![a] = BoardIdle] /\ mu' = None
    BY <1>5 DEF ReadScore
  <2> HIDE DEF sum, call
  <2>5. CASE agent' = [agent EXCEPT ![a] = call] /\ mu' = mu
    <3>1. /\ agent'[a] = call /\ agent' \in [Agents -> BoardCalls]
          /\ \A b \in Agents : b # a => agent'[b] = agent[b]
      BY <2>3, <2>5 DEF BoardTypes
    <3>2. QED
      BY <2>1, <2>3, <2>5, <3>1 DEF BoardQuiet, AgentAt, sum
  <2>6. CASE agent' = [agent EXCEPT ![a] = BoardIdle] /\ mu' = None
    <3>1. /\ agent'[a] = BoardIdle /\ agent' \in [Agents -> BoardCalls]
          /\ \A b \in Agents : b # a => agent'[b] = agent[b]
      BY <1>2, <2>6 DEF BoardTypes
    <3>2. QED
      BY <1>2, <2>1, <2>6, <3>1, LeaderboardAssumption DEF BoardQuiet, AgentAt
  <2>7. QED
    BY <2>4, <2>5, <2>6
<1>6. QED
  BY <1>3, <1>4, <1>5

\* Such a step keeps the invariant.
LEMMA BoardQuietStep ==
    ASSUME BoardInv, NEW a \in Agents, BoardQuiet(a) PROVE BoardInv'
<1> USE DEF BoardInv
<1>1. UNCHANGED <<scores, best, lowered, credit, replica, raced>>
  BY DEF BoardQuiet, boardHistory
<1>2. BoardTypes'
  <2>1. \A b \in Agents : ~AgentAt(b, "off")' => agent'[b].member \in Members /\ agent'[b].op # "none"
    BY DEF BoardQuiet, BoardTypes, AgentAt
  <2>2. QED
    BY <1>1, <2>1 DEF BoardQuiet, BoardTypes
<1>3. Locking'
  <2>1. ASSUME NEW b \in Agents, b # a
        PROVE  /\ agent'[b] = agent[b] /\ (mu = b <=> mu' = b)
    BY <2>1 DEF BoardQuiet
  <2>2. QED
    BY <1>1, <2>1 DEF Locking, BoardQuiet, AgentAt
<1>4. AddsCounted' /\ Ranked'
  BY <1>1 DEF AddsCounted, Ranked
<1>5. Told'
  <2>1. \A b \in Agents, m \in Members : Telling(b, m)' <=> Telling(b, m)
    BY DEF BoardQuiet, Telling, AgentAt
  <2>2. \A b \in Agents, m \in Members : Telling(b, m) => agent'[b] = agent[b]
    BY DEF BoardQuiet, Telling
  <2>3. Retained(scores) \subseteq Members
    BY DEF Retained
  <2>4. QED
    BY <1>1, <2>1, <2>2, <2>3 DEF Told
<1>6. QED
  BY <1>2, <1>3, <1>4, <1>5

\* OnChange keeps it: the listener learns the score the member has.
LEMMA NotifyStep ==
    ASSUME BoardInv, NEW a \in Agents, Notify(a) PROVE BoardInv'
<1> USE DEF BoardInv
<1>0. agent[a] \in BoardCalls /\ BoardIdle \in BoardCalls /\ BoardIdle.pc = "off"
  BY DEF BoardTypes, BoardIdle, BoardCalls
<1>1. /\ agent'[a] = BoardIdle /\ agent' \in [Agents -> BoardCalls]
      /\ \A b \in Agents : b # a => agent'[b] = agent[b]
  BY <1>0 DEF Notify, BoardTypes
<1>2. /\ UNCHANGED <<scores, mu, best, lowered, credit, raced>>
      /\ agent[a].pc = "notify" /\ agent[a].member \in Members
  BY DEF Notify, board, BoardTypes, AgentAt
<1>3. /\ replica' \in [Members -> Values]
      /\ \A m \in Members : replica'[m] = IF m = agent[a].member THEN agent[a].score ELSE replica[m]
  BY <1>0, <1>2 DEF Notify, Change, BoardTypes, Values, BoardCalls
<1>4. BoardTypes'
  BY <1>0, <1>1, <1>2, <1>3 DEF BoardTypes, AgentAt
<1>5. Locking'
  BY <1>0, <1>1, <1>2 DEF Locking, AgentAt
<1>6. AddsCounted' /\ Ranked'
  BY <1>2 DEF AddsCounted, Ranked
<1>7. Told'
  <2>1. \A b \in Agents, m \in Members :
           /\ Telling(b, m)' <=> b # a /\ Telling(b, m)
           /\ b # a => agent'[b] = agent[b]
    BY <1>0, <1>1 DEF Telling, AgentAt
  <2>2. ASSUME NEW m \in Retained(scores) \ raced, \A b \in Agents : ~Telling(b, m)'
        PROVE  replica'[m] = scores[m]
    <3>1. m \in Members
      BY DEF Retained
    <3>2. CASE m = agent[a].member
      <4>1. Telling(a, m)
        BY <1>2, <3>2 DEF Telling, AgentAt
      <4>2. QED
        BY <1>3, <3>1, <3>2, <4>1 DEF Told
    <3>3. CASE m # agent[a].member
      <4>1. ~Telling(a, m)
        BY <3>3 DEF Telling
      <4>2. QED
        BY <1>3, <2>1, <2>2, <3>1, <3>3, <4>1 DEF Told
    <3>4. QED
      BY <3>2, <3>3
  <2>3. Retained(scores) \subseteq Members
    BY DEF Retained
  <2>4. QED
    BY <1>2, <2>1, <2>2, <2>3 DEF Told
<1>8. QED
  BY <1>4, <1>5, <1>6, <1>7

\* Who writes keeps the types, and nobody else is in a locked section.
LEMMA WriteTypes ==
    ASSUME BoardInv, NEW a \in Agents, WriteDoes(a)
    PROVE  /\ BoardTypes' /\ Locking'
           /\ \A b \in Agents : b # a => agent'[b] = agent[b]
           /\ agent'[a] = IF agent[a].op = "remove" THEN BoardIdle
                                                    ELSE [agent[a] EXCEPT !.pc = "notify"]
<1> USE DEF BoardInv
<1>1. /\ agent[a] \in BoardCalls /\ agent[a].pc = "write" /\ agent[a].member \in Members
      /\ agent[a].op # "none" /\ agent[a].score \in Int /\ mu = a
  BY DEF WriteDoes, BoardTypes, Locking, AgentAt, BoardCalls
<1> DEFINE call == IF agent[a].op = "remove" THEN BoardIdle ELSE [agent[a] EXCEPT !.pc = "notify"]
<1>2. call \in BoardCalls /\ call.pc \in {"off", "notify"}
      /\ (call.pc = "notify" =>
            call.member = agent[a].member /\ call.op = agent[a].op /\ call.op # "remove")
  BY <1>1 DEF BoardCalls, BoardIdle
<1>3. Turns(a, call)
  BY DEF WriteDoes, Scored, Removed
<1> HIDE DEF call
<1>4. /\ agent' \in [Agents -> BoardCalls] /\ agent'[a] = call
      /\ \A b \in Agents : b # a => agent'[b] = agent[b]
  BY <1>2, <1>3 DEF Turns, BoardTypes
<1>5. scores' \in [Members -> Values]
  BY DEF WriteDoes, Scored, Removed
<1>6. best' \in [Members -> Values]
  <2>1. CASE Removed(a)
    BY <2>1 DEF Removed, BoardTypes
  <2>2. CASE Scored(a)
    <3>1. Better(best[agent[a].member], agent[a].score) \in Values
      BY <1>1, HigherOfTwo DEF Better, BoardTypes, Values
    <3>2. QED
      BY <2>2, <3>1 DEF Scored, BoardTypes
  <2>3. QED
    BY <2>1, <2>2 DEF WriteDoes
<1>7. credit' \in [Members -> Values]
  <2>1. Normalize(Base(credit, agent[a].member) + agent[a].given) \in Int
    BY <1>1, NormalizeType DEF BoardTypes, Values, Base, BoardCalls
  <2>2. Due(a) \in Int
    BY <1>1, <2>1 DEF Due
  <2>3. CASE Scored(a)
    BY <2>2, <2>3 DEF Scored, BoardTypes, Values
  <2>4. CASE Removed(a)
    BY <2>1, <2>4 DEF Removed, BoardTypes, Values
  <2>5. QED
    BY <2>3, <2>4 DEF WriteDoes
<1>8. raced' \subseteq Members /\ replica' = replica /\ lowered' \in BOOLEAN /\ mu' = None
  BY <1>1 DEF WriteDoes, BoardTypes
<1>9. BoardTypes'
  BY <1>1, <1>2, <1>4, <1>5, <1>6, <1>7, <1>8 DEF BoardTypes, AgentAt
<1>10. Locking'
  <2>1. \A b \in Agents : b # a => agent'[b] = agent[b] /\ ~AgentAt(b, "read") /\ ~AgentAt(b, "write")
    BY <1>1, <1>4 DEF Locking
  <2>2. QED
    BY <1>2, <1>4, <2>1 DEF Locking, AgentAt
<1>11. QED
  BY <1>4, <1>9, <1>10 DEF call

\* The sum that is written is the one that is due.
LEMMA CreditStep ==
    ASSUME BoardInv, NEW a \in Agents,
           WriteDoes(a)
    PROVE  AddsCounted'
<1> USE DEF BoardInv
<1>1. agent[a].pc = "write" /\ agent[a].member \in Members /\ credit = scores
  BY DEF WriteDoes, BoardTypes, AgentAt, AddsCounted
<1>2. scores' \in [Members -> Values] /\ credit' \in [Members -> Values]
  BY WriteTypes DEF BoardTypes
<1>3. CASE Scored(a)
  <2>1. Due(a) = agent[a].score
    <3>1. CASE agent[a].op = "set"
      BY <3>1 DEF Due
    <3>2. CASE agent[a].op = "add"
      BY <1>1, <3>2 DEF Due, Locking, AgentAt
    <3>3. agent[a].op \in {"set", "add"}
      <4>1. agent[a] \in BoardCalls /\ agent[a].op # "none"
        BY <1>1 DEF BoardTypes, AgentAt
      <4>2. agent[a].op # "remove"
        BY <1>3 DEF Scored
      <4>3. QED
        BY <4>1, <4>2 DEF BoardCalls
    <3>4. QED
      BY <3>1, <3>2, <3>3
  <2>2. \A n \in Retained(scores') : scores'[n] = IF n = agent[a].member THEN agent[a].score
                                                            ELSE scores[n]
    BY <1>3, ScoredTrims DEF ScoredBoard, WriteDoes
  <2>3. \A n \in Members : credit'[n] = IF scores'[n] = None THEN None
                                        ELSE IF n = agent[a].member THEN Due(a) ELSE credit[n]
    BY <1>3 DEF Scored
  <2>4. \A n \in Members : credit'[n] = scores'[n]
    BY <1>1, <2>1, <2>2, <2>3 DEF Retained
  <2>5. QED
    BY <1>2, <2>4 DEF AddsCounted
<1>4. CASE Removed(a)
  <2>1. /\ Retained(scores') = Retained(scores) \ {agent[a].member}
        /\ \A n \in Retained(scores') : scores'[n] = scores[n]
    BY <1>4, RemovedTrims DEF WriteDoes
  <2>2. \A n \in Members : credit'[n] =
          IF scores'[n] = None THEN None
          ELSE IF n = agent[a].member
          THEN Normalize(Base(credit, agent[a].member) + agent[a].given)
          ELSE credit[n]
    BY <1>4 DEF Removed
  <2>3. \A n \in Members : credit'[n] = scores'[n]
    BY <1>1, <2>1, <2>2 DEF Retained
  <2>4. QED
    BY <1>2, <2>3 DEF AddsCounted
<1>5. QED
  BY <1>3, <1>4 DEF WriteDoes

\* The board stays ranked.
LEMMA RankedStep ==
    ASSUME BoardInv, NEW a \in Agents, WriteDoes(a) PROVE Ranked'
<1> USE DEF BoardInv
<1> DEFINE m == agent[a].member
           x == agent[a].score
           R == Retained(scores)
           K == Retained(scores')
<1>0. /\ R \subseteq Members /\ K \subseteq Members
      /\ Cardinality(R) \in Nat /\ Cardinality(K) \in Nat /\ Capacity \in Nat
      /\ Cardinality(R) <= Capacity
  BY RetainedFinite, LeaderboardAssumption DEF Retained, Ranked
<1>f. /\ \A n \in R : scores[n] \in Int
      /\ \A n \in K : scores'[n] \in Int
      /\ \A n \in Members : best[n] = None \/ best[n] \in Int
  BY WriteTypes DEF BoardTypes, Values, Retained
<1>1. CASE Removed(a)
  <2>1. m \in Members /\ K = R \ {m} /\ (\A n \in K : scores'[n] = scores[n]) /\ Cardinality(K) <= Capacity
    BY <1>1, RemovedTrims DEF WriteDoes
  <2>2. CASE lowered'
    BY <2>1, <2>2 DEF Ranked
  <2>3. CASE ~lowered'
    <3>1. ~lowered /\ m \notin R /\ best' = best
      BY <1>1, <2>1, <2>3 DEF WriteDoes, Removed, Retained
    <3>2. K = R
      BY <2>1, <3>1
    <3>3. QED
      BY <2>1, <2>3, <3>1, <3>2 DEF Ranked
  <2>4. QED
    BY <2>2, <2>3
<1>2. CASE Scored(a)
  <2>1. ScoredBoard(a)
    BY <1>2, ScoredTrims DEF WriteDoes
  <2>2. /\ m \in Members /\ x \in Int /\ K \subseteq R \cup {m} /\ Cardinality(K) <= Capacity
        /\ \A n \in K : scores'[n] = IF n = m THEN x ELSE scores[n]
        /\ \A n \in R \ K : n # m => \A k \in K : scores'[k] >= scores[n]
        /\ m \notin K => \A k \in K : scores'[k] >= x
        /\ \/ K = R \cup {m} /\ (m \in R \/ Cardinality(R) < Capacity)
           \/ /\ m \notin R /\ Cardinality(K) = Capacity
              /\ \E d \in R \cup {m} : d \notin K
    BY <2>1 DEF ScoredBoard
  <2>3. CASE lowered'
    BY <2>2, <2>3 DEF Ranked
  <2>4. CASE ~lowered'
    <3>1. ~lowered /\ (m \in R => scores[m] <= x)
      <4>1. ~lowered /\ ~(scores[m] # None /\ x < scores[m])
        BY <1>2, <2>4 DEF WriteDoes, Scored
      <4>2. QED
        BY <1>f, <2>2, <4>1 DEF Retained
    <3>2. /\ \A n \in R : best[n] \in Int /\ best[n] <= scores[n]
          /\ \A k \in R, n \in Members \ R : best[n] = None \/ (best[n] \in Int /\ best[n] <= scores[k])
          /\ Cardinality(R) < Capacity => \A n \in Members \ R : best[n] = None
      BY <1>0, <1>f, <3>1 DEF Ranked
    <3>3. /\ \A n \in Members : n # m => best'[n] = best[n]
          /\ best'[m] = Better(best[m], x)
      BY <1>2, <2>2 DEF Scored, BoardTypes
    <3>4. \/ best[m] = None /\ best'[m] = x
          \/ best[m] \in Int /\ best'[m] \in Int /\ best'[m] = IF best[m] >= x THEN best[m] ELSE x
      BY <1>f, <2>2, <3>3, HigherOfTwo DEF Better
    <3>5. CASE K = R \cup {m} /\ (m \in R \/ Cardinality(R) < Capacity)
      <4>1. best[m] = None \/ best[m] <= x
        BY <1>f, <2>2, <3>1, <3>2, <3>5
      <4>2. best'[m] = x
        <5>1. CASE best[m] = None
          BY <3>4, <5>1, LeaderboardAssumption
        <5>2. CASE best[m] # None
          <6>1. best[m] \in Int /\ best[m] <= x /\ x \in Int
            BY <2>2, <3>4, <4>1, <5>2
          <6>2. best'[m] = IF best[m] >= x THEN best[m] ELSE x
            BY <3>4, <5>2
          <6>3. QED
            BY <6>1, <6>2
        <5>3. QED
          BY <5>1, <5>2
      <4>3. \A k \in K, n \in Members \ K : best[n] = None \/ best[n] <= scores'[k]
        BY <1>f, <2>2, <3>1, <3>2, <3>5
      <4>4. \A k \in K : best'[k] # None /\ best'[k] <= scores'[k]
        BY <1>0, <2>2, <3>2, <3>3, <3>5, <4>2, LeaderboardAssumption
      <4>5. Cardinality(K) < Capacity => \A n \in Members \ K : best'[n] = None
        <5>1. ASSUME Cardinality(K) < Capacity PROVE Cardinality(R) < Capacity
          <6>1. CASE m \in R
            <7>1. K = R
              BY <3>5, <6>1
            <7>2. QED
              BY <5>1, <7>1
          <6>2. CASE m \notin R
            BY <3>5, <6>2
          <6>3. QED
            BY <6>1, <6>2
        <5>2. QED
          BY <3>2, <3>3, <3>5, <5>1
      <4>6. QED
        BY <2>2, <3>3, <3>5, <4>3, <4>4, <4>5 DEF Ranked
    <3>6. ASSUME m \notin R, Cardinality(K) = Capacity, NEW d \in R \cup {m}, d \notin K PROVE Ranked'
      <4>1. \A k \in K : k # m => k \in R
        BY <2>2
      <4>2. \A k \in K : best'[k] # None /\ best'[k] <= scores'[k]
        <5>1. CASE m \in K
          <6>1. d \in R /\ d # m /\ scores[d] <= x
            BY <2>2, <3>6, <5>1
          <6>2. best[m] = None \/ (best[m] \in Int /\ best[m] <= x)
            BY <1>f, <2>2, <3>2, <3>6, <6>1
          <6>3. best'[m] = x
            <7>1. CASE best[m] = None
              BY <3>4, <7>1, LeaderboardAssumption
            <7>2. CASE best[m] # None
              <8>1. best[m] \in Int /\ best[m] <= x /\ x \in Int
                BY <2>2, <3>4, <6>2, <7>2
              <8>2. best'[m] = IF best[m] >= x THEN best[m] ELSE x
                BY <3>4, <7>2
              <8>3. QED
                BY <8>1, <8>2
            <7>3. QED
              BY <7>1, <7>2
          <6>4. QED
            BY <1>0, <2>2, <3>2, <3>3, <4>1, <6>3, LeaderboardAssumption
        <5>2. CASE m \notin K
          BY <1>0, <2>2, <3>2, <3>3, <4>1, <5>2, LeaderboardAssumption
        <5>3. QED
          BY <5>1, <5>2
      <4>3. ASSUME NEW k \in K, NEW n \in Members \ K
            PROVE  best'[n] = None \/ best'[n] <= scores'[k]
        <5>1. scores'[k] \in Int
          BY <1>f
        <5>2. CASE n \in R
          <6>1. n # m /\ scores[n] <= scores'[k] /\ best[n] \in Int /\ best[n] <= scores[n] /\ scores[n] \in Int
            BY <1>f, <2>2, <3>2, <3>6, <5>2
          <6>2. QED
            BY <3>3, <5>1, <6>1
        <5>3. CASE n \notin R /\ n # m
          <6>1. best'[n] = best[n]
            BY <3>3, <5>3
          <6>2. CASE k # m
            BY <2>2, <3>2, <4>1, <5>3, <6>1, <6>2
          <6>3. CASE k = m
            <7>1. d \in R /\ scores[d] <= scores'[k] /\ scores[d] \in Int
              BY <1>f, <2>2, <3>6, <6>3
            <7>2. QED
              BY <3>2, <5>1, <5>3, <6>1, <7>1
          <6>4. QED
            BY <6>2, <6>3
        <5>4. CASE n = m
          <6>1. k # m /\ k \in R /\ scores'[k] = scores[k] /\ x <= scores'[k]
            BY <2>2, <4>1, <5>4
          <6>2. best[m] = None \/ (best[m] \in Int /\ best[m] <= scores'[k])
            BY <2>2, <3>2, <3>6, <6>1
          <6>3. QED
            BY <2>2, <3>4, <5>1, <5>4, <6>1, <6>2
        <5>5. QED
          BY <5>2, <5>3, <5>4
      <4>4. QED
        BY <1>0, <2>2, <3>6, <4>2, <4>3 DEF Ranked
    <3>7. QED
      BY <2>2, <3>5, <3>6
  <2>5. QED
    BY <2>3, <2>4
<1>3. QED
  BY <1>1, <1>2 DEF WriteDoes

\* What is to be told is what the member has.
LEMMA ToldStep ==
    ASSUME BoardInv, NEW a \in Agents, WriteDoes(a) PROVE Told'
<1> USE DEF BoardInv
<1> DEFINE m == agent[a].member
<1>1. /\ agent[a] \in BoardCalls /\ agent[a].pc = "write" /\ m \in Members
  BY DEF WriteDoes, BoardTypes, AgentAt
<1>2. /\ \A b \in Agents : b # a => agent'[b] = agent[b]
      /\ agent'[a] = IF agent[a].op = "remove" THEN BoardIdle
                                               ELSE [agent[a] EXCEPT !.pc = "notify"]
  BY WriteTypes
<1>3. \A b \in Agents, n \in Members :
         Telling(b, n)' <=> IF b = a THEN n = m /\ agent[a].op # "remove" ELSE Telling(b, n)
  BY <1>1, <1>2 DEF Telling, AgentAt, BoardIdle, BoardCalls
<1>4. /\ raced \subseteq raced' /\ replica' = replica
      /\ m \notin raced' => \A b \in Agents \ {a} : ~Telling(b, m)
  BY DEF WriteDoes, Telling
<1>5. ASSUME NEW n \in Members \ raced', NEW b \in Agents, NEW c \in Agents,
             Telling(b, n)', Telling(c, n)'
      PROVE  b = c
  BY <1>3, <1>4, <1>5 DEF Told
<1>6. ASSUME NEW n \in Retained(scores') \ raced'
      PROVE  /\ \A b \in Agents : Telling(b, n)' => agent'[b].score = scores'[n]
             /\ (\A b \in Agents : ~Telling(b, n)') => replica'[n] = scores'[n]
  <2>0. n \in Members
    BY DEF Retained
  <2>1. CASE Removed(a)
    <3>1. agent[a].op = "remove" /\ n # m /\ n \in Retained(scores) /\ scores'[n] = scores[n]
      BY <2>1, RemovedTrims DEF WriteDoes, Removed
    <3>2. QED
      <4>1. n \in Retained(scores) \ raced
        BY <1>4, <1>6, <3>1
      <4>2. \A b \in Agents : Telling(b, n)' => Telling(b, n) /\ agent'[b] = agent[b]
        BY <1>2, <1>3, <2>0, <3>1
      <4>3. \A b \in Agents : Telling(b, n) => Telling(b, n)'
        BY <1>1, <1>3, <2>0 DEF Telling, AgentAt
      <4>4. QED
        BY <1>4, <3>1, <4>1, <4>2, <4>3 DEF Told
  <2>2. CASE Scored(a)
    <3>1. /\ agent[a].op # "remove" /\ n \in Retained(scores) \cup {m}
          /\ scores'[n] = IF n = m THEN agent[a].score ELSE scores[n]
      BY <2>2, ScoredTrims DEF WriteDoes, Scored, ScoredBoard
    <3>2. agent'[a].score = agent[a].score
      BY <1>1, <1>2, <3>1 DEF BoardCalls
    <3>3. CASE n = m
      BY <1>3, <1>4, <1>6, <2>0, <3>1, <3>2, <3>3
    <3>4. CASE n # m
      <4>1. n \in Retained(scores) \ raced /\ scores'[n] = scores[n]
        BY <1>4, <1>6, <3>1, <3>4
      <4>2. \A b \in Agents : Telling(b, n)' => Telling(b, n) /\ agent'[b] = agent[b]
        BY <1>2, <1>3, <2>0, <3>4
      <4>3. \A b \in Agents : Telling(b, n) => Telling(b, n)'
        BY <1>1, <1>3, <2>0 DEF Telling, AgentAt
      <4>4. QED
        BY <1>4, <4>1, <4>2, <4>3 DEF Told
    <3>5. QED
      BY <3>3, <3>4
  <2>3. QED
    BY <2>1, <2>2 DEF WriteDoes
<1>7. QED
  BY <1>5, <1>6 DEF Told

\* The invariant holds at first.
LEMMA BoardStarts == ASSUME BoardInit PROVE BoardInv
<1>1. Retained(scores) = {} /\ Cardinality(Retained(scores)) = 0
  <2>1. Retained(scores) = {}
    BY DEF BoardInit, Retained
  <2>2. QED
    BY <2>1, FS_EmptySet
<1>2. BoardIdle \in BoardCalls /\ BoardIdle.pc = "off"
  BY DEF BoardIdle, BoardCalls
<1>3. BoardTypes /\ Locking
  BY <1>2 DEF BoardInit, BoardTypes, Locking, Values, AgentAt
<1>4. AddsCounted
  BY DEF BoardInit, AddsCounted
<1>5. Ranked
  BY <1>1, LeaderboardAssumption DEF BoardInit, Ranked
<1>6. Told
  BY <1>1, <1>2 DEF BoardInit, Told, Telling, AgentAt
<1>7. QED
  BY <1>3, <1>4, <1>5, <1>6 DEF BoardInv

\* Every step keeps it.
LEMMA BoardGoesOn ==
    ASSUME BoardInv, [BoardNext]_boardVars PROVE BoardInv'
<1>1. ASSUME NEW a \in Agents, BeginCall(a) \/ LockBoard(a) \/ ReadScore(a) PROVE BoardInv'
  BY <1>1, BoardQuietEffect, BoardQuietStep DEF BoardInv
<1>2. ASSUME NEW a \in Agents, WriteScore(a) PROVE BoardInv'
  <2>1. WriteDoes(a)
    BY <1>2, WriteEffect DEF BoardInv
  <2>2. QED
    BY <2>1, WriteTypes, CreditStep, RankedStep, ToldStep DEF BoardInv
<1>3. ASSUME NEW a \in Agents, Notify(a) PROVE BoardInv'
  BY <1>3, NotifyStep
<1>4. CASE UNCHANGED boardVars
  BY <1>4 DEF boardVars, board, boardHistory, BoardInv, BoardTypes,
     Locking, AddsCounted, Ranked, Told, AgentAt, Telling
<1>5. QED
  BY <1>1, <1>2, <1>3, <1>4 DEF BoardNext

\* The board holds the highest scores there have been as long as nobody on it was lowered or
\* removed, no Add is lost, and a listener that copies the changes agrees with the board.
THEOREM BoardIsFaithful == BoardSpec => []BoardFaithful
<1>1. BoardInit => BoardInv
  BY BoardStarts
<1>2. BoardInv /\ [BoardNext]_boardVars => BoardInv'
  BY BoardGoesOn
<1>3. BoardInv => BoardFaithful
  <2> SUFFICES ASSUME BoardInv PROVE BoardFaithful
    OBVIOUS
  <2>1. HighestRetained
    BY DEF BoardInv, Ranked, HighestRetained
  <2>2. ReplicaAgrees
    BY DEF BoardInv, Told, Telling, ReplicaAgrees
  <2>3. QED
    BY <2>1, <2>2 DEF BoardFaithful, BoardInv
<1>4. QED
  BY <1>1, <1>2, <1>3, PTL DEF BoardSpec

--------------------------------------------------------------------------------
(* The reloads of an entry *)

Places == {"off", "lookup", "isAlive", "isFresh", "setAt", "start", "load", "finish", "lock",
           "prepare", "publish", "cancel", "wait", "done"}

CallerSet == [pc : Places, op : ReloadOperations \cup {"none"}, since : Nat,
              old : Versions \cup {None}, call : Callers \cup {None}, isRefresh : BOOLEAN,
              outcome : {"none", "value", "notFound", "error"}, late : BOOLEAN]

RefreshTypes ==
    /\ today \in 0..MaxToday
    /\ shown \in Versions \cup {None}
    /\ refreshableAt \in [Versions -> Nat]
    /\ bucket \in Callers \cup {None} /\ inFlight \in Callers \cup {None}
    /\ finished \subseteq Callers
    /\ caller \in [Callers -> CallerSet]
    /\ origin \in [Versions -> [from : Nat, to : Nat]]
    /\ moved \in [Versions -> SUBSET Nat]
    /\ replaced \in [Callers -> Versions \cup {None}]

--------------------------------------------------------------------------------
(* The inductive invariant *)

\* Whoever was to install this version has done so, or never will.
Passed(v) == v \in Callers => caller[v].pc \in {"cancel", "done"}

\* What is in the map, and what was read from it, had been installed.
VersionsPassed ==
    /\ shown # None => Passed(shown)
    /\ \A a \in Callers : caller[a].old # None => Passed(caller[a].old)

BucketSound == \A a \in Callers : caller[a].pc \in {"prepare", "publish"} <=> bucket = a

\* Those who have a call: to have registered it, to write, or to have joined another's.
Loading == {"load", "finish", "prepare", "publish", "cancel", "done"}

CallerSound(a) ==
    LET c == caller[a]
    IN  /\ c.since <= today
        /\ c.pc \in {"off", "lookup", "isAlive", "isFresh", "setAt", "start", "lock"} => c.call = None
        /\ c.pc \in {"off", "lookup", "lock"} => c.old = None
        /\ c.pc \in {"isAlive", "isFresh", "setAt"} => c.old # None
        /\ c.pc \in {"lookup", "isAlive", "isFresh", "setAt", "start", "load", "finish", "cancel", "wait"} =>
             ~Writes(a)
        /\ c.pc = "lock" => Writes(a)
        /\ Writes(a) => c.call = None /\ c.outcome = "none"
        /\ c.pc \in Loading \ {"done"} /\ ~Writes(a) => c.call = a
        /\ c.pc = "wait" => c.call \notin {a, None}
        /\ c.pc \in {"prepare", "publish"} => c.outcome # "error"

\* A call that somebody waits for, or has waited for.
JoinedSound(a) ==
    LET c == caller[a].call
    IN  c # None => /\ caller[c].pc \in Loading /\ caller[c].call = c
                    /\ caller[a].pc = "done" => caller[c].pc = "done"

CallersSound ==
    /\ \A a \in Callers : CallerSound(a) /\ JoinedSound(a)
    /\ \A a \in finished : caller[a].pc = "done"
    /\ inFlight # None => caller[inFlight].pc \in {"load", "finish"}

\* RefreshAnswered made inductive: as long as the call that a has made or joined has not come to an
\* end, it is registered or a writer that has cancelled it is about to replace the version.
Answered(a) ==
    LET c == caller[a].call
    IN  c # None /\ caller[a].old # None =>
          \/ shown # caller[a].old
          \/ caller[c].outcome = "error" /\ caller[c].pc \in {"cancel", "done"}
          \/ caller[c].pc \in {"prepare", "publish"}
          \/ /\ caller[c].pc \in {"load", "finish"}
             /\ inFlight = c \/ \E w \in Callers : CallerAt(w, "publish")

AllAnswered == \A a \in Callers : Answered(a)

\* DeadlinesRight for any version, and for one about to be shown.
Right(v) ==
    \/ refreshableAt[v] \in moved[v]
    \/ \E t \in origin[v].from..origin[v].to : refreshableAt[v] = t + Period

AllRight ==
    /\ shown # None => Right(shown)
    /\ \A a \in Callers : CallerAt(a, "publish") /\ ~Removes(a) =>
         IF Kept THEN Right(a)
         ELSE refreshableAt[a] = caller[a].since + Period /\ origin[a].from = caller[a].since

\* ReplacesWhatItRead made inductive: a call that was registered in time and still counts
\* will replace what it was given.
Timely(a) ==
    /\ inFlight = a /\ ~caller[a].late =>
         /\ shown = caller[a].old
         /\ \A b \in Callers : ~CallerAt(b, "publish") /\ (CallerAt(b, "prepare") => Writes(b))
    /\ caller[a].pc \in {"prepare", "publish"} /\ ~Writes(a) =>
         caller[a].late \/ shown = caller[a].old
    /\ replaced[a] # a => /\ Passed(a)
                          /\ ~Writes(a) => caller[a].late \/ replaced[a] = caller[a].old

AllTimely == \A a \in Callers : Timely(a)

RefreshInv == RefreshTypes /\ VersionsPassed /\ BucketSound /\ CallersSound /\ AllAnswered
              /\ AllRight /\ AllTimely

--------------------------------------------------------------------------------
(* One action at a time *)

\* Nobody but a has changed, and a goes on with the same operation.
Only(a) ==
    /\ caller' \in [Callers -> CallerSet]
    /\ \A b \in Callers \ {a} : caller'[b] = caller[b]
    /\ \A b \in Callers : caller'[b].op = caller[b].op /\ (Writes(b)' <=> Writes(b))

LEMMA OnlyOne ==
    ASSUME RefreshTypes, NEW a \in Callers, NEW c \in CallerSet, c.op = caller[a].op,
           caller' = [caller EXCEPT ![a] = c]
    PROVE  Only(a) /\ caller'[a] = c
<1>1. caller' \in [Callers -> CallerSet] /\ caller'[a] = c /\ \A b \in Callers \ {a} : caller'[b] = caller[b]
  BY DEF RefreshTypes
<1>2. \A b \in Callers : caller'[b].op = caller[b].op
  BY <1>1
<1>3. QED
  BY <1>1, <1>2 DEF Only, Writes

\* Those who neither load nor hold the bucket.
Apart == {"off", "lookup", "isAlive", "isFresh", "setAt", "start", "lock", "wait"}

\* A step of one of them that changes nothing else, and no call.
ApartStep(a) ==
    /\ Only(a) /\ caller[a].pc \in Apart /\ caller'[a].pc \in Apart \cup {"done"}
    /\ UNCHANGED <<today, rule, shown, bucket, inFlight, finished, origin, replaced>>
    /\ caller'[a].call = caller[a].call
    /\ caller'[a].old \in {None, shown, caller[a].old}
    /\ caller[a].call # None => caller'[a].old = caller[a].old
    /\ CallerSound(a)' /\ JoinedSound(a)'

\* Nobody waits for one of them, and it is not registered.
LEMMA NobodyWaits ==
    ASSUME RefreshInv, NEW a \in Callers, caller[a].pc \in Apart
    PROVE  /\ \A b \in Callers : caller[b].call # a
           /\ a \notin finished /\ inFlight # a /\ bucket # a
           /\ \A v \in Versions : Passed(v) => v # a
<1>1. \A b \in Callers : CallerSound(b) /\ JoinedSound(b)
  BY DEF RefreshInv, CallersSound
<1>2. CallerSound(a)
  BY <1>1
<1>3. a # None
  BY RefreshAssumption
<1>4. ASSUME NEW b \in Callers, caller[b].call = a PROVE FALSE
  BY <1>1, <1>3, <1>4 DEF JoinedSound, Apart, Loading
<1>5. a \notin finished /\ inFlight # a /\ bucket # a
  BY <1>3 DEF RefreshInv, CallersSound, BucketSound, Apart
<1>6. \A v \in Versions : Passed(v) => v # a
  BY DEF Passed, Apart
<1>7. QED
  BY <1>4, <1>5, <1>6

LEMMA ApartCalls ==
    ASSUME RefreshInv, NEW a \in Callers, ApartStep(a)
    PROVE  VersionsPassed' /\ BucketSound' /\ CallersSound' /\ AllAnswered' /\ AllTimely'
<1>1. /\ \A b \in Callers : caller[b].call # a
      /\ a \notin finished /\ inFlight # a /\ bucket # a
      /\ \A v \in Versions : Passed(v) => v # a
  BY NobodyWaits DEF ApartStep
<1>2. \A b \in Callers \ {a} : caller'[b] = caller[b]
  BY DEF ApartStep, Only
<1>3. /\ \A b \in Callers : caller[b].old \in Versions \cup {None} /\ caller[b].call \in Callers \cup {None}
      /\ shown \in Versions \cup {None}
  BY DEF RefreshInv, RefreshTypes, CallerSet
<1>4. \A v \in Versions : Passed(v) => Passed(v)'
  BY <1>1, <1>2 DEF Passed
<1>5. VersionsPassed'
  BY <1>2, <1>3, <1>4 DEF VersionsPassed, ApartStep, RefreshInv
<1>6. BucketSound'
  BY <1>1, <1>2 DEF BucketSound, ApartStep, RefreshInv, Apart
<1>7. CallersSound'
  <2>1. ASSUME NEW b \in Callers \ {a} PROVE CallerSound(b)' /\ JoinedSound(b)'
    <3>1. CallerSound(b) /\ JoinedSound(b)
      BY DEF RefreshInv, CallersSound
    <3>2. /\ caller'[b] = caller[b] /\ caller[b].call # a /\ today' = today /\ (Writes(b)' <=> Writes(b))
          /\ caller[b].call \in Callers => caller'[caller[b].call] = caller[caller[b].call]
      BY <1>1, <1>2 DEF ApartStep, Only
    <3>3. CallerSound(b)'
      BY <3>1, <3>2 DEF CallerSound
    <3>4. JoinedSound(b)'
      BY <1>3, <3>1, <3>2 DEF JoinedSound
    <3>5. QED
      BY <3>3, <3>4
  <2>2. CallerSound(a)' /\ JoinedSound(a)'
    BY DEF ApartStep
  <2>3. /\ \A b \in finished : b \in Callers \ {a} /\ caller[b].pc = "done"
        /\ inFlight # None => inFlight \in Callers \ {a} /\ caller[inFlight].pc \in {"load", "finish"}
    BY <1>1 DEF RefreshInv, RefreshTypes, CallersSound
  <2>4. QED
    BY <1>2, <2>1, <2>2, <2>3 DEF CallersSound, ApartStep
<1>8. AllAnswered'
  <2> SUFFICES ASSUME NEW b \in Callers, caller'[b].call # None, caller'[b].old # None PROVE Answered(b)'
    BY DEF AllAnswered, Answered
  <2>1. /\ caller'[b].call = caller[b].call /\ caller'[b].old = caller[b].old
        /\ caller[b].call \in Callers \ {a} /\ caller'[caller[b].call] = caller[caller[b].call]
    BY <1>1, <1>2, <1>3 DEF ApartStep
  <2>2. Answered(b)
    BY DEF RefreshInv, AllAnswered
  <2>3. \A w \in Callers : CallerAt(w, "publish") => CallerAt(w, "publish")'
    BY <1>2 DEF CallerAt, ApartStep, Apart
  <2>4. QED
    BY <2>1, <2>2, <2>3 DEF Answered, ApartStep
<1>9. AllTimely'
  <2> SUFFICES ASSUME NEW b \in Callers PROVE Timely(b)'
    BY DEF AllTimely
  <2>1. Timely(b)
    BY DEF RefreshInv, AllTimely
  <2>2. \A w \in Callers : /\ CallerAt(w, "publish")' => CallerAt(w, "publish")
                           /\ CallerAt(w, "prepare")' => CallerAt(w, "prepare")
    BY <1>2 DEF CallerAt, ApartStep, Apart
  <2>3. CASE b # a
    <3>1. caller'[b] = caller[b] /\ (Passed(b)' <=> Passed(b))
      BY <1>2, <2>3 DEF Passed
    <3>2. \A w \in Callers : Writes(w)' <=> Writes(w)
      BY DEF ApartStep, Only
    <3>3. QED
      BY <2>1, <2>2, <3>1, <3>2 DEF Timely, ApartStep
  <2>4. CASE b = a
    <3>1. replaced[a] = a
      BY <2>1, <2>4 DEF Timely, Passed, ApartStep, Apart
    <3>2. QED
      BY <1>1, <2>4, <3>1 DEF Timely, ApartStep, Apart
  <2>5. QED
    BY <2>3, <2>4
<1>10. QED
  BY <1>5, <1>6, <1>7, <1>8, <1>9

LEMMA ApartTables ==
    ASSUME RefreshInv, NEW a \in Callers, ApartStep(a), UNCHANGED <<refreshableAt, moved>>
    PROVE  RefreshInv'
<1>1. /\ \A b \in Callers : caller[b].call # a
      /\ a \notin finished /\ inFlight # a /\ bucket # a
      /\ \A v \in Versions : Passed(v) => v # a
  BY NobodyWaits DEF ApartStep
<1>2. /\ \A b \in Callers \ {a} : caller'[b] = caller[b]
      /\ \A b \in Callers : (Writes(b)' <=> Writes(b))
  BY DEF ApartStep, Only
<1>3. RefreshTypes'
  BY DEF RefreshInv, RefreshTypes, ApartStep, Only
<1>4. AllRight'
  <2>1. \A b \in Callers : CallerAt(b, "publish")' => b # a /\ CallerAt(b, "publish") /\ caller'[b] = caller[b]
                                                   /\ (Removes(b)' <=> Removes(b))
    BY <1>2 DEF ApartStep, Apart, CallerAt, Removes
  <2>2. \A v : Right(v) <=> Right(v)'
    BY DEF Right, ApartStep
  <2>3. Kept <=> Kept'
    BY DEF Kept, ApartStep
  <2>4. QED
    BY <2>1, <2>2, <2>3 DEF AllRight, RefreshInv, ApartStep
<1>5. QED
  BY <1>3, <1>4, ApartCalls DEF RefreshInv

\* An operation looks at the clock.
LEMMA BeginCallerStep ==
    ASSUME RefreshInv, NEW a \in Callers, BeginCaller(a) PROVE RefreshInv'
<1> DEFINE c == [caller[a] EXCEPT !.since = today, !.pc = IF Writes(a) THEN "lock" ELSE "lookup"]
<1>1. caller[a] \in CallerSet /\ shown \in Versions \cup {None} /\ caller \in [Callers -> CallerSet]
      /\ today \in Nat
  BY RefreshAssumption DEF RefreshInv, RefreshTypes
<1>2. CallerSound(a) /\ JoinedSound(a)
  BY DEF RefreshInv, CallersSound
<1>3. c \in CallerSet /\ c.op = caller[a].op
  BY <1>1 DEF CallerSet, Places
<1>4. caller' = [caller EXCEPT ![a] = c]
  BY <1>1 DEF BeginCaller, CallerSet, CallerGoes
<1>5. Only(a) /\ caller'[a] = c
  BY <1>3, <1>4, OnlyOne DEF RefreshInv
<1>6. CallerSound(a)' /\ JoinedSound(a)'
  BY <1>1, <1>2, <1>5 DEF CallerSound, JoinedSound, BeginCaller, CallerAt, Writes, Only, CallerSet, Loading, ReloadOperations
<1>7. ApartStep(a)
  BY <1>1, <1>2, <1>5, <1>6 DEF ApartStep, BeginCaller, CallerAt, Apart, CallerSet, CallerSound, reloadTables, reloadHistory
<1>8. QED
  BY <1>7, ApartTables DEF BeginCaller, reloadTables, reloadHistory

\* An operation looks into the map.
LEMMA LookupVersionStep ==
    ASSUME RefreshInv, NEW a \in Callers, LookupVersion(a) PROVE RefreshInv'
<1> DEFINE c == [caller[a] EXCEPT
         !.old = shown,
         !.isRefresh = caller[a].op = "refresh" \/ shown # None,
         !.pc = IF caller[a].op = "setRefreshableAfter"
                THEN IF shown = None THEN "done" ELSE "setAt"
                ELSE IF shown = None THEN "start" ELSE "isAlive"]
<1>1. caller[a] \in CallerSet /\ shown \in Versions \cup {None} /\ caller \in [Callers -> CallerSet]
      /\ today \in Nat
  BY RefreshAssumption DEF RefreshInv, RefreshTypes
<1>2. CallerSound(a) /\ JoinedSound(a)
  BY DEF RefreshInv, CallersSound
<1>3. c \in CallerSet /\ c.op = caller[a].op
  BY <1>1 DEF CallerSet, Places
<1>4. caller' = [caller EXCEPT ![a] = c]
  BY <1>1 DEF LookupVersion, CallerSet, CallerGoes
<1>5. Only(a) /\ caller'[a] = c
  BY <1>3, <1>4, OnlyOne DEF RefreshInv
<1>6. CallerSound(a)' /\ JoinedSound(a)'
  BY <1>1, <1>2, <1>5 DEF CallerSound, JoinedSound, LookupVersion, CallerAt, Writes, Only, CallerSet, Loading, ReloadOperations
<1>7. ApartStep(a)
  BY <1>1, <1>2, <1>5, <1>6 DEF ApartStep, LookupVersion, CallerAt, Apart, CallerSet, CallerSound, reloadTables, reloadHistory
<1>8. QED
  BY <1>7, ApartTables DEF LookupVersion, reloadTables, reloadHistory

\* It looks whether its version is alive.
LEMMA CheckAliveStep ==
    ASSUME RefreshInv, NEW a \in Callers, CheckAlive(a) PROVE RefreshInv'
<1> DEFINE c == [caller[a] EXCEPT
         !.old = IF caller[a].op = "refresh" /\ caller[a].old \in retired THEN None ELSE @,
         !.pc = IF caller[a].op = "refresh" \/ caller[a].old \in retired THEN "start" ELSE "isFresh"]
<1>1. caller[a] \in CallerSet /\ shown \in Versions \cup {None} /\ caller \in [Callers -> CallerSet]
      /\ today \in Nat
  BY RefreshAssumption DEF RefreshInv, RefreshTypes
<1>2. CallerSound(a) /\ JoinedSound(a)
  BY DEF RefreshInv, CallersSound
<1>3. c \in CallerSet /\ c.op = caller[a].op
  BY <1>1 DEF CallerSet, Places
<1>4. caller' = [caller EXCEPT ![a] = c]
  BY <1>1 DEF CheckAlive, CallerSet, CallerGoes
<1>5. Only(a) /\ caller'[a] = c
  BY <1>3, <1>4, OnlyOne DEF RefreshInv
<1>6. CallerSound(a)' /\ JoinedSound(a)'
  BY <1>1, <1>2, <1>5 DEF CallerSound, JoinedSound, CheckAlive, CallerAt, Writes, Only, CallerSet, Loading, ReloadOperations
<1>7. ApartStep(a)
  BY <1>1, <1>2, <1>5, <1>6 DEF ApartStep, CheckAlive, CallerAt, Apart, CallerSet, CallerSound, reloadTables, reloadHistory
<1>8. QED
  BY <1>7, ApartTables DEF CheckAlive, reloadTables, reloadHistory

\* It looks whether its version is due.
LEMMA CheckFreshStep ==
    ASSUME RefreshInv, NEW a \in Callers, CheckFresh(a) PROVE RefreshInv'
<1> DEFINE c == [caller[a] EXCEPT
         !.pc = IF refreshableAt[caller[a].old] > caller[a].since THEN "done" ELSE "start"]
<1>1. caller[a] \in CallerSet /\ shown \in Versions \cup {None} /\ caller \in [Callers -> CallerSet]
      /\ today \in Nat
  BY RefreshAssumption DEF RefreshInv, RefreshTypes
<1>2. CallerSound(a) /\ JoinedSound(a)
  BY DEF RefreshInv, CallersSound
<1>3. c \in CallerSet /\ c.op = caller[a].op
  BY <1>1 DEF CallerSet, Places
<1>4. caller' = [caller EXCEPT ![a] = c]
  BY <1>1 DEF CheckFresh, CallerSet, CallerGoes
<1>5. Only(a) /\ caller'[a] = c
  BY <1>3, <1>4, OnlyOne DEF RefreshInv
<1>6. CallerSound(a)' /\ JoinedSound(a)'
  BY <1>1, <1>2, <1>5 DEF CallerSound, JoinedSound, CheckFresh, CallerAt, Writes, Only, CallerSet, Loading, ReloadOperations
<1>7. ApartStep(a)
  BY <1>1, <1>2, <1>5, <1>6 DEF ApartStep, CheckFresh, CallerAt, Apart, CallerSet, CallerSound, reloadTables, reloadHistory
<1>8. QED
  BY <1>7, ApartTables DEF CheckFresh, reloadTables, reloadHistory

\* The call it has joined is done.
LEMMA WaitForCallStep ==
    ASSUME RefreshInv, NEW a \in Callers, WaitForCall(a) PROVE RefreshInv'
<1> DEFINE c == [caller[a] EXCEPT !.pc = "done"]
<1>1. caller[a] \in CallerSet /\ shown \in Versions \cup {None} /\ caller \in [Callers -> CallerSet]
      /\ today \in Nat
  BY RefreshAssumption DEF RefreshInv, RefreshTypes
<1>2. CallerSound(a) /\ JoinedSound(a)
  BY DEF RefreshInv, CallersSound
<1>3. c \in CallerSet /\ c.op = caller[a].op
  BY <1>1 DEF CallerSet, Places
<1>4. caller' = [caller EXCEPT ![a] = c]
  BY <1>1 DEF WaitForCall, CallerSet, CallerGoes
<1>5. Only(a) /\ caller'[a] = c
  BY <1>3, <1>4, OnlyOne DEF RefreshInv
<1>6. CallerSound(a)' /\ JoinedSound(a)'
  <2>1. caller[a].call \in Callers \ {a} /\ caller[caller[a].call].pc = "done"
    BY <1>1, <1>2 DEF WaitForCall, CallerAt, CallerSound, CallerSet, RefreshInv, CallersSound
  <2>2. caller'[caller[a].call] = caller[caller[a].call]
    BY <1>5, <2>1 DEF Only
  <2>3. CallerSound(a)'
    BY <1>1, <1>2, <1>5 DEF CallerSound, WaitForCall, CallerAt, Writes, Only, CallerSet, Loading
  <2>4. JoinedSound(a)'
    BY <1>1, <1>2, <1>5, <2>1, <2>2 DEF JoinedSound, CallerSet
  <2>5. QED
    BY <2>3, <2>4
<1>7. ApartStep(a)
  BY <1>1, <1>2, <1>5, <1>6 DEF ApartStep, WaitForCall, CallerAt, Apart, CallerSet, CallerSound, reloadTables, reloadHistory
<1>8. QED
  BY <1>7, ApartTables DEF WaitForCall, reloadTables, reloadHistory

\* SetRefreshableAfter moves the deadline of a version that is in the map, or was.
LEMMA SetRefreshableAfterStep ==
    ASSUME RefreshInv, NEW a \in Callers, SetRefreshableAfter(a) PROVE RefreshInv'
<1> DEFINE c == [caller[a] EXCEPT !.pc = "done"]
           t == caller[a].since + Backoff
<1>1. caller[a] \in CallerSet /\ shown \in Versions \cup {None} /\ caller \in [Callers -> CallerSet]
      /\ caller[a].pc = "setAt"
  BY DEF RefreshInv, RefreshTypes, SetRefreshableAfter, CallerAt
<1>2. CallerSound(a) /\ JoinedSound(a)
  BY DEF RefreshInv, CallersSound
<1>3. c \in CallerSet /\ c.op = caller[a].op
  BY <1>1 DEF CallerSet, Places
<1>4. caller' = [caller EXCEPT ![a] = c]
  BY <1>1 DEF SetRefreshableAfter, CallerSet, CallerGoes
<1>5. Only(a) /\ caller'[a] = c
  BY <1>3, <1>4, OnlyOne DEF RefreshInv
<1>6. CallerSound(a)' /\ JoinedSound(a)'
  BY <1>1, <1>2, <1>5 DEF CallerSound, JoinedSound, SetRefreshableAfter, Writes, Only, CallerSet, Loading
<1>7. ApartStep(a)
  BY <1>1, <1>2, <1>5, <1>6 DEF ApartStep, SetRefreshableAfter, Apart, CallerSet, CallerSound
<1>8. caller[a].old \in Versions /\ Passed(caller[a].old) /\ t \in Nat
  BY <1>1, <1>2, RefreshAssumption DEF CallerSound, CallerSet, RefreshInv, VersionsPassed
<1>9. /\ refreshableAt' = [refreshableAt EXCEPT ![caller[a].old] = t]
      /\ moved' = [moved EXCEPT ![caller[a].old] = @ \cup {t}]
      /\ refreshableAt \in [Versions -> Nat] /\ moved \in [Versions -> SUBSET Nat]
      /\ UNCHANGED <<origin, shown, rule>>
  BY DEF SetRefreshableAfter, Move, RefreshInv, RefreshTypes
<1> HIDE DEF c, t
<1>10. RefreshTypes'
  BY <1>8, <1>9, <1>7 DEF RefreshInv, RefreshTypes, ApartStep, Only
<1>11. AllRight'
  <2>1. \A v \in Versions : Right(v) => Right(v)'
    BY <1>8, <1>9 DEF Right
  <2>2. ASSUME NEW b \in Callers, CallerAt(b, "publish")'
        PROVE  /\ caller'[b] = caller[b] /\ CallerAt(b, "publish") /\ (Removes(b)' <=> Removes(b))
               /\ refreshableAt'[b] = refreshableAt[b] /\ moved'[b] = moved[b]
    <3>1. b # a
      BY <1>7, <2>2 DEF ApartStep, Apart, CallerAt
    <3>2. caller'[b] = caller[b]
      BY <1>5, <3>1 DEF Only
    <3>3. b # caller[a].old /\ b \in Versions
      BY <1>8, <2>2, <3>2 DEF Passed, CallerAt, Versions
    <3>4. QED
      BY <1>9, <2>2, <3>2, <3>3 DEF CallerAt, Removes
  <2>3. Kept <=> Kept'
    BY <1>9 DEF Kept
  <2>4. \A b \in Callers : b \in Versions
    BY DEF Versions
  <2>5. QED
    BY <1>1, <1>9, <2>1, <2>2, <2>3, <2>4 DEF AllRight, RefreshInv
<1>12. QED
  BY <1>7, <1>10, <1>11, ApartCalls DEF RefreshInv

\* What the others see of a step of a, when those who wait for a may still do so.
LEMMA OthersSound ==
    ASSUME RefreshInv, NEW a \in Callers, Only(a), today' = today, caller[a].pc # "done",
           \/ caller[a].pc \in Apart
           \/ caller'[a].call = caller[a].call /\ caller'[a].pc \in Loading
    PROVE  \A b \in Callers \ {a} : CallerSound(b)' /\ JoinedSound(b)'
<1> SUFFICES ASSUME NEW b \in Callers \ {a} PROVE CallerSound(b)' /\ JoinedSound(b)'
  OBVIOUS
<1>1. CallerSound(b) /\ JoinedSound(b) /\ caller[b].call \in Callers \cup {None}
  BY DEF RefreshInv, CallersSound, RefreshTypes, CallerSet
<1>2. caller'[b] = caller[b] /\ (Writes(b)' <=> Writes(b))
  BY DEF Only
<1>3. CallerSound(b)'
  BY <1>1, <1>2 DEF CallerSound
<1>4. CASE caller[b].call = a
  <2>1. a # None
    BY RefreshAssumption
  <2>2. caller[a].pc \in Loading /\ caller[a].call = a /\ caller[b].pc # "done"
    BY <1>1, <1>4, <2>1 DEF JoinedSound
  <2>3. caller'[a].call = a /\ caller'[a].pc \in Loading
    BY <2>2 DEF Loading, Apart
  <2>4. JoinedSound(b)'
    BY <1>2, <1>4, <2>2, <2>3 DEF JoinedSound
  <2>5. QED
    BY <1>3, <2>4
<1>5. CASE caller[b].call # a
  <2>1. caller[b].call \in Callers => caller'[caller[b].call] = caller[caller[b].call]
    BY <1>5 DEF Only
  <2>2. JoinedSound(b)'
    BY <1>1, <1>2, <2>1 DEF JoinedSound
  <2>3. QED
    BY <1>3, <2>2
<1>6. QED
  BY <1>4, <1>5

\* startCall: a call is joined, or registered.
LEMMA StartCallStep ==
    ASSUME RefreshInv, NEW a \in Callers, StartCall(a) PROVE RefreshInv'
<1> DEFINE joined == [caller[a] EXCEPT !.call = inFlight, !.pc = "wait"]
           own == [caller[a] EXCEPT !.call = a, !.late = Late(a), !.pc = "load"]
<1>1. /\ caller[a] \in CallerSet /\ shown \in Versions \cup {None} /\ caller \in [Callers -> CallerSet]
      /\ caller[a].pc = "start" /\ caller[a].call = None /\ ~Writes(a)
      /\ inFlight \in Callers \cup {None} /\ a # None
      /\ \A b \in Callers : caller[b].call \in Callers \cup {None}
  <2>1. CallerSound(a)
    BY DEF RefreshInv, CallersSound
  <2>2. QED
    BY <2>1, RefreshAssumption DEF RefreshInv, RefreshTypes, StartCall, CallerAt, CallerSound, CallerSet
<1>2. CallerSound(a)
  BY DEF RefreshInv, CallersSound
<1>3. /\ \A b \in Callers : caller[b].call # a
      /\ a \notin finished /\ inFlight # a /\ bucket # a
      /\ \A v \in Versions : Passed(v) => v # a
  BY <1>1, NobodyWaits DEF Apart
<1>4. UNCHANGED <<today, rule, shown, refreshableAt, retired, bucket, finished, origin, moved, replaced>>
  BY DEF StartCall, reloadHistory
<1>5. /\ Only(a)
      /\ IF inFlight # None THEN caller'[a] = joined /\ inFlight' = inFlight
                            ELSE caller'[a] = own /\ inFlight' = a
  <2>1. joined.op = caller[a].op /\ own.op = caller[a].op
    BY <1>1 DEF CallerSet
  <2>2. own \in CallerSet /\ (inFlight # None => joined \in CallerSet)
    BY <1>1 DEF CallerSet, Places, Late
  <2>3. caller' = [caller EXCEPT ![a] = IF inFlight # None THEN joined ELSE own]
    BY <1>1 DEF StartCall, CallerSet
  <2>4. QED
    BY <2>1, <2>2, <2>3, OnlyOne DEF RefreshInv, StartCall
<1>6. /\ caller'[a].old = caller[a].old /\ caller'[a].pc \in {"wait", "load"} /\ caller'[a].since = caller[a].since
      /\ caller'[a].outcome = caller[a].outcome /\ caller'[a].late \in BOOLEAN
      /\ inFlight = None => caller'[a].call = a /\ caller'[a].pc = "load" /\ caller'[a].late = Late(a) /\ inFlight' = a
      /\ inFlight # None => caller'[a].call = inFlight /\ caller'[a].pc = "wait" /\ inFlight' = inFlight
  BY <1>1, <1>5 DEF CallerSet, Late
<1> HIDE DEF joined, own
<1>7. \A b \in Callers \ {a} : caller'[b] = caller[b]
  BY <1>5 DEF Only
<1>8. RefreshTypes'
  BY <1>1, <1>4, <1>5, <1>6 DEF RefreshInv, RefreshTypes, Only
<1>9. VersionsPassed'
  <2>1. \A v \in Versions : Passed(v) => Passed(v)'
    BY <1>3, <1>7 DEF Passed
  <2>2. \A b \in Callers : caller'[b].old = caller[b].old /\ caller[b].old \in Versions \cup {None}
    BY <1>6, <1>7 DEF RefreshInv, RefreshTypes, CallerSet
  <2>3. QED
    BY <1>1, <1>4, <2>1, <2>2 DEF RefreshInv, VersionsPassed
<1>10. BucketSound'
  BY <1>3, <1>4, <1>6, <1>7 DEF BucketSound, RefreshInv
<1>11. CallersSound'
  <2>1. \A b \in Callers \ {a} : CallerSound(b)' /\ JoinedSound(b)'
    BY <1>1, <1>4, <1>5, OthersSound DEF Apart
  <2>2. inFlight # None => inFlight \in Callers \ {a} /\ caller[inFlight].pc \in {"load", "finish"}
    BY <1>1, <1>3 DEF RefreshInv, CallersSound
  <2>3. CallerSound(a)'
    BY <1>1, <1>2, <1>3, <1>4, <1>5, <1>6 DEF CallerSound, Only, Loading
  <2>4. JoinedSound(a)'
    <3>1. CASE inFlight # None
      <4>1. caller'[inFlight] = caller[inFlight] /\ CallerSound(inFlight)
        BY <1>7, <2>2, <3>1 DEF RefreshInv, CallersSound
      <4>2. caller[inFlight].call = inFlight
        BY <2>2, <3>1, <4>1 DEF CallerSound, Loading
      <4>3. QED
        BY <1>6, <2>2, <3>1, <4>1, <4>2 DEF JoinedSound, Loading
    <3>2. CASE inFlight = None
      BY <1>6, <3>2 DEF JoinedSound, Loading
    <3>3. QED
      BY <3>1, <3>2
  <2>5. \A b \in finished : b \in Callers \ {a} /\ caller[b].pc = "done"
    BY <1>3 DEF RefreshInv, RefreshTypes, CallersSound
  <2>6. QED
    BY <1>4, <1>6, <1>7, <2>1, <2>2, <2>3, <2>4, <2>5 DEF CallersSound
<1>12. AllAnswered'
  <2> SUFFICES ASSUME NEW b \in Callers, caller'[b].call # None, caller'[b].old # None PROVE Answered(b)'
    BY DEF AllAnswered, Answered
  <2>1. CASE b = a
    <3>1. CASE inFlight # None
      <4>1. inFlight \in Callers \ {a} /\ caller[inFlight].pc \in {"load", "finish"}
        BY <1>1, <1>3, <3>1 DEF RefreshInv, CallersSound
      <4>2. QED
        BY <1>6, <1>7, <2>1, <3>1, <4>1 DEF Answered
    <3>2. CASE inFlight = None
      BY <1>6, <2>1, <3>2 DEF Answered
    <3>3. QED
      BY <3>1, <3>2
  <2>2. CASE b # a
    <3>1. /\ caller'[b].call = caller[b].call /\ caller'[b].old = caller[b].old
          /\ caller[b].call \in Callers \ {a} /\ caller'[caller[b].call] = caller[caller[b].call]
      BY <1>1, <1>3, <1>7, <2>2
    <3>2. Answered(b)
      BY DEF RefreshInv, AllAnswered
    <3>3. \A w \in Callers : CallerAt(w, "publish") => CallerAt(w, "publish")'
      BY <1>1, <1>7 DEF CallerAt
    <3>4. inFlight = caller[b].call => inFlight' = inFlight
      BY <1>6, <3>1
    <3>5. QED
      BY <1>4, <3>1, <3>2, <3>3, <3>4 DEF Answered
  <2>3. QED
    BY <2>1, <2>2
<1>13. AllRight'
  <2>1. \A b \in Callers : CallerAt(b, "publish")' => b # a /\ CallerAt(b, "publish") /\ caller'[b] = caller[b]
                                                   /\ (Removes(b)' <=> Removes(b))
    BY <1>6, <1>7 DEF CallerAt, Removes
  <2>2. (\A v : Right(v) <=> Right(v)') /\ (Kept <=> Kept')
    BY <1>4 DEF Right, Kept
  <2>3. QED
    BY <1>4, <2>1, <2>2 DEF AllRight, RefreshInv
<1>14. AllTimely'
  <2> SUFFICES ASSUME NEW b \in Callers PROVE Timely(b)'
    BY DEF AllTimely
  <2>1. Timely(b)
    BY DEF RefreshInv, AllTimely
  <2>2. \A w \in Callers : /\ CallerAt(w, "publish")' => CallerAt(w, "publish")
                           /\ CallerAt(w, "prepare")' => CallerAt(w, "prepare")
                           /\ Writes(w)' <=> Writes(w)
    BY <1>5, <1>6, <1>7 DEF CallerAt, Only
  <2>3. CASE b # a
    <3>1. caller'[b] = caller[b] /\ (Passed(b)' <=> Passed(b)) /\ (inFlight' = b => inFlight = b)
      BY <1>6, <1>7, <2>3 DEF Passed
    <3>2. QED
      BY <1>4, <2>1, <2>2, <3>1 DEF Timely
  <2>4. CASE b = a
    <3>1. replaced[a] = a
      BY <1>1, <2>1, <2>4 DEF Timely, Passed
    <3>2. CASE inFlight # None
      BY <1>3, <1>4, <1>6, <2>4, <3>1, <3>2 DEF Timely
    <3>3. CASE inFlight = None
      BY <1>4, <1>6, <2>2, <2>4, <3>1, <3>3 DEF Timely, Late
    <3>4. QED
      BY <3>2, <3>3
  <2>5. QED
    BY <2>3, <2>4
<1>15. QED
  BY <1>8, <1>9, <1>10, <1>11, <1>12, <1>13, <1>14 DEF RefreshInv

\* A step of an agent that changes no version and leaves it with what it was given.
GoesOn(a) ==
    /\ Only(a) /\ caller[a].pc \notin {"done", "publish"} /\ caller'[a].pc # "publish"
    /\ UNCHANGED <<today, rule, shown, origin, replaced>>
    /\ inFlight' \in {inFlight, None}
    /\ caller'[a].old = caller[a].old /\ caller'[a].call = caller[a].call
    /\ caller'[a].late = caller[a].late
    /\ caller[a].pc = "cancel" => caller'[a].pc = "done"
    /\ caller'[a].pc = "prepare" => Writes(a)

LEMMA GoesOnTimely ==
    ASSUME RefreshInv, NEW a \in Callers, GoesOn(a) PROVE VersionsPassed' /\ AllTimely'
<1>1. /\ \A b \in Callers \ {a} : caller'[b] = caller[b]
      /\ \A b \in Callers : /\ caller'[b].old = caller[b].old /\ caller'[b].call = caller[b].call
                            /\ caller'[b].late = caller[b].late /\ caller[b].old \in Versions \cup {None}
                            /\ Writes(b)' <=> Writes(b)
      /\ shown \in Versions \cup {None} /\ a # None
  BY RefreshAssumption DEF GoesOn, Only, RefreshInv, RefreshTypes, CallerSet
<1>2. \A v : Passed(v) => Passed(v)'
  BY <1>1 DEF Passed, GoesOn
<1>3. VersionsPassed'
  BY <1>1, <1>2 DEF RefreshInv, VersionsPassed, GoesOn
<1>4. AllTimely'
  <2> SUFFICES ASSUME NEW b \in Callers PROVE Timely(b)'
    BY DEF AllTimely
  <2>1. Timely(b) /\ b # None
    BY RefreshAssumption DEF RefreshInv, AllTimely
  <2>2. \A w \in Callers : /\ CallerAt(w, "publish")' => CallerAt(w, "publish")
                           /\ CallerAt(w, "prepare")' => CallerAt(w, "prepare") \/ Writes(w)
    BY <1>1 DEF CallerAt, GoesOn
  <2>3. caller'[b].pc \in {"prepare", "publish"} /\ ~Writes(b) => caller[b].pc = caller'[b].pc
    BY <1>1 DEF GoesOn
  <2>4. inFlight' = b => inFlight = b
    BY <2>1 DEF GoesOn
  <2>5. QED
    BY <1>1, <1>2, <2>1, <2>2, <2>3, <2>4 DEF Timely, GoesOn
<1>5. QED
  BY <1>3, <1>4

LEMMA GoesOnRight ==
    ASSUME RefreshInv, NEW a \in Callers, GoesOn(a), UNCHANGED <<refreshableAt, moved>>
    PROVE  AllRight'
<1>1. \A b \in Callers : CallerAt(b, "publish")' => /\ b # a /\ CallerAt(b, "publish")
                                                    /\ caller'[b] = caller[b] /\ (Removes(b)' <=> Removes(b))
  BY DEF CallerAt, Removes, GoesOn, Only
<1>2. (\A v : Right(v) <=> Right(v)') /\ (Kept <=> Kept')
  BY DEF Right, Kept, GoesOn
<1>3. QED
  BY <1>1, <1>2 DEF AllRight, RefreshInv, GoesOn

\* If the call of a has not ended, those who wait for it are no worse off.
LEMMA GoesOnAnswered ==
    ASSUME RefreshInv, NEW a \in Callers, GoesOn(a), UNCHANGED inFlight,
           caller'[a].outcome = caller[a].outcome \/ caller[a].pc = "load",
           caller[a].pc \in {"load", "finish"} => caller'[a].pc \in {"load", "finish"},
           caller[a].pc # "prepare"
    PROVE  AllAnswered'
<1>1. /\ \A b \in Callers \ {a} : caller'[b] = caller[b]
      /\ \A b \in Callers : /\ caller'[b].old = caller[b].old /\ caller'[b].call = caller[b].call
                            /\ caller[b].call \in Callers \cup {None}
  BY DEF GoesOn, Only, RefreshInv, RefreshTypes, CallerSet
<1> SUFFICES ASSUME NEW b \in Callers, caller'[b].call # None, caller'[b].old # None PROVE Answered(b)'
  BY DEF AllAnswered, Answered
<1>2. caller[b].call \in Callers /\ Answered(b)
  BY <1>1 DEF RefreshInv, AllAnswered
<1>3. \A w \in Callers : CallerAt(w, "publish") => CallerAt(w, "publish")'
  BY <1>1 DEF CallerAt, GoesOn
<1>4. CASE caller[b].call = a
  BY <1>1, <1>2, <1>3, <1>4 DEF Answered, GoesOn
<1>5. CASE caller[b].call # a
  BY <1>1, <1>2, <1>3, <1>5 DEF Answered, GoesOn
<1>6. QED
  BY <1>4, <1>5


\* The loader returns.
LEMMA LoadVersionStep ==
    ASSUME RefreshInv, NEW a \in Callers, LoadVersion(a) PROVE RefreshInv'
<1>1. PICK o \in {"value", "notFound", "error"} :
        caller' = [caller EXCEPT ![a].outcome = o, ![a].since = today, ![a].pc = "finish"]
  BY DEF LoadVersion
<1> DEFINE c == [caller[a] EXCEPT !.outcome = o, !.since = today, !.pc = "finish"]
<1>2. /\ caller[a] \in CallerSet /\ caller \in [Callers -> CallerSet] /\ today \in Nat
      /\ caller[a].pc = "load" /\ inFlight \in Callers \cup {None} /\ a # None
  BY RefreshAssumption DEF RefreshInv, RefreshTypes, LoadVersion, CallerAt, CallerSet
<1>3. CallerSound(a) /\ JoinedSound(a)
  BY DEF RefreshInv, CallersSound
<1>4. caller[a].call = a /\ ~Writes(a)
  BY <1>2, <1>3 DEF CallerSound, Loading
<1>5. UNCHANGED <<today, rule, shown, refreshableAt, inFlight, origin, moved, replaced>>
  BY DEF LoadVersion, reloadTables, reloadHistory
<1>6. Only(a) /\ caller'[a] = c
  <2>1. c \in CallerSet /\ c.op = caller[a].op
    BY <1>2 DEF CallerSet, Places
  <2>2. caller' = [caller EXCEPT ![a] = c]
    BY <1>2, <1>1 DEF LoadVersion, CallerSet, CallerGoes
  <2>3. QED
    BY <2>1, <2>2, OnlyOne DEF RefreshInv
<1>7. GoesOn(a) /\ caller'[a].pc = "finish"
  BY <1>2, <1>4, <1>5, <1>6 DEF CallerSet, GoesOn
<1>8. UNCHANGED <<bucket, finished>>
  BY DEF LoadVersion, reloadTables
<1>9. RefreshTypes'
  BY <1>2, <1>5, <1>6, <1>8 DEF RefreshInv, RefreshTypes, Only
<1>10. BucketSound'
  <2>1. \A b \in Callers \ {a} : caller'[b] = caller[b]
    BY <1>6 DEF Only
  <2>2. QED
    BY <1>2, <1>7, <1>8, <2>1 DEF BucketSound, RefreshInv
<1>11. CallersSound'
  <2>1. \A b \in Callers \ {a} : CallerSound(b)' /\ JoinedSound(b)' /\ caller'[b] = caller[b]
    BY <1>2, <1>3, <1>4, <1>5, <1>6, <1>7, OthersSound DEF Loading, GoesOn, Apart, Only
  <2>2. CallerSound(a)'
    BY <1>2, <1>3, <1>4, <1>5, <1>6, <1>7 DEF CallerSound, Only, Loading, GoesOn, CallerSet
  <2>3. JoinedSound(a)'
    BY <1>2, <1>3, <1>4, <1>6, <1>7 DEF JoinedSound, Loading, GoesOn, CallerSet
  <2>4. /\ \A b \in finished : b \in Callers \ {a} /\ caller[b].pc = "done"
        /\ inFlight # None => inFlight \in Callers /\ caller[inFlight].pc \in {"load", "finish"}
    BY <1>2 DEF RefreshInv, RefreshTypes, CallersSound
  <2>5. QED
    BY <1>2, <1>5, <1>7, <1>8, <2>1, <2>2, <2>3, <2>4 DEF CallersSound
<1>12. AllAnswered' /\ AllRight' /\ VersionsPassed' /\ AllTimely'
  <2>1. caller'[a].outcome = caller[a].outcome \/ caller[a].pc = "load"
    BY <1>2, <1>6 DEF CallerSet
  <2> HIDE DEF c
  <2>2. QED
    BY <1>2, <1>5, <1>7, <2>1, GoesOnTimely, GoesOnRight, GoesOnAnswered
<1>13. QED
  BY <1>9, <1>10, <1>11, <1>12 DEF RefreshInv

\* A writer locks the bucket.
LEMMA LockKeyStep ==
    ASSUME RefreshInv, NEW a \in Callers, LockKey(a) PROVE RefreshInv'
<1> DEFINE c == [caller[a] EXCEPT !.pc = "prepare"]
<1>2. /\ caller[a] \in CallerSet /\ caller \in [Callers -> CallerSet] /\ today \in Nat
      /\ caller[a].pc = "lock" /\ inFlight \in Callers \cup {None} /\ a # None
  BY RefreshAssumption DEF RefreshInv, RefreshTypes, LockKey, CallerAt, CallerSet
<1>3. CallerSound(a) /\ JoinedSound(a)
  BY DEF RefreshInv, CallersSound
<1>4. caller[a].call = None /\ Writes(a) /\ caller[a].outcome = "none"
  BY <1>2, <1>3 DEF CallerSound
<1>5. UNCHANGED <<today, rule, shown, refreshableAt, inFlight, origin, moved, replaced>>
  BY DEF LockKey, reloadTables, reloadHistory
<1>6. Only(a) /\ caller'[a] = c
  <2>1. c \in CallerSet /\ c.op = caller[a].op
    BY <1>2 DEF CallerSet, Places
  <2>2. caller' = [caller EXCEPT ![a] = c]
    BY <1>2 DEF LockKey, CallerSet, CallerGoes
  <2>3. QED
    BY <2>1, <2>2, OnlyOne DEF RefreshInv
<1>7. GoesOn(a) /\ caller'[a].pc = "prepare"
  BY <1>2, <1>4, <1>5, <1>6 DEF CallerSet, GoesOn
<1>8. bucket = None /\ bucket' = a /\ UNCHANGED finished
  BY DEF LockKey
<1>9. RefreshTypes'
  BY <1>2, <1>5, <1>6, <1>8 DEF RefreshInv, RefreshTypes, Only
<1>10. BucketSound'
  <2>1. \A b \in Callers \ {a} : caller'[b] = caller[b]
    BY <1>6 DEF Only
  <2>2. \A b \in Callers : b # None
    BY RefreshAssumption
  <2>3. QED
    BY <1>2, <1>7, <1>8, <2>1, <2>2 DEF BucketSound, RefreshInv
<1>11. CallersSound'
  <2>1. \A b \in Callers \ {a} : CallerSound(b)' /\ JoinedSound(b)' /\ caller'[b] = caller[b]
    BY <1>2, <1>3, <1>4, <1>5, <1>6, <1>7, OthersSound DEF Loading, GoesOn, Apart, Only
  <2>2. CallerSound(a)'
    BY <1>2, <1>3, <1>4, <1>5, <1>6, <1>7 DEF CallerSound, Only, Loading, GoesOn, CallerSet
  <2>3. JoinedSound(a)'
    BY <1>2, <1>3, <1>4, <1>6, <1>7 DEF JoinedSound, Loading, GoesOn, CallerSet
  <2>4. /\ \A b \in finished : b \in Callers \ {a} /\ caller[b].pc = "done"
        /\ inFlight # None => inFlight \in Callers /\ caller[inFlight].pc \in {"load", "finish"}
    BY <1>2 DEF RefreshInv, RefreshTypes, CallersSound
  <2>5. QED
    BY <1>2, <1>5, <1>7, <1>8, <2>1, <2>2, <2>3, <2>4 DEF CallersSound
<1>12. AllAnswered' /\ AllRight' /\ VersionsPassed' /\ AllTimely'
  <2>1. caller'[a].outcome = caller[a].outcome \/ caller[a].pc = "load"
    BY <1>2, <1>6 DEF CallerSet
  <2> HIDE DEF c
  <2>2. QED
    BY <1>2, <1>5, <1>7, <2>1, GoesOnTimely, GoesOnRight, GoesOnAnswered
<1>13. QED
  BY <1>9, <1>10, <1>11, <1>12 DEF RefreshInv

\* The waiters of a call are released.
LEMMA CancelCallStep ==
    ASSUME RefreshInv, NEW a \in Callers, CancelCall(a) PROVE RefreshInv'
<1> DEFINE c == [caller[a] EXCEPT !.pc = "done"]
<1>2. /\ caller[a] \in CallerSet /\ caller \in [Callers -> CallerSet] /\ today \in Nat
      /\ caller[a].pc = "cancel" /\ inFlight \in Callers \cup {None} /\ a # None
  BY RefreshAssumption DEF RefreshInv, RefreshTypes, CancelCall, CallerAt, CallerSet
<1>3. CallerSound(a) /\ JoinedSound(a)
  BY DEF RefreshInv, CallersSound
<1>4. caller[a].call = a /\ ~Writes(a)
  BY <1>2, <1>3 DEF CallerSound, Loading
<1>5. UNCHANGED <<today, rule, shown, refreshableAt, inFlight, origin, moved, replaced>>
  BY DEF CancelCall, reloadTables, reloadHistory
<1>6. Only(a) /\ caller'[a] = c
  <2>1. c \in CallerSet /\ c.op = caller[a].op
    BY <1>2 DEF CallerSet, Places
  <2>2. caller' = [caller EXCEPT ![a] = c]
    BY <1>2 DEF CancelCall, CallerSet, CallerGoes
  <2>3. QED
    BY <2>1, <2>2, OnlyOne DEF RefreshInv
<1>7. GoesOn(a) /\ caller'[a].pc = "done"
  BY <1>2, <1>4, <1>5, <1>6 DEF CallerSet, GoesOn
<1>8. finished' = finished \cup {a} /\ UNCHANGED bucket
  BY DEF CancelCall
<1>9. RefreshTypes'
  BY <1>2, <1>5, <1>6, <1>8 DEF RefreshInv, RefreshTypes, Only
<1>10. BucketSound'
  <2>1. \A b \in Callers \ {a} : caller'[b] = caller[b]
    BY <1>6 DEF Only
  <2>2. QED
    BY <1>2, <1>7, <1>8, <2>1 DEF BucketSound, RefreshInv
<1>11. CallersSound'
  <2>1. \A b \in Callers \ {a} : CallerSound(b)' /\ JoinedSound(b)' /\ caller'[b] = caller[b]
    BY <1>2, <1>3, <1>4, <1>5, <1>6, <1>7, OthersSound DEF Loading, GoesOn, Apart, Only
  <2>2. CallerSound(a)'
    BY <1>2, <1>3, <1>4, <1>5, <1>6, <1>7 DEF CallerSound, Only, Loading, GoesOn, CallerSet
  <2>3. JoinedSound(a)'
    BY <1>2, <1>3, <1>4, <1>6, <1>7 DEF JoinedSound, Loading, GoesOn, CallerSet
  <2>4. /\ \A b \in finished : b \in Callers \ {a} /\ caller[b].pc = "done"
        /\ inFlight # None => inFlight \in Callers /\ caller[inFlight].pc \in {"load", "finish"}
    BY <1>2 DEF RefreshInv, RefreshTypes, CallersSound
  <2>5. QED
    BY <1>2, <1>5, <1>7, <1>8, <2>1, <2>2, <2>3, <2>4 DEF CallersSound
<1>12. AllAnswered' /\ AllRight' /\ VersionsPassed' /\ AllTimely'
  <2>1. caller'[a].outcome = caller[a].outcome \/ caller[a].pc = "load"
    BY <1>2, <1>6 DEF CallerSet
  <2> HIDE DEF c
  <2>2. QED
    BY <1>2, <1>5, <1>7, <2>1, GoesOnTimely, GoesOnRight, GoesOnAnswered
<1>13. QED
  BY <1>9, <1>10, <1>11, <1>12 DEF RefreshInv

\* The call ends in the bucket: what it says counts, or not.
LEMMA FinishCallStep ==
    ASSUME RefreshInv, NEW a \in Callers, FinishCall(a) PROVE RefreshInv'
<1> DEFINE counts == inFlight = a /\ caller[a].outcome # "error"
           c == [caller[a] EXCEPT !.pc = IF counts THEN "prepare" ELSE "cancel"]
           t == caller[a].since + Backoff
<1>1. /\ caller[a] \in CallerSet /\ caller \in [Callers -> CallerSet] /\ t \in Nat
      /\ caller[a].pc = "finish" /\ inFlight \in Callers \cup {None} /\ shown \in Versions \cup {None}
      /\ \A b \in Callers : /\ b # None /\ caller[b].call \in Callers \cup {None}
                            /\ caller[b].old \in Versions \cup {None}
  BY RefreshAssumption DEF RefreshInv, RefreshTypes, FinishCall, CallerAt, CallerSet
<1>2. CallerSound(a) /\ JoinedSound(a)
  BY DEF RefreshInv, CallersSound
<1>3. caller[a].call = a /\ ~Writes(a) /\ replaced[a] = a
  BY <1>1, <1>2 DEF CallerSound, Loading, RefreshInv, AllTimely, Timely, Passed
<1>4. bucket = None /\ \A b \in Callers : caller[b].pc \notin {"prepare", "publish"}
  BY <1>1 DEF FinishCall, RefreshInv, BucketSound
<1>5. /\ UNCHANGED <<today, rule, shown, finished, origin, replaced>>
      /\ inFlight' = IF inFlight = a THEN None ELSE inFlight
      /\ bucket' = IF counts THEN a ELSE None
      /\ \/ ~counts /\ shown # None /\ Move(shown, t)
         \/ UNCHANGED <<refreshableAt, moved>>
      /\ caller' = [caller EXCEPT ![a].pc = IF counts THEN "prepare" ELSE "cancel"]
  BY <1>4 DEF FinishCall, CallerGoes
<1>6. Only(a) /\ caller'[a] = c
  <2>1. c \in CallerSet /\ c.op = caller[a].op
    BY <1>1 DEF CallerSet, Places
  <2>2. caller' = [caller EXCEPT ![a] = c]
    BY <1>1, <1>5 DEF CallerSet
  <2>3. QED
    BY <2>1, <2>2, OnlyOne DEF RefreshInv
<1>7. /\ caller'[a].pc = IF counts THEN "prepare" ELSE "cancel"
      /\ caller'[a].old = caller[a].old /\ caller'[a].call = a /\ caller'[a].late = caller[a].late
      /\ caller'[a].outcome = caller[a].outcome /\ caller'[a].since = caller[a].since
      /\ \A b \in Callers \ {a} : caller'[b] = caller[b]
  BY <1>1, <1>3, <1>6 DEF CallerSet, Only
<1> HIDE DEF c, t
<1>8. RefreshTypes'
  <2>1. refreshableAt' \in [Versions -> Nat] /\ moved' \in [Versions -> SUBSET Nat]
    BY <1>1, <1>5 DEF Move, RefreshInv, RefreshTypes
  <2>2. QED
    BY <1>1, <1>5, <1>6, <2>1 DEF RefreshInv, RefreshTypes, Only
<1>9. BucketSound'
  BY <1>1, <1>4, <1>5, <1>7 DEF BucketSound
<1>10. CallersSound'
  <2>1. \A b \in Callers \ {a} : CallerSound(b)' /\ JoinedSound(b)'
    BY <1>1, <1>3, <1>5, <1>6, <1>7, OthersSound DEF Loading
  <2>2. CallerSound(a)'
    BY <1>1, <1>2, <1>3, <1>5, <1>6, <1>7 DEF CallerSound, Only, Loading
  <2>3. JoinedSound(a)'
    BY <1>3, <1>7 DEF JoinedSound, Loading
  <2>4. /\ \A b \in finished : b \in Callers \ {a} /\ caller[b].pc = "done"
        /\ inFlight # None => inFlight \in Callers /\ caller[inFlight].pc \in {"load", "finish"}
    BY <1>1 DEF RefreshInv, RefreshTypes, CallersSound
  <2>5. QED
    BY <1>5, <1>7, <2>1, <2>2, <2>3, <2>4 DEF CallersSound
<1>11. AllAnswered'
  <2> SUFFICES ASSUME NEW b \in Callers, caller'[b].call # None, caller'[b].old # None PROVE Answered(b)'
    BY DEF AllAnswered, Answered
  <2>1. /\ caller'[b].call = caller[b].call /\ caller'[b].old = caller[b].old
        /\ caller[b].call \in Callers
    BY <1>1, <1>3, <1>7
  <2>2. Answered(b)
    BY DEF RefreshInv, AllAnswered
  <2>3. \A w \in Callers : ~CallerAt(w, "publish")
    BY <1>4 DEF CallerAt
  <2>4. CASE caller[b].call = a
    BY <1>1, <1>5, <1>7, <2>1, <2>2, <2>3, <2>4 DEF Answered
  <2>5. CASE caller[b].call # a
    <3>1. caller'[caller[b].call] = caller[caller[b].call]
      BY <1>7, <2>1, <2>5
    <3>2. inFlight = caller[b].call => inFlight' = inFlight
      BY <1>5, <2>5
    <3>3. QED
      BY <1>5, <2>1, <2>2, <2>3, <3>1, <3>2 DEF Answered
  <2>6. QED
    BY <2>4, <2>5
<1>12. AllRight'
  <2>1. shown # None => Right(shown)'
    <3>1. shown # None => Right(shown) /\ shown \in Versions
      BY <1>1 DEF RefreshInv, AllRight
    <3>2. refreshableAt \in [Versions -> Nat] /\ moved \in [Versions -> SUBSET Nat]
      BY DEF RefreshInv, RefreshTypes
    <3>3. QED
      BY <1>5, <3>1, <3>2 DEF Right, Move
  <2>2. \A b \in Callers : ~CallerAt(b, "publish")'
    BY <1>4, <1>7 DEF CallerAt
  <2>3. QED
    BY <1>5, <2>1, <2>2 DEF AllRight, Right
<1>13. VersionsPassed' /\ AllTimely'
  <2>1. CASE ~counts
    <3>1. GoesOn(a)
      BY <1>1, <1>3, <1>5, <1>6, <1>7, <2>1 DEF GoesOn
    <3>2. QED
      BY <3>1, GoesOnTimely
  <2>2. CASE counts
    <3>1. \A v : Passed(v) => Passed(v)'
      BY <1>1, <1>7 DEF Passed
    <3>2. VersionsPassed'
      BY <1>1, <1>3, <1>5, <1>7, <3>1 DEF RefreshInv, VersionsPassed
    <3>3. ASSUME NEW b \in Callers PROVE Timely(b)'
      <4>1. Timely(b) /\ inFlight' # b /\ (Writes(b)' <=> Writes(b))
        BY <1>1, <1>5, <1>6, <2>2 DEF RefreshInv, AllTimely, Only
      <4>2. CASE b = a
        BY <1>1, <1>3, <1>5, <1>7, <2>2, <4>1, <4>2 DEF Timely
      <4>3. CASE b # a
        BY <1>4, <1>5, <1>7, <3>1, <4>1, <4>3 DEF Timely
      <4>4. QED
        BY <4>2, <4>3
    <3>4. QED
      BY <3>2, <3>3 DEF AllTimely
  <2>3. QED
    BY <2>1, <2>2
<1>14. QED
  BY <1>8, <1>9, <1>10, <1>11, <1>12, <1>13 DEF RefreshInv

\* newNode: the version that a is about to install gets its deadline; a writer cancels the
\* call in flight.
LEMMA PrepareStep ==
    ASSUME RefreshInv, NEW a \in Callers, Prepare(a) PROVE RefreshInv'
<1> DEFINE c == [caller[a] EXCEPT !.pc = "publish"]
           since == caller[a].since
<1>1. /\ caller[a] \in CallerSet /\ caller \in [Callers -> CallerSet] /\ since \in Nat
      /\ caller[a].pc = "prepare" /\ inFlight \in Callers \cup {None} /\ shown \in Versions \cup {None}
      /\ a \in Versions
      /\ \A b \in Callers : /\ b # None /\ caller[b].call \in Callers \cup {None}
                            /\ caller[b].old \in Versions \cup {None}
  BY RefreshAssumption DEF RefreshInv, RefreshTypes, Prepare, CallerAt, CallerSet, Versions
<1>2. CallerSound(a) /\ JoinedSound(a)
  BY DEF RefreshInv, CallersSound
<1>3. (~Writes(a) => caller[a].call = a) /\ (Writes(a) => caller[a].call = None)
  BY <1>1, <1>2 DEF CallerSound, Loading
<1>4. bucket = a /\ \A b \in Callers \ {a} : caller[b].pc \notin {"prepare", "publish"}
  BY <1>1 DEF RefreshInv, BucketSound
<1>5. /\ UNCHANGED <<today, rule, shown, bucket, finished, replaced>>
      /\ inFlight' = IF Writes(a) THEN None ELSE inFlight
      /\ caller' = [caller EXCEPT ![a].pc = "publish"]
  BY DEF Prepare, CallerGoes, Cancelled
<1>6. Only(a) /\ caller'[a] = c
  <2>1. c \in CallerSet /\ c.op = caller[a].op
    BY <1>1 DEF CallerSet, Places
  <2>2. caller' = [caller EXCEPT ![a] = c]
    BY <1>1, <1>5 DEF CallerSet
  <2>3. QED
    BY <2>1, <2>2, OnlyOne DEF RefreshInv
<1>7. /\ caller'[a].pc = "publish" /\ caller'[a].old = caller[a].old
      /\ caller'[a].call = caller[a].call /\ caller'[a].late = caller[a].late
      /\ caller'[a].outcome = caller[a].outcome /\ caller'[a].since = since
      /\ \A b \in Callers \ {a} : caller'[b] = caller[b]
      /\ (Removes(a)' <=> Removes(a))
  BY <1>1, <1>3, <1>6 DEF CallerSet, Only, Removes
<1> HIDE DEF c
<1>8. Kept <=> Kept'
  BY <1>5 DEF Kept
<1>9. Kept => shown \in Versions
  BY <1>1 DEF Kept
<1>10. /\ refreshableAt \in [Versions -> Nat] /\ moved \in [Versions -> SUBSET Nat]
       /\ origin \in [Versions -> [from : Nat, to : Nat]] /\ Period \in Nat /\ NeverDue \in Nat
  BY RefreshAssumption DEF RefreshInv, RefreshTypes, NeverDue
<1>12. /\ Removes(a) => UNCHANGED <<refreshableAt, origin, moved>>
       /\ ~Removes(a) =>
            /\ refreshableAt' = [refreshableAt EXCEPT ![a] =
                                  IF Kept THEN refreshableAt[shown] ELSE since + Period]
            /\ origin' = [origin EXCEPT ![a] =
                           IF Kept THEN origin[shown] ELSE [from |-> since, to |-> NeverDue]]
            /\ moved' = [moved EXCEPT ![a] = IF Kept THEN moved[shown] ELSE {}]
  BY DEF Prepare, Copied
<1>13. RefreshTypes'
  <2>1. /\ refreshableAt' \in [Versions -> Nat] /\ moved' \in [Versions -> SUBSET Nat]
        /\ origin' \in [Versions -> [from : Nat, to : Nat]]
    <3>1. CASE Removes(a)
      BY <1>10, <1>12, <3>1
    <3>2. CASE ~Removes(a)
      <4>1. /\ (IF Kept THEN refreshableAt[shown] ELSE since + Period) \in Nat
            /\ (IF Kept THEN origin[shown] ELSE [from |-> since, to |-> NeverDue]) \in [from : Nat, to : Nat]
            /\ (IF Kept THEN moved[shown] ELSE {}) \in SUBSET Nat
        BY <1>1, <1>9, <1>10
      <4>2. refreshableAt' \in [Versions -> Nat]
        BY <1>1, <1>10, <1>12, <3>2, <4>1
      <4>3. moved' \in [Versions -> SUBSET Nat]
        BY <1>1, <1>10, <1>12, <3>2, <4>1
      <4>4. origin' \in [Versions -> [from : Nat, to : Nat]]
        BY <1>1, <1>10, <1>12, <3>2, <4>1
      <4>5. QED
        BY <4>2, <4>3, <4>4
    <3>3. QED
      BY <3>1, <3>2
  <2>2. QED
    BY <1>1, <1>5, <1>6, <2>1 DEF RefreshInv, RefreshTypes, Only
<1>14. \A v : Passed(v) => Passed(v)' /\ v # a
  BY <1>1, <1>7 DEF Passed
<1>15. VersionsPassed'
  <2>1. \A b \in Callers : caller'[b].old = caller[b].old
    BY <1>7
  <2>2. QED
    BY <1>5, <1>14, <2>1 DEF RefreshInv, VersionsPassed
<1>16. BucketSound'
  BY <1>4, <1>5, <1>7 DEF BucketSound
<1>17. CallersSound'
  <2>1. \A b \in Callers \ {a} : CallerSound(b)' /\ JoinedSound(b)'
    BY <1>1, <1>5, <1>6, <1>7, OthersSound DEF Loading
  <2>2. CallerSound(a)'
    BY <1>1, <1>2, <1>3, <1>5, <1>6, <1>7 DEF CallerSound, Only, Loading
  <2>3. JoinedSound(a)'
    BY <1>1, <1>3, <1>7 DEF JoinedSound, Loading
  <2>4. /\ \A b \in finished : b \in Callers \ {a} /\ caller[b].pc = "done"
        /\ inFlight # None => inFlight \in Callers \ {a} /\ caller[inFlight].pc \in {"load", "finish"}
    BY <1>1 DEF RefreshInv, RefreshTypes, CallersSound
  <2>5. QED
    BY <1>5, <1>7, <2>1, <2>2, <2>3, <2>4 DEF CallersSound
<1>18. AllAnswered'
  <2> SUFFICES ASSUME NEW b \in Callers, caller'[b].call # None, caller'[b].old # None PROVE Answered(b)'
    BY DEF AllAnswered, Answered
  <2>1. /\ caller'[b].call = caller[b].call /\ caller'[b].old = caller[b].old
        /\ caller[b].call \in Callers /\ Answered(b)
    BY <1>1, <1>7 DEF RefreshInv, AllAnswered
  <2>2. CallerAt(a, "publish")'
    BY <1>7 DEF CallerAt
  <2>3. CASE caller[b].call = a
    BY <1>5, <1>7, <2>1, <2>3 DEF Answered
  <2>4. CASE caller[b].call # a
    BY <1>5, <1>7, <2>1, <2>2, <2>4 DEF Answered
  <2>5. QED
    BY <2>3, <2>4
<1>19. AllRight'
  <2>1. shown # None => Right(shown)'
    <3>1. shown # None => Right(shown) /\ shown \in Versions /\ shown # a
      BY <1>1, <1>14 DEF RefreshInv, AllRight, VersionsPassed
    <3>2. shown # None => /\ refreshableAt'[shown] = refreshableAt[shown]
                          /\ moved'[shown] = moved[shown] /\ origin'[shown] = origin[shown]
      BY <1>1, <1>10, <1>12, <3>1
    <3>3. QED
      BY <1>5, <3>1, <3>2 DEF Right
  <2>2. ~Removes(a) =>
           IF Kept THEN Right(a)'
           ELSE refreshableAt'[a] = since + Period /\ origin'[a].from = since
    <3>1. CASE ~Removes(a) /\ Kept
      <4>1. /\ refreshableAt'[a] = refreshableAt[shown] /\ moved'[a] = moved[shown]
            /\ origin'[a] = origin[shown]
        BY <1>1, <1>10, <1>12, <3>1
      <4>2. Right(shown)
        BY <3>1 DEF RefreshInv, AllRight, Kept
      <4>3. QED
        BY <3>1, <4>1, <4>2 DEF Right
    <3>2. CASE ~Removes(a) /\ ~Kept
      BY <1>1, <1>10, <1>12, <3>2
    <3>3. QED
      BY <3>1, <3>2
  <2>3. \A b \in Callers : CallerAt(b, "publish")' => b = a
    BY <1>4, <1>7 DEF CallerAt
  <2>4. QED
    BY <1>5, <1>7, <1>8, <2>1, <2>2, <2>3 DEF AllRight, Right
<1>20. AllTimely'
  <2> SUFFICES ASSUME NEW b \in Callers PROVE Timely(b)'
    BY DEF AllTimely
  <2>1. Timely(b) /\ Timely(a) /\ \A w \in Callers : Writes(w)' <=> Writes(w)
    BY <1>6 DEF RefreshInv, AllTimely, Only
  <2>2. ~(inFlight' = b /\ ~caller[b].late)
    BY <1>1, <1>5, <2>1 DEF Timely, CallerAt
  <2>3. CASE b = a
    BY <1>1, <1>5, <1>7, <1>14, <2>1, <2>2, <2>3 DEF Timely
  <2>4. CASE b # a
    BY <1>4, <1>5, <1>7, <1>14, <2>1, <2>2, <2>4 DEF Timely
  <2>5. QED
    BY <2>3, <2>4
<1>21. QED
  BY <1>13, <1>15, <1>16, <1>17, <1>18, <1>19, <1>20 DEF RefreshInv

\* The version that a installs gets into the map.
LEMMA PublishStep ==
    ASSUME RefreshInv, NEW a \in Callers, Publish(a) PROVE RefreshInv'
<1> DEFINE c == [caller[a] EXCEPT !.pc = IF Writes(a) THEN "done" ELSE "cancel"]
           since == caller[a].since
<1>1. /\ caller[a] \in CallerSet /\ caller \in [Callers -> CallerSet] /\ since \in Nat /\ today \in Nat
      /\ caller[a].pc = "publish" /\ inFlight \in Callers \cup {None} /\ shown \in Versions \cup {None}
      /\ a \in Versions
      /\ \A b \in Callers : /\ b # None /\ caller[b].call \in Callers \cup {None}
                            /\ caller[b].old \in Versions \cup {None}
  BY RefreshAssumption DEF RefreshInv, RefreshTypes, Publish, CallerAt, CallerSet, Versions
<1>2. CallerSound(a) /\ JoinedSound(a)
  BY DEF RefreshInv, CallersSound
<1>3. /\ ~Writes(a) => caller[a].call = a
      /\ Writes(a) => caller[a].call = None
      /\ since <= today
  BY <1>1, <1>2 DEF CallerSound, Loading
<1>4. bucket = a /\ \A b \in Callers \ {a} : caller[b].pc \notin {"prepare", "publish"}
  BY <1>1 DEF RefreshInv, BucketSound
<1>5. /\ UNCHANGED <<today, rule, refreshableAt, inFlight, finished, moved>>
      /\ shown' = IF Removes(a) THEN None ELSE a
      /\ origin' = IF Kept THEN origin ELSE [origin EXCEPT ![a].to = today]
      /\ replaced' = [replaced EXCEPT ![a] = shown]
      /\ bucket' = None
      /\ caller' = [caller EXCEPT ![a].pc = IF Writes(a) THEN "done" ELSE "cancel"]
  BY DEF Publish, CallerGoes
<1>6. Only(a) /\ caller'[a] = c
  <2>1. c \in CallerSet /\ c.op = caller[a].op
    BY <1>1 DEF CallerSet, Places
  <2>2. caller' = [caller EXCEPT ![a] = c]
    BY <1>1, <1>5 DEF CallerSet
  <2>3. QED
    BY <2>1, <2>2, OnlyOne DEF RefreshInv
<1>7. /\ caller'[a].pc = IF Writes(a) THEN "done" ELSE "cancel"
      /\ caller'[a].old = caller[a].old
      /\ caller'[a].call = caller[a].call /\ caller'[a].late = caller[a].late
      /\ caller'[a].outcome = caller[a].outcome /\ caller'[a].since = since
      /\ \A b \in Callers \ {a} : caller'[b] = caller[b]
  BY <1>1, <1>6 DEF CallerSet, Only
<1> HIDE DEF c
<1>8. /\ origin \in [Versions -> [from : Nat, to : Nat]] /\ replaced \in [Callers -> Versions \cup {None}]
      /\ refreshableAt \in [Versions -> Nat] /\ moved \in [Versions -> SUBSET Nat]
  BY DEF RefreshInv, RefreshTypes
<1>9. ~Kept => /\ origin' = [origin EXCEPT ![a] = [from |-> origin[a].from, to |-> today]]
               /\ origin'[a] = [from |-> origin[a].from, to |-> today]
  <2>1. origin[a] \in [from : Nat, to : Nat]
    BY <1>1, <1>8
  <2>2. [origin[a] EXCEPT !.to = today] = [from |-> origin[a].from, to |-> today]
    BY <2>1
  <2>3. QED
    BY <1>1, <1>5, <1>8, <2>2
<1>10. RefreshTypes'
  <2>1. origin' \in [Versions -> [from : Nat, to : Nat]]
    <3>1. [from |-> origin[a].from, to |-> today] \in [from : Nat, to : Nat]
      BY <1>1, <1>8
    <3>2. QED
      BY <1>1, <1>5, <1>8, <1>9, <3>1
  <2>2. replaced' \in [Callers -> Versions \cup {None}]
    BY <1>1, <1>5, <1>8
  <2>3. shown' \in Versions \cup {None} /\ bucket' \in Callers \cup {None}
    BY <1>1, <1>5
  <2>4. QED
    BY <1>5, <1>6, <2>1, <2>2, <2>3 DEF RefreshInv, RefreshTypes, Only
<1>11. /\ \A v : Passed(v) => Passed(v)' /\ v # a
       /\ Passed(a)'
  BY <1>1, <1>7 DEF Passed
<1>12. \A b \in Callers : /\ caller'[b].old = caller[b].old
                          /\ caller[b].old # None => Passed(caller[b].old) /\ shown' # caller[b].old
  BY <1>5, <1>7, <1>11 DEF RefreshInv, VersionsPassed
<1>13. VersionsPassed'
  BY <1>5, <1>11, <1>12 DEF VersionsPassed
<1>14. BucketSound'
  BY <1>1, <1>4, <1>5, <1>7 DEF BucketSound
<1>15. CallersSound'
  <2>1. \A b \in Callers \ {a} : CallerSound(b)' /\ JoinedSound(b)'
    BY <1>1, <1>5, <1>6, <1>7, OthersSound DEF Loading
  <2>2. CallerSound(a)'
    BY <1>1, <1>2, <1>3, <1>5, <1>6, <1>7 DEF CallerSound, Only, Loading
  <2>3. JoinedSound(a)'
    BY <1>1, <1>3, <1>7 DEF JoinedSound, Loading
  <2>4. /\ \A b \in finished : b \in Callers \ {a} /\ caller[b].pc = "done"
        /\ inFlight # None => inFlight \in Callers \ {a} /\ caller[inFlight].pc \in {"load", "finish"}
    BY <1>1 DEF RefreshInv, RefreshTypes, CallersSound
  <2>5. QED
    BY <1>5, <1>7, <2>1, <2>2, <2>3, <2>4 DEF CallersSound
<1>16. AllAnswered'
  BY <1>12 DEF AllAnswered, Answered
<1>17. AllRight'
  <2>1. CASE shown' = None
    BY <1>1, <1>4, <1>7, <2>1 DEF AllRight, CallerAt
  <2>2. CASE shown' # None
    <3>1. shown' = a /\ ~Removes(a) /\ CallerAt(a, "publish")
      BY <1>1, <1>5, <2>2 DEF CallerAt
    <3>2. IF Kept THEN Right(a) ELSE refreshableAt[a] = since + Period /\ origin[a].from = since
      BY <3>1 DEF RefreshInv, AllRight
    <3>3. Right(a)'
      <4>1. CASE Kept
        BY <1>5, <3>2, <4>1 DEF Right
      <4>2. CASE ~Kept
        <5>1. since \in origin'[a].from..origin'[a].to /\ refreshableAt'[a] = since + Period
          BY <1>1, <1>3, <1>5, <1>9, <3>2, <4>2
        <5>2. QED
          BY <5>1 DEF Right
      <4>3. QED
        BY <4>1, <4>2
    <3>4. \A b \in Callers : ~CallerAt(b, "publish")'
      BY <1>4, <1>7 DEF CallerAt
    <3>5. QED
      BY <3>1, <3>3, <3>4 DEF AllRight, Right
  <2>3. QED
    BY <2>1, <2>2
<1>18. AllTimely'
  <2> SUFFICES ASSUME NEW b \in Callers PROVE Timely(b)'
    BY DEF AllTimely
  <2>1. Timely(b) /\ Timely(a) /\ \A w \in Callers : Writes(w)' <=> Writes(w)
    BY <1>6 DEF RefreshInv, AllTimely, Only
  <2>2. ~(inFlight' = b /\ ~caller[b].late)
    BY <1>1, <1>5, <2>1 DEF Timely, CallerAt
  <2>3. caller'[b].late = caller[b].late /\ caller'[b].pc \notin {"prepare", "publish"}
    BY <1>4, <1>7
  <2>4. CASE b = a
    <3>1. replaced'[a] = shown /\ (~Writes(a) => caller[a].late \/ shown = caller[a].old)
      BY <1>1, <1>5, <1>8, <2>1 DEF Timely
    <3>2. QED
      BY <1>7, <1>11, <2>1, <2>2, <2>3, <2>4, <3>1 DEF Timely
  <2>5. CASE b # a
    <3>1. replaced'[b] = replaced[b] /\ caller'[b] = caller[b]
      BY <1>5, <1>7, <1>8, <2>5
    <3>2. QED
      BY <1>11, <2>1, <2>2, <2>3, <3>1 DEF Timely
  <2>6. QED
    BY <2>4, <2>5
<1>19. QED
  BY <1>10, <1>13, <1>14, <1>15, <1>16, <1>17, <1>18 DEF RefreshInv

\* The clock advances: what was read from it stays in the past.
LEMMA AdvanceStep ==
    ASSUME RefreshInv, Advance PROVE RefreshInv'
<1>1. /\ UNCHANGED <<rule, shown, refreshableAt, bucket, inFlight, finished, caller, origin, moved, replaced>>
      /\ today' = today + 1 /\ today < MaxToday
  BY DEF Advance, reloadTables, reloadHistory
<1>2. RefreshTypes'
  BY <1>1, RefreshAssumption DEF RefreshInv, RefreshTypes
<1>3. ASSUME NEW a \in Callers PROVE CallerSound(a)' /\ JoinedSound(a)'
  <2>1. caller[a].since \in Nat /\ today \in Nat
    BY RefreshAssumption DEF RefreshInv, RefreshTypes, CallerSet
  <2>2. CallerSound(a) /\ JoinedSound(a)
    BY DEF RefreshInv, CallersSound
  <2>3. caller'[a].since <= today'
    BY <1>1, <2>1, <2>2 DEF CallerSound
  <2>4. Writes(a)' <=> Writes(a)
    BY <1>1 DEF Writes
  <2>5. CallerSound(a)'
    BY <1>1, <2>2, <2>3, <2>4 DEF CallerSound
  <2>6. QED
    BY <1>1, <2>2, <2>5 DEF JoinedSound
<1>4. CallersSound'
  BY <1>1, <1>3 DEF RefreshInv, CallersSound
<1>5. VersionsPassed' /\ BucketSound'
  BY <1>1 DEF RefreshInv, VersionsPassed, BucketSound, Passed
<1>6. AllAnswered' /\ AllRight'
  BY <1>1 DEF RefreshInv, AllAnswered, Answered, AllRight, Right, Kept, CallerAt, Removes
<1>7. AllTimely'
  BY <1>1 DEF RefreshInv, AllTimely, Timely, CallerAt, Writes, Passed
<1>8. QED
  BY <1>2, <1>4, <1>5, <1>6, <1>7 DEF RefreshInv

--------------------------------------------------------------------------------
(* Every state *)

LEMMA RefreshInitInv == RefreshInit => RefreshInv
<1> SUFFICES ASSUME RefreshInit PROVE RefreshInv
  OBVIOUS
<1>1. PICK plan \in Plans :
        /\ rule = plan.rule
        /\ caller = [a \in Callers |-> [NoLoad EXCEPT !.op = plan.ops[a]]]
  BY DEF RefreshInit
<1>2. \A a \in Callers :
        /\ caller[a] \in CallerSet
        /\ caller[a].pc = "off" /\ caller[a].since = 0 /\ caller[a].old = None /\ caller[a].call = None
        /\ caller[a].outcome = "none"
  <2> SUFFICES ASSUME NEW a \in Callers
               PROVE  /\ caller[a] \in CallerSet
                      /\ caller[a].pc = "off" /\ caller[a].since = 0 /\ caller[a].old = None
                      /\ caller[a].call = None /\ caller[a].outcome = "none"
    OBVIOUS
  <2>1. plan.ops[a] \in ReloadOperations \cup {"none"}
    BY <1>1, RefreshAssumption
  <2>2. caller[a] = [NoLoad EXCEPT !.op = plan.ops[a]]
    BY <1>1
  <2>3. caller[a] = [pc |-> "off", op |-> plan.ops[a], since |-> 0, old |-> None, call |-> None,
                     isRefresh |-> FALSE, outcome |-> "none", late |-> FALSE]
    BY <2>2 DEF NoLoad
  <2>4. QED
    BY <2>1, <2>3 DEF CallerSet, Places
<1>3. /\ today = 0 /\ shown \in {None, First} /\ bucket = None /\ inFlight = None /\ finished = {}
      /\ refreshableAt = [v \in Versions |-> IF v = First THEN Period ELSE NeverDue]
      /\ origin = [v \in Versions |-> [from |-> 0, to |-> 0]]
      /\ moved = [v \in Versions |-> {}]
      /\ replaced = [a \in Callers |-> a]
  BY DEF RefreshInit
<1>4. RefreshTypes
  <2>1. caller \in [Callers -> CallerSet]
    BY <1>1, <1>2
  <2>2. NeverDue \in Nat /\ Period \in Nat /\ MaxToday \in Nat
    BY RefreshAssumption DEF NeverDue
  <2>3. shown \in Versions \cup {None} /\ replaced \in [Callers -> Versions \cup {None}]
    BY <1>3 DEF Versions
  <2>4. refreshableAt \in [Versions -> Nat] /\ moved \in [Versions -> SUBSET Nat]
        /\ origin \in [Versions -> [from : Nat, to : Nat]]
    BY <1>3, <2>2
  <2>5. QED
    BY <1>3, <2>1, <2>2, <2>3, <2>4 DEF RefreshTypes
<1>5. \A a \in Callers : a # None /\ a # First
  BY RefreshAssumption
<1>6. VersionsPassed /\ BucketSound
  BY <1>2, <1>3, <1>5 DEF VersionsPassed, BucketSound, Passed
<1>7. CallersSound
  BY <1>2, <1>3 DEF CallersSound, CallerSound, JoinedSound, Loading
<1>8. AllAnswered
  BY <1>2 DEF AllAnswered, Answered
<1>9. AllRight
  <2>1. shown # None => Right(shown)
    <3>1. refreshableAt[First] = 0 + Period /\ 0 \in origin[First].from..origin[First].to
      BY <1>3, RefreshAssumption DEF Versions
    <3>2. QED
      BY <1>3, <3>1 DEF Right
  <2>2. QED
    BY <1>2, <2>1 DEF AllRight, CallerAt
<1>10. AllTimely
  BY <1>2, <1>3, <1>5 DEF AllTimely, Timely
<1>11. QED
  BY <1>4, <1>6, <1>7, <1>8, <1>9, <1>10 DEF RefreshInv

LEMMA RefreshNextInv == RefreshInv /\ [RefreshNext]_refreshVars => RefreshInv'
<1> SUFFICES ASSUME RefreshInv, [RefreshNext]_refreshVars PROVE RefreshInv'
  OBVIOUS
<1>1. CASE Advance
  BY <1>1, AdvanceStep
<1>2. ASSUME NEW a \in Callers,
             \/ BeginCaller(a) \/ LookupVersion(a) \/ CheckAlive(a) \/ CheckFresh(a)
             \/ SetRefreshableAfter(a) \/ StartCall(a) \/ LoadVersion(a) \/ FinishCall(a)
             \/ LockKey(a) \/ Prepare(a) \/ Publish(a) \/ CancelCall(a) \/ WaitForCall(a)
      PROVE  RefreshInv'
  BY <1>2, BeginCallerStep, LookupVersionStep, CheckAliveStep, CheckFreshStep, SetRefreshableAfterStep,
     StartCallStep, LoadVersionStep, FinishCallStep, LockKeyStep, PrepareStep, PublishStep,
     CancelCallStep, WaitForCallStep
<1>3. CASE UNCHANGED refreshVars
  <2>1. UNCHANGED <<today, rule, shown, refreshableAt, bucket, inFlight, finished, caller,
                    origin, moved, replaced>>
    BY <1>3 DEF refreshVars, reloadTables, reloadHistory
  <2>2. RefreshTypes' /\ VersionsPassed' /\ BucketSound'
    BY <2>1 DEF RefreshInv, RefreshTypes, VersionsPassed, BucketSound, Passed
  <2>3. CallersSound'
    BY <2>1 DEF RefreshInv, CallersSound, CallerSound, JoinedSound, Writes
  <2>4. AllAnswered' /\ AllRight' /\ AllTimely'
    BY <2>1 DEF RefreshInv, AllAnswered, Answered, AllRight, Right, Kept, CallerAt, Removes,
                AllTimely, Timely, Writes, Passed
  <2>5. QED
    BY <2>2, <2>3, <2>4 DEF RefreshInv
<1>4. QED
  BY <1>1, <1>2, <1>3 DEF RefreshNext

LEMMA RefreshInvSound == RefreshInv => ReloadsSound
<1> SUFFICES ASSUME RefreshInv PROVE ReloadsSound
  OBVIOUS
<1>1. RefreshAnswered
  <2> SUFFICES ASSUME NEW a \in Callers, CallerAt(a, "done"), caller[a].call # None, caller[a].old # None
               PROVE  shown # caller[a].old \/ caller[caller[a].call].outcome = "error"
    BY DEF RefreshAnswered
  <2>1. JoinedSound(a) /\ Answered(a)
    BY DEF RefreshInv, CallersSound, AllAnswered
  <2>2. caller[caller[a].call].pc = "done"
    BY <2>1 DEF JoinedSound, CallerAt
  <2>3. QED
    BY <2>1, <2>2 DEF Answered
<1>2. DeadlinesRight
  BY DEF RefreshInv, AllRight, Right, DeadlinesRight
<1>3. ReplacesWhatItRead
  BY DEF RefreshInv, AllTimely, Timely, ReplacesWhatItRead
<1>4. QED
  BY <1>1, <1>2, <1>3 DEF ReloadsSound

\* Whatever the operations, the calculator, its period and the backoff: a Get that has found
\* an entry due gets it refreshed, deadlines stem from the operation they should, and a load
\* replaces what it was given.
THEOREM ReloadsAreSound == RefreshSpec => []ReloadsSound
<1>1. RefreshInit => RefreshInv
  BY RefreshInitInv
<1>2. RefreshInv /\ [RefreshNext]_refreshVars => RefreshInv'
  BY RefreshNextInv
<1>3. RefreshInv => ReloadsSound
  BY RefreshInvSound
<1>4. QED
  BY <1>1, <1>2, <1>3, PTL DEF RefreshSpec

===============================================================================
