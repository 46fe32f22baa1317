----------------------------------- MODULE HashMap -----------------------------------
(***************************************************************************)
(* The concurrent hash map (internal/hashmap/map.go): a table of buckets,  *)
(* each a chain of blocks of slots, with a byte of metadata per slot.      *)
(* Reads take no lock.  Compute locks the first block of the chain of its  *)
(* key and runs the caller's function under that lock.  A resize builds    *)
(* another table, with another hash function, and publishes it; those that *)
(* would write meanwhile wait for it.                                      *)
(*                                                                         *)
(* A process takes one step per access to something that others may change *)
(* at that moment; an unlock is part of the step before it.                *)
(***************************************************************************)
EXTENDS Integers, FiniteSets, Sequences, FiniteSetsExt

EmptySlot == "empty"

CONSTANTS
    Procs, Keys,
    Ops,          \* what each process may call: "get", "set", "delete", "range"
    MaxCalls,     \* bound: how often
    Held,         \* the sets of keys the map may hold at first
    Slots,        \* nodesPerMapBucket
    MinTableLen,
    ShrinkFraction,
    Hashes,       \* the hash functions a table may get: key to [h1, h2]
    None

ASSUME HashMapAssumption ==
    /\ Ops \in [Procs -> SUBSET {"get", "set", "delete", "range"}]
    /\ MaxCalls \in [Procs -> Nat]
    /\ IsFiniteSet(Procs) /\ IsFiniteSet(Keys)
    /\ Held \subseteq SUBSET Keys
    /\ {Slots, MinTableLen, ShrinkFraction} \subseteq Nat \ {0}
    /\ \A h \in Hashes : DOMAIN h = Keys /\ \A k \in Keys : h[k].h1 \in Nat /\ h[k].h2 # EmptySlot
    /\ None \notin Keys \cup Procs \cup (Keys \X (Procs \cup {None}))

\* A node: its key, and the process that made it.
Nodes == Keys \X (Procs \cup {None})

VARIABLES
    tables,    \* the tables allocated so far
    current,   \* the one that is published
    locks,     \* the buckets that are locked: <<table, index>>
    resizing,
    asleep,    \* who waits on resizeCond
    pc, my,    \* where each process is, and its local variables
    calls,     \* how many calls each process has made
    got,       \* what its last read has answered
    \* history
    contents,  \* what a read that begins now and meets nobody finds
    seen,      \* what the key of a read has held since the read began
    present    \* the keys that were in the map all the time since a Range began

shared  == <<tables, current, locks, resizing, asleep>>
history == <<contents, seen, present>>
vars    == <<shared, pc, my, calls, got, history>>

--------------------------------------------------------------------------------
(* Tables *)

EmptyBlock == [meta  |-> [s \in 1..Slots |-> EmptySlot],
               nodes |-> [s \in 1..Slots |-> None]]

NewMapTable(len, h) == [hash |-> h, buckets |-> [i \in 0..(len - 1) |-> <<EmptyBlock>>],
                        size |-> 0]

TableLen(table)      == Cardinality(DOMAIN table.buckets)
BucketOf(table, k)   == table.hash[k].h1 % TableLen(table)
Tag(table, k)        == table.hash[k].h2
ChainOf(table, k)    == table.buckets[BucketOf(table, k)]

Places(chain) == (1..Len(chain)) \X (1..Slots)
Meta(chain, x) == chain[x[1]].meta[x[2]]
Node(chain, x) == chain[x[1]].nodes[x[2]]
Before(x, y) == x[1] < y[1] \/ (x[1] = y[1] /\ x[2] <= y[2])
First(S) == CHOOSE x \in S : \A y \in S : Before(x, y)
Final(S) == CHOOSE x \in S : \A y \in S : Before(y, x)

\* The slots that hold key k, as far as the metadata and the nodes tell.
Holding(chain, k, tag) ==
    {x \in Places(chain) : Meta(chain, x) = tag /\ Node(chain, x) # None /\ Node(chain, x)[1] = k}
Vacant(chain) == {x \in Places(chain) : Meta(chain, x) = EmptySlot}
Taken(chain)  == {x \in Places(chain) : Node(chain, x) # None}

PutMeta(chain, x, tag) == [chain EXCEPT ![x[1]].meta[x[2]] = tag]
PutNode(chain, x, n)   == [chain EXCEPT ![x[1]].nodes[x[2]] = n]
NewBlock(n, tag)       == [meta  |-> [EmptyBlock.meta EXCEPT ![1] = tag],
                           nodes |-> [EmptyBlock.nodes EXCEPT ![1] = n]]

AppendToBucket(chain, n, tag) ==
    LET free == {x \in Places(chain) : Node(chain, x) = None}
    IN  IF free = {} THEN Append(chain, NewBlock(n, tag))
        ELSE PutNode(PutMeta(chain, First(free), tag), First(free), n)

\* A node is put into its bucket, and counted.
Put(table, n) ==
    [table EXCEPT !.size = @ + 1,
                  !.buckets[BucketOf(table, n[1])] = AppendToBucket(@, n, Tag(table, n[1]))]

\* The nodes of a chain one after the other.
PutAll(chain, to) ==
    MapThenFoldSet(LAMBDA n, t : Put(t, n), to, LAMBDA x : Node(chain, x), Final, Taken(chain))

\* Mutant: the nodes are distributed by the hash function of the old table.
CopyByOldHash(chain, from, to) ==
    [PutAll(chain, [to EXCEPT !.hash = from.hash]) EXCEPT !.hash = to.hash]

\* Mutant: what is copied is not counted.
CopyUncounted(chain, from, to) == [PutAll(chain, to) EXCEPT !.size = to.size]

CopyNodes(chain, from, to) == PutAll(chain, to)

SumSize(table) == IF table.size < 0 THEN 0 ELSE table.size
GrowThreshold(len)   == (3 * len * Slots) \div 4
ShrinkThreshold(len) == (len * Slots) \div ShrinkFraction

Contents ==
    [k \in Keys |->
        LET chain == ChainOf(tables[current], k)
            found == Holding(chain, k, Tag(tables[current], k))
        IN  IF found = {} THEN None ELSE Node(chain, First(found))]

--------------------------------------------------------------------------------

NoCall == [op |-> "none", key |-> None, table |-> 0, block |-> 0, marked |-> {},
           place |-> <<0, 0>>, delta |-> 0, saw |-> None, hint |-> "none", new |-> 0,
           todo |-> {}, visited |-> [k \in Keys |-> 0]]

\* A map that was filled when nobody else was there, and has grown if it had to.
Init ==
    /\ \E K \in Held, h \in Hashes :
         LET len == IF Cardinality(K) > ShrinkThreshold(2 * MinTableLen) THEN 2 * MinTableLen
                    ELSE MinTableLen
         IN  tables = << FoldSet(LAMBDA k, t : Put(t, <<k, None>>), NewMapTable(len, h), K) >>
    /\ current = 1
    /\ locks = {}
    /\ resizing = FALSE
    /\ asleep = {}
    /\ pc = [p \in Procs |-> "off"]
    /\ my = [p \in Procs |-> NoCall]
    /\ calls = [p \in Procs |-> 0]
    /\ got = [p \in Procs |-> None]
    /\ contents = Contents
    /\ seen = [p \in Procs |-> {}]
    /\ present = [p \in Procs |-> {}]

Step(p, from, to)  == pc[p] = from /\ pc' = [pc EXCEPT ![p] = to]
Set(p, field, v)   == my' = [my EXCEPT ![p] = [@ EXCEPT ![field] = v]]
Table(p)           == tables[my[p].table]
Chain(p)           == ChainOf(Table(p), my[p].key)
MyBucket(p)        == <<my[p].table, BucketOf(Table(p), my[p].key)>>
MyTag(p)           == Tag(Table(p), my[p].key)
SetChain(p, chain) == tables' = [tables EXCEPT ![my[p].table].buckets[MyBucket(p)[2]] = chain]
Unlock(p)          == locks' = locks \ {MyBucket(p)}

Begin(p) ==
    /\ pc[p] = "off"
    /\ calls[p] < MaxCalls[p]
    /\ calls' = [calls EXCEPT ![p] = @ + 1]
    /\ UNCHANGED <<shared, got>>

Return(p, from) == Step(p, from, "off") /\ my' = [my EXCEPT ![p] = NoCall]

--------------------------------------------------------------------------------
(* Get *)

Get(p) ==
    /\ Begin(p) /\ Step(p, "off", "meta")
    /\ "get" \in Ops[p]
    /\ \E k \in Keys :
         my' = [my EXCEPT ![p] = [NoCall EXCEPT !.op = "get", !.key = k, !.table = current,
                                                !.block = 1]]

LoadMeta(p) ==
    /\ Step(p, "meta", "nodes")
    /\ Set(p, "marked", {s \in 1..Slots : Chain(p)[my[p].block].meta[s] = MyTag(p)})
    /\ UNCHANGED <<shared, calls, got>>

\* The marked slots one by one; the node decides.
LoadNode(p) ==
    /\ pc[p] = "nodes" /\ my[p].marked # {}
    /\ LET s == CHOOSE m \in my[p].marked : \A x \in my[p].marked : m <= x
           n == Chain(p)[my[p].block].nodes[s]
       IN  IF n # None /\ n[1] = my[p].key
           THEN Return(p, "nodes") /\ got' = [got EXCEPT ![p] = n]
           ELSE /\ Step(p, "nodes", "nodes")
                /\ Set(p, "marked", my[p].marked \ {s})
                /\ UNCHANGED got
    /\ UNCHANGED <<shared, calls>>

LoadNext(p) ==
    /\ pc[p] = "nodes" /\ my[p].marked = {}
    /\ IF my[p].block < Len(Chain(p))
       THEN Step(p, "nodes", "meta") /\ Set(p, "block", my[p].block + 1) /\ UNCHANGED got
       ELSE Return(p, "nodes") /\ got' = [got EXCEPT ![p] = None]
    /\ UNCHANGED <<shared, calls>>

--------------------------------------------------------------------------------
(* Compute: the caller's function sets the key, or deletes it if it is there *)

Compute(p) ==
    /\ Begin(p) /\ Step(p, "off", "lock")
    /\ \E k \in Keys, o \in Ops[p] \cap {"set", "delete"} :
         my' = [my EXCEPT ![p] = [NoCall EXCEPT !.op = o, !.key = k, !.table = current]]

\* Another turn of the loop.
LoadTable(p) ==
    /\ Step(p, "loadTable", "lock")
    /\ Set(p, "table", current)
    /\ UNCHANGED <<shared, calls, got>>

LockBucket(p) ==
    /\ Step(p, "lock", "checkResize")
    /\ MyBucket(p) \notin locks
    /\ locks' = locks \cup {MyBucket(p)}
    /\ UNCHANGED <<tables, current, resizing, asleep, my, calls, got>>

\* Mutant: it does not look whether the table is being copied.
CheckNoResize(p) ==
    /\ Step(p, "checkResize", "checkTable")
    /\ UNCHANGED <<shared, my, calls, got>>

CheckResize(p) ==
    /\ IF resizing THEN Step(p, "checkResize", "wait") /\ Unlock(p)
       ELSE Step(p, "checkResize", "checkTable") /\ UNCHANGED locks
    /\ UNCHANGED <<tables, current, resizing, asleep, my, calls, got>>

CheckTable(p) ==
    /\ IF current # my[p].table THEN Step(p, "checkTable", "loadTable") /\ Unlock(p)
       ELSE Step(p, "checkTable", "search") /\ UNCHANGED locks
    /\ UNCHANGED <<tables, current, resizing, asleep, my, calls, got>>

Found(p) == Holding(Chain(p), my[p].key, MyTag(p))

SearchFound(p) ==
    /\ pc[p] = "search" /\ Found(p) # {}
    /\ Step(p, "search", IF my[p].op = "delete" THEN "clearMeta" ELSE "storeNode")
    /\ my' = [my EXCEPT ![p].place = First(Found(p)),
                        ![p].saw = Node(Chain(p), First(Found(p))),
                        ![p].delta = IF my[p].op = "delete" THEN -1 ELSE 0]
    /\ UNCHANGED <<shared, calls, got>>

\* No slot for another node, and too many nodes for a table of this length.
Crowded(p) == Vacant(Chain(p)) = {} /\ SumSize(Table(p)) > GrowThreshold(TableLen(Table(p)))

\* The function keeps things as they are.
SearchNothing(p) ==
    /\ pc[p] = "search" /\ Found(p) = {} /\ ~Crowded(p) /\ my[p].op = "delete"
    /\ Return(p, "search")
    /\ Unlock(p)
    /\ UNCHANGED <<tables, current, resizing, asleep, calls, got>>

SearchVacant(p) ==
    /\ pc[p] = "search" /\ Found(p) = {} /\ my[p].op = "set" /\ Vacant(Chain(p)) # {}
    /\ Step(p, "search", "storeMeta")
    /\ my' = [my EXCEPT ![p].place = First(Vacant(Chain(p))), ![p].delta = 1]
    /\ UNCHANGED <<shared, calls, got>>

\* Whatever the function would do: grow the table, then try again.
SearchCrowded(p) ==
    /\ pc[p] = "search" /\ Found(p) = {} /\ Crowded(p)
    /\ Step(p, "search", "casResizing")
    /\ Set(p, "hint", "grow")
    /\ Unlock(p)
    /\ UNCHANGED <<tables, current, resizing, asleep, calls, got>>

\* Otherwise a full chain gets another block.
SearchFull(p) ==
    /\ pc[p] = "search" /\ Found(p) = {} /\ my[p].op = "set"
    /\ Vacant(Chain(p)) = {} /\ ~Crowded(p)
    /\ Step(p, "search", "addSize")
    /\ Set(p, "delta", 1)
    /\ SetChain(p, Append(Chain(p), NewBlock(<<my[p].key, p>>, MyTag(p))))
    /\ Unlock(p)
    /\ UNCHANGED <<current, resizing, asleep, calls, got>>

\* Mutant: the metadata is written after the node has become visible.
StoreWrongMeta(p) ==
    /\ Step(p, "storeMeta", "storeNode")
    /\ SetChain(p, PutMeta(Chain(p), my[p].place, EmptySlot))
    /\ UNCHANGED <<current, locks, resizing, asleep, my, calls, got>>

StoreMeta(p) ==
    /\ Step(p, "storeMeta", "storeNode")
    /\ SetChain(p, PutMeta(Chain(p), my[p].place, MyTag(p)))
    /\ UNCHANGED <<current, locks, resizing, asleep, my, calls, got>>

StoreNode(p) ==
    /\ pc[p] = "storeNode"
    /\ SetChain(p, PutNode(Chain(p), my[p].place, <<my[p].key, p>>))
    /\ IF my[p].delta = 0 THEN Return(p, "storeNode")
       ELSE Step(p, "storeNode", "addSize") /\ UNCHANGED my
    /\ Unlock(p)
    /\ UNCHANGED <<current, resizing, asleep, calls, got>>

ClearMeta(p) ==
    /\ Step(p, "clearMeta", "clearNode")
    /\ SetChain(p, PutMeta(Chain(p), my[p].place, EmptySlot))
    /\ UNCHANGED <<current, locks, resizing, asleep, my, calls, got>>

\* A block that has become empty is a reason to try and shrink the table.
ClearNode(p) ==
    /\ Step(p, "clearNode", "addSize")
    /\ SetChain(p, PutNode(Chain(p), my[p].place, None))
    /\ Set(p, "hint", IF Chain(p)[my[p].place[1]].meta = EmptyBlock.meta THEN "shrink" ELSE "none")
    /\ Unlock(p)
    /\ UNCHANGED <<current, resizing, asleep, calls, got>>

AddSize(p) ==
    /\ IF my[p].hint = "shrink" THEN Step(p, "addSize", "shrinkFast") /\ UNCHANGED my
       ELSE Return(p, "addSize")
    /\ tables' = [tables EXCEPT ![my[p].table].size = @ + my[p].delta]
    /\ UNCHANGED <<current, locks, resizing, asleep, calls, got>>

--------------------------------------------------------------------------------
(* resize *)

\* Where a process goes on that has resized, or waited for the resize of another.
GoOn(p, from) == IF my[p].hint = "shrink" THEN Return(p, from)
                 ELSE Step(p, from, "loadTable") /\ Set(p, "hint", "none")

ShrinkFast(p) ==
    /\ pc[p] = "shrinkFast"
    /\ LET len == TableLen(Table(p))
       IN  IF len = MinTableLen \/ SumSize(Table(p)) > ShrinkThreshold(len)
           THEN Return(p, "shrinkFast")
           ELSE Step(p, "shrinkFast", "casResizing") /\ UNCHANGED my
    /\ UNCHANGED <<shared, calls, got>>

CasResizing(p) ==
    /\ Step(p, "casResizing", IF resizing THEN "wait" ELSE "newTable")
    /\ resizing' = TRUE
    /\ UNCHANGED <<tables, current, locks, asleep, my, calls, got>>

\* Mutant: a shrink does not look again at the table there is now.
ShrinkAnyway(p) ==
    LET len == TableLen(tables[current])
    IN  /\ Step(p, "newTable", "copy")
        /\ \E h \in Hashes :
             tables' = Append(tables,
                              NewMapTable(IF my[p].hint = "shrink" THEN len \div 2 ELSE 2 * len, h))
        /\ my' = [my EXCEPT ![p].table = current, ![p].new = Len(tables'),
                            ![p].todo = 0..(len - 1)]
        /\ UNCHANGED <<current, locks, resizing, asleep, calls, got>>

NewTable(p) ==
    LET len    == TableLen(tables[current])
        shrink == my[p].hint = "shrink"
    IN  /\ IF shrink /\ ~(len > MinTableLen /\ SumSize(tables[current]) <= ShrinkThreshold(len))
           THEN Step(p, "newTable", "endResize") /\ UNCHANGED <<tables, my>>
           ELSE /\ Step(p, "newTable", "copy")
                /\ \E h \in Hashes :
                     tables' = Append(tables,
                                      NewMapTable(IF shrink THEN len \div 2 ELSE 2 * len, h))
                /\ my' = [my EXCEPT ![p].table = current, ![p].new = Len(tables'),
                                    ![p].todo = 0..(len - 1)]
        /\ UNCHANGED <<current, locks, resizing, asleep, calls, got>>

\* copyBucket, one bucket after the other, or copyBucketWithDestLock, in any order.
CopyBucket(p) ==
    /\ Step(p, "copy", "copy")
    /\ \E i \in my[p].todo :
         /\ <<my[p].table, i>> \notin locks
         /\ tables' = [tables EXCEPT ![my[p].new] =
                            CopyNodes(Table(p).buckets[i], Table(p), @)]
         /\ Set(p, "todo", my[p].todo \ {i})
    /\ UNCHANGED <<current, locks, resizing, asleep, calls, got>>

Publish(p) ==
    /\ my[p].todo = {}
    /\ Step(p, "copy", "endResize")
    /\ current' = my[p].new
    /\ UNCHANGED <<tables, locks, resizing, asleep, my, calls, got>>

\* Under resizeMu: the flag and the broadcast.
EndResize(p) ==
    /\ GoOn(p, "endResize")
    /\ resizing' = FALSE
    /\ asleep' = {}
    /\ UNCHANGED <<tables, current, locks, calls, got>>

\* Mutant: it does not look at the flag again under resizeMu.
WaitAnyway(p) ==
    /\ Step(p, "wait", "asleep") /\ asleep' = asleep \cup {p} /\ UNCHANGED my
    /\ UNCHANGED <<tables, current, locks, resizing, calls, got>>

\* waitForResize: under resizeMu, which the wait releases.
WaitForResize(p) ==
    /\ IF resizing
       THEN Step(p, "wait", "asleep") /\ asleep' = asleep \cup {p} /\ UNCHANGED my
       ELSE GoOn(p, "wait") /\ UNCHANGED asleep
    /\ UNCHANGED <<tables, current, locks, resizing, calls, got>>

WakeUp(p) ==
    /\ Step(p, "asleep", "wait")
    /\ p \notin asleep
    /\ UNCHANGED <<shared, my, calls, got>>

--------------------------------------------------------------------------------
(* Range *)

BeginRange(p) ==
    /\ Begin(p) /\ Step(p, "off", "range")
    /\ "range" \in Ops[p]
    /\ my' = [my EXCEPT ![p] = [NoCall EXCEPT !.op = "range", !.table = current,
                                              !.todo = 0..(TableLen(tables[current]) - 1)]]

\* How often each key has been visited, with the nodes of this chain.
Visit(p, chain) ==
    [k \in Keys |-> my[p].visited[k] + Cardinality({x \in Taken(chain) : Node(chain, x)[1] = k})]

\* Mutant: every bucket is taken from the table that is published by then.
RangeCurrent(p) ==
    /\ Step(p, "range", "range")
    /\ my[p].todo # {}
    /\ LET i == CHOOSE b \in my[p].todo : \A c \in my[p].todo : b <= c
       IN  my' = [my EXCEPT ![p].todo = @ \ {i},
                            ![p].visited = IF i \in DOMAIN tables[current].buckets
                                           THEN Visit(p, tables[current].buckets[i]) ELSE @]
    /\ UNCHANGED <<shared, calls, got>>

\* A bucket is copied under its lock; its nodes are visited afterwards.
RangeBucket(p) ==
    /\ Step(p, "range", "range")
    /\ my[p].todo # {}
    /\ LET i == CHOOSE b \in my[p].todo : \A c \in my[p].todo : b <= c
       IN  /\ <<my[p].table, i>> \notin locks
           /\ my' = [my EXCEPT ![p].todo = @ \ {i},
                               ![p].visited = Visit(p, Table(p).buckets[i])]
    /\ UNCHANGED <<shared, calls, got>>

RangeEnd(p) ==
    /\ pc[p] = "range" /\ my[p].todo = {}
    /\ Return(p, "range")
    /\ UNCHANGED <<shared, calls, got>>

--------------------------------------------------------------------------------

\* What the readers could have seen, and the keys that have not been missing.
Observe ==
    /\ contents' = Contents'
    /\ seen' = [p \in Procs |->
          IF my'[p].op # "get" THEN {}
          ELSE (IF pc[p] = "off" THEN {} ELSE seen[p]) \cup {contents'[my'[p].key]}]
    /\ present' = [p \in Procs |->
          IF my'[p].op # "range" THEN {}
          ELSE {k \in (IF pc[p] = "off" THEN Keys ELSE present[p]) : contents'[k] # None}]

Next ==
    \E p \in Procs :
        /\ \/ Get(p) \/ LoadMeta(p) \/ LoadNode(p) \/ LoadNext(p)
           \/ Compute(p) \/ LoadTable(p) \/ LockBucket(p) \/ CheckResize(p) \/ CheckTable(p)
           \/ SearchFound(p) \/ SearchNothing(p) \/ SearchVacant(p) \/ SearchCrowded(p) \/ SearchFull(p)
           \/ StoreMeta(p) \/ StoreNode(p) \/ ClearMeta(p) \/ ClearNode(p) \/ AddSize(p)
           \/ ShrinkFast(p) \/ CasResizing(p) \/ NewTable(p) \/ CopyBucket(p) \/ Publish(p)
           \/ EndResize(p) \/ WaitForResize(p) \/ WakeUp(p)
           \/ BeginRange(p) \/ RangeBucket(p) \/ RangeEnd(p)
        /\ Observe

Spec == Init /\ [][Next]_vars

--------------------------------------------------------------------------------
(* Properties *)

\* The length of a table is the least one times a power of two: it is the least, or twice
\* as long as that or as some other table.
LengthSound(t) ==
    LET len == TableLen(tables[t])
    IN  /\ len >= MinTableLen
        /\ \/ len \in {MinTableLen, 2 * MinTableLen}
           \/ \E u \in DOMAIN tables : len = 2 * TableLen(tables[u])

\* The variables stay in their ranges.
TypeOK ==
    /\ current \in DOMAIN tables
    /\ \A t \in DOMAIN tables :
         /\ LengthSound(t)
         /\ tables[t].size \in Int
         /\ \A i \in DOMAIN tables[t].buckets : \A b \in DOMAIN tables[t].buckets[i] :
              tables[t].buckets[i][b].nodes \in [1..Slots -> Nodes \cup {None}]
    /\ resizing \in BOOLEAN
    /\ asleep \subseteq Procs
    /\ got \in [Procs -> Nodes \cup {None}]

\* The map implements AtomicMap: every call changes its key at one instant, no resize
\* adds, loses or reverts a key, and a read without locks, over a slot or a table that
\* is being changed under it, answers with something the key has held meanwhile.
Reading == [p \in Procs |-> IF my[p].op = "get" THEN my[p].key ELSE None]
Writing == [p \in Procs |->
    IF /\ my[p].op \in {"set", "delete"} /\ my[p].hint # "shrink"
       /\ pc[p] \notin {"clearNode", "addSize"}
    THEN my[p].key ELSE None]
Abstract == INSTANCE AtomicMap WITH reading <- Reading, writing <- Writing
MapHolds == Abstract!Spec

\* Compute is atomic: between the moment its function has seen the old node and the
\* moment the new one is in place, nobody else changes the key, and the table it is
\* working in is the one that readers will use.
ComputeAtomic ==
    \A p \in Procs :
        pc[p] \in {"storeMeta", "storeNode", "clearMeta"} =>
            my[p].table = current /\ contents[my[p].key] = my[p].saw

\* In every bucket nobody holds, the metadata tells exactly which slots are taken and
\* by what, every key is in the bucket its hash function says, and once in the table.
WellPlaced ==
    \A i \in DOMAIN tables[current].buckets :
        <<current, i>> \notin locks =>
            LET t == tables[current]
                c == t.buckets[i]
            IN  \A x \in Places(c) :
                  IF Node(c, x) = None THEN Meta(c, x) = EmptySlot
                  ELSE /\ Meta(c, x) = Tag(t, Node(c, x)[1])
                       /\ BucketOf(t, Node(c, x)[1]) = i
                       /\ \A y \in Places(c) : Node(c, y) # None /\ Node(c, y)[1] = Node(c, x)[1] => x = y

\* EstimatedSize is exact but for the writers that have still to count their change:
\* a resize counts for the new table what the old one's counter may never learn.
Uncounted(p) == pc[p] = "addSize" /\ my[p].table = current
SizeAccounted ==
    LET nodes == {x \in UNION {{i} \X Places(tables[current].buckets[i]) :
                                  i \in DOMAIN tables[current].buckets} :
                    Node(tables[current].buckets[x[1]], x[2]) # None}
        adding   == {p \in Procs : Uncounted(p) /\ my[p].delta = 1}
        removing == {p \in Procs : Uncounted(p) /\ my[p].delta = -1}
    IN  tables[current].size + Cardinality(adding) - Cardinality(removing) = Cardinality(nodes)

\* The tables keep their shape, their buckets are in order, and the counter is exact.
TableSound == TypeOK /\ WellPlaced /\ SizeAccounted

\* Nobody sleeps on a resize that is over: the last one to wake the waiters has not
\* left while somebody was about to fall asleep.
NobodyOversleeps == ~resizing => asleep = {}

\* Range visits every key that was there all the time, and no key twice, although
\* the table may be replaced meanwhile. (InvalidateAll relies on the first.)
RangeComplete ==
    \A p \in Procs :
        pc[p] = "range" =>
            \A k \in Keys : /\ my[p].visited[k] <= 1
                            /\ my[p].todo = {} /\ k \in present[p] => my[p].visited[k] = 1

=============================================================================
