------------------------------ MODULE HashMapProofs ------------------------------
(***************************************************************************)
(* Proofs about HashMap, for every number of processes and of keys, every  *)
(* family of hash functions, every size of a block and every length of a   *)
(* table.                                                                  *)
(*                                                                         *)
(* The inductive invariant Inv says of the tables that each key has one    *)
(* place in each of them, in the bucket its hash function says, and that   *)
(* the metadata of a slot agrees with its node (Placed) unless a process   *)
(* is between the two writes to it (Disturbed); that process holds the     *)
(* lock of the bucket (Locking). While a table is copied, what has been    *)
(* copied of it is still what the published table holds (Copied): nobody   *)
(* writes to a bucket that has been copied, since whoever writes has       *)
(* looked, under the lock of the bucket, whether somebody resizes          *)
(* (Outpaced), and then whether its table is the published one             *)
(* (InPublished).                                                          *)
(*                                                                         *)
(* Of a reader without locks it says that it may already answer that there *)
(* is no node, unless one is still ahead of it, and that every node it can *)
(* come to is one that its key has had since it began (Foreseen).  Of a    *)
(* Range it says how often it has visited each key (Ranged), and of the    *)
(* counter of the published table which processes have still to correct it *)
(* (SizeAccounted).                                                        *)
(*                                                                         *)
(* The first part is about the operators, by induction over finite sets    *)
(* where they fold (module Folding). Then come what each action does       *)
(* (lemmas XDoes), that it keeps the invariant but for the history         *)
(* variables (XKeeps), what it writes (XWrites), what it does to readers   *)
(* (XForesees), to Ranges (XCounts) and to the counter (XAccounts), and    *)
(* how the abstract map sees it (XCalm, Commits).                          *)
(***************************************************************************)
EXTENDS HashMap, FiniteSetTheorems, SequenceTheorems, TLAPS

--------------------------------------------------------------------------------
(* Chains and tables *)

Tags      == {EmptySlot} \cup {h[k].h2 : h \in Hashes, k \in Keys}
Blocks    == [meta : [1..Slots -> Tags], nodes : [1..Slots -> Nodes \cup {None}]]
Chains    == Seq(Blocks) \ {<<>>}
AllTables == [hash : Hashes, buckets : UNION {[0..(n - 1) -> Chains] : n \in Nat \ {0}},
              size : Int]

\* The places of a chain, and what is there.
LEMMA PlacesTyped ==
    ASSUME NEW c \in Chains
    PROVE  /\ Len(c) \in Nat \ {0} /\ Slots \in Nat \ {0}
           /\ \A x \in Places(c) : /\ x[1] \in 1..Len(c) /\ x[2] \in 1..Slots /\ x = <<x[1], x[2]>>
                                   /\ Meta(c, x) \in Tags /\ Node(c, x) \in Nodes \cup {None}
           /\ \A b \in 1..Len(c) : \A s \in 1..Slots : <<b, s>> \in Places(c)
<1>1. c \in Seq(Blocks) /\ c # <<>> /\ Slots \in Nat \ {0}
  BY HashMapAssumption DEF Chains
<1>2. Len(c) \in Nat \ {0} /\ \A b \in 1..Len(c) : c[b] \in Blocks
  <2>1. Len(c) \in Nat /\ \A b \in 1..Len(c) : c[b] \in Blocks
    BY <1>1, LenProperties, ElementOfSeq
  <2>2. Len(c) # 0
    BY <1>1, EmptySeq
  <2>3. QED
    BY <2>1, <2>2
<1>3. \A x \in Places(c) : x[1] \in 1..Len(c) /\ x[2] \in 1..Slots /\ x = <<x[1], x[2]>>
  BY DEF Places
<1>4. ASSUME NEW x \in Places(c)
      PROVE  Meta(c, x) \in Tags /\ Node(c, x) \in Nodes \cup {None}
  <2>1. c[x[1]] \in Blocks /\ x[2] \in 1..Slots
    BY <1>2, <1>3
  <2>2. QED
    BY <2>1 DEF Blocks, Meta, Node
<1>5. QED
  BY <1>1, <1>2, <1>3, <1>4 DEF Places

\* A node has a key.
LEMMA NodeHasKey ==
    ASSUME NEW n \in Nodes
    PROVE  n[1] \in Keys /\ n # None
<1>1. n \in Keys \X (Procs \cup {None})
  BY DEF Nodes
<1>2. QED
  BY <1>1, HashMapAssumption

\* The length of a table, and the bucket and the tag it gives a key.
LEMMA TableTyped ==
    ASSUME NEW t \in AllTables
    PROVE  /\ TableLen(t) \in Nat \ {0} /\ DOMAIN t.buckets = 0..(TableLen(t) - 1)
           /\ \A i \in DOMAIN t.buckets : t.buckets[i] \in Chains
           /\ \A k \in Keys : /\ BucketOf(t, k) \in DOMAIN t.buckets /\ ChainOf(t, k) \in Chains
                              /\ Tag(t, k) \in Tags /\ Tag(t, k) # EmptySlot
<1>1. PICK n \in Nat \ {0} : t.buckets \in [0..(n - 1) -> Chains]
  BY DEF AllTables
<1>2. t.hash \in Hashes
  BY DEF AllTables
<1>3. TableLen(t) = n
  <2>1. DOMAIN t.buckets = 0..(n - 1)
    BY <1>1
  <2>2. Cardinality(0..(n - 1)) = n
    BY FS_Interval
  <2>3. QED
    BY <2>1, <2>2 DEF TableLen
<1>4. DOMAIN t.buckets = 0..(n - 1) /\ \A i \in DOMAIN t.buckets : t.buckets[i] \in Chains
  BY <1>1
<1>5. ASSUME NEW k \in Keys
      PROVE  /\ BucketOf(t, k) \in DOMAIN t.buckets /\ ChainOf(t, k) \in Chains
             /\ Tag(t, k) \in Tags /\ Tag(t, k) # EmptySlot
  <2>1. t.hash[k].h1 \in Nat /\ t.hash[k].h2 # EmptySlot
    BY <1>2, HashMapAssumption
  <2>2. BucketOf(t, k) = t.hash[k].h1 % n
    BY <1>3 DEF BucketOf
  <2>3. t.hash[k].h1 % n \in 0..(n - 1)
    <3>1. PICK h \in Nat : h = t.hash[k].h1
      BY <2>1
    <3>2. h % n \in 0..(n - 1)
      OBVIOUS
    <3>3. QED
      BY <3>1, <3>2
  <2>4. BucketOf(t, k) \in DOMAIN t.buckets
    BY <1>4, <2>2, <2>3
  <2>5. QED
    BY <1>2, <1>4, <2>1, <2>4 DEF ChainOf, Tag, Tags
<1>6. QED
  BY <1>3, <1>4, <1>5

\* A fold is given its context, which for a chain of nodes is the chain itself.
PutOne(chain, t, x) == Put(t, Node(chain, x))
PutNew(c, t, k)     == Put(t, <<k, None>>)
IsTable(c, t)       == t \in AllTables
AnyOf(S)            == CHOOSE x \in S : TRUE
Copies == INSTANCE Folding WITH Step <- PutOne, Good <- IsTable, Pick <- Final
Fills  == INSTANCE Folding WITH Step <- PutNew, Good <- IsTable, Pick <- AnyOf

\* A set of numbers below a bound has a greatest one.
LEMMA GreatestNumber ==
    ASSUME NEW bound \in Nat, NEW T, T \subseteq 0..bound, T # {}
    PROVE  \E n \in T : \A m \in T : m <= n
<1> DEFINE U == {bound - n : n \in T}
<1>1. U \subseteq Nat /\ U # {}
  <2>1. \A n \in T : bound - n \in Nat
    OBVIOUS
  <2>2. QED
    BY <2>1
<1>2. PICK u \in U : \A v \in U : u <= v
  <2> HIDE DEF U
  <2>1. QED
    BY <1>1, Copies!LeastNumber
<1>3. PICK n \in T : u = bound - n
  BY <1>2
<1>4. ASSUME NEW m \in T PROVE m <= n
  <2>1. u <= bound - m
    BY <1>2
  <2>2. n \in 0..bound /\ m \in 0..bound
    OBVIOUS
  <2>3. QED
    BY <1>3, <2>1, <2>2
<1>5. QED
  BY <1>4

\* Some places of a chain have a first one and a last one.
LEMMA FirstPlace ==
    ASSUME NEW c \in Chains, NEW S, S \subseteq Places(c), S # {}
    PROVE  First(S) \in S /\ Final(S) \in S
<1>1. /\ Len(c) \in Nat /\ Slots \in Nat
      /\ \A x \in S : x[1] \in 1..Len(c) /\ x[2] \in 1..Slots
  BY PlacesTyped
<1>2. \E x \in S : \A y \in S : Before(x, y)
  <2> DEFINE A == {x[1] : x \in S}
  <2>1. A \subseteq Nat /\ A # {}
    BY <1>1
  <2>2. PICK a \in A : \A b \in A : a <= b
    <3> HIDE DEF A
    <3>1. QED
      BY <2>1, Copies!LeastNumber
  <2> DEFINE B == {x[2] : x \in {y \in S : y[1] = a}}
  <2>3. B \subseteq Nat /\ B # {}
    BY <1>1, <2>2
  <2>4. PICK b \in B : \A d \in B : b <= d
    <3> HIDE DEF B
    <3>1. QED
      BY <2>3, Copies!LeastNumber
  <2>5. PICK x \in S : x[1] = a /\ x[2] = b
    BY <2>4
  <2>6. ASSUME NEW y \in S PROVE Before(x, y)
    <3>1. a <= y[1] /\ y[1] \in Nat /\ a \in Nat
      BY <1>1, <2>1, <2>2
    <3>2. y[1] = a => b <= y[2]
      BY <2>4
    <3>3. a < y[1] \/ a = y[1]
      BY <3>1
    <3>4. QED
      BY <2>5, <3>2, <3>3 DEF Before
  <2>7. QED
    BY <2>6
<1>3. \E x \in S : \A y \in S : Before(y, x)
  <2> DEFINE A == {x[1] : x \in S}
  <2>1. A \subseteq 0..Len(c) /\ A # {}
    BY <1>1
  <2>2. PICK a \in A : \A b \in A : b <= a
    <3> HIDE DEF A
    <3>1. QED
      BY <1>1, <2>1, GreatestNumber
  <2> DEFINE B == {x[2] : x \in {y \in S : y[1] = a}}
  <2>3. B \subseteq 0..Slots /\ B # {}
    BY <1>1, <2>2
  <2>4. PICK b \in B : \A d \in B : d <= b
    <3> HIDE DEF B
    <3>1. QED
      BY <1>1, <2>3, GreatestNumber
  <2>5. PICK x \in S : x[1] = a /\ x[2] = b
    BY <2>4
  <2>6. ASSUME NEW y \in S PROVE Before(y, x)
    <3>1. y[1] <= a /\ y[1] \in Int /\ a \in Int
      BY <1>1, <2>1, <2>2
    <3>2. y[1] = a => y[2] <= b
      BY <2>4
    <3>3. y[1] < a \/ a = y[1]
      BY <3>1
    <3>4. QED
      BY <2>5, <3>2, <3>3 DEF Before
  <2>7. QED
    BY <2>6
<1>4. QED
  BY <1>2, <1>3 DEF First, Final

\* Chain d is chain c but for place x, which may be in a new block.
Differs(c, d, x, m, n) ==
    /\ c \in Chains /\ d \in Chains /\ Len(c) <= Len(d)
    /\ x \in Places(d) /\ Meta(d, x) = m /\ Node(d, x) = n
    /\ Places(c) \subseteq Places(d)
    /\ \A y \in Places(d) : y # x => IF y \in Places(c)
                                     THEN Meta(d, y) = Meta(c, y) /\ Node(d, y) = Node(c, y)
                                     ELSE Meta(d, y) = EmptySlot /\ Node(d, y) = None

\* Another value in a slot.
LEMMA PutMetaDiffers ==
    ASSUME NEW c \in Chains, NEW x \in Places(c), NEW m \in Tags
    PROVE  Differs(c, PutMeta(c, x, m), x, m, Node(c, x)) /\ Places(PutMeta(c, x, m)) = Places(c)
<1> DEFINE b == x[1]
           s == x[2]
           new == [c[b] EXCEPT !.meta[s] = m]
           d == [c EXCEPT ![b] = new]
<1>1. b \in 1..Len(c) /\ s \in 1..Slots /\ Len(c) \in Nat /\ x = <<b, s>>
  BY PlacesTyped
<1>2. c \in Seq(Blocks) /\ c[b] \in Blocks
  <2>1. c \in Seq(Blocks)
    BY DEF Chains
  <2>2. QED
    BY <1>1, <2>1, ElementOfSeq
<1>3. new \in Blocks /\ new.nodes = c[b].nodes
      /\ \A z \in 1..Slots : new.meta[z] = IF z = s THEN m ELSE c[b].meta[z]
  BY <1>1, <1>2 DEF Blocks
<1>4. PutMeta(c, x, m) = d
  BY DEF PutMeta
<1> HIDE DEF new
<1>5. d \in Seq(Blocks) /\ Len(d) = Len(c) /\ \A j \in 1..Len(c) : d[j] = IF j = b THEN new ELSE c[j]
  BY <1>1, <1>2, <1>3, ExceptSeq
<1>6. d \in Chains
  <2>1. Len(c) # 0
    BY PlacesTyped
  <2>2. QED
    BY <1>5, <2>1, EmptySeq DEF Chains
<1> HIDE DEF d
<1>7. Places(d) = Places(c)
  BY <1>5 DEF Places
<1>8. Meta(d, x) = m /\ Node(d, x) = Node(c, x)
  BY <1>1, <1>3, <1>5 DEF Meta, Node
<1>9. ASSUME NEW y \in Places(d), y # x
      PROVE  Meta(d, y) = Meta(c, y) /\ Node(d, y) = Node(c, y)
  <2>1. y[1] \in 1..Len(c) /\ y[2] \in 1..Slots /\ y = <<y[1], y[2]>>
    BY <1>7, PlacesTyped
  <2>2. y[1] # b \/ y[2] # s
    BY <1>1, <1>9, <2>1
  <2>3. QED
    BY <1>3, <1>5, <2>1, <2>2 DEF Meta, Node
<1>10. QED
  BY <1>1, <1>4, <1>5, <1>6, <1>7, <1>8, <1>9 DEF Differs

\* Another node in a slot.
LEMMA PutNodeDiffers ==
    ASSUME NEW c \in Chains, NEW x \in Places(c), NEW n \in Nodes \cup {None}
    PROVE  Differs(c, PutNode(c, x, n), x, Meta(c, x), n) /\ Places(PutNode(c, x, n)) = Places(c)
<1> DEFINE b == x[1]
           s == x[2]
           new == [c[b] EXCEPT !.nodes[s] = n]
           d == [c EXCEPT ![b] = new]
<1>1. b \in 1..Len(c) /\ s \in 1..Slots /\ Len(c) \in Nat /\ x = <<b, s>>
  BY PlacesTyped
<1>2. c \in Seq(Blocks) /\ c[b] \in Blocks
  <2>1. c \in Seq(Blocks)
    BY DEF Chains
  <2>2. QED
    BY <1>1, <2>1, ElementOfSeq
<1>3. new \in Blocks /\ new.meta = c[b].meta
      /\ \A z \in 1..Slots : new.nodes[z] = IF z = s THEN n ELSE c[b].nodes[z]
  BY <1>1, <1>2 DEF Blocks
<1>4. PutNode(c, x, n) = d
  BY DEF PutNode
<1> HIDE DEF new
<1>5. d \in Seq(Blocks) /\ Len(d) = Len(c) /\ \A j \in 1..Len(c) : d[j] = IF j = b THEN new ELSE c[j]
  BY <1>1, <1>2, <1>3, ExceptSeq
<1>6. d \in Chains
  <2>1. Len(c) # 0
    BY PlacesTyped
  <2>2. QED
    BY <1>5, <2>1, EmptySeq DEF Chains
<1> HIDE DEF d
<1>7. Places(d) = Places(c)
  BY <1>5 DEF Places
<1>8. Meta(d, x) = Meta(c, x) /\ Node(d, x) = n
  BY <1>1, <1>3, <1>5 DEF Meta, Node
<1>9. ASSUME NEW y \in Places(d), y # x
      PROVE  Meta(d, y) = Meta(c, y) /\ Node(d, y) = Node(c, y)
  <2>1. y[1] \in 1..Len(c) /\ y[2] \in 1..Slots /\ y = <<y[1], y[2]>>
    BY <1>7, PlacesTyped
  <2>2. y[1] # b \/ y[2] # s
    BY <1>1, <1>9, <2>1
  <2>3. QED
    BY <1>3, <1>5, <2>1, <2>2 DEF Meta, Node
<1>10. QED
  BY <1>1, <1>4, <1>5, <1>6, <1>7, <1>8, <1>9 DEF Differs

\* Another block, with a node in its first slot.
LEMMA NewBlockDiffers ==
    ASSUME NEW c \in Chains, NEW n \in Nodes, NEW m \in Tags
    PROVE  Differs(c, Append(c, NewBlock(n, m)), <<Len(c) + 1, 1>>, m, n)
<1> DEFINE new == NewBlock(n, m)
           d == Append(c, new)
           x == <<Len(c) + 1, 1>>
<1>1. Len(c) \in Nat \ {0} /\ Slots \in Nat \ {0} /\ c \in Seq(Blocks)
  BY PlacesTyped DEF Chains
<1>2. /\ new \in Blocks
      /\ \A s \in 1..Slots : /\ new.meta[s] = IF s = 1 THEN m ELSE EmptySlot
                             /\ new.nodes[s] = IF s = 1 THEN n ELSE None
  BY <1>1 DEF Blocks, NewBlock, EmptyBlock, Tags
<1> HIDE DEF new
<1>3. /\ d \in Seq(Blocks) /\ Len(d) = Len(c) + 1
      /\ \A b \in 1..Len(c) : d[b] = c[b]
      /\ d[Len(c) + 1] = new
  BY <1>1, <1>2, AppendProperties
<1> HIDE DEF d
<1>4. d \in Chains
  <2>1. Len(d) # 0
    BY <1>1, <1>3
  <2>2. QED
    BY <1>3, <2>1, EmptySeq DEF Chains
<1>5. x \in Places(d) /\ Places(c) \subseteq Places(d)
  BY <1>1, <1>3 DEF Places
<1>6. Meta(d, x) = m /\ Node(d, x) = n
  BY <1>1, <1>2, <1>3 DEF Meta, Node
<1>7. ASSUME NEW y \in Places(d), y # x
      PROVE  IF y \in Places(c) THEN Meta(d, y) = Meta(c, y) /\ Node(d, y) = Node(c, y)
             ELSE Meta(d, y) = EmptySlot /\ Node(d, y) = None
  <2>1. y[1] \in 1..(Len(c) + 1) /\ y[2] \in 1..Slots /\ y = <<y[1], y[2]>>
    BY <1>3, <1>4, PlacesTyped
  <2>2. CASE y[1] \in 1..Len(c)
    <3>1. y \in Places(c)
      BY <2>1, <2>2, PlacesTyped
    <3>2. QED
      BY <1>3, <2>2, <3>1 DEF Meta, Node
  <2>3. CASE ~(y[1] \in 1..Len(c))
    <3>1. y[1] = Len(c) + 1
      BY <1>1, <2>1, <2>3
    <3>2. y[2] # 1 /\ y \notin Places(c)
      BY <1>7, <2>1, <2>3, <3>1, PlacesTyped
    <3>3. QED
      BY <1>2, <1>3, <2>1, <3>1, <3>2 DEF Meta, Node
  <2>4. QED
    BY <2>2, <2>3
<1>8. QED
  BY <1>1, <1>3, <1>4, <1>5, <1>6, <1>7 DEF Differs, d, new

\* The node goes to a slot that is free, or to another block.
LEMMA AppendDiffers ==
    ASSUME NEW c \in Chains, NEW n \in Nodes, NEW m \in Tags
    PROVE  \E x : /\ Differs(c, AppendToBucket(c, n, m), x, m, n)
                  /\ x \in Places(c) => Node(c, x) = None
<1> DEFINE free == {x \in Places(c) : Node(c, x) = None}
<1>1. CASE free = {}
  <2>1. AppendToBucket(c, n, m) = Append(c, NewBlock(n, m))
    BY <1>1 DEF AppendToBucket
  <2> DEFINE x == <<Len(c) + 1, 1>>
  <2>2. Differs(c, AppendToBucket(c, n, m), x, m, n)
    BY <2>1, NewBlockDiffers
  <2>3. x \notin Places(c)
    <3>1. x[1] = Len(c) + 1 /\ Len(c) \in Nat
      BY PlacesTyped
    <3>2. x \in Places(c) => x[1] \in 1..Len(c)
      BY PlacesTyped
    <3>3. QED
      BY <3>1, <3>2
  <2>4. QED
    BY <2>2, <2>3
<1>2. CASE free # {}
  <2> DEFINE x == First(free)
             d == PutMeta(c, x, m)
             e == PutNode(d, x, n)
  <2>1. x \in Places(c) /\ Node(c, x) = None
    <3>1. x \in free
      BY <1>2, FirstPlace
    <3>2. QED
      BY <3>1
  <2>2. AppendToBucket(c, n, m) = e
    BY <1>2 DEF AppendToBucket
  <2> HIDE DEF free, x
  <2>3. Differs(c, d, x, m, Node(c, x)) /\ Places(d) = Places(c)
    BY <2>1, PutMetaDiffers
  <2> HIDE DEF d
  <2>4. d \in Chains /\ x \in Places(d) /\ Meta(d, x) = m
    BY <2>1, <2>3 DEF Differs
  <2>5. Differs(d, e, x, m, n) /\ Places(e) = Places(d)
    BY <2>4, PutNodeDiffers
  <2> HIDE DEF e
  <2>6. Differs(c, e, x, m, n)
    <3>1. Len(c) <= Len(e)
      <4>1. Len(c) \in Nat /\ Len(d) \in Nat /\ Len(e) \in Nat
        BY <2>4, <2>5, PlacesTyped DEF Differs
      <4>2. QED
        BY <2>3, <2>5, <4>1 DEF Differs
    <3>2. QED
      BY <2>3, <2>5, <3>1 DEF Differs
  <2>7. QED
    BY <2>1, <2>2, <2>6
<1>3. QED
  BY <1>1, <1>2

--------------------------------------------------------------------------------
(* What a table holds *)

Lacks(t, k) == \A x \in Places(ChainOf(t, k)) :
                  Node(ChainOf(t, k), x) # None => Node(ChainOf(t, k), x)[1] # k
Stored(t)   == {k \in Keys : ~Lacks(t, k)}

Lookup(t, k) == LET found == Holding(ChainOf(t, k), k, Tag(t, k))
                IN  IF found = {} THEN None ELSE Node(ChainOf(t, k), First(found))

\* The nodes of chain c, bucket i of table t, are of keys of this bucket, and of
\* different keys.
Alone(t, i, c) ==
    \A x \in Places(c) :
        Node(c, x) # None =>
            /\ BucketOf(t, Node(c, x)[1]) = i
            /\ \A y \in Places(c) :
                  Node(c, y) # None /\ Node(c, y)[1] = Node(c, x)[1] => y = x

\* The metadata tells what is in the slot.
Right(t, c, x) == Meta(c, x) = IF Node(c, x) = None THEN EmptySlot ELSE Tag(t, Node(c, x)[1])

\* It does, but for place x.
RightBut(t, c, x) == \A y \in Places(c) : y # x => Right(t, c, y)

Tidy(t) == \A i \in DOMAIN t.buckets :
              /\ Alone(t, i, t.buckets[i])
              /\ \A x \in Places(t.buckets[i]) : Right(t, t.buckets[i], x)

SameShape(t, u) == u.hash = t.hash /\ DOMAIN u.buckets = DOMAIN t.buckets

\* Table u is t but for bucket i.
Replaced(t, u, i) ==
    /\ t \in AllTables /\ u \in AllTables /\ SameShape(t, u)
    /\ i \in DOMAIN t.buckets
    /\ \A j \in DOMAIN t.buckets : j # i => u.buckets[j] = t.buckets[j]

\* Tables of one shape send a key to the same bucket, with the same tag.
LEMMA ShapeTells ==
    ASSUME NEW t, NEW u, SameShape(t, u), NEW k
    PROVE  /\ BucketOf(u, k) = BucketOf(t, k) /\ Tag(u, k) = Tag(t, k)
           /\ TableLen(u) = TableLen(t)
  BY DEF SameShape, BucketOf, Tag, TableLen

\* What is read is in the table, if anything is read.
LEMMA LookupFinds ==
    ASSUME NEW t \in AllTables, NEW k \in Keys, Lookup(t, k) # None
    PROVE  \E x \in Places(ChainOf(t, k)) :
              /\ Node(ChainOf(t, k), x) = Lookup(t, k) /\ Lookup(t, k) \in Nodes
              /\ Lookup(t, k)[1] = k /\ Meta(ChainOf(t, k), x) = Tag(t, k)
<1> DEFINE c == ChainOf(t, k)
           found == Holding(c, k, Tag(t, k))
<1>1. c \in Chains
  BY TableTyped
<1>2. found # {} /\ Lookup(t, k) = Node(c, First(found))
  BY DEF Lookup
<1>3. First(found) \in found
  BY <1>1, <1>2, FirstPlace DEF Holding
<1>4. QED
  BY <1>1, <1>2, <1>3, PlacesTyped DEF Holding

\* A key that is not there is not found.
LEMMA LookupLacks ==
    ASSUME NEW t \in AllTables, NEW k \in Keys, Lacks(t, k)
    PROVE  Lookup(t, k) = None /\ Holding(ChainOf(t, k), k, Tag(t, k)) = {}
  BY DEF Lookup, Lacks, Holding

\* A node is read, if its metadata is right.
LEMMA LookupMarked ==
    ASSUME NEW t \in AllTables, NEW k \in Keys, Alone(t, BucketOf(t, k), ChainOf(t, k)),
           NEW x \in Places(ChainOf(t, k)),
           Node(ChainOf(t, k), x) # None, Node(ChainOf(t, k), x)[1] = k
    PROVE  /\ Meta(ChainOf(t, k), x) = Tag(t, k) =>
                 /\ Lookup(t, k) = Node(ChainOf(t, k), x)
                 /\ Holding(ChainOf(t, k), k, Tag(t, k)) = {x}
           /\ Meta(ChainOf(t, k), x) # Tag(t, k) => Lookup(t, k) = None
<1> DEFINE c == ChainOf(t, k)
           found == Holding(c, k, Tag(t, k))
<1>1. c \in Chains
  BY TableTyped
<1>2. \A y \in found : y = x
  BY DEF Holding, Alone
<1>3. found # {} => First(found) \in found
  BY <1>1, FirstPlace DEF Holding
<1>4. CASE Meta(c, x) = Tag(t, k)
  <2>1. x \in found
    BY <1>4 DEF Holding
  <2>2. First(found) = x /\ found = {x}
    BY <1>2, <1>3, <2>1
  <2>3. QED
    BY <1>4, <2>1, <2>2 DEF Lookup
<1>5. CASE Meta(c, x) # Tag(t, k)
  <2>1. x \notin found
    BY <1>5 DEF Holding
  <2>2. found = {}
    BY <1>2, <2>1
  <2>3. QED
    BY <1>5, <2>2 DEF Lookup
<1>6. QED
  BY <1>4, <1>5

\* In a tidy table what is read is what there is.
LEMMA LookupTidy ==
    ASSUME NEW t \in AllTables, NEW k \in Keys,
           Alone(t, BucketOf(t, k), ChainOf(t, k)),
           \A x \in Places(ChainOf(t, k)) : Right(t, ChainOf(t, k), x)
    PROVE  /\ (Lookup(t, k) = None <=> Lacks(t, k))
           /\ \A x \in Places(ChainOf(t, k)) :
                 Node(ChainOf(t, k), x) # None /\ Node(ChainOf(t, k), x)[1] = k =>
                     Lookup(t, k) = Node(ChainOf(t, k), x)
<1> DEFINE c == ChainOf(t, k)
<1>1. ASSUME NEW x \in Places(c), Node(c, x) # None, Node(c, x)[1] = k
      PROVE  Lookup(t, k) = Node(c, x)
  <2>1. Meta(c, x) = Tag(t, k)
    BY <1>1 DEF Right
  <2>2. QED
    BY <1>1, <2>1, LookupMarked
<1>2. Lacks(t, k) => Lookup(t, k) = None
  BY LookupLacks
<1>3. ~Lacks(t, k) => Lookup(t, k) # None
  <2>1. SUFFICES ASSUME ~Lacks(t, k) PROVE Lookup(t, k) # None
    OBVIOUS
  <2>2. PICK x \in Places(c) : Node(c, x) # None /\ Node(c, x)[1] = k
    BY <2>1 DEF Lacks
  <2>3. QED
    BY <1>1, <2>2
<1>4. QED
  BY <1>1, <1>2, <1>3

\* There is no node of key k in place x of chain c.
Without(c, x, k) == x \in Places(c) /\ Node(c, x) # None => Node(c, x)[1] # k

\* Two tables agree on a key.
SameKey(t, u, k) == /\ Lookup(u, k) = Lookup(t, k)
                    /\ (Lacks(u, k) <=> Lacks(t, k))

\* A change at one place does not touch the other keys.
LEMMA LookupElsewhere ==
    ASSUME NEW t, NEW u, NEW i, Replaced(t, u, i),
           NEW x, NEW m, NEW n, Differs(t.buckets[i], u.buckets[i], x, m, n),
           NEW k \in Keys, Without(t.buckets[i], x, k), Without(u.buckets[i], x, k)
    PROVE  SameKey(t, u, k)
<1> DEFINE c == t.buckets[i]
           d == u.buckets[i]
           tag == Tag(t, k)
<1>1. BucketOf(u, k) = BucketOf(t, k) /\ Tag(u, k) = tag
  BY ShapeTells DEF Replaced
<1>2. CASE BucketOf(t, k) # i
  <2>1. ChainOf(u, k) = ChainOf(t, k)
    <3>1. BucketOf(t, k) \in DOMAIN t.buckets
      BY TableTyped DEF Replaced
    <3>2. QED
      BY <1>1, <1>2, <3>1 DEF Replaced, ChainOf
  <2>2. QED
    BY <1>1, <2>1 DEF Lookup, Lacks, SameKey
<1>3. CASE BucketOf(t, k) = i
  <2>1. ChainOf(t, k) = c /\ ChainOf(u, k) = d
    BY <1>1, <1>3 DEF ChainOf
  <2>2. \A y \in Places(d) : (Node(d, y) # None /\ Node(d, y)[1] = k) =>
            y \in Places(c) /\ Node(c, y) = Node(d, y) /\ Meta(c, y) = Meta(d, y)
    BY DEF Differs, Without
  <2>3. \A y \in Places(c) : (Node(c, y) # None /\ Node(c, y)[1] = k) =>
            y \in Places(d) /\ Node(c, y) = Node(d, y) /\ Meta(c, y) = Meta(d, y)
    BY DEF Differs, Without
  <2> HIDE DEF c, d
  <2>4. Holding(d, k, tag) = Holding(c, k, tag)
    BY <2>2, <2>3 DEF Holding
  <2>5. Lacks(u, k) <=> Lacks(t, k)
    BY <2>1, <2>2, <2>3 DEF Lacks
  <2>6. Lookup(u, k) = Lookup(t, k)
    <3> DEFINE S == Holding(c, k, tag)
    <3>1. S # {} => First(S) \in S
      <4>1. c \in Chains
        BY DEF Differs, c
      <4>2. QED
        BY <4>1, FirstPlace DEF Holding
    <3>2. S # {} => Node(d, First(S)) = Node(c, First(S))
      BY <2>3, <3>1 DEF Holding
    <3>3. QED
      BY <1>1, <2>1, <2>4, <3>2 DEF Lookup
  <2>7. QED
    BY <2>5, <2>6 DEF SameKey
<1>4. QED
  BY <1>2, <1>3

\* A node of another key leaves each key with one place.
LEMMA AloneKept ==
    ASSUME NEW t, NEW u, NEW i, Replaced(t, u, i),
           NEW x, NEW m, NEW n, Differs(t.buckets[i], u.buckets[i], x, m, n),
           Alone(t, i, t.buckets[i]),
           n # None => /\ BucketOf(t, n[1]) = i
                       /\ \A y \in Places(t.buckets[i]) :
                             y # x /\ Node(t.buckets[i], y) # None => Node(t.buckets[i], y)[1] # n[1]
    PROVE  Alone(u, i, u.buckets[i])
<1> DEFINE c == t.buckets[i]
           d == u.buckets[i]
<1>1. \A k : BucketOf(u, k) = BucketOf(t, k)
  BY ShapeTells DEF Replaced
<1>2. /\ Node(d, x) = n
      /\ \A y \in Places(d) : y # x /\ Node(d, y) # None => y \in Places(c) /\ Node(d, y) = Node(c, y)
  BY DEF Differs
<1> HIDE DEF c, d
<1>3. ASSUME NEW y \in Places(d), Node(d, y) # None
      PROVE  /\ BucketOf(u, Node(d, y)[1]) = i
             /\ \A z \in Places(d) : Node(d, z) # None /\ Node(d, z)[1] = Node(d, y)[1] => z = y
  <2>1. CASE y = x
    BY <1>1, <1>2, <1>3, <2>1 DEF c
  <2>2. CASE y # x
    <3>1. y \in Places(c) /\ Node(d, y) = Node(c, y)
      BY <1>2, <1>3, <2>2
    <3>2. BucketOf(u, Node(d, y)[1]) = i
      BY <1>1, <1>3, <3>1 DEF Alone, c
    <3>3. ASSUME NEW z \in Places(d), Node(d, z) # None, Node(d, z)[1] = Node(d, y)[1]
          PROVE  z = y
      <4>1. CASE z = x
        BY <1>2, <1>3, <2>2, <3>1, <3>3, <4>1 DEF c
      <4>2. CASE z # x
        BY <1>2, <1>3, <3>1, <3>3, <4>2 DEF Alone, c
      <4>3. QED
        BY <4>1, <4>2
    <3>4. QED
      BY <3>2, <3>3
  <2>3. QED
    BY <2>1, <2>2
<1>4. QED
  BY <1>3 DEF Alone, d

\* A place that is not touched is as right as it was.
LEMMA RightKept ==
    ASSUME NEW t, NEW u, NEW i, Replaced(t, u, i),
           NEW x, NEW m, NEW n, Differs(t.buckets[i], u.buckets[i], x, m, n),
           RightBut(t, t.buckets[i], x)
    PROVE  RightBut(u, u.buckets[i], x)
<1>1. \A k : Tag(u, k) = Tag(t, k)
  BY ShapeTells DEF Replaced
<1>2. QED
  BY <1>1 DEF Differs, Right, RightBut

\* And so is every bucket that is not touched.
LEMMA BucketKept ==
    ASSUME NEW t, NEW u, NEW j, SameShape(t, u), u.buckets[j] = t.buckets[j]
    PROVE  /\ Alone(t, j, t.buckets[j]) => Alone(u, j, u.buckets[j])
           /\ \A y : Right(t, t.buckets[j], y) => Right(u, u.buckets[j], y)
<1>1. \A k : Tag(u, k) = Tag(t, k) /\ BucketOf(u, k) = BucketOf(t, k)
  BY ShapeTells
<1>2. QED
  BY <1>1 DEF Alone, Right

\* Table t with another size and another chain.
With(t, i, d, s) == [hash |-> t.hash, buckets |-> [t.buckets EXCEPT ![i] = d], size |-> s]

\* Such a table is one.
LEMMA ReplacedBy ==
    ASSUME NEW t \in AllTables, NEW i \in DOMAIN t.buckets, NEW d \in Chains, NEW s \in Int
    PROVE  /\ Replaced(t, With(t, i, d, s), i)
           /\ With(t, i, d, s).buckets[i] = d /\ With(t, i, d, s).size = s
<1> DEFINE u == With(t, i, d, s)
<1>1. PICK n \in Nat \ {0} : t.buckets \in [0..(n - 1) -> Chains]
  BY DEF AllTables
<1>2. u.hash = t.hash /\ u.size = s /\ u.buckets = [t.buckets EXCEPT ![i] = d]
  BY DEF With
<1>3. u.buckets \in [0..(n - 1) -> Chains] /\ u.buckets[i] = d
      /\ \A j \in DOMAIN t.buckets : j # i => u.buckets[j] = t.buckets[j]
  BY <1>1, <1>2
<1>4. u = [hash |-> t.hash, buckets |-> u.buckets, size |-> s]
  BY DEF With
<1> HIDE DEF u
<1>5. u \in AllTables
  BY <1>1, <1>3, <1>4 DEF AllTables
<1>6. DOMAIN u.buckets = DOMAIN t.buckets
  BY <1>1, <1>3
<1>7. QED
  BY <1>2, <1>3, <1>5, <1>6 DEF Replaced, SameShape, u

\* In a tidy table the stored keys are those that are found.
LEMMA StoredTidy ==
    ASSUME NEW t \in AllTables, Tidy(t), NEW k \in Keys
    PROVE  (k \in Stored(t) <=> Lookup(t, k) # None) /\ (Lacks(t, k) <=> Lookup(t, k) = None)
<1>1. BucketOf(t, k) \in DOMAIN t.buckets /\ ChainOf(t, k) = t.buckets[BucketOf(t, k)]
  BY TableTyped DEF ChainOf
<1>2. Lookup(t, k) = None <=> Lacks(t, k)
  BY <1>1, LookupTidy DEF Tidy
<1>3. QED
  BY <1>2 DEF Stored

\* Another node is put into a tidy table.
LEMMA PutWorks ==
    ASSUME NEW t \in AllTables, Tidy(t), NEW n \in Nodes, Lookup(t, n[1]) = None
    PROVE  /\ Put(t, n) \in AllTables /\ SameShape(t, Put(t, n)) /\ Tidy(Put(t, n))
           /\ Put(t, n).size = t.size + 1
           /\ Lookup(Put(t, n), n[1]) = n
           /\ \A k \in Keys : k # n[1] => Lookup(Put(t, n), k) = Lookup(t, k)
<1> DEFINE k0 == n[1]
           i == BucketOf(t, k0)
           c == t.buckets[i]
           tag == Tag(t, k0)
           d == AppendToBucket(c, n, tag)
           u == With(t, i, d, t.size + 1)
<1>1. k0 \in Keys /\ n # None
  BY NodeHasKey
<1>2. i \in DOMAIN t.buckets /\ c \in Chains /\ tag \in Tags /\ tag # EmptySlot /\ ChainOf(t, k0) = c
  BY <1>1, TableTyped DEF ChainOf
<1>3. Put(t, n) = u
  <2>1. Put(t, n) = [t EXCEPT !.size = t.size + 1, !.buckets[i] = d]
    BY DEF Put
  <2>2. u = [hash |-> t.hash, buckets |-> [t.buckets EXCEPT ![i] = d], size |-> t.size + 1]
    BY DEF With
  <2> HIDE DEF i, d, u
  <2>3. QED
    BY <2>1, <2>2 DEF AllTables
<1>4. PICK x : Differs(c, d, x, tag, n) /\ (x \in Places(c) => Node(c, x) = None)
  BY <1>2, AppendDiffers
<1>5. t.size + 1 \in Int /\ t.size \in Int /\ d \in Chains
  BY <1>4 DEF AllTables, Differs
<1> HIDE DEF d
<1>6. Replaced(t, u, i) /\ u.buckets[i] = d /\ u.size = t.size + 1
  BY <1>2, <1>5, ReplacedBy
<1> HIDE DEF u
<1>7. Lacks(t, k0)
  BY <1>1, StoredTidy
<1>8. \A y \in Places(c) : Node(c, y) # None => Node(c, y)[1] # k0
  BY <1>2, <1>7 DEF Lacks
<1>9. \A y \in Places(c) : Alone(t, i, c) /\ Right(t, c, y)
  BY <1>2 DEF Tidy
<1>10. Alone(t, i, c)
  BY <1>2 DEF Tidy
<1>11. SameShape(t, u) /\ u \in AllTables /\ DOMAIN u.buckets = DOMAIN t.buckets
       /\ \A k : BucketOf(u, k) = BucketOf(t, k) /\ Tag(u, k) = Tag(t, k)
  BY <1>6, ShapeTells DEF Replaced, SameShape
<1> HIDE DEF i
<1>12. Alone(u, i, u.buckets[i])
  <2>1. BucketOf(t, n[1]) = i
    BY DEF i
  <2>2. QED
    BY <1>4, <1>6, <1>8, <1>10, <2>1, AloneKept
<1>18. RightBut(u, d, x)
  <2>1. RightBut(t, t.buckets[i], x) /\ Differs(t.buckets[i], u.buckets[i], x, tag, n)
    BY <1>4, <1>6, <1>9 DEF RightBut
  <2>2. QED
    BY <1>6, <2>1, RightKept
<1>13. ASSUME NEW y \in Places(d) PROVE Right(u, d, y)
  <2>1. CASE y = x
    BY <1>1, <1>4, <1>11, <2>1 DEF Right, Differs
  <2>2. CASE y # x
    BY <1>18, <2>2 DEF RightBut
  <2>3. QED
    BY <2>1, <2>2
<1>14. Tidy(u)
  <2>1. ASSUME NEW j \in DOMAIN u.buckets
        PROVE  Alone(u, j, u.buckets[j]) /\ \A y \in Places(u.buckets[j]) : Right(u, u.buckets[j], y)
    <3>1. CASE j = i
      BY <1>6, <1>12, <1>13, <3>1
    <3>2. CASE j # i
      <4>1. u.buckets[j] = t.buckets[j] /\ j \in DOMAIN t.buckets
        BY <1>6, <1>11, <3>2 DEF Replaced
      <4>2. Alone(t, j, t.buckets[j]) /\ \A y \in Places(t.buckets[j]) : Right(t, t.buckets[j], y)
        BY <4>1 DEF Tidy
      <4>3. Alone(u, j, u.buckets[j]) /\ \A y : Right(t, t.buckets[j], y) => Right(u, u.buckets[j], y)
        BY <1>11, <4>1, <4>2, BucketKept
      <4>4. QED
        BY <4>1, <4>2, <4>3
    <3>3. QED
      BY <3>1, <3>2
  <2>2. QED
    BY <2>1 DEF Tidy
<1>15. Lookup(u, k0) = n
  <2>1. x \in Places(d) /\ Node(d, x) = n /\ Meta(d, x) = tag
    BY <1>4 DEF Differs
  <2>2. ChainOf(u, k0) = d /\ BucketOf(u, k0) = i /\ Tag(u, k0) = tag
    BY <1>6, <1>11 DEF ChainOf, i
  <2>3. QED
    BY <1>1, <1>6, <1>11, <1>12, <2>1, <2>2, LookupMarked
<1>16. ASSUME NEW k \in Keys, k # k0 PROVE Lookup(u, k) = Lookup(t, k)
  <2>1. Differs(t.buckets[i], u.buckets[i], x, tag, n)
    BY <1>4, <1>6
  <2>2. Without(u.buckets[i], x, k)
    BY <1>6, <1>16, <2>1 DEF Without, Differs
  <2>3. Without(t.buckets[i], x, k)
    BY <1>4 DEF Without
  <2>4. SameKey(t, u, k)
    BY <1>6, <2>1, <2>2, <2>3, LookupElsewhere
  <2>5. QED
    BY <2>4 DEF SameKey
<1>17. QED
  BY <1>3, <1>6, <1>11, <1>14, <1>15, <1>16

\* A table in order, and its counter.
Neat(t) == t \in AllTables /\ Tidy(t) /\ t.size = Cardinality(Stored(t))

\* It stays so when a node is put into it.
LEMMA PutNeat ==
    ASSUME NEW t, Neat(t), NEW n \in Nodes, Lookup(t, n[1]) = None
    PROVE  /\ Neat(Put(t, n)) /\ SameShape(t, Put(t, n))
           /\ Lookup(Put(t, n), n[1]) = n
           /\ \A k \in Keys : k # n[1] => Lookup(Put(t, n), k) = Lookup(t, k)
<1> DEFINE u == Put(t, n)
<1>1. t \in AllTables /\ Tidy(t) /\ t.size = Cardinality(Stored(t))
  BY DEF Neat
<1>2. n[1] \in Keys /\ n # None
  BY NodeHasKey
<1>3. /\ u \in AllTables /\ SameShape(t, u) /\ Tidy(u) /\ u.size = t.size + 1
      /\ Lookup(u, n[1]) = n
      /\ \A k \in Keys : k # n[1] => Lookup(u, k) = Lookup(t, k)
  BY <1>1, PutWorks
<1> HIDE DEF u
<1>4. /\ \A k \in Keys : k \in Stored(t) <=> Lookup(t, k) # None
      /\ \A k \in Keys : k \in Stored(u) <=> Lookup(u, k) # None
      /\ Stored(t) \subseteq Keys /\ Stored(u) \subseteq Keys
  <2>1. ASSUME NEW k \in Keys PROVE k \in Stored(t) <=> Lookup(t, k) # None
    BY <1>1, StoredTidy
  <2>2. ASSUME NEW k \in Keys PROVE k \in Stored(u) <=> Lookup(u, k) # None
    BY <1>3, StoredTidy
  <2>3. QED
    BY <2>1, <2>2 DEF Stored
<1>5. Stored(u) = Stored(t) \cup {n[1]} /\ n[1] \notin Stored(t)
  BY <1>2, <1>3, <1>4
<1>6. IsFiniteSet(Stored(t))
  BY <1>4, HashMapAssumption, FS_Subset
<1>7. Cardinality(Stored(u)) = Cardinality(Stored(t)) + 1
  BY <1>5, <1>6, FS_AddElement
<1>8. QED
  BY <1>1, <1>3, <1>7 DEF Neat, u

\* The sets that a choice is made from in a fold are finite.
LEMMA FinitelyMany ==
    ASSUME NEW D, IsFiniteSet(D)
    PROVE  \E rank, top : /\ top \in Nat /\ rank \in [SUBSET D -> 0..top]
                          /\ \A s \in SUBSET D : \A x \in s : rank[s \ {x}] < rank[s]
<1> DEFINE rank == [s \in SUBSET D |-> Cardinality(s)]
           top == Cardinality(D)
<1>1. top \in Nat
  BY FS_CardinalityType
<1>2. ASSUME NEW s \in SUBSET D
      PROVE  IsFiniteSet(s) /\ Cardinality(s) \in Nat /\ Cardinality(s) <= top
  BY FS_Subset, FS_CardinalityType
<1>3. rank \in [SUBSET D -> 0..top]
  BY <1>1, <1>2
<1>4. ASSUME NEW s \in SUBSET D, NEW x \in s PROVE rank[s \ {x}] < rank[s]
  <2>1. Cardinality(s \ {x}) = Cardinality(s) - 1 /\ Cardinality(s) \in Nat
    BY <1>2, FS_RemoveElement
  <2>2. s \ {x} \in SUBSET D
    OBVIOUS
  <2> HIDE DEF top
  <2>3. rank[s \ {x}] = Cardinality(s \ {x}) /\ rank[s] = Cardinality(s)
    BY <2>2
  <2> HIDE DEF rank
  <2>4. QED
    BY <2>1, <2>3
<1>5. QED
  BY <1>1, <1>3, <1>4

\* The places of a chain are finitely many.
LEMMA PlacesFinite ==
    ASSUME NEW c \in Chains
    PROVE  IsFiniteSet(Places(c)) /\ IsFiniteSet(Taken(c))
<1>1. Len(c) \in Nat /\ Slots \in Nat
  BY PlacesTyped
<1>2. IsFiniteSet(1..Len(c)) /\ IsFiniteSet(1..Slots)
  BY <1>1, FS_Interval
<1>3. IsFiniteSet(Places(c))
  BY <1>2, FS_Product DEF Places
<1>4. QED
  BY <1>3, FS_Subset DEF Taken

\* What table u is when the nodes in the places s of a chain have been put into table t.
CopiedSome(c, t, s, u) ==
    /\ Neat(u) /\ SameShape(t, u)
    /\ \A x \in s : Lookup(u, Node(c, x)[1]) = Node(c, x)
    /\ \A k \in Keys : (\A x \in s : Node(c, x)[1] # k) => Lookup(u, k) = Lookup(t, k)

\* The nodes of a chain are put into a table that does not have their keys.
LEMMA CopyWorks ==
    ASSUME NEW c \in Chains, NEW t, Neat(t),
           \A x, y \in Taken(c) : Node(c, x)[1] = Node(c, y)[1] => x = y,
           \A x \in Taken(c) : Lookup(t, Node(c, x)[1]) = None
    PROVE  CopiedSome(c, t, Taken(c), PutAll(c, t))
<1> DEFINE D == Taken(c)
           f == CHOOSE f : f = [S \in SUBSET D |-> IF S = {} THEN t
                                ELSE Put(f[S \ {Final(S)}], Node(c, Final(S)))]
<1>1. PutAll(c, t) = f[D]
  BY DEF PutAll, MapThenFoldSet
<1>2. D \subseteq Places(c) /\ IsFiniteSet(D) /\ D \in SUBSET D
  BY PlacesFinite DEF Taken
<1>3. \A x \in D : Node(c, x) \in Nodes /\ Node(c, x)[1] \in Keys
  <2>1. ASSUME NEW x \in D PROVE Node(c, x) \in Nodes
    BY PlacesTyped DEF Taken
  <2>2. QED
    BY <2>1, NodeHasKey
<1> HIDE DEF D
<1>4. \A s \in SUBSET D : s # {} => Final(s) \in s
  <2>1. ASSUME NEW s \in SUBSET D, s # {} PROVE Final(s) \in s
    BY <1>2, <2>1, FirstPlace
  <2>2. QED
    BY <2>1
<1>5. PICK rank, top : Copies!Descends(D, rank, top)
  <2>1. PICK rank, top : /\ top \in Nat /\ rank \in [SUBSET D -> 0..top]
                         /\ \A s \in SUBSET D : \A x \in s : rank[s \ {x}] < rank[s]
    BY <1>2, FinitelyMany
  <2>2. QED
    BY <1>4, <2>1 DEF Copies!Descends
<1>6. IsTable(c, t)
  BY DEF IsTable, Neat
<1>7. PICK g : Copies!IsFold(g, c, t, D)
  BY <1>5, <1>6, Copies!FoldExists
<1> DEFINE h == [S \in SUBSET D |-> g[S]]
<1>8. h = [S \in SUBSET D |-> IF S = {} THEN t ELSE Put(h[S \ {Final(S)}], Node(c, Final(S)))]
  <2>1. ASSUME NEW S \in SUBSET D
        PROVE  h[S] = IF S = {} THEN t ELSE Put(h[S \ {Final(S)}], Node(c, Final(S)))
    BY <1>7 DEF Copies!IsFold, PutOne
  <2>2. QED
    BY <2>1
<1>9. f = [S \in SUBSET D |-> IF S = {} THEN t ELSE Put(f[S \ {Final(S)}], Node(c, Final(S)))]
  <2> HIDE DEF h
  <2>1. QED
    BY <1>8, Zenon
<1> HIDE DEF f
<1> DEFINE T == {s \in SUBSET D : CopiedSome(c, t, s, f[s])}
<1>10. {} \in T
  <2>1. f[{}] = t
    BY <1>9
  <2>2. CopiedSome(c, t, {}, t)
    BY DEF CopiedSome, SameShape
  <2>3. QED
    BY <2>1, <2>2
<1>11. ASSUME NEW s \in SUBSET D, s # {}, s \ {Final(s)} \in T PROVE s \in T
  <2> DEFINE x == Final(s)
             q == s \ {x}
             n == Node(c, x)
             r == f[q]
  <2>1. x \in s /\ x \in D /\ n \in Nodes /\ n[1] \in Keys
    BY <1>3, <1>4, <1>11
  <2>2. f[s] = Put(r, n)
    BY <1>9, <1>11
  <2>3. CopiedSome(c, t, q, r)
    BY <1>11
  <2>4. Lookup(r, n[1]) = None
    <3>1. \A y \in q : Node(c, y)[1] # n[1]
      BY <2>1 DEF D
    <3>2. Lookup(t, n[1]) = None
      BY <2>1 DEF D
    <3>3. QED
      BY <2>1, <2>3, <3>1, <3>2 DEF CopiedSome
  <2>5. \A y \in q : Node(c, y)[1] # n[1] /\ Node(c, y)[1] \in Keys
    BY <1>3, <2>1 DEF D
  <2>8. s = q \cup {x}
    BY <2>1
  <2> HIDE DEF x, q, n, r
  <2>6. /\ Neat(Put(r, n)) /\ SameShape(r, Put(r, n))
        /\ Lookup(Put(r, n), n[1]) = n
        /\ \A k \in Keys : k # n[1] => Lookup(Put(r, n), k) = Lookup(r, k)
    BY <2>1, <2>3, <2>4, PutNeat DEF CopiedSome
  <2>7. CopiedSome(c, t, s, Put(r, n))
    <3>1. SameShape(t, Put(r, n))
      BY <2>3, <2>6 DEF CopiedSome, SameShape
    <3>2. ASSUME NEW y \in s PROVE Lookup(Put(r, n), Node(c, y)[1]) = Node(c, y)
      <4>1. CASE y = x
        BY <2>6, <4>1 DEF n
      <4>2. CASE y \in q
        BY <2>3, <2>5, <2>6, <4>2 DEF CopiedSome
      <4>3. QED
        BY <2>8, <4>1, <4>2
    <3>3. ASSUME NEW k \in Keys, \A y \in s : Node(c, y)[1] # k
          PROVE  Lookup(Put(r, n), k) = Lookup(t, k)
      <4>1. k # n[1] /\ \A y \in q : Node(c, y)[1] # k
        BY <2>1, <2>8, <3>3 DEF n
      <4>2. QED
        BY <2>3, <2>6, <4>1 DEF CopiedSome
    <3>4. QED
      BY <2>6, <3>1, <3>2, <3>3 DEF CopiedSome
  <2>9. QED
    BY <2>2, <2>7
<1>12. \A s \in SUBSET D : s \in T
  <2> HIDE DEF T
  <2>1. QED
    BY <1>5, <1>10, <1>11, Copies!RankInduction
<1>13. QED
  BY <1>1, <1>2, <1>12 DEF D

\* A new table is in order, and holds nothing.
LEMMA NewMapTableNeat ==
    ASSUME NEW len \in Nat \ {0}, NEW h \in Hashes
    PROVE  /\ Neat(NewMapTable(len, h)) /\ DOMAIN NewMapTable(len, h).buckets = 0..(len - 1)
           /\ \A k \in Keys : Lookup(NewMapTable(len, h), k) = None /\ Lacks(NewMapTable(len, h), k)
<1> DEFINE t == NewMapTable(len, h)
           c == <<EmptyBlock>>
<1>1. EmptyBlock \in Blocks
  BY DEF EmptyBlock, Blocks, Tags
<1>2. c \in Chains
  BY <1>1 DEF Chains
<1>3. t.hash = h /\ t.size = 0 /\ t.buckets = [i \in 0..(len - 1) |-> c]
  BY DEF NewMapTable
<1>4. t \in AllTables
  BY <1>2 DEF AllTables, NewMapTable
<1>5. \A x \in Places(c) : Meta(c, x) = EmptySlot /\ Node(c, x) = None
  <2>1. ASSUME NEW x \in Places(c) PROVE Meta(c, x) = EmptySlot /\ Node(c, x) = None
    <3>1. x[1] \in 1..Len(c) /\ x[2] \in 1..Slots
      BY <1>2, PlacesTyped
    <3>2. Len(c) = 1 /\ c[1] = EmptyBlock
      OBVIOUS
    <3> HIDE DEF c
    <3>3. c[x[1]] = EmptyBlock
      BY <3>1, <3>2
    <3>4. QED
      BY <3>1, <3>3 DEF Meta, Node, EmptyBlock
  <2>2. QED
    BY <2>1
<1> HIDE DEF c
<1>6. DOMAIN t.buckets = 0..(len - 1) /\ \A i \in DOMAIN t.buckets : t.buckets[i] = c
  BY <1>3
<1> HIDE DEF t
<1>7. Tidy(t)
  BY <1>5, <1>6 DEF Tidy, Alone, Right
<1>8. ASSUME NEW k \in Keys PROVE Lacks(t, k)
  <2>1. ChainOf(t, k) = c
    BY <1>4, <1>6, TableTyped DEF ChainOf
  <2>2. QED
    BY <1>5, <2>1 DEF Lacks
<1>9. \A k \in Keys : Lookup(t, k) = None
  BY <1>4, <1>7, <1>8, StoredTidy
<1>10. Stored(t) = {}
  BY <1>8 DEF Stored
<1>11. QED
  BY <1>3, <1>4, <1>6, <1>7, <1>8, <1>9, <1>10, FS_EmptySet DEF Neat, t

\* What table u is when the keys s have been put into a table with nothing in it.
FilledSome(t, s, u) ==
    /\ Neat(u) /\ SameShape(t, u)
    /\ \A k \in Keys : Lookup(u, k) = IF k \in s THEN <<k, None>> ELSE None

\* A map is filled.
LEMMA FillWorks ==
    ASSUME NEW t, Neat(t), \A k \in Keys : Lookup(t, k) = None, NEW K \in SUBSET Keys
    PROVE  FilledSome(t, K, FoldSet(LAMBDA k, u : Put(u, <<k, None>>), t, K))
<1> DEFINE f == CHOOSE f : f = [S \in SUBSET K |-> IF S = {} THEN t
                                ELSE Put(f[S \ {AnyOf(S)}], <<AnyOf(S), None>>)]
<1>1. FoldSet(LAMBDA k, u : Put(u, <<k, None>>), t, K) = f[K]
  BY DEF FoldSet, MapThenFoldSet, AnyOf
<1>2. IsFiniteSet(K)
  BY HashMapAssumption, FS_Subset
<1>4. \A s \in SUBSET K : s # {} => AnyOf(s) \in s
  BY DEF AnyOf
<1>5. PICK rank, top : Fills!Descends(K, rank, top)
  <2>1. PICK rank, top : /\ top \in Nat /\ rank \in [SUBSET K -> 0..top]
                         /\ \A s \in SUBSET K : \A x \in s : rank[s \ {x}] < rank[s]
    BY <1>2, FinitelyMany
  <2>2. QED
    BY <1>4, <2>1 DEF Fills!Descends
<1>6. IsTable(K, t)
  BY DEF IsTable, Neat
<1>7. PICK g : Fills!IsFold(g, K, t, K)
  BY <1>5, <1>6, Fills!FoldExists
<1> DEFINE h == [S \in SUBSET K |-> g[S]]
<1>8. h = [S \in SUBSET K |-> IF S = {} THEN t ELSE Put(h[S \ {AnyOf(S)}], <<AnyOf(S), None>>)]
  <2>1. ASSUME NEW S \in SUBSET K
        PROVE  h[S] = IF S = {} THEN t ELSE Put(h[S \ {AnyOf(S)}], <<AnyOf(S), None>>)
    BY <1>7 DEF Fills!IsFold, PutNew
  <2>2. QED
    BY <2>1
<1>9. f = [S \in SUBSET K |-> IF S = {} THEN t ELSE Put(f[S \ {AnyOf(S)}], <<AnyOf(S), None>>)]
  <2> HIDE DEF h
  <2>1. QED
    BY <1>8, Zenon
<1> HIDE DEF f
<1> DEFINE T == {s \in SUBSET K : FilledSome(t, s, f[s])}
<1>10. {} \in T
  <2>1. f[{}] = t
    BY <1>9
  <2>2. FilledSome(t, {}, t)
    BY DEF FilledSome, SameShape
  <2>3. QED
    BY <2>1, <2>2
<1>11. ASSUME NEW s \in SUBSET K, s # {}, s \ {AnyOf(s)} \in T PROVE s \in T
  <2> DEFINE x == AnyOf(s)
             q == s \ {x}
             n == <<x, None>>
             r == f[q]
  <2>1. x \in s /\ x \in Keys /\ n \in Nodes /\ n[1] = x
    BY <1>4, <1>11 DEF Nodes
  <2>2. f[s] = Put(r, n)
    BY <1>9, <1>11
  <2>3. FilledSome(t, q, r)
    BY <1>11
  <2>4. x \notin q /\ s = q \cup {x}
    BY <2>1
  <2> HIDE DEF x, q, r
  <2>5. Lookup(r, n[1]) = None
    BY <2>1, <2>3, <2>4 DEF FilledSome
  <2>7. n = <<x, None>>
    OBVIOUS
  <2> HIDE DEF n
  <2>6. /\ Neat(Put(r, n)) /\ SameShape(r, Put(r, n))
        /\ Lookup(Put(r, n), n[1]) = n
        /\ \A k \in Keys : k # n[1] => Lookup(Put(r, n), k) = Lookup(r, k)
    BY <2>1, <2>3, <2>5, PutNeat DEF FilledSome
  <2>8. SameShape(t, Put(r, n))
    BY <2>3, <2>6 DEF FilledSome, SameShape
  <2>9. FilledSome(t, s, Put(r, n))
    BY <2>1, <2>3, <2>4, <2>6, <2>7, <2>8 DEF FilledSome
  <2>10. QED
    BY <2>2, <2>9
<1>12. \A s \in SUBSET K : s \in T
  <2> HIDE DEF T
  <2>1. QED
    BY <1>5, <1>10, <1>11, Fills!RankInduction
<1>13. QED
  BY <1>1, <1>12

--------------------------------------------------------------------------------
(* The inductive invariant *)

\* Where a process holds the lock of its bucket; where it has seen, since, that nobody
\* resizes; and where it has seen that its table is the published one.
Working  == {"checkResize", "checkTable", "search", "storeMeta", "storeNode", "clearMeta", "clearNode"}
Admitted == Working \ {"checkResize"}
Settled  == Admitted \ {"checkTable"}

Resizing   == {"newTable", "copy", "endResize"}
Computing  == Working \cup Resizing
                \cup {"loadTable", "lock", "addSize", "shrinkFast", "casResizing", "wait", "asleep"}
Positions  == Computing \cup {"off", "meta", "nodes", "range"}

Locals == [op : {"none", "get", "set", "delete", "range"}, key : Keys \cup {None}, table : Nat,
           block : Nat, marked : SUBSET (1..Slots), place : Nat \X Nat, delta : {-1, 0, 1},
           saw : Nodes \cup {None}, hint : {"none", "grow", "shrink"}, new : Nat,
           todo : SUBSET Nat, visited : [Keys -> Nat]]

Types ==
    /\ tables \in Seq(AllTables)
    /\ current \in DOMAIN tables
    /\ resizing \in BOOLEAN /\ asleep \subseteq Procs
    /\ pc \in [Procs -> Positions] /\ my \in [Procs -> Locals]
    /\ got \in [Procs -> Nodes \cup {None}]

\* The bucket of the key of a process, in its table.
Index(p) == BucketOf(Table(p), my[p].key)

\* What a process is doing, and with what.
Phase(p) ==
    /\ pc[p] = "off" => my[p] = NoCall
    /\ pc[p] \in {"meta", "nodes"} => my[p].op = "get"
    /\ pc[p] = "range" => my[p].op = "range"
    /\ pc[p] \in Computing => my[p].op \in {"set", "delete"}
    /\ pc[p] \notin {"off", "range"} => my[p].key \in Keys
    /\ pc[p] # "off" => my[p].table \in 1..current
    /\ pc[p] \in {"meta", "nodes"} => my[p].block \in 1..Len(Chain(p))
    /\ pc[p] \in Working \cup {"loadTable", "lock"} => my[p].hint = "none"
    /\ pc[p] = "shrinkFast" => my[p].hint = "shrink"
    /\ (pc[p] \in Computing \ {"storeNode", "clearMeta", "clearNode", "addSize"} /\ my[p].hint # "shrink")
          => my[p].saw = None

Phases == \A p \in Procs : Phase(p)

\* A bucket has one process working in it, and is locked.
Locking == \A p \in Procs :
    pc[p] \in Working =>
        /\ MyBucket(p) \in locks
        /\ \A q \in Procs : pc[q] \in Working /\ MyBucket(q) = MyBucket(p) => q = p

\* One process resizes.  Who works in the published table while it is copied works in a
\* bucket that is still to be copied.
OneResizes == \A p \in Procs :
    pc[p] \in Resizing =>
        /\ resizing
        /\ \A q \in Procs : pc[q] \in Resizing => q = p

CopiedBy(p) ==
    /\ my[p].table = current
    /\ my[p].new \in DOMAIN tables /\ current < my[p].new
    /\ my[p].todo \subseteq DOMAIN tables[current].buckets
    /\ Neat(tables[my[p].new])
    /\ \A k \in Keys :
          Lookup(tables[my[p].new], k) = IF BucketOf(tables[current], k) \in my[p].todo THEN None
                                         ELSE Lookup(tables[current], k)

Copied == \A p \in Procs : pc[p] = "copy" => CopiedBy(p)

Outpaced == \A p \in Procs : \A q \in Procs :
    pc[p] = "copy" /\ pc[q] \in Admitted /\ my[q].table = current => Index(q) \in my[p].todo

InPublished == \A p \in Procs : pc[p] \in Settled => my[p].table = current

\* Between two writes to a slot its metadata and its node do not agree.
Disturbs(p) == pc[p] = "clearNode" \/ (pc[p] = "storeNode" /\ my[p].delta = 1)
Disturbed(u, i, x) == \E p \in Procs : Disturbs(p) /\ MyBucket(p) = <<u, i>> /\ my[p].place = x

Placed == \A u \in DOMAIN tables : \A i \in DOMAIN tables[u].buckets :
    /\ Alone(tables[u], i, tables[u].buckets[i])
    /\ \A x \in Places(tables[u].buckets[i]) :
          Right(tables[u], tables[u].buckets[i], x) \/ Disturbed(u, i, x)

\* What a process knows of the slot it is writing to.
NodeAt(p) == Node(Chain(p), my[p].place)
MetaAt(p) == Meta(Chain(p), my[p].place)

Absent(p) == NodeAt(p) = None /\ Lacks(Table(p), my[p].key) /\ my[p].saw = None
There(p)  == my[p].saw # None /\ my[p].saw[1] = my[p].key /\ NodeAt(p) = my[p].saw
             /\ MetaAt(p) = MyTag(p)

Acts(p) ==
    /\ pc[p] \in {"storeMeta", "storeNode", "clearMeta", "clearNode"} =>
          my[p].place \in Places(Chain(p))
    /\ pc[p] = "storeMeta" => my[p].op = "set" /\ my[p].delta = 1 /\ Absent(p) /\ MetaAt(p) = EmptySlot
    /\ pc[p] = "storeNode" =>
          /\ my[p].op = "set"
          /\ \/ my[p].delta = 1 /\ Absent(p) /\ MetaAt(p) = MyTag(p)
             \/ my[p].delta = 0 /\ There(p)
    /\ pc[p] = "clearMeta" => my[p].op = "delete" /\ my[p].delta = -1 /\ There(p)
    /\ pc[p] = "clearNode" => /\ my[p].op = "delete" /\ my[p].delta = -1
                              /\ NodeAt(p) # None /\ NodeAt(p)[1] = my[p].key /\ MetaAt(p) = EmptySlot
    /\ pc[p] = "addSize" => my[p].delta \in {-1, 1}

Acting == \A p \in Procs : Acts(p)

\* The history variables.
Shown == /\ contents = Contents
         /\ seen = [p \in Procs |-> seen[p]]
         /\ \A p \in Procs : /\ my[p].op # "get" => seen[p] = {}
                             /\ my[p].op # "range" => present[p] = {}

\* A reader has still to come to the node of its key, unless it may answer that there is
\* none; and may answer with any node of its key that it will come to.
Ahead(p, x)  == x[1] > my[p].block \/ (x[1] = my[p].block /\ (pc[p] = "meta" \/ x[2] \in my[p].marked))
Marked(p, x) == pc[p] = "nodes" /\ x[1] = my[p].block /\ x[2] \in my[p].marked

OfKey(p, x)  == Node(Chain(p), x) # None /\ Node(Chain(p), x)[1] = my[p].key

Foreseen(p) ==
    /\ contents[my[p].key] \in seen[p]
    /\ None \in seen[p] \/ \E x \in Places(Chain(p)) :
                              OfKey(p, x) /\ Meta(Chain(p), x) = MyTag(p) /\ Ahead(p, x)
    /\ \A x \in Places(Chain(p)) :
          OfKey(p, x) /\ (Meta(Chain(p), x) # EmptySlot \/ Marked(p, x)) => Node(Chain(p), x) \in seen[p]

Reads == \A p \in Procs : my[p].op = "get" => Foreseen(p)

\* Range has visited each key that is in its table, and was there all the time, in the
\* buckets that it has left behind, and no key of the others.
Ranged(p) ==
    /\ my[p].todo \subseteq DOMAIN Table(p).buckets
    /\ \A k \in Keys :
          /\ k \in present[p] => ~Lacks(Table(p), k)
          /\ my[p].visited[k] <= 1
          /\ BucketOf(Table(p), k) \in my[p].todo => my[p].visited[k] = 0
          /\ (BucketOf(Table(p), k) \notin my[p].todo /\ k \in present[p]) => my[p].visited[k] = 1

Ranges == \A p \in Procs : my[p].op = "range" => Ranged(p)

Inv == /\ Types /\ Phases /\ Locking /\ OneResizes /\ Copied /\ Outpaced /\ InPublished
       /\ Placed /\ Acting /\ Shown /\ Reads /\ Ranges /\ NobodyOversleeps /\ SizeAccounted

--------------------------------------------------------------------------------
(* What the actions do *)

\* A process goes from one position to another; the others stay.
Moves(p, from, to) ==
    /\ pc[p] = from /\ pc'[p] = to
    /\ pc' \in [Procs -> Positions] /\ my' \in [Procs -> Locals]
    /\ \A q \in Procs : q # p => pc'[q] = pc[q] /\ my'[q] = my[q]

SameCall(p)   == my'[p].op = my[p].op /\ my'[p].key = my[p].key
SameWrite(p)  == my'[p].place = my[p].place /\ my'[p].delta = my[p].delta /\ my'[p].saw = my[p].saw
SameResize(p) == my'[p].hint = my[p].hint /\ my'[p].new = my[p].new /\ my'[p].todo = my[p].todo

SameTables == tables' = tables /\ current' = current
SameFlag   == resizing' = resizing /\ asleep' = asleep
Outside    == SameTables /\ locks' = locks /\ SameFlag
SameGot    == got' = got

\* A process whose position and locals are the only ones to change.
LEMMA MovesBy ==
    ASSUME Types, NEW p \in Procs, NEW from, pc[p] = from, NEW to \in Positions,
           pc' = [pc EXCEPT ![p] = to], NEW r \in Locals, my' = [my EXCEPT ![p] = r]
    PROVE  Moves(p, from, to) /\ my'[p] = r
<1>1. pc \in [Procs -> Positions] /\ my \in [Procs -> Locals]
  BY DEF Types
<1>2. QED
  BY <1>1 DEF Moves

\* Nothing but the position.
LEMMA StepDoes ==
    ASSUME Types, NEW p \in Procs, NEW from, NEW to \in Positions, Step(p, from, to), my' = my
    PROVE  Moves(p, from, to) /\ my'[p] = my[p]
<1>1. pc \in [Procs -> Positions] /\ my \in [Procs -> Locals]
  BY DEF Types
<1>2. my' = [my EXCEPT ![p] = my[p]] /\ my[p] \in Locals
  BY <1>1
<1>3. QED
  BY <1>2, MovesBy DEF Step

\* A process that has no call has locals like any other.
LEMMA NoCallTyped == NoCall \in Locals
<1>1. NoCall.visited \in [Keys -> Nat]
  BY DEF NoCall
<1>2. QED
  BY <1>1 DEF NoCall, Locals

\* The end of a call.
LEMMA ReturnDoes ==
    ASSUME Types, NEW p \in Procs, NEW from, Return(p, from)
    PROVE  Moves(p, from, "off") /\ my'[p] = NoCall
  BY NoCallTyped, MovesBy DEF Return, Step, Positions

GetBy(p) ==
    /\ Moves(p, "off", "meta") /\ Outside /\ SameGot
    /\ my'[p].op = "get" /\ my'[p].key \in Keys /\ my'[p].table = current /\ my'[p].block = 1

\* A reader begins, in the published table.
LEMMA GetDoes ==
    ASSUME Types, NEW p \in Procs, Get(p)
    PROVE  GetBy(p)
<1>1. PICK k \in Keys : my' = [my EXCEPT ![p] = [NoCall EXCEPT !.op = "get", !.key = k, !.table = current,
                                                               !.block = 1]]
  BY DEF Get
<1> DEFINE r == [NoCall EXCEPT !.op = "get", !.key = k, !.table = current, !.block = 1]
<1>2. current \in Nat
  BY LenProperties DEF Types
<1>3. r \in Locals /\ r.op = "get" /\ r.key = k /\ r.table = current /\ r.block = 1
  BY <1>2, NoCallTyped DEF Locals
<1> HIDE DEF r
<1>4. Moves(p, "off", "meta") /\ my'[p] = r
  <2>1. pc[p] = "off" /\ pc' = [pc EXCEPT ![p] = "meta"] /\ my' = [my EXCEPT ![p] = r]
    BY <1>1 DEF Get, Step, r
  <2>2. QED
    BY <1>3, <2>1, MovesBy DEF Positions
<1>5. Outside /\ SameGot
  BY DEF Get, Begin, shared, Outside, SameTables, SameFlag, SameGot
<1>6. QED
  BY <1>3, <1>4, <1>5 DEF GetBy

LoadMetaBy(p) ==
    /\ Moves(p, "meta", "nodes") /\ Outside /\ SameGot
    /\ SameCall(p) /\ my'[p].table = my[p].table /\ my'[p].block = my[p].block
    /\ my'[p].marked = {s \in 1..Slots : Meta(Chain(p), <<my[p].block, s>>) = MyTag(p)}

\* It takes the slots of a block that are marked with the tag of its key.
LEMMA LoadMetaDoes ==
    ASSUME Types, NEW p \in Procs, LoadMeta(p)
    PROVE  LoadMetaBy(p)
<1> DEFINE S == {s \in 1..Slots : Chain(p)[my[p].block].meta[s] = MyTag(p)}
           r == [my[p] EXCEPT !.marked = S]
<1>1. my[p] \in Locals
  BY DEF Types
<1>2. /\ r \in Locals /\ r.op = my[p].op /\ r.key = my[p].key /\ r.table = my[p].table
      /\ r.block = my[p].block /\ r.marked = S
  BY <1>1 DEF Locals
<1>3. pc[p] = "meta" /\ pc' = [pc EXCEPT ![p] = "nodes"] /\ my' = [my EXCEPT ![p] = r]
  BY DEF LoadMeta, Step, Set
<1>4. S = {s \in 1..Slots : Meta(Chain(p), <<my[p].block, s>>) = MyTag(p)}
  BY DEF Meta
<1> HIDE DEF S, r
<1>5. Moves(p, "meta", "nodes") /\ my'[p] = r
  BY <1>2, <1>3, MovesBy DEF Positions
<1>6. Outside /\ SameGot
  BY DEF LoadMeta, shared, Outside, SameTables, SameFlag, SameGot
<1>7. QED
  BY <1>2, <1>4, <1>5, <1>6 DEF LoadMetaBy, SameCall

\* A marked slot, with the node that is there.
HitBy(p) ==
    /\ Moves(p, "nodes", "off") /\ my'[p] = NoCall /\ Outside
    /\ \E s \in my[p].marked :
          LET x == <<my[p].block, s>>
          IN  OfKey(p, x) /\ got' = [got EXCEPT ![p] = Node(Chain(p), x)]
MissBy(p) ==
    /\ Moves(p, "nodes", "nodes") /\ Outside /\ SameGot
    /\ SameCall(p) /\ my'[p].table = my[p].table /\ my'[p].block = my[p].block
    /\ \E s \in my[p].marked : my'[p].marked = my[p].marked \ {s} /\ ~OfKey(p, <<my[p].block, s>>)

\* It looks at the first of them.
LEMMA LoadNodeDoes ==
    ASSUME Types, NEW p \in Procs, LoadNode(p)
    PROVE  HitBy(p) \/ MissBy(p)
<1> DEFINE s == CHOOSE m \in my[p].marked : \A x \in my[p].marked : m <= x
           n == Chain(p)[my[p].block].nodes[s]
           x == <<my[p].block, s>>
<1>1. my[p] \in Locals /\ my[p].marked # {} /\ my[p].marked \subseteq 1..Slots
  <2>1. my[p] \in Locals
    BY DEF Types
  <2>2. QED
    BY <2>1 DEF LoadNode, Locals
<1>2. s \in my[p].marked
  <2>1. Slots \in Nat
    BY HashMapAssumption
  <2>2. my[p].marked \subseteq Nat
    BY <1>1, <2>1
  <2>3. \E m \in my[p].marked : \A z \in my[p].marked : m <= z
    BY <1>1, <2>2, Copies!LeastNumber
  <2>4. QED
    BY <2>3
<1>3. OfKey(p, x) <=> n # None /\ n[1] = my[p].key
  BY DEF OfKey, Node
<1>4. n = Node(Chain(p), x)
  BY DEF Node
<1>5. /\ n # None /\ n[1] = my[p].key => Return(p, "nodes") /\ got' = [got EXCEPT ![p] = n]
      /\ ~(n # None /\ n[1] = my[p].key) =>
            Step(p, "nodes", "nodes") /\ Set(p, "marked", my[p].marked \ {s}) /\ got' = got
      /\ Outside
  BY DEF LoadNode, Outside, SameTables, SameFlag, shared
<1> HIDE DEF s, n
<1>6. CASE n # None /\ n[1] = my[p].key
  <2>1. Return(p, "nodes") /\ got' = [got EXCEPT ![p] = Node(Chain(p), x)]
    BY <1>4, <1>5, <1>6
  <2>2. QED
    BY <1>2, <1>3, <1>5, <1>6, <2>1, ReturnDoes DEF HitBy
<1>7. CASE ~(n # None /\ n[1] = my[p].key)
  <2> DEFINE r == [my[p] EXCEPT !.marked = my[p].marked \ {s}]
  <2>1. /\ r \in Locals /\ r.op = my[p].op /\ r.key = my[p].key /\ r.table = my[p].table
        /\ r.block = my[p].block /\ r.marked = my[p].marked \ {s}
    BY <1>1 DEF Locals
  <2>2. pc[p] = "nodes" /\ pc' = [pc EXCEPT ![p] = "nodes"] /\ my' = [my EXCEPT ![p] = r]
    BY <1>5, <1>7 DEF Step, Set
  <2> HIDE DEF r
  <2>3. Moves(p, "nodes", "nodes") /\ my'[p] = r
    BY <2>1, <2>2, MovesBy DEF Positions
  <2>4. QED
    BY <1>2, <1>3, <1>5, <1>7, <2>1, <2>3 DEF MissBy, SameCall, SameGot
<1>8. QED
  BY <1>6, <1>7

NextBlockBy(p) ==
    /\ Moves(p, "nodes", "meta") /\ Outside /\ SameGot
    /\ SameCall(p) /\ my'[p].table = my[p].table
    /\ my[p].marked = {} /\ my[p].block < Len(Chain(p)) /\ my'[p].block = my[p].block + 1
NoNodeBy(p) ==
    /\ Moves(p, "nodes", "off") /\ my'[p] = NoCall /\ Outside
    /\ my[p].marked = {} /\ ~(my[p].block < Len(Chain(p)))
    /\ got' = [got EXCEPT ![p] = None]

\* It goes on to the next block, or has come to the end of the chain.
LEMMA LoadNextDoes ==
    ASSUME Types, NEW p \in Procs, LoadNext(p)
    PROVE  NextBlockBy(p) \/ NoNodeBy(p)
<1>1. my[p] \in Locals
  BY DEF Types
<1>2. Outside /\ my[p].marked = {}
  BY DEF LoadNext, Outside, SameTables, SameFlag, shared
<1>3. CASE my[p].block < Len(Chain(p))
  <2> DEFINE r == [my[p] EXCEPT !.block = my[p].block + 1]
  <2>1. /\ r \in Locals /\ r.op = my[p].op /\ r.key = my[p].key /\ r.table = my[p].table
        /\ r.block = my[p].block + 1
    BY <1>1 DEF Locals
  <2>2. pc[p] = "nodes" /\ pc' = [pc EXCEPT ![p] = "meta"] /\ my' = [my EXCEPT ![p] = r] /\ got' = got
    BY <1>3 DEF LoadNext, Step, Set
  <2> HIDE DEF r
  <2>3. Moves(p, "nodes", "meta") /\ my'[p] = r
    BY <2>1, <2>2, MovesBy DEF Positions
  <2>4. QED
    BY <1>2, <1>3, <2>1, <2>2, <2>3 DEF NextBlockBy, SameCall, SameGot
<1>4. CASE ~(my[p].block < Len(Chain(p)))
  <2>1. Return(p, "nodes") /\ got' = [got EXCEPT ![p] = None]
    BY <1>4 DEF LoadNext
  <2>2. QED
    BY <1>2, <1>4, <2>1, ReturnDoes DEF NoNodeBy
<1>5. QED
  BY <1>3, <1>4

RangeFirst(p) == CHOOSE b \in my[p].todo : \A c \in my[p].todo : b <= c

BeginRangeBy(p) ==
    /\ Moves(p, "off", "range") /\ Outside /\ SameGot
    /\ my'[p].op = "range" /\ my'[p].table = current
    /\ my'[p].todo = DOMAIN tables[current].buckets /\ my'[p].visited = [k \in Keys |-> 0]

\* A Range begins.
LEMMA BeginRangeDoes ==
    ASSUME Types, NEW p \in Procs, BeginRange(p)
    PROVE  BeginRangeBy(p)
<1> DEFINE todo == 0..(TableLen(tables[current]) - 1)
           r == [NoCall EXCEPT !.op = "range", !.table = current, !.todo = todo]
<1>1. current \in Nat /\ tables[current] \in AllTables
  BY LenProperties, ElementOfSeq DEF Types
<1>2. todo = DOMAIN tables[current].buckets /\ todo \subseteq Nat
  BY <1>1, TableTyped
<1> HIDE DEF todo
<1>3. /\ r \in Locals /\ r.op = "range" /\ r.table = current /\ r.todo = todo
      /\ r.visited = [k \in Keys |-> 0]
  BY <1>1, <1>2, NoCallTyped DEF Locals, NoCall
<1>4. pc[p] = "off" /\ pc' = [pc EXCEPT ![p] = "range"] /\ my' = [my EXCEPT ![p] = r]
  BY DEF BeginRange, Step, todo
<1> HIDE DEF r
<1>5. Moves(p, "off", "range") /\ my'[p] = r
  BY <1>3, <1>4, MovesBy DEF Positions
<1>6. Outside /\ SameGot
  BY DEF BeginRange, Begin, shared, Outside, SameTables, SameFlag, SameGot
<1>7. QED
  BY <1>2, <1>3, <1>5, <1>6 DEF BeginRangeBy

RangeBucketBy(p) ==
    /\ Moves(p, "range", "range") /\ Outside /\ SameGot
    /\ SameCall(p) /\ my'[p].table = my[p].table
    /\ \E i \in my[p].todo :
          /\ <<my[p].table, i>> \notin locks
          /\ my'[p].todo = my[p].todo \ {i}
          /\ my'[p].visited = Visit(p, Table(p).buckets[i])

\* What a bucket adds to the visits of a key.
LEMMA VisitTyped ==
    ASSUME Types, NEW p \in Procs, NEW c \in Chains
    PROVE  /\ Visit(p, c) \in [Keys -> Nat]
           /\ \A k \in Keys : my[p].visited[k] \in Nat
           /\ \A k \in Keys : (\A x \in Places(c) : Node(c, x) # None => Node(c, x)[1] # k) =>
                                Visit(p, c)[k] = my[p].visited[k]
           /\ \A k \in Keys : \A x \in Places(c) :
                 (/\ Node(c, x) # None /\ Node(c, x)[1] = k
                  /\ \A y \in Places(c) : Node(c, y) # None /\ Node(c, y)[1] = k => y = x) =>
                        Visit(p, c)[k] = my[p].visited[k] + 1
<1> DEFINE S(k) == {x \in Taken(c) : Node(c, x)[1] = k}
<1>1. my[p].visited \in [Keys -> Nat]
  BY DEF Types, Locals
<1>2. \A k \in Keys : Visit(p, c)[k] = my[p].visited[k] + Cardinality(S(k))
  BY DEF Visit
<1>3. ASSUME NEW k \in Keys PROVE Cardinality(S(k)) \in Nat
  BY PlacesFinite, FS_Subset, FS_CardinalityType
<1>4. Visit(p, c) \in [Keys -> Nat]
  <2>1. \A k \in Keys : my[p].visited[k] + Cardinality(S(k)) \in Nat
    BY <1>1, <1>3
  <2>2. QED
    BY <2>1 DEF Visit
<1>5. ASSUME NEW k \in Keys, \A x \in Places(c) : Node(c, x) # None => Node(c, x)[1] # k
      PROVE  Visit(p, c)[k] = my[p].visited[k]
  <2>1. S(k) = {}
    BY <1>5 DEF Taken
  <2>2. Cardinality(S(k)) = 0
    BY <2>1, FS_EmptySet
  <2>3. QED
    BY <1>1, <1>2, <2>2
<1>6. ASSUME NEW k \in Keys, NEW x \in Places(c), Node(c, x) # None, Node(c, x)[1] = k,
             \A y \in Places(c) : Node(c, y) # None /\ Node(c, y)[1] = k => y = x
      PROVE  Visit(p, c)[k] = my[p].visited[k] + 1
  <2>1. S(k) = {x}
    BY <1>6 DEF Taken
  <2>2. Cardinality(S(k)) = 1
    BY <2>1, FS_Singleton
  <2>3. QED
    BY <1>2, <2>2
<1>7. QED
  BY <1>1, <1>4, <1>5, <1>6

\* It visits a bucket.
LEMMA RangeBucketDoes ==
    ASSUME Types, NEW p \in Procs, RangeBucket(p),
           \A i \in my[p].todo : Table(p).buckets[i] \in Chains
    PROVE  RangeBucketBy(p)
<1> DEFINE i == RangeFirst(p)
           todo == my[p].todo \ {i}
           visited == Visit(p, Table(p).buckets[i])
           r == [my[p] EXCEPT !.todo = todo, !.visited = visited]
<1>1. my[p] \in Locals /\ my[p].todo \subseteq Nat /\ my[p].todo # {}
  BY DEF Types, Locals, RangeBucket
<1>2. i \in my[p].todo
  <2>1. \E m \in my[p].todo : \A z \in my[p].todo : m <= z
    BY <1>1, Copies!LeastNumber
  <2>2. QED
    BY <2>1 DEF RangeFirst
<1>3. visited \in [Keys -> Nat]
  BY <1>2, VisitTyped
<1>4. <<my[p].table, i>> \notin locks /\ my' = [my EXCEPT ![p].todo = todo, ![p].visited = visited]
  BY DEF RangeBucket, RangeFirst
<1> HIDE DEF i, visited
<1>5. my' = [my EXCEPT ![p] = r]
  BY <1>4 DEF Types
<1>6. /\ r \in Locals /\ r.op = my[p].op /\ r.key = my[p].key /\ r.table = my[p].table
      /\ r.todo = todo /\ r.visited = visited
  BY <1>1, <1>3 DEF Locals
<1> HIDE DEF r
<1>7. Moves(p, "range", "range") /\ my'[p] = r
  <2>1. pc[p] = "range" /\ pc' = [pc EXCEPT ![p] = "range"]
    BY DEF RangeBucket, Step
  <2>2. QED
    BY <1>5, <1>6, <2>1, MovesBy DEF Positions
<1>8. Outside /\ SameGot
  BY DEF RangeBucket, shared, Outside, SameTables, SameFlag, SameGot
<1>9. QED
  BY <1>2, <1>4, <1>6, <1>7, <1>8 DEF RangeBucketBy, SameCall, visited

RangeEndBy(p) == Moves(p, "range", "off") /\ my'[p] = NoCall /\ Outside /\ SameGot

\* It ends.
LEMMA RangeEndDoes ==
    ASSUME Types, NEW p \in Procs, RangeEnd(p)
    PROVE  RangeEndBy(p)
<1>1. Return(p, "range") /\ Outside /\ SameGot
  BY DEF RangeEnd, shared, Outside, SameTables, SameFlag, SameGot
<1>2. QED
  BY <1>1, ReturnDoes DEF RangeEndBy

ComputeBy(p) ==
    /\ Moves(p, "off", "lock") /\ Outside /\ SameGot
    /\ my'[p].op \in {"set", "delete"} /\ my'[p].key \in Keys /\ my'[p].table = current
    /\ my'[p].saw = None /\ my'[p].hint = "none"

\* A call that writes begins.
LEMMA ComputeDoes ==
    ASSUME Types, NEW p \in Procs, Compute(p)
    PROVE  ComputeBy(p)
<1>1. PICK k \in Keys, o \in {"set", "delete"} :
         my' = [my EXCEPT ![p] = [NoCall EXCEPT !.op = o, !.key = k, !.table = current]]
  BY DEF Compute
<1> DEFINE r == [NoCall EXCEPT !.op = o, !.key = k, !.table = current]
<1>2. current \in Nat
  BY LenProperties DEF Types
<1>3. /\ r \in Locals /\ r.op = o /\ r.key = k /\ r.table = current
      /\ r.saw = None /\ r.hint = "none"
  BY <1>2, NoCallTyped DEF Locals, NoCall
<1>4. pc[p] = "off" /\ pc' = [pc EXCEPT ![p] = "lock"] /\ my' = [my EXCEPT ![p] = r]
  BY <1>1 DEF Compute, Step
<1> HIDE DEF r
<1>5. Moves(p, "off", "lock") /\ my'[p] = r
  BY <1>3, <1>4, MovesBy DEF Positions, Computing
<1>6. Outside /\ SameGot
  BY DEF Compute, Begin, shared, Outside, SameTables, SameFlag, SameGot
<1>7. QED
  BY <1>3, <1>5, <1>6 DEF ComputeBy

LoadTableBy(p) ==
    /\ Moves(p, "loadTable", "lock") /\ Outside /\ SameGot
    /\ SameCall(p) /\ SameWrite(p) /\ SameResize(p) /\ my'[p].table = current

\* It takes the published table.
LEMMA LoadTableDoes ==
    ASSUME Types, NEW p \in Procs, LoadTable(p)
    PROVE  LoadTableBy(p)
<1> DEFINE r == [my[p] EXCEPT !.table = current]
<1>1. my[p] \in Locals /\ current \in Nat
  BY LenProperties DEF Types
<1>2. /\ r \in Locals /\ r.op = my[p].op /\ r.key = my[p].key /\ r.table = current
      /\ r.place = my[p].place /\ r.delta = my[p].delta /\ r.saw = my[p].saw
      /\ r.hint = my[p].hint /\ r.new = my[p].new /\ r.todo = my[p].todo
  BY <1>1 DEF Locals
<1>3. pc[p] = "loadTable" /\ pc' = [pc EXCEPT ![p] = "lock"] /\ my' = [my EXCEPT ![p] = r]
  BY DEF LoadTable, Step, Set
<1> HIDE DEF r
<1>4. Moves(p, "loadTable", "lock") /\ my'[p] = r
  BY <1>2, <1>3, MovesBy DEF Positions, Computing
<1>5. Outside /\ SameGot
  BY DEF LoadTable, shared, Outside, SameTables, SameFlag, SameGot
<1>6. QED
  BY <1>2, <1>4, <1>5 DEF LoadTableBy, SameCall, SameWrite, SameResize

LockBucketBy(p) ==
    /\ Moves(p, "lock", "checkResize") /\ my'[p] = my[p] /\ SameTables /\ SameFlag /\ SameGot
    /\ MyBucket(p) \notin locks /\ locks' = locks \cup {MyBucket(p)}

\* It locks the bucket of its key.
LEMMA LockBucketDoes ==
    ASSUME Types, NEW p \in Procs, LockBucket(p)
    PROVE  LockBucketBy(p)
<1>1. Moves(p, "lock", "checkResize") /\ my'[p] = my[p]
  BY StepDoes DEF LockBucket, Positions, Computing, Working
<1>2. QED
  BY <1>1 DEF LockBucket, LockBucketBy, SameTables, SameFlag, SameGot

CheckBy(p, from, to) ==
    /\ Moves(p, from, to) /\ my'[p] = my[p] /\ SameTables /\ SameFlag /\ SameGot /\ locks' = locks
LeaveBy(p, from, to) ==
    /\ Moves(p, from, to) /\ SameTables /\ SameFlag /\ SameGot /\ Unlock(p)

CheckResizeBy(p) == \/ CheckBy(p, "checkResize", "checkTable") /\ ~resizing
                    \/ LeaveBy(p, "checkResize", "wait") /\ my'[p] = my[p]

\* It looks whether somebody resizes.
LEMMA CheckResizeDoes ==
    ASSUME Types, NEW p \in Procs, CheckResize(p)
    PROVE  CheckResizeBy(p)
<1>1. my' = my /\ SameTables /\ SameFlag /\ SameGot
  BY DEF CheckResize, SameTables, SameFlag, SameGot
<1>2. CASE resizing
  <2>1. Step(p, "checkResize", "wait") /\ Unlock(p)
    BY <1>2 DEF CheckResize
  <2>2. Moves(p, "checkResize", "wait") /\ my'[p] = my[p]
    BY <1>1, <2>1, StepDoes DEF Positions, Computing
  <2>3. QED
    BY <1>1, <2>1, <2>2 DEF CheckResizeBy, LeaveBy
<1>3. CASE ~resizing
  <2>1. Step(p, "checkResize", "checkTable") /\ locks' = locks
    BY <1>3 DEF CheckResize
  <2>2. Moves(p, "checkResize", "checkTable") /\ my'[p] = my[p]
    BY <1>1, <2>1, StepDoes DEF Positions, Computing, Working
  <2>3. QED
    BY <1>1, <1>3, <2>1, <2>2 DEF CheckResizeBy, CheckBy
<1>4. QED
  BY <1>2, <1>3

CheckTableBy(p) == \/ CheckBy(p, "checkTable", "search") /\ my[p].table = current
                   \/ LeaveBy(p, "checkTable", "loadTable") /\ my'[p] = my[p]

\* It looks whether its table is still the published one.
LEMMA CheckTableDoes ==
    ASSUME Types, NEW p \in Procs, CheckTable(p)
    PROVE  CheckTableBy(p)
<1>1. my' = my /\ SameTables /\ SameFlag /\ SameGot
  BY DEF CheckTable, SameTables, SameFlag, SameGot
<1>2. CASE current # my[p].table
  <2>1. Step(p, "checkTable", "loadTable") /\ Unlock(p)
    BY <1>2 DEF CheckTable
  <2>2. Moves(p, "checkTable", "loadTable") /\ my'[p] = my[p]
    BY <1>1, <2>1, StepDoes DEF Positions, Computing
  <2>3. QED
    BY <1>1, <2>1, <2>2 DEF CheckTableBy, LeaveBy
<1>3. CASE current = my[p].table
  <2>1. Step(p, "checkTable", "search") /\ locks' = locks
    BY <1>3 DEF CheckTable
  <2>2. Moves(p, "checkTable", "search") /\ my'[p] = my[p]
    BY <1>1, <2>1, StepDoes DEF Positions, Computing, Working
  <2>3. QED
    BY <1>1, <1>3, <2>1, <2>2 DEF CheckTableBy, CheckBy
<1>4. QED
  BY <1>2, <1>3

\* The chain of the key of process p is changed at place x.
Effect(p, x, m, n) ==
    /\ tables' \in Seq(AllTables) /\ DOMAIN tables' = DOMAIN tables
    /\ \A u \in DOMAIN tables : u # my[p].table => tables'[u] = tables[u]
    /\ Replaced(Table(p), tables'[my[p].table], Index(p))
    /\ Table(p).buckets[Index(p)] = Chain(p)
    /\ Differs(Chain(p), tables'[my[p].table].buckets[Index(p)], x, m, n)
    /\ tables'[my[p].table].size = Table(p).size

\* The published table is the same one.
Writes(p, x, m, n) == Effect(p, x, m, n) /\ current' = current /\ SameFlag /\ SameGot

Busy(p) == my[p].table \in DOMAIN tables /\ my[p].key \in Keys

\* What a table of a process is.
LEMMA BusyTyped ==
    ASSUME Types, NEW p \in Procs, Busy(p)
    PROVE  /\ Table(p) \in AllTables /\ Index(p) \in DOMAIN Table(p).buckets
           /\ Chain(p) \in Chains /\ Table(p).buckets[Index(p)] = Chain(p)
           /\ MyTag(p) \in Tags /\ MyTag(p) # EmptySlot
           /\ my[p].table \in Nat /\ <<my[p].key, p>> \in Nodes
<1>1. Table(p) \in AllTables /\ my[p].table \in Nat
  BY ElementOfSeq, LenProperties DEF Types, Busy, Table
<1>2. QED
  BY <1>1, TableTyped DEF Index, Chain, MyTag, ChainOf, Busy, Nodes

\* Another chain in the place of that of the key of p.
LEMMA SetChainDoes ==
    ASSUME Types, NEW p \in Procs, Busy(p), NEW d, SetChain(p, d),
           NEW x, NEW m, NEW n, Differs(Chain(p), d, x, m, n)
    PROVE  Effect(p, x, m, n)
<1> DEFINE t == my[p].table
           i == Index(p)
           u == With(tables[t], i, d, tables[t].size)
<1>1. /\ t \in DOMAIN tables /\ tables[t] \in AllTables /\ i \in DOMAIN tables[t].buckets
      /\ tables[t].buckets[i] = Chain(p) /\ d \in Chains /\ tables[t].size \in Int
      /\ tables \in Seq(AllTables)
  <2>1. tables[t] \in AllTables /\ i \in DOMAIN tables[t].buckets /\ tables[t].buckets[i] = Chain(p)
    BY BusyTyped DEF Table
  <2>2. tables[t].size \in Int
    BY <2>1 DEF AllTables
  <2>3. QED
    BY <2>1, <2>2 DEF Busy, Types, Differs
<1>2. tables' = [tables EXCEPT ![t] = u]
  <2>1. tables' = [tables EXCEPT ![t].buckets[i] = d]
    BY DEF SetChain, MyBucket, Index
  <2> HIDE DEF t, i
  <2>2. [tables[t] EXCEPT !.buckets[i] = d] = u
    <3>1. tables[t] \in AllTables
      BY <1>1
    <3>2. QED
      BY <3>1 DEF With, AllTables
  <2>3. tables' = [tables EXCEPT ![t] = [tables[t] EXCEPT !.buckets[i] = d]]
    BY <2>1
  <2>4. QED
    BY <2>2, <2>3
<1> HIDE DEF t, i
<1>3. Replaced(tables[t], u, i) /\ u.buckets[i] = d /\ u.size = tables[t].size
  BY <1>1, ReplacedBy
<1> HIDE DEF u
<1>4. t \in 1..Len(tables) /\ DOMAIN tables = 1..Len(tables)
  BY <1>1, LenProperties
<1>5. u \in AllTables
  BY <1>3 DEF Replaced
<1>6. /\ tables' \in Seq(AllTables) /\ Len(tables') = Len(tables)
      /\ \A j \in 1..Len(tables) : tables'[j] = IF j = t THEN u ELSE tables[j]
  BY <1>1, <1>2, <1>4, <1>5, ExceptSeq
<1>7. DOMAIN tables' = DOMAIN tables
  BY <1>4, <1>6, LenProperties
<1>8. tables'[t] = u
  BY <1>4, <1>6
<1>9. QED
  BY <1>1, <1>3, <1>4, <1>6, <1>7, <1>8 DEF Effect, Table, t, i

FoundPlace(p) == my'[p].place \in Found(p) /\ my'[p].saw = Node(Chain(p), my'[p].place)

SearchFoundBy(p) ==
    /\ Outside /\ SameGot /\ SameCall(p) /\ SameResize(p) /\ my'[p].table = my[p].table
    /\ FoundPlace(p)
    /\ \/ Moves(p, "search", "clearMeta") /\ my[p].op = "delete" /\ my'[p].delta = -1
       \/ Moves(p, "search", "storeNode") /\ my[p].op # "delete" /\ my'[p].delta = 0

\* It has found a node.
LEMMA SearchFoundDoes ==
    ASSUME Types, NEW p \in Procs, Busy(p), SearchFound(p)
    PROVE  SearchFoundBy(p)
<1> DEFINE x == First(Found(p))
           n == Node(Chain(p), x)
           gone == my[p].op = "delete"
           r == [my[p] EXCEPT !.place = x, !.saw = n, !.delta = IF gone THEN -1 ELSE 0]
           to == IF gone THEN "clearMeta" ELSE "storeNode"
<1>1. x \in Found(p) /\ x \in Nat \X Nat /\ n \in Nodes \cup {None}
  <2>1. Found(p) # {} /\ Found(p) \subseteq Places(Chain(p)) /\ Chain(p) \in Chains
    BY BusyTyped DEF SearchFound, Found, Holding
  <2>2. x \in Found(p) /\ x \in Places(Chain(p))
    BY <2>1, FirstPlace
  <2>3. x[1] \in Nat /\ x[2] \in Nat /\ x = <<x[1], x[2]>> /\ n \in Nodes \cup {None}
    <3>1. Slots \in Nat /\ Len(Chain(p)) \in Nat
      BY <2>1, PlacesTyped
    <3>2. QED
      BY <2>1, <2>2, <3>1, PlacesTyped
  <2>4. QED
    BY <2>2, <2>3
<1>2. my' = [my EXCEPT ![p].place = x, ![p].saw = n, ![p].delta = IF gone THEN -1 ELSE 0]
  BY DEF SearchFound
<1> HIDE DEF x, n
<1>3. my[p] \in Locals /\ my' = [my EXCEPT ![p] = r]
  BY <1>2 DEF Types
<1>4. /\ r \in Locals /\ r.op = my[p].op /\ r.key = my[p].key /\ r.table = my[p].table
      /\ r.place = x /\ r.saw = n /\ (gone => r.delta = -1) /\ (~gone => r.delta = 0)
      /\ r.hint = my[p].hint /\ r.new = my[p].new /\ r.todo = my[p].todo
  BY <1>1, <1>3 DEF Locals
<1> HIDE DEF r
<1>5. pc[p] = "search" /\ pc' = [pc EXCEPT ![p] = to] /\ to \in Positions
  BY DEF SearchFound, Step, Positions, Computing, Working
<1> HIDE DEF gone
<1>6. Moves(p, "search", to) /\ my'[p] = r
  BY <1>3, <1>4, <1>5, MovesBy
<1>7. Outside /\ SameGot
  BY DEF SearchFound, shared, Outside, SameTables, SameFlag, SameGot
<1>8. FoundPlace(p)
  BY <1>1, <1>4, <1>6 DEF FoundPlace, n
<1>9. QED
  BY <1>4, <1>6, <1>7, <1>8 DEF SearchFoundBy, SameCall, SameResize, gone

SearchNothingBy(p) == LeaveBy(p, "search", "off") /\ my'[p] = NoCall

\* There is nothing to delete.
LEMMA SearchNothingDoes ==
    ASSUME Types, NEW p \in Procs, SearchNothing(p)
    PROVE  SearchNothingBy(p)
<1>1. Return(p, "search")
  BY DEF SearchNothing
<1>2. SameTables /\ SameFlag /\ SameGot /\ Unlock(p)
  BY DEF SearchNothing, SameTables, SameFlag, SameGot
<1>3. QED
  BY <1>1, <1>2, ReturnDoes DEF SearchNothingBy, LeaveBy

SearchVacantBy(p) ==
    /\ Moves(p, "search", "storeMeta") /\ Outside /\ SameGot
    /\ SameCall(p) /\ SameResize(p) /\ my'[p].table = my[p].table
    /\ my[p].op = "set" /\ Found(p) = {} /\ my'[p].place \in Vacant(Chain(p))
    /\ my'[p].saw = my[p].saw /\ my'[p].delta = 1

\* It has found a free slot.
LEMMA SearchVacantDoes ==
    ASSUME Types, NEW p \in Procs, Busy(p), SearchVacant(p)
    PROVE  SearchVacantBy(p)
<1> DEFINE x == First(Vacant(Chain(p)))
           r == [my[p] EXCEPT !.place = x, !.delta = 1]
<1>1. x \in Vacant(Chain(p)) /\ x \in Nat \X Nat
  <2>1. Vacant(Chain(p)) # {} /\ Vacant(Chain(p)) \subseteq Places(Chain(p)) /\ Chain(p) \in Chains
    BY BusyTyped DEF SearchVacant, Vacant
  <2>2. x \in Vacant(Chain(p)) /\ x \in Places(Chain(p))
    BY <2>1, FirstPlace
  <2>3. x[1] \in Nat /\ x[2] \in Nat /\ x = <<x[1], x[2]>>
    <3>1. Slots \in Nat /\ Len(Chain(p)) \in Nat
      BY <2>1, PlacesTyped
    <3>2. QED
      BY <2>1, <2>2, <3>1, PlacesTyped
  <2>4. QED
    BY <2>2, <2>3
<1>2. my' = [my EXCEPT ![p].place = x, ![p].delta = 1]
  BY DEF SearchVacant
<1> HIDE DEF x
<1>3. my[p] \in Locals /\ my' = [my EXCEPT ![p] = r]
  BY <1>2 DEF Types
<1>4. /\ r \in Locals /\ r.op = my[p].op /\ r.key = my[p].key /\ r.table = my[p].table
      /\ r.place = x /\ r.saw = my[p].saw /\ r.delta = 1
      /\ r.hint = my[p].hint /\ r.new = my[p].new /\ r.todo = my[p].todo
  BY <1>1, <1>3 DEF Locals
<1> HIDE DEF r
<1>5. pc[p] = "search" /\ pc' = [pc EXCEPT ![p] = "storeMeta"]
  BY DEF SearchVacant, Step
<1>6. Moves(p, "search", "storeMeta") /\ my'[p] = r
  BY <1>3, <1>4, <1>5, MovesBy DEF Positions, Computing, Working
<1>7. Outside /\ SameGot /\ my[p].op = "set" /\ Found(p) = {}
  BY DEF SearchVacant, shared, Outside, SameTables, SameFlag, SameGot
<1>8. QED
  BY <1>1, <1>4, <1>6, <1>7 DEF SearchVacantBy, SameCall, SameResize

SearchCrowdedBy(p) ==
    /\ LeaveBy(p, "search", "casResizing")
    /\ SameCall(p) /\ SameWrite(p) /\ my'[p].table = my[p].table /\ my'[p].hint = "grow"

\* The table is to grow.
LEMMA SearchCrowdedDoes ==
    ASSUME Types, NEW p \in Procs, SearchCrowded(p)
    PROVE  SearchCrowdedBy(p)
<1> DEFINE r == [my[p] EXCEPT !.hint = "grow"]
<1>1. my[p] \in Locals
  BY DEF Types
<1>2. /\ r \in Locals /\ r.op = my[p].op /\ r.key = my[p].key /\ r.table = my[p].table
      /\ r.place = my[p].place /\ r.saw = my[p].saw /\ r.delta = my[p].delta /\ r.hint = "grow"
  BY <1>1 DEF Locals
<1>3. pc[p] = "search" /\ pc' = [pc EXCEPT ![p] = "casResizing"] /\ my' = [my EXCEPT ![p] = r]
  BY DEF SearchCrowded, Step, Set
<1> HIDE DEF r
<1>4. Moves(p, "search", "casResizing") /\ my'[p] = r
  BY <1>2, <1>3, MovesBy DEF Positions, Computing
<1>5. SameTables /\ SameFlag /\ SameGot /\ Unlock(p)
  BY DEF SearchCrowded, SameTables, SameFlag, SameGot
<1>6. QED
  BY <1>2, <1>4, <1>5 DEF SearchCrowdedBy, LeaveBy, SameCall, SameWrite

NextPlace(p) == <<Len(Chain(p)) + 1, 1>>

SearchFullBy(p) ==
    /\ Moves(p, "search", "addSize") /\ Unlock(p)
    /\ SameCall(p) /\ SameResize(p) /\ my'[p].table = my[p].table /\ my'[p].delta = 1
    /\ my[p].op = "set" /\ Found(p) = {}
    /\ Writes(p, NextPlace(p), MyTag(p), <<my[p].key, p>>)

\* It adds a block.
LEMMA SearchFullDoes ==
    ASSUME Types, NEW p \in Procs, Busy(p), SearchFull(p)
    PROVE  SearchFullBy(p)
<1> DEFINE r == [my[p] EXCEPT !.delta = 1]
           n == <<my[p].key, p>>
<1>1. my[p] \in Locals
  BY DEF Types
<1>2. /\ r \in Locals /\ r.op = my[p].op /\ r.key = my[p].key /\ r.table = my[p].table
      /\ r.delta = 1 /\ r.hint = my[p].hint /\ r.new = my[p].new /\ r.todo = my[p].todo
  BY <1>1 DEF Locals
<1>3. pc[p] = "search" /\ pc' = [pc EXCEPT ![p] = "addSize"] /\ my' = [my EXCEPT ![p] = r]
  BY DEF SearchFull, Step, Set
<1> HIDE DEF r
<1>4. Moves(p, "search", "addSize") /\ my'[p] = r
  BY <1>2, <1>3, MovesBy DEF Positions, Computing
<1>5. /\ SameFlag /\ SameGot /\ Unlock(p) /\ current' = current
      /\ my[p].op = "set" /\ Found(p) = {}
      /\ SetChain(p, Append(Chain(p), NewBlock(n, MyTag(p))))
  BY DEF SearchFull, SameFlag, SameGot
<1>6. Differs(Chain(p), Append(Chain(p), NewBlock(n, MyTag(p))), NextPlace(p), MyTag(p), n)
  <2>1. n \in Nodes /\ MyTag(p) \in Tags /\ Chain(p) \in Chains
    BY BusyTyped
  <2>2. QED
    BY <2>1, NewBlockDiffers DEF NextPlace
<1>7. Effect(p, NextPlace(p), MyTag(p), n)
  BY <1>5, <1>6, SetChainDoes
<1>8. QED
  BY <1>2, <1>4, <1>5, <1>7 DEF SearchFullBy, SameCall, SameResize, Writes

StoreMetaBy(p) ==
    /\ Moves(p, "storeMeta", "storeNode") /\ my'[p] = my[p] /\ locks' = locks
    /\ Writes(p, my[p].place, MyTag(p), NodeAt(p))

\* It writes the metadata of a node to come.
LEMMA StoreMetaDoes ==
    ASSUME Types, NEW p \in Procs, Busy(p), my[p].place \in Places(Chain(p)), StoreMeta(p)
    PROVE  StoreMetaBy(p)
<1>1. Moves(p, "storeMeta", "storeNode") /\ my'[p] = my[p]
  BY StepDoes DEF StoreMeta, Positions, Computing, Working
<1>2. /\ SameFlag /\ SameGot /\ locks' = locks /\ current' = current
      /\ SetChain(p, PutMeta(Chain(p), my[p].place, MyTag(p)))
  BY DEF StoreMeta, SameFlag, SameGot
<1>3. Differs(Chain(p), PutMeta(Chain(p), my[p].place, MyTag(p)), my[p].place, MyTag(p), NodeAt(p))
  BY BusyTyped, PutMetaDiffers DEF NodeAt
<1>4. QED
  BY <1>1, <1>2, <1>3, SetChainDoes DEF StoreMetaBy, Writes

StoreNodeBy(p) ==
    /\ Unlock(p) /\ Writes(p, my[p].place, MetaAt(p), <<my[p].key, p>>)
    /\ \/ Moves(p, "storeNode", "off") /\ my'[p] = NoCall /\ my[p].delta = 0
       \/ Moves(p, "storeNode", "addSize") /\ my'[p] = my[p] /\ my[p].delta # 0

\* It writes the node.
LEMMA StoreNodeDoes ==
    ASSUME Types, NEW p \in Procs, Busy(p), my[p].place \in Places(Chain(p)), StoreNode(p)
    PROVE  StoreNodeBy(p)
<1> DEFINE n == <<my[p].key, p>>
<1>1. /\ SameFlag /\ SameGot /\ Unlock(p) /\ current' = current
      /\ SetChain(p, PutNode(Chain(p), my[p].place, n))
  BY DEF StoreNode, SameFlag, SameGot
<1>2. Differs(Chain(p), PutNode(Chain(p), my[p].place, n), my[p].place, MetaAt(p), n)
  BY BusyTyped, PutNodeDiffers DEF MetaAt
<1>3. Writes(p, my[p].place, MetaAt(p), n)
  BY <1>1, <1>2, SetChainDoes DEF Writes
<1>4. CASE my[p].delta = 0
  <2>1. Return(p, "storeNode")
    BY <1>4 DEF StoreNode
  <2>2. QED
    BY <1>1, <1>3, <1>4, <2>1, ReturnDoes DEF StoreNodeBy
<1>5. CASE my[p].delta # 0
  <2>1. Step(p, "storeNode", "addSize") /\ my' = my
    BY <1>5 DEF StoreNode
  <2>2. Moves(p, "storeNode", "addSize") /\ my'[p] = my[p]
    BY <2>1, StepDoes DEF Positions, Computing
  <2>3. QED
    BY <1>1, <1>3, <1>5, <2>2 DEF StoreNodeBy
<1>6. QED
  BY <1>4, <1>5

ClearMetaBy(p) ==
    /\ Moves(p, "clearMeta", "clearNode") /\ my'[p] = my[p] /\ locks' = locks
    /\ Writes(p, my[p].place, EmptySlot, NodeAt(p))

\* It clears the metadata.
LEMMA ClearMetaDoes ==
    ASSUME Types, NEW p \in Procs, Busy(p), my[p].place \in Places(Chain(p)), ClearMeta(p)
    PROVE  ClearMetaBy(p)
<1>1. Moves(p, "clearMeta", "clearNode") /\ my'[p] = my[p]
  BY StepDoes DEF ClearMeta, Positions, Computing, Working
<1>2. /\ SameFlag /\ SameGot /\ locks' = locks /\ current' = current
      /\ SetChain(p, PutMeta(Chain(p), my[p].place, EmptySlot))
  BY DEF ClearMeta, SameFlag, SameGot
<1>3. Differs(Chain(p), PutMeta(Chain(p), my[p].place, EmptySlot), my[p].place, EmptySlot, NodeAt(p))
  <2>1. EmptySlot \in Tags
    BY DEF Tags
  <2>2. Chain(p) \in Chains
    BY BusyTyped
  <2>3. QED
    BY <2>1, <2>2, PutMetaDiffers DEF NodeAt
<1>4. QED
  BY <1>1, <1>2, <1>3, SetChainDoes DEF ClearMetaBy, Writes

ClearNodeBy(p) ==
    /\ Moves(p, "clearNode", "addSize") /\ Unlock(p)
    /\ SameCall(p) /\ SameWrite(p) /\ my'[p].table = my[p].table
    /\ Writes(p, my[p].place, MetaAt(p), None)

\* It clears the node.
LEMMA ClearNodeDoes ==
    ASSUME Types, NEW p \in Procs, Busy(p), my[p].place \in Places(Chain(p)), ClearNode(p)
    PROVE  ClearNodeBy(p)
<1> DEFINE hint == IF Chain(p)[my[p].place[1]].meta = EmptyBlock.meta THEN "shrink" ELSE "none"
           r == [my[p] EXCEPT !.hint = hint]
<1>1. my[p] \in Locals /\ hint \in {"none", "shrink"}
  BY DEF Types
<1>2. pc[p] = "clearNode" /\ pc' = [pc EXCEPT ![p] = "addSize"] /\ my' = [my EXCEPT ![p] = r]
  BY DEF ClearNode, Step, Set
<1> HIDE DEF hint
<1>3. /\ r \in Locals /\ r.op = my[p].op /\ r.key = my[p].key /\ r.table = my[p].table
      /\ r.place = my[p].place /\ r.saw = my[p].saw /\ r.delta = my[p].delta
  BY <1>1 DEF Locals
<1> HIDE DEF r
<1>4. Moves(p, "clearNode", "addSize") /\ my'[p] = r
  BY <1>2, <1>3, MovesBy DEF Positions, Computing
<1>5. /\ SameFlag /\ SameGot /\ Unlock(p) /\ current' = current
      /\ SetChain(p, PutNode(Chain(p), my[p].place, None))
  BY DEF ClearNode, SameFlag, SameGot
<1>6. Differs(Chain(p), PutNode(Chain(p), my[p].place, None), my[p].place, MetaAt(p), None)
  BY BusyTyped, PutNodeDiffers DEF MetaAt
<1>7. Writes(p, my[p].place, MetaAt(p), None)
  BY <1>5, <1>6, SetChainDoes DEF Writes
<1>8. QED
  BY <1>3, <1>4, <1>5, <1>7 DEF ClearNodeBy, SameCall, SameWrite

\* The counter of the table of process p changes, and nothing else.
Counts(p, d) ==
    /\ tables' \in Seq(AllTables) /\ DOMAIN tables' = DOMAIN tables
    /\ \A u \in DOMAIN tables : u # my[p].table => tables'[u] = tables[u]
    /\ SameShape(Table(p), tables'[my[p].table])
    /\ tables'[my[p].table].buckets = Table(p).buckets
    /\ tables'[my[p].table].size = Table(p).size + d

\* A table keeps its shape when it is counted.
LEMMA CountedTyped ==
    ASSUME NEW t \in AllTables, NEW d \in Int
    PROVE  LET u == [t EXCEPT !.size = t.size + d]
           IN  u \in AllTables /\ SameShape(t, u) /\ u.buckets = t.buckets /\ u.size = t.size + d
<1> DEFINE n == t.size + d
           u == [t EXCEPT !.size = n]
<1>1. t.size \in Int
  BY DEF AllTables
<1>2. n \in Int
  BY <1>1
<1> HIDE DEF n
<1>3. u \in AllTables /\ u.hash = t.hash /\ u.buckets = t.buckets /\ u.size = n
  BY <1>2 DEF AllTables
<1>4. QED
  BY <1>3 DEF SameShape, n

AddSizeBy(p) ==
    /\ Counts(p, my[p].delta) /\ current' = current /\ locks' = locks /\ SameFlag /\ SameGot
    /\ \/ Moves(p, "addSize", "shrinkFast") /\ my'[p] = my[p] /\ my[p].hint = "shrink"
       \/ Moves(p, "addSize", "off") /\ my'[p] = NoCall

\* It counts what it has done.
LEMMA AddSizeDoes ==
    ASSUME Types, NEW p \in Procs, Busy(p), AddSize(p)
    PROVE  AddSizeBy(p)
<1> DEFINE t == my[p].table
           u == [tables[t] EXCEPT !.size = tables[t].size + my[p].delta]
<1>1. t \in DOMAIN tables /\ tables[t] \in AllTables /\ tables \in Seq(AllTables) /\ my[p].delta \in Int
  <2>1. tables[t] \in AllTables
    BY BusyTyped DEF Table
  <2>2. my[p].delta \in Int
    BY DEF Types, Locals
  <2>3. QED
    BY <2>1, <2>2 DEF Busy, Types
<1>2. tables' = [tables EXCEPT ![t] = u]
  BY DEF AddSize
<1> HIDE DEF t
<1>3. /\ u \in AllTables /\ SameShape(tables[t], u) /\ u.buckets = tables[t].buckets
      /\ u.size = tables[t].size + my[p].delta
  BY <1>1, CountedTyped
<1> HIDE DEF u
<1>4. t \in 1..Len(tables) /\ DOMAIN tables = 1..Len(tables)
  BY <1>1, LenProperties
<1>5. /\ tables' \in Seq(AllTables) /\ Len(tables') = Len(tables)
      /\ \A j \in 1..Len(tables) : tables'[j] = IF j = t THEN u ELSE tables[j]
  BY <1>1, <1>2, <1>3, <1>4, ExceptSeq
<1>6. DOMAIN tables' = DOMAIN tables
  BY <1>4, <1>5, LenProperties
<1>7. tables'[t] = u
  BY <1>4, <1>5
<1>8. Counts(p, my[p].delta)
  BY <1>3, <1>4, <1>5, <1>6, <1>7 DEF Counts, Table, t
<1>9. current' = current /\ locks' = locks /\ SameFlag /\ SameGot
  BY DEF AddSize, SameFlag, SameGot
<1>10. CASE my[p].hint = "shrink"
  <2>1. Step(p, "addSize", "shrinkFast") /\ my' = my
    BY <1>10 DEF AddSize
  <2>2. Moves(p, "addSize", "shrinkFast") /\ my'[p] = my[p]
    BY <2>1, StepDoes DEF Positions, Computing
  <2>3. QED
    BY <1>8, <1>9, <1>10, <2>2 DEF AddSizeBy
<1>11. CASE my[p].hint # "shrink"
  <2>1. Return(p, "addSize")
    BY <1>11 DEF AddSize
  <2>2. QED
    BY <1>8, <1>9, <2>1, ReturnDoes DEF AddSizeBy
<1>12. QED
  BY <1>10, <1>11

ShrinkFastBy(p) ==
    /\ Outside /\ SameGot
    /\ \/ Moves(p, "shrinkFast", "off") /\ my'[p] = NoCall
       \/ Moves(p, "shrinkFast", "casResizing") /\ my'[p] = my[p]

\* It looks whether the table may shrink.
LEMMA ShrinkFastDoes ==
    ASSUME Types, NEW p \in Procs, ShrinkFast(p)
    PROVE  ShrinkFastBy(p)
<1> DEFINE len == TableLen(Table(p))
           stop == len = MinTableLen \/ SumSize(Table(p)) > ShrinkThreshold(len)
<1>1. Outside /\ SameGot
  BY DEF ShrinkFast, shared, Outside, SameTables, SameFlag, SameGot
<1>2. /\ stop => Return(p, "shrinkFast")
      /\ ~stop => Step(p, "shrinkFast", "casResizing") /\ my' = my
  BY DEF ShrinkFast
<1> HIDE DEF stop
<1>3. CASE stop
  BY <1>1, <1>2, <1>3, ReturnDoes DEF ShrinkFastBy
<1>4. CASE ~stop
  <2>1. Moves(p, "shrinkFast", "casResizing") /\ my'[p] = my[p]
    BY <1>2, <1>4, StepDoes DEF Positions, Computing
  <2>2. QED
    BY <1>1, <2>1 DEF ShrinkFastBy
<1>5. QED
  BY <1>3, <1>4

CasResizingBy(p) ==
    /\ SameTables /\ locks' = locks /\ resizing' = TRUE /\ asleep' = asleep /\ SameGot /\ my'[p] = my[p]
    /\ \/ Moves(p, "casResizing", "wait") /\ resizing
       \/ Moves(p, "casResizing", "newTable") /\ ~resizing

\* It tries to become the one that resizes.
LEMMA CasResizingDoes ==
    ASSUME Types, NEW p \in Procs, CasResizing(p)
    PROVE  CasResizingBy(p)
<1>1. SameTables /\ locks' = locks /\ resizing' = TRUE /\ asleep' = asleep /\ SameGot /\ my' = my
  BY DEF CasResizing, SameTables, SameGot
<1>2. CASE resizing
  <2>1. Step(p, "casResizing", "wait")
    BY <1>2 DEF CasResizing
  <2>2. Moves(p, "casResizing", "wait") /\ my'[p] = my[p]
    BY <1>1, <2>1, StepDoes DEF Positions, Computing
  <2>3. QED
    BY <1>1, <1>2, <2>2 DEF CasResizingBy
<1>3. CASE ~resizing
  <2>1. Step(p, "casResizing", "newTable")
    BY <1>3 DEF CasResizing
  <2>2. Moves(p, "casResizing", "newTable") /\ my'[p] = my[p]
    BY <1>1, <2>1, StepDoes DEF Positions, Computing, Resizing
  <2>3. QED
    BY <1>1, <1>3, <2>2 DEF CasResizingBy
<1>4. QED
  BY <1>2, <1>3

Emptied(t) == Neat(t) /\ \A k \in Keys : Lookup(t, k) = None /\ Lacks(t, k)

\* There is another table, the last one.
Allocates(p) ==
    /\ tables' \in Seq(AllTables) /\ DOMAIN tables' = DOMAIN tables \cup {my'[p].new}
    /\ my'[p].new \notin DOMAIN tables /\ current < my'[p].new
    /\ \A u \in DOMAIN tables : tables'[u] = tables[u]
    /\ Emptied(tables'[my'[p].new])

NewTableBy(p) ==
    /\ current' = current /\ locks' = locks /\ SameFlag /\ SameGot
    /\ \/ Moves(p, "newTable", "endResize") /\ my'[p] = my[p] /\ tables' = tables
       \/ /\ Moves(p, "newTable", "copy") /\ Allocates(p)
          /\ SameCall(p) /\ SameWrite(p) /\ my'[p].hint = my[p].hint
          /\ my'[p].table = current /\ my'[p].todo = DOMAIN tables[current].buckets

\* It makes another table, if it is still needed.
LEMMA NewTableDoes ==
    ASSUME Types, NEW p \in Procs, NewTable(p)
    PROVE  NewTableBy(p)
<1> DEFINE len == TableLen(tables[current])
           shrink == my[p].hint = "shrink"
           stop == shrink /\ ~(len > MinTableLen /\ SumSize(tables[current]) <= ShrinkThreshold(len))
           other == IF shrink THEN len \div 2 ELSE 2 * len
           todo == 0..(len - 1)
<1>1. /\ current \in Nat /\ current \in 1..Len(tables) /\ Len(tables) \in Nat
      /\ DOMAIN tables = 1..Len(tables) /\ tables \in Seq(AllTables)
      /\ tables[current] \in AllTables
  BY LenProperties, ElementOfSeq DEF Types
<1>2. len \in Nat \ {0} /\ DOMAIN tables[current].buckets = todo /\ todo \subseteq Nat
  BY <1>1, TableTyped
<1>3. current' = current /\ locks' = locks /\ SameFlag /\ SameGot
  BY DEF NewTable, SameFlag, SameGot
<1>4. /\ stop => Step(p, "newTable", "endResize") /\ tables' = tables /\ my' = my
      /\ ~stop => /\ Step(p, "newTable", "copy")
                  /\ \E h \in Hashes : tables' = Append(tables, NewMapTable(other, h))
                  /\ my' = [my EXCEPT ![p].table = current, ![p].new = Len(tables'), ![p].todo = todo]
  BY DEF NewTable
<1>5. ~stop => other \in Nat \ {0}
  <2>1. SUFFICES ASSUME ~stop PROVE other \in Nat \ {0}
    OBVIOUS
  <2>2. PICK l \in Nat \ {0} : l = len
    BY <1>2
  <2>3. PICK m \in Nat \ {0} : m = MinTableLen
    BY HashMapAssumption
  <2> HIDE DEF len
  <2>4. CASE shrink
    <3>1. l > m
      BY <2>1, <2>2, <2>3, <2>4
    <3>2. l \div 2 \in Nat \ {0}
      BY <3>1
    <3>3. QED
      BY <2>2, <2>4, <3>2
  <2>5. CASE ~shrink
    <3>1. 2 * l \in Nat \ {0}
      OBVIOUS
    <3>2. QED
      BY <2>2, <2>5, <3>1
  <2>6. QED
    BY <2>4, <2>5
<1> HIDE DEF stop, other, len
<1>6. CASE stop
  <2>1. Moves(p, "newTable", "endResize") /\ my'[p] = my[p]
    BY <1>4, <1>6, StepDoes DEF Positions, Computing, Resizing
  <2>2. QED
    BY <1>3, <1>4, <1>6, <2>1 DEF NewTableBy
<1>7. CASE ~stop
  <2>1. PICK h \in Hashes : tables' = Append(tables, NewMapTable(other, h))
    BY <1>4, <1>7
  <2> DEFINE t == NewMapTable(other, h)
             new == Len(tables) + 1
             r == [my[p] EXCEPT !.table = current, !.new = new, !.todo = todo]
  <2>2. Neat(t) /\ \A k \in Keys : Lookup(t, k) = None /\ Lacks(t, k)
    BY <1>5, <1>7, NewMapTableNeat
  <2>3. t \in AllTables /\ tables' = Append(tables, t)
    BY <2>1, <2>2 DEF Neat
  <2> HIDE DEF t
  <2>4. /\ tables' \in Seq(AllTables) /\ Len(tables') = new
        /\ \A u \in 1..Len(tables) : tables'[u] = tables[u]
        /\ tables'[new] = t
    BY <1>1, <2>3, AppendProperties
  <2>5. DOMAIN tables' = DOMAIN tables \cup {new} /\ new \notin DOMAIN tables /\ current < new /\ new \in Nat
    <3>1. DOMAIN tables' = 1..new
      BY <2>4, LenProperties
    <3>2. QED
      BY <1>1, <3>1
  <2>6. my[p] \in Locals /\ my' = [my EXCEPT ![p].table = current, ![p].new = new, ![p].todo = todo]
    BY <1>4, <1>7, <2>4 DEF Types
  <2> HIDE DEF new
  <2> HIDE DEF todo
  <2>7. my' = [my EXCEPT ![p] = r]
    BY <2>6 DEF Types
  <2>8. /\ r \in Locals /\ r.op = my[p].op /\ r.key = my[p].key /\ r.table = current
        /\ r.place = my[p].place /\ r.saw = my[p].saw /\ r.delta = my[p].delta
        /\ r.hint = my[p].hint /\ r.new = new /\ r.todo = todo
    BY <1>1, <1>2, <2>5, <2>6 DEF Locals
  <2> HIDE DEF r
  <2>9. Moves(p, "newTable", "copy") /\ my'[p] = r
    <3>1. pc[p] = "newTable" /\ pc' = [pc EXCEPT ![p] = "copy"]
      BY <1>4, <1>7 DEF Step
    <3>2. QED
      BY <2>7, <2>8, <3>1, MovesBy DEF Positions, Computing, Resizing
  <2>10. Allocates(p)
    <3>1. Emptied(tables'[new])
      BY <2>2, <2>4 DEF Emptied, t
    <3>2. QED
      BY <1>1, <2>4, <2>5, <2>8, <2>9, <3>1 DEF Allocates
  <2>11. QED
    BY <1>2, <1>3, <2>8, <2>9, <2>10 DEF NewTableBy, SameCall, SameWrite
<1>8. QED
  BY <1>6, <1>7

\* The nodes of bucket i are put into the table that is to be published.
Copies1(p, i) ==
    /\ tables' = [tables EXCEPT ![my[p].new] = PutAll(Table(p).buckets[i], tables[my[p].new])]
    /\ i \in my[p].todo /\ <<my[p].table, i>> \notin locks
    /\ my'[p].todo = my[p].todo \ {i}

CopyBucketBy(p) ==
    /\ Moves(p, "copy", "copy")
    /\ current' = current /\ locks' = locks /\ SameFlag /\ SameGot
    /\ SameCall(p) /\ SameWrite(p) /\ my'[p].hint = my[p].hint /\ my'[p].table = my[p].table
    /\ my'[p].new = my[p].new
    /\ \E i \in Nat : Copies1(p, i)

\* It copies a bucket.
LEMMA CopyBucketDoes ==
    ASSUME Types, NEW p \in Procs, CopyBucket(p)
    PROVE  CopyBucketBy(p)
<1>1. PICK i \in my[p].todo :
         /\ <<my[p].table, i>> \notin locks
         /\ tables' = [tables EXCEPT ![my[p].new] = CopyNodes(Table(p).buckets[i], Table(p), @)]
         /\ Set(p, "todo", my[p].todo \ {i})
  BY DEF CopyBucket
<1> DEFINE todo == my[p].todo \ {i}
           r == [my[p] EXCEPT !.todo = todo]
<1>2. my[p] \in Locals /\ i \in Nat
  BY DEF Types, Locals
<1>3. /\ r \in Locals /\ r.op = my[p].op /\ r.key = my[p].key /\ r.table = my[p].table
      /\ r.place = my[p].place /\ r.saw = my[p].saw /\ r.delta = my[p].delta
      /\ r.hint = my[p].hint /\ r.new = my[p].new /\ r.todo = todo
  BY <1>2 DEF Locals
<1>4. pc[p] = "copy" /\ pc' = [pc EXCEPT ![p] = "copy"] /\ my' = [my EXCEPT ![p] = r]
  BY <1>1 DEF CopyBucket, Step, Set
<1> HIDE DEF r
<1>5. Moves(p, "copy", "copy") /\ my'[p] = r
  BY <1>3, <1>4, MovesBy DEF Positions, Computing, Resizing
<1>6. current' = current /\ locks' = locks /\ SameFlag /\ SameGot
  BY DEF CopyBucket, SameFlag, SameGot
<1>7. Copies1(p, i)
  BY <1>1, <1>3, <1>5 DEF Copies1, CopyNodes
<1>8. QED
  BY <1>2, <1>3, <1>5, <1>6, <1>7 DEF CopyBucketBy, SameCall, SameWrite

PublishBy(p) ==
    /\ Moves(p, "copy", "endResize") /\ my'[p] = my[p]
    /\ my[p].todo = {} /\ current' = my[p].new
    /\ tables' = tables /\ locks' = locks /\ SameFlag /\ SameGot

\* It publishes the new table.
LEMMA PublishDoes ==
    ASSUME Types, NEW p \in Procs, Publish(p)
    PROVE  PublishBy(p)
<1>1. Moves(p, "copy", "endResize") /\ my'[p] = my[p]
  BY StepDoes DEF Publish, Positions, Computing, Resizing
<1>2. QED
  BY <1>1 DEF Publish, PublishBy, SameFlag, SameGot

GoesOn(p, from) ==
    \/ Moves(p, from, "off") /\ my[p].hint = "shrink" /\ my'[p] = NoCall
    \/ /\ Moves(p, from, "loadTable") /\ my[p].hint # "shrink" /\ my'[p].hint = "none"
       /\ SameCall(p) /\ SameWrite(p) /\ my'[p].table = my[p].table

\* It goes on when a resize is over.
LEMMA GoOnDoes ==
    ASSUME Types, NEW p \in Procs, NEW from, GoOn(p, from)
    PROVE  GoesOn(p, from)
<1>1. CASE my[p].hint = "shrink"
  <2>1. Return(p, from)
    BY <1>1 DEF GoOn
  <2>2. QED
    BY <1>1, <2>1, ReturnDoes DEF GoesOn
<1>2. CASE my[p].hint # "shrink"
  <2> DEFINE r == [my[p] EXCEPT !.hint = "none"]
  <2>1. my[p] \in Locals
    BY DEF Types
  <2>2. /\ r \in Locals /\ r.op = my[p].op /\ r.key = my[p].key /\ r.table = my[p].table
        /\ r.place = my[p].place /\ r.saw = my[p].saw /\ r.delta = my[p].delta /\ r.hint = "none"
    BY <2>1 DEF Locals
  <2>3. pc[p] = from /\ pc' = [pc EXCEPT ![p] = "loadTable"] /\ my' = [my EXCEPT ![p] = r]
    BY <1>2 DEF GoOn, Step, Set
  <2> HIDE DEF r
  <2>4. Moves(p, from, "loadTable") /\ my'[p] = r
    BY <2>2, <2>3, MovesBy DEF Positions, Computing
  <2>5. QED
    BY <1>2, <2>2, <2>4 DEF GoesOn, SameCall, SameWrite
<1>3. QED
  BY <1>1, <1>2

EndResizeBy(p) ==
    /\ GoesOn(p, "endResize") /\ resizing' = FALSE /\ asleep' = {}
    /\ SameTables /\ locks' = locks /\ SameGot

\* It ends the resize.
LEMMA EndResizeDoes ==
    ASSUME Types, NEW p \in Procs, EndResize(p)
    PROVE  EndResizeBy(p)
  BY GoOnDoes DEF EndResize, EndResizeBy, SameTables, SameGot

WaitBy(p) ==
    /\ SameTables /\ locks' = locks /\ resizing' = resizing /\ SameGot
    /\ \/ Moves(p, "wait", "asleep") /\ my'[p] = my[p] /\ resizing /\ asleep' = asleep \cup {p}
       \/ GoesOn(p, "wait") /\ asleep' = asleep

\* It waits for a resize, if there is one.
LEMMA WaitDoes ==
    ASSUME Types, NEW p \in Procs, WaitForResize(p)
    PROVE  WaitBy(p)
<1>1. SameTables /\ locks' = locks /\ resizing' = resizing /\ SameGot
  BY DEF WaitForResize, SameTables, SameGot
<1>2. CASE resizing
  <2>1. Step(p, "wait", "asleep") /\ asleep' = asleep \cup {p} /\ my' = my
    BY <1>2 DEF WaitForResize
  <2>2. Moves(p, "wait", "asleep") /\ my'[p] = my[p]
    BY <2>1, StepDoes DEF Positions, Computing
  <2>3. QED
    BY <1>1, <1>2, <2>1, <2>2 DEF WaitBy
<1>3. CASE ~resizing
  <2>1. GoOn(p, "wait") /\ asleep' = asleep
    BY <1>3 DEF WaitForResize
  <2>2. QED
    BY <1>1, <2>1, GoOnDoes DEF WaitBy
<1>4. QED
  BY <1>2, <1>3

WakeUpBy(p) == Moves(p, "asleep", "wait") /\ my'[p] = my[p] /\ Outside /\ SameGot

\* It has been woken.
LEMMA WakeUpDoes ==
    ASSUME Types, NEW p \in Procs, WakeUp(p)
    PROVE  WakeUpBy(p)
<1>1. Moves(p, "asleep", "wait") /\ my'[p] = my[p]
  BY StepDoes DEF WakeUp, Positions, Computing
<1>2. Outside /\ SameGot
  BY DEF WakeUp, shared, Outside, SameTables, SameFlag, SameGot
<1>3. QED
  BY <1>1, <1>2 DEF WakeUpBy

--------------------------------------------------------------------------------
(* What stays *)

\* A process takes a step.
Steps(p) == Moves(p, pc[p], pc'[p])

\* Tables are never lost, nor do they change their shape, and the chains of those that have
\* been published never get shorter.
Grows ==
    /\ tables' \in Seq(AllTables) /\ DOMAIN tables \subseteq DOMAIN tables'
    /\ current' \in DOMAIN tables' /\ current <= current'
    /\ \A u \in DOMAIN tables :
          /\ SameShape(tables[u], tables'[u])
          /\ u <= current =>
                \A i \in DOMAIN tables[u].buckets : Len(tables[u].buckets[i]) <= Len(tables'[u].buckets[i])

\* The chain of a process is what it was, and so is its bucket.
SameView(q) ==
    /\ Chain(q)' = Chain(q) /\ MyTag(q)' = MyTag(q) /\ MyBucket(q)' = MyBucket(q)
    /\ (Lacks(Table(q), my[q].key)' <=> Lacks(Table(q), my[q].key))

\* The position of a process tells what it has in its hands.
LEMMA BusyWhen ==
    ASSUME Types, NEW p \in Procs, Phase(p), pc[p] # "off"
    PROVE  /\ my[p].table \in DOMAIN tables /\ my[p].table <= current /\ Table(p) \in AllTables
           /\ pc[p] # "range" => Busy(p)
<1>1. tables \in Seq(AllTables) /\ current \in DOMAIN tables
  BY DEF Types
<1>2. DOMAIN tables = 1..Len(tables) /\ Len(tables) \in Nat
  BY <1>1, LenProperties
<1>3. my[p].table \in 1..current
  BY DEF Phase
<1>4. my[p].table \in DOMAIN tables /\ my[p].table <= current
  BY <1>1, <1>2, <1>3
<1>5. pc[p] # "range" => my[p].key \in Keys
  BY DEF Phase
<1>6. QED
  BY <1>1, <1>4, <1>5, ElementOfSeq, LenProperties DEF Busy, Table

\* Nothing changes about the tables.
LEMMA SameGrows ==
    ASSUME Types, SameTables
    PROVE  Grows
<1>1. tables \in Seq(AllTables) /\ current \in DOMAIN tables
  BY DEF Types
<1>2. DOMAIN tables = 1..Len(tables) /\ Len(tables) \in Nat
  BY <1>1, LenProperties
<1>3. current <= current
  BY <1>1, <1>2
<1>4. ASSUME NEW u \in DOMAIN tables, NEW i \in DOMAIN tables[u].buckets
      PROVE  Len(tables[u].buckets[i]) <= Len(tables[u].buckets[i])
  <2>1. tables[u].buckets[i] \in Chains
    BY <1>1, <1>4, ElementOfSeq, LenProperties, TableTyped
  <2>2. Len(tables[u].buckets[i]) \in Nat
    BY <2>1, PlacesTyped
  <2>3. QED
    BY <2>2
<1>5. QED
  BY <1>1, <1>3, <1>4 DEF Grows, SameTables, SameShape

\* A chain is written to.
LEMMA EffectGrows ==
    ASSUME Types, NEW p \in Procs, NEW x, NEW m, NEW n, Effect(p, x, m, n), current' = current
    PROVE  Grows
<1>1. tables \in Seq(AllTables) /\ current \in DOMAIN tables
  BY DEF Types
<1>2. DOMAIN tables = 1..Len(tables) /\ Len(tables) \in Nat /\ current <= current
  <2>1. DOMAIN tables = 1..Len(tables) /\ Len(tables) \in Nat
    BY <1>1, LenProperties
  <2>2. QED
    BY <1>1, <2>1
<1>3. ASSUME NEW u \in DOMAIN tables
      PROVE  /\ SameShape(tables[u], tables'[u])
             /\ \A i \in DOMAIN tables[u].buckets : Len(tables[u].buckets[i]) <= Len(tables'[u].buckets[i])
  <2>1. \A i \in DOMAIN tables[u].buckets : Len(tables[u].buckets[i]) \in Nat
    <3>1. tables[u] \in AllTables
      BY <1>1, <1>2, <1>3, ElementOfSeq
    <3>2. QED
      BY <3>1, TableTyped, PlacesTyped
  <2>2. CASE u # my[p].table
    <3>1. tables'[u] = tables[u]
      BY <2>2 DEF Effect
    <3>2. QED
      BY <2>1, <3>1 DEF SameShape
  <2>3. CASE u = my[p].table
    <3>1. Replaced(tables[u], tables'[u], Index(p)) /\ Table(p) = tables[u]
      BY <2>3 DEF Effect, Table
    <3>2. Len(tables[u].buckets[Index(p)]) <= Len(tables'[u].buckets[Index(p)])
      BY <2>3, <3>1 DEF Effect, Differs
    <3>3. QED
      BY <2>1, <3>1, <3>2 DEF Replaced
  <2>4. QED
    BY <2>2, <2>3
<1>4. QED
  BY <1>1, <1>2, <1>3 DEF Grows, Effect

\* A table is counted.
LEMMA CountsGrows ==
    ASSUME Types, NEW p \in Procs, NEW d, Counts(p, d), current' = current
    PROVE  Grows
<1>1. tables \in Seq(AllTables) /\ current \in DOMAIN tables
  BY DEF Types
<1>2. DOMAIN tables = 1..Len(tables) /\ Len(tables) \in Nat /\ current <= current
  <2>1. DOMAIN tables = 1..Len(tables) /\ Len(tables) \in Nat
    BY <1>1, LenProperties
  <2>2. QED
    BY <1>1, <2>1
<1>3. ASSUME NEW u \in DOMAIN tables
      PROVE  /\ SameShape(tables[u], tables'[u])
             /\ \A i \in DOMAIN tables[u].buckets : Len(tables[u].buckets[i]) <= Len(tables'[u].buckets[i])
  <2>1. \A i \in DOMAIN tables[u].buckets : Len(tables[u].buckets[i]) \in Nat
    <3>1. tables[u] \in AllTables
      BY <1>1, <1>2, <1>3, ElementOfSeq
    <3>2. QED
      BY <3>1, TableTyped, PlacesTyped
  <2>2. SameShape(tables[u], tables'[u]) /\ tables'[u].buckets = tables[u].buckets
    BY DEF Counts, Table, SameShape
  <2>3. QED
    BY <2>1, <2>2
<1>4. QED
  BY <1>1, <1>2, <1>3 DEF Grows, Counts

\* A table is added.
LEMMA AllocatesGrows ==
    ASSUME Types, NEW p \in Procs, Allocates(p), current' = current
    PROVE  Grows
<1>1. tables \in Seq(AllTables) /\ current \in DOMAIN tables
  BY DEF Types
<1>2. DOMAIN tables = 1..Len(tables) /\ Len(tables) \in Nat /\ current <= current
  <2>1. DOMAIN tables = 1..Len(tables) /\ Len(tables) \in Nat
    BY <1>1, LenProperties
  <2>2. QED
    BY <1>1, <2>1
<1>3. ASSUME NEW u \in DOMAIN tables
      PROVE  /\ SameShape(tables[u], tables'[u])
             /\ \A i \in DOMAIN tables[u].buckets : Len(tables[u].buckets[i]) <= Len(tables'[u].buckets[i])
  <2>1. \A i \in DOMAIN tables[u].buckets : Len(tables[u].buckets[i]) \in Nat
    <3>1. tables[u] \in AllTables
      BY <1>1, <1>2, <1>3, ElementOfSeq
    <3>2. QED
      BY <3>1, TableTyped, PlacesTyped
  <2>2. tables'[u] = tables[u]
    BY DEF Allocates
  <2>3. QED
    BY <2>1, <2>2 DEF SameShape
<1>4. QED
  BY <1>1, <1>2, <1>3 DEF Grows, Allocates

\* The next table is published.
LEMMA PublishGrows ==
    ASSUME Types, NEW p \in Procs, CopiedBy(p), tables' = tables, current' = my[p].new
    PROVE  Grows
<1>1. tables \in Seq(AllTables) /\ my[p].new \in DOMAIN tables /\ current < my[p].new
  BY DEF Types, CopiedBy
<1>2. DOMAIN tables = 1..Len(tables) /\ Len(tables) \in Nat /\ current \in DOMAIN tables
  BY <1>1, LenProperties DEF Types
<1>3. current <= my[p].new
  BY <1>1, <1>2
<1>4. ASSUME NEW u \in DOMAIN tables, NEW i \in DOMAIN tables[u].buckets
      PROVE  Len(tables[u].buckets[i]) <= Len(tables[u].buckets[i])
  <2>1. tables[u].buckets[i] \in Chains
    BY <1>1, <1>4, ElementOfSeq, LenProperties, TableTyped
  <2>2. Len(tables[u].buckets[i]) \in Nat
    BY <2>1, PlacesTyped
  <2>3. QED
    BY <2>2
<1>5. QED
  BY <1>1, <1>3, <1>4 DEF Grows, SameShape

\* The bucket of a process, and its tag, stay the same, and its chain does not get shorter.
LEMMA GrowsFor ==
    ASSUME Types, Grows, NEW q \in Procs, Busy(q), my'[q].table = my[q].table, my'[q].key = my[q].key
    PROVE  /\ Busy(q)' /\ MyBucket(q)' = MyBucket(q) /\ MyTag(q)' = MyTag(q) /\ Index(q)' = Index(q)
           /\ my[q].table <= current => Len(Chain(q)) <= Len(Chain(q)')
<1> DEFINE u == my[q].table
           k == my[q].key
<1>1. u \in DOMAIN tables /\ k \in Keys
  BY DEF Busy
<1>2. SameShape(tables[u], tables'[u])
  BY <1>1 DEF Grows
<1>3. BucketOf(tables'[u], k) = BucketOf(tables[u], k) /\ Tag(tables'[u], k) = Tag(tables[u], k)
  BY <1>2, ShapeTells
<1>4. BucketOf(tables[u], k) \in DOMAIN tables[u].buckets
  BY BusyTyped DEF Index, Table
<1>5. u <= current => Len(ChainOf(tables[u], k)) <= Len(ChainOf(tables'[u], k))
  BY <1>1, <1>3, <1>4 DEF Grows, ChainOf
<1>6. u \in DOMAIN tables'
  BY <1>1 DEF Grows
<1>7. QED
  BY <1>1, <1>3, <1>5, <1>6 DEF Busy, MyBucket, MyTag, Index, Chain, Table

\* Whatever moves is typed.
LEMMA TypesKept ==
    ASSUME Types, Grows, NEW p \in Procs, Steps(p),
           resizing' \in BOOLEAN, asleep' \subseteq Procs, got' \in [Procs -> Nodes \cup {None}]
    PROVE  Types'
  BY DEF Types, Grows, Steps, Moves

\* The phases of the other processes.
LEMMA PhasesKept ==
    ASSUME Types, Phases, Grows, NEW p \in Procs, Steps(p), Phase(p)'
    PROVE  Phases'
<1>1. SUFFICES ASSUME NEW q \in Procs, q # p
               PROVE  Phase(q)'
  BY DEF Phases
<1>2. pc'[q] = pc[q] /\ my'[q] = my[q] /\ Phase(q)
  BY <1>1 DEF Steps, Moves, Phases
<1>3. ASSUME pc[q] # "off"
      PROVE  my[q].table \in 1..current'
  <2>1. my[q].table \in 1..current /\ current \in Nat /\ current' \in Nat /\ current <= current'
    <3>1. current \in Nat /\ current' \in Nat
      BY LenProperties DEF Types, Grows
    <3>2. QED
      BY <1>2, <1>3, <3>1 DEF Phase, Grows
  <2>2. QED
    BY <2>1
<1>4. ASSUME pc[q] \in {"meta", "nodes"}
      PROVE  my[q].block \in 1..Len(Chain(q)')
  <2>1. Busy(q) /\ my[q].table <= current
    BY <1>2, <1>4, BusyWhen
  <2>2. Len(Chain(q)) <= Len(Chain(q)')
    BY <1>2, <2>1, GrowsFor
  <2>3. Len(Chain(q)) \in Nat /\ Len(Chain(q)') \in Nat
    <3>1. Len(Chain(q)) \in Nat
      BY <2>1, BusyTyped, PlacesTyped
    <3>2. Busy(q)'
      BY <1>2, <2>1, GrowsFor
    <3>3. Chain(q)' \in Chains
      <4>1. tables'[my'[q].table] \in AllTables /\ my'[q].key \in Keys
        BY <3>2, ElementOfSeq, LenProperties DEF Busy, Grows
      <4>2. QED
        BY <4>1, TableTyped DEF Chain, Table
    <3>4. QED
      BY <3>1, <3>3, PlacesTyped
  <2>4. my[q].block \in 1..Len(Chain(q))
    BY <1>2, <1>4 DEF Phase
  <2>5. QED
    BY <2>2, <2>3, <2>4
<1>5. QED
  BY <1>2, <1>3, <1>4 DEF Phase

\* What a step does about the locks: it keeps them, gives up its own, or obtains one.
KeepsLocks(p) ==
    /\ locks' = locks
    /\ pc'[p] \in Working => pc[p] \in Working /\ my'[p].table = my[p].table /\ my'[p].key = my[p].key
GivesUp(p) == Unlock(p) /\ pc[p] \in Working /\ pc'[p] \notin Working
Obtains(p) ==
    /\ pc[p] = "lock" /\ my'[p] = my[p]
    /\ MyBucket(p) \notin locks /\ locks' = locks \cup {MyBucket(p)}

\* Whoever works in a bucket has it for itself.
LEMMA LockingKept ==
    ASSUME Types, Phases, Locking, Grows, NEW p \in Procs, Steps(p),
           KeepsLocks(p) \/ GivesUp(p) \/ Obtains(p)
    PROVE  Locking'
<1>1. ASSUME NEW q \in Procs, pc[q] \in Working \cup {"lock"},
             my'[q].table = my[q].table, my'[q].key = my[q].key
      PROVE  MyBucket(q)' = MyBucket(q)
  BY <1>1, BusyWhen, GrowsFor DEF Phases, Working
<1>2. ASSUME NEW q \in Procs, pc'[q] \in Working, q # p
      PROVE  pc[q] \in Working /\ MyBucket(q)' = MyBucket(q) /\ MyBucket(q) \in locks
  <2>1. pc[q] \in Working /\ my'[q] = my[q]
    BY <1>2 DEF Steps, Moves
  <2>2. QED
    BY <1>1, <2>1 DEF Locking
<1>3. CASE KeepsLocks(p)
  <2>1. ASSUME NEW q \in Procs, pc'[q] \in Working
        PROVE  pc[q] \in Working /\ MyBucket(q)' = MyBucket(q) /\ MyBucket(q) \in locks'
    <3>1. CASE q = p
      <4>1. pc[p] \in Working /\ my'[p].table = my[p].table /\ my'[p].key = my[p].key /\ locks' = locks
        BY <1>3, <2>1, <3>1 DEF KeepsLocks
      <4>2. QED
        BY <1>1, <3>1, <4>1 DEF Locking
    <3>2. CASE q # p
      BY <1>2, <1>3, <2>1, <3>2 DEF KeepsLocks
    <3>3. QED
      BY <3>1, <3>2
  <2>2. QED
    BY <2>1 DEF Locking
<1>4. CASE GivesUp(p)
  <2>1. pc[p] \in Working /\ pc'[p] \notin Working /\ locks' = locks \ {MyBucket(p)}
    BY <1>4 DEF GivesUp, Unlock
  <2>2. ASSUME NEW q \in Procs, pc'[q] \in Working
        PROVE  pc[q] \in Working /\ MyBucket(q)' = MyBucket(q) /\ MyBucket(q) \in locks'
    <3>1. q # p
      BY <2>1, <2>2
    <3>2. pc[q] \in Working /\ MyBucket(q)' = MyBucket(q) /\ MyBucket(q) \in locks
      BY <1>2, <2>2, <3>1
    <3>3. MyBucket(q) # MyBucket(p)
      BY <2>1, <3>1, <3>2 DEF Locking
    <3>4. QED
      BY <2>1, <3>2, <3>3
  <2>3. QED
    BY <2>2 DEF Locking
<1>5. CASE Obtains(p)
  <2>1. MyBucket(p) \notin locks /\ locks' = locks \cup {MyBucket(p)} /\ MyBucket(p)' = MyBucket(p)
    BY <1>1, <1>5 DEF Obtains
  <2>2. ASSUME NEW q \in Procs, pc'[q] \in Working, q # p
        PROVE  pc[q] \in Working /\ MyBucket(q)' = MyBucket(q) /\ MyBucket(q) \in locks' /\ MyBucket(q) # MyBucket(p)
    BY <1>2, <2>1, <2>2
  <2>3. QED
    BY <2>1, <2>2 DEF Locking
<1>6. QED
  BY <1>3, <1>4, <1>5

\* What a step does about the flag and the sleepers.
KeepsFlag(p) == SameFlag /\ (pc'[p] \in Resizing => pc[p] \in Resizing)
SetsFlag(p)  == resizing' = TRUE /\ asleep' = asleep /\ (pc'[p] \in Resizing => ~resizing)
ResetsFlag(p) == resizing' = FALSE /\ asleep' = {} /\ pc[p] \in Resizing /\ pc'[p] \notin Resizing
FallsAsleep(p) ==
    /\ resizing' = resizing /\ asleep' \subseteq asleep \cup {p} /\ (resizing \/ asleep' = asleep)
    /\ pc'[p] \notin Resizing

\* One process resizes, and nobody sleeps when none does.
LEMMA FlagKept ==
    ASSUME OneResizes, NobodyOversleeps, Types, NEW p \in Procs, Steps(p),
           KeepsFlag(p) \/ SetsFlag(p) \/ ResetsFlag(p) \/ FallsAsleep(p)
    PROVE  OneResizes' /\ NobodyOversleeps' /\ resizing' \in BOOLEAN /\ asleep' \subseteq Procs
<1>1. \A q \in Procs : q # p => pc'[q] = pc[q]
  BY DEF Steps, Moves
<1>2. resizing \in BOOLEAN /\ asleep \subseteq Procs
  BY DEF Types
<1>3. CASE KeepsFlag(p)
  BY <1>1, <1>2, <1>3 DEF KeepsFlag, SameFlag, OneResizes, NobodyOversleeps
<1>4. CASE SetsFlag(p)
  BY <1>1, <1>2, <1>4 DEF SetsFlag, OneResizes, NobodyOversleeps
<1>5. CASE ResetsFlag(p)
  BY <1>1, <1>2, <1>5 DEF ResetsFlag, OneResizes, NobodyOversleeps
<1>6. CASE FallsAsleep(p)
  BY <1>1, <1>2, <1>6 DEF FallsAsleep, OneResizes, NobodyOversleeps
<1>7. QED
  BY <1>3, <1>4, <1>5, <1>6

\* A process that has looked at the table has the published one.
Settles(p) == current' = current /\ (pc'[p] \in Settled => my'[p].table = current)

\* Whoever has found its table to be the published one may rely on it.
LEMMA InPublishedKept ==
    ASSUME InPublished, NEW p \in Procs, Steps(p), Settles(p)
    PROVE  InPublished'
  BY DEF InPublished, Steps, Moves, Settles

\* A process that goes to work while nobody resizes, or goes on working.
Admits(p) ==
    /\ current' = current /\ pc'[p] # "copy"
    /\ pc'[p] \in Admitted =>
          \/ ~resizing
          \/ pc[p] \in Admitted /\ my'[p].table = my[p].table /\ my'[p].key = my[p].key

\* It works in a bucket that is still to be copied.
LEMMA OutpacedKept ==
    ASSUME Types, Phases, Outpaced, OneResizes, Grows, NEW p \in Procs, Steps(p), Admits(p)
    PROVE  Outpaced'
<1>1. SUFFICES ASSUME NEW c \in Procs, NEW q \in Procs, pc'[c] = "copy", pc'[q] \in Admitted,
                      my'[q].table = current
               PROVE  Index(q)' \in my'[c].todo
  BY DEF Outpaced, Admits
<1>2. c # p /\ pc[c] = "copy" /\ my'[c] = my[c] /\ resizing
  <2>1. c # p
    BY <1>1 DEF Admits
  <2>2. QED
    BY <1>1, <2>1 DEF Steps, Moves, OneResizes, Resizing
<1>3. pc[q] \in Admitted /\ my'[q].table = my[q].table /\ my'[q].key = my[q].key
  BY <1>1, <1>2 DEF Admits, Steps, Moves
<1>4. Index(q)' = Index(q)
  <2>1. pc[q] \notin {"off", "range"}
    BY <1>3 DEF Admitted, Working
  <2>2. Busy(q)
    BY <2>1, BusyWhen DEF Phases
  <2>3. QED
    BY <1>3, <2>2, GrowsFor
<1>5. Index(q) \in my[c].todo
  BY <1>1, <1>2, <1>3 DEF Outpaced
<1>6. QED
  BY <1>2, <1>4, <1>5

\* What the writers know, as far as nobody else touches their chains.
LEMMA ActingKept ==
    ASSUME Acting, NEW p \in Procs, Steps(p), Acts(p)',
           \A q \in Procs : q # p /\ pc[q] \in Working => SameView(q)
    PROVE  Acting'
<1>1. SUFFICES ASSUME NEW q \in Procs, q # p
               PROVE  Acts(q)'
  BY DEF Acting
<1>2. pc'[q] = pc[q] /\ my'[q] = my[q] /\ Acts(q)
  BY <1>1 DEF Steps, Moves, Acting
<1>3. CASE pc[q] \in Working
  <2>1. Chain(q)' = Chain(q) /\ MyTag(q)' = MyTag(q) /\ (Lacks(Table(q), my[q].key)' <=> Lacks(Table(q), my[q].key))
    BY <1>1, <1>3 DEF SameView
  <2>2. QED
    BY <1>2, <2>1 DEF Acts, Absent, There, NodeAt, MetaAt
<1>4. CASE pc[q] \notin Working
  BY <1>2, <1>4 DEF Acts, Working
<1>5. QED
  BY <1>3, <1>4

\* What the tables are.
LEMMA TablesTyped ==
    ASSUME Types
    PROVE  /\ current \in Nat /\ current \in DOMAIN tables
           /\ \A u \in DOMAIN tables :
                 /\ tables[u] \in AllTables /\ u \in Nat
                 /\ \A i \in DOMAIN tables[u].buckets : tables[u].buckets[i] \in Chains
                 /\ \A k \in Keys : BucketOf(tables[u], k) \in DOMAIN tables[u].buckets
<1>1. tables \in Seq(AllTables) /\ current \in DOMAIN tables
  BY DEF Types
<1>2. DOMAIN tables \subseteq Nat /\ \A u \in DOMAIN tables : tables[u] \in AllTables
  BY <1>1, LenProperties, ElementOfSeq
<1>3. QED
  BY <1>1, <1>2, TableTyped

\* Two tables agree on a key if they agree on its chain.
LEMMA SameChain ==
    ASSUME NEW t, NEW u, SameShape(t, u), NEW k,
           u.buckets[BucketOf(t, k)] = t.buckets[BucketOf(t, k)]
    PROVE  /\ ChainOf(u, k) = ChainOf(t, k) /\ Tag(u, k) = Tag(t, k) /\ BucketOf(u, k) = BucketOf(t, k)
           /\ SameKey(t, u, k)
<1>1. BucketOf(u, k) = BucketOf(t, k) /\ Tag(u, k) = Tag(t, k)
  BY ShapeTells
<1>2. ChainOf(u, k) = ChainOf(t, k)
  BY <1>1 DEF ChainOf
<1>3. Lookup(u, k) = Lookup(t, k)
  BY <1>1, <1>2 DEF Lookup
<1>4. Lacks(u, k) <=> Lacks(t, k)
  BY <1>2 DEF Lacks
<1>5. QED
  BY <1>1, <1>2, <1>3, <1>4 DEF SameKey

\* A table that keeps its shape and a chain.
LEMMA ViewBy ==
    ASSUME NEW q, my'[q].table = my[q].table, my'[q].key = my[q].key,
           SameShape(Table(q), tables'[my[q].table]),
           tables'[my[q].table].buckets[Index(q)] = Table(q).buckets[Index(q)]
    PROVE  SameView(q)
<1> DEFINE t == Table(q)
           u == tables'[my[q].table]
           k == my[q].key
<1>1. /\ ChainOf(u, k) = ChainOf(t, k) /\ Tag(u, k) = Tag(t, k) /\ BucketOf(u, k) = BucketOf(t, k)
      /\ SameKey(t, u, k)
  BY SameChain DEF Index
<1>2. Table(q)' = u
  BY DEF Table
<1>3. Chain(q)' = Chain(q) /\ MyTag(q)' = MyTag(q)
  BY <1>1, <1>2 DEF Chain, MyTag
<1>4. MyBucket(q)' = MyBucket(q)
  BY <1>1, <1>2 DEF MyBucket
<1>5. Lacks(Table(q), my[q].key)' <=> Lacks(Table(q), my[q].key)
  BY <1>1, <1>2 DEF SameKey
<1>6. QED
  BY <1>3, <1>4, <1>5 DEF SameView

\* Who writes to the chain of its key changes nothing for those who work in other buckets.
LEMMA EffectView ==
    ASSUME NEW p \in Procs, NEW x, NEW m, NEW n, Effect(p, x, m, n),
           NEW q, my'[q].table = my[q].table, my'[q].key = my[q].key,
           my[q].table \in DOMAIN tables, Index(q) \in DOMAIN Table(q).buckets,
           MyBucket(q) # MyBucket(p)
    PROVE  SameView(q)
<1>1. CASE my[q].table # my[p].table
  <2>1. tables'[my[q].table] = Table(q)
    BY <1>1 DEF Effect, Table
  <2>2. QED
    BY <2>1, ViewBy DEF SameShape
<1>2. CASE my[q].table = my[p].table
  <2>1. Index(q) # Index(p) /\ Table(q) = Table(p)
    BY <1>2 DEF MyBucket, Index, Table
  <2>2. Replaced(Table(q), tables'[my[q].table], Index(p))
    BY <1>2, <2>1 DEF Effect
  <2>3. /\ SameShape(Table(q), tables'[my[q].table])
        /\ tables'[my[q].table].buckets[Index(q)] = Table(q).buckets[Index(q)]
    BY <2>1, <2>2 DEF Replaced
  <2>4. QED
    BY <2>3, ViewBy
<1>3. QED
  BY <1>1, <1>2

\* Nobody is disturbing a bucket that is not locked.
LEMMA Unlocked ==
    ASSUME Types, Locking, Placed, NEW u \in DOMAIN tables, NEW i \in DOMAIN tables[u].buckets,
           <<u, i>> \notin locks
    PROVE  /\ Alone(tables[u], i, tables[u].buckets[i])
           /\ \A x \in Places(tables[u].buckets[i]) : Right(tables[u], tables[u].buckets[i], x)
<1>1. \A x : ~Disturbed(u, i, x)
  BY DEF Disturbed, Disturbs, Locking, Working
<1>2. QED
  BY <1>1 DEF Placed

\* A slot that another process is writing to goes on being written to.
LEMMA DisturbedKept ==
    ASSUME Types, Phases, Grows, NEW p \in Procs, Steps(p), NEW u, NEW i, NEW x, Disturbed(u, i, x),
           ~(Disturbs(p) /\ MyBucket(p) = <<u, i>> /\ my[p].place = x)
    PROVE  Disturbed(u, i, x)'
<1>1. PICK q \in Procs : Disturbs(q) /\ MyBucket(q) = <<u, i>> /\ my[q].place = x
  BY DEF Disturbed
<1>2. q # p /\ pc'[q] = pc[q] /\ my'[q] = my[q]
  BY <1>1 DEF Steps, Moves
<1>3. Busy(q)
  BY <1>1, BusyWhen DEF Phases, Disturbs
<1>4. MyBucket(q)' = MyBucket(q)
  BY <1>2, <1>3, GrowsFor
<1>5. Disturbs(q)'
  BY <1>1, <1>2 DEF Disturbs
<1>6. QED
  BY <1>1, <1>2, <1>4, <1>5 DEF Disturbed

\* No chain of the tables that were there changes, and other tables are in order.
LEMMA PlacedKept ==
    ASSUME Types, Phases, Placed, Grows, NEW p \in Procs, Steps(p), ~Disturbs(p),
           \A u \in DOMAIN tables' :
              \/ Tidy(tables'[u])
              \/ u \in DOMAIN tables /\ SameShape(tables[u], tables'[u]) /\ tables'[u].buckets = tables[u].buckets
    PROVE  Placed'
<1>1. SUFFICES ASSUME NEW u \in DOMAIN tables', NEW i \in DOMAIN tables'[u].buckets
               PROVE  /\ Alone(tables'[u], i, tables'[u].buckets[i])
                      /\ \A x \in Places(tables'[u].buckets[i]) :
                            Right(tables'[u], tables'[u].buckets[i], x) \/ Disturbed(u, i, x)'
  BY DEF Placed
<1>2. CASE Tidy(tables'[u])
  BY <1>2 DEF Tidy
<1>3. CASE u \in DOMAIN tables /\ SameShape(tables[u], tables'[u]) /\ tables'[u].buckets = tables[u].buckets
  <2>1. i \in DOMAIN tables[u].buckets /\ tables'[u].buckets[i] = tables[u].buckets[i]
    BY <1>3
  <2>2. /\ Alone(tables[u], i, tables[u].buckets[i])
        /\ \A x \in Places(tables[u].buckets[i]) :
              Right(tables[u], tables[u].buckets[i], x) \/ Disturbed(u, i, x)
    BY <1>3, <2>1 DEF Placed
  <2>3. /\ Alone(tables'[u], i, tables'[u].buckets[i])
        /\ \A x : Right(tables[u], tables[u].buckets[i], x) => Right(tables'[u], tables'[u].buckets[i], x)
    BY <1>3, <2>1, <2>2, BucketKept
  <2>4. \A x : Disturbed(u, i, x) => Disturbed(u, i, x)'
    BY DisturbedKept
  <2>5. QED
    BY <2>1, <2>2, <2>3, <2>4
<1>4. QED
  BY <1>2, <1>3

\* A slot is written to.  Its metadata and its node agree, or the process goes on with it.
LEMMA EffectPlaced ==
    ASSUME Types, Phases, Placed, Grows, NEW p \in Procs, Steps(p), Busy(p),
           NEW x, NEW m, NEW n, Effect(p, x, m, n),
           n # None => /\ n[1] = my[p].key
                       /\ \A y \in Places(Chain(p)) :
                             y # x /\ Node(Chain(p), y) # None => Node(Chain(p), y)[1] # my[p].key,
           Disturbs(p) => my[p].place = x,
           \/ m = IF n = None THEN EmptySlot ELSE MyTag(p)
           \/ Disturbs(p)' /\ my'[p].place = x /\ my'[p].table = my[p].table /\ my'[p].key = my[p].key
    PROVE  Placed'
<1>1. SUFFICES ASSUME NEW u \in DOMAIN tables', NEW i \in DOMAIN tables'[u].buckets
               PROVE  /\ Alone(tables'[u], i, tables'[u].buckets[i])
                      /\ \A y \in Places(tables'[u].buckets[i]) :
                            Right(tables'[u], tables'[u].buckets[i], y) \/ Disturbed(u, i, y)'
  BY DEF Placed
<1>2. u \in DOMAIN tables
  BY DEF Effect
<1>3. SameShape(tables[u], tables'[u]) /\ i \in DOMAIN tables[u].buckets
  BY <1>2 DEF Grows, SameShape
<1>4. /\ Alone(tables[u], i, tables[u].buckets[i])
      /\ \A y \in Places(tables[u].buckets[i]) :
            Right(tables[u], tables[u].buckets[i], y) \/ Disturbed(u, i, y)
  BY <1>2, <1>3 DEF Placed
<1>5. \A y : Disturbed(u, i, y) /\ ~(Disturbs(p) /\ MyBucket(p) = <<u, i>> /\ my[p].place = y)
                => Disturbed(u, i, y)'
  BY DisturbedKept
<1>6. CASE <<u, i>> # MyBucket(p)
  <2>1. tables'[u].buckets[i] = tables[u].buckets[i]
    <3>1. CASE u # my[p].table
      BY <1>2, <3>1 DEF Effect
    <3>2. CASE u = my[p].table
      <4>1. i # Index(p)
        BY <1>6, <3>2 DEF MyBucket, Index
      <4>2. Replaced(tables[u], tables'[u], Index(p))
        BY <3>2 DEF Effect, Table
      <4>3. QED
        BY <1>3, <4>1, <4>2 DEF Replaced
    <3>3. QED
      BY <3>1, <3>2
  <2>2. /\ Alone(tables'[u], i, tables'[u].buckets[i])
        /\ \A y : Right(tables[u], tables[u].buckets[i], y) => Right(tables'[u], tables'[u].buckets[i], y)
    BY <1>3, <1>4, <2>1, BucketKept
  <2>3. QED
    BY <1>4, <1>5, <1>6, <2>1, <2>2
<1>7. CASE <<u, i>> = MyBucket(p)
  <2> DEFINE t == tables[u]
             w == tables'[u]
             c == t.buckets[i]
             d == w.buckets[i]
             k == my[p].key
  <2>1. u = my[p].table /\ i = Index(p) /\ t = Table(p) /\ c = Chain(p)
    <3>1. u = my[p].table /\ i = Index(p)
      BY <1>7 DEF MyBucket, Index
    <3>2. QED
      BY <3>1, BusyTyped DEF Table
  <2>2. Replaced(t, w, i) /\ Differs(c, d, x, m, n)
    BY <2>1 DEF Effect
  <2>3. BucketOf(t, k) = i /\ Tag(t, k) = MyTag(p) /\ Tag(w, k) = MyTag(p)
    <3>1. Tag(w, k) = Tag(t, k)
      BY <1>3, ShapeTells
    <3>2. QED
      BY <2>1, <3>1 DEF Index, MyTag
  <2>4. Alone(w, i, d)
    <3>1. n # None => /\ BucketOf(t, n[1]) = i
                      /\ \A y \in Places(c) : y # x /\ Node(c, y) # None => Node(c, y)[1] # n[1]
      BY <2>1, <2>3
    <3>2. QED
      BY <1>4, <2>2, <3>1, AloneKept
  <2>5. ASSUME NEW y \in Places(d), y # x
        PROVE  Right(w, d, y) \/ Disturbed(u, i, y)'
    <3>1. CASE y \in Places(c)
      <4>1. Meta(d, y) = Meta(c, y) /\ Node(d, y) = Node(c, y)
        BY <2>2, <2>5, <3>1 DEF Differs
      <4>2. Right(t, c, y) => Right(w, d, y)
        BY <1>3, <4>1, ShapeTells DEF Right
      <4>3. Disturbed(u, i, y) => Disturbed(u, i, y)'
        BY <1>5, <2>5
      <4>4. QED
        BY <1>4, <3>1, <4>2, <4>3
    <3>2. CASE y \notin Places(c)
      BY <2>2, <2>5, <3>2 DEF Differs, Right
    <3>3. QED
      BY <3>1, <3>2
  <2>6. Right(w, d, x) \/ Disturbed(u, i, x)'
    <3>1. Meta(d, x) = m /\ Node(d, x) = n
      BY <2>2 DEF Differs
    <3>2. CASE m = IF n = None THEN EmptySlot ELSE MyTag(p)
      BY <2>3, <3>1, <3>2 DEF Right
    <3>3. CASE Disturbs(p)' /\ my'[p].place = x /\ my'[p].table = my[p].table /\ my'[p].key = my[p].key
      <4>1. MyBucket(p)' = <<u, i>>
        BY <1>7, <3>3, GrowsFor
      <4>2. QED
        BY <3>3, <4>1 DEF Disturbed
    <3>4. QED
      BY <3>2, <3>3
  <2>7. QED
    BY <2>4, <2>5, <2>6
<1>8. QED
  BY <1>6, <1>7

\* What has been copied stays copied.
LEMMA CopiedKept ==
    ASSUME Types, Copied, Grows, NEW p \in Procs, Steps(p), pc'[p] # "copy", current' = current,
           \A q \in Procs : q # p /\ pc[q] = "copy" =>
              /\ tables'[my[q].new] = tables[my[q].new]
              /\ \A k \in Keys : BucketOf(tables[current], k) \notin my[q].todo =>
                                    Lookup(tables'[current], k) = Lookup(tables[current], k)
    PROVE  Copied'
<1>1. SUFFICES ASSUME NEW q \in Procs, pc'[q] = "copy"
               PROVE  CopiedBy(q)'
  BY DEF Copied
<1>2. q # p /\ pc[q] = "copy" /\ my'[q] = my[q]
  BY <1>1 DEF Steps, Moves
<1>3. CopiedBy(q)
  BY <1>2 DEF Copied
<1>4. SameShape(tables[current], tables'[current])
  BY DEF Types, Grows
<1>5. \A k : BucketOf(tables'[current], k) = BucketOf(tables[current], k)
  BY <1>4, ShapeTells
<1>6. /\ tables'[my[q].new] = tables[my[q].new]
      /\ \A k \in Keys : BucketOf(tables[current], k) \notin my[q].todo =>
                            Lookup(tables'[current], k) = Lookup(tables[current], k)
  BY <1>2
<1>7. my[q].new \in DOMAIN tables' /\ my[q].todo \subseteq DOMAIN tables'[current].buckets
  BY <1>3, <1>4 DEF CopiedBy, Grows, SameShape
<1>8. QED
  BY <1>2, <1>3, <1>5, <1>6, <1>7 DEF CopiedBy

\* Nothing changes about the tables.
LEMMA SameCopied ==
    ASSUME Types, Copied, NEW p \in Procs, Steps(p), pc'[p] # "copy", SameTables
    PROVE  Copied'
  BY SameGrows, CopiedKept DEF SameTables

\* A write goes to a bucket that is still to be copied.
LEMMA EffectCopied ==
    ASSUME Types, Copied, Outpaced, NEW p \in Procs, Steps(p), pc'[p] # "copy", current' = current,
           pc[p] \in Admitted, my[p].table = current, NEW x, NEW m, NEW n, Effect(p, x, m, n)
    PROVE  Copied'
<1>1. ASSUME NEW q \in Procs, q # p, pc[q] = "copy"
      PROVE  /\ tables'[my[q].new] = tables[my[q].new]
             /\ \A k \in Keys : BucketOf(tables[current], k) \notin my[q].todo =>
                                   Lookup(tables'[current], k) = Lookup(tables[current], k)
  <2>1. my[q].new \in DOMAIN tables /\ current < my[q].new
    BY <1>1 DEF Copied, CopiedBy
  <2>2. tables'[my[q].new] = tables[my[q].new]
    <3>1. my[q].new # current
      BY <2>1, TablesTyped
    <3>2. QED
      BY <2>1, <3>1 DEF Effect
  <2>3. Index(p) \in my[q].todo
    BY <1>1 DEF Outpaced
  <2>4. Replaced(tables[current], tables'[current], Index(p))
    BY DEF Effect, Table
  <2>5. ASSUME NEW k \in Keys, BucketOf(tables[current], k) \notin my[q].todo
        PROVE  Lookup(tables'[current], k) = Lookup(tables[current], k)
    <3>1. BucketOf(tables[current], k) # Index(p) /\ BucketOf(tables[current], k) \in DOMAIN tables[current].buckets
      BY <2>3, <2>5, TablesTyped
    <3>2. /\ SameShape(tables[current], tables'[current])
          /\ tables'[current].buckets[BucketOf(tables[current], k)]
                = tables[current].buckets[BucketOf(tables[current], k)]
      BY <2>4, <3>1 DEF Replaced
    <3>3. QED
      BY <3>2, SameChain DEF SameKey
  <2>6. QED
    BY <2>2, <2>5
<1>2. QED
  BY <1>1, EffectGrows, CopiedKept

\* The counter of a published table does not matter to a copy.
LEMMA CountsCopied ==
    ASSUME Types, Copied, NEW p \in Procs, Steps(p), pc'[p] # "copy", current' = current,
           my[p].table <= current, NEW d, Counts(p, d)
    PROVE  Copied'
<1>1. ASSUME NEW q \in Procs, q # p, pc[q] = "copy"
      PROVE  /\ tables'[my[q].new] = tables[my[q].new]
             /\ \A k \in Keys : BucketOf(tables[current], k) \notin my[q].todo =>
                                   Lookup(tables'[current], k) = Lookup(tables[current], k)
  <2>1. my[q].new \in DOMAIN tables /\ current < my[q].new
    BY <1>1 DEF Copied, CopiedBy
  <2>2. my[q].new # my[p].table
    <3>1. my[q].new \in Nat /\ my[p].table \in Nat /\ current \in Nat
      BY <2>1, TablesTyped DEF Types, Locals
    <3>2. QED
      BY <2>1, <3>1
  <2>3. tables'[my[q].new] = tables[my[q].new]
    BY <2>1, <2>2 DEF Counts
  <2>4. SameShape(tables[current], tables'[current]) /\ tables'[current].buckets = tables[current].buckets
    BY TablesTyped DEF Counts, Table, SameShape
  <2>5. \A k \in Keys : Lookup(tables'[current], k) = Lookup(tables[current], k)
    BY <2>4, SameChain DEF SameKey
  <2>6. QED
    BY <2>3, <2>5
<1>2. QED
  BY <1>1, CountsGrows, CopiedKept

--------------------------------------------------------------------------------
(* The steps of a resize that change the tables *)

Core == /\ Types /\ Phases /\ Locking /\ OneResizes /\ Copied /\ Outpaced /\ InPublished
        /\ Placed /\ Acting /\ NobodyOversleeps

\* The tables and the chains that processes work in stay.
LEMMA ViewKept ==
    ASSUME Types, Phases, NEW p \in Procs, Steps(p),
           \A u \in DOMAIN tables : u <= current =>
              SameShape(tables[u], tables'[u]) /\ tables'[u].buckets = tables[u].buckets
    PROVE  \A q \in Procs : q # p /\ pc[q] \in Working => SameView(q)
<1>1. SUFFICES ASSUME NEW q \in Procs, q # p, pc[q] \in Working
               PROVE  SameView(q)
  OBVIOUS
<1>2. my'[q] = my[q]
  BY <1>1 DEF Steps, Moves
<1>3. my[q].table \in DOMAIN tables /\ my[q].table <= current
  BY <1>1, BusyWhen DEF Phases, Working
<1>4. SameShape(Table(q), tables'[my[q].table]) /\ tables'[my[q].table].buckets = Table(q).buckets
  BY <1>3 DEF Table
<1>5. QED
  BY <1>2, <1>4, ViewBy

\* There is nobody else who copies.
LEMMA OneCopies ==
    ASSUME OneResizes, NEW p \in Procs, Steps(p), pc[p] \in Resizing
    PROVE  /\ resizing /\ \A q \in Procs : q # p => pc[q] \notin Resizing /\ pc'[q] # "copy"
  BY DEF OneResizes, Resizing, Steps, Moves

\* A new table: all is still to be copied.
LEMMA NewTableKeeps ==
    ASSUME Core, NEW p \in Procs, NewTable(p)
    PROVE  Core'
<1>1. NewTableBy(p) /\ Types /\ Phases /\ Phase(p)
  BY NewTableDoes DEF Core, Phases
<1>2. /\ current' = current /\ locks' = locks /\ SameFlag /\ SameGot /\ Steps(p)
      /\ pc[p] = "newTable" /\ pc'[p] \in {"copy", "endResize"}
  BY <1>1 DEF NewTableBy, Moves, Steps
<1>3. Busy(p) /\ my[p].op \in {"set", "delete"} /\ my[p].key \in Keys
  <2>1. Busy(p)
    BY <1>1, <1>2, BusyWhen
  <2>2. QED
    BY <1>1, <1>2, <2>1 DEF Phase, Computing, Resizing, Busy
<1>4. OneResizes' /\ NobodyOversleeps' /\ resizing' \in BOOLEAN /\ asleep' \subseteq Procs
  BY <1>2, FlagKept DEF Core, KeepsFlag, Resizing
<1>5. KeepsLocks(p) /\ Settles(p) /\ ~Disturbs(p)
  BY <1>2 DEF KeepsLocks, Settles, Disturbs, Working, Settled, Admitted
<1>6. got' \in [Procs -> Nodes \cup {None}]
  BY <1>2 DEF Core, Types, SameGot
<1>7. CASE my'[p] = my[p] /\ tables' = tables /\ pc'[p] = "endResize"
  <2>1. SameTables /\ Grows
    BY <1>1, <1>2, <1>7, SameGrows DEF SameTables
  <2>2. Phase(p)'
    BY <1>1, <1>2, <1>3, <1>7 DEF Phase, Computing, Resizing, Working
  <2>3. Acts(p)'
    BY <1>7 DEF Acts
  <2>4. Types' /\ Phases' /\ Locking' /\ InPublished'
    BY <1>2, <1>4, <1>5, <1>6, <2>1, <2>2, TypesKept, PhasesKept, LockingKept, InPublishedKept DEF Core
  <2>5. Copied' /\ Outpaced'
    <3>1. Admits(p)
      BY <1>2, <1>7 DEF Admits, Admitted, Working
    <3>2. QED
      BY <1>2, <1>7, <2>1, <3>1, SameCopied, OutpacedKept DEF Core
  <2>6. Placed'
    BY <1>2, <1>5, <1>7, <2>1, PlacedKept DEF Core, SameShape
  <2>7. Acting'
    <3>1. \A q \in Procs : q # p /\ pc[q] \in Working => SameView(q)
      BY <1>1, <1>2, <1>7, ViewKept DEF SameShape
    <3>2. QED
      BY <1>2, <2>3, <3>1, ActingKept DEF Core
  <2>8. QED
    BY <1>4, <2>4, <2>5, <2>6, <2>7 DEF Core
<1>8. CASE /\ pc'[p] = "copy" /\ Allocates(p) /\ SameCall(p) /\ SameWrite(p) /\ my'[p].hint = my[p].hint
           /\ my'[p].table = current /\ my'[p].todo = DOMAIN tables[current].buckets
  <2>1. Grows
    BY <1>1, <1>2, <1>8, AllocatesGrows
  <2>2. Phase(p)'
    <3>1. current \in 1..current
      BY <1>1, LenProperties DEF Types
    <3>2. my'[p].key \in Keys /\ my'[p].op \in {"set", "delete"} /\ my'[p].saw = my[p].saw
      BY <1>3, <1>8 DEF SameCall, SameWrite
    <3>3. my[p].hint # "shrink" => my[p].saw = None
      BY <1>1, <1>2 DEF Phase, Computing, Resizing
    <3>4. QED
      BY <1>2, <1>8, <3>1, <3>2, <3>3 DEF Phase, Computing, Resizing, Working
  <2>3. Acts(p)'
    BY <1>8 DEF Acts
  <2>4. Types' /\ Phases' /\ Locking' /\ InPublished'
    BY <1>2, <1>4, <1>5, <1>6, <2>1, <2>2, TypesKept, PhasesKept, LockingKept, InPublishedKept DEF Core
  <2>5. \A u \in DOMAIN tables : tables'[u] = tables[u]
    BY <1>8 DEF Allocates
  <2>6. Copied'
    <3>1. \A q \in Procs : pc'[q] = "copy" => q = p
      BY <1>2, OneCopies DEF Core, Resizing
    <3>2. tables'[current] = tables[current]
      BY <2>5, TablesTyped DEF Core
    <3>3. Neat(tables'[my'[p].new]) /\ \A k \in Keys : Lookup(tables'[my'[p].new], k) = None
      BY <1>8 DEF Allocates, Emptied
    <3>4. \A k \in Keys : BucketOf(tables[current], k) \in my'[p].todo
      BY <1>8, TablesTyped DEF Core
    <3>5. my'[p].new \in DOMAIN tables' /\ current < my'[p].new
      BY <1>8 DEF Allocates
    <3>6. CopiedBy(p)'
      BY <1>2, <1>8, <3>2, <3>3, <3>4, <3>5 DEF CopiedBy
    <3>7. QED
      BY <3>1, <3>6 DEF Copied
  <2>7. Outpaced'
    <3>1. SUFFICES ASSUME NEW c \in Procs, NEW q \in Procs, pc'[c] = "copy", pc'[q] \in Admitted,
                          my'[q].table = current
                   PROVE  Index(q)' \in my'[c].todo
      BY <1>2 DEF Outpaced
    <3>2. c = p /\ q # p
      BY <1>2, <1>8, <3>1, OneCopies DEF Core, Resizing, Admitted, Working
    <3>3. pc[q] \in Admitted /\ my'[q] = my[q]
      BY <1>2, <3>1, <3>2 DEF Steps, Moves
    <3>4. Busy(q)
      BY <1>1, <3>3, BusyWhen DEF Phases, Admitted, Working
    <3>5. Index(q)' = Index(q) /\ Index(q) \in DOMAIN Table(q).buckets
      BY <1>1, <2>1, <3>3, <3>4, GrowsFor, BusyTyped
    <3>6. QED
      BY <1>8, <3>1, <3>2, <3>3, <3>5 DEF Table
  <2>8. Placed'
    <3>1. \A u \in DOMAIN tables' :
              \/ Tidy(tables'[u])
              \/ u \in DOMAIN tables /\ SameShape(tables[u], tables'[u]) /\ tables'[u].buckets = tables[u].buckets
      BY <1>8 DEF Allocates, Emptied, Neat, SameShape
    <3>2. QED
      BY <1>2, <1>5, <2>1, <3>1, PlacedKept DEF Core
  <2>9. Acting'
    <3>1. \A q \in Procs : q # p /\ pc[q] \in Working => SameView(q)
      BY <1>1, <1>2, <2>5, ViewKept DEF SameShape
    <3>2. QED
      BY <1>2, <2>3, <3>1, ActingKept DEF Core
  <2>10. QED
    BY <1>4, <2>4, <2>6, <2>7, <2>8, <2>9 DEF Core
<1>9. QED
  BY <1>1, <1>7, <1>8 DEF NewTableBy, Moves

\* The next table is published: nobody works in the old one any more.
LEMMA PublishKeeps ==
    ASSUME Core, NEW p \in Procs, Publish(p)
    PROVE  Core'
<1>1. PublishBy(p) /\ Types /\ Phases /\ Phase(p)
  BY PublishDoes DEF Core, Phases
<1>2. /\ tables' = tables /\ locks' = locks /\ SameFlag /\ SameGot /\ Steps(p) /\ my'[p] = my[p]
      /\ pc[p] = "copy" /\ pc'[p] = "endResize" /\ my[p].todo = {} /\ current' = my[p].new
  BY <1>1 DEF PublishBy, Moves, Steps
<1>3. CopiedBy(p) /\ my[p].table = current /\ Busy(p) /\ my[p].op \in {"set", "delete"}
  <2>1. CopiedBy(p)
    BY <1>2 DEF Core, Copied
  <2>2. Busy(p)
    BY <1>1, <1>2, BusyWhen
  <2>3. QED
    BY <1>1, <1>2, <2>1, <2>2 DEF CopiedBy, Phase, Computing, Resizing
<1>4. Grows
  BY <1>1, <1>2, <1>3, PublishGrows
<1>5. OneResizes' /\ NobodyOversleeps' /\ resizing' \in BOOLEAN /\ asleep' \subseteq Procs
  BY <1>2, FlagKept DEF Core, KeepsFlag, Resizing
<1>6. got' \in [Procs -> Nodes \cup {None}] /\ KeepsLocks(p) /\ ~Disturbs(p)
  BY <1>2 DEF Core, Types, SameGot, KeepsLocks, Disturbs, Working
<1>7. Phase(p)'
  <2>1. current \in 1..current'
    <3>1. current \in 1..Len(tables) /\ my[p].new \in 1..Len(tables) /\ current < my[p].new /\ Len(tables) \in Nat
      BY <1>1, <1>3, LenProperties DEF Types, CopiedBy
    <3>2. QED
      BY <1>2, <3>1
  <2>2. my[p].hint # "shrink" => my[p].saw = None
    BY <1>1, <1>2 DEF Phase, Computing, Resizing
  <2>3. QED
    BY <1>2, <1>3, <2>1, <2>2 DEF Phase, Computing, Resizing, Working, Busy
<1>8. Acts(p)'
  BY <1>2 DEF Acts
<1>9. Types' /\ Phases' /\ Locking'
  BY <1>2, <1>4, <1>5, <1>6, <1>7, TypesKept, PhasesKept, LockingKept DEF Core
<1>10. \A q \in Procs : pc'[q] # "copy"
  BY <1>2, OneCopies DEF Core, Resizing
<1>11. Copied' /\ Outpaced'
  BY <1>10 DEF Copied, Outpaced
<1>12. InPublished'
  <2>1. SUFFICES ASSUME NEW q \in Procs, pc'[q] \in Settled
                 PROVE  FALSE
    BY DEF InPublished
  <2>2. q # p /\ pc[q] \in Settled
    BY <1>2, <2>1 DEF Steps, Moves, Settled, Admitted, Working
  <2>3. pc[q] \in Admitted /\ my[q].table = current
    BY <2>2 DEF Core, InPublished, Settled
  <2>4. Index(q) \in my[p].todo
    BY <1>2, <2>3 DEF Core, Outpaced
  <2>5. QED
    BY <1>2, <2>4
<1>13. Placed'
  BY <1>2, <1>4, <1>6, PlacedKept DEF Core, SameShape
<1>14. Acting'
  <2>1. \A q \in Procs : q # p /\ pc[q] \in Working => SameView(q)
    BY <1>1, <1>2, ViewKept DEF SameShape
  <2>2. QED
    BY <1>2, <1>8, <2>1, ActingKept DEF Core
<1>15. QED
  BY <1>5, <1>9, <1>11, <1>12, <1>13, <1>14 DEF Core

\* A bucket that nobody has locked is copied.
LEMMA CopyOne ==
    ASSUME Core, NEW p \in Procs, CopiedBy(p), NEW i, i \in my[p].todo, <<current, i>> \notin locks
    PROVE  LET t == tables[current]
               u == PutAll(t.buckets[i], tables[my[p].new])
           IN  /\ Neat(u) /\ SameShape(tables[my[p].new], u)
               /\ \A k \in Keys : Lookup(u, k) = IF BucketOf(t, k) \in my[p].todo \ {i} THEN None
                                                 ELSE Lookup(t, k)
<1> DEFINE t == tables[current]
           c == t.buckets[i]
           v == tables[my[p].new]
           u == PutAll(c, v)
           todo == my[p].todo
<1>1. t \in AllTables /\ i \in DOMAIN t.buckets /\ c \in Chains
  BY TablesTyped DEF Core, CopiedBy
<1>2. Alone(t, i, c) /\ \A x \in Places(c) : Right(t, c, x)
  BY <1>1, TablesTyped, Unlocked DEF Core
<1>3. /\ Neat(v) /\ i \in todo
      /\ \A k \in Keys : Lookup(v, k) = IF BucketOf(t, k) \in todo THEN None ELSE Lookup(t, k)
  BY DEF CopiedBy
<1> HIDE DEF v, todo
<1>4. ASSUME NEW x \in Taken(c)
      PROVE  /\ Node(c, x)[1] \in Keys /\ BucketOf(t, Node(c, x)[1]) = i
             /\ \A y \in Taken(c) : Node(c, y)[1] = Node(c, x)[1] => y = x
  <2>1. x \in Places(c) /\ Node(c, x) # None
    BY DEF Taken
  <2>2. Node(c, x) \in Nodes
    BY <1>1, <2>1, PlacesTyped
  <2>3. QED
    BY <1>2, <2>1, <2>2, NodeHasKey DEF Alone, Taken
<1>5. CopiedSome(c, v, Taken(c), u)
  <2>1. \A x, y \in Taken(c) : Node(c, x)[1] = Node(c, y)[1] => x = y
    BY <1>4
  <2>2. \A x \in Taken(c) : Lookup(v, Node(c, x)[1]) = None
    BY <1>3, <1>4
  <2>3. QED
    BY <1>1, <1>3, <2>1, <2>2, CopyWorks
<1> HIDE DEF u
<1>6. ASSUME NEW k \in Keys
      PROVE  Lookup(u, k) = IF BucketOf(t, k) \in todo \ {i} THEN None ELSE Lookup(t, k)
  <2>1. CASE BucketOf(t, k) # i
    <3>1. \A x \in Taken(c) : Node(c, x)[1] # k
      BY <1>4, <2>1
    <3>2. Lookup(u, k) = Lookup(v, k)
      BY <1>5, <3>1 DEF CopiedSome
    <3>3. QED
      BY <1>3, <2>1, <3>2
  <2>2. CASE BucketOf(t, k) = i /\ \E x \in Taken(c) : Node(c, x)[1] = k
    <3>1. PICK x \in Taken(c) : Node(c, x)[1] = k
      BY <2>2
    <3>2. Lookup(u, k) = Node(c, x)
      BY <1>5, <3>1 DEF CopiedSome
    <3>3. c = ChainOf(t, k) /\ x \in Places(c) /\ Node(c, x) # None
      BY <2>2, <3>1 DEF ChainOf, Taken
    <3>4. Lookup(t, k) = Node(c, x)
      BY <1>1, <1>2, <2>2, <3>1, <3>3, LookupTidy
    <3>5. QED
      BY <2>2, <3>2, <3>4
  <2>3. CASE BucketOf(t, k) = i /\ ~(\E x \in Taken(c) : Node(c, x)[1] = k)
    <3>1. Lookup(u, k) = Lookup(v, k)
      BY <1>5, <2>3 DEF CopiedSome
    <3>2. Lookup(v, k) = None
      BY <1>3, <2>3
    <3>3. Lacks(t, k)
      BY <2>3 DEF Lacks, ChainOf, Taken
    <3>4. Lookup(t, k) = None
      BY <1>1, <3>3, LookupLacks
    <3>5. QED
      BY <2>3, <3>1, <3>2, <3>4
  <2>4. QED
    BY <2>1, <2>2, <2>3
<1>7. QED
  BY <1>5, <1>6 DEF CopiedSome, u, v, todo

\* Its nodes get into the next table, which nobody else touches.
LEMMA CopyBucketKeeps ==
    ASSUME Core, NEW p \in Procs, CopyBucket(p)
    PROVE  Core'
<1>1. CopyBucketBy(p) /\ Types /\ Phases /\ Phase(p)
  BY CopyBucketDoes DEF Core, Phases
<1>2. /\ current' = current /\ locks' = locks /\ SameFlag /\ SameGot /\ Steps(p)
      /\ pc[p] = "copy" /\ pc'[p] = "copy" /\ SameCall(p) /\ SameWrite(p)
      /\ my'[p].hint = my[p].hint /\ my'[p].table = my[p].table /\ my'[p].new = my[p].new
  BY <1>1 DEF CopyBucketBy, Moves, Steps
<1>3. CopiedBy(p) /\ my[p].table = current /\ Busy(p) /\ my[p].op \in {"set", "delete"}
  <2>1. CopiedBy(p)
    BY <1>2 DEF Core, Copied
  <2>2. Busy(p)
    BY <1>1, <1>2, BusyWhen
  <2>3. QED
    BY <1>1, <1>2, <2>1, <2>2 DEF CopiedBy, Phase, Computing, Resizing
<1>4. PICK i \in Nat : Copies1(p, i)
  BY <1>1 DEF CopyBucketBy
<1> DEFINE w == my[p].new
           u == PutAll(tables[current].buckets[i], tables[w])
<1>5. /\ tables' = [tables EXCEPT ![w] = u] /\ i \in my[p].todo /\ <<current, i>> \notin locks
      /\ my'[p].todo = my[p].todo \ {i}
  BY <1>3, <1>4 DEF Copies1, Table
<1>6. /\ Neat(u) /\ SameShape(tables[w], u)
      /\ \A k \in Keys : Lookup(u, k) = IF BucketOf(tables[current], k) \in my[p].todo \ {i} THEN None
                                        ELSE Lookup(tables[current], k)
  BY <1>3, <1>5, CopyOne
<1> HIDE DEF u
<1>7. w \in DOMAIN tables /\ current < w
  BY <1>3 DEF CopiedBy
<1> HIDE DEF w
<1>8. /\ tables' \in Seq(AllTables) /\ DOMAIN tables' = DOMAIN tables /\ tables'[w] = u
      /\ \A z \in DOMAIN tables : z # w => tables'[z] = tables[z]
  <2>1. tables \in Seq(AllTables) /\ u \in AllTables /\ DOMAIN tables = 1..Len(tables)
    BY <1>1, <1>6, LenProperties DEF Types, Neat
  <2>2. /\ tables' \in Seq(AllTables) /\ Len(tables') = Len(tables)
        /\ \A j \in 1..Len(tables) : tables'[j] = IF j = w THEN u ELSE tables[j]
    BY <1>5, <1>7, <2>1, ExceptSeq
  <2>3. DOMAIN tables' = DOMAIN tables
    BY <2>1, <2>2, LenProperties
  <2>4. QED
    BY <1>7, <2>1, <2>2, <2>3
<1>9. \A z \in DOMAIN tables : z <= current => tables'[z] = tables[z]
  <2>1. \A z \in DOMAIN tables : z <= current => z # w
    <3>1. w \in Nat /\ current \in Nat /\ DOMAIN tables \subseteq Nat
      BY <1>1, <1>7, TablesTyped
    <3>2. QED
      BY <1>7, <3>1
  <2>2. QED
    BY <1>8, <2>1
<1>10. tables'[current] = tables[current] /\ current \in DOMAIN tables
  BY <1>1, <1>9, TablesTyped
<1>11. Grows
  <2>1. ASSUME NEW z \in DOMAIN tables
        PROVE  /\ SameShape(tables[z], tables'[z])
               /\ z <= current => \A j \in DOMAIN tables[z].buckets :
                                     Len(tables[z].buckets[j]) <= Len(tables'[z].buckets[j])
    <3>1. SameShape(tables[z], tables'[z])
      BY <1>6, <1>8 DEF SameShape
    <3>2. ASSUME NEW j \in DOMAIN tables[z].buckets
          PROVE  Len(tables[z].buckets[j]) <= Len(tables[z].buckets[j])
      <4>1. tables[z].buckets[j] \in Chains
        BY <1>1, TablesTyped
      <4>2. Len(tables[z].buckets[j]) \in Nat
        BY <4>1, PlacesTyped
      <4>3. QED
        BY <4>2
    <3>3. QED
      BY <1>9, <3>1, <3>2
  <2>2. QED
    BY <1>1, <1>2, <1>8, <2>1, TablesTyped DEF Grows
<1>12. OneResizes' /\ NobodyOversleeps' /\ resizing' \in BOOLEAN /\ asleep' \subseteq Procs
  BY <1>2, FlagKept DEF Core, KeepsFlag, Resizing
<1>13. /\ got' \in [Procs -> Nodes \cup {None}] /\ KeepsLocks(p) /\ ~Disturbs(p) /\ Settles(p)
  BY <1>2 DEF Core, Types, SameGot, KeepsLocks, Disturbs, Settles, Working, Settled, Admitted
<1>14. Phase(p)'
  BY <1>1, <1>2 DEF Phase, Computing, Resizing, Working, SameCall, SameWrite
<1>15. Acts(p)'
  BY <1>2 DEF Acts
<1>16. Types' /\ Phases' /\ Locking' /\ InPublished'
  BY <1>2, <1>11, <1>12, <1>13, <1>14, TypesKept, PhasesKept, LockingKept, InPublishedKept DEF Core
<1>17. Copied'
  <2>1. \A q \in Procs : pc'[q] = "copy" => q = p
    BY <1>2, OneCopies DEF Core, Resizing
  <2>2. my'[p].todo \subseteq DOMAIN tables[current].buckets
    BY <1>3, <1>5 DEF CopiedBy
  <2>3. CopiedBy(p)'
    <3>1. my'[p].new = w
      BY <1>2 DEF w
    <3>2. QED
      BY <1>2, <1>3, <1>5, <1>6, <1>7, <1>8, <1>10, <2>2, <3>1 DEF CopiedBy
  <2>4. QED
    BY <2>1, <2>3 DEF Copied
<1>18. Outpaced'
  <2>1. SUFFICES ASSUME NEW c \in Procs, NEW q \in Procs, pc'[c] = "copy", pc'[q] \in Admitted,
                        my'[q].table = current
                 PROVE  Index(q)' \in my'[c].todo
    BY <1>2 DEF Outpaced
  <2>2. c = p /\ q # p
    BY <1>2, <2>1, OneCopies DEF Core, Resizing, Admitted, Working
  <2>3. pc[q] \in Admitted /\ my'[q] = my[q]
    BY <1>2, <2>1, <2>2 DEF Steps, Moves
  <2>4. Busy(q)
    BY <1>1, <2>3, BusyWhen DEF Phases, Admitted, Working
  <2>5. Index(q)' = Index(q)
    BY <1>1, <1>11, <2>3, <2>4, GrowsFor
  <2>6. Index(q) \in my[p].todo
    BY <1>2, <2>1, <2>3 DEF Core, Outpaced
  <2>7. Index(q) # i
    <3>1. MyBucket(q) \in locks /\ MyBucket(q) = <<current, Index(q)>>
      BY <2>1, <2>3 DEF Core, Locking, Admitted, MyBucket, Index
    <3>2. QED
      BY <1>5, <3>1
  <2>8. QED
    BY <1>5, <2>2, <2>5, <2>6, <2>7
<1>19. Placed'
  <2>1. \A z \in DOMAIN tables' :
              \/ Tidy(tables'[z])
              \/ z \in DOMAIN tables /\ SameShape(tables[z], tables'[z]) /\ tables'[z].buckets = tables[z].buckets
    BY <1>6, <1>8 DEF Neat, SameShape
  <2>2. QED
    BY <1>2, <1>11, <1>13, <2>1, PlacedKept DEF Core
<1>20. Acting'
  <2>1. \A q \in Procs : q # p /\ pc[q] \in Working => SameView(q)
    BY <1>1, <1>2, <1>9, ViewKept DEF SameShape
  <2>2. QED
    BY <1>2, <1>15, <2>1, ActingKept DEF Core
<1>21. QED
  BY <1>12, <1>16, <1>17, <1>18, <1>19, <1>20 DEF Core

--------------------------------------------------------------------------------
(* The writers *)

\* Only the process that has locked a bucket may be disturbing it.
LEMMA OwnBucket ==
    ASSUME Core, NEW p \in Procs, pc[p] \in Working
    PROVE  /\ Busy(p) /\ Alone(Table(p), Index(p), Chain(p))
           /\ \A x \in Places(Chain(p)) :
                 (Disturbs(p) /\ my[p].place = x) \/ Right(Table(p), Chain(p), x)
<1>1. Busy(p) /\ Table(p) \in AllTables /\ Index(p) \in DOMAIN Table(p).buckets /\ Table(p).buckets[Index(p)] = Chain(p)
  BY BusyWhen, BusyTyped DEF Core, Phases, Working
<1>2. my[p].table \in DOMAIN tables /\ Table(p) = tables[my[p].table]
  BY <1>1 DEF Busy, Table
<1>3. /\ Alone(Table(p), Index(p), Chain(p))
      /\ \A x \in Places(Chain(p)) : Right(Table(p), Chain(p), x) \/ Disturbed(my[p].table, Index(p), x)
  BY <1>1, <1>2 DEF Core, Placed
<1>4. ASSUME NEW x, Disturbed(my[p].table, Index(p), x)
      PROVE  Disturbs(p) /\ my[p].place = x
  <2>1. PICK q \in Procs : Disturbs(q) /\ MyBucket(q) = <<my[p].table, Index(p)>> /\ my[q].place = x
    BY <1>4 DEF Disturbed
  <2>2. pc[q] \in Working /\ MyBucket(q) = MyBucket(p)
    BY <2>1 DEF Disturbs, Working, MyBucket, Index
  <2>3. q = p
    BY <2>2 DEF Core, Locking
  <2>4. QED
    BY <2>1, <2>3
<1>5. QED
  BY <1>1, <1>3, <1>4

\* The node that is written is of the key of the process, and no other is.
OwnNode(p, x, n) ==
    n # None => /\ n[1] = my[p].key
                /\ \A y \in Places(Chain(p)) :
                      y # x /\ Node(Chain(p), y) # None => Node(Chain(p), y)[1] # my[p].key

\* The slot is in order after the write, or is so when the process has written to it again.
InOrder(p, x, m, n) ==
    \/ m = IF n = None THEN EmptySlot ELSE MyTag(p)
    \/ Disturbs(p)' /\ my'[p].place = x /\ my'[p].table = my[p].table /\ my'[p].key = my[p].key

\* A process writes to its bucket.
LEMMA WriteKeeps ==
    ASSUME Core, NEW p \in Procs, Steps(p), NEW x, NEW m, NEW n, Writes(p, x, m, n),
           pc[p] \in Settled, pc'[p] \notin Resizing,
           pc'[p] \in Working => pc'[p] \in Settled /\ my'[p].table = my[p].table /\ my'[p].key = my[p].key,
           KeepsLocks(p) \/ GivesUp(p), Phase(p)', Acts(p)',
           OwnNode(p, x, n), InOrder(p, x, m, n), Disturbs(p) => my[p].place = x
    PROVE  Core'
<1>1. Effect(p, x, m, n) /\ current' = current /\ SameFlag /\ SameGot /\ Types /\ Phases
  BY DEF Writes, Core
<1>2. Grows
  BY <1>1, EffectGrows
<1>3. pc[p] \in Working /\ pc[p] \in Admitted /\ my[p].table = current
  BY DEF Settled, Admitted, Core, InPublished
<1>4. Busy(p)
  BY <1>3, OwnBucket
<1>5. OneResizes' /\ NobodyOversleeps' /\ resizing' \in BOOLEAN /\ asleep' \subseteq Procs
  BY <1>1, FlagKept DEF Core, KeepsFlag
<1>6. got' \in [Procs -> Nodes \cup {None}] /\ Settles(p) /\ Admits(p)
  BY <1>1, <1>3 DEF Core, Types, SameGot, Settles, Admits, Settled, Admitted, Resizing
<1>7. Types' /\ Phases' /\ Locking' /\ InPublished' /\ Outpaced'
  BY <1>1, <1>2, <1>5, <1>6, TypesKept, PhasesKept, LockingKept, InPublishedKept, OutpacedKept DEF Core
<1>8. Copied'
  BY <1>1, <1>3, EffectCopied DEF Core, Resizing
<1>9. Placed'
  BY <1>1, <1>2, <1>4, EffectPlaced DEF Core, OwnNode, InOrder
<1>10. Acting'
  <2>1. ASSUME NEW q \in Procs, q # p, pc[q] \in Working
        PROVE  SameView(q)
    <3>1. my'[q] = my[q] /\ MyBucket(q) # MyBucket(p)
      BY <1>3, <2>1 DEF Steps, Moves, Core, Locking
    <3>2. my[q].table \in DOMAIN tables /\ Index(q) \in DOMAIN Table(q).buckets
      BY <1>1, <2>1, OwnBucket, BusyTyped DEF Busy
    <3>3. QED
      BY <1>1, <3>1, <3>2, EffectView
  <2>2. QED
    BY <2>1, ActingKept DEF Core
<1>11. QED
  BY <1>5, <1>7, <1>8, <1>9, <1>10 DEF Core

\* The chain after a write.
LEMMA EffectChain ==
    ASSUME Types, NEW p \in Procs, Busy(p), NEW x, NEW m, NEW n, Writes(p, x, m, n),
           my'[p].table = my[p].table, my'[p].key = my[p].key
    PROVE  /\ Differs(Chain(p), Chain(p)', x, m, n) /\ MyTag(p)' = MyTag(p)
           /\ Lacks(Table(p), my[p].key)' <=>
                 \A y \in Places(Chain(p)') : Node(Chain(p)', y) # None => Node(Chain(p)', y)[1] # my[p].key
<1>1. Grows
  BY EffectGrows DEF Writes
<1>2. Index(p)' = Index(p) /\ MyTag(p)' = MyTag(p)
  BY <1>1, GrowsFor
<1>3. Chain(p)' = tables'[my[p].table].buckets[Index(p)]
  BY <1>2 DEF Chain, ChainOf, Index, Table
<1>4. Differs(Chain(p), Chain(p)', x, m, n)
  BY <1>3 DEF Writes, Effect
<1>5. Lacks(Table(p), my[p].key)' <=>
          \A y \in Places(Chain(p)') : Node(Chain(p)', y) # None => Node(Chain(p)', y)[1] # my[p].key
  BY DEF Lacks, Chain
<1>6. QED
  BY <1>2, <1>4, <1>5

\* A process that has found nothing: the key is not in its table.
LEMMA NothingFound ==
    ASSUME Core, NEW p \in Procs, pc[p] = "search", Found(p) = {}
    PROVE  Lacks(Table(p), my[p].key)
<1>1. /\ Busy(p) /\ \A x \in Places(Chain(p)) : Right(Table(p), Chain(p), x)
  BY OwnBucket DEF Working, Disturbs
<1>2. SUFFICES ASSUME NEW x \in Places(Chain(p)), Node(Chain(p), x) # None, Node(Chain(p), x)[1] = my[p].key
               PROVE  FALSE
  BY DEF Lacks, Chain
<1>3. Meta(Chain(p), x) = MyTag(p)
  BY <1>1, <1>2 DEF Right, MyTag
<1>4. QED
  BY <1>2, <1>3 DEF Found, Holding

\* It adds a block for its node.
LEMMA SearchFullKeeps ==
    ASSUME Core, NEW p \in Procs, SearchFull(p)
    PROVE  Core'
<1>1. pc[p] = "search"
  BY DEF SearchFull
<1>2. Busy(p)
  BY <1>1, OwnBucket DEF Working
<1>3. SearchFullBy(p)
  BY <1>2, SearchFullDoes DEF Core
<1>4. /\ Steps(p) /\ pc'[p] = "addSize" /\ Unlock(p) /\ SameCall(p) /\ SameResize(p)
      /\ my'[p].table = my[p].table /\ my'[p].delta = 1 /\ Found(p) = {}
      /\ Writes(p, NextPlace(p), MyTag(p), <<my[p].key, p>>)
  BY <1>3 DEF SearchFullBy, Moves, Steps
<1>5. Phase(p)'
  <2>1. Phase(p) /\ current' = current
    BY <1>4 DEF Core, Phases, Writes
  <2>2. QED
    BY <1>1, <1>4, <2>1 DEF Phase, Computing, Working, SameCall, SameResize
<1>6. Acts(p)'
  BY <1>4 DEF Acts
<1>7. GivesUp(p) /\ pc[p] \in Settled /\ pc'[p] \notin Resizing /\ pc'[p] \notin Working /\ ~Disturbs(p)
  BY <1>1, <1>4 DEF GivesUp, Settled, Admitted, Working, Resizing, Disturbs
<1>8. OwnNode(p, NextPlace(p), <<my[p].key, p>>)
  BY <1>1, <1>4, NothingFound DEF OwnNode, Lacks, Chain
<1>9. InOrder(p, NextPlace(p), MyTag(p), <<my[p].key, p>>)
  BY <1>2, BusyTyped, NodeHasKey DEF InOrder, Core
<1>10. QED
  BY <1>4, <1>5, <1>6, <1>7, <1>8, <1>9, WriteKeeps

\* It writes the metadata of a node to come.
LEMMA StoreMetaKeeps ==
    ASSUME Core, NEW p \in Procs, StoreMeta(p)
    PROVE  Core'
<1>1. pc[p] = "storeMeta"
  BY DEF StoreMeta, Step
<1>2. Busy(p)
  BY <1>1, OwnBucket DEF Working
<1>3. /\ my[p].place \in Places(Chain(p)) /\ my[p].op = "set" /\ my[p].delta = 1
      /\ NodeAt(p) = None /\ Lacks(Table(p), my[p].key) /\ my[p].saw = None
  BY <1>1 DEF Core, Acting, Acts, Absent
<1>4. StoreMetaBy(p)
  BY <1>2, <1>3, StoreMetaDoes DEF Core
<1>5. /\ Steps(p) /\ pc'[p] = "storeNode" /\ my'[p] = my[p] /\ locks' = locks
      /\ Writes(p, my[p].place, MyTag(p), None)
  BY <1>3, <1>4 DEF StoreMetaBy, Moves, Steps
<1>6. Phase(p)'
  <2>1. Phase(p) /\ current' = current
    BY <1>5 DEF Core, Phases, Writes
  <2>2. QED
    BY <1>1, <1>5, <2>1 DEF Phase, Computing, Working
<1>7. Acts(p)'
  <2>1. /\ Differs(Chain(p), Chain(p)', my[p].place, MyTag(p), None) /\ MyTag(p)' = MyTag(p)
        /\ Lacks(Table(p), my[p].key)' <=>
              \A y \in Places(Chain(p)') : Node(Chain(p)', y) # None => Node(Chain(p)', y)[1] # my[p].key
    BY <1>2, <1>5, EffectChain DEF Core
  <2>2. my[p].place \in Places(Chain(p)') /\ NodeAt(p)' = None /\ MetaAt(p)' = MyTag(p)'
    BY <1>5, <2>1 DEF Differs, NodeAt, MetaAt
  <2>3. Lacks(Table(p), my[p].key)'
    <3>1. \A y \in Places(Chain(p)) : Node(Chain(p), y) # None => Node(Chain(p), y)[1] # my[p].key
      BY <1>3 DEF Lacks, Chain
    <3>2. QED
      BY <2>1, <3>1 DEF Differs
  <2>4. Absent(p)'
    BY <1>3, <1>5, <2>2, <2>3 DEF Absent
  <2>5. QED
    BY <1>3, <1>5, <2>2, <2>4 DEF Acts
<1>8. /\ KeepsLocks(p) /\ pc[p] \in Settled /\ pc'[p] \in Settled /\ pc'[p] \notin Resizing /\ ~Disturbs(p)
  BY <1>1, <1>5 DEF KeepsLocks, Settled, Admitted, Working, Resizing, Disturbs
<1>9. OwnNode(p, my[p].place, None) /\ InOrder(p, my[p].place, MyTag(p), None)
  BY <1>3, <1>5 DEF OwnNode, InOrder, Disturbs
<1>10. QED
  BY <1>5, <1>6, <1>7, <1>8, <1>9, WriteKeeps

\* A process that is not in a call.
LEMMA IdlePhase ==
    ASSUME NEW p \in Procs, pc'[p] = "off", my'[p] = NoCall
    PROVE  Phase(p)' /\ Acts(p)'
  BY DEF Phase, Acts, Computing, Working, Resizing

\* It writes the node, a new one or another one in the place of the old one.
LEMMA StoreNodeKeeps ==
    ASSUME Core, NEW p \in Procs, StoreNode(p)
    PROVE  Core'
<1> DEFINE n == <<my[p].key, p>>
           x == my[p].place
<1>1. pc[p] = "storeNode"
  BY DEF StoreNode
<1>2. Busy(p) /\ Alone(Table(p), Index(p), Chain(p))
  BY <1>1, OwnBucket DEF Working
<1>3. /\ x \in Places(Chain(p)) /\ my[p].op = "set" /\ MetaAt(p) = MyTag(p)
      /\ \/ my[p].delta = 1 /\ Lacks(Table(p), my[p].key)
         \/ my[p].delta = 0 /\ NodeAt(p) # None /\ NodeAt(p)[1] = my[p].key
  BY <1>1 DEF Core, Acting, Acts, Absent, There
<1>4. StoreNodeBy(p)
  BY <1>2, <1>3, StoreNodeDoes DEF Core
<1>5. /\ Steps(p) /\ Unlock(p) /\ Writes(p, x, MyTag(p), n)
      /\ \/ pc'[p] = "off" /\ my'[p] = NoCall
         \/ pc'[p] = "addSize" /\ my'[p] = my[p] /\ my[p].delta = 1
  BY <1>3, <1>4 DEF StoreNodeBy, Moves, Steps
<1>6. Phase(p)'
  <2>1. Phase(p) /\ current' = current
    BY <1>5 DEF Core, Phases, Writes
  <2>2. CASE pc'[p] = "off" /\ my'[p] = NoCall
    BY <2>2, IdlePhase
  <2>3. CASE pc'[p] = "addSize" /\ my'[p] = my[p]
    BY <1>1, <2>1, <2>3 DEF Phase, Computing, Working
  <2>4. QED
    BY <1>5, <2>2, <2>3
<1>7. Acts(p)'
  BY <1>5 DEF Acts
<1>8. GivesUp(p) /\ pc[p] \in Settled /\ pc'[p] \notin Resizing /\ pc'[p] \notin Working
  BY <1>1, <1>5 DEF GivesUp, Settled, Admitted, Working, Resizing
<1>9. OwnNode(p, x, n)
  <2>1. CASE Lacks(Table(p), my[p].key)
    BY <2>1 DEF OwnNode, Lacks, Chain
  <2>2. CASE NodeAt(p) # None /\ NodeAt(p)[1] = my[p].key
    BY <1>2, <1>3, <2>2 DEF OwnNode, Alone, NodeAt
  <2>3. QED
    BY <1>3, <2>1, <2>2
<1>10. InOrder(p, x, MyTag(p), n)
  BY <1>2, BusyTyped, NodeHasKey DEF InOrder, Core
<1>11. QED
  BY <1>5, <1>6, <1>7, <1>8, <1>9, <1>10, WriteKeeps

\* It clears the metadata of its node.
LEMMA ClearMetaKeeps ==
    ASSUME Core, NEW p \in Procs, ClearMeta(p)
    PROVE  Core'
<1> DEFINE x == my[p].place
<1>1. pc[p] = "clearMeta"
  BY DEF ClearMeta, Step
<1>2. Busy(p) /\ Alone(Table(p), Index(p), Chain(p))
  BY <1>1, OwnBucket DEF Working
<1>3. /\ x \in Places(Chain(p)) /\ my[p].op = "delete" /\ my[p].delta = -1
      /\ NodeAt(p) # None /\ NodeAt(p)[1] = my[p].key
  BY <1>1 DEF Core, Acting, Acts, There
<1>4. ClearMetaBy(p)
  BY <1>2, <1>3, ClearMetaDoes DEF Core
<1>5. /\ Steps(p) /\ pc'[p] = "clearNode" /\ my'[p] = my[p] /\ locks' = locks
      /\ Writes(p, x, EmptySlot, NodeAt(p))
  BY <1>4 DEF ClearMetaBy, Moves, Steps
<1>6. Phase(p)'
  <2>1. Phase(p) /\ current' = current
    BY <1>5 DEF Core, Phases, Writes
  <2>2. QED
    BY <1>1, <1>5, <2>1 DEF Phase, Computing, Working
<1>7. Acts(p)'
  <2>1. Differs(Chain(p), Chain(p)', x, EmptySlot, NodeAt(p))
    BY <1>2, <1>5, EffectChain DEF Core
  <2>2. x \in Places(Chain(p)') /\ NodeAt(p)' = NodeAt(p) /\ MetaAt(p)' = EmptySlot
    BY <1>5, <2>1 DEF Differs, NodeAt, MetaAt
  <2>3. QED
    BY <1>3, <1>5, <2>2 DEF Acts
<1>8. /\ KeepsLocks(p) /\ pc[p] \in Settled /\ pc'[p] \in Settled /\ pc'[p] \notin Resizing /\ ~Disturbs(p)
  BY <1>1, <1>5 DEF KeepsLocks, Settled, Admitted, Working, Resizing, Disturbs
<1>9. OwnNode(p, x, NodeAt(p))
  BY <1>2, <1>3 DEF OwnNode, Alone, NodeAt
<1>10. InOrder(p, x, EmptySlot, NodeAt(p))
  BY <1>5 DEF InOrder, Disturbs
<1>11. QED
  BY <1>5, <1>6, <1>7, <1>8, <1>9, <1>10, WriteKeeps

\* It clears the node.
LEMMA ClearNodeKeeps ==
    ASSUME Core, NEW p \in Procs, ClearNode(p)
    PROVE  Core'
<1> DEFINE x == my[p].place
<1>1. pc[p] = "clearNode"
  BY DEF ClearNode, Step
<1>2. Busy(p)
  BY <1>1, OwnBucket DEF Working
<1>3. x \in Places(Chain(p)) /\ my[p].op = "delete" /\ my[p].delta = -1 /\ MetaAt(p) = EmptySlot
  BY <1>1 DEF Core, Acting, Acts
<1>4. ClearNodeBy(p)
  BY <1>2, <1>3, ClearNodeDoes DEF Core
<1>5. /\ Steps(p) /\ pc'[p] = "addSize" /\ Unlock(p) /\ SameCall(p) /\ SameWrite(p)
      /\ my'[p].table = my[p].table /\ Writes(p, x, EmptySlot, None)
  BY <1>3, <1>4 DEF ClearNodeBy, Moves, Steps
<1>6. Phase(p)'
  <2>1. Phase(p) /\ current' = current
    BY <1>5 DEF Core, Phases, Writes
  <2>2. QED
    BY <1>1, <1>5, <2>1 DEF Phase, Computing, Working, SameCall
<1>7. Acts(p)'
  BY <1>3, <1>5 DEF Acts, SameWrite
<1>8. GivesUp(p) /\ pc[p] \in Settled /\ pc'[p] \notin Resizing /\ pc'[p] \notin Working
  BY <1>1, <1>5 DEF GivesUp, Settled, Admitted, Working, Resizing
<1>9. OwnNode(p, x, None) /\ InOrder(p, x, EmptySlot, None)
  BY DEF OwnNode, InOrder
<1>10. QED
  BY <1>5, <1>6, <1>7, <1>8, <1>9, WriteKeeps

\* It counts what it has done.
LEMMA AddSizeKeeps ==
    ASSUME Core, NEW p \in Procs, AddSize(p)
    PROVE  Core'
<1>1. pc[p] = "addSize"
  BY DEF AddSize, Return, Step
<1>2. Types /\ Phases /\ Phase(p) /\ Busy(p) /\ my[p].table <= current
  BY <1>1, BusyWhen DEF Core, Phases
<1>3. AddSizeBy(p)
  BY <1>2, AddSizeDoes
<1>4. /\ Steps(p) /\ current' = current /\ locks' = locks /\ SameFlag /\ SameGot
      /\ Counts(p, my[p].delta)
      /\ \/ pc'[p] = "off" /\ my'[p] = NoCall
         \/ pc'[p] = "shrinkFast" /\ my'[p] = my[p] /\ my[p].hint = "shrink"
  BY <1>3 DEF AddSizeBy, Moves, Steps
<1>5. Grows
  BY <1>2, <1>4, CountsGrows
<1>6. Phase(p)'
  <2>1. CASE pc'[p] = "off" /\ my'[p] = NoCall
    BY <2>1, IdlePhase
  <2>2. CASE pc'[p] = "shrinkFast" /\ my'[p] = my[p] /\ my[p].hint = "shrink"
    BY <1>1, <1>2, <1>4, <2>2 DEF Phase, Computing, Working
  <2>3. QED
    BY <1>4, <2>1, <2>2
<1>7. Acts(p)'
  BY <1>4 DEF Acts
<1>8. OneResizes' /\ NobodyOversleeps' /\ resizing' \in BOOLEAN /\ asleep' \subseteq Procs
  BY <1>4, FlagKept DEF Core, KeepsFlag, Resizing
<1>9. /\ got' \in [Procs -> Nodes \cup {None}] /\ KeepsLocks(p) /\ ~Disturbs(p)
      /\ Settles(p) /\ Admits(p)
  BY <1>1, <1>4 DEF Core, Types, SameGot, KeepsLocks, Disturbs, Settles, Admits, Working, Settled, Admitted
<1>10. Types' /\ Phases' /\ Locking' /\ InPublished' /\ Outpaced'
  BY <1>4, <1>5, <1>6, <1>8, <1>9, TypesKept, PhasesKept, LockingKept, InPublishedKept, OutpacedKept DEF Core
<1>11. Copied'
  BY <1>2, <1>4, CountsCopied DEF Core
<1>12. \A u \in DOMAIN tables : SameShape(tables[u], tables'[u]) /\ tables'[u].buckets = tables[u].buckets
  BY <1>4 DEF Counts, Table, SameShape
<1>13. Placed'
  <2>1. DOMAIN tables' = DOMAIN tables
    BY <1>4 DEF Counts
  <2>2. QED
    BY <1>4, <1>5, <1>9, <1>12, <2>1, PlacedKept DEF Core
<1>14. Acting'
  <2>1. \A q \in Procs : q # p /\ pc[q] \in Working => SameView(q)
    BY <1>2, <1>4, <1>12, ViewKept
  <2>2. QED
    BY <1>4, <1>7, <2>1, ActingKept DEF Core
<1>15. QED
  BY <1>8, <1>10, <1>11, <1>13, <1>14 DEF Core

--------------------------------------------------------------------------------
(* The steps that leave the tables as they are *)

\* What such a step has to show.
LEMMA QuietKeeps ==
    ASSUME Core, NEW p \in Procs, Steps(p), SameTables, got' \in [Procs -> Nodes \cup {None}],
           Phase(p)', Acts(p)', ~Disturbs(p),
           KeepsLocks(p) \/ GivesUp(p) \/ Obtains(p),
           KeepsFlag(p) \/ SetsFlag(p) \/ ResetsFlag(p) \/ FallsAsleep(p),
           Settles(p), Admits(p)
    PROVE  Core'
<1>1. Grows /\ Types /\ Phases /\ tables' = tables /\ current' = current
  BY SameGrows DEF Core, SameTables
<1>2. OneResizes' /\ NobodyOversleeps' /\ resizing' \in BOOLEAN /\ asleep' \subseteq Procs
  BY FlagKept DEF Core
<1>3. Types' /\ Phases' /\ Locking' /\ InPublished' /\ Outpaced'
  BY <1>1, <1>2, TypesKept, PhasesKept, LockingKept, InPublishedKept, OutpacedKept DEF Core
<1>4. Copied'
  BY SameCopied DEF Core, Admits
<1>5. Placed'
  BY <1>1, PlacedKept DEF Core, SameShape
<1>6. Acting'
  <2>1. \A q \in Procs : q # p /\ pc[q] \in Working => SameView(q)
    BY <1>1, ViewKept DEF SameShape
  <2>2. QED
    BY <2>1, ActingKept DEF Core
<1>7. QED
  BY <1>2, <1>3, <1>4, <1>5, <1>6 DEF Core

\* A process that holds no lock does nothing to the others.
LEMMA OutsideKeeps ==
    ASSUME Core, NEW p \in Procs, Steps(p), Outside, got' \in [Procs -> Nodes \cup {None}],
           Phase(p)', pc[p] \notin Working \cup Resizing, pc'[p] \notin Working \cup Resizing,
           pc'[p] # "addSize"
    PROVE  Core'
<1>1. SameTables /\ KeepsLocks(p) /\ KeepsFlag(p)
  BY DEF Outside, KeepsLocks, KeepsFlag
<1>2. Settles(p) /\ Admits(p) /\ ~Disturbs(p)
  BY DEF Outside, SameTables, Settles, Admits, Disturbs, Settled, Admitted, Working, Resizing
<1>3. Acts(p)'
  BY DEF Acts, Working
<1>4. QED
  BY <1>1, <1>2, <1>3, QuietKeeps

\* What a reader is at.
LEMMA ReaderIsAt ==
    ASSUME Core, NEW p \in Procs, pc[p] \in {"meta", "nodes"}
    PROVE  /\ Busy(p) /\ Chain(p) \in Chains /\ my[p].block \in 1..Len(Chain(p)) /\ my[p].op = "get"
           /\ my[p].table \in 1..current /\ my[p].marked \subseteq 1..Slots
           /\ \A s \in 1..Slots : <<my[p].block, s>> \in Places(Chain(p))
<1>1. Types /\ Phase(p)
  BY DEF Core, Phases
<1>2. Busy(p) /\ Chain(p) \in Chains
  BY <1>1, BusyWhen, BusyTyped
<1>3. my[p].block \in 1..Len(Chain(p)) /\ my[p].op = "get" /\ my[p].table \in 1..current
  BY <1>1 DEF Phase
<1>4. my[p].marked \subseteq 1..Slots
  BY <1>1 DEF Types, Locals
<1>5. QED
  BY <1>2, <1>3, <1>4, PlacesTyped

\* The phase of a process that goes on reading.
LEMMA ReadsOn ==
    ASSUME Core, NEW p \in Procs, pc[p] \in {"meta", "nodes"}, pc'[p] \in {"meta", "nodes"},
           SameTables, SameCall(p), my'[p].table = my[p].table, my'[p].block \in 1..Len(Chain(p))
    PROVE  Phase(p)'
<1>1. my[p].op = "get" /\ my[p].table \in 1..current /\ my[p].key \in Keys
  BY ReaderIsAt DEF Busy
<1>2. Chain(p)' = Chain(p) /\ current' = current
  BY DEF Chain, Table, SameTables, SameCall
<1>3. QED
  BY <1>1, <1>2 DEF Phase, SameCall, Computing, Working, Resizing

\* A reader begins.
LEMMA GetKeeps ==
    ASSUME Core, NEW p \in Procs, Get(p)
    PROVE  Core'
<1>1. GetBy(p) /\ Types
  BY GetDoes DEF Core
<1>2. /\ Steps(p) /\ pc[p] = "off" /\ pc'[p] = "meta" /\ Outside /\ SameGot
      /\ my'[p].op = "get" /\ my'[p].key \in Keys /\ my'[p].table = current /\ my'[p].block = 1
  BY <1>1 DEF GetBy, Moves, Steps
<1>3. tables' = tables /\ current' = current
  BY <1>2 DEF Outside, SameTables
<1>4. current \in 1..current
  BY <1>1, LenProperties DEF Types
<1>5. 1 \in 1..Len(Chain(p)')
  <2>1. Chain(p)' = ChainOf(tables[current], my'[p].key)
    BY <1>2, <1>3 DEF Chain, Table
  <2>2. ChainOf(tables[current], my'[p].key) \in Chains
    BY <1>1, <1>2, TablesTyped, TableTyped
  <2>3. Len(Chain(p)') \in Nat \ {0}
    BY <2>1, <2>2, PlacesTyped
  <2>4. QED
    BY <2>3
<1>6. Phase(p)'
  BY <1>2, <1>3, <1>4, <1>5 DEF Phase, Computing, Working, Resizing
<1>7. QED
  BY <1>1, <1>2, <1>6, OutsideKeeps DEF Types, SameGot, Working, Resizing

\* It marks the slots of a block.
LEMMA LoadMetaKeeps ==
    ASSUME Core, NEW p \in Procs, LoadMeta(p)
    PROVE  Core'
<1>1. LoadMetaBy(p)
  BY LoadMetaDoes DEF Core
<1>2. /\ Steps(p) /\ pc[p] = "meta" /\ pc'[p] = "nodes" /\ Outside /\ SameGot /\ SameTables
      /\ SameCall(p) /\ my'[p].table = my[p].table /\ my'[p].block = my[p].block
  BY <1>1 DEF LoadMetaBy, Moves, Steps, Outside
<1>3. Phase(p)'
  BY <1>2, ReaderIsAt, ReadsOn
<1>4. QED
  BY <1>2, <1>3, OutsideKeeps DEF Core, Types, SameGot, Working, Resizing

\* It looks at one of them.
LEMMA LoadNodeKeeps ==
    ASSUME Core, NEW p \in Procs, LoadNode(p)
    PROVE  Core'
<1>1. HitBy(p) \/ MissBy(p)
  BY LoadNodeDoes DEF Core
<1>2. CASE HitBy(p)
  <2>1. /\ Steps(p) /\ pc[p] = "nodes" /\ pc'[p] = "off" /\ Outside /\ my'[p] = NoCall
    BY <1>2 DEF HitBy, Moves, Steps
  <2>2. PICK s \in my[p].marked : LET x == <<my[p].block, s>>
                                  IN  OfKey(p, x) /\ got' = [got EXCEPT ![p] = Node(Chain(p), x)]
    BY <1>2 DEF HitBy
  <2>3. Node(Chain(p), <<my[p].block, s>>) \in Nodes
    BY <2>1, <2>2, ReaderIsAt, PlacesTyped DEF OfKey
  <2>4. got' \in [Procs -> Nodes \cup {None}]
    BY <2>2, <2>3 DEF Core, Types
  <2>5. QED
    BY <2>1, <2>4, IdlePhase, OutsideKeeps DEF Working, Resizing
<1>3. CASE MissBy(p)
  <2>1. /\ Steps(p) /\ pc[p] = "nodes" /\ pc'[p] = "nodes" /\ Outside /\ SameGot /\ SameTables
        /\ SameCall(p) /\ my'[p].table = my[p].table /\ my'[p].block = my[p].block
    BY <1>3 DEF MissBy, Moves, Steps, Outside
  <2>2. Phase(p)'
    BY <2>1, ReaderIsAt, ReadsOn
  <2>3. QED
    BY <2>1, <2>2, OutsideKeeps DEF Core, Types, SameGot, Working, Resizing
<1>4. QED
  BY <1>1, <1>2, <1>3

\* It goes on to the next block, or ends.
LEMMA LoadNextKeeps ==
    ASSUME Core, NEW p \in Procs, LoadNext(p)
    PROVE  Core'
<1>1. NextBlockBy(p) \/ NoNodeBy(p)
  BY LoadNextDoes DEF Core
<1>2. CASE NextBlockBy(p)
  <2>1. /\ Steps(p) /\ pc[p] = "nodes" /\ pc'[p] = "meta" /\ Outside /\ SameGot /\ SameTables
        /\ SameCall(p) /\ my'[p].table = my[p].table
        /\ my[p].block < Len(Chain(p)) /\ my'[p].block = my[p].block + 1
    BY <1>2 DEF NextBlockBy, Moves, Steps, Outside
  <2>2. my'[p].block \in 1..Len(Chain(p))
    <3>1. Len(Chain(p)) \in Nat /\ my[p].block \in 1..Len(Chain(p))
      BY <2>1, ReaderIsAt, PlacesTyped
    <3>2. QED
      BY <2>1, <3>1
  <2>3. Phase(p)'
    BY <2>1, <2>2, ReadsOn
  <2>4. QED
    BY <2>1, <2>3, OutsideKeeps DEF Core, Types, SameGot, Working, Resizing
<1>3. CASE NoNodeBy(p)
  <2>1. /\ Steps(p) /\ pc[p] = "nodes" /\ pc'[p] = "off" /\ Outside /\ my'[p] = NoCall
        /\ got' = [got EXCEPT ![p] = None]
    BY <1>3 DEF NoNodeBy, Moves, Steps
  <2>2. got' \in [Procs -> Nodes \cup {None}]
    BY <2>1 DEF Core, Types
  <2>3. QED
    BY <2>1, <2>2, IdlePhase, OutsideKeeps DEF Working, Resizing
<1>4. QED
  BY <1>1, <1>2, <1>3

\* A Range begins.
LEMMA BeginRangeKeeps ==
    ASSUME Core, NEW p \in Procs, BeginRange(p)
    PROVE  Core'
<1>1. BeginRangeBy(p) /\ Types
  BY BeginRangeDoes DEF Core
<1>2. /\ Steps(p) /\ pc[p] = "off" /\ pc'[p] = "range" /\ Outside /\ SameGot
      /\ my'[p].op = "range" /\ my'[p].table = current
  BY <1>1 DEF BeginRangeBy, Moves, Steps
<1>3. current \in 1..current'
  <2>1. current \in 1..Len(tables)
    BY <1>1, LenProperties DEF Types
  <2>2. QED
    BY <1>2, <2>1 DEF Outside, SameTables
<1>4. Phase(p)'
  BY <1>2, <1>3 DEF Phase, Computing, Working, Resizing
<1>5. QED
  BY <1>1, <1>2, <1>4, OutsideKeeps DEF Types, SameGot, Working, Resizing

\* What Range is at.
LEMMA RangeIsAt ==
    ASSUME Core, NEW p \in Procs, pc[p] = "range"
    PROVE  my[p].op = "range" /\ my[p].table \in 1..current /\ Table(p) \in AllTables
<1>1. Types /\ Phase(p)
  BY DEF Core, Phases
<1>2. QED
  BY <1>1, BusyWhen DEF Phase

\* It visits a bucket.
LEMMA RangeBucketKeeps ==
    ASSUME Core, NEW p \in Procs, \A i \in my[p].todo : Table(p).buckets[i] \in Chains, RangeBucket(p)
    PROVE  Core'
<1>1. RangeBucketBy(p)
  BY RangeBucketDoes DEF Core
<1>2. /\ Steps(p) /\ pc[p] = "range" /\ pc'[p] = "range" /\ Outside /\ SameGot
      /\ SameCall(p) /\ my'[p].table = my[p].table
  BY <1>1 DEF RangeBucketBy, Moves, Steps
<1>3. Phase(p)'
  BY <1>2, RangeIsAt DEF Phase, Computing, Working, Resizing, SameCall, Outside, SameTables
<1>4. QED
  BY <1>2, <1>3, OutsideKeeps DEF Core, Types, SameGot, Working, Resizing

\* It ends.
LEMMA RangeEndKeeps ==
    ASSUME Core, NEW p \in Procs, RangeEnd(p)
    PROVE  Core'
<1>1. RangeEndBy(p)
  BY RangeEndDoes DEF Core
<1>2. /\ Steps(p) /\ pc[p] = "range" /\ pc'[p] = "off" /\ Outside /\ SameGot /\ my'[p] = NoCall
  BY <1>1 DEF RangeEndBy, Moves, Steps
<1>3. QED
  BY <1>2, IdlePhase, OutsideKeeps DEF Core, Types, SameGot, Working, Resizing

\* A call that writes begins.
LEMMA ComputeKeeps ==
    ASSUME Core, NEW p \in Procs, Compute(p)
    PROVE  Core'
<1>1. ComputeBy(p) /\ Types
  BY ComputeDoes DEF Core
<1>2. /\ Steps(p) /\ pc[p] = "off" /\ pc'[p] = "lock" /\ Outside /\ SameGot
      /\ my'[p].op \in {"set", "delete"} /\ my'[p].key \in Keys /\ my'[p].table = current
      /\ my'[p].saw = None /\ my'[p].hint = "none"
  BY <1>1 DEF ComputeBy, Moves, Steps
<1>3. current \in 1..current'
  <2>1. current \in 1..Len(tables)
    BY <1>1, LenProperties DEF Types
  <2>2. QED
    BY <1>2, <2>1 DEF Outside, SameTables
<1>4. Phase(p)'
  BY <1>2, <1>3 DEF Phase, Computing, Working, Resizing
<1>5. QED
  BY <1>1, <1>2, <1>4, OutsideKeeps DEF Types, SameGot, Working, Resizing

\* What a process is at that computes.
LEMMA ComputesWith ==
    ASSUME Core, NEW p \in Procs, pc[p] \in Computing
    PROVE  /\ Busy(p) /\ my[p].op \in {"set", "delete"} /\ my[p].key \in Keys
           /\ my[p].table \in 1..current /\ current \in 1..current
           /\ pc[p] \in Working \cup {"loadTable", "lock"} => my[p].hint = "none" /\ my[p].hint # "shrink"
           /\ pc[p] = "shrinkFast" => my[p].hint = "shrink"
           /\ (pc[p] \notin {"storeNode", "clearMeta", "clearNode", "addSize"} /\ my[p].hint # "shrink")
                 => my[p].saw = None
<1>1. Types /\ Phase(p) /\ pc[p] \notin {"off", "range"}
  BY DEF Core, Phases, Computing, Working, Resizing
<1>2. Busy(p)
  BY <1>1, BusyWhen
<1>3. current \in 1..current
  BY <1>1, LenProperties DEF Types
<1>4. QED
  BY <1>1, <1>2, <1>3 DEF Phase, Busy

\* It takes the table there is now.
LEMMA LoadTableKeeps ==
    ASSUME Core, NEW p \in Procs, LoadTable(p)
    PROVE  Core'
<1>1. LoadTableBy(p)
  BY LoadTableDoes DEF Core
<1>2. /\ Steps(p) /\ pc[p] = "loadTable" /\ pc'[p] = "lock" /\ Outside /\ SameGot
      /\ SameCall(p) /\ SameWrite(p) /\ SameResize(p) /\ my'[p].table = current
  BY <1>1 DEF LoadTableBy, Moves, Steps
<1>3. /\ my[p].op \in {"set", "delete"} /\ my[p].key \in Keys /\ current \in 1..current
      /\ my[p].hint = "none" /\ my[p].saw = None
  BY <1>2, ComputesWith DEF Computing
<1>4. Phase(p)'
  BY <1>2, <1>3 DEF Phase, Computing, Working, Resizing, SameCall, SameWrite, SameResize, Outside, SameTables
<1>5. QED
  BY <1>2, <1>4, OutsideKeeps DEF Core, Types, SameGot, Working, Resizing

\* It takes the lock of its bucket, which nobody had.
LEMMA LockBucketKeeps ==
    ASSUME Core, NEW p \in Procs, LockBucket(p)
    PROVE  Core'
<1>1. LockBucketBy(p)
  BY LockBucketDoes DEF Core
<1>2. /\ Steps(p) /\ pc[p] = "lock" /\ pc'[p] = "checkResize" /\ my'[p] = my[p]
      /\ SameTables /\ SameFlag /\ SameGot
      /\ MyBucket(p) \notin locks /\ locks' = locks \cup {MyBucket(p)}
  BY <1>1 DEF LockBucketBy, Moves, Steps
<1>3. Phase(p)'
  BY <1>2, ComputesWith DEF Phase, Computing, Working, Resizing, SameTables
<1>4. Acts(p)' /\ ~Disturbs(p)
  BY <1>2 DEF Acts, Disturbs
<1>5. Obtains(p) /\ KeepsFlag(p) /\ Settles(p) /\ Admits(p)
  BY <1>2 DEF Obtains, KeepsFlag, Settles, Admits, Settled, Admitted, Working, Resizing, SameTables
<1>6. QED
  BY <1>2, <1>3, <1>4, <1>5, QuietKeeps DEF Core, Types, SameGot

\* It leaves the bucket if somebody resizes; otherwise the bucket has still to be copied.
LEMMA CheckResizeKeeps ==
    ASSUME Core, NEW p \in Procs, CheckResize(p)
    PROVE  Core'
<1>1. CheckResizeBy(p)
  BY CheckResizeDoes DEF Core
<1>2. /\ Steps(p) /\ pc[p] = "checkResize" /\ my'[p] = my[p] /\ SameTables /\ SameFlag /\ SameGot
      /\ \/ pc'[p] = "checkTable" /\ ~resizing /\ locks' = locks
         \/ pc'[p] = "wait" /\ Unlock(p)
  BY <1>1 DEF CheckResizeBy, CheckBy, LeaveBy, Moves, Steps
<1>3. Phase(p)'
  BY <1>2, ComputesWith DEF Phase, Computing, Working, Resizing, SameTables
<1>4. Acts(p)' /\ ~Disturbs(p)
  BY <1>2 DEF Acts, Disturbs
<1>5. KeepsLocks(p) \/ GivesUp(p)
  BY <1>2 DEF KeepsLocks, GivesUp, Working
<1>6. KeepsFlag(p) /\ Settles(p) /\ Admits(p)
  BY <1>2 DEF KeepsFlag, Settles, Admits, Settled, Admitted, Working, Resizing, SameTables
<1>7. QED
  BY <1>2, <1>3, <1>4, <1>5, <1>6, QuietKeeps DEF Core, Types, SameGot

\* It leaves a bucket of a table that is no longer published.
LEMMA CheckTableKeeps ==
    ASSUME Core, NEW p \in Procs, CheckTable(p)
    PROVE  Core'
<1>1. CheckTableBy(p)
  BY CheckTableDoes DEF Core
<1>2. /\ Steps(p) /\ pc[p] = "checkTable" /\ my'[p] = my[p] /\ SameTables /\ SameFlag /\ SameGot
      /\ \/ pc'[p] = "search" /\ my[p].table = current /\ locks' = locks
         \/ pc'[p] = "loadTable" /\ Unlock(p)
  BY <1>1 DEF CheckTableBy, CheckBy, LeaveBy, Moves, Steps
<1>3. Phase(p)'
  BY <1>2, ComputesWith DEF Phase, Computing, Working, Resizing, SameTables
<1>4. Acts(p)' /\ ~Disturbs(p)
  BY <1>2 DEF Acts, Disturbs
<1>5. KeepsLocks(p) \/ GivesUp(p)
  BY <1>2 DEF KeepsLocks, GivesUp, Working
<1>6. KeepsFlag(p) /\ Settles(p) /\ Admits(p)
  BY <1>2 DEF KeepsFlag, Settles, Admits, Settled, Admitted, Working, Resizing, SameTables
<1>7. QED
  BY <1>2, <1>3, <1>4, <1>5, <1>6, QuietKeeps DEF Core, Types, SameGot

\* It leaves the bucket as it was.
LEMMA SearchNothingKeeps ==
    ASSUME Core, NEW p \in Procs, SearchNothing(p)
    PROVE  Core'
<1>1. SearchNothingBy(p)
  BY SearchNothingDoes DEF Core
<1>2. /\ Steps(p) /\ pc[p] = "search" /\ pc'[p] = "off" /\ my'[p] = NoCall
      /\ SameTables /\ SameFlag /\ SameGot /\ Unlock(p)
  BY <1>1 DEF SearchNothingBy, LeaveBy, Moves, Steps
<1>3. Phase(p)' /\ Acts(p)' /\ ~Disturbs(p)
  BY <1>2, IdlePhase DEF Disturbs
<1>4. GivesUp(p) /\ KeepsFlag(p) /\ Settles(p) /\ Admits(p)
  BY <1>2 DEF GivesUp, KeepsFlag, Settles, Admits, Settled, Admitted, Working, Resizing, SameTables
<1>5. QED
  BY <1>2, <1>3, <1>4, QuietKeeps DEF Core, Types, SameGot

\* It leaves the bucket to have the table grown.
LEMMA SearchCrowdedKeeps ==
    ASSUME Core, NEW p \in Procs, SearchCrowded(p)
    PROVE  Core'
<1>1. SearchCrowdedBy(p)
  BY SearchCrowdedDoes DEF Core
<1>2. /\ Steps(p) /\ pc[p] = "search" /\ pc'[p] = "casResizing"
      /\ SameCall(p) /\ SameWrite(p) /\ my'[p].table = my[p].table /\ my'[p].hint = "grow"
      /\ SameTables /\ SameFlag /\ SameGot /\ Unlock(p)
  BY <1>1 DEF SearchCrowdedBy, LeaveBy, Moves, Steps
<1>3. /\ my[p].op \in {"set", "delete"} /\ my[p].key \in Keys /\ my[p].table \in 1..current /\ my[p].saw = None
  BY <1>2, ComputesWith DEF Computing, Working
<1>4. Phase(p)'
  BY <1>2, <1>3 DEF Phase, Computing, Working, Resizing, SameTables, SameCall, SameWrite
<1>5. Acts(p)' /\ ~Disturbs(p)
  BY <1>2 DEF Acts, Disturbs
<1>6. GivesUp(p) /\ KeepsFlag(p) /\ Settles(p) /\ Admits(p)
  BY <1>2 DEF GivesUp, KeepsFlag, Settles, Admits, Settled, Admitted, Working, Resizing, SameTables
<1>7. QED
  BY <1>2, <1>4, <1>5, <1>6, QuietKeeps DEF Core, Types, SameGot

\* It has found the node of its key.
LEMMA SearchFoundKeeps ==
    ASSUME Core, NEW p \in Procs, SearchFound(p)
    PROVE  Core'
<1>1. pc[p] = "search"
  BY DEF SearchFound
<1>2. /\ Busy(p) /\ my[p].op \in {"set", "delete"} /\ my[p].key \in Keys /\ my[p].table \in 1..current
      /\ my[p].hint = "none" /\ my[p].table = current
  BY <1>1, ComputesWith DEF Computing, Working, Settled, Admitted, Core, InPublished
<1>3. SearchFoundBy(p)
  BY <1>2, SearchFoundDoes DEF Core
<1>4. /\ Steps(p) /\ Outside /\ SameGot /\ SameCall(p) /\ SameResize(p) /\ my'[p].table = my[p].table
      /\ FoundPlace(p)
      /\ \/ pc'[p] = "clearMeta" /\ my[p].op = "delete" /\ my'[p].delta = -1
         \/ pc'[p] = "storeNode" /\ my[p].op # "delete" /\ my'[p].delta = 0
  BY <1>1, <1>3 DEF SearchFoundBy, Moves, Steps
<1>5. Phase(p)'
  BY <1>2, <1>4 DEF Phase, Computing, Working, Resizing, Outside, SameTables, SameCall, SameResize
<1>6. Chain(p)' = Chain(p) /\ MyTag(p)' = MyTag(p)
  BY <1>4 DEF Chain, MyTag, Table, Outside, SameTables, SameCall
<1>7. /\ my'[p].place \in Places(Chain(p)) /\ Meta(Chain(p), my'[p].place) = MyTag(p)
      /\ my'[p].saw # None /\ my'[p].saw[1] = my[p].key /\ my'[p].saw = Node(Chain(p), my'[p].place)
  BY <1>4 DEF FoundPlace, Found, Holding
<1>8. There(p)'
  BY <1>4, <1>6, <1>7 DEF There, NodeAt, MetaAt, SameCall
<1>9. Acts(p)' /\ ~Disturbs(p)
  BY <1>1, <1>2, <1>4, <1>6, <1>7, <1>8 DEF Acts, Disturbs, SameCall
<1>10. KeepsLocks(p) /\ KeepsFlag(p) /\ Settles(p) /\ Admits(p) /\ SameTables
  BY <1>1, <1>2, <1>4 DEF KeepsLocks, KeepsFlag, Settles, Admits, Settled, Admitted, Working, Resizing, Outside, SameTables, SameCall
<1>11. QED
  BY <1>4, <1>5, <1>9, <1>10, QuietKeeps DEF Core, Types, SameGot

\* It has found a slot for its node.
LEMMA SearchVacantKeeps ==
    ASSUME Core, NEW p \in Procs, SearchVacant(p)
    PROVE  Core'
<1>1. pc[p] = "search"
  BY DEF SearchVacant
<1>2. /\ Busy(p) /\ my[p].op \in {"set", "delete"} /\ my[p].key \in Keys /\ my[p].table \in 1..current
      /\ my[p].hint = "none" /\ my[p].table = current /\ my[p].saw = None
  BY <1>1, ComputesWith DEF Computing, Working, Settled, Admitted, Core, InPublished
<1>3. SearchVacantBy(p)
  BY <1>2, SearchVacantDoes DEF Core
<1>4. /\ Steps(p) /\ pc'[p] = "storeMeta" /\ Outside /\ SameGot /\ SameCall(p) /\ SameResize(p)
      /\ my'[p].table = my[p].table /\ my[p].op = "set" /\ Found(p) = {}
      /\ my'[p].place \in Vacant(Chain(p)) /\ my'[p].saw = my[p].saw /\ my'[p].delta = 1
  BY <1>3 DEF SearchVacantBy, Moves, Steps
<1>5. Phase(p)'
  BY <1>2, <1>4 DEF Phase, Computing, Working, Resizing, Outside, SameTables, SameCall, SameResize
<1>6. Chain(p)' = Chain(p) /\ Table(p)' = Table(p)
  BY <1>4 DEF Chain, Table, Outside, SameTables, SameCall
<1>7. /\ my'[p].place \in Places(Chain(p)) /\ Meta(Chain(p), my'[p].place) = EmptySlot
      /\ Node(Chain(p), my'[p].place) = None
  <2>1. my'[p].place \in Places(Chain(p)) /\ Meta(Chain(p), my'[p].place) = EmptySlot
    BY <1>4 DEF Vacant
  <2>2. Right(Table(p), Chain(p), my'[p].place)
    BY <1>1, <2>1, OwnBucket DEF Disturbs, Working
  <2>3. ASSUME Node(Chain(p), my'[p].place) # None PROVE FALSE
    <3>1. Node(Chain(p), my'[p].place) \in Nodes
      BY <1>2, <2>1, <2>3, BusyTyped, PlacesTyped DEF Core
    <3>2. Tag(Table(p), Node(Chain(p), my'[p].place)[1]) # EmptySlot
      BY <1>2, <3>1, NodeHasKey, BusyTyped, TableTyped DEF Core
    <3>3. QED
      BY <2>1, <2>2, <2>3, <3>2 DEF Right
  <2>4. QED
    BY <2>1, <2>3
<1>8. Absent(p)' /\ MetaAt(p)' = EmptySlot
  <2>1. Lacks(Table(p), my[p].key)
    BY <1>1, <1>4, NothingFound
  <2>2. Lacks(Table(p), my[p].key)'
    BY <1>4, <1>6, <2>1 DEF SameCall
  <2>3. QED
    BY <1>2, <1>4, <1>6, <1>7, <2>2 DEF Absent, NodeAt, MetaAt
<1>9. Acts(p)' /\ ~Disturbs(p)
  BY <1>1, <1>2, <1>4, <1>6, <1>7, <1>8 DEF Acts, Disturbs, SameCall
<1>10. KeepsLocks(p) /\ KeepsFlag(p) /\ Settles(p) /\ Admits(p) /\ SameTables
  BY <1>1, <1>2, <1>4 DEF KeepsLocks, KeepsFlag, Settles, Admits, Settled, Admitted, Working, Resizing, Outside, SameTables, SameCall
<1>11. QED
  BY <1>4, <1>5, <1>9, <1>10, QuietKeeps DEF Core, Types, SameGot

\* It looks whether the table may shrink.
LEMMA ShrinkFastKeeps ==
    ASSUME Core, NEW p \in Procs, ShrinkFast(p)
    PROVE  Core'
<1>1. ShrinkFastBy(p) /\ pc[p] = "shrinkFast"
  BY ShrinkFastDoes DEF Core, ShrinkFast
<1>2. /\ Steps(p) /\ Outside /\ SameGot
      /\ \/ pc'[p] = "off" /\ my'[p] = NoCall
         \/ pc'[p] = "casResizing" /\ my'[p] = my[p]
  BY <1>1 DEF ShrinkFastBy, Moves, Steps
<1>3. Phase(p)'
  <2>1. CASE pc'[p] = "off" /\ my'[p] = NoCall
    BY <2>1, IdlePhase
  <2>2. CASE pc'[p] = "casResizing" /\ my'[p] = my[p]
    BY <1>1, <1>2, <2>2, ComputesWith DEF Phase, Computing, Working, Resizing, Outside, SameTables
  <2>3. QED
    BY <1>2, <2>1, <2>2
<1>4. QED
  BY <1>1, <1>2, <1>3, OutsideKeeps DEF Core, Types, SameGot, Working, Resizing

\* It becomes the one that resizes if nobody does.
LEMMA CasResizingKeeps ==
    ASSUME Core, NEW p \in Procs, CasResizing(p)
    PROVE  Core'
<1>1. CasResizingBy(p)
  BY CasResizingDoes DEF Core
<1>2. /\ Steps(p) /\ pc[p] = "casResizing" /\ SameTables /\ locks' = locks /\ SameGot /\ my'[p] = my[p]
      /\ resizing' = TRUE /\ asleep' = asleep
      /\ pc'[p] = "wait" \/ (pc'[p] = "newTable" /\ ~resizing)
  BY <1>1 DEF CasResizingBy, Moves, Steps
<1>3. Phase(p)'
  BY <1>2, ComputesWith DEF Phase, Computing, Working, Resizing, SameTables
<1>4. Acts(p)' /\ ~Disturbs(p)
  BY <1>2 DEF Acts, Disturbs
<1>5. KeepsLocks(p) /\ SetsFlag(p) /\ Settles(p) /\ Admits(p)
  BY <1>2 DEF KeepsLocks, SetsFlag, Settles, Admits, Settled, Admitted, Working, Resizing, SameTables
<1>6. QED
  BY <1>2, <1>3, <1>4, <1>5, QuietKeeps DEF Core, Types, SameGot

\* A process goes on that has resized, or waited.
LEMMA GoesOnKeeps ==
    ASSUME Core, NEW p \in Procs, NEW from \in {"endResize", "wait"}, GoesOn(p, from), SameTables, locks' = locks
    PROVE  /\ Steps(p) /\ pc[p] = from /\ Phase(p)' /\ Acts(p)' /\ ~Disturbs(p) /\ KeepsLocks(p)
           /\ Settles(p) /\ Admits(p) /\ pc'[p] \in {"off", "loadTable"}
<1>1. /\ Steps(p) /\ pc[p] = from
      /\ \/ pc'[p] = "off" /\ my'[p] = NoCall
         \/ pc'[p] = "loadTable" /\ my[p].hint # "shrink" /\ my'[p].hint = "none"
            /\ SameCall(p) /\ SameWrite(p) /\ my'[p].table = my[p].table
  BY DEF GoesOn, Moves, Steps
<1>2. /\ my[p].op \in {"set", "delete"} /\ my[p].key \in Keys /\ my[p].table \in 1..current
      /\ my[p].hint # "shrink" => my[p].saw = None
  BY <1>1, ComputesWith DEF Computing, Resizing
<1>3. Phase(p)'
  <2>1. CASE pc'[p] = "off" /\ my'[p] = NoCall
    BY <2>1, IdlePhase
  <2>2. CASE pc'[p] = "loadTable" /\ my[p].hint # "shrink" /\ my'[p].hint = "none"
             /\ SameCall(p) /\ SameWrite(p) /\ my'[p].table = my[p].table
    BY <1>2, <2>2 DEF Phase, Computing, Working, Resizing, SameTables, SameCall, SameWrite
  <2>3. QED
    BY <1>1, <2>1, <2>2
<1>4. pc'[p] \in {"off", "loadTable"} /\ pc[p] = from
  BY <1>1
<1>5. Acts(p)' /\ ~Disturbs(p)
  BY <1>4 DEF Acts, Disturbs
<1>6. KeepsLocks(p) /\ Settles(p) /\ Admits(p)
  BY <1>4 DEF KeepsLocks, Settles, Admits, Settled, Admitted, Working, SameTables
<1>7. QED
  BY <1>1, <1>3, <1>4, <1>5, <1>6

\* The resize is over, and those who wait are woken.
LEMMA EndResizeKeeps ==
    ASSUME Core, NEW p \in Procs, EndResize(p)
    PROVE  Core'
<1>1. GoesOn(p, "endResize") /\ resizing' = FALSE /\ asleep' = {} /\ SameTables /\ locks' = locks /\ SameGot
  BY EndResizeDoes DEF Core, EndResizeBy
<1>2. /\ Steps(p) /\ pc[p] = "endResize" /\ Phase(p)' /\ Acts(p)' /\ ~Disturbs(p) /\ KeepsLocks(p)
      /\ Settles(p) /\ Admits(p) /\ pc'[p] \in {"off", "loadTable"}
  BY <1>1, GoesOnKeeps
<1>3. ResetsFlag(p)
  BY <1>1, <1>2 DEF ResetsFlag, Resizing
<1>4. QED
  BY <1>1, <1>2, <1>3, QuietKeeps DEF Core, Types, SameGot

\* Under resizeMu it waits, unless the resize is over.
LEMMA WaitKeeps ==
    ASSUME Core, NEW p \in Procs, WaitForResize(p)
    PROVE  Core'
<1>1. WaitBy(p)
  BY WaitDoes DEF Core
<1>2. SameTables /\ locks' = locks /\ resizing' = resizing /\ SameGot
  BY <1>1 DEF WaitBy
<1>3. CASE Moves(p, "wait", "asleep") /\ my'[p] = my[p] /\ resizing /\ asleep' = asleep \cup {p}
  <2>1. Steps(p) /\ pc[p] = "wait" /\ pc'[p] = "asleep" /\ my'[p] = my[p]
    BY <1>3 DEF Moves, Steps
  <2>2. Phase(p)'
    BY <1>2, <2>1, ComputesWith DEF Phase, Computing, Working, Resizing, SameTables
  <2>3. Acts(p)' /\ ~Disturbs(p)
    BY <2>1 DEF Acts, Disturbs
  <2>4. KeepsLocks(p) /\ FallsAsleep(p) /\ Settles(p) /\ Admits(p)
    BY <1>2, <1>3, <2>1 DEF KeepsLocks, FallsAsleep, Settles, Admits, Settled, Admitted, Working, Resizing, SameTables
  <2>5. QED
    BY <1>2, <2>1, <2>2, <2>3, <2>4, QuietKeeps DEF Core, Types, SameGot
<1>4. CASE GoesOn(p, "wait") /\ asleep' = asleep
  <2>1. /\ Steps(p) /\ pc[p] = "wait" /\ Phase(p)' /\ Acts(p)' /\ ~Disturbs(p) /\ KeepsLocks(p)
        /\ Settles(p) /\ Admits(p) /\ pc'[p] \in {"off", "loadTable"}
    BY <1>2, <1>4, GoesOnKeeps
  <2>2. KeepsFlag(p)
    BY <1>2, <1>4, <2>1 DEF KeepsFlag, SameFlag, Resizing
  <2>3. QED
    BY <1>2, <2>1, <2>2, QuietKeeps DEF Core, Types, SameGot
<1>5. QED
  BY <1>1, <1>3, <1>4 DEF WaitBy

\* It has been woken.
LEMMA WakeUpKeeps ==
    ASSUME Core, NEW p \in Procs, WakeUp(p)
    PROVE  Core'
<1>1. WakeUpBy(p)
  BY WakeUpDoes DEF Core
<1>2. Steps(p) /\ pc[p] = "asleep" /\ pc'[p] = "wait" /\ my'[p] = my[p] /\ Outside /\ SameGot
  BY <1>1 DEF WakeUpBy, Moves, Steps
<1>3. Phase(p)'
  BY <1>2, ComputesWith DEF Phase, Computing, Working, Resizing, Outside, SameTables
<1>4. QED
  BY <1>2, <1>3, OutsideKeeps DEF Core, Types, SameGot, Working, Resizing

--------------------------------------------------------------------------------
(* What is in the map after a write *)

\* The only node of the key of the process is at place x.
OnlyAt(p, x) ==
    \A y \in Places(Chain(p)) :
        y # x /\ Node(Chain(p), y) # None => Node(Chain(p), y)[1] # my[p].key

OldNode(p, x) == x \in Places(Chain(p)) /\ Node(Chain(p), x) # None => Node(Chain(p), x)[1] = my[p].key

\* A writer has changed place x: a node is there with its tag, or it has lost it, or there
\* is none.
Wrote(p, x, m, n) ==
    /\ Writes(p, x, m, n) /\ Steps(p) /\ pc[p] \in Settled
    /\ OnlyAt(p, x) /\ OldNode(p, x) /\ (n # None => n[1] = my[p].key)
    /\ n # None /\ m # MyTag(p) =>
          x \in Places(Chain(p)) /\ n = Node(Chain(p), x) /\ m = EmptySlot

\* What the writer is in.
LEMMA SettledIn ==
    ASSUME Core, NEW p \in Procs, pc[p] \in Settled
    PROVE  /\ Busy(p) /\ my[p].table = current /\ current \in DOMAIN tables /\ current \in Nat
           /\ Table(p) = tables[current] /\ tables[current] \in AllTables
           /\ Chain(p) = ChainOf(tables[current], my[p].key) /\ MyTag(p) = Tag(tables[current], my[p].key)
           /\ Index(p) = BucketOf(tables[current], my[p].key) /\ Index(p) \in DOMAIN tables[current].buckets
<1>1. Busy(p) /\ my[p].table = current
  BY OwnBucket DEF Settled, Admitted, Core, InPublished
<1>2. Table(p) = tables[current]
  BY <1>1 DEF Table
<1>3. QED
  BY <1>1, <1>2, BusyTyped, TablesTyped DEF Chain, MyTag, Index, Core

\* The other keys are what they were; this one is what the slot tells.
LEMMA WriteShows ==
    ASSUME Core, Core', NEW p \in Procs, NEW x, NEW m, NEW n, Wrote(p, x, m, n)
    PROVE  LET t == tables[current]
               u == tables'[current]
               k == my[p].key
           IN  /\ \A j \in Keys : j # k => SameKey(t, u, j)
               /\ Tag(u, k) = Tag(t, k)
               /\ n # None => /\ ~Lacks(u, k)
                              /\ m = Tag(t, k) => Lookup(u, k) = n
                              /\ m # Tag(t, k) => Lookup(u, k) = None
               /\ n = None => Lacks(u, k) /\ Lookup(u, k) = None
<1> DEFINE t == tables[current]
           u == tables'[current]
           k == my[p].key
           i == BucketOf(t, k)
           c == t.buckets[i]
           d == u.buckets[i]
<1>1. /\ t \in AllTables /\ k \in Keys /\ Index(p) = i /\ Table(p) = t /\ my[p].table = current
      /\ Chain(p) = c /\ current \in DOMAIN tables /\ i \in DOMAIN t.buckets /\ current' = current
      /\ MyTag(p) = Tag(t, k)
  BY SettledIn DEF Wrote, Writes, Busy, ChainOf
<1>2. Replaced(t, u, i) /\ Differs(c, d, x, m, n)
  BY <1>1 DEF Wrote, Writes, Effect
<1>3. u \in AllTables /\ SameShape(t, u)
  BY <1>2 DEF Replaced
<1>4. BucketOf(u, k) = i /\ Tag(u, k) = Tag(t, k) /\ ChainOf(u, k) = d
  BY <1>3, ShapeTells DEF ChainOf
<1>5. Alone(u, i, d)
  <2>1. current \in DOMAIN tables' /\ i \in DOMAIN u.buckets
    BY <1>1, <1>3 DEF Wrote, Writes, Effect, SameShape
  <2>2. QED
    BY <2>1 DEF Core, Placed
<1>6. ASSUME NEW j \in Keys, j # k
      PROVE  SameKey(t, u, j)
  <2>1. Without(c, x, j)
    BY <1>1, <1>6 DEF Wrote, OldNode, Without
  <2>2. Without(d, x, j)
    BY <1>2, <1>6 DEF Wrote, Differs, Without
  <2>3. QED
    BY <1>2, <2>1, <2>2, LookupElsewhere
<1>7. x \in Places(d) /\ Meta(d, x) = m /\ Node(d, x) = n
  BY <1>2 DEF Differs
<1>8. ASSUME n # None
      PROVE  ~Lacks(u, k) /\ (m = Tag(t, k) => Lookup(u, k) = n) /\ (m # Tag(t, k) => Lookup(u, k) = None)
  <2>1. n[1] = k
    BY <1>8 DEF Wrote
  <2>2. ~Lacks(u, k)
    BY <1>4, <1>7, <1>8, <2>1 DEF Lacks
  <2>3. /\ m = Tag(u, k) => Lookup(u, k) = n
        /\ m # Tag(u, k) => Lookup(u, k) = None
    BY <1>1, <1>3, <1>4, <1>5, <1>7, <1>8, <2>1, LookupMarked
  <2>4. QED
    BY <1>4, <2>2, <2>3
<1>9. ASSUME n = None
      PROVE  Lacks(u, k) /\ Lookup(u, k) = None
  <2>1. \A y \in Places(d) : Node(d, y) # None => Node(d, y)[1] # k
    BY <1>1, <1>2, <1>7, <1>9 DEF Wrote, OnlyAt, Differs
  <2>2. Lacks(u, k)
    BY <1>4, <2>1 DEF Lacks
  <2>3. QED
    BY <1>1, <1>3, <2>2, LookupLacks
<1>10. QED
  BY <1>4, <1>6, <1>8, <1>9

\* A writer that has found nothing, and has written metadata at most, has not made a node.
LEMMA LacksNone ==
    ASSUME Core, NEW p \in Procs, pc[p] \in Settled, Lacks(Table(p), my[p].key)
    PROVE  /\ Lookup(tables[current], my[p].key) = None
           /\ \A x : OnlyAt(p, x)
<1>1. Lookup(tables[current], my[p].key) = None
  BY SettledIn, LookupLacks DEF Busy
<1>2. \A y \in Places(Chain(p)) : Node(Chain(p), y) # None => Node(Chain(p), y)[1] # my[p].key
  BY DEF Lacks, Chain
<1>3. QED
  BY <1>1, <1>2 DEF OnlyAt

\* The node of the key of a process.
LEMMA OwnPlace ==
    ASSUME Core, NEW p \in Procs, pc[p] \in Settled, NEW x \in Places(Chain(p)),
           Node(Chain(p), x) # None, Node(Chain(p), x)[1] = my[p].key
    PROVE  /\ OnlyAt(p, x) /\ OldNode(p, x) /\ ~Lacks(tables[current], my[p].key)
           /\ Meta(Chain(p), x) = MyTag(p) => Lookup(tables[current], my[p].key) = Node(Chain(p), x)
           /\ Meta(Chain(p), x) # MyTag(p) => Lookup(tables[current], my[p].key) = None
<1>1. Alone(Table(p), Index(p), Chain(p))
  BY OwnBucket DEF Settled, Admitted
<1>2. OnlyAt(p, x) /\ OldNode(p, x)
  BY <1>1 DEF Alone, OnlyAt, OldNode
<1>3. /\ Table(p) = tables[current] /\ tables[current] \in AllTables /\ my[p].key \in Keys
      /\ Chain(p) = ChainOf(tables[current], my[p].key) /\ MyTag(p) = Tag(tables[current], my[p].key)
      /\ Index(p) = BucketOf(tables[current], my[p].key)
  BY SettledIn DEF Busy
<1>4. ~Lacks(tables[current], my[p].key)
  BY <1>3 DEF Lacks
<1>5. /\ Meta(Chain(p), x) = MyTag(p) => Lookup(tables[current], my[p].key) = Node(Chain(p), x)
      /\ Meta(Chain(p), x) # MyTag(p) => Lookup(tables[current], my[p].key) = None
  BY <1>1, <1>3, LookupMarked
<1>6. QED
  BY <1>2, <1>4, <1>5

\* The five of them.  What the map held and whether the key was there:
SearchFullWrote(p) ==
    /\ Wrote(p, NextPlace(p), MyTag(p), <<my[p].key, p>>)
    /\ Lookup(tables[current], my[p].key) = None /\ Lacks(tables[current], my[p].key)
    /\ pc'[p] = "addSize" /\ my'[p].delta = 1 /\ my'[p].table = my[p].table /\ SameCall(p)

\* Another block, with the first node of its key.
LEMMA SearchFullWrites ==
    ASSUME Core, NEW p \in Procs, SearchFull(p)
    PROVE  SearchFullWrote(p)
<1>1. pc[p] = "search"
  BY DEF SearchFull
<1>2. Busy(p) /\ pc[p] \in Settled /\ Table(p) = tables[current]
  BY <1>1, SettledIn DEF Settled, Admitted, Working
<1>3. SearchFullBy(p)
  BY <1>2, SearchFullDoes DEF Core
<1>4. /\ Steps(p) /\ pc'[p] = "addSize" /\ SameCall(p) /\ my'[p].table = my[p].table /\ my'[p].delta = 1
      /\ Found(p) = {} /\ Writes(p, NextPlace(p), MyTag(p), <<my[p].key, p>>)
  BY <1>3 DEF SearchFullBy, Moves, Steps
<1>5. Lacks(Table(p), my[p].key)
  BY <1>1, <1>4, NothingFound
<1>6. Lookup(tables[current], my[p].key) = None /\ OnlyAt(p, NextPlace(p)) /\ OldNode(p, NextPlace(p))
  <2>1. NextPlace(p) \notin Places(Chain(p))
    <3>1. Len(Chain(p)) \in Nat
      BY <1>2, BusyTyped, PlacesTyped DEF Core
    <3>2. QED
      BY <3>1 DEF NextPlace, Places
  <2>2. QED
    BY <1>2, <1>5, <2>1, LacksNone DEF OldNode
<1>7. QED
  BY <1>2, <1>4, <1>5, <1>6 DEF SearchFullWrote, Wrote

StoreMetaWrote(p) ==
    /\ Wrote(p, my[p].place, MyTag(p), None)
    /\ Lookup(tables[current], my[p].key) = None /\ Lacks(tables[current], my[p].key)
    /\ pc[p] = "storeMeta" /\ pc'[p] = "storeNode" /\ my'[p] = my[p]

\* The tag of a slot that is still empty.
LEMMA StoreMetaWrites ==
    ASSUME Core, NEW p \in Procs, StoreMeta(p)
    PROVE  StoreMetaWrote(p)
<1>1. pc[p] = "storeMeta"
  BY DEF StoreMeta, Step
<1>2. Busy(p) /\ pc[p] \in Settled /\ Table(p) = tables[current]
  BY <1>1, SettledIn DEF Settled, Admitted, Working
<1>3. my[p].place \in Places(Chain(p)) /\ NodeAt(p) = None /\ Lacks(Table(p), my[p].key)
  BY <1>1 DEF Core, Acting, Acts, Absent
<1>4. StoreMetaBy(p)
  BY <1>2, <1>3, StoreMetaDoes DEF Core
<1>5. /\ Steps(p) /\ pc'[p] = "storeNode" /\ my'[p] = my[p] /\ Writes(p, my[p].place, MyTag(p), None)
  BY <1>3, <1>4 DEF StoreMetaBy, Moves, Steps
<1>6. Lookup(tables[current], my[p].key) = None /\ OnlyAt(p, my[p].place) /\ OldNode(p, my[p].place)
  BY <1>2, <1>3, LacksNone DEF OldNode, NodeAt
<1>7. QED
  BY <1>1, <1>2, <1>3, <1>5, <1>6 DEF StoreMetaWrote, Wrote

StoreNodeWrote(p) ==
    /\ Wrote(p, my[p].place, MyTag(p), <<my[p].key, p>>) /\ pc[p] = "storeNode"
    /\ \/ /\ pc'[p] = "off" /\ my'[p] = NoCall /\ ~Lacks(tables[current], my[p].key)
       \/ /\ pc'[p] = "addSize" /\ my'[p] = my[p] /\ my[p].delta = 1
          /\ Lookup(tables[current], my[p].key) = None /\ Lacks(tables[current], my[p].key)

\* A node of its key, new or in the place of another.
LEMMA StoreNodeWrites ==
    ASSUME Core, NEW p \in Procs, StoreNode(p)
    PROVE  StoreNodeWrote(p)
<1>1. pc[p] = "storeNode"
  BY DEF StoreNode
<1>2. Busy(p) /\ pc[p] \in Settled /\ Table(p) = tables[current]
  BY <1>1, SettledIn DEF Settled, Admitted, Working
<1>3. /\ my[p].place \in Places(Chain(p)) /\ MetaAt(p) = MyTag(p)
      /\ \/ my[p].delta = 1 /\ Lacks(Table(p), my[p].key) /\ NodeAt(p) = None
         \/ my[p].delta = 0 /\ NodeAt(p) # None /\ NodeAt(p)[1] = my[p].key
  BY <1>1 DEF Core, Acting, Acts, Absent, There
<1>4. StoreNodeBy(p)
  BY <1>2, <1>3, StoreNodeDoes DEF Core
<1>5. /\ Steps(p) /\ Writes(p, my[p].place, MyTag(p), <<my[p].key, p>>)
      /\ \/ pc'[p] = "off" /\ my'[p] = NoCall /\ my[p].delta = 0
         \/ pc'[p] = "addSize" /\ my'[p] = my[p] /\ my[p].delta # 0
  BY <1>3, <1>4 DEF StoreNodeBy, Moves, Steps
<1>6. CASE my[p].delta = 1 /\ Lacks(Table(p), my[p].key) /\ NodeAt(p) = None
  <2>1. Lookup(tables[current], my[p].key) = None /\ OnlyAt(p, my[p].place) /\ OldNode(p, my[p].place)
    BY <1>2, <1>6, LacksNone DEF OldNode, NodeAt
  <2>2. pc'[p] = "addSize" /\ my'[p] = my[p]
    BY <1>5, <1>6
  <2>3. QED
    BY <1>1, <1>2, <1>5, <1>6, <2>1, <2>2 DEF StoreNodeWrote, Wrote
<1>7. CASE my[p].delta = 0 /\ NodeAt(p) # None /\ NodeAt(p)[1] = my[p].key
  <2>1. OnlyAt(p, my[p].place) /\ OldNode(p, my[p].place) /\ ~Lacks(tables[current], my[p].key)
    BY <1>2, <1>3, <1>7, OwnPlace DEF NodeAt
  <2>2. pc'[p] = "off" /\ my'[p] = NoCall
    BY <1>5, <1>7
  <2>3. QED
    BY <1>1, <1>2, <1>5, <2>1, <2>2 DEF StoreNodeWrote, Wrote
<1>8. QED
  BY <1>3, <1>6, <1>7

ClearMetaWrote(p) ==
    /\ Wrote(p, my[p].place, EmptySlot, NodeAt(p)) /\ NodeAt(p) # None
    /\ ~Lacks(tables[current], my[p].key)
    /\ pc[p] = "clearMeta" /\ pc'[p] = "clearNode" /\ my'[p] = my[p]

\* The tag of a node is taken away.
LEMMA ClearMetaWrites ==
    ASSUME Core, NEW p \in Procs, ClearMeta(p)
    PROVE  ClearMetaWrote(p)
<1>1. pc[p] = "clearMeta"
  BY DEF ClearMeta, Step
<1>2. Busy(p) /\ pc[p] \in Settled /\ Table(p) = tables[current]
  BY <1>1, SettledIn DEF Settled, Admitted, Working
<1>3. my[p].place \in Places(Chain(p)) /\ NodeAt(p) # None /\ NodeAt(p)[1] = my[p].key
  BY <1>1 DEF Core, Acting, Acts, There
<1>4. ClearMetaBy(p)
  BY <1>2, <1>3, ClearMetaDoes DEF Core
<1>5. /\ Steps(p) /\ pc'[p] = "clearNode" /\ my'[p] = my[p] /\ Writes(p, my[p].place, EmptySlot, NodeAt(p))
  BY <1>4 DEF ClearMetaBy, Moves, Steps
<1>6. OnlyAt(p, my[p].place) /\ OldNode(p, my[p].place) /\ ~Lacks(tables[current], my[p].key)
  BY <1>2, <1>3, OwnPlace DEF NodeAt
<1>7. QED
  BY <1>1, <1>2, <1>3, <1>5, <1>6 DEF ClearMetaWrote, Wrote, NodeAt

ClearNodeWrote(p) ==
    /\ Wrote(p, my[p].place, EmptySlot, None)
    /\ Lookup(tables[current], my[p].key) = None /\ ~Lacks(tables[current], my[p].key)
    /\ pc[p] = "clearNode" /\ pc'[p] = "addSize" /\ my'[p].delta = -1 /\ my'[p].table = my[p].table
    /\ SameCall(p)

\* Then the node is.
LEMMA ClearNodeWrites ==
    ASSUME Core, NEW p \in Procs, ClearNode(p)
    PROVE  ClearNodeWrote(p)
<1>1. pc[p] = "clearNode"
  BY DEF ClearNode, Step
<1>2. Busy(p) /\ pc[p] \in Settled /\ Table(p) = tables[current] /\ MyTag(p) # EmptySlot
  BY <1>1, SettledIn, BusyTyped DEF Settled, Admitted, Working, Core
<1>3. /\ my[p].place \in Places(Chain(p)) /\ my[p].delta = -1 /\ MetaAt(p) = EmptySlot
      /\ NodeAt(p) # None /\ NodeAt(p)[1] = my[p].key
  BY <1>1 DEF Core, Acting, Acts
<1>4. ClearNodeBy(p)
  BY <1>2, <1>3, ClearNodeDoes DEF Core
<1>5. /\ Steps(p) /\ pc'[p] = "addSize" /\ SameCall(p) /\ SameWrite(p) /\ my'[p].table = my[p].table
      /\ Writes(p, my[p].place, EmptySlot, None)
  BY <1>3, <1>4 DEF ClearNodeBy, Moves, Steps
<1>6. /\ OnlyAt(p, my[p].place) /\ OldNode(p, my[p].place) /\ ~Lacks(tables[current], my[p].key)
      /\ Lookup(tables[current], my[p].key) = None
  BY <1>2, <1>3, OwnPlace DEF NodeAt, MetaAt
<1>7. QED
  BY <1>1, <1>2, <1>3, <1>5, <1>6 DEF ClearNodeWrote, Wrote, SameWrite

--------------------------------------------------------------------------------
(* What the readers see *)

\* The history variables after a step.
LEMMA ObserveDoes ==
    ASSUME Observe
    PROVE  /\ contents' = Contents'
           /\ \A q \in Procs :
                 /\ seen'[q] = IF my'[q].op # "get" THEN {}
                               ELSE (IF pc[q] = "off" THEN {} ELSE seen[q]) \cup {contents'[my'[q].key]}
                 /\ present'[q] = IF my'[q].op # "range" THEN {}
                                  ELSE {k \in (IF pc[q] = "off" THEN Keys ELSE present[q]) : contents'[k] # None}
  BY DEF Observe

\* They are what Shown says of them.
LEMMA ShownKept ==
    ASSUME Observe
    PROVE  Shown'
<1>1. seen' = [q \in Procs |-> seen'[q]]
  BY DEF Observe
<1>2. QED
  BY <1>1, ObserveDoes DEF Shown

\* What is in the map.
LEMMA ContentsAre ==
    /\ Contents = [k \in Keys |-> Lookup(tables[current], k)]
    /\ Contents' = [k \in Keys |-> Lookup(tables'[current'], k)]
  BY DEF Contents, Lookup

\* Nothing changes about the chains, and the map holds what it held.
Still(p) ==
    /\ Steps(p) /\ current <= current'
    /\ \A u \in DOMAIN tables : u <= current =>
          SameShape(tables[u], tables'[u]) /\ tables'[u].buckets = tables[u].buckets
    /\ \A k \in Keys : Lookup(tables'[current'], k) = Lookup(tables[current], k)

\* Readers that begin then see what they would have seen.
LEMMA StillContents ==
    ASSUME Shown, Observe, NEW p \in Procs, Still(p)
    PROVE  contents' = contents
<1>1. contents = [k \in Keys |-> Lookup(tables[current], k)]
  BY ContentsAre DEF Shown
<1>2. contents' = [k \in Keys |-> Lookup(tables'[current'], k)]
  BY ObserveDoes, ContentsAre
<1>3. QED
  BY <1>1, <1>2 DEF Still

\* A write changes what they see of its key alone.
LEMMA WroteContents ==
    ASSUME Core, Core', Shown, Observe, NEW p \in Procs, NEW x, NEW m, NEW n, Wrote(p, x, m, n)
    PROVE  /\ DOMAIN contents' = Keys /\ DOMAIN contents = Keys
           /\ contents[my[p].key] = Lookup(tables[current], my[p].key)
           /\ \A j \in Keys : contents'[j] = IF j # my[p].key THEN contents[j]
                                             ELSE IF n # None /\ m = MyTag(p) THEN n ELSE None
<1>1. contents = [k \in Keys |-> Lookup(tables[current], k)]
  BY ContentsAre DEF Shown
<1>2. contents' = [k \in Keys |-> Lookup(tables'[current], k)]
  BY ObserveDoes, ContentsAre DEF Wrote, Writes
<1>3. MyTag(p) = Tag(tables[current], my[p].key) /\ my[p].key \in Keys
  BY SettledIn DEF Wrote, Busy
<1>4. /\ \A j \in Keys : j # my[p].key => Lookup(tables'[current], j) = Lookup(tables[current], j)
      /\ n # None /\ m = MyTag(p) => Lookup(tables'[current], my[p].key) = n
      /\ n # None /\ m # MyTag(p) => Lookup(tables'[current], my[p].key) = None
      /\ n = None => Lookup(tables'[current], my[p].key) = None
  BY <1>3, WriteShows DEF SameKey
<1>5. QED
  BY <1>1, <1>2, <1>3, <1>4

\* A reader is at a chain.
LEMMA GetsAt ==
    ASSUME Core, NEW q \in Procs, my[q].op = "get"
    PROVE  pc[q] \in {"meta", "nodes"}
<1>1. Phase(q) /\ pc[q] \in Positions
  BY DEF Core, Phases, Types
<1>2. NoCall.op = "none"
  BY DEF NoCall
<1>3. QED
  BY <1>1, <1>2 DEF Phase, Positions

\* The chain of a reader does not change.
LEMMA ForeseenView ==
    ASSUME Core, Observe, NEW q \in Procs, my[q].op = "get", Foreseen(q),
           my'[q] = my[q], pc'[q] = pc[q], SameView(q)
    PROVE  Foreseen(q)'
<1>1. Chain(q)' = Chain(q) /\ MyTag(q)' = MyTag(q)
  BY DEF SameView
<1>2. seen'[q] = seen[q] \cup {contents'[my[q].key]}
  <2>1. pc[q] # "off"
    BY GetsAt
  <2>2. QED
    BY <2>1, ObserveDoes
<1>3. \A x : (OfKey(q, x)' <=> OfKey(q, x)) /\ (Ahead(q, x)' <=> Ahead(q, x)) /\ (Marked(q, x)' <=> Marked(q, x))
  BY <1>1 DEF OfKey, Ahead, Marked
<1>4. QED
  BY <1>1, <1>2, <1>3 DEF Foreseen

\* Somebody else writes to the chain of a reader.
LEMMA ForeseenWrote ==
    ASSUME Core, Core', Shown, Observe, NEW p \in Procs, NEW x, NEW m, NEW n, Wrote(p, x, m, n),
           NEW q \in Procs, q # p, my[q].op = "get", Foreseen(q), MyBucket(q) = MyBucket(p)
    PROVE  Foreseen(q)'
<1> DEFINE c == Chain(q)
           d == Chain(q)'
           k == my[q].key
           tag == MyTag(q)
<1>1. /\ my'[q] = my[q] /\ pc'[q] = pc[q] /\ pc[q] \in {"meta", "nodes"}
  BY GetsAt DEF Wrote, Steps, Moves
<1>2. Types /\ Busy(q) /\ Busy(p)
  BY <1>1, ReaderIsAt, SettledIn DEF Core, Wrote
<1>3. my[q].table = my[p].table /\ Index(q) = Index(p) /\ Table(q) = Table(p) /\ c = Chain(p) /\ k \in Keys
  <2>1. my[q].table = my[p].table /\ Index(q) = Index(p) /\ Table(q) = Table(p)
    BY DEF MyBucket, Index, Table
  <2>2. c = Table(q).buckets[Index(q)] /\ Chain(p) = Table(p).buckets[Index(p)]
    BY <1>2, BusyTyped
  <2>3. QED
    BY <1>2, <2>1, <2>2 DEF Busy
<1>4. Differs(c, d, x, m, n) /\ MyTag(q)' = tag
  <2>1. Grows
    BY <1>2, EffectGrows DEF Wrote, Writes
  <2>2. Index(q)' = Index(q) /\ MyTag(q)' = tag
    BY <1>1, <1>2, <2>1, GrowsFor
  <2>3. d = tables'[my[q].table].buckets[Index(q)]
    BY <1>1, <2>2 DEF Chain, ChainOf, Index, Table
  <2>4. QED
    BY <1>3, <2>2, <2>3 DEF Wrote, Writes, Effect
<1>5. seen'[q] = seen[q] \cup {contents'[k]}
  BY <1>1, ObserveDoes
<1>6. \A j \in Keys : contents'[j] = IF j # my[p].key THEN contents[j]
                                     ELSE IF n # None /\ m = MyTag(p) THEN n ELSE None
  BY WroteContents
<1>7. k = my[p].key => tag = MyTag(p)
  BY <1>3 DEF MyTag
<1>8. \A y : /\ OfKey(q, y) <=> (Node(c, y) # None /\ Node(c, y)[1] = k)
             /\ OfKey(q, y)' <=> (Node(d, y) # None /\ Node(d, y)[1] = k)
             /\ (Ahead(q, y)' <=> Ahead(q, y)) /\ (Marked(q, y)' <=> Marked(q, y))
  BY <1>1 DEF OfKey, Ahead, Marked
<1>9. Places(c) \subseteq Places(d) /\ x \in Places(d) /\ Meta(d, x) = m /\ Node(d, x) = n
      /\ \A y \in Places(d) : y # x => IF y \in Places(c)
                                       THEN Meta(d, y) = Meta(c, y) /\ Node(d, y) = Node(c, y)
                                       ELSE Meta(d, y) = EmptySlot /\ Node(d, y) = None
  BY <1>4 DEF Differs
<1>10. /\ x \in Places(c) /\ Node(c, x) # None => Node(c, x)[1] = my[p].key
       /\ n # None => n[1] = my[p].key
       /\ n # None /\ m # MyTag(p) => x \in Places(c) /\ n = Node(c, x) /\ m = EmptySlot
  BY <1>3 DEF Wrote, OldNode
<1>11. None \in seen[q] \/ \E y \in Places(c) : OfKey(q, y) /\ Meta(c, y) = tag /\ Ahead(q, y)
  BY DEF Foreseen
<1>12. \A y \in Places(c) : OfKey(q, y) /\ (Meta(c, y) # EmptySlot \/ Marked(q, y)) => Node(c, y) \in seen[q]
  BY DEF Foreseen
<1> HIDE DEF c, d, k, tag
<1>13. None \in seen'[q] \/ \E y \in Places(d) : OfKey(q, y)' /\ Meta(d, y) = tag /\ Ahead(q, y)'
  <2>1. CASE None \in seen[q]
    BY <1>5, <2>1
  <2>2. CASE \E y \in Places(c) : OfKey(q, y) /\ Meta(c, y) = tag /\ Ahead(q, y)
    <3>1. PICK y \in Places(c) : OfKey(q, y) /\ Meta(c, y) = tag /\ Ahead(q, y)
      BY <2>2
    <3>2. CASE y # x
      BY <1>8, <1>9, <3>1, <3>2
    <3>3. CASE y = x
      <4>1. k = my[p].key
        BY <1>8, <1>10, <3>1, <3>3
      <4>2. CASE n # None /\ m = MyTag(p)
        <5>1. OfKey(q, x)' /\ Meta(d, x) = tag /\ Ahead(q, x)'
          BY <1>7, <1>8, <1>9, <1>10, <3>1, <3>3, <4>1, <4>2
        <5>2. QED
          BY <1>9, <5>1
      <4>3. CASE ~(n # None /\ m = MyTag(p))
        <5>1. contents'[k] = None
          BY <1>3, <1>6, <4>1, <4>3
        <5>2. QED
          BY <1>5, <5>1
      <4>4. QED
        BY <4>2, <4>3
    <3>4. QED
      BY <3>2, <3>3
  <2>3. QED
    BY <1>11, <2>1, <2>2
<1>14. ASSUME NEW y \in Places(d), OfKey(q, y)', Meta(d, y) # EmptySlot \/ Marked(q, y)'
       PROVE  Node(d, y) \in seen'[q]
  <2>1. CASE y # x
    <3>1. y \in Places(c) /\ Meta(d, y) = Meta(c, y) /\ Node(d, y) = Node(c, y)
      BY <1>8, <1>9, <1>14, <2>1
    <3>2. Node(c, y) \in seen[q]
      BY <1>8, <1>12, <1>14, <3>1
    <3>3. QED
      BY <1>5, <3>1, <3>2
  <2>2. CASE y = x
    <3>1. n # None /\ n[1] = k /\ k = my[p].key /\ Node(d, y) = n /\ Meta(d, y) = m
      BY <1>8, <1>9, <1>10, <1>14, <2>2
    <3>2. CASE m = MyTag(p)
      <4>1. contents'[k] = n
        BY <1>3, <1>6, <3>1, <3>2
      <4>2. QED
        BY <1>5, <3>1, <4>1
    <3>3. CASE m # MyTag(p)
      <4>1. x \in Places(c) /\ n = Node(c, x) /\ m = EmptySlot
        BY <1>10, <3>1, <3>3
      <4>2. Marked(q, x) /\ OfKey(q, x)
        BY <1>8, <1>14, <2>2, <3>1, <4>1
      <4>3. QED
        BY <1>5, <1>12, <3>1, <4>1, <4>2
    <3>4. QED
      BY <3>2, <3>3
  <2>3. QED
    BY <2>1, <2>2
<1>15. contents'[k] \in seen'[q]
  BY <1>5
<1>16. QED
  BY <1>1, <1>4, <1>13, <1>14, <1>15 DEF Foreseen, c, d, k, tag

\* The steps that change no chain of the tables that have been published.
LEMMA StillSame ==
    ASSUME Types, NEW p \in Procs, Steps(p), SameTables
    PROVE  Still(p)
<1>1. current <= current
  BY LenProperties DEF Types
<1>2. QED
  BY <1>1 DEF Still, SameTables, SameShape

\* A counter is corrected.
LEMMA AddSizeStill ==
    ASSUME Core, NEW p \in Procs, AddSize(p)
    PROVE  Still(p) /\ AddSizeBy(p) /\ Busy(p)
<1>1. pc[p] = "addSize"
  BY DEF AddSize, Return, Step
<1>2. Types /\ Busy(p)
  BY <1>1, BusyWhen DEF Core, Phases
<1>3. AddSizeBy(p)
  BY <1>2, AddSizeDoes
<1>4. Steps(p) /\ current' = current /\ Counts(p, my[p].delta)
  BY <1>3 DEF AddSizeBy, Moves, Steps
<1>5. current <= current /\ current \in DOMAIN tables
  BY <1>2, LenProperties DEF Types
<1>6. \A u \in DOMAIN tables : SameShape(tables[u], tables'[u]) /\ tables'[u].buckets = tables[u].buckets
  BY <1>4 DEF Counts, Table, SameShape
<1>7. \A k \in Keys : Lookup(tables'[current], k) = Lookup(tables[current], k)
  BY <1>5, <1>6, SameChain DEF SameKey
<1>8. QED
  BY <1>2, <1>3, <1>4, <1>5, <1>6, <1>7 DEF Still

\* A table is allocated.
LEMMA NewTableStill ==
    ASSUME Core, NEW p \in Procs, NewTable(p)
    PROVE  Still(p) /\ NewTableBy(p) /\ tables'[current] = tables[current]
<1>1. NewTableBy(p)
  BY NewTableDoes DEF Core
<1>2. Steps(p) /\ current' = current
  BY <1>1 DEF NewTableBy, Moves, Steps
<1>3. \A u \in DOMAIN tables : tables'[u] = tables[u]
  BY <1>1 DEF NewTableBy, Allocates
<1>4. current <= current /\ current \in DOMAIN tables
  BY LenProperties DEF Core, Types
<1>5. QED
  BY <1>1, <1>2, <1>3, <1>4 DEF Still, SameShape

\* A bucket is copied to a table that is not published.
LEMMA CopyBucketStill ==
    ASSUME Core, NEW p \in Procs, CopyBucket(p)
    PROVE  Still(p) /\ CopyBucketBy(p) /\ tables'[current] = tables[current]
<1>1. CopyBucketBy(p)
  BY CopyBucketDoes DEF Core
<1>2. Steps(p) /\ current' = current /\ pc[p] = "copy"
  BY <1>1 DEF CopyBucketBy, Moves, Steps
<1>3. PICK i \in Nat : Copies1(p, i)
  BY <1>1 DEF CopyBucketBy
<1>4. /\ tables \in Seq(AllTables) /\ DOMAIN tables = 1..Len(tables) /\ Len(tables) \in Nat
      /\ current \in DOMAIN tables
  BY LenProperties DEF Core, Types
<1>5. my[p].new \in DOMAIN tables /\ current < my[p].new
  BY <1>2 DEF Core, Copied, CopiedBy
<1>6. \A u \in DOMAIN tables : u # my[p].new => tables'[u] = tables[u]
  BY <1>3 DEF Copies1
<1>7. \A u \in DOMAIN tables : u <= current => tables'[u] = tables[u]
  BY <1>4, <1>5, <1>6
<1>8. current <= current
  BY <1>4
<1>9. QED
  BY <1>1, <1>2, <1>4, <1>7, <1>8 DEF Still, SameShape

\* The table that is published holds what the other one does.
LEMMA PublishStill ==
    ASSUME Core, NEW p \in Procs, Publish(p)
    PROVE  /\ Still(p) /\ PublishBy(p) /\ CopiedBy(p) /\ my[p].table = current
           /\ current < current' /\ current' \in DOMAIN tables /\ Neat(tables[current'])
<1>1. PublishBy(p)
  BY PublishDoes DEF Core
<1>2. Steps(p) /\ current' = my[p].new /\ tables' = tables /\ my[p].todo = {} /\ pc[p] = "copy"
  BY <1>1 DEF PublishBy, Moves, Steps
<1>3. CopiedBy(p)
  BY <1>2 DEF Core, Copied
<1>4. /\ my[p].table = current /\ current < current' /\ current' \in DOMAIN tables /\ Neat(tables[current'])
      /\ \A k \in Keys : Lookup(tables[current'], k) = Lookup(tables[current], k)
  BY <1>2, <1>3 DEF CopiedBy
<1>5. current <= current'
  BY <1>4, LenProperties DEF Core, Types
<1>6. QED
  BY <1>1, <1>2, <1>3, <1>4, <1>5 DEF Still, SameShape

\* Others see what they saw.
LEMMA StillView ==
    ASSUME Core, NEW p \in Procs, Still(p), NEW q \in Procs, q # p, pc[q] # "off"
    PROVE  SameView(q) /\ tables'[my[q].table].buckets = Table(q).buckets
<1>1. my'[q] = my[q]
  BY DEF Still, Steps, Moves
<1>2. my[q].table \in DOMAIN tables /\ my[q].table <= current
  BY BusyWhen DEF Core, Phases
<1>3. SameShape(Table(q), tables'[my[q].table]) /\ tables'[my[q].table].buckets = Table(q).buckets
  BY <1>2 DEF Still, Table
<1>4. QED
  BY <1>1, <1>3, ViewBy

\* A node that the metadata does not deny is the one that is read.
LEMMA MarkedIsRead ==
    ASSUME Core, NEW k \in Keys, NEW x \in Places(ChainOf(tables[current], k)),
           Node(ChainOf(tables[current], k), x) # None, Node(ChainOf(tables[current], k), x)[1] = k,
           Meta(ChainOf(tables[current], k), x) # EmptySlot
    PROVE  Lookup(tables[current], k) = Node(ChainOf(tables[current], k), x)
<1> DEFINE t == tables[current]
           i == BucketOf(t, k)
           c == ChainOf(t, k)
<1>1. t \in AllTables /\ current \in DOMAIN tables
  BY TablesTyped DEF Core, Types
<1>2. i \in DOMAIN t.buckets /\ c = t.buckets[i]
  BY <1>1, TableTyped DEF ChainOf
<1>3. ~Disturbed(current, i, x)
  <2>1. SUFFICES ASSUME NEW q \in Procs, Disturbs(q), MyBucket(q) = <<current, i>>, my[q].place = x
                 PROVE  FALSE
    BY DEF Disturbed
  <2>2. Busy(q)
    BY <2>1, BusyWhen DEF Core, Phases, Disturbs
  <2>3. my[q].table = current /\ Index(q) = i /\ Table(q) = t
    BY <2>1 DEF MyBucket, Index, Table
  <2>4. Chain(q) = c
    BY <1>2, <2>2, <2>3, BusyTyped DEF Core
  <2>5. NodeAt(q) = None \/ MetaAt(q) = EmptySlot
    BY <2>1, HashMapAssumption DEF Core, Acting, Acts, Disturbs, Absent
  <2>6. QED
    BY <2>1, <2>4, <2>5 DEF NodeAt, MetaAt
<1>4. Alone(t, i, c) /\ Right(t, c, x)
  BY <1>1, <1>2, <1>3 DEF Core, Placed
<1>5. Meta(c, x) = Tag(t, k)
  BY <1>4 DEF Right
<1>6. QED
  BY <1>1, <1>4, <1>5, LookupMarked

\* A reader begins.
LEMMA GetForesees ==
    ASSUME Core, Shown, Observe, NEW p \in Procs, Get(p)
    PROVE  Foreseen(p)'
<1>1. GetBy(p) /\ Types
  BY GetDoes DEF Core
<1>2. /\ Steps(p) /\ pc[p] = "off" /\ pc'[p] = "meta" /\ SameTables
      /\ my'[p].op = "get" /\ my'[p].key \in Keys /\ my'[p].table = current /\ my'[p].block = 1
  BY <1>1 DEF GetBy, Moves, Steps, Outside
<1> DEFINE t == tables[current]
           k == my'[p].key
           c == ChainOf(t, k)
<1>3. contents' = contents /\ contents[k] = Lookup(t, k)
  BY <1>1, <1>2, StillSame, StillContents, ContentsAre DEF Shown
<1>4. seen'[p] = {contents'[k]}
  BY <1>2, ObserveDoes
<1>5. Chain(p)' = c /\ MyTag(p)' = Tag(t, k)
  BY <1>2 DEF Chain, MyTag, Table, SameTables
<1>6. t \in AllTables
  BY <1>1, TablesTyped
<1>7. None \in seen'[p] \/ \E x \in Places(c) : OfKey(p, x)' /\ Meta(c, x) = Tag(t, k) /\ Ahead(p, x)'
  <2>1. SUFFICES ASSUME Lookup(t, k) # None
                 PROVE  \E x \in Places(c) : OfKey(p, x)' /\ Meta(c, x) = Tag(t, k) /\ Ahead(p, x)'
    BY <1>3, <1>4
  <2>2. PICK x \in Places(c) : /\ Node(c, x) = Lookup(t, k) /\ Lookup(t, k)[1] = k
                               /\ Meta(c, x) = Tag(t, k)
    BY <1>2, <1>6, <2>1, LookupFinds
  <2>3. OfKey(p, x)'
    BY <1>5, <2>1, <2>2 DEF OfKey
  <2>4. Ahead(p, x)'
    <3>1. x[1] \in Nat /\ x[1] >= 1
      BY <1>2, <1>6, <2>2, TableTyped, PlacesTyped
    <3>2. QED
      BY <1>2, <3>1 DEF Ahead
  <2>5. QED
    BY <2>2, <2>3, <2>4
<1>8. ASSUME NEW x \in Places(c), OfKey(p, x)', Meta(c, x) # EmptySlot \/ Marked(p, x)'
      PROVE  Node(c, x) \in seen'[p]
  <2>1. Meta(c, x) # EmptySlot /\ Node(c, x) # None /\ Node(c, x)[1] = k
    BY <1>2, <1>5, <1>8 DEF Marked, OfKey
  <2>2. Lookup(t, k) = Node(c, x)
    BY <1>2, <2>1, MarkedIsRead
  <2>3. QED
    BY <1>3, <1>4, <2>2
<1>9. QED
  BY <1>4, <1>5, <1>7, <1>8 DEF Foreseen

\* A reader goes on: what it has seen, and its chain.
LEMMA ReaderStays ==
    ASSUME Core, Shown, Observe, NEW p \in Procs, Steps(p), SameTables, SameCall(p),
           my'[p].table = my[p].table, pc[p] \in {"meta", "nodes"}, Foreseen(p)
    PROVE  /\ seen'[p] = seen[p] /\ contents' = contents
           /\ Chain(p)' = Chain(p) /\ MyTag(p)' = MyTag(p)
           /\ \A x : OfKey(p, x)' <=> OfKey(p, x)
<1>1. my[p].op = "get"
  BY ReaderIsAt
<1>2. contents' = contents
  BY StillSame, StillContents DEF Core
<1>3. seen'[p] = seen[p] \cup {contents'[my[p].key]}
  BY <1>1, ObserveDoes DEF SameCall
<1>4. Chain(p)' = Chain(p) /\ MyTag(p)' = MyTag(p)
  BY DEF Chain, MyTag, Table, SameTables, SameCall
<1>5. \A x : OfKey(p, x)' <=> OfKey(p, x)
  BY <1>4 DEF OfKey, SameCall
<1>6. QED
  BY <1>2, <1>3, <1>4, <1>5 DEF Foreseen

\* It goes on, with no fewer of the nodes of its key ahead, nor more of them marked.
LEMMA ReaderForesees ==
    ASSUME Core, Shown, Observe, NEW p \in Procs, Steps(p), SameTables, SameCall(p),
           my'[p].table = my[p].table, pc[p] \in {"meta", "nodes"}, Foreseen(p),
           \A x \in Places(Chain(p)) : OfKey(p, x) /\ Meta(Chain(p), x) = MyTag(p) /\ Ahead(p, x) =>
                                         Ahead(p, x)',
           \A x \in Places(Chain(p)) : Marked(p, x)' => Marked(p, x) \/ Meta(Chain(p), x) # EmptySlot
    PROVE  Foreseen(p)'
<1>1. /\ seen'[p] = seen[p] /\ contents' = contents
      /\ Chain(p)' = Chain(p) /\ MyTag(p)' = MyTag(p)
      /\ \A x : OfKey(p, x)' <=> OfKey(p, x)
  BY ReaderStays
<1>2. my'[p].key = my[p].key
  BY DEF SameCall
<1>3. contents'[my'[p].key] \in seen'[p]
  BY <1>1, <1>2 DEF Foreseen
<1>4. None \in seen'[p] \/ \E x \in Places(Chain(p)) : OfKey(p, x)' /\ Meta(Chain(p), x) = MyTag(p) /\ Ahead(p, x)'
  BY <1>1 DEF Foreseen
<1>5. \A x \in Places(Chain(p)) :
         OfKey(p, x)' /\ (Meta(Chain(p), x) # EmptySlot \/ Marked(p, x)') => Node(Chain(p), x) \in seen'[p]
  BY <1>1 DEF Foreseen
<1>6. QED
  BY <1>1, <1>3, <1>4, <1>5 DEF Foreseen

\* It marks the slots of a block: those that hold its key are among them.
LEMMA LoadMetaForesees ==
    ASSUME Core, Shown, Observe, NEW p \in Procs, LoadMeta(p), Foreseen(p)
    PROVE  Foreseen(p)'
<1>1. LoadMetaBy(p)
  BY LoadMetaDoes DEF Core
<1>2. /\ Steps(p) /\ pc[p] = "meta" /\ pc'[p] = "nodes" /\ SameTables
      /\ SameCall(p) /\ my'[p].table = my[p].table /\ my'[p].block = my[p].block
      /\ my'[p].marked = {s \in 1..Slots : Meta(Chain(p), <<my[p].block, s>>) = MyTag(p)}
  BY <1>1 DEF LoadMetaBy, Moves, Steps, Outside
<1>3. Chain(p) \in Chains /\ MyTag(p) # EmptySlot
  BY <1>2, ReaderIsAt, BusyTyped DEF Core
<1>4. \A x \in Places(Chain(p)) : x[2] \in 1..Slots /\ x = <<x[1], x[2]>>
  BY <1>3, PlacesTyped
<1>5. \A x \in Places(Chain(p)) : x[1] = my[p].block => (x[2] \in my'[p].marked <=> Meta(Chain(p), x) = MyTag(p))
  BY <1>2, <1>4
<1>6. ASSUME NEW x \in Places(Chain(p)), Meta(Chain(p), x) = MyTag(p), Ahead(p, x)
      PROVE  Ahead(p, x)'
  BY <1>2, <1>5, <1>6 DEF Ahead
<1>7. ASSUME NEW x \in Places(Chain(p)), Marked(p, x)'
      PROVE  Meta(Chain(p), x) # EmptySlot
  BY <1>2, <1>3, <1>5, <1>7 DEF Marked
<1>8. QED
  BY <1>2, <1>6, <1>7, ReaderForesees

\* It passes by a slot that does not hold its key.
LEMMA MissForesees ==
    ASSUME Core, Shown, Observe, NEW p \in Procs, MissBy(p), Foreseen(p)
    PROVE  Foreseen(p)'
<1>1. /\ Steps(p) /\ pc[p] = "nodes" /\ pc'[p] = "nodes" /\ SameTables
      /\ SameCall(p) /\ my'[p].table = my[p].table /\ my'[p].block = my[p].block
  BY DEF MissBy, Moves, Steps, Outside
<1>2. PICK s \in my[p].marked : my'[p].marked = my[p].marked \ {s} /\ ~OfKey(p, <<my[p].block, s>>)
  BY DEF MissBy
<1>3. \A x \in Places(Chain(p)) : x = <<x[1], x[2]>>
  BY <1>1, ReaderIsAt, PlacesTyped
<1>4. ASSUME NEW x \in Places(Chain(p)), OfKey(p, x), Ahead(p, x)
      PROVE  Ahead(p, x)'
  BY <1>1, <1>2, <1>3, <1>4 DEF Ahead
<1>5. ASSUME NEW x \in Places(Chain(p)), Marked(p, x)'
      PROVE  Marked(p, x)
  BY <1>1, <1>2, <1>5 DEF Marked
<1>6. QED
  BY <1>1, <1>4, <1>5, ReaderForesees

\* It leaves a block behind in which nothing is marked.
LEMMA NextBlockForesees ==
    ASSUME Core, Shown, Observe, NEW p \in Procs, NextBlockBy(p), Foreseen(p)
    PROVE  Foreseen(p)'
<1>1. /\ Steps(p) /\ pc[p] = "nodes" /\ pc'[p] = "meta" /\ SameTables
      /\ SameCall(p) /\ my'[p].table = my[p].table /\ my'[p].block = my[p].block + 1 /\ my[p].marked = {}
  BY DEF NextBlockBy, Moves, Steps, Outside
<1>2. /\ my[p].block \in Nat
      /\ \A x \in Places(Chain(p)) : x[1] \in Nat
  <2>1. Chain(p) \in Chains /\ my[p].block \in 1..Len(Chain(p))
    BY <1>1, ReaderIsAt
  <2>2. Len(Chain(p)) \in Nat /\ \A x \in Places(Chain(p)) : x[1] \in 1..Len(Chain(p))
    BY <2>1, PlacesTyped
  <2>3. QED
    BY <2>1, <2>2
<1>3. ASSUME NEW x \in Places(Chain(p)), Ahead(p, x)
      PROVE  Ahead(p, x)'
  <2>1. x[1] > my[p].block
    BY <1>1, <1>3 DEF Ahead
  <2>2. x[1] > my[p].block + 1 \/ x[1] = my[p].block + 1
    BY <1>2, <2>1
  <2>3. QED
    BY <1>1, <2>2 DEF Ahead
<1>4. \A x \in Places(Chain(p)) : ~Marked(p, x)'
  BY <1>1 DEF Marked
<1>5. QED
  BY <1>1, <1>3, <1>4, ReaderForesees

\* The position of a process tells what it has been called for, and the other way round.
LEMMA OpTells ==
    ASSUME Types, Phases, NEW p \in Procs
    PROVE  /\ (my[p].op = "get" <=> pc[p] \in {"meta", "nodes"})
           /\ (my[p].op = "range" <=> pc[p] = "range")
           /\ (my[p].op \in {"set", "delete"} <=> pc[p] \in Computing)
<1>1. Phase(p) /\ pc[p] \in Positions
  BY DEF Phases, Types
<1>2. NoCall.op = "none"
  BY DEF NoCall
<1>3. pc[p] \in {"off", "meta", "nodes", "range"} \cup Computing
  BY <1>1 DEF Positions
<1>4. /\ pc[p] = "off" => my[p].op = "none" /\ pc[p] \notin Computing
      /\ pc[p] \in {"meta", "nodes"} => my[p].op = "get" /\ pc[p] \notin Computing
      /\ pc[p] = "range" => my[p].op = "range" /\ pc[p] \notin Computing
      /\ pc[p] \in Computing => my[p].op \in {"set", "delete"} /\ pc[p] \notin {"off", "meta", "nodes", "range"}
  BY <1>1, <1>2 DEF Phase, Computing, Working, Resizing
<1>5. QED
  BY <1>3, <1>4

\* The same after a step.
LEMMA OpTellsNext ==
    ASSUME Types', Phases', NEW p \in Procs
    PROVE  /\ (my'[p].op = "get" <=> pc'[p] \in {"meta", "nodes"})
           /\ (my'[p].op = "range" <=> pc'[p] = "range")
           /\ (my'[p].op \in {"set", "delete"} <=> pc'[p] \in Computing)
<1>1. Phase(p)' /\ pc'[p] \in Positions
  BY DEF Phases, Types
<1>2. NoCall.op = "none"
  BY DEF NoCall
<1>3. pc'[p] \in {"off", "meta", "nodes", "range"} \cup Computing
  BY <1>1 DEF Positions
<1>4. /\ pc'[p] = "off" => my'[p].op = "none" /\ pc'[p] \notin Computing
      /\ pc'[p] \in {"meta", "nodes"} => my'[p].op = "get" /\ pc'[p] \notin Computing
      /\ pc'[p] = "range" => my'[p].op = "range" /\ pc'[p] \notin Computing
      /\ pc'[p] \in Computing => my'[p].op \in {"set", "delete"} /\ pc'[p] \notin {"off", "meta", "nodes", "range"}
  BY <1>1, <1>2 DEF Phase, Computing, Working, Resizing
<1>5. QED
  BY <1>3, <1>4

\* Readers go on as they were while another process does something.
LEMMA ReadsKept ==
    ASSUME Core, Core', Shown, Observe, Reads, NEW p \in Procs,
           Still(p) \/ \E x, m, n : Wrote(p, x, m, n),
           my'[p].op = "get" => Foreseen(p)'
    PROVE  Reads'
<1>1. SUFFICES ASSUME NEW q \in Procs, q # p, my'[q].op = "get"
               PROVE  Foreseen(q)'
  BY DEF Reads
<1>2. my'[q] = my[q] /\ pc'[q] = pc[q]
  BY <1>1 DEF Still, Wrote, Steps, Moves
<1>3. my[q].op = "get" /\ Foreseen(q) /\ pc[q] \in {"meta", "nodes"}
  BY <1>1, <1>2, GetsAt DEF Reads
<1>4. CASE Still(p)
  <2>1. SameView(q)
    BY <1>1, <1>3, <1>4, StillView
  <2>2. QED
    BY <1>2, <1>3, <2>1, ForeseenView
<1>5. CASE \E x, m, n : Wrote(p, x, m, n)
  <2>1. PICK x, m, n : Wrote(p, x, m, n)
    BY <1>5
  <2>2. CASE MyBucket(q) = MyBucket(p)
    BY <1>1, <1>3, <2>1, <2>2, ForeseenWrote
  <2>3. CASE MyBucket(q) # MyBucket(p)
    <3>1. my[q].table \in DOMAIN tables /\ Index(q) \in DOMAIN Table(q).buckets
      <4>1. Busy(q) /\ Types
        BY <1>3, ReaderIsAt DEF Core
      <4>2. QED
        BY <4>1, BusyTyped DEF Busy
    <3>2. Effect(p, x, m, n)
      BY <2>1 DEF Wrote, Writes
    <3>3. SameView(q)
      BY <1>2, <2>3, <3>1, <3>2, EffectView
    <3>4. QED
      BY <1>2, <1>3, <3>3, ForeseenView
  <2>4. QED
    BY <2>2, <2>3
<1>6. QED
  BY <1>4, <1>5

\* So does a Range.
LEMMA RangedBy ==
    ASSUME Core, Observe, NEW q \in Procs, my[q].op = "range", Ranged(q), my'[q] = my[q],
           SameShape(Table(q), tables'[my[q].table]),
           \A k \in Keys : k \in present[q] /\ contents'[k] # None => ~Lacks(tables'[my[q].table], k)
    PROVE  Ranged(q)'
<1>1. pc[q] # "off"
  BY OpTells DEF Core
<1>2. \A k : k \in present'[q] => k \in present[q] /\ contents'[k] # None
  BY <1>1, ObserveDoes
<1>3. Table(q)' = tables'[my[q].table] /\ DOMAIN tables'[my[q].table].buckets = DOMAIN Table(q).buckets
  BY DEF Table, SameShape
<1>4. \A k : BucketOf(tables'[my[q].table], k) = BucketOf(Table(q), k)
  BY ShapeTells
<1>5. ASSUME NEW k \in Keys
      PROVE  /\ k \in present'[q] => ~Lacks(Table(q)', k)
             /\ my'[q].visited[k] <= 1
             /\ BucketOf(Table(q)', k) \in my'[q].todo => my'[q].visited[k] = 0
             /\ (BucketOf(Table(q)', k) \notin my'[q].todo /\ k \in present'[q]) => my'[q].visited[k] = 1
  BY <1>2, <1>3, <1>4 DEF Ranged
<1>6. my'[q].todo \subseteq DOMAIN Table(q)'.buckets
  BY <1>3 DEF Ranged
<1>7. QED
  BY <1>5, <1>6 DEF Ranged

\* Ranges go on as they were while another process does something.
LEMMA RangesKept ==
    ASSUME Core, Core', Shown, Observe, Ranges, NEW p \in Procs,
           Still(p) \/ \E x, m, n : Wrote(p, x, m, n),
           my'[p].op = "range" => Ranged(p)'
    PROVE  Ranges'
<1>1. SUFFICES ASSUME NEW q \in Procs, q # p, my'[q].op = "range"
               PROVE  Ranged(q)'
  BY DEF Ranges
<1>2. my'[q] = my[q] /\ pc'[q] = pc[q]
  BY <1>1 DEF Still, Wrote, Steps, Moves
<1>3. my[q].op = "range" /\ Ranged(q) /\ pc[q] = "range"
  BY <1>1, <1>2, OpTells DEF Core, Ranges
<1> DEFINE u == my[q].table
<1>4. u \in DOMAIN tables /\ u <= current /\ Table(q) \in AllTables
  BY <1>3, BusyWhen DEF Core, Phases
<1>5. SameShape(Table(q), tables'[u])
      /\ \A k \in Keys : k \in present[q] /\ contents'[k] # None => ~Lacks(tables'[u], k)
  <2>1. CASE Still(p)
    <3>1. SameShape(Table(q), tables'[u]) /\ tables'[u].buckets = Table(q).buckets
      BY <1>4, <2>1 DEF Still, Table
    <3>2. ASSUME NEW k \in Keys, k \in present[q] PROVE ~Lacks(tables'[u], k)
      <4>1. SameKey(Table(q), tables'[u], k)
        BY <3>1, SameChain
      <4>2. QED
        BY <1>3, <3>2, <4>1 DEF SameKey, Ranged
    <3>3. QED
      BY <3>1, <3>2
  <2>2. CASE \E x, m, n : Wrote(p, x, m, n)
    <3>1. PICK x, m, n : Wrote(p, x, m, n)
      BY <2>2
    <3>2. Effect(p, x, m, n) /\ current' = current /\ my[p].table = current /\ Table(p) = tables[current]
      BY <3>1, SettledIn DEF Wrote, Writes
    <3>3. CASE u # current
      <4>1. tables'[u] = Table(q)
        BY <1>4, <3>2, <3>3 DEF Effect, Table
      <4>2. QED
        BY <1>3, <4>1 DEF SameShape, Ranged
    <3>4. CASE u = current
      <4>1. SameShape(Table(q), tables'[u]) /\ tables'[u] \in AllTables
        BY <3>2, <3>4 DEF Effect, Replaced, Table
      <4>2. ASSUME NEW k \in Keys, contents'[k] # None PROVE ~Lacks(tables'[u], k)
        <5>1. contents'[k] = Lookup(tables'[u], k)
          BY <3>2, <3>4, ObserveDoes, ContentsAre
        <5>2. QED
          BY <4>1, <4>2, <5>1, LookupLacks
      <4>3. QED
        BY <4>1, <4>2
    <3>5. QED
      BY <3>3, <3>4
  <2>3. QED
    BY <2>1, <2>2
<1>6. QED
  BY <1>2, <1>3, <1>5, RangedBy

\* A Range begins.
LEMMA BeginRangeCounts ==
    ASSUME Core, Shown, Observe, NEW p \in Procs, BeginRange(p)
    PROVE  Ranged(p)'
<1>1. BeginRangeBy(p) /\ Types
  BY BeginRangeDoes DEF Core
<1>2. /\ pc[p] = "off" /\ SameTables /\ my'[p].op = "range" /\ my'[p].table = current
      /\ my'[p].todo = DOMAIN tables[current].buckets /\ my'[p].visited = [k \in Keys |-> 0]
  BY <1>1 DEF BeginRangeBy, Moves, Outside
<1>3. Table(p)' = tables[current] /\ tables[current] \in AllTables
  BY <1>1, <1>2, TablesTyped DEF Table, SameTables
<1>4. ASSUME NEW k \in Keys
      PROVE  /\ BucketOf(tables[current], k) \in DOMAIN tables[current].buckets
             /\ k \in present'[p] => ~Lacks(tables[current], k)
  <2>1. BucketOf(tables[current], k) \in DOMAIN tables[current].buckets
    BY <1>3, TableTyped
  <2>2. k \in present'[p] => contents'[k] # None
    BY <1>2, ObserveDoes
  <2>3. contents'[k] = Lookup(tables[current], k)
    BY <1>2, ObserveDoes, ContentsAre DEF SameTables
  <2>4. QED
    BY <1>3, <2>1, <2>2, <2>3, LookupLacks
<1>5. QED
  BY <1>2, <1>3, <1>4 DEF Ranged

\* It visits a bucket.
LEMMA RangeBucketCounts ==
    ASSUME Core, Shown, Observe, NEW p \in Procs, RangeBucket(p), Ranged(p)
    PROVE  Ranged(p)' /\ \A i \in my[p].todo : Table(p).buckets[i] \in Chains
<1>1. pc[p] = "range" /\ Types
  BY DEF RangeBucket, Step, Core
<1>2. my[p].op = "range" /\ my[p].table \in DOMAIN tables /\ Table(p) \in AllTables
  BY <1>1, RangeIsAt, BusyWhen DEF Core, Phases
<1>3. \A i \in my[p].todo : i \in DOMAIN Table(p).buckets /\ Table(p).buckets[i] \in Chains
  BY <1>2, TableTyped DEF Ranged
<1>4. RangeBucketBy(p)
  BY <1>1, <1>3, RangeBucketDoes
<1>5. PICK i \in my[p].todo : /\ <<my[p].table, i>> \notin locks
                              /\ my'[p].todo = my[p].todo \ {i}
                              /\ my'[p].visited = Visit(p, Table(p).buckets[i])
  BY <1>4 DEF RangeBucketBy
<1> DEFINE t == Table(p)
           c == t.buckets[i]
<1>6. SameTables /\ SameCall(p) /\ my'[p].table = my[p].table /\ Table(p)' = t
  BY <1>4 DEF RangeBucketBy, Outside, SameTables, Table
<1>7. i \in DOMAIN t.buckets /\ c \in Chains
  BY <1>3
<1>8. Alone(t, i, c)
  BY <1>2, <1>7 DEF Core, Placed, Table
<1>9. \A k \in Keys : k \in present'[p] => k \in present[p]
  BY <1>1, <1>2, <1>6, ObserveDoes DEF SameCall
<1>10. ASSUME NEW k \in Keys
       PROVE  /\ k \in present'[p] => ~Lacks(t, k)
              /\ my'[p].visited[k] <= 1
              /\ BucketOf(t, k) \in my'[p].todo => my'[p].visited[k] = 0
              /\ (BucketOf(t, k) \notin my'[p].todo /\ k \in present'[p]) => my'[p].visited[k] = 1
  <2>1. /\ k \in present[p] => ~Lacks(t, k)
        /\ my[p].visited[k] <= 1
        /\ BucketOf(t, k) \in my[p].todo => my[p].visited[k] = 0
        /\ (BucketOf(t, k) \notin my[p].todo /\ k \in present[p]) => my[p].visited[k] = 1
    BY DEF Ranged
  <2>2. CASE BucketOf(t, k) # i
    <3>1. \A x \in Places(c) : Node(c, x) # None => Node(c, x)[1] # k
      BY <1>8, <2>2 DEF Alone
    <3>2. my'[p].visited[k] = my[p].visited[k]
      BY <1>1, <1>5, <1>7, <3>1, VisitTyped
    <3>3. QED
      BY <1>5, <1>9, <2>1, <2>2, <3>2
  <2>3. CASE BucketOf(t, k) = i
    <3>1. my[p].visited[k] = 0 /\ BucketOf(t, k) \notin my'[p].todo /\ ChainOf(t, k) = c
      BY <1>5, <2>1, <2>3 DEF ChainOf
    <3>2. CASE \A x \in Places(c) : Node(c, x) # None => Node(c, x)[1] # k
      <4>1. Lacks(t, k)
        BY <3>1, <3>2 DEF Lacks
      <4>2. my'[p].visited[k] = my[p].visited[k]
        BY <1>1, <1>5, <1>7, <3>2, VisitTyped
      <4>3. my'[p].visited[k] = 0
        BY <3>1, <4>2
      <4>4. QED
        BY <1>9, <2>1, <3>1, <4>1, <4>3
    <3>3. CASE \E x \in Places(c) : Node(c, x) # None /\ Node(c, x)[1] = k
      <4>1. PICK x \in Places(c) : Node(c, x) # None /\ Node(c, x)[1] = k
        BY <3>3
      <4>2. \A y \in Places(c) : Node(c, y) # None /\ Node(c, y)[1] = k => y = x
        BY <1>8, <4>1 DEF Alone
      <4>3. Visit(p, c)[k] = my[p].visited[k] + 1
        BY <1>1, <1>7, <4>1, <4>2, VisitTyped
      <4>4. my'[p].visited[k] = 1
        BY <1>5, <3>1, <4>3
      <4>5. QED
        BY <1>9, <2>1, <3>1, <4>4
    <3>4. QED
      BY <3>2, <3>3
  <2>4. QED
    BY <2>2, <2>3
<1>11. my'[p].todo \subseteq DOMAIN t.buckets
  BY <1>3, <1>5
<1>12. Ranged(p)'
  BY <1>6, <1>10, <1>11 DEF Ranged
<1>13. QED
  BY <1>3, <1>12

--------------------------------------------------------------------------------
(* The size of the map *)

\* The places of a table where there is a node are as many as its keys.
NodesOf(t) == {x \in UNION {{i} \X Places(t.buckets[i]) : i \in DOMAIN t.buckets} :
                  Node(t.buckets[x[1]], x[2]) # None}

\* Each key has one place.
LEMMA NodesStored ==
    ASSUME NEW t \in AllTables, \A i \in DOMAIN t.buckets : Alone(t, i, t.buckets[i])
    PROVE  Cardinality(NodesOf(t)) = Cardinality(Stored(t))
<1> DEFINE f == [x \in NodesOf(t) |-> Node(t.buckets[x[1]], x[2])[1]]
<1>1. ASSUME NEW x \in NodesOf(t)
      PROVE  /\ x = <<x[1], x[2]>> /\ x[1] \in DOMAIN t.buckets /\ x[2] \in Places(t.buckets[x[1]])
             /\ Node(t.buckets[x[1]], x[2]) # None
             /\ f[x] \in Keys /\ BucketOf(t, f[x]) = x[1] /\ f[x] = Node(t.buckets[x[1]], x[2])[1]
  <2>1. PICK i \in DOMAIN t.buckets : x \in {i} \X Places(t.buckets[i])
    BY DEF NodesOf
  <2>2. x = <<x[1], x[2]>> /\ x[1] = i /\ x[2] \in Places(t.buckets[i])
    BY <2>1
  <2>3. Node(t.buckets[x[1]], x[2]) # None
    BY DEF NodesOf
  <2>4. t.buckets[i] \in Chains
    BY TableTyped
  <2>5. Node(t.buckets[i], x[2]) \in Nodes
    BY <2>2, <2>3, <2>4, PlacesTyped
  <2>6. f[x] = Node(t.buckets[i], x[2])[1]
    BY <2>2
  <2>7. BucketOf(t, f[x]) = i
    BY <2>2, <2>3, <2>6 DEF Alone
  <2>8. QED
    BY <2>2, <2>3, <2>5, <2>6, <2>7, NodeHasKey
<1>2. ASSUME NEW k \in Stored(t)
      PROVE  \E x \in NodesOf(t) : f[x] = k
  <2>1. PICK y \in Places(ChainOf(t, k)) : Node(ChainOf(t, k), y) # None /\ Node(ChainOf(t, k), y)[1] = k
    BY DEF Stored, Lacks
  <2>2. BucketOf(t, k) \in DOMAIN t.buckets /\ ChainOf(t, k) = t.buckets[BucketOf(t, k)]
    BY TableTyped DEF Stored, ChainOf
  <2> DEFINE x == <<BucketOf(t, k), y>>
  <2>3. x \in {BucketOf(t, k)} \X Places(t.buckets[BucketOf(t, k)])
    BY <2>1, <2>2
  <2>4. x \in NodesOf(t)
    BY <2>1, <2>2, <2>3 DEF NodesOf
  <2>5. f[x] = k
    BY <2>1, <2>2, <2>4
  <2>6. QED
    BY <2>4, <2>5
<1>3. f \in [NodesOf(t) -> Stored(t)]
  <2>1. ASSUME NEW x \in NodesOf(t) PROVE f[x] \in Stored(t)
    <3>1. ChainOf(t, f[x]) = t.buckets[x[1]]
      BY <1>1 DEF ChainOf
    <3>2. ~Lacks(t, f[x])
      BY <1>1, <3>1 DEF Lacks
    <3>3. QED
      BY <1>1, <3>2 DEF Stored
  <2>2. QED
    BY <2>1
<1>4. ASSUME NEW x \in NodesOf(t), NEW y \in NodesOf(t), f[x] = f[y] PROVE x = y
  <2>1. x[1] = y[1]
    BY <1>1, <1>4
  <2>2. x[2] = y[2]
    <3>1. /\ x[2] \in Places(t.buckets[x[1]]) /\ Node(t.buckets[x[1]], x[2]) # None
          /\ y[2] \in Places(t.buckets[x[1]]) /\ Node(t.buckets[x[1]], y[2]) # None
          /\ Node(t.buckets[x[1]], x[2])[1] = Node(t.buckets[x[1]], y[2])[1]
      BY <1>1, <1>4, <2>1
    <3>2. Alone(t, x[1], t.buckets[x[1]])
      BY <1>1
    <3>3. QED
      BY <3>1, <3>2 DEF Alone
  <2>3. QED
    BY <1>1, <2>1, <2>2
<1>5. IsFiniteSet(Stored(t))
  BY HashMapAssumption, FS_Subset DEF Stored
<1> HIDE DEF f
<1>6. f \in Injection(NodesOf(t), Stored(t)) /\ f \in Surjection(NodesOf(t), Stored(t))
  BY <1>2, <1>3, <1>4 DEF Injection, Surjection, IsInjective
<1>7. QED
  BY <1>5, <1>6, FS_Injection

\* SizeAccounted in these terms.
Adding   == {p \in Procs : Uncounted(p) /\ my[p].delta = 1}
Removing == {p \in Procs : Uncounted(p) /\ my[p].delta = -1}

Accounted == tables[current].size + Cardinality(Adding) - Cardinality(Removing)
                = Cardinality(Stored(tables[current]))

\* They say the same.
LEMMA AccountedTells ==
    ASSUME Core
    PROVE  SizeAccounted <=> Accounted
<1>1. tables[current] \in AllTables /\ current \in DOMAIN tables
  BY TablesTyped DEF Core
<1>2. Cardinality(NodesOf(tables[current])) = Cardinality(Stored(tables[current]))
  BY <1>1, NodesStored DEF Core, Placed
<1>3. QED
  BY <1>2 DEF SizeAccounted, Accounted, NodesOf, Adding, Removing

\* The same after a step.
LEMMA AccountedTellsNext ==
    ASSUME Core'
    PROVE  SizeAccounted' <=> Accounted'
<1>1. tables'[current'] \in AllTables /\ current' \in DOMAIN tables'
  BY ElementOfSeq, LenProperties DEF Core, Types
<1>2. Cardinality(NodesOf(tables'[current'])) = Cardinality(Stored(tables'[current']))
  BY <1>1, NodesStored DEF Core, Placed
<1>3. QED
  BY <1>2 DEF SizeAccounted, Accounted, NodesOf, Adding, Removing, Uncounted

\* All the numbers there are finite ones.
LEMMA AccountsTyped ==
    ASSUME Core
    PROVE  /\ tables[current].size \in Int /\ Cardinality(Stored(tables[current])) \in Nat
           /\ IsFiniteSet(Adding) /\ IsFiniteSet(Removing) /\ IsFiniteSet(Stored(tables[current]))
           /\ Cardinality(Adding) \in Nat /\ Cardinality(Removing) \in Nat
<1>1. tables[current] \in AllTables
  BY TablesTyped DEF Core
<1>2. IsFiniteSet(Adding) /\ IsFiniteSet(Removing) /\ IsFiniteSet(Stored(tables[current]))
  BY HashMapAssumption, FS_Subset DEF Adding, Removing, Stored
<1>3. QED
  BY <1>1, <1>2, FS_CardinalityType DEF AllTables

\* A step of process p changes nothing about who has still to count.
LEMMA SameUncounted ==
    ASSUME NEW p \in Procs, Steps(p), current' = current, ~Uncounted(p), ~Uncounted(p)'
    PROVE  Adding' = Adding /\ Removing' = Removing
<1>1. \A q \in Procs : /\ (q \in Adding' <=> q \in Adding)
                       /\ (q \in Removing' <=> q \in Removing)
  BY DEF Steps, Moves, Adding, Removing, Uncounted
<1>2. QED
  BY <1>1 DEF Adding, Removing

\* It has written, and has still to count it.
LEMMA OneUncounted ==
    ASSUME NEW p \in Procs, Steps(p), current' = current, pc[p] # "addSize", pc'[p] = "addSize",
           my'[p].table = current
    PROVE  /\ my'[p].delta = 1 => Adding' = Adding \cup {p} /\ p \notin Adding /\ Removing' = Removing
           /\ my'[p].delta = -1 => Removing' = Removing \cup {p} /\ p \notin Removing /\ Adding' = Adding
<1>1. \A q \in Procs : q # p => /\ (q \in Adding' <=> q \in Adding)
                                /\ (q \in Removing' <=> q \in Removing)
  BY DEF Steps, Moves, Adding, Removing, Uncounted
<1>2. /\ p \notin Adding /\ p \notin Removing
      /\ (p \in Adding' <=> my'[p].delta = 1)
      /\ (p \in Removing' <=> my'[p].delta = -1)
  BY DEF Adding, Removing, Uncounted
<1>3. Adding \subseteq Procs /\ Adding' \subseteq Procs /\ Removing \subseteq Procs /\ Removing' \subseteq Procs
  BY DEF Adding, Removing
<1>4. QED
  BY <1>1, <1>2, <1>3

\* It has counted it.
LEMMA OneCounted ==
    ASSUME NEW p \in Procs, Steps(p), current' = current, Uncounted(p), pc'[p] # "addSize"
    PROVE  /\ my[p].delta = 1 => Adding' = Adding \ {p} /\ p \in Adding /\ Removing' = Removing
           /\ my[p].delta = -1 => Removing' = Removing \ {p} /\ p \in Removing /\ Adding' = Adding
<1>1. \A q \in Procs : q # p => /\ (q \in Adding' <=> q \in Adding)
                                /\ (q \in Removing' <=> q \in Removing)
  BY DEF Steps, Moves, Adding, Removing, Uncounted
<1>2. /\ p \notin Adding' /\ p \notin Removing'
      /\ (p \in Adding <=> my[p].delta = 1)
      /\ (p \in Removing <=> my[p].delta = -1)
  BY DEF Adding, Removing, Uncounted
<1>3. Adding \subseteq Procs /\ Adding' \subseteq Procs /\ Removing \subseteq Procs /\ Removing' \subseteq Procs
  BY DEF Adding, Removing
<1>4. QED
  BY <1>1, <1>2, <1>3

\* The published table holds and counts what it did.
LEMMA SameAccounted ==
    ASSUME Accounted, NEW p \in Procs, Steps(p), current' = current,
           tables'[current].size = tables[current].size,
           Stored(tables'[current]) = Stored(tables[current]), ~Uncounted(p), ~Uncounted(p)'
    PROVE  Accounted'
  BY SameUncounted DEF Accounted

\* What a writer stores or deletes is counted later.
LEMMA WriteAccounted ==
    ASSUME Core, Accounted, NEW p \in Procs, Steps(p), current' = current,
           tables'[current].size = tables[current].size,
           pc[p] # "addSize", pc'[p] = "addSize", my'[p].table = current, NEW k,
           \/ /\ my'[p].delta = 1 /\ k \notin Stored(tables[current])
              /\ Stored(tables'[current]) = Stored(tables[current]) \cup {k}
           \/ /\ my'[p].delta = -1 /\ k \in Stored(tables[current])
              /\ Stored(tables'[current]) = Stored(tables[current]) \ {k}
    PROVE  Accounted'
<1> DEFINE s == tables[current].size
           a == Cardinality(Adding)
           d == Cardinality(Removing)
           n == Cardinality(Stored(tables[current]))
<1>1. /\ s \in Int /\ n \in Nat /\ a \in Nat /\ d \in Nat
      /\ IsFiniteSet(Adding) /\ IsFiniteSet(Removing) /\ IsFiniteSet(Stored(tables[current]))
  BY AccountsTyped
<1>2. s + a - d = n
  BY DEF Accounted
<1>3. CASE /\ my'[p].delta = 1 /\ k \notin Stored(tables[current])
           /\ Stored(tables'[current]) = Stored(tables[current]) \cup {k}
  <2>1. Adding' = Adding \cup {p} /\ p \notin Adding /\ Removing' = Removing
    BY <1>3, OneUncounted
  <2>2. Cardinality(Adding') = a + 1 /\ Cardinality(Removing') = d
        /\ Cardinality(Stored(tables'[current])) = n + 1
    BY <1>1, <1>3, <2>1, FS_AddElement
  <2> HIDE DEF s, a, d, n
  <2>3. s + (a + 1) - d = n + 1
    BY <1>1, <1>2
  <2>4. QED
    BY <2>2, <2>3 DEF Accounted, s
<1>4. CASE /\ my'[p].delta = -1 /\ k \in Stored(tables[current])
           /\ Stored(tables'[current]) = Stored(tables[current]) \ {k}
  <2>1. Removing' = Removing \cup {p} /\ p \notin Removing /\ Adding' = Adding
    BY <1>4, OneUncounted
  <2>2. Cardinality(Adding') = a /\ Cardinality(Removing') = d + 1
        /\ Cardinality(Stored(tables'[current])) = n - 1
    <3>1. Cardinality(Removing \cup {p}) = d + 1
      BY <1>1, <2>1, FS_AddElement
    <3>2. Cardinality(Stored(tables[current]) \ {k}) = n - 1
      BY <1>1, <1>4, FS_RemoveElement
    <3>3. QED
      BY <1>4, <2>1, <3>1, <3>2
  <2> HIDE DEF s, a, d, n
  <2>3. s + a - (d + 1) = n - 1
    BY <1>1, <1>2
  <2>4. QED
    BY <2>2, <2>3 DEF Accounted, s
<1>5. QED
  BY <1>3, <1>4

\* The keys of a table whose chains are the same, and of one that has been written to.
LEMMA SameStored ==
    ASSUME NEW t, NEW u, SameShape(t, u), u.buckets = t.buckets
    PROVE  Stored(u) = Stored(t)
<1>1. \A k \in Keys : Lacks(u, k) <=> Lacks(t, k)
  BY SameChain DEF SameKey
<1>2. QED
  BY <1>1 DEF Stored

Records(p, n) ==
    /\ Stored(tables'[current]) = IF n # None THEN Stored(tables[current]) \cup {my[p].key}
                                  ELSE Stored(tables[current]) \ {my[p].key}
    /\ tables'[current].size = tables[current].size /\ current' = current
    /\ my[p].table = current /\ Steps(p) /\ my[p].key \in Keys

\* A write adds its key to what is stored, or takes it away.
LEMMA WroteStored ==
    ASSUME Core, Core', NEW p \in Procs, NEW x, NEW m, NEW n, Wrote(p, x, m, n)
    PROVE  Records(p, n)
<1>1. /\ \A j \in Keys : j # my[p].key => (Lacks(tables'[current], j) <=> Lacks(tables[current], j))
      /\ n # None => ~Lacks(tables'[current], my[p].key)
      /\ n = None => Lacks(tables'[current], my[p].key)
  BY WriteShows DEF SameKey
<1>2. my[p].key \in Keys /\ my[p].table = current /\ Table(p) = tables[current]
  BY SettledIn DEF Wrote, Busy
<1>3. Stored(tables'[current]) = IF n # None THEN Stored(tables[current]) \cup {my[p].key}
                                 ELSE Stored(tables[current]) \ {my[p].key}
  BY <1>1, <1>2 DEF Stored
<1>4. QED
  BY <1>2, <1>3 DEF Wrote, Writes, Effect, Records

\* Another block: one key more, and one process that is to count it.
LEMMA SearchFullAccounts ==
    ASSUME Core, Core', Accounted, NEW p \in Procs, SearchFullWrote(p)
    PROVE  Accounted'
<1>1. Wrote(p, NextPlace(p), MyTag(p), <<my[p].key, p>>)
  BY DEF SearchFullWrote
<1>2. /\ pc[p] # "addSize" /\ pc'[p] = "addSize" /\ my'[p].delta = 1 /\ my'[p].table = my[p].table
      /\ Lacks(tables[current], my[p].key)
  BY DEF SearchFullWrote, Wrote, Settled, Admitted, Working
<1>3. /\ Stored(tables'[current]) = IF <<my[p].key, p>> # None THEN Stored(tables[current]) \cup {my[p].key}
                                    ELSE Stored(tables[current]) \ {my[p].key}
      /\ tables'[current].size = tables[current].size /\ current' = current
      /\ my[p].table = current /\ Steps(p) /\ my[p].key \in Keys
  BY <1>1, WroteStored DEF Records
<1>4. <<my[p].key, p>> # None
  <2>1. <<my[p].key, p>> \in Nodes
    BY <1>3 DEF Nodes
  <2>2. QED
    BY <2>1, NodeHasKey
<1>5. my[p].key \notin Stored(tables[current])
  BY <1>2 DEF Stored
<1>6. QED
  BY <1>2, <1>3, <1>4, <1>5, WriteAccounted

\* The tag of a slot: no key more.
LEMMA StoreMetaAccounts ==
    ASSUME Core, Core', Accounted, NEW p \in Procs, StoreMetaWrote(p)
    PROVE  Accounted'
<1>1. Wrote(p, my[p].place, MyTag(p), None)
  BY DEF StoreMetaWrote
<1>2. pc[p] # "addSize" /\ pc'[p] # "addSize" /\ Lacks(tables[current], my[p].key)
  BY DEF StoreMetaWrote, Wrote, Settled, Admitted, Working
<1>3. /\ Stored(tables'[current]) = Stored(tables[current]) \ {my[p].key}
      /\ tables'[current].size = tables[current].size /\ current' = current /\ Steps(p)
  BY <1>1, WroteStored DEF Records
<1>4. my[p].key \notin Stored(tables[current])
  BY <1>2 DEF Stored
<1>5. Stored(tables'[current]) = Stored(tables[current])
  BY <1>3, <1>4
<1>6. ~Uncounted(p) /\ ~Uncounted(p)'
  BY <1>2 DEF Uncounted
<1>7. QED
  BY <1>3, <1>5, <1>6, SameAccounted

\* A node: one key more and one process that is to count it, unless it had one before.
LEMMA StoreNodeAccounts ==
    ASSUME Core, Core', Accounted, NEW p \in Procs, StoreNodeWrote(p)
    PROVE  Accounted'
<1> DEFINE n == <<my[p].key, p>>
<1>1. Wrote(p, my[p].place, MyTag(p), n) /\ pc[p] # "addSize"
  BY DEF StoreNodeWrote, Wrote, Settled, Admitted, Working
<1>2. /\ Stored(tables'[current]) = IF n # None THEN Stored(tables[current]) \cup {my[p].key}
                                    ELSE Stored(tables[current]) \ {my[p].key}
      /\ tables'[current].size = tables[current].size /\ current' = current
      /\ my[p].table = current /\ Steps(p) /\ my[p].key \in Keys
  BY <1>1, WroteStored DEF Records
<1>3. n # None
  <2>1. n \in Nodes
    BY <1>2 DEF Nodes
  <2>2. QED
    BY <2>1, NodeHasKey
<1>4. CASE pc'[p] = "addSize" /\ my'[p] = my[p] /\ my[p].delta = 1 /\ Lacks(tables[current], my[p].key)
  <2>1. my[p].key \notin Stored(tables[current])
    BY <1>4 DEF Stored
  <2>2. QED
    BY <1>1, <1>2, <1>3, <1>4, <2>1, WriteAccounted
<1>5. CASE pc'[p] = "off" /\ ~Lacks(tables[current], my[p].key)
  <2>1. my[p].key \in Stored(tables[current])
    BY <1>2, <1>5 DEF Stored
  <2>2. Stored(tables'[current]) = Stored(tables[current])
    BY <1>2, <1>3, <2>1
  <2>3. ~Uncounted(p) /\ ~Uncounted(p)'
    BY <1>1, <1>5 DEF Uncounted
  <2>4. QED
    BY <1>2, <2>2, <2>3, SameAccounted
<1>6. QED
  BY <1>4, <1>5 DEF StoreNodeWrote

\* The tag of a node: the key is still stored.
LEMMA ClearMetaAccounts ==
    ASSUME Core, Core', Accounted, NEW p \in Procs, ClearMetaWrote(p)
    PROVE  Accounted'
<1>1. Wrote(p, my[p].place, EmptySlot, NodeAt(p)) /\ NodeAt(p) # None
  BY DEF ClearMetaWrote
<1>2. pc[p] # "addSize" /\ pc'[p] # "addSize" /\ ~Lacks(tables[current], my[p].key)
  BY DEF ClearMetaWrote
<1>3. /\ Stored(tables'[current]) = Stored(tables[current]) \cup {my[p].key}
      /\ tables'[current].size = tables[current].size /\ current' = current /\ Steps(p) /\ my[p].key \in Keys
  <2>1. Records(p, NodeAt(p))
    BY <1>1, WroteStored
  <2>2. QED
    BY <1>1, <2>1 DEF Records
<1>4. my[p].key \in Stored(tables[current])
  BY <1>2, <1>3 DEF Stored
<1>5. Stored(tables'[current]) = Stored(tables[current])
  BY <1>3, <1>4
<1>6. ~Uncounted(p) /\ ~Uncounted(p)'
  BY <1>2 DEF Uncounted
<1>7. QED
  BY <1>3, <1>5, <1>6, SameAccounted

\* The node: one key less, and one process that is to count it.
LEMMA ClearNodeAccounts ==
    ASSUME Core, Core', Accounted, NEW p \in Procs, ClearNodeWrote(p)
    PROVE  Accounted'
<1>1. Wrote(p, my[p].place, EmptySlot, None)
  BY DEF ClearNodeWrote
<1>2. /\ pc[p] # "addSize" /\ pc'[p] = "addSize" /\ ~Lacks(tables[current], my[p].key)
      /\ my'[p].delta = -1 /\ my'[p].table = my[p].table
  BY DEF ClearNodeWrote
<1>3. /\ Stored(tables'[current]) = Stored(tables[current]) \ {my[p].key}
      /\ tables'[current].size = tables[current].size /\ current' = current
      /\ my[p].table = current /\ Steps(p) /\ my[p].key \in Keys
  BY <1>1, WroteStored DEF Records
<1>4. my[p].key \in Stored(tables[current])
  BY <1>2, <1>3 DEF Stored
<1>5. QED
  BY <1>2, <1>3, <1>4, WriteAccounted

\* The change is counted, by the process that was to do it.
LEMMA AddSizeAccounts ==
    ASSUME Core, Accounted, NEW p \in Procs, AddSize(p)
    PROVE  Accounted'
<1>1. Still(p) /\ AddSizeBy(p) /\ Busy(p) /\ pc[p] = "addSize" /\ current \in DOMAIN tables
  BY AddSizeStill, TablesTyped DEF AddSize, Return, Step, Core
<1>2. Steps(p) /\ current' = current /\ pc'[p] # "addSize" /\ Counts(p, my[p].delta)
  BY <1>1 DEF AddSizeBy, Moves, Steps
<1>3. my[p].delta \in {-1, 1}
  BY <1>1 DEF Core, Acting, Acts
<1>4. Stored(tables'[current]) = Stored(tables[current])
  <2>1. SameShape(tables[current], tables'[current]) /\ tables'[current].buckets = tables[current].buckets
    BY <1>1, <1>2 DEF Counts, Table, SameShape
  <2>2. QED
    BY <2>1, SameStored
<1>5. CASE my[p].table # current
  <2>1. tables'[current] = tables[current]
    BY <1>1, <1>2, <1>5 DEF Counts
  <2>2. ~Uncounted(p) /\ ~Uncounted(p)'
    BY <1>2, <1>5 DEF Uncounted
  <2>3. QED
    BY <1>2, <2>1, <2>2, SameAccounted
<1>6. CASE my[p].table = current
  <2> DEFINE s == tables[current].size
             a == Cardinality(Adding)
             d == Cardinality(Removing)
             n == Cardinality(Stored(tables[current]))
  <2>1. s \in Int /\ n \in Nat /\ a \in Nat /\ d \in Nat /\ IsFiniteSet(Adding) /\ IsFiniteSet(Removing)
    BY AccountsTyped
  <2>2. s + a - d = n
    BY DEF Accounted
  <2>3. tables'[current].size = s + my[p].delta
    BY <1>2, <1>6 DEF Counts, Table
  <2>4. Uncounted(p)
    BY <1>1, <1>6 DEF Uncounted
  <2>5. CASE my[p].delta = 1
    <3>1. Adding' = Adding \ {p} /\ p \in Adding /\ Removing' = Removing
      BY <1>2, <2>4, <2>5, OneCounted
    <3>2. Cardinality(Adding') = a - 1 /\ Cardinality(Removing') = d
      BY <2>1, <3>1, FS_RemoveElement
    <3> HIDE DEF s, a, d, n
    <3>3. (s + 1) + (a - 1) - d = n
      BY <2>1, <2>2
    <3>4. QED
      BY <1>2, <1>4, <2>3, <2>5, <3>2, <3>3 DEF Accounted, n
  <2>6. CASE my[p].delta = -1
    <3>1. Removing' = Removing \ {p} /\ p \in Removing /\ Adding' = Adding
      BY <1>2, <2>4, <2>6, OneCounted
    <3>2. Cardinality(Removing') = d - 1 /\ Cardinality(Adding') = a
      BY <2>1, <3>1, FS_RemoveElement
    <3> HIDE DEF s, a, d, n
    <3>3. (s + -1) + a - (d - 1) = n
      BY <2>1, <2>2
    <3>4. QED
      BY <1>2, <1>4, <2>3, <2>6, <3>2, <3>3 DEF Accounted, n
  <2>7. QED
    BY <1>3, <2>5, <2>6
<1>7. QED
  BY <1>5, <1>6

\* The table that is published has been counted by the one who copied.
LEMMA PublishAccounts ==
    ASSUME Core, NEW p \in Procs, Publish(p)
    PROVE  Accounted'
<1>1. /\ PublishBy(p) /\ my[p].table = current /\ current < current' /\ Neat(tables[current'])
      /\ current' \in DOMAIN tables /\ current \in DOMAIN tables
  BY PublishStill, TablesTyped DEF Core
<1>2. Steps(p) /\ pc'[p] = "endResize" /\ tables' = tables
  BY <1>1 DEF PublishBy, Moves, Steps
<1>3. current \in Nat /\ current' \in Nat
  BY <1>1, TablesTyped DEF Core
<1>4. ASSUME NEW q \in Procs PROVE ~Uncounted(q)'
  <2>1. CASE q = p
    BY <1>2, <2>1 DEF Uncounted
  <2>2. CASE q # p
    <3>1. SUFFICES ASSUME pc[q] = "addSize" PROVE my[q].table # current'
      BY <1>2, <2>2 DEF Uncounted, Steps, Moves
    <3>2. my[q].table \in DOMAIN tables /\ my[q].table <= current
      BY <3>1, BusyWhen DEF Core, Phases
    <3>3. my[q].table \in Nat
      BY <3>2, TablesTyped DEF Core
    <3>4. QED
      BY <1>1, <1>3, <3>2, <3>3
  <2>3. QED
    BY <2>1, <2>2
<1>5. Adding' = {} /\ Removing' = {}
  BY <1>4 DEF Adding, Removing
<1>6. Cardinality(Adding') = 0 /\ Cardinality(Removing') = 0
  BY <1>5, FS_EmptySet
<1>7. tables'[current'].size = Cardinality(Stored(tables'[current'])) /\ tables'[current'].size \in Int
  BY <1>1, <1>2 DEF Neat, AllTables
<1> DEFINE s == tables'[current'].size
           n == Cardinality(Stored(tables'[current']))
<1> HIDE DEF s, n
<1>8. s + 0 - 0 = n
  BY <1>7 DEF s, n
<1>9. QED
  BY <1>6, <1>8 DEF Accounted, s, n

\* The other steps have nothing to do with it.
LEMMA ElseAccounts ==
    ASSUME Core, Accounted, NEW p \in Procs, Steps(p), current' = current,
           tables'[current] = tables[current], pc[p] # "addSize", pc'[p] # "addSize"
    PROVE  Accounted'
<1>1. ~Uncounted(p) /\ ~Uncounted(p)'
  BY DEF Uncounted
<1>2. QED
  BY <1>1, SameAccounted

--------------------------------------------------------------------------------
(* The invariant holds *)

\* A map that is filled when nobody else is there.
LEMMA InitTable ==
    ASSUME Init
    PROVE  \E t : /\ Neat(t) /\ tables = <<t>> /\ current = 1
                  /\ TableLen(t) \in {MinTableLen, 2 * MinTableLen}
                  /\ \E K \in SUBSET Keys : \A k \in Keys : Lookup(t, k) = IF k \in K THEN <<k, None>> ELSE None
<1>1. PICK K \in Held, h \in Hashes :
         LET len == IF Cardinality(K) > ShrinkThreshold(2 * MinTableLen) THEN 2 * MinTableLen
                    ELSE MinTableLen
         IN  tables = << FoldSet(LAMBDA k, t : Put(t, <<k, None>>), NewMapTable(len, h), K) >>
  BY DEF Init
<1> DEFINE len == IF Cardinality(K) > ShrinkThreshold(2 * MinTableLen) THEN 2 * MinTableLen
                  ELSE MinTableLen
           e == NewMapTable(len, h)
           t == FoldSet(LAMBDA k, u : Put(u, <<k, None>>), e, K)
<1>2. len \in Nat \ {0}
  <2>1. MinTableLen \in Nat \ {0} /\ 2 * MinTableLen \in Nat \ {0}
    BY HashMapAssumption
  <2>2. QED
    BY <2>1
<1>3. K \in SUBSET Keys
  BY HashMapAssumption
<1>4. tables = <<t>> /\ len \in {MinTableLen, 2 * MinTableLen}
  BY <1>1
<1> HIDE DEF len
<1>5. /\ Neat(e) /\ \A k \in Keys : Lookup(e, k) = None
      /\ DOMAIN e.buckets = 0..(len - 1)
  BY <1>2, NewMapTableNeat
<1> HIDE DEF e
<1>6. FilledSome(e, K, t)
  BY <1>3, <1>5, FillWorks
<1> HIDE DEF t
<1>7. Neat(t) /\ \A k \in Keys : Lookup(t, k) = IF k \in K THEN <<k, None>> ELSE None
  BY <1>6 DEF FilledSome
<1>8. TableLen(t) = len
  <2>1. DOMAIN t.buckets = 0..(len - 1)
    BY <1>5, <1>6 DEF FilledSome, SameShape
  <2>2. Cardinality(0..(len - 1)) = len
    BY <1>2, FS_Interval
  <2>3. QED
    BY <2>1, <2>2 DEF TableLen
<1>9. QED
  BY <1>3, <1>4, <1>7, <1>8 DEF Init

\* It is in order, and nobody is at it.
LEMMA InitCore ==
    ASSUME Init
    PROVE  Core
<1>1. PICK t : Neat(t) /\ tables = <<t>> /\ current = 1
  BY InitTable
<1>2. t \in AllTables /\ Tidy(t)
  BY <1>1 DEF Neat
<1>3. tables \in Seq(AllTables) /\ DOMAIN tables = {1} /\ tables[1] = t
  BY <1>1, <1>2
<1>4. \A p \in Procs : pc[p] = "off" /\ my[p] = NoCall
  BY DEF Init
<1>5. Types
  <2>1. pc \in [Procs -> Positions] /\ my \in [Procs -> Locals]
    BY NoCallTyped DEF Init, Positions
  <2>2. QED
    BY <1>1, <1>3, <2>1 DEF Init, Types
<1>6. Phases
  BY <1>4 DEF Phases, Phase, Computing, Working, Resizing
<1>7. Locking /\ OneResizes /\ Copied /\ Outpaced /\ InPublished /\ Acting
  BY <1>4 DEF Locking, OneResizes, Copied, Outpaced, InPublished, Acting, Acts, Settled, Admitted, Working, Resizing
<1>8. Placed
  BY <1>2, <1>3 DEF Placed, Tidy
<1>9. NobodyOversleeps
  BY DEF Init, NobodyOversleeps
<1>10. QED
  BY <1>5, <1>6, <1>7, <1>8, <1>9 DEF Core

\* The parts of the invariant that the lemmas speak of.
LEMMA InvIs ==
    Inv <=> Core /\ Shown /\ Reads /\ Ranges /\ SizeAccounted
  BY DEF Inv, Core

\* The invariant holds at first.
LEMMA InitInv ==
    ASSUME Init
    PROVE  Inv
<1>1. Core
  BY InitCore
<1>2. /\ \A p \in Procs : my[p].op = "none" /\ pc[p] = "off"
      /\ \A p \in Procs : seen[p] = {} /\ present[p] = {}
  BY DEF Init, NoCall
<1>3. Shown /\ Reads /\ Ranges
  BY <1>2 DEF Init, Shown, Reads, Ranges
<1>4. Accounted
  <2>1. PICK t : Neat(t) /\ tables = <<t>> /\ current = 1
    BY InitTable
  <2>2. tables[current] = t /\ t.size = Cardinality(Stored(t)) /\ t.size \in Int
    BY <2>1 DEF Neat, AllTables
  <2>3. Adding = {} /\ Removing = {}
    BY <1>2 DEF Adding, Removing, Uncounted
  <2>4. Cardinality(Adding) = 0 /\ Cardinality(Removing) = 0
    BY <2>3, FS_EmptySet
  <2>5. t.size + 0 - 0 = Cardinality(Stored(t))
    BY <2>2
  <2>6. QED
    BY <2>2, <2>4, <2>5 DEF Accounted
<1>5. QED
  BY <1>1, <1>3, <1>4, AccountedTells, InvIs

--------------------------------------------------------------------------------
(* The steps of a process that computes, as the abstract map sees them *)

\* A call of Compute that has not taken effect.
Pending(p) == /\ my[p].op \in {"set", "delete"} /\ my[p].hint # "shrink"
              /\ pc[p] \notin {"clearNode", "addSize"}

\* It goes on, and takes no effect.
Calm(p) == /\ Steps(p) /\ SameGot /\ pc[p] \in Computing /\ pc'[p] \in Computing \cup {"off"}
           /\ (Pending(p)' <=> Pending(p)) /\ (Pending(p) => my'[p].key = my[p].key)

\* It leaves the tables as they are.
Quiet(p) == /\ Steps(p) /\ SameTables /\ pc[p] \in Computing \ {"addSize"}
            /\ pc'[p] \in (Computing \ {"addSize"}) \cup {"off"}

\* Its call goes on.
LEMMA CalmCall ==
    ASSUME NEW p \in Procs, Steps(p), SameGot, SameCall(p), (my'[p].hint = "shrink" <=> my[p].hint = "shrink"),
           pc[p] \in Computing \ {"clearNode", "addSize"}, pc'[p] \in Computing \ {"clearNode", "addSize"}
    PROVE  Calm(p)
  BY DEF Calm, Pending, SameCall

\* Its call ends that has taken effect before.
LEMMA CalmEnd ==
    ASSUME NEW p \in Procs, Steps(p), SameGot, pc[p] \in Computing, ~Pending(p),
           pc'[p] = "off", my'[p] = NoCall
    PROVE  Calm(p)
<1>1. ~Pending(p)'
  BY DEF Pending, NoCall
<1>2. QED
  BY <1>1 DEF Calm

\* Another turn of the loop.
LEMMA LoadTableCalm ==
    ASSUME Core, NEW p \in Procs, LoadTable(p)
    PROVE  Calm(p) /\ Quiet(p)
<1>1. LoadTableBy(p)
  BY LoadTableDoes DEF Core
<1>2. /\ Steps(p) /\ pc[p] = "loadTable" /\ pc'[p] = "lock" /\ SameTables /\ SameGot
      /\ SameCall(p) /\ my'[p].hint = my[p].hint
  BY <1>1 DEF LoadTableBy, Moves, Steps, Outside, SameResize
<1>3. QED
  BY <1>2, CalmCall DEF Quiet, Computing, Working

\* It locks its bucket.
LEMMA LockBucketCalm ==
    ASSUME Core, NEW p \in Procs, LockBucket(p)
    PROVE  Calm(p) /\ Quiet(p)
<1>1. LockBucketBy(p)
  BY LockBucketDoes DEF Core
<1>2. /\ Steps(p) /\ pc[p] = "lock" /\ pc'[p] = "checkResize" /\ SameTables /\ SameGot /\ my'[p] = my[p]
  BY <1>1 DEF LockBucketBy, Moves, Steps
<1>3. QED
  BY <1>2, CalmCall DEF Quiet, Computing, Working, SameCall

\* It looks whether somebody resizes.
LEMMA CheckResizeCalm ==
    ASSUME Core, NEW p \in Procs, CheckResize(p)
    PROVE  Calm(p) /\ Quiet(p)
<1>1. CheckResizeBy(p)
  BY CheckResizeDoes DEF Core
<1>2. /\ Steps(p) /\ pc[p] = "checkResize" /\ pc'[p] \in {"checkTable", "wait"}
      /\ SameTables /\ SameGot /\ my'[p] = my[p]
  BY <1>1 DEF CheckResizeBy, CheckBy, LeaveBy, Moves, Steps
<1>3. QED
  BY <1>2, CalmCall DEF Quiet, Computing, Working, SameCall

\* It looks whether its table is the published one.
LEMMA CheckTableCalm ==
    ASSUME Core, NEW p \in Procs, CheckTable(p)
    PROVE  Calm(p) /\ Quiet(p)
<1>1. CheckTableBy(p)
  BY CheckTableDoes DEF Core
<1>2. /\ Steps(p) /\ pc[p] = "checkTable" /\ pc'[p] \in {"search", "loadTable"}
      /\ SameTables /\ SameGot /\ my'[p] = my[p]
  BY <1>1 DEF CheckTableBy, CheckBy, LeaveBy, Moves, Steps
<1>3. QED
  BY <1>2, CalmCall DEF Quiet, Computing, Working, SameCall

\* It has found its key.
LEMMA SearchFoundCalm ==
    ASSUME Core, NEW p \in Procs, SearchFound(p)
    PROVE  Calm(p) /\ Quiet(p)
<1>1. pc[p] = "search" /\ Busy(p)
  BY ComputesWith DEF SearchFound, Computing, Working
<1>2. SearchFoundBy(p)
  BY <1>1, SearchFoundDoes DEF Core
<1>3. /\ Steps(p) /\ pc'[p] \in {"clearMeta", "storeNode"} /\ SameTables /\ SameGot /\ SameCall(p)
      /\ my'[p].hint = my[p].hint
  BY <1>1, <1>2 DEF SearchFoundBy, Moves, Steps, Outside, SameResize
<1>4. QED
  BY <1>1, <1>3, CalmCall DEF Quiet, Computing, Working

\* It has found a slot for it.
LEMMA SearchVacantCalm ==
    ASSUME Core, NEW p \in Procs, SearchVacant(p)
    PROVE  Calm(p) /\ Quiet(p)
<1>1. pc[p] = "search" /\ Busy(p)
  BY ComputesWith DEF SearchVacant, Computing, Working
<1>2. SearchVacantBy(p)
  BY <1>1, SearchVacantDoes DEF Core
<1>3. /\ Steps(p) /\ pc'[p] = "storeMeta" /\ SameTables /\ SameGot /\ SameCall(p)
      /\ my'[p].hint = my[p].hint
  BY <1>2 DEF SearchVacantBy, Moves, Steps, Outside, SameResize
<1>4. QED
  BY <1>1, <1>3, CalmCall DEF Quiet, Computing, Working

\* It wants the table to grow.
LEMMA SearchCrowdedCalm ==
    ASSUME Core, NEW p \in Procs, SearchCrowded(p)
    PROVE  Calm(p) /\ Quiet(p)
<1>1. SearchCrowdedBy(p)
  BY SearchCrowdedDoes DEF Core
<1>2. /\ Steps(p) /\ pc[p] = "search" /\ pc'[p] = "casResizing" /\ SameTables /\ SameGot /\ SameCall(p)
      /\ my'[p].hint = "grow"
  BY <1>1 DEF SearchCrowdedBy, LeaveBy, Moves, Steps
<1>3. my[p].hint # "shrink"
  BY <1>2, ComputesWith DEF Computing, Working
<1>4. QED
  BY <1>2, <1>3, CalmCall DEF Quiet, Computing, Working

\* It looks whether the table may shrink; its call has taken effect before.
LEMMA ShrinkFastCalm ==
    ASSUME Core, NEW p \in Procs, ShrinkFast(p)
    PROVE  Calm(p) /\ Quiet(p)
<1>1. ShrinkFastBy(p)
  BY ShrinkFastDoes DEF Core
<1>2. /\ Steps(p) /\ pc[p] = "shrinkFast" /\ SameTables /\ SameGot
      /\ \/ pc'[p] = "off" /\ my'[p] = NoCall
         \/ pc'[p] = "casResizing" /\ my'[p] = my[p]
  BY <1>1 DEF ShrinkFastBy, Moves, Steps, Outside
<1>3. ~Pending(p)
  BY <1>2, ComputesWith DEF Computing, Pending
<1>4. QED
  BY <1>2, <1>3, CalmCall, CalmEnd DEF Quiet, Computing, SameCall

\* It wants to be the one that resizes.
LEMMA CasResizingCalm ==
    ASSUME Core, NEW p \in Procs, CasResizing(p)
    PROVE  Calm(p) /\ Quiet(p)
<1>1. CasResizingBy(p)
  BY CasResizingDoes DEF Core
<1>2. /\ Steps(p) /\ pc[p] = "casResizing" /\ pc'[p] \in {"wait", "newTable"} /\ SameTables /\ SameGot
      /\ my'[p] = my[p]
  BY <1>1 DEF CasResizingBy, Moves, Steps
<1>3. QED
  BY <1>2, CalmCall DEF Quiet, Computing, Resizing, SameCall

\* What a process does when a resize is over.
LEMMA GoesOnCalm ==
    ASSUME NEW p \in Procs, NEW from \in {"endResize", "wait"}, GoesOn(p, from), SameTables, SameGot
    PROVE  Calm(p) /\ Quiet(p)
<1>1. /\ Steps(p) /\ pc[p] = from
      /\ \/ pc'[p] = "off" /\ my'[p] = NoCall /\ my[p].hint = "shrink"
         \/ /\ pc'[p] = "loadTable" /\ SameCall(p)
            /\ (my'[p].hint = "shrink" <=> my[p].hint = "shrink")
  BY DEF GoesOn, Moves, Steps
<1>2. CASE pc'[p] = "off" /\ my'[p] = NoCall /\ my[p].hint = "shrink"
  <2>1. ~Pending(p)
    BY <1>2 DEF Pending
  <2>2. QED
    BY <1>1, <1>2, <2>1, CalmEnd DEF Quiet, Computing, Resizing
<1>3. CASE /\ pc'[p] = "loadTable" /\ SameCall(p)
           /\ (my'[p].hint = "shrink" <=> my[p].hint = "shrink")
  BY <1>1, <1>3, CalmCall DEF Quiet, Computing, Resizing
<1>4. QED
  BY <1>1, <1>2, <1>3

\* It ends its resize.
LEMMA EndResizeCalm ==
    ASSUME Core, NEW p \in Procs, EndResize(p)
    PROVE  Calm(p) /\ Quiet(p)
<1>1. EndResizeBy(p)
  BY EndResizeDoes DEF Core
<1>2. QED
  BY <1>1, GoesOnCalm DEF EndResizeBy

\* It waits for the resize of another, or goes on.
LEMMA WaitCalm ==
    ASSUME Core, NEW p \in Procs, WaitForResize(p)
    PROVE  Calm(p) /\ Quiet(p)
<1>1. WaitBy(p)
  BY WaitDoes DEF Core
<1>2. CASE GoesOn(p, "wait")
  BY <1>1, <1>2, GoesOnCalm DEF WaitBy
<1>3. CASE Moves(p, "wait", "asleep") /\ my'[p] = my[p]
  <2>1. Steps(p) /\ pc[p] = "wait" /\ pc'[p] = "asleep" /\ SameTables /\ SameGot
    BY <1>1, <1>3 DEF WaitBy, Moves, Steps
  <2>2. QED
    BY <1>3, <2>1, CalmCall DEF Quiet, Computing, SameCall
<1>4. QED
  BY <1>1, <1>2, <1>3 DEF WaitBy

\* It has been woken.
LEMMA WakeUpCalm ==
    ASSUME Core, NEW p \in Procs, WakeUp(p)
    PROVE  Calm(p) /\ Quiet(p)
<1>1. WakeUpBy(p)
  BY WakeUpDoes DEF Core
<1>2. Steps(p) /\ pc[p] = "asleep" /\ pc'[p] = "wait" /\ SameTables /\ SameGot /\ my'[p] = my[p]
  BY <1>1 DEF WakeUpBy, Moves, Steps, Outside
<1>3. QED
  BY <1>2, CalmCall DEF Quiet, Computing, SameCall

\* It allocates a table, or does not shrink.
LEMMA NewTableCalm ==
    ASSUME Core, NEW p \in Procs, NewTable(p)
    PROVE  /\ Calm(p) /\ current' = current /\ tables'[current] = tables[current] /\ Still(p)
           /\ pc[p] # "addSize" /\ pc'[p] # "addSize"
<1>1. NewTableBy(p) /\ Still(p) /\ tables'[current] = tables[current]
  BY NewTableStill
<1>2. /\ Steps(p) /\ pc[p] = "newTable" /\ pc'[p] \in {"endResize", "copy"} /\ current' = current /\ SameGot
      /\ SameCall(p) /\ my'[p].hint = my[p].hint
  BY <1>1 DEF NewTableBy, Moves, Steps, SameCall
<1>3. QED
  BY <1>1, <1>2, CalmCall DEF Computing, Resizing

\* It copies a bucket.
LEMMA CopyBucketCalm ==
    ASSUME Core, NEW p \in Procs, CopyBucket(p)
    PROVE  /\ Calm(p) /\ current' = current /\ tables'[current] = tables[current] /\ Still(p)
           /\ pc[p] # "addSize" /\ pc'[p] # "addSize"
<1>1. CopyBucketBy(p) /\ Still(p) /\ tables'[current] = tables[current]
  BY CopyBucketStill
<1>2. /\ Steps(p) /\ pc[p] = "copy" /\ pc'[p] = "copy" /\ current' = current /\ SameGot
      /\ SameCall(p) /\ my'[p].hint = my[p].hint
  BY <1>1 DEF CopyBucketBy, Moves, Steps
<1>3. QED
  BY <1>1, <1>2, CalmCall DEF Computing, Resizing

\* It publishes its table.
LEMMA PublishCalm ==
    ASSUME Core, NEW p \in Procs, Publish(p)
    PROVE  Calm(p) /\ Still(p)
<1>1. PublishBy(p) /\ Still(p)
  BY PublishStill
<1>2. Steps(p) /\ pc[p] = "copy" /\ pc'[p] = "endResize" /\ SameGot /\ my'[p] = my[p]
  BY <1>1 DEF PublishBy, Moves, Steps
<1>3. QED
  BY <1>1, <1>2, CalmCall DEF Computing, Resizing, SameCall

\* It counts its change.
LEMMA AddSizeCalm ==
    ASSUME Core, NEW p \in Procs, AddSize(p)
    PROVE  Calm(p) /\ Still(p)
<1>1. AddSizeBy(p) /\ Still(p)
  BY AddSizeStill
<1>2. /\ Steps(p) /\ pc[p] = "addSize" /\ SameGot
      /\ \/ pc'[p] = "off" /\ my'[p] = NoCall
         \/ pc'[p] = "shrinkFast" /\ my'[p] = my[p] /\ my[p].hint = "shrink"
  BY <1>1 DEF AddSizeBy, Moves, Steps
<1>3. ~Pending(p)
  BY <1>2 DEF Pending
<1>4. CASE pc'[p] = "off" /\ my'[p] = NoCall
  BY <1>1, <1>2, <1>3, <1>4, CalmEnd DEF Computing
<1>5. CASE pc'[p] = "shrinkFast" /\ my'[p] = my[p] /\ my[p].hint = "shrink"
  <2>1. ~Pending(p)'
    BY <1>5 DEF Pending
  <2>2. QED
    BY <1>1, <1>2, <1>3, <1>5, <2>1 DEF Calm, Computing
<1>6. QED
  BY <1>2, <1>4, <1>5

--------------------------------------------------------------------------------
(* Every step keeps the invariant *)

\* The same after a step.
LEMMA InvIsNext ==
    Inv' <=> Core' /\ Shown' /\ Reads' /\ Ranges' /\ SizeAccounted'
  BY DEF Inv, Core

\* What each action has to show.
LEMMA Advance ==
    ASSUME Inv, Core', Observe, NEW p \in Procs,
           Still(p) \/ \E x, m, n : Wrote(p, x, m, n),
           my'[p].op = "get" => Foreseen(p)', my'[p].op = "range" => Ranged(p)',
           Accounted'
    PROVE  Inv'
<1>1. Core /\ Shown /\ Reads /\ Ranges
  BY InvIs
<1>2. Shown'
  BY ShownKept
<1>3. Reads'
  BY <1>1, ReadsKept
<1>4. Ranges'
  BY <1>1, RangesKept
<1>5. SizeAccounted'
  BY AccountedTellsNext
<1>6. QED
  BY <1>2, <1>3, <1>4, <1>5, InvIsNext

\* A process that computes is no reader.
LEMMA ComputeAdvance ==
    ASSUME Inv, Core', Observe, NEW p \in Procs,
           Still(p) \/ \E x, m, n : Wrote(p, x, m, n),
           pc'[p] \in Computing \cup {"off"}, Accounted'
    PROVE  Inv'
<1>1. pc'[p] \notin {"meta", "nodes", "range"}
  BY DEF Computing, Working, Resizing
<1>2. my'[p].op # "get" /\ my'[p].op # "range"
  BY <1>1, OpTellsNext DEF Core
<1>3. QED
  BY <1>2, Advance

\* Nor does the size change while the tables do not.
LEMMA SameAccounts ==
    ASSUME Inv, NEW p \in Procs, Steps(p), SameTables, pc[p] # "addSize", pc'[p] # "addSize"
    PROVE  Accounted' /\ Still(p)
<1>1. Core /\ SizeAccounted
  BY InvIs
<1>2. Accounted
  BY <1>1, AccountedTells
<1>3. Still(p)
  BY <1>1, StillSame DEF Core
<1>4. QED
  BY <1>1, <1>2, <1>3, ElseAccounts DEF SameTables

\* A step of a process that computes and leaves the tables alone.
LEMMA QuietAdvance ==
    ASSUME Inv, Core', Observe, NEW p \in Procs, Quiet(p)
    PROVE  Inv'
<1>1. /\ Steps(p) /\ SameTables /\ pc[p] # "addSize" /\ pc'[p] # "addSize"
      /\ pc'[p] \in Computing \cup {"off"}
  BY DEF Quiet
<1>2. QED
  BY <1>1, SameAccounts, ComputeAdvance

\* The steps of the readers.
LEMMA ReadersAdvance ==
    ASSUME Inv, Observe, NEW p \in Procs, Get(p) \/ LoadMeta(p) \/ LoadNode(p) \/ LoadNext(p)
    PROVE  Inv'
<1>1. Core /\ Shown /\ Reads
  BY InvIs
<1>2. pc[p] \in {"meta", "nodes"} => my[p].op = "get" /\ Foreseen(p)
  BY <1>1, OpTells DEF Core, Reads
<1>3. CASE Get(p)
  <2>1. Core' /\ Foreseen(p)'
    BY <1>1, <1>3, GetKeeps, GetForesees
  <2>2. GetBy(p)
    BY <1>1, <1>3, GetDoes DEF Core
  <2>3. Steps(p) /\ SameTables /\ pc[p] = "off" /\ pc'[p] = "meta" /\ my'[p].op = "get"
    BY <2>2 DEF GetBy, Moves, Steps, Outside
  <2>4. QED
    BY <2>1, <2>3, SameAccounts, Advance
<1>4. CASE LoadMeta(p)
  <2>1. LoadMetaBy(p)
    BY <1>1, <1>4, LoadMetaDoes DEF Core
  <2>2. Steps(p) /\ SameTables /\ pc[p] = "meta" /\ pc'[p] = "nodes" /\ SameCall(p)
    BY <2>1 DEF LoadMetaBy, Moves, Steps, Outside
  <2>3. Core' /\ Foreseen(p)'
    BY <1>1, <1>2, <1>4, <2>2, LoadMetaKeeps, LoadMetaForesees
  <2>4. my'[p].op # "range"
    BY <1>2, <2>2 DEF SameCall
  <2>5. QED
    BY <2>2, <2>3, <2>4, SameAccounts, Advance
<1>5. CASE LoadNode(p)
  <2>1. Core' /\ (HitBy(p) \/ MissBy(p))
    BY <1>1, <1>5, LoadNodeKeeps, LoadNodeDoes DEF Core
  <2>2. CASE HitBy(p)
    <3>1. Steps(p) /\ SameTables /\ pc[p] = "nodes" /\ pc'[p] = "off" /\ my'[p] = NoCall
      BY <2>2 DEF HitBy, Moves, Steps, Outside
    <3>2. my'[p].op # "get" /\ my'[p].op # "range"
      BY <3>1 DEF NoCall
    <3>3. QED
      BY <2>1, <3>1, <3>2, SameAccounts, Advance
  <2>3. CASE MissBy(p)
    <3>1. Steps(p) /\ SameTables /\ pc[p] = "nodes" /\ pc'[p] = "nodes" /\ SameCall(p)
      BY <2>3 DEF MissBy, Moves, Steps, Outside
    <3>2. Foreseen(p)'
      BY <1>1, <1>2, <2>3, <3>1, MissForesees
    <3>3. my'[p].op # "range"
      BY <1>2, <3>1 DEF SameCall
    <3>4. QED
      BY <2>1, <3>1, <3>2, <3>3, SameAccounts, Advance
  <2>4. QED
    BY <2>1, <2>2, <2>3
<1>6. CASE LoadNext(p)
  <2>1. Core' /\ (NextBlockBy(p) \/ NoNodeBy(p))
    BY <1>1, <1>6, LoadNextKeeps, LoadNextDoes DEF Core
  <2>2. CASE NoNodeBy(p)
    <3>1. Steps(p) /\ SameTables /\ pc[p] = "nodes" /\ pc'[p] = "off" /\ my'[p] = NoCall
      BY <2>2 DEF NoNodeBy, Moves, Steps, Outside
    <3>2. my'[p].op # "get" /\ my'[p].op # "range"
      BY <3>1 DEF NoCall
    <3>3. QED
      BY <2>1, <3>1, <3>2, SameAccounts, Advance
  <2>3. CASE NextBlockBy(p)
    <3>1. Steps(p) /\ SameTables /\ pc[p] = "nodes" /\ pc'[p] = "meta" /\ SameCall(p)
      BY <2>3 DEF NextBlockBy, Moves, Steps, Outside
    <3>2. Foreseen(p)'
      BY <1>1, <1>2, <2>3, <3>1, NextBlockForesees
    <3>3. my'[p].op # "range"
      BY <1>2, <3>1 DEF SameCall
    <3>4. QED
      BY <2>1, <3>1, <3>2, <3>3, SameAccounts, Advance
  <2>4. QED
    BY <2>1, <2>2, <2>3
<1>7. QED
  BY <1>3, <1>4, <1>5, <1>6

\* The steps of a Range.
LEMMA RangesAdvance ==
    ASSUME Inv, Observe, NEW p \in Procs, BeginRange(p) \/ RangeBucket(p) \/ RangeEnd(p)
    PROVE  Inv'
<1>1. Core /\ Shown /\ Ranges
  BY InvIs
<1>2. CASE BeginRange(p)
  <2>1. Core' /\ Ranged(p)'
    BY <1>1, <1>2, BeginRangeKeeps, BeginRangeCounts
  <2>2. BeginRangeBy(p)
    BY <1>1, <1>2, BeginRangeDoes DEF Core
  <2>3. Steps(p) /\ SameTables /\ pc[p] = "off" /\ pc'[p] = "range" /\ my'[p].op = "range"
    BY <2>2 DEF BeginRangeBy, Moves, Steps, Outside
  <2>4. QED
    BY <2>1, <2>3, SameAccounts, Advance
<1>3. CASE RangeBucket(p)
  <2>1. pc[p] = "range"
    BY <1>3 DEF RangeBucket, Step
  <2>2. my[p].op = "range" /\ Ranged(p)
    BY <1>1, <2>1, OpTells DEF Core, Ranges
  <2>3. Ranged(p)' /\ \A i \in my[p].todo : Table(p).buckets[i] \in Chains
    BY <1>1, <1>3, <2>2, RangeBucketCounts
  <2>4. Core' /\ RangeBucketBy(p)
    BY <1>1, <1>3, <2>3, RangeBucketKeeps, RangeBucketDoes DEF Core
  <2>5. Steps(p) /\ SameTables /\ pc'[p] = "range" /\ SameCall(p)
    BY <2>4 DEF RangeBucketBy, Moves, Steps, Outside
  <2>6. my'[p].op # "get"
    BY <2>2, <2>5 DEF SameCall
  <2>7. QED
    BY <2>1, <2>3, <2>4, <2>5, <2>6, SameAccounts, Advance
<1>4. CASE RangeEnd(p)
  <2>1. Core' /\ RangeEndBy(p)
    BY <1>1, <1>4, RangeEndKeeps, RangeEndDoes DEF Core
  <2>2. Steps(p) /\ SameTables /\ pc[p] = "range" /\ pc'[p] = "off" /\ my'[p] = NoCall
    BY <2>1 DEF RangeEndBy, Moves, Steps, Outside
  <2>3. my'[p].op # "get" /\ my'[p].op # "range"
    BY <2>2 DEF NoCall
  <2>4. QED
    BY <2>1, <2>2, <2>3, SameAccounts, Advance
<1>5. QED
  BY <1>2, <1>3, <1>4

\* The steps of a process that computes, and leaves the tables as they are.
LEMMA QuietlyAdvance ==
    ASSUME Inv, Observe, NEW p \in Procs,
           \/ LoadTable(p) \/ LockBucket(p) \/ CheckResize(p) \/ CheckTable(p)
           \/ SearchFound(p) \/ SearchVacant(p) \/ SearchCrowded(p)
           \/ ShrinkFast(p) \/ CasResizing(p) \/ EndResize(p) \/ WaitForResize(p) \/ WakeUp(p)
    PROVE  Inv' /\ Calm(p) /\ Still(p)
<1>1. Core
  BY InvIs
<1>2. Core' /\ Calm(p) /\ Quiet(p)
  <2>1. CASE LoadTable(p)
    BY <1>1, <2>1, LoadTableKeeps, LoadTableCalm
  <2>2. CASE LockBucket(p)
    BY <1>1, <2>2, LockBucketKeeps, LockBucketCalm
  <2>3. CASE CheckResize(p)
    BY <1>1, <2>3, CheckResizeKeeps, CheckResizeCalm
  <2>4. CASE CheckTable(p)
    BY <1>1, <2>4, CheckTableKeeps, CheckTableCalm
  <2>5. CASE SearchFound(p)
    BY <1>1, <2>5, SearchFoundKeeps, SearchFoundCalm
  <2>6. CASE SearchVacant(p)
    BY <1>1, <2>6, SearchVacantKeeps, SearchVacantCalm
  <2>7. CASE SearchCrowded(p)
    BY <1>1, <2>7, SearchCrowdedKeeps, SearchCrowdedCalm
  <2>8. CASE ShrinkFast(p)
    BY <1>1, <2>8, ShrinkFastKeeps, ShrinkFastCalm
  <2>9. CASE CasResizing(p)
    BY <1>1, <2>9, CasResizingKeeps, CasResizingCalm
  <2>10. CASE EndResize(p)
    BY <1>1, <2>10, EndResizeKeeps, EndResizeCalm
  <2>11. CASE WaitForResize(p)
    BY <1>1, <2>11, WaitKeeps, WaitCalm
  <2>12. CASE WakeUp(p)
    BY <1>1, <2>12, WakeUpKeeps, WakeUpCalm
  <2>13. QED
    BY <2>1, <2>2, <2>3, <2>4, <2>5, <2>6, <2>7, <2>8, <2>9, <2>10, <2>11, <2>12
<1>3. Still(p)
  BY <1>1, <1>2, StillSame DEF Quiet, Core
<1>4. QED
  BY <1>2, <1>3, QuietAdvance

\* The steps of a resize, and of the counter.
LEMMA TablesAdvance ==
    ASSUME Inv, Observe, NEW p \in Procs, NewTable(p) \/ CopyBucket(p) \/ Publish(p) \/ AddSize(p)
    PROVE  Inv' /\ Calm(p) /\ Still(p)
<1>1. Core /\ Accounted
  BY InvIs, AccountedTells
<1>2. Core' /\ Calm(p) /\ Still(p) /\ Accounted'
  <2>1. CASE NewTable(p)
    <3>1. /\ Calm(p) /\ current' = current /\ tables'[current] = tables[current] /\ Still(p)
          /\ pc[p] # "addSize" /\ pc'[p] # "addSize"
      BY <1>1, <2>1, NewTableCalm
    <3>2. Accounted'
      BY <1>1, <3>1, ElseAccounts DEF Still
    <3>3. QED
      BY <1>1, <2>1, <3>1, <3>2, NewTableKeeps
  <2>2. CASE CopyBucket(p)
    <3>1. /\ Calm(p) /\ current' = current /\ tables'[current] = tables[current] /\ Still(p)
          /\ pc[p] # "addSize" /\ pc'[p] # "addSize"
      BY <1>1, <2>2, CopyBucketCalm
    <3>2. Accounted'
      BY <1>1, <3>1, ElseAccounts DEF Still
    <3>3. QED
      BY <1>1, <2>2, <3>1, <3>2, CopyBucketKeeps
  <2>3. CASE Publish(p)
    BY <1>1, <2>3, PublishCalm, PublishAccounts, PublishKeeps
  <2>4. CASE AddSize(p)
    BY <1>1, <2>4, AddSizeCalm, AddSizeAccounts, AddSizeKeeps
  <2>5. QED
    BY <2>1, <2>2, <2>3, <2>4
<1>3. pc'[p] \in Computing \cup {"off"}
  BY <1>2 DEF Calm
<1>4. Inv'
  BY <1>2, <1>3, ComputeAdvance
<1>5. QED
  BY <1>2, <1>4

\* A call takes effect: its key gets node n.
CommitsTo(p, n) ==
    /\ Steps(p) /\ SameGot /\ Pending(p) /\ ~Pending(p)' /\ pc'[p] \in Computing \cup {"off"}
    /\ contents' = [contents EXCEPT ![my[p].key] = n]
Commits(p) == \E n \in {contents[my[p].key], None, <<my[p].key, p>>} : CommitsTo(p, n)

\* Whoever holds the lock of its bucket has not taken effect, unless it is deleting.
LEMMA WorkingPends ==
    ASSUME Core, NEW p \in Procs, pc[p] \in Working \ {"clearNode"}
    PROVE  Pending(p) /\ pc[p] \in Computing /\ my[p].key \in Keys
<1>1. pc[p] \in Computing /\ pc[p] # "addSize"
  BY DEF Computing, Working
<1>2. QED
  BY <1>1, ComputesWith DEF Pending

\* A write that gives the key a node, or takes it away.
LEMMA WriteCommits ==
    ASSUME Inv, Core', Observe, NEW p \in Procs, NEW x, NEW m, NEW n, Wrote(p, x, m, n),
           Pending(p), ~Pending(p)', pc'[p] \in Computing \cup {"off"},
           n # None, m = MyTag(p) => n = <<my[p].key, p>>
    PROVE  Commits(p)
<1> DEFINE k == my[p].key
           v == IF m = MyTag(p) THEN n ELSE None
<1>1. Core /\ Shown
  BY InvIs
<1>2. /\ DOMAIN contents' = Keys /\ DOMAIN contents = Keys
      /\ \A j \in Keys : contents'[j] = IF j # k THEN contents[j] ELSE v
  BY <1>1, WroteContents
<1>3. contents = [j \in Keys |-> contents[j]] /\ contents' = [j \in Keys |-> contents'[j]]
  BY ObserveDoes, ContentsAre, <1>1 DEF Shown
<1>4. contents' = [contents EXCEPT ![k] = v]
  <2> HIDE DEF v
  <2>1. QED
    BY <1>2, <1>3
<1>5. v \in {None, <<k, p>>}
  OBVIOUS
<1>6. Steps(p) /\ SameGot
  BY DEF Wrote, Writes
<1> HIDE DEF v
<1>7. CommitsTo(p, v)
  BY <1>4, <1>6 DEF CommitsTo
<1>8. QED
  BY <1>5, <1>7 DEF Commits

\* A write that nobody sees.
LEMMA WriteHidden ==
    ASSUME Inv, Core', Observe, NEW p \in Procs, NEW x, NEW m, Wrote(p, x, m, None),
           Lookup(tables[current], my[p].key) = None
    PROVE  contents' = contents
<1>1. Core /\ Shown
  BY InvIs
<1>2. /\ DOMAIN contents' = Keys /\ DOMAIN contents = Keys /\ contents[my[p].key] = None
      /\ \A j \in Keys : contents'[j] = IF j # my[p].key THEN contents[j] ELSE None
  BY <1>1, WroteContents
<1>3. contents = [j \in Keys |-> contents[j]] /\ contents' = [j \in Keys |-> contents'[j]]
  BY ObserveDoes, ContentsAre, <1>1 DEF Shown
<1>4. \A j \in Keys : contents'[j] = contents[j]
  BY <1>2
<1>5. QED
  BY <1>3, <1>4

\* The writers.
LEMMA WritersAdvance ==
    ASSUME Inv, Observe, NEW p \in Procs,
           SearchFull(p) \/ StoreMeta(p) \/ StoreNode(p) \/ ClearMeta(p) \/ ClearNode(p)
    PROVE  Inv' /\ (Commits(p) \/ (Calm(p) /\ contents' = contents))
<1>1. Core /\ Accounted
  BY InvIs, AccountedTells
<1>2. ASSUME Core', Accounted', NEW x, NEW m, NEW n, Wrote(p, x, m, n), pc'[p] \in Computing \cup {"off"}
      PROVE  Inv'
  BY <1>2, ComputeAdvance
<1>3. CASE SearchFull(p)
  <2>1. Core' /\ SearchFullWrote(p)
    BY <1>1, <1>3, SearchFullKeeps, SearchFullWrites
  <2>2. Accounted'
    BY <1>1, <2>1, SearchFullAccounts
  <2>3. /\ Wrote(p, NextPlace(p), MyTag(p), <<my[p].key, p>>)
        /\ pc'[p] = "addSize" /\ pc[p] = "search"
    BY <1>3, <2>1 DEF SearchFullWrote, SearchFull
  <2>4. Pending(p) /\ ~Pending(p)' /\ pc'[p] \in Computing /\ <<my[p].key, p>> # None
    <3>1. Pending(p) /\ my[p].key \in Keys
      BY <1>1, <2>3, WorkingPends DEF Working
    <3>2. <<my[p].key, p>> \in Nodes
      BY <3>1 DEF Nodes
    <3>3. QED
      BY <2>3, <3>1, <3>2, NodeHasKey DEF Pending, Computing
  <2>5. Commits(p)
    BY <2>1, <2>3, <2>4, WriteCommits
  <2>6. QED
    BY <1>2, <2>1, <2>2, <2>3, <2>4, <2>5
<1>4. CASE StoreMeta(p)
  <2>1. Core' /\ StoreMetaWrote(p)
    BY <1>1, <1>4, StoreMetaKeeps, StoreMetaWrites
  <2>2. Accounted'
    BY <1>1, <2>1, StoreMetaAccounts
  <2>3. /\ Wrote(p, my[p].place, MyTag(p), None) /\ Lookup(tables[current], my[p].key) = None
        /\ pc'[p] = "storeNode" /\ pc[p] = "storeMeta" /\ my'[p] = my[p]
    BY <2>1 DEF StoreMetaWrote
  <2>4. pc'[p] \in Computing /\ Steps(p) /\ SameGot
    BY <2>3 DEF Computing, Working, Wrote, Writes
  <2>5. Calm(p)
    BY <2>3, <2>4, CalmCall DEF Computing, Working, SameCall
  <2>6. contents' = contents
    BY <2>1, <2>3, WriteHidden
  <2>7. QED
    BY <1>2, <2>1, <2>2, <2>3, <2>4, <2>5, <2>6
<1>5. CASE StoreNode(p)
  <2>1. Core' /\ StoreNodeWrote(p)
    BY <1>1, <1>5, StoreNodeKeeps, StoreNodeWrites
  <2>2. Accounted'
    BY <1>1, <2>1, StoreNodeAccounts
  <2>3. /\ Wrote(p, my[p].place, MyTag(p), <<my[p].key, p>>) /\ pc[p] = "storeNode"
        /\ pc'[p] = "addSize" \/ (pc'[p] = "off" /\ my'[p] = NoCall)
    BY <2>1 DEF StoreNodeWrote
  <2>4. Pending(p) /\ ~Pending(p)' /\ pc'[p] \in Computing \cup {"off"} /\ <<my[p].key, p>> # None
    <3>1. Pending(p) /\ my[p].key \in Keys
      BY <1>1, <2>3, WorkingPends DEF Working
    <3>2. <<my[p].key, p>> \in Nodes
      BY <3>1 DEF Nodes
    <3>3. ~Pending(p)'
      BY <2>3 DEF Pending, NoCall
    <3>4. QED
      BY <2>3, <3>1, <3>2, <3>3, NodeHasKey DEF Computing
  <2>5. Commits(p)
    BY <2>1, <2>3, <2>4, WriteCommits
  <2>6. QED
    BY <1>2, <2>1, <2>2, <2>3, <2>4, <2>5
<1>6. CASE ClearMeta(p)
  <2>1. Core' /\ ClearMetaWrote(p)
    BY <1>1, <1>6, ClearMetaKeeps, ClearMetaWrites
  <2>2. Accounted'
    BY <1>1, <2>1, ClearMetaAccounts
  <2>3. /\ Wrote(p, my[p].place, EmptySlot, NodeAt(p)) /\ NodeAt(p) # None
        /\ pc'[p] = "clearNode" /\ pc[p] = "clearMeta"
    BY <2>1 DEF ClearMetaWrote
  <2>4. Pending(p) /\ ~Pending(p)' /\ pc'[p] \in Computing
    <3>1. Pending(p)
      BY <1>1, <2>3, WorkingPends DEF Working
    <3>2. QED
      BY <2>3, <3>1 DEF Pending, Computing, Working
  <2>5. EmptySlot # MyTag(p)
    BY <1>1, <2>3, SettledIn, BusyTyped DEF Wrote, Core
  <2>6. Commits(p)
    BY <2>1, <2>3, <2>4, <2>5, WriteCommits
  <2>7. QED
    BY <1>2, <2>1, <2>2, <2>3, <2>4, <2>6
<1>7. CASE ClearNode(p)
  <2>1. Core' /\ ClearNodeWrote(p)
    BY <1>1, <1>7, ClearNodeKeeps, ClearNodeWrites
  <2>2. Accounted'
    BY <1>1, <2>1, ClearNodeAccounts
  <2>3. /\ Wrote(p, my[p].place, EmptySlot, None) /\ Lookup(tables[current], my[p].key) = None
        /\ pc'[p] = "addSize" /\ pc[p] = "clearNode"
    BY <2>1 DEF ClearNodeWrote
  <2>4. pc'[p] \in Computing /\ pc[p] \in Computing /\ Steps(p) /\ SameGot
    BY <2>3 DEF Computing, Working, Wrote, Writes
  <2>5. Calm(p)
    BY <2>3, <2>4 DEF Calm, Pending
  <2>6. contents' = contents
    BY <2>1, <2>3, WriteHidden
  <2>7. QED
    BY <1>2, <2>1, <2>2, <2>3, <2>4, <2>5, <2>6
<1>8. QED
  BY <1>3, <1>4, <1>5, <1>6, <1>7

\* A call of Compute begins.
LEMMA ComputeAdvances ==
    ASSUME Inv, Observe, NEW p \in Procs, Compute(p)
    PROVE  Inv' /\ Still(p) /\ ComputeBy(p)
<1>1. Core
  BY InvIs
<1>2. Core' /\ ComputeBy(p)
  BY <1>1, ComputeKeeps, ComputeDoes DEF Core
<1>3. Steps(p) /\ SameTables /\ pc[p] = "off" /\ pc'[p] = "lock"
  BY <1>2 DEF ComputeBy, Moves, Steps, Outside
<1>4. Accounted' /\ Still(p)
  BY <1>3, SameAccounts
<1>5. pc'[p] \in Computing
  BY <1>3 DEF Computing
<1>6. QED
  BY <1>2, <1>4, <1>5, ComputeAdvance

\* There is nothing to delete.
LEMMA SearchNothingAdvances ==
    ASSUME Inv, Observe, NEW p \in Procs, SearchNothing(p)
    PROVE  Inv' /\ Commits(p)
<1>1. Core /\ Shown
  BY InvIs
<1>2. Core' /\ SearchNothingBy(p)
  BY <1>1, SearchNothingKeeps, SearchNothingDoes DEF Core
<1>3. Steps(p) /\ SameTables /\ SameGot /\ pc[p] = "search" /\ pc'[p] = "off" /\ my'[p] = NoCall
  BY <1>2 DEF SearchNothingBy, LeaveBy, Moves, Steps
<1>4. Accounted' /\ Still(p)
  BY <1>3, SameAccounts
<1>5. contents' = contents /\ DOMAIN contents = Keys
  BY <1>1, <1>4, StillContents, ContentsAre DEF Shown
<1>6. Pending(p) /\ my[p].key \in Keys
  BY <1>1, <1>3, WorkingPends DEF Working
<1>7. ~Pending(p)'
  BY <1>3 DEF Pending, NoCall
<1>8. contents' = [contents EXCEPT ![my[p].key] = contents[my[p].key]]
  <2>1. contents = [j \in Keys |-> contents[j]]
    BY <1>1, ContentsAre DEF Shown
  <2>2. QED
    BY <1>5, <2>1
<1>9. CommitsTo(p, contents[my[p].key])
  BY <1>3, <1>6, <1>7, <1>8 DEF CommitsTo
<1>10. QED
  BY <1>2, <1>3, <1>4, <1>9, ComputeAdvance DEF Commits

\* A step that changes nothing.
LEMMA NothingChanges ==
    ASSUME Inv, UNCHANGED vars
    PROVE  Inv'
<1>1. /\ tables' = tables /\ current' = current /\ locks' = locks /\ resizing' = resizing
      /\ asleep' = asleep /\ pc' = pc /\ my' = my /\ got' = got
      /\ contents' = contents /\ seen' = seen /\ present' = present
  BY DEF vars, shared, history
<1>2. \A p : /\ Table(p)' = Table(p) /\ Chain(p)' = Chain(p) /\ MyBucket(p)' = MyBucket(p)
             /\ MyTag(p)' = MyTag(p) /\ Index(p)' = Index(p)
  BY <1>1 DEF Table, Chain, MyBucket, MyTag, Index
<1>3. \A p : /\ NodeAt(p)' = NodeAt(p) /\ MetaAt(p)' = MetaAt(p)
             /\ (Absent(p)' <=> Absent(p)) /\ (There(p)' <=> There(p))
  BY <1>1, <1>2 DEF NodeAt, MetaAt, Absent, There
<1>4. Types' /\ Phases' /\ Locking' /\ OneResizes' /\ InPublished' /\ NobodyOversleeps'
  BY <1>1, <1>2 DEF Inv, Types, Phases, Phase, Locking, OneResizes, InPublished, NobodyOversleeps
<1>5. Copied' /\ Outpaced'
  BY <1>1, <1>2 DEF Inv, Copied, CopiedBy, Outpaced
<1>6. Placed'
  <2>1. \A u, i, x : Disturbed(u, i, x)' <=> Disturbed(u, i, x)
    BY <1>1, <1>2 DEF Disturbed, Disturbs
  <2>2. QED
    BY <1>1, <2>1 DEF Inv, Placed
<1>7. Acting'
  BY <1>1, <1>2, <1>3 DEF Inv, Acting, Acts
<1>8. Shown'
  BY <1>1 DEF Inv, Shown, Contents
<1>9. Reads'
  BY <1>1, <1>2 DEF Inv, Reads, Foreseen, OfKey, Ahead, Marked
<1>10. Ranges'
  BY <1>1, <1>2 DEF Inv, Ranges, Ranged
<1>11. SizeAccounted'
  BY <1>1 DEF Inv, SizeAccounted, Uncounted
<1>12. QED
  BY <1>4, <1>5, <1>6, <1>7, <1>8, <1>9, <1>10, <1>11 DEF Inv

\* A step of any process.
LEMMA NextInv ==
    ASSUME Inv, [Next]_vars
    PROVE  Inv'
<1>1. CASE UNCHANGED vars
  BY <1>1, NothingChanges
<1>2. CASE Next
  <2>1. PICK p \in Procs :
        /\ \/ Get(p) \/ LoadMeta(p) \/ LoadNode(p) \/ LoadNext(p)
           \/ Compute(p) \/ LoadTable(p) \/ LockBucket(p) \/ CheckResize(p) \/ CheckTable(p)
           \/ SearchFound(p) \/ SearchNothing(p) \/ SearchVacant(p) \/ SearchCrowded(p) \/ SearchFull(p)
           \/ StoreMeta(p) \/ StoreNode(p) \/ ClearMeta(p) \/ ClearNode(p) \/ AddSize(p)
           \/ ShrinkFast(p) \/ CasResizing(p) \/ NewTable(p) \/ CopyBucket(p) \/ Publish(p)
           \/ EndResize(p) \/ WaitForResize(p) \/ WakeUp(p)
           \/ BeginRange(p) \/ RangeBucket(p) \/ RangeEnd(p)
        /\ Observe
    BY <1>2 DEF Next
  <2>2. CASE Get(p) \/ LoadMeta(p) \/ LoadNode(p) \/ LoadNext(p)
    BY <2>1, <2>2, ReadersAdvance
  <2>3. CASE Compute(p)
    BY <2>1, <2>3, ComputeAdvances
  <2>4. CASE SearchNothing(p)
    BY <2>1, <2>4, SearchNothingAdvances
  <2>5. CASE \/ LoadTable(p) \/ LockBucket(p) \/ CheckResize(p) \/ CheckTable(p)
             \/ SearchFound(p) \/ SearchVacant(p) \/ SearchCrowded(p)
             \/ ShrinkFast(p) \/ CasResizing(p) \/ EndResize(p) \/ WaitForResize(p) \/ WakeUp(p)
    BY <2>1, <2>5, QuietlyAdvance
  <2>6. CASE SearchFull(p) \/ StoreMeta(p) \/ StoreNode(p) \/ ClearMeta(p) \/ ClearNode(p)
    BY <2>1, <2>6, WritersAdvance
  <2>7. CASE NewTable(p) \/ CopyBucket(p) \/ Publish(p) \/ AddSize(p)
    BY <2>1, <2>7, TablesAdvance
  <2>8. CASE BeginRange(p) \/ RangeBucket(p) \/ RangeEnd(p)
    BY <2>1, <2>8, RangesAdvance
  <2>9. QED
    BY <2>1, <2>2, <2>3, <2>4, <2>5, <2>6, <2>7, <2>8
<1>3. QED
  BY <1>1, <1>2

\* The invariant holds always.
LEMMA AlwaysInv == Spec => []Inv
<1>1. Init => Inv
  BY InitInv
<1>2. Inv /\ [Next]_vars => Inv'
  BY NextInv
<1>3. QED
  BY <1>1, <1>2, PTL DEF Spec

--------------------------------------------------------------------------------
(* What follows from it *)

\* Nobody sleeps on a resize that is over: whoever found the flag set under resizeMu is in
\* the list of those that the end of the resize wakes.
THEOREM NobodyIsLeftAsleep == Spec => []NobodyOversleeps
<1>1. Inv => NobodyOversleeps
  BY DEF Inv
<1>2. QED
  BY <1>1, AlwaysInv, PTL

\* Compute is atomic: what its function has seen is what the map holds until the new node is
\* in place, however many tables are built and published meanwhile.
THEOREM ComputeIsAtomic == Spec => []ComputeAtomic
<1>1. ASSUME Inv, NEW p \in Procs, pc[p] \in {"storeMeta", "storeNode", "clearMeta"}
      PROVE  my[p].table = current /\ contents[my[p].key] = my[p].saw
  <2>1. Core /\ Shown
    BY <1>1, InvIs
  <2>2. pc[p] \in Settled
    BY <1>1 DEF Settled, Admitted, Working
  <2>3. my[p].table = current /\ my[p].key \in Keys /\ Table(p) = tables[current]
    BY <2>1, <2>2, SettledIn DEF Busy
  <2>4. contents[my[p].key] = Lookup(tables[current], my[p].key)
    BY <2>1, <2>3, ContentsAre DEF Shown
  <2>5. Acts(p)
    BY <2>1 DEF Core, Acting
  <2>6. CASE Absent(p)
    BY <2>1, <2>2, <2>3, <2>4, <2>6, LacksNone DEF Absent
  <2>7. CASE There(p)
    <3>1. /\ my[p].place \in Places(Chain(p)) /\ Node(Chain(p), my[p].place) = my[p].saw
          /\ my[p].saw # None /\ my[p].saw[1] = my[p].key /\ Meta(Chain(p), my[p].place) = MyTag(p)
      BY <1>1, <2>5, <2>7 DEF Acts, There, NodeAt, MetaAt
    <3>2. QED
      BY <2>1, <2>2, <2>3, <2>4, <3>1, OwnPlace
  <2>8. QED
    BY <1>1, <2>5, <2>6, <2>7 DEF Acts
<1>2. Inv => ComputeAtomic
  BY <1>1 DEF ComputeAtomic
<1>3. QED
  BY <1>2, AlwaysInv, PTL

\* Whoever takes the lock of a bucket of the published table finds it in order: the metadata
\* tells what the slots hold, and each key has one of them, in the bucket it belongs to.
THEOREM BucketsAreInOrder == Spec => []WellPlaced
<1>1. ASSUME Inv, NEW i \in DOMAIN tables[current].buckets, <<current, i>> \notin locks,
             NEW x \in Places(tables[current].buckets[i])
      PROVE  LET t == tables[current]
                 c == t.buckets[i]
             IN  IF Node(c, x) = None THEN Meta(c, x) = EmptySlot
                 ELSE /\ Meta(c, x) = Tag(t, Node(c, x)[1])
                      /\ BucketOf(t, Node(c, x)[1]) = i
                      /\ \A y \in Places(c) : Node(c, y) # None /\ Node(c, y)[1] = Node(c, x)[1] => x = y
  <2>1. Core /\ current \in DOMAIN tables
    BY <1>1, InvIs DEF Core, Types
  <2>2. /\ Alone(tables[current], i, tables[current].buckets[i])
        /\ Right(tables[current], tables[current].buckets[i], x)
    BY <1>1, <2>1, Unlocked DEF Core
  <2>3. QED
    BY <2>2 DEF Alone, Right
<1>2. Inv => WellPlaced
  BY <1>1 DEF WellPlaced
<1>3. QED
  BY <1>2, AlwaysInv, PTL

\* The counter of the published table is exact but for the writers that have still to add to
\* it: a resize starts from what it has copied, and nobody counts for a table twice.
THEOREM SizeIsAccounted == Spec => []SizeAccounted
<1>1. Inv => SizeAccounted
  BY DEF Inv
<1>2. QED
  BY <1>1, AlwaysInv, PTL

\* Range visits what has been in the map all the time, and nothing twice, in whatever order
\* keys come and go, and although another table may be published while it is at it.
THEOREM RangeIsComplete == Spec => []RangeComplete
<1>1. ASSUME Inv, NEW p \in Procs, pc[p] = "range", NEW k \in Keys
      PROVE  /\ my[p].visited[k] <= 1
             /\ my[p].todo = {} /\ k \in present[p] => my[p].visited[k] = 1
  <2>1. Core /\ Ranges
    BY <1>1, InvIs
  <2>2. Ranged(p)
    BY <1>1, <2>1, RangeIsAt DEF Ranges
  <2>3. QED
    BY <2>2 DEF Ranged
<1>2. Inv => RangeComplete
  BY <1>1 DEF RangeComplete
<1>3. QED
  BY <1>2, AlwaysInv, PTL

--------------------------------------------------------------------------------
(* The map implements AtomicMap *)

\* The key a process is reading, and the key it has still to write.
ReadingOf(p) == IF my[p].op = "get" THEN my[p].key ELSE None
WritingOf(p) == IF Pending(p) THEN my[p].key ELSE None

\* They are what the abstract map sees of a process.
LEMMA MappedAs ==
    /\ Reading = [p \in Procs |-> ReadingOf(p)] /\ Writing = [p \in Procs |-> WritingOf(p)]
    /\ Reading' = [p \in Procs |-> ReadingOf(p)'] /\ Writing' = [p \in Procs |-> WritingOf(p)']
  BY DEF Reading, Writing, ReadingOf, WritingOf, Pending

\* The others go on reading and writing what they were, and what they may answer gains
\* nothing unless their key is written.
LEMMA OthersMapped ==
    ASSUME Inv, Observe, NEW p \in Procs, Steps(p), NEW q \in Procs, q # p
    PROVE  /\ ReadingOf(q)' = ReadingOf(q) /\ WritingOf(q)' = WritingOf(q)
           /\ seen'[q] = IF ReadingOf(q) = None THEN seen[q]
                         ELSE seen[q] \cup {contents'[ReadingOf(q)]}
           /\ ReadingOf(q) # None => ReadingOf(q) \in Keys /\ contents[ReadingOf(q)] \in seen[q]
<1>1. Core /\ Shown /\ Reads
  BY InvIs
<1>2. my'[q] = my[q] /\ pc'[q] = pc[q]
  BY DEF Steps, Moves
<1>3. ReadingOf(q)' = ReadingOf(q) /\ WritingOf(q)' = WritingOf(q)
  BY <1>2 DEF ReadingOf, WritingOf, Pending
<1>4. CASE my[q].op = "get"
  <2>1. pc[q] \in {"meta", "nodes"}
    BY <1>1, <1>4, GetsAt
  <2>2. my[q].key \in Keys /\ Foreseen(q)
    BY <1>1, <1>4, <2>1, ReaderIsAt DEF Reads, Busy
  <2>3. ReadingOf(q) = my[q].key /\ my[q].key # None
    BY <1>4, <2>2, HashMapAssumption DEF ReadingOf
  <2>4. seen'[q] = seen[q] \cup {contents'[my[q].key]}
    BY <1>2, <1>4, <2>1, ObserveDoes
  <2>5. QED
    BY <1>3, <2>2, <2>3, <2>4 DEF Foreseen
<1>5. CASE my[q].op # "get"
  <2>1. ReadingOf(q) = None
    BY <1>5 DEF ReadingOf
  <2>2. seen'[q] = {} /\ seen[q] = {}
    BY <1>1, <1>2, <1>5, ObserveDoes DEF Shown
  <2>3. QED
    BY <1>3, <2>1, <2>2
<1>6. QED
  BY <1>4, <1>5

\* Nothing at all while the map holds what it held.
LEMMA OthersStay ==
    ASSUME Inv, Observe, NEW p \in Procs, Steps(p), contents' = contents, NEW q \in Procs, q # p
    PROVE  ReadingOf(q)' = ReadingOf(q) /\ WritingOf(q)' = WritingOf(q) /\ seen'[q] = seen[q]
<1>1. /\ ReadingOf(q)' = ReadingOf(q) /\ WritingOf(q)' = WritingOf(q)
      /\ seen'[q] = IF ReadingOf(q) = None THEN seen[q]
                    ELSE seen[q] \cup {contents'[ReadingOf(q)]}
      /\ ReadingOf(q) # None => contents[ReadingOf(q)] \in seen[q]
  BY OthersMapped
<1>2. ReadingOf(q) # None => contents'[ReadingOf(q)] \in seen[q]
  BY <1>1
<1>3. QED
  BY <1>1, <1>2

\* What a process may answer that reads nothing.
LEMMA NothingSeen ==
    ASSUME Inv, Observe, NEW p \in Procs, my[p].op # "get", my'[p].op # "get"
    PROVE  ReadingOf(p) = None /\ ReadingOf(p)' = None /\ seen[p] = {} /\ seen'[p] = {}
<1>1. Shown
  BY InvIs
<1>2. QED
  BY <1>1, ObserveDoes DEF Shown, ReadingOf

\* A step that the abstract map does not see.
LEMMA MapStutters ==
    ASSUME Inv, Observe, NEW p \in Procs, Steps(p), SameGot, contents' = contents,
           ReadingOf(p)' = ReadingOf(p), WritingOf(p)' = WritingOf(p), seen'[p] = seen[p]
    PROVE  UNCHANGED Abstract!mapVars
<1>1. ASSUME NEW q \in Procs
      PROVE  ReadingOf(q)' = ReadingOf(q) /\ WritingOf(q)' = WritingOf(q) /\ seen'[q] = seen[q]
  <2>1. CASE q = p
    BY <2>1
  <2>2. CASE q # p
    BY <2>2, OthersStay
  <2>3. QED
    BY <2>1, <2>2
<1>2. Reading' = Reading /\ Writing' = Writing
  BY <1>1, MappedAs
<1>3. seen = [q \in Procs |-> seen[q]] /\ seen' = [q \in Procs |-> seen'[q]]
  BY InvIs DEF Shown, Observe
<1>4. seen' = seen
  BY <1>1, <1>3
<1>5. QED
  BY <1>2, <1>4 DEF Abstract!mapVars, SameGot

\* A process that computes is no reader, before and after a step.
LEMMA ComputesUnseen ==
    ASSUME Inv, Inv', Observe, NEW p \in Procs, pc[p] \in Computing \cup {"off"},
           pc'[p] \in Computing \cup {"off"}
    PROVE  my[p].op # "get" /\ my'[p].op # "get"
<1>1. Core /\ Core'
  BY InvIs, InvIsNext
<1>2. pc[p] \notin {"meta", "nodes"} /\ pc'[p] \notin {"meta", "nodes"}
  BY DEF Computing, Working, Resizing
<1>3. QED
  BY <1>1, <1>2, OpTells, OpTellsNext DEF Core

\* Most of what Compute does, and all that a resize does.
LEMMA CalmStutters ==
    ASSUME Inv, Inv', Observe, NEW p \in Procs, Calm(p), contents' = contents
    PROVE  UNCHANGED Abstract!mapVars
<1>1. Steps(p) /\ SameGot /\ pc[p] \in Computing /\ pc'[p] \in Computing \cup {"off"}
  BY DEF Calm
<1>2. ReadingOf(p)' = ReadingOf(p) /\ seen'[p] = seen[p]
  BY <1>1, ComputesUnseen, NothingSeen
<1>3. WritingOf(p)' = WritingOf(p)
  BY DEF Calm, WritingOf
<1>4. QED
  BY <1>1, <1>2, <1>3, MapStutters

\* A call of Compute takes effect.
LEMMA CommitWrites ==
    ASSUME Inv, Inv', Observe, NEW p \in Procs, Commits(p)
    PROVE  Abstract!Write(p)
<1> DEFINE k == my[p].key
<1>1. PICK n \in {contents[k], None, <<k, p>>} : CommitsTo(p, n)
  BY DEF Commits
<1>2. /\ Steps(p) /\ SameGot /\ Pending(p) /\ ~Pending(p)' /\ pc'[p] \in Computing \cup {"off"}
      /\ contents' = [contents EXCEPT ![k] = n]
  BY <1>1 DEF CommitsTo
<1>3. Core /\ Shown
  BY InvIs
<1>4. pc[p] \in Computing
  BY <1>2, <1>3, OpTells DEF Core, Pending
<1>5. k \in Keys /\ k # None
  BY <1>3, <1>4, ComputesWith, HashMapAssumption
<1>6. DOMAIN contents = Keys
  BY <1>3, ContentsAre DEF Shown
<1>7. contents'[k] = n /\ \A j \in Keys : j # k => contents'[j] = contents[j]
  BY <1>2, <1>5, <1>6
<1>8. ReadingOf(p) = None /\ ReadingOf(p)' = None /\ seen[p] = {} /\ seen'[p] = {}
  BY <1>2, <1>4, ComputesUnseen, NothingSeen
<1>9. WritingOf(p) = k /\ WritingOf(p)' = None
  BY <1>2 DEF WritingOf
<1>10. ASSUME NEW q \in Procs
       PROVE  /\ ReadingOf(q)' = ReadingOf(q)
              /\ WritingOf(q)' = IF q = p THEN None ELSE WritingOf(q)
              /\ seen'[q] = IF ReadingOf(q) = k THEN seen[q] \cup {n} ELSE seen[q]
  <2>1. CASE q = p
    BY <1>5, <1>8, <1>9, <2>1
  <2>2. CASE q # p
    <3>1. /\ ReadingOf(q)' = ReadingOf(q) /\ WritingOf(q)' = WritingOf(q)
          /\ seen'[q] = IF ReadingOf(q) = None THEN seen[q]
                        ELSE seen[q] \cup {contents'[ReadingOf(q)]}
          /\ ReadingOf(q) # None => ReadingOf(q) \in Keys /\ contents[ReadingOf(q)] \in seen[q]
      BY <1>2, <2>2, OthersMapped
    <3>2. CASE ReadingOf(q) = None
      BY <1>5, <2>2, <3>1, <3>2
    <3>3. CASE ReadingOf(q) # None /\ ReadingOf(q) # k
      <4>1. contents'[ReadingOf(q)] = contents[ReadingOf(q)]
        BY <1>7, <3>1, <3>3
      <4>2. seen'[q] = seen[q]
        BY <3>1, <3>3, <4>1
      <4>3. QED
        BY <2>2, <3>1, <3>3, <4>2
    <3>4. CASE ReadingOf(q) = k
      BY <1>5, <1>7, <2>2, <3>1, <3>4
    <3>5. QED
      BY <3>2, <3>3, <3>4
  <2>3. QED
    BY <2>1, <2>2
<1>11. Reading' = Reading /\ Writing[p] = k /\ Writing' = [Writing EXCEPT ![p] = None]
  <2>1. Reading' = Reading
    BY <1>10, MappedAs
  <2>2. Writing[p] = k
    BY <1>9, MappedAs
  <2>3. Writing' = [Writing EXCEPT ![p] = None]
    BY <1>10, MappedAs
  <2>4. QED
    BY <2>1, <2>2, <2>3
<1>12. seen' = [q \in Procs |-> IF Reading[q] = k THEN seen[q] \cup {n} ELSE seen[q]]
  <2>1. seen' = [q \in Procs |-> seen'[q]]
    BY DEF Observe
  <2>2. \A q \in Procs : Reading[q] = ReadingOf(q)
    BY MappedAs
  <2>3. QED
    BY <1>10, <2>1, <2>2
<1> HIDE DEF k
<1>13. QED
  BY <1>1, <1>2, <1>5, <1>11, <1>12 DEF Abstract!Write, SameGot

\* A call of Compute begins.
LEMMA ComputeBegins ==
    ASSUME Inv, Inv', Observe, NEW p \in Procs, Still(p), ComputeBy(p)
    PROVE  Abstract!BeginWrite(p)
<1>1. Core /\ Shown
  BY InvIs
<1>2. /\ Steps(p) /\ SameGot /\ pc[p] = "off" /\ pc'[p] = "lock"
      /\ my'[p].op \in {"set", "delete"} /\ my'[p].key \in Keys /\ my'[p].hint = "none"
  BY DEF ComputeBy, Moves, Steps
<1>3. contents' = contents
  BY <1>1, StillContents
<1>4. ReadingOf(p)' = ReadingOf(p) /\ seen'[p] = seen[p]
  BY <1>2, ComputesUnseen, NothingSeen DEF Computing
<1>5. WritingOf(p) = None /\ WritingOf(p)' = my'[p].key
  <2>1. my[p] = NoCall
    BY <1>1, <1>2 DEF Core, Phases, Phase
  <2>2. ~Pending(p) /\ Pending(p)'
    BY <1>2, <2>1 DEF Pending, NoCall
  <2>3. QED
    BY <2>2 DEF WritingOf
<1>6. ASSUME NEW q \in Procs
      PROVE  /\ ReadingOf(q)' = ReadingOf(q) /\ seen'[q] = seen[q]
             /\ WritingOf(q)' = IF q = p THEN my'[p].key ELSE WritingOf(q)
  <2>1. CASE q = p
    BY <1>4, <1>5, <2>1
  <2>2. CASE q # p
    BY <1>2, <1>3, <2>2, OthersStay
  <2>3. QED
    BY <2>1, <2>2
<1>7. Reading' = Reading
  BY <1>6, MappedAs
<1>8. Writing[p] = None /\ Writing' = [Writing EXCEPT ![p] = my'[p].key]
  BY <1>5, <1>6, MappedAs
<1>9. seen' = seen
  <2>1. seen = [q \in Procs |-> seen[q]] /\ seen' = [q \in Procs |-> seen'[q]]
    BY <1>1 DEF Shown, Observe
  <2>2. QED
    BY <1>6, <2>1
<1>10. QED
  BY <1>2, <1>3, <1>7, <1>8, <1>9 DEF Abstract!BeginWrite, SameGot

\* A reader begins.
LEMMA GetReads ==
    ASSUME Inv, Observe, NEW p \in Procs, Get(p)
    PROVE  Abstract!Read(p)
<1>1. Core /\ Shown
  BY InvIs
<1>2. GetBy(p)
  BY <1>1, GetDoes DEF Core
<1>3. /\ Steps(p) /\ SameTables /\ SameGot /\ pc[p] = "off" /\ my'[p].op = "get" /\ my'[p].key \in Keys
  BY <1>2 DEF GetBy, Moves, Steps, Outside
<1>4. contents' = contents
  BY <1>1, <1>3, StillSame, StillContents DEF Core
<1>5. my[p] = NoCall
  BY <1>1, <1>3 DEF Core, Phases, Phase
<1>6. ReadingOf(p) = None /\ ReadingOf(p)' = my'[p].key
  BY <1>3, <1>5 DEF ReadingOf, NoCall
<1>7. WritingOf(p) = None /\ WritingOf(p)' = None
  BY <1>3, <1>5 DEF WritingOf, Pending, NoCall
<1>8. seen'[p] = {contents[my'[p].key]}
  BY <1>3, <1>4, ObserveDoes
<1>9. ASSUME NEW q \in Procs
      PROVE  /\ ReadingOf(q)' = IF q = p THEN my'[p].key ELSE ReadingOf(q)
             /\ WritingOf(q)' = WritingOf(q)
             /\ seen'[q] = IF q = p THEN {contents[my'[p].key]} ELSE seen[q]
  <2>1. CASE q = p
    BY <1>6, <1>7, <1>8, <2>1
  <2>2. CASE q # p
    BY <1>3, <1>4, <2>2, OthersStay
  <2>3. QED
    BY <2>1, <2>2
<1>10. Reading[p] = None /\ Reading' = [Reading EXCEPT ![p] = my'[p].key]
  BY <1>6, <1>9, MappedAs
<1>11. Writing' = Writing
  BY <1>9, MappedAs
<1>12. seen' = [seen EXCEPT ![p] = {contents[my'[p].key]}]
  <2>1. seen = [q \in Procs |-> seen[q]] /\ seen' = [q \in Procs |-> seen'[q]]
    BY <1>1 DEF Shown, Observe
  <2>2. QED
    BY <1>9, <2>1
<1>13. QED
  BY <1>3, <1>4, <1>10, <1>11, <1>12 DEF Abstract!Read, SameGot

\* A reader answers n, and has done.
AnswersWith(p, n) ==
    /\ Steps(p) /\ SameTables /\ pc[p] = "nodes" /\ my'[p] = NoCall
    /\ got' = [got EXCEPT ![p] = n]

\* That is an answer of the abstract map, if its key has been n meanwhile.
LEMMA ReaderAnswers ==
    ASSUME Inv, Observe, NEW p \in Procs, NEW n \in seen[p], AnswersWith(p, n)
    PROVE  Abstract!Answer(p)
<1>1. Core /\ Shown
  BY InvIs
<1>2. Steps(p) /\ SameTables /\ pc[p] = "nodes" /\ my'[p] = NoCall /\ got' = [got EXCEPT ![p] = n]
  BY DEF AnswersWith
<1>3. contents' = contents
  BY <1>1, <1>2, StillSame, StillContents DEF Core
<1>4. my[p].op = "get" /\ my[p].key \in Keys /\ my[p].key # None
  BY <1>1, <1>2, ReaderIsAt, HashMapAssumption DEF Busy
<1>5. ReadingOf(p) # None /\ ReadingOf(p)' = None
  BY <1>2, <1>4 DEF ReadingOf, NoCall
<1>6. WritingOf(p) = None /\ WritingOf(p)' = None
  BY <1>2, <1>4 DEF WritingOf, Pending, NoCall
<1>7. seen'[p] = {}
  <2>1. my'[p].op # "get"
    BY <1>2 DEF NoCall
  <2>2. QED
    BY <2>1, ObserveDoes
<1>8. ASSUME NEW q \in Procs
      PROVE  /\ ReadingOf(q)' = IF q = p THEN None ELSE ReadingOf(q)
             /\ WritingOf(q)' = WritingOf(q)
             /\ seen'[q] = IF q = p THEN {} ELSE seen[q]
  <2>1. CASE q = p
    BY <1>5, <1>6, <1>7, <2>1
  <2>2. CASE q # p
    BY <1>2, <1>3, <2>2, OthersStay
  <2>3. QED
    BY <2>1, <2>2
<1>9. Reading[p] # None /\ Reading' = [Reading EXCEPT ![p] = None]
  BY <1>5, <1>8, MappedAs
<1>10. Writing' = Writing
  BY <1>8, MappedAs
<1>11. seen' = [seen EXCEPT ![p] = {}]
  <2>1. seen = [q \in Procs |-> seen[q]] /\ seen' = [q \in Procs |-> seen'[q]]
    BY <1>1 DEF Shown, Observe
  <2>2. QED
    BY <1>8, <2>1
<1>12. QED
  BY <1>2, <1>3, <1>9, <1>10, <1>11 DEF Abstract!Answer

\* A node that a reader comes to is one that its key has had meanwhile.
LEMMA HitAnswers ==
    ASSUME Inv, Observe, NEW p \in Procs, HitBy(p), Foreseen(p)
    PROVE  Abstract!Answer(p)
<1>1. Core
  BY InvIs
<1>2. Steps(p) /\ SameTables /\ pc[p] = "nodes" /\ my'[p] = NoCall
  BY DEF HitBy, Moves, Steps, Outside
<1>3. PICK s \in my[p].marked :
         OfKey(p, <<my[p].block, s>>) /\ got' = [got EXCEPT ![p] = Node(Chain(p), <<my[p].block, s>>)]
  BY DEF HitBy
<1> DEFINE x == <<my[p].block, s>>
<1>4. x \in Places(Chain(p))
  BY <1>1, <1>2, <1>3, ReaderIsAt
<1>5. x[1] = my[p].block /\ x[2] = s
  OBVIOUS
<1> HIDE DEF x
<1>6. Marked(p, x)
  BY <1>2, <1>3, <1>5 DEF Marked
<1>7. OfKey(p, x) /\ got' = [got EXCEPT ![p] = Node(Chain(p), x)]
  BY <1>3 DEF x
<1>8. Node(Chain(p), x) \in seen[p]
  BY <1>4, <1>6, <1>7 DEF Foreseen
<1>9. AnswersWith(p, Node(Chain(p), x))
  BY <1>2, <1>7 DEF AnswersWith
<1>10. QED
  BY <1>8, <1>9, ReaderAnswers

\* A reader that comes to the end of its chain has a moment to tell of when there was none.
LEMMA NoNodeAnswers ==
    ASSUME Inv, Observe, NEW p \in Procs, NoNodeBy(p), Foreseen(p)
    PROVE  Abstract!Answer(p)
<1>1. Core
  BY InvIs
<1>2. /\ Steps(p) /\ SameTables /\ pc[p] = "nodes" /\ my'[p] = NoCall
      /\ my[p].marked = {} /\ ~(my[p].block < Len(Chain(p))) /\ got' = [got EXCEPT ![p] = None]
  BY DEF NoNodeBy, Moves, Steps, Outside
<1>3. Chain(p) \in Chains /\ my[p].block \in 1..Len(Chain(p))
  BY <1>1, <1>2, ReaderIsAt
<1>4. Len(Chain(p)) \in Nat /\ \A x \in Places(Chain(p)) : x[1] \in 1..Len(Chain(p))
  BY <1>3, PlacesTyped
<1>5. \A x \in Places(Chain(p)) : ~(x[1] > my[p].block)
  BY <1>2, <1>3, <1>4
<1>6. \A x \in Places(Chain(p)) : ~Ahead(p, x)
  BY <1>2, <1>5 DEF Ahead
<1>7. None \in seen[p]
  BY <1>6 DEF Foreseen
<1>8. AnswersWith(p, None)
  BY <1>2 DEF AnswersWith
<1>9. QED
  BY <1>7, <1>8, ReaderAnswers

\* A reader that goes on is not seen.
LEMMA ReaderStutters ==
    ASSUME Inv, Observe, NEW p \in Procs, Steps(p), SameTables, SameGot, SameCall(p),
           my'[p].table = my[p].table, pc[p] \in {"meta", "nodes"}, Foreseen(p)
    PROVE  UNCHANGED Abstract!mapVars
<1>1. Core /\ Shown
  BY InvIs
<1>2. seen'[p] = seen[p] /\ contents' = contents
  BY <1>1, ReaderStays
<1>3. my[p].op = "get" /\ my'[p].op = "get" /\ my'[p].key = my[p].key
  BY <1>1, ReaderIsAt DEF SameCall
<1>4. ReadingOf(p)' = ReadingOf(p) /\ WritingOf(p)' = WritingOf(p)
  BY <1>3 DEF ReadingOf, WritingOf, Pending
<1>5. QED
  BY <1>2, <1>4, MapStutters

\* The steps of the readers, as the abstract map sees them.
LEMMA ReadersMap ==
    ASSUME Inv, Observe, NEW p \in Procs, Get(p) \/ LoadMeta(p) \/ LoadNode(p) \/ LoadNext(p)
    PROVE  Abstract!Read(p) \/ Abstract!Answer(p) \/ UNCHANGED Abstract!mapVars
<1>1. Core /\ Reads
  BY InvIs
<1>2. pc[p] \in {"meta", "nodes"} => Foreseen(p)
  BY <1>1, OpTells DEF Core, Reads
<1>3. CASE Get(p)
  BY <1>3, GetReads
<1>4. CASE LoadMeta(p)
  <2>1. LoadMetaBy(p)
    BY <1>1, <1>4, LoadMetaDoes DEF Core
  <2>2. /\ Steps(p) /\ SameTables /\ SameGot /\ pc[p] = "meta" /\ SameCall(p)
        /\ my'[p].table = my[p].table
    BY <2>1 DEF LoadMetaBy, Moves, Steps, Outside
  <2>3. QED
    BY <1>2, <2>2, ReaderStutters
<1>5. CASE LoadNode(p)
  <2>1. HitBy(p) \/ MissBy(p)
    BY <1>1, <1>5, LoadNodeDoes DEF Core
  <2>2. CASE HitBy(p)
    <3>1. pc[p] = "nodes"
      BY <2>2 DEF HitBy, Moves
    <3>2. QED
      BY <1>2, <2>2, <3>1, HitAnswers
  <2>3. CASE MissBy(p)
    <3>1. /\ Steps(p) /\ SameTables /\ SameGot /\ pc[p] = "nodes" /\ SameCall(p)
          /\ my'[p].table = my[p].table
      BY <2>3 DEF MissBy, Moves, Steps, Outside
    <3>2. QED
      BY <1>2, <3>1, ReaderStutters
  <2>4. QED
    BY <2>1, <2>2, <2>3
<1>6. CASE LoadNext(p)
  <2>1. NextBlockBy(p) \/ NoNodeBy(p)
    BY <1>1, <1>6, LoadNextDoes DEF Core
  <2>2. CASE NoNodeBy(p)
    <3>1. pc[p] = "nodes"
      BY <2>2 DEF NoNodeBy, Moves
    <3>2. QED
      BY <1>2, <2>2, <3>1, NoNodeAnswers
  <2>3. CASE NextBlockBy(p)
    <3>1. /\ Steps(p) /\ SameTables /\ SameGot /\ pc[p] = "nodes" /\ SameCall(p)
          /\ my'[p].table = my[p].table
      BY <2>3 DEF NextBlockBy, Moves, Steps, Outside
    <3>2. QED
      BY <1>2, <3>1, ReaderStutters
  <2>4. QED
    BY <2>1, <2>2, <2>3
<1>7. QED
  BY <1>3, <1>4, <1>5, <1>6

\* What neither reads nor computes is not seen.
LEMMA OtherwiseStutters ==
    ASSUME Inv, Inv', Observe, NEW p \in Procs, Steps(p), SameTables, SameGot,
           pc[p] \in {"off", "range"}, pc'[p] \in {"off", "range"}
    PROVE  UNCHANGED Abstract!mapVars
<1>1. Core /\ Core' /\ Shown
  BY InvIs, InvIsNext
<1>2. /\ pc[p] \notin {"meta", "nodes"} /\ pc'[p] \notin {"meta", "nodes"}
      /\ pc[p] \notin Computing /\ pc'[p] \notin Computing
  BY DEF Computing, Working, Resizing
<1>3. /\ my[p].op # "get" /\ my'[p].op # "get"
      /\ my[p].op \notin {"set", "delete"} /\ my'[p].op \notin {"set", "delete"}
  BY <1>1, <1>2, OpTells, OpTellsNext DEF Core
<1>4. contents' = contents
  BY <1>1, StillSame, StillContents DEF Core
<1>5. ReadingOf(p)' = ReadingOf(p) /\ seen'[p] = seen[p]
  BY <1>3, NothingSeen
<1>6. WritingOf(p)' = WritingOf(p)
  BY <1>3 DEF WritingOf, Pending
<1>7. QED
  BY <1>4, <1>5, <1>6, MapStutters

\* The steps of a Range.
LEMMA RangesMap ==
    ASSUME Inv, Observe, NEW p \in Procs, BeginRange(p) \/ RangeBucket(p) \/ RangeEnd(p)
    PROVE  UNCHANGED Abstract!mapVars
<1>1. Inv'
  BY RangesAdvance
<1>2. Core
  BY InvIs
<1>3. /\ Steps(p) /\ SameTables /\ SameGot
      /\ pc[p] \in {"off", "range"} /\ pc'[p] \in {"off", "range"}
  <2>1. CASE BeginRange(p)
    BY <1>2, <2>1, BeginRangeDoes DEF Core, BeginRangeBy, Moves, Steps, Outside
  <2>2. CASE RangeBucket(p)
    <3>1. pc[p] = "range" /\ pc'[p] = "range" /\ Ranged(p)
      <4>1. pc[p] = "range"
        BY <2>2 DEF RangeBucket, Step
      <4>2. my[p].op = "range"
        BY <1>2, <4>1, OpTells DEF Core
      <4>3. Ranged(p)
        BY <4>2 DEF Inv, Ranges
      <4>4. pc'[p] = "range"
        BY <1>2, <2>2 DEF RangeBucket, Step, Core, Types
      <4>5. QED
        BY <4>1, <4>3, <4>4
    <3>2. \A i \in my[p].todo : Table(p).buckets[i] \in Chains
      <4>1. Shown
        BY InvIs
      <4>2. QED
        BY <1>2, <2>2, <3>1, <4>1, RangeBucketCounts
    <3>3. RangeBucketBy(p)
      BY <1>2, <2>2, <3>2, RangeBucketDoes DEF Core
    <3>4. QED
      BY <3>1, <3>3 DEF RangeBucketBy, Moves, Steps, Outside
  <2>3. CASE RangeEnd(p)
    BY <1>2, <2>3, RangeEndDoes DEF Core, RangeEndBy, Moves, Steps, Outside
  <2>4. QED
    BY <2>1, <2>2, <2>3
<1>4. QED
  BY <1>1, <1>3, OtherwiseStutters

\* Every step is one of the abstract map's, or a stutter.
LEMMA MapStep == Inv /\ [Next]_vars => [Abstract!Next]_(Abstract!mapVars)
<1> SUFFICES ASSUME Inv, [Next]_vars
             PROVE  Abstract!Next \/ UNCHANGED Abstract!mapVars
  OBVIOUS
<1>1. CASE UNCHANGED vars
  BY <1>1 DEF vars, history, shared, Abstract!mapVars, Reading, Writing
<1>2. CASE Next
  <2>1. PICK p \in Procs :
        /\ \/ Get(p) \/ LoadMeta(p) \/ LoadNode(p) \/ LoadNext(p)
           \/ Compute(p) \/ LoadTable(p) \/ LockBucket(p) \/ CheckResize(p) \/ CheckTable(p)
           \/ SearchFound(p) \/ SearchNothing(p) \/ SearchVacant(p) \/ SearchCrowded(p) \/ SearchFull(p)
           \/ StoreMeta(p) \/ StoreNode(p) \/ ClearMeta(p) \/ ClearNode(p) \/ AddSize(p)
           \/ ShrinkFast(p) \/ CasResizing(p) \/ NewTable(p) \/ CopyBucket(p) \/ Publish(p)
           \/ EndResize(p) \/ WaitForResize(p) \/ WakeUp(p)
           \/ BeginRange(p) \/ RangeBucket(p) \/ RangeEnd(p)
        /\ Observe
    BY <1>2 DEF Next
  <2>2. Shown
    BY InvIs
  <2>3. CASE Get(p) \/ LoadMeta(p) \/ LoadNode(p) \/ LoadNext(p)
    BY <2>1, <2>3, ReadersMap DEF Abstract!Next
  <2>4. CASE Compute(p)
    BY <2>1, <2>4, ComputeAdvances, ComputeBegins DEF Abstract!Next
  <2>5. CASE SearchNothing(p)
    BY <2>1, <2>5, SearchNothingAdvances, CommitWrites DEF Abstract!Next
  <2>6. CASE \/ LoadTable(p) \/ LockBucket(p) \/ CheckResize(p) \/ CheckTable(p)
             \/ SearchFound(p) \/ SearchVacant(p) \/ SearchCrowded(p)
             \/ ShrinkFast(p) \/ CasResizing(p) \/ EndResize(p) \/ WaitForResize(p) \/ WakeUp(p)
    BY <2>1, <2>2, <2>6, QuietlyAdvance, StillContents, CalmStutters
  <2>7. CASE SearchFull(p) \/ StoreMeta(p) \/ StoreNode(p) \/ ClearMeta(p) \/ ClearNode(p)
    BY <2>1, <2>7, WritersAdvance, CommitWrites, CalmStutters DEF Abstract!Next
  <2>8. CASE NewTable(p) \/ CopyBucket(p) \/ Publish(p) \/ AddSize(p)
    BY <2>1, <2>2, <2>8, TablesAdvance, StillContents, CalmStutters
  <2>9. CASE BeginRange(p) \/ RangeBucket(p) \/ RangeEnd(p)
    BY <2>1, <2>9, RangesMap
  <2>10. QED
    BY <2>1, <2>3, <2>4, <2>5, <2>6, <2>7, <2>8, <2>9
<1>3. QED
  BY <1>1, <1>2

\* The map holds at first what it was filled with.
LEMMA MapInit == Init => Abstract!Init
<1> SUFFICES ASSUME Init PROVE Abstract!Init
  OBVIOUS
<1>1. PICK t : /\ tables = <<t>> /\ current = 1
               /\ \E K \in SUBSET Keys : \A k \in Keys : Lookup(t, k) = IF k \in K THEN <<k, None>> ELSE None
  BY InitTable
<1>2. PICK K \in SUBSET Keys : \A k \in Keys : Lookup(t, k) = IF k \in K THEN <<k, None>> ELSE None
  BY <1>1
<1>3. contents = [k \in Keys |-> Lookup(t, k)]
  <2>1. tables[current] = t
    BY <1>1
  <2>2. QED
    BY <2>1, ContentsAre DEF Init
<1>4. \A k \in Keys : contents[k] \in {None, <<k, None>>}
  BY <1>2, <1>3
<1>5. contents \in [Keys -> {None} \cup (Keys \X {None})]
  BY <1>3, <1>4
<1>6. \A p \in Procs : my[p] = NoCall
  BY DEF Init
<1>7. Reading = [p \in Procs |-> None] /\ Writing = [p \in Procs |-> None]
  BY <1>6 DEF Reading, Writing, NoCall
<1>8. QED
  BY <1>4, <1>5, <1>7 DEF Init, Abstract!Init

\* The hash map is the function from keys to nodes that the rest of the cache takes it for,
\* whatever the hash functions, the number of processes, the size of a block and the length
\* of a table: every write takes effect at one instant, no resize adds, loses or reverts a
\* key, and a read without locks answers what its key has held at some moment of the read.
THEOREM MapIsAtomic == Spec => MapHolds
  BY MapInit, MapStep, AlwaysInv, PTL DEF Spec, MapHolds, Abstract!Spec

--------------------------------------------------------------------------------
(* The lengths of the tables *)

Lengths == \A t \in DOMAIN tables : LengthSound(t)

\* There are the tables there were, as long as they were.
SameShapes == /\ DOMAIN tables' = DOMAIN tables
              /\ \A u \in DOMAIN tables : SameShape(tables[u], tables'[u])

\* They are numbers.
LEMMA LengthsTyped ==
    ASSUME Types
    PROVE  /\ MinTableLen \in Nat \ {0}
           /\ \A u \in DOMAIN tables : tables[u] \in AllTables /\ TableLen(tables[u]) \in Nat \ {0}
<1>1. tables \in Seq(AllTables) /\ DOMAIN tables = 1..Len(tables)
  BY LenProperties DEF Types
<1>2. \A u \in DOMAIN tables : tables[u] \in AllTables
  BY <1>1, ElementOfSeq
<1>3. QED
  BY <1>2, TableTyped, HashMapAssumption

\* A chain is replaced.
LEMMA ChainShapes ==
    ASSUME Types, NEW p \in Procs, NEW c, SetChain(p, c)
    PROVE  SameShapes
<1> DEFINE t == my[p].table
           i == MyBucket(p)[2]
<1>1. tables' = [tables EXCEPT ![t].buckets[i] = c]
  BY DEF SetChain
<1> HIDE DEF t, i
<1>2. DOMAIN tables' = DOMAIN tables
  BY <1>1
<1>3. ASSUME NEW u \in DOMAIN tables
      PROVE  SameShape(tables[u], tables'[u])
  <2>1. tables[u] \in AllTables
    BY <1>3, LengthsTyped
  <2>2. tables'[u] = IF u = t THEN [tables[u] EXCEPT !.buckets = [@ EXCEPT ![i] = c]] ELSE tables[u]
    BY <1>1, <1>3
  <2>3. QED
    BY <2>1, <2>2 DEF SameShape, AllTables
<1>4. QED
  BY <1>2, <1>3 DEF SameShapes

\* A table is counted.
LEMMA AddSizeShapes ==
    ASSUME Types, NEW p \in Procs, AddSize(p)
    PROVE  SameShapes
<1> DEFINE t == my[p].table
<1>1. tables' = [tables EXCEPT ![t].size = tables[t].size + my[p].delta]
  BY DEF AddSize
<1>2. DOMAIN tables' = DOMAIN tables
  BY <1>1
<1>3. ASSUME NEW u \in DOMAIN tables
      PROVE  SameShape(tables[u], tables'[u])
  <2>1. tables[u] \in AllTables
    BY <1>3, LengthsTyped
  <2>2. \/ tables'[u] = [tables[u] EXCEPT !.size = tables[t].size + my[p].delta]
        \/ tables'[u] = tables[u]
    BY <1>1, <1>3
  <2>3. QED
    BY <2>1, <2>2 DEF SameShape, AllTables
<1>4. QED
  BY <1>2, <1>3 DEF SameShapes

\* A bucket is copied.
LEMMA CopyBucketShapes ==
    ASSUME Core, NEW p \in Procs, CopyBucket(p)
    PROVE  SameShapes
<1>1. CopyBucketBy(p)
  BY CopyBucketDoes DEF Core
<1>2. pc[p] = "copy"
  BY <1>1 DEF CopyBucketBy, Moves
<1>3. CopiedBy(p) /\ my[p].table = current
  BY <1>2 DEF Core, Copied, CopiedBy
<1>4. PICK i \in Nat : Copies1(p, i)
  BY <1>1 DEF CopyBucketBy
<1> DEFINE w == my[p].new
           u == PutAll(tables[current].buckets[i], tables[w])
<1>5. tables' = [tables EXCEPT ![w] = u] /\ i \in my[p].todo /\ <<current, i>> \notin locks
  BY <1>3, <1>4 DEF Copies1, Table
<1>6. SameShape(tables[w], u)
  BY <1>3, <1>5, CopyOne
<1> HIDE DEF u, w
<1>7. \A z \in DOMAIN tables : SameShape(tables[z], tables'[z])
  BY <1>5, <1>6 DEF SameShape
<1>8. QED
  BY <1>5, <1>7 DEF SameShapes

\* A table is allocated: it is twice as long as the published one, or half as long if that
\* is longer than the least.
LEMMA NewTableLength ==
    ASSUME Types, NEW p \in Procs, NewTable(p)
    PROVE  \/ tables' = tables
           \/ \E t : /\ tables' = Append(tables, t) /\ t \in AllTables
                     /\ \/ TableLen(t) = 2 * TableLen(tables[current])
                        \/ /\ TableLen(tables[current]) > MinTableLen
                           /\ TableLen(t) = TableLen(tables[current]) \div 2
<1> DEFINE len == TableLen(tables[current])
           shrink == my[p].hint = "shrink"
           stop == shrink /\ ~(len > MinTableLen /\ SumSize(tables[current]) <= ShrinkThreshold(len))
           other == IF shrink THEN len \div 2 ELSE 2 * len
<1>1. /\ stop => tables' = tables
      /\ ~stop => \E h \in Hashes : tables' = Append(tables, NewMapTable(other, h))
  BY DEF NewTable
<1>2. CASE stop
  BY <1>1, <1>2
<1>3. CASE ~stop
  <2>1. PICK h \in Hashes : tables' = Append(tables, NewMapTable(other, h))
    BY <1>1, <1>3
  <2>2. len \in Nat \ {0} /\ MinTableLen \in Nat \ {0}
    BY LengthsTyped DEF Types
  <2>3. shrink => len > MinTableLen
    BY <1>3
  <2> HIDE DEF len, shrink
  <2>4. other \in Nat \ {0} /\ (other = 2 * len \/ (len > MinTableLen /\ other = len \div 2))
    BY <2>2, <2>3
  <2> HIDE DEF other
  <2> DEFINE t == NewMapTable(other, h)
  <2>5. Neat(t) /\ DOMAIN t.buckets = 0..(other - 1)
    BY <2>4, NewMapTableNeat
  <2> HIDE DEF t
  <2>6. TableLen(t) = other
    <3>1. Cardinality(0..(other - 1)) = other
      BY <2>4, FS_Interval
    <3>2. QED
      BY <2>5, <3>1 DEF TableLen
  <2>7. tables' = Append(tables, t) /\ t \in AllTables
    BY <2>1, <2>5 DEF t, Neat
  <2>8. QED
    BY <2>4, <2>6, <2>7 DEF len
<1>4. QED
  BY <1>2, <1>3

\* Nothing is longer or shorter than it was.
LEMMA LengthsStay ==
    ASSUME Lengths, SameShapes
    PROVE  Lengths'
<1>1. \A u \in DOMAIN tables : TableLen(tables'[u]) = TableLen(tables[u])
  BY DEF SameShapes, SameShape, TableLen
<1>2. QED
  BY <1>1 DEF Lengths, LengthSound, SameShapes

\* The length of the table that is allocated is sound because that of the published one is.
LEMMA LengthsGrow ==
    ASSUME Types, Lengths, NEW p \in Procs, NewTable(p)
    PROVE  Lengths'
<1>1. CASE tables' = tables
  BY <1>1 DEF Lengths, LengthSound
<1>2. CASE tables' # tables
  <2>1. PICK t : /\ tables' = Append(tables, t) /\ t \in AllTables
                 /\ \/ TableLen(t) = 2 * TableLen(tables[current])
                    \/ /\ TableLen(tables[current]) > MinTableLen
                       /\ TableLen(t) = TableLen(tables[current]) \div 2
    BY <1>2, NewTableLength
  <2> DEFINE new == Len(tables) + 1
  <2>2. /\ tables \in Seq(AllTables) /\ DOMAIN tables = 1..Len(tables) /\ Len(tables) \in Nat
        /\ current \in DOMAIN tables
    BY LenProperties DEF Types
  <2>3. /\ tables'[new] = t /\ \A u \in DOMAIN tables : tables'[u] = tables[u]
        /\ DOMAIN tables' = DOMAIN tables \cup {new}
    <3>1. /\ tables' \in Seq(AllTables) /\ Len(tables') = new /\ tables'[new] = t
          /\ \A u \in 1..Len(tables) : tables'[u] = tables[u]
      BY <2>1, <2>2, AppendProperties
    <3>2. DOMAIN tables' = 1..new
      BY <3>1, LenProperties
    <3>3. QED
      BY <2>2, <3>1, <3>2
  <2> HIDE DEF new
  <2>4. /\ MinTableLen \in Nat \ {0}
        /\ \A u \in DOMAIN tables : TableLen(tables[u]) \in Nat \ {0}
    BY LengthsTyped
  <2>5. \A u \in DOMAIN tables :
           /\ TableLen(tables[u]) >= MinTableLen
           /\ \/ TableLen(tables[u]) \in {MinTableLen, 2 * MinTableLen}
              \/ \E v \in DOMAIN tables : TableLen(tables[u]) = 2 * TableLen(tables[v])
    BY DEF Lengths, LengthSound
  <2>6. /\ TableLen(t) >= MinTableLen
        /\ \/ TableLen(t) \in {MinTableLen, 2 * MinTableLen}
           \/ \E v \in DOMAIN tables : TableLen(t) = 2 * TableLen(tables[v])
    <3>1. CASE TableLen(t) = 2 * TableLen(tables[current])
      BY <2>2, <2>4, <2>5, <3>1
    <3>2. CASE /\ TableLen(tables[current]) > MinTableLen
               /\ TableLen(t) = TableLen(tables[current]) \div 2
      <4>1. CASE TableLen(tables[current]) \in {MinTableLen, 2 * MinTableLen}
        <5>1. TableLen(tables[current]) = 2 * MinTableLen
          BY <2>2, <2>4, <3>2, <4>1
        <5>2. TableLen(t) = MinTableLen
          BY <2>4, <3>2, <5>1
        <5>3. QED
          BY <2>4, <5>2
      <4>2. CASE \E v \in DOMAIN tables : TableLen(tables[current]) = 2 * TableLen(tables[v])
        <5>1. PICK v \in DOMAIN tables : TableLen(tables[current]) = 2 * TableLen(tables[v])
          BY <4>2
        <5>2. TableLen(t) = TableLen(tables[v])
          BY <2>4, <3>2, <5>1
        <5>3. QED
          BY <2>5, <5>2
      <4>3. QED
        BY <2>2, <2>5, <4>1, <4>2
    <3>3. QED
      BY <2>1, <3>1, <3>2
  <2>7. \A u \in DOMAIN tables' :
           /\ TableLen(tables'[u]) >= MinTableLen
           /\ \/ TableLen(tables'[u]) \in {MinTableLen, 2 * MinTableLen}
              \/ \E v \in DOMAIN tables' : TableLen(tables'[u]) = 2 * TableLen(tables'[v])
    BY <2>3, <2>5, <2>6
  <2>8. QED
    BY <2>7 DEF Lengths, LengthSound
<1>3. QED
  BY <1>1, <1>2

\* A step of any process.
LEMMA LengthsKept ==
    ASSUME Inv, Lengths, [Next]_vars
    PROVE  Lengths'
<1>1. Core /\ Types
  BY InvIs DEF Core
<1>2. CASE tables' = tables
  BY <1>2 DEF Lengths, LengthSound
<1>3. CASE tables' # tables
  <2>1. Next
    BY <1>3 DEF vars, shared
  <2>2. PICK p \in Procs :
           \/ SearchFull(p) \/ StoreMeta(p) \/ StoreNode(p) \/ ClearMeta(p) \/ ClearNode(p)
           \/ AddSize(p) \/ NewTable(p) \/ CopyBucket(p)
    <3>1. PICK p \in Procs :
           \/ Get(p) \/ LoadMeta(p) \/ LoadNode(p) \/ LoadNext(p)
           \/ Compute(p) \/ LoadTable(p) \/ LockBucket(p) \/ CheckResize(p) \/ CheckTable(p)
           \/ SearchFound(p) \/ SearchNothing(p) \/ SearchVacant(p) \/ SearchCrowded(p) \/ SearchFull(p)
           \/ StoreMeta(p) \/ StoreNode(p) \/ ClearMeta(p) \/ ClearNode(p) \/ AddSize(p)
           \/ ShrinkFast(p) \/ CasResizing(p) \/ NewTable(p) \/ CopyBucket(p) \/ Publish(p)
           \/ EndResize(p) \/ WaitForResize(p) \/ WakeUp(p)
           \/ BeginRange(p) \/ RangeBucket(p) \/ RangeEnd(p)
      BY <2>1 DEF Next
    <3>2. /\ ~Get(p) /\ ~LoadMeta(p) /\ ~LoadNode(p) /\ ~LoadNext(p) /\ ~Compute(p) /\ ~LoadTable(p)
          /\ ~BeginRange(p) /\ ~RangeBucket(p) /\ ~RangeEnd(p)
      BY <1>3 DEF shared, Begin, Get, LoadMeta, LoadNode, LoadNext, Compute, LoadTable,
                  BeginRange, RangeBucket, RangeEnd
    <3>3. /\ ~LockBucket(p) /\ ~CheckResize(p) /\ ~CheckTable(p) /\ ~SearchFound(p)
          /\ ~SearchNothing(p) /\ ~SearchVacant(p) /\ ~SearchCrowded(p)
      BY <1>3 DEF shared, LockBucket, CheckResize, CheckTable, SearchFound, SearchNothing,
                  SearchVacant, SearchCrowded
    <3>4. /\ ~ShrinkFast(p) /\ ~CasResizing(p) /\ ~Publish(p) /\ ~EndResize(p)
          /\ ~WaitForResize(p) /\ ~WakeUp(p)
      BY <1>3 DEF shared, ShrinkFast, CasResizing, Publish, EndResize, WaitForResize, WakeUp
    <3>5. QED
      BY <3>1, <3>2, <3>3, <3>4
  <2>3. CASE SearchFull(p) \/ StoreMeta(p) \/ StoreNode(p) \/ ClearMeta(p) \/ ClearNode(p)
    <3>1. \E c : SetChain(p, c)
      BY <2>3 DEF SearchFull, StoreMeta, StoreNode, ClearMeta, ClearNode
    <3>2. QED
      BY <1>1, <3>1, ChainShapes, LengthsStay
  <2>4. CASE AddSize(p)
    BY <1>1, <2>4, AddSizeShapes, LengthsStay
  <2>5. CASE NewTable(p)
    BY <1>1, <2>5, LengthsGrow
  <2>6. CASE CopyBucket(p)
    BY <1>1, <2>6, CopyBucketShapes, LengthsStay
  <2>7. QED
    BY <2>2, <2>3, <2>4, <2>5, <2>6
<1>4. QED
  BY <1>2, <1>3

\* The map has one table at first.
LEMMA InitLengths ==
    ASSUME Init
    PROVE  Lengths
<1>1. PICK t : tables = <<t>> /\ TableLen(t) \in {MinTableLen, 2 * MinTableLen}
  BY InitTable
<1>2. MinTableLen \in Nat \ {0}
  BY HashMapAssumption
<1>3. DOMAIN tables = {1} /\ tables[1] = t
  BY <1>1
<1>4. TableLen(t) >= MinTableLen
  BY <1>1, <1>2
<1>5. QED
  BY <1>1, <1>3, <1>4 DEF Lengths, LengthSound

\* The lengths are sound always.
LEMMA AlwaysLengths == Spec => []Lengths
<1>1. Init => Lengths
  BY InitLengths
<1>2. Inv /\ Lengths /\ [Next]_vars => Lengths'
  BY LengthsKept
<1>3. QED
  BY <1>1, <1>2, AlwaysInv, PTL DEF Spec

\* The variables stay in their ranges.
LEMMA TypesFit ==
    ASSUME Inv, Lengths
    PROVE  TypeOK
<1>1. Types
  BY DEF Inv
<1>2. ASSUME NEW t \in DOMAIN tables
      PROVE  /\ LengthSound(t) /\ tables[t].size \in Int
             /\ \A i \in DOMAIN tables[t].buckets : \A b \in DOMAIN tables[t].buckets[i] :
                   tables[t].buckets[i][b].nodes \in [1..Slots -> Nodes \cup {None}]
  <2>1. tables[t] \in AllTables
    BY <1>1, <1>2, LengthsTyped
  <2>2. ASSUME NEW i \in DOMAIN tables[t].buckets, NEW b \in DOMAIN tables[t].buckets[i]
        PROVE  tables[t].buckets[i][b].nodes \in [1..Slots -> Nodes \cup {None}]
    <3>1. tables[t].buckets[i] \in Seq(Blocks)
      BY <2>1, <2>2, TableTyped DEF Chains
    <3>2. tables[t].buckets[i][b] \in Blocks
      BY <2>2, <3>1, LenProperties, ElementOfSeq
    <3>3. QED
      BY <3>2 DEF Blocks
  <2>3. LengthSound(t)
    BY <1>2 DEF Lengths
  <2>4. tables[t].size \in Int
    BY <2>1 DEF AllTables
  <2>5. QED
    BY <2>2, <2>3, <2>4
<1>3. QED
  BY <1>1, <1>2 DEF TypeOK, Types

\* The tables keep their shape whoever grows or shrinks them, whoever takes the lock of a
\* bucket of the published one finds it in order, and its counter is exact but for the
\* writers that have still to add to it.
THEOREM TablesAreSound == Spec => []TableSound
<1>1. Inv /\ Lengths /\ WellPlaced => TableSound
  BY TypesFit DEF TableSound, Inv
<1>2. QED
  BY <1>1, AlwaysInv, AlwaysLengths, BucketsAreInOrder, PTL

================================================================================
