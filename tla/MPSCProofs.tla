------------------------------ MODULE MPSCProofs ------------------------------
(***************************************************************************)
(* Proofs about MPSC.                                                      *)
(***************************************************************************)
EXTENDS MPSC, SequenceTheorems, TLAPS

--------------------------------------------------------------------------------
(* Elements and arrays by number: index 2 * n is that of element n *)

Count    == Len(order)
Consumed == consumerIndex \div 2
Newest     == Len(spans)
Size(b)  == spans[b].size
From(b)  == spans[b].from
Num(p)   == local[p].index \div 2

MaskOf(size) == 2 * (size - 1)

\* Array b is that of element n.
In(b, n) == From(b) <= n /\ (b < Newest => n < From(b + 1))

Later(x, y) == IF x >= y THEN x ELSE y

\* The oldest element that may be in array b, and how many there may be from it on.
Oldest(b) == Later(Consumed, From(b))
Room(b)   == IF 2 * Size(b) = maxQueueCapacity THEN Size(b) ELSE Size(b) - 1

\* No index is given out from here on.
Bound == Oldest(Newest) + Room(Newest)
Limit == Consumed + maxQueueCapacity \div 2

Filling  == {"store", "resizeBuffer", "resizeMask", "resizeElement"}
Resizing == {"resizeBuffer", "resizeMask", "resizeElement", "resizeLink", "resizeSeen",
             "resizeLimit", "resizeIndex"}
Owning   == {"store", "resizeJump"} \cup Resizing
Trying   == {"readMask", "readBuffer", "slowPath", "casLimit", "casIndex", "casResize"}
Asking   == {"readLimit", "readIndex"} \cup Trying
Free     == {"off"} \cup Asking
Jumping  == Owning \ {"store", "resizeBuffer"}
Linking  == {"resizeMask", "resizeElement", "resizeLink"}

\* Element n is still to be put into its slot.
Pending(n) == \E p \in Producers : pc[p] \in Filling /\ Num(p) = n

\* The jump mark, or the link, of array b is still to be put there.
JumpDue(b) == \E p \in Producers : pc[p] \in Jumping /\ local[p].buffer = b
LinkDue(b) == \E p \in Producers : pc[p] \in Linking /\ local[p].buffer = b

\* A producer is installing the newest array; its mask has not been announced yet.
InResize == \E p \in Producers : pc[p] \in Resizing
MaskDue  == \E p \in Producers : pc[p] = "resizeMask"

--------------------------------------------------------------------------------
(* The inductive invariant *)

Locals == [index : Nat, limit : Nat, mask : Nat, buffer : Nat, seen : Nat]

\* What a slot may hold.
Marked == Elements \cup {Nothing, Jump} \cup {Link(b) : b \in Nat}

Spaces == UNION {[0..n -> Marked] : n \in Nat}

Types ==
    /\ maxQueueCapacity \in Nat
    /\ producerIndex \in Nat /\ producerLimit \in Nat /\ producerMask \in Nat
    /\ consumerIndex \in Nat /\ consumerMask \in Nat
    /\ arrays \in Seq(Spaces)
    /\ pc \in [Producers -> Free \cup Owning] /\ local \in [Producers -> Locals]
    /\ consumer \in {"off", "empty", "spin", "clear", "advance", "nextBuffer", "newBuffer"}
    /\ order \in Seq(Elements)
    /\ spans \in Seq([from : Nat, size : Nat])
    /\ answer \in [Producers -> {"none", "pending", "pushed", "full"}]
    /\ got \in Elements \cup {Nothing} /\ taken \in Elements \cup {Nothing}

\* A producer has begun the push before it is given an index for it.
Calling ==
    /\ calls \in Nat /\ calls <= MaxPushes /\ pushed \in [Producers -> Nat]
    /\ \A p \in Producers :
         /\ pushed[p] <= calls
         /\ pc[p] \in Asking => pushed[p] < calls
         /\ pc[p] \in Asking <=> answer[p] = "pending"

\* Every array has room for twice the elements of the one before, and its elements, with
\* the jump mark, go once round at most.
Layout ==
    /\ Newest = Len(arrays) /\ Newest >= 1
    /\ From(1) = 0 /\ Size(1) = InitialCapacity
    /\ \A b \in 1..Newest :
         /\ DOMAIN arrays[b] = 0..Size(b) /\ Size(b) >= 2 /\ 2 * Size(b) <= maxQueueCapacity
         /\ b < Newest => /\ Size(b + 1) = 2 * Size(b)
                          /\ From(b + 1) < Oldest(b) + Size(b)
    /\ \A a, b \in 1..Newest : a < b => From(a) < From(b) /\ 2 * Size(a) <= Size(b)
    /\ maxQueueCapacity = 2 * (maxQueueCapacity \div 2)
    /\ Doubled(Size(Newest), maxQueueCapacity \div 2)

\* What the four words of the producers say.
Words ==
    /\ consumerIndex = 2 * Consumed /\ Consumed <= Count
    /\ Newest > 1 => From(Newest) < Count
    /\ Count <= Oldest(Newest) + Size(Newest) /\ Count <= Limit
    /\ \/ producerIndex = 2 * Count /\ Count <= Bound /\ ~InResize
       \/ producerIndex = 2 * Count - 1 /\ Count >= 1 /\ InResize
    /\ producerLimit <= 2 * Bound /\ producerLimit <= 2 * Limit
    /\ producerBuffer = Newest
    /\ producerMask = MaskOf(Size(IF MaskDue THEN Newest - 1 ELSE Newest))

\* What a producer has read may be old, but not if the index still is the one it has read.
TryingSound(p) ==
    /\ local[p].limit <= 2 * Bound /\ local[p].limit <= 2 * Limit
    /\ pc[p] \in Trying => local[p].index = 2 * Num(p) /\ local[p].index <= producerIndex
    /\ pc[p] \in Trying \ {"readMask"} =>
         \E b \in 1..Newest : /\ local[p].mask = MaskOf(Size(b))
                              /\ local[p].index = producerIndex => b = Newest
    /\ pc[p] \in Trying \ {"readMask", "readBuffer"} =>
         /\ local[p].buffer \in 1..Newest
         /\ local[p].index = producerIndex => local[p].buffer = Newest
    /\ pc[p] = "casLimit" => /\ local[p].seen <= consumerIndex
                             /\ local[p].index < local[p].seen + CurrentBufferCapacity(local[p].mask)
    /\ pc[p] \in {"casLimit", "casIndex"} => Num(p) < Bound /\ Num(p) < Limit
    /\ pc[p] = "casResize" => /\ local[p].mask + 2 # maxQueueCapacity
                              /\ Num(p) < Limit /\ Num(p) >= 1

\* What a producer with an index has to do still.
OwningSound(p) ==
    /\ pc[p] \in Owning =>
         /\ local[p].index = 2 * Num(p) /\ Consumed <= Num(p) /\ Num(p) < Count
         /\ order[Num(p) + 1] = <<p, pushed[p]>>
         /\ local[p].buffer \in 1..Newest /\ local[p].mask = MaskOf(Size(local[p].buffer))
         /\ consumerBuffer <= local[p].buffer
    /\ pc[p] = "store" => /\ In(local[p].buffer, Num(p))
                          /\ local[p].buffer > 1 => From(local[p].buffer) < Num(p)
    /\ pc[p] \in Resizing => Num(p) = Count - 1
    /\ pc[p] = "resizeBuffer" => /\ local[p].buffer = Newest /\ From(Newest) < Num(p)
                                 /\ 2 * Size(Newest) # maxQueueCapacity
    /\ pc[p] \in Jumping =>
         local[p].buffer < Newest /\ From(local[p].buffer + 1) = Num(p)
    /\ pc[p] \in Resizing \ {"resizeBuffer"} => local[p].buffer = Newest - 1
    /\ pc[p] = "resizeLimit" => /\ local[p].seen <= consumerIndex
                                /\ local[p].index < local[p].seen + maxQueueCapacity

OwnersApart ==
    \A p, q \in Producers : pc[p] \in Owning /\ pc[q] \in Owning /\ Num(p) = Num(q) => p = q

Producing == OwnersApart /\ \A p \in Producers : TryingSound(p) /\ OwningSound(p)

\* Where the consumer is.
Consuming ==
    /\ consumerBuffer \in 1..Newest /\ consumerMask = MaskOf(Size(consumerBuffer))
    /\ From(consumerBuffer) <= Consumed
    /\ consumerBuffer < Newest => Consumed <= From(consumerBuffer + 1)
    /\ consumer \in {"spin", "clear", "advance", "newBuffer"} => Consumed < Count
    /\ consumer = "nextBuffer" => /\ consumerBuffer < Newest /\ Consumed = From(consumerBuffer + 1)
                                  /\ ~JumpDue(consumerBuffer)
    /\ consumer = "newBuffer" => Consumed = From(consumerBuffer)
    /\ consumer \in {"newBuffer", "clear", "advance"} => In(consumerBuffer, Consumed) /\ ~Pending(Consumed)
    /\ got = IF consumer = "advance" THEN order[Consumed + 1] ELSE Nothing

\* What is in the slots.  An element is absent until it is stored, and once it is cleared.
Absent(n) == Pending(n) \/ (consumer = "advance" /\ n = Consumed)

ElementsPlaced ==
    \A b \in 1..Newest, n \in Consumed..(Count - 1) :
        In(b, n) => arrays[b][n % Size(b)] = IF Absent(n) THEN Nothing ELSE order[n + 1]

JumpsPlaced ==
    \A b \in 1..Newest : b < Newest =>
        arrays[b][From(b + 1) % Size(b)] = IF JumpDue(b) THEN Nothing ELSE Jump

\* The link of an array is there from its resize until the consumer follows it.
Linked(b) == b < Newest /\ consumerBuffer <= b /\ ~LinkDue(b)

LinksPlaced == \A b \in 1..Newest : arrays[b][Size(b)] = IF Linked(b) THEN Link(b + 1) ELSE Nothing

OthersFree ==
    \A b \in 1..Newest : \A i \in 0..(Size(b) - 1) :
        \/ arrays[b][i] = Nothing
        \/ b < Newest /\ i = From(b + 1) % Size(b)
        \/ \E n \in Consumed..(Count - 1) : In(b, n) /\ i = n % Size(b)

Slots == ElementsPlaced /\ JumpsPlaced /\ LinksPlaced /\ OthersFree

Inv == Types /\ Calling /\ Layout /\ Words /\ Producing /\ Consuming /\ Slots

--------------------------------------------------------------------------------
(* Lemmas about the constants, masks, and places in an array *)

\* A slot tells a mark, a link, an element and nothing from each other.
LEMMA Marks ==
    /\ Jump \in Marked /\ Nothing \in Marked /\ Elements \subseteq Marked
    /\ \A b \in Nat : /\ Link(b) \in Marked /\ Link(b)[2] = b
                      /\ Link(b) # Nothing /\ Link(b) # Jump /\ Link(b) \notin Elements
    /\ Nothing # Jump /\ Nothing \notin Elements /\ Jump \notin Elements
<1>1. ASSUME NEW b \in Nat PROVE Link(b) \in (Producers \cup {"array"}) \X Nat
  BY DEF Link
<1>2. \A e \in Elements : e \in (Producers \cup {"array"}) \X Nat
  BY MPSCAssumption DEF Elements
<1>3. ASSUME NEW e \in Producers \X Nat PROVE e # Jump
  <2>1. PICK p \in Producers, n \in Nat : e = <<p, n>>
    BY <1>3
  <2>2. Len(e) = 2 /\ Len(Jump) = 1
    BY <2>1 DEF Jump
  <2>3. QED
    BY <2>2
<1>4. ASSUME NEW b \in Nat PROVE Link(b) # Jump /\ Link(b)[2] = b
  <2>1. Len(Link(b)) = 2 /\ Len(Jump) = 1
    BY DEF Jump, Link
  <2>2. QED
    BY <2>1 DEF Link
<1>5. ASSUME NEW b \in Nat PROVE Link(b) \notin Elements
  BY MPSCAssumption DEF Link, Elements
<1>6. Elements \subseteq Producers \X Nat
  BY MPSCAssumption DEF Elements
<1>7. QED
  BY <1>1, <1>2, <1>3, <1>4, <1>5, <1>6, MPSCAssumption DEF Marked

\* The constants, as the proofs use them.
LEMMA Constants ==
    /\ MaxPushes \in Nat /\ InitialCapacity \in Nat /\ InitialCapacity >= 2
    /\ MaxCapacities \subseteq Nat /\ \A m \in MaxCapacities : Doubled(InitialCapacity, m)
  BY MPSCAssumption

\* Half of an even index.
LEMMA Half == ASSUME NEW n \in Nat PROVE (2 * n) \div 2 = n /\ n \div 2 \in Nat
  OBVIOUS

\* What the mask of an array of this size says of it.
LEMMA MaskSays ==
    ASSUME NEW s \in Nat, s >= 2
    PROVE  /\ MaskOf(s) \in Nat /\ MaskOf(s) + 2 = 2 * s
           /\ NextArrayOffset(MaskOf(s)) = s /\ NextLength(MaskOf(s)) = 2 * s + 1
           /\ NextMask(MaskOf(s)) = MaskOf(2 * s)
           /\ \A n \in Nat : Offset(2 * n, MaskOf(s)) = n % s
           /\ \A t \in Nat : MaskOf(t) = MaskOf(s) => t = s
<1>1. MaskOf(s) \in Nat /\ MaskOf(s) + 2 = 2 * s
  BY DEF MaskOf
<1>2. NextArrayOffset(MaskOf(s)) = s
  BY <1>1, Half DEF NextArrayOffset
<1>3. NextLength(MaskOf(s)) = 2 * s + 1
  BY <1>2 DEF NextLength
<1>4. NextMask(MaskOf(s)) = MaskOf(2 * s)
  BY <1>3 DEF NextMask, MaskOf
<1>5. ASSUME NEW n \in Nat PROVE Offset(2 * n, MaskOf(s)) = n % s
  <2>1. MaskOf(s) \div 2 = s - 1
    BY Half DEF MaskOf
  <2>2. MaskOf(s) \div 2 + 1 = s
    BY <2>1
  <2>3. QED
    BY <2>2, Half DEF Offset
<1>6. ASSUME NEW t \in Nat, MaskOf(t) = MaskOf(s) PROVE t = s
  BY <1>6 DEF MaskOf
<1>7. QED
  BY <1>1, <1>2, <1>3, <1>4, <1>5, <1>6

\* Two elements of an array that are less than its size apart have places of their own.
LEMMA ModApart ==
    ASSUME NEW a \in Nat, NEW b \in Nat, NEW s \in Nat \ {0}, b < a, a - b < s
    PROVE  a % s # b % s
<1>1. SUFFICES ASSUME a % s = b % s PROVE FALSE
  OBVIOUS
<1> DEFINE x == a \div s
           y == b \div s
<1>2. x \in Int /\ y \in Int /\ a = s * x + (a % s) /\ b = s * y + (b % s)
  OBVIOUS
<1>3. a - b = s * x - s * y
  BY <1>1, <1>2
<1> HIDE DEF x, y
<1>4. a - b = s * (x - y)
  BY <1>2, <1>3
<1>5. ASSUME x - y <= 0 PROVE FALSE
  <2>1. s * (x - y) <= 0
    BY <1>5, <1>2
  <2>2. QED
    BY <2>1, <1>4
<1>6. ASSUME x - y >= 1 PROVE FALSE
  <2>1. s * (x - y) >= s
    BY <1>6, <1>2
  <2>2. QED
    BY <2>1, <1>4
<1>7. QED
  BY <1>2, <1>5, <1>6

\* A remainder is a place.
LEMMA ModRange == ASSUME NEW a \in Nat, NEW s \in Nat \ {0} PROVE a % s \in 0..(s - 1)
  OBVIOUS

\* A size that is not yet the last one can be doubled once more.
LEMMA DoubledAgain ==
    ASSUME NEW s \in Nat, NEW m \in Nat, Doubled(s, m), s # m
    PROVE  Doubled(2 * s, m) /\ 2 * s <= m
  BY DEF Doubled

--------------------------------------------------------------------------------
(* Lemmas about the arrays and what is in them *)

\* The numbers that the invariant is about are numbers.
LEMMA Numbers ==
    Types /\ Layout =>
        /\ Newest \in Nat /\ Newest >= 1 /\ Count \in Nat /\ Consumed \in Nat
        /\ \A b \in 1..Newest : /\ From(b) \in Nat /\ Size(b) \in Nat /\ Size(b) >= 2
                                /\ Oldest(b) \in Nat /\ Room(b) \in Nat
                                /\ Oldest(b) >= From(b) /\ Oldest(b) >= Consumed
                                /\ Room(b) <= Size(b) /\ Room(b) >= Size(b) - 1
        /\ maxQueueCapacity \div 2 \in Nat
        /\ Bound \in Nat /\ Limit \in Nat
<1> SUFFICES ASSUME Types, Layout
             PROVE  /\ Newest \in Nat /\ Newest >= 1 /\ Count \in Nat /\ Consumed \in Nat
                    /\ \A b \in 1..Newest : /\ From(b) \in Nat /\ Size(b) \in Nat /\ Size(b) >= 2
                                            /\ Oldest(b) \in Nat /\ Room(b) \in Nat
                                            /\ Oldest(b) >= From(b) /\ Oldest(b) >= Consumed
                                            /\ Room(b) <= Size(b) /\ Room(b) >= Size(b) - 1
                    /\ maxQueueCapacity \div 2 \in Nat
                    /\ Bound \in Nat /\ Limit \in Nat
  OBVIOUS
<1>1. Newest \in Nat /\ Newest >= 1 /\ Count \in Nat
  BY DEF Types, Layout, Newest, Count
<1>2. Consumed \in Nat /\ maxQueueCapacity \div 2 \in Nat
  BY DEF Types, Consumed
<1>3. ASSUME NEW b \in 1..Newest PROVE From(b) \in Nat /\ Size(b) \in Nat /\ Size(b) >= 2
  <2>1. spans \in Seq([from : Nat, size : Nat])
    BY DEF Types
  <2>2. spans[b] \in [from : Nat, size : Nat]
    BY <2>1, ElementOfSeq DEF Newest
  <2>3. Size(b) >= 2
    BY DEF Layout
  <2>4. QED
    BY <2>2, <2>3 DEF From, Size
<1>4. ASSUME NEW b \in 1..Newest
      PROVE  /\ Oldest(b) \in Nat /\ Oldest(b) >= From(b) /\ Oldest(b) >= Consumed
             /\ Room(b) \in Nat /\ Room(b) <= Size(b) /\ Room(b) >= Size(b) - 1
  BY <1>3, <1>2 DEF Oldest, Later, Room
<1>5. Newest \in 1..Newest
  BY <1>1
<1>6. Bound \in Nat /\ Limit \in Nat
  BY <1>4, <1>5, <1>2 DEF Bound, Limit
<1>7. QED
  BY <1>1, <1>2, <1>3, <1>4, <1>6

\* Arrays follow each other.
LEMMA FromAscends ==
    Types /\ Layout => \A a, b \in 1..Newest : a <= b => From(a) <= From(b) /\ Size(a) <= Size(b)
<1> SUFFICES ASSUME Types, Layout, NEW a \in 1..Newest, NEW b \in 1..Newest, a <= b
             PROVE  From(a) <= From(b) /\ Size(a) <= Size(b)
  OBVIOUS
<1>1. a < b => From(a) < From(b) /\ 2 * Size(a) <= Size(b)
  BY DEF Layout
<1>2. QED
  BY <1>1, Numbers

\* An element is in one array.
LEMMA InOnce ==
    Types /\ Layout => \A a, b \in 1..Newest, n \in Nat : In(a, n) /\ In(b, n) => a = b
<1> SUFFICES ASSUME Types, Layout, NEW a \in 1..Newest, NEW b \in 1..Newest, NEW n \in Nat,
                    In(a, n), In(b, n), a < b
             PROVE  FALSE
  BY DEF In
<1>1. a < Newest /\ n < From(a + 1) /\ From(b) <= n
  BY Numbers DEF In
<1>2. a + 1 \in 1..Newest /\ a + 1 <= b
  BY Numbers
<1>3. QED
  BY <1>1, <1>2, FromAscends, Numbers

\* The places that an array has for elements n, all at the same time.
Window(b, n) == Oldest(b) <= n /\ n < Oldest(b) + Size(b)

\* Two of them are not the same.
LEMMA WindowApart ==
    ASSUME Types, Layout, NEW b \in 1..Newest, NEW n \in Nat, NEW m \in Nat,
           Window(b, n), Window(b, m), n # m
    PROVE  n % Size(b) # m % Size(b)
<1>1. Size(b) \in Nat \ {0} /\ Oldest(b) \in Nat
  BY Numbers
<1>2. n < m \/ m < n
  OBVIOUS
<1>3. n - m < Size(b) /\ m - n < Size(b)
  BY <1>1 DEF Window
<1>4. QED
  BY <1>1, <1>2, <1>3, ModApart

\* The elements of an array, the next one to come if there is room, and its jump mark are
\* in its window.
LEMMA InWindow ==
    ASSUME Types, Layout, Words
    PROVE  /\ \A b \in 1..Newest, n \in Consumed..(Count - 1) : In(b, n) => Window(b, n)
           /\ \A b \in 1..Newest : b < Newest /\ Consumed <= From(b + 1) => Window(b, From(b + 1))
           /\ Count < Oldest(Newest) + Size(Newest) => Window(Newest, Count)
<1>1. ASSUME NEW b \in 1..Newest, NEW n \in Consumed..(Count - 1), In(b, n)
      PROVE  Window(b, n)
  <2>1. n \in Nat /\ From(b) <= n /\ Oldest(b) <= n
    BY <1>1, Numbers DEF In, Oldest, Later
  <2>2. ASSUME b < Newest PROVE Window(b, n)
    <3>1. n < From(b + 1) /\ b + 1 \in 1..Newest
      BY <1>1, <2>2, Numbers DEF In
    <3>2. From(b + 1) < Oldest(b) + Size(b)
      BY <2>2 DEF Layout
    <3>3. QED
      BY <3>1, <3>2, <2>1, Numbers DEF Window
  <2>3. ASSUME b = Newest PROVE Window(b, n)
    BY <2>1, <2>3, Numbers DEF Window, Words
  <2>4. QED
    BY <2>2, <2>3, Numbers
<1>2. ASSUME NEW b \in 1..Newest, b < Newest, Consumed <= From(b + 1)
      PROVE  Window(b, From(b + 1))
  <2>1. b + 1 \in 1..Newest
    BY <1>2, Numbers
  <2>2. From(b) <= From(b + 1)
    BY <2>1, FromAscends, Numbers
  <2>3. From(b + 1) < Oldest(b) + Size(b)
    BY <1>2 DEF Layout
  <2>4. QED
    BY <2>1, <2>2, <2>3, <1>2, Numbers DEF Window, Oldest, Later
<1>3. ASSUME Count < Oldest(Newest) + Size(Newest) PROVE Window(Newest, Count)
  <2>1. Newest \in 1..Newest /\ Consumed <= Count
    BY Numbers DEF Words
  <2>2. From(Newest) <= Count
    <3>1. From(1) = 0
      BY DEF Layout
    <3>2. Newest > 1 => From(Newest) < Count
      BY DEF Words
    <3>3. QED
      BY <3>1, <3>2, <2>1, Numbers
  <2>3. QED
    BY <2>1, <2>2, <1>3, Numbers DEF Window, Oldest, Later
<1>4. QED
  BY <1>1, <1>2, <1>3

--------------------------------------------------------------------------------
(* Steps that leave the queue as it is *)

\* p goes from one label to another, the others stay where they are.
Moves(p, from, to) ==
    /\ pc[p] = from /\ pc'[p] = to /\ pc' \in [Producers -> Free \cup Owning]
    /\ \A q \in Producers : q # p => pc'[q] = pc[q]

\* The others keep their local variables.
Minds(p) ==
    /\ local' \in [Producers -> Locals]
    /\ \A q \in Producers : q # p => local'[q] = local[q]

\* The work p has to do still is the same.
WorkKept(p) ==
    /\ pc'[p] \in Filling <=> pc[p] \in Filling
    /\ pc'[p] \in Jumping <=> pc[p] \in Jumping
    /\ pc'[p] \in Linking <=> pc[p] \in Linking
    /\ pc'[p] \in Resizing <=> pc[p] \in Resizing
    /\ pc'[p] \in Owning <=> pc[p] \in Owning
    /\ pc'[p] = "resizeMask" <=> pc[p] = "resizeMask"
    /\ pc[p] \in Owning => local'[p].index = local[p].index /\ local'[p].buffer = local[p].buffer

\* What is still to be put into the slots is the same.
SlotWork ==
    /\ \A n \in Nat : Pending(n)' <=> Pending(n)
    /\ \A b \in Nat : (JumpDue(b)' <=> JumpDue(b)) /\ (LinkDue(b)' <=> LinkDue(b))

\* The producers at work are the same.
SameWork == SlotWork /\ (InResize' <=> InResize) /\ (MaskDue' <=> MaskDue)

\* The producers at work have nothing new to do.
WorkDone ==
    /\ \A n \in Nat : Pending(n)' => Pending(n)
    /\ \A b \in Nat : JumpDue(b)' => JumpDue(b)

\* A step from a free label to another one is no work.
LEMMA FreeWork ==
    ASSUME NEW p \in Producers, pc[p] \in Free, pc'[p] \in Free
    PROVE  WorkKept(p)
  BY DEF WorkKept, Free, Asking, Trying, Filling, Jumping, Linking, Resizing, Owning

\* If p's work is the same, all of it is.
LEMMA WorkSame ==
    ASSUME NEW p \in Producers, NEW from, NEW to, Moves(p, from, to), Minds(p), WorkKept(p)
    PROVE  SameWork
<1>1. \A l \in Filling \cup Jumping \cup Linking : l \in Owning
  BY DEF Filling, Jumping, Linking, Owning, Resizing
<1>2. \A q \in Producers :
        /\ pc'[q] \in Filling <=> pc[q] \in Filling
        /\ pc'[q] \in Jumping <=> pc[q] \in Jumping
        /\ pc'[q] \in Linking <=> pc[q] \in Linking
        /\ pc'[q] \in Resizing <=> pc[q] \in Resizing
        /\ pc'[q] = "resizeMask" <=> pc[q] = "resizeMask"
        /\ pc[q] \in Owning => local'[q].index = local[q].index /\ local'[q].buffer = local[q].buffer
  BY DEF Moves, Minds, WorkKept
<1>3. \A n \in Nat : Pending(n)' <=> Pending(n)
  BY <1>1, <1>2 DEF Pending, Num
<1>4. \A b \in Nat : (JumpDue(b)' <=> JumpDue(b)) /\ (LinkDue(b)' <=> LinkDue(b))
  BY <1>1, <1>2 DEF JumpDue, LinkDue
<1>5. (InResize' <=> InResize) /\ (MaskDue' <=> MaskDue)
  BY <1>2 DEF InResize, MaskDue
<1>6. QED
  BY <1>3, <1>4, <1>5 DEF SameWork, SlotWork

\* The arrays are as many, and as long, as before.
ArraysKept ==
    /\ Len(arrays') = Len(arrays)
    /\ \A b \in 1..Len(arrays) : DOMAIN arrays'[b] = DOMAIN arrays[b]

\* The layout is about the arrays alone, and the consumer may only go on.
LEMMA LayoutFrame ==
    ASSUME Types, Types', Layout, ArraysKept, UNCHANGED <<spans, maxQueueCapacity>>,
           Consumed' >= Consumed
    PROVE  Layout'
<1>1. Newest' = Newest /\ \A b : From(b)' = From(b) /\ Size(b)' = Size(b)
  BY DEF Newest, From, Size
<1>0. Consumed' \in Nat
  <2>1. consumerIndex' \in Nat
    BY DEF Types
  <2>2. QED
    BY <2>1, Half DEF Consumed
<1>2. ASSUME NEW b \in 1..Newest PROVE Oldest(b)' \in Nat /\ Oldest(b)' >= Oldest(b)
  <2>1. From(b) \in Nat /\ Consumed \in Nat /\ From(b)' = From(b)
    BY <1>1, Numbers
  <2>2. QED
    BY <2>1, <1>0 DEF Oldest, Later
<1>3. ASSUME NEW b \in 1..Newest, b < Newest PROVE (From(b + 1) < Oldest(b) + Size(b))'
  <2>1. From(b + 1) < Oldest(b) + Size(b) /\ b + 1 \in 1..Newest
    <3>1. From(b + 1) < Oldest(b) + Size(b)
      BY <1>3 DEF Layout
    <3>2. QED
      BY <1>3, <3>1, Numbers
  <2>2. QED
    BY <2>1, <1>1, <1>2, <1>3, Numbers
<1>4. QED
  BY <1>1, <1>3, Numbers DEF Layout, ArraysKept

\* The words are those they were, but for a limit that may be another.
LEMMA WordsFrame ==
    ASSUME Types, Layout, Words, InResize' <=> InResize, MaskDue' <=> MaskDue,
           UNCHANGED <<producerIndex, producerMask, producerBuffer, consumerIndex, spans, order,
                       maxQueueCapacity>>,
           producerLimit' <= 2 * Bound, producerLimit' <= 2 * Limit
    PROVE  Words'
<1>1. Newest' = Newest /\ Count' = Count /\ Consumed' = Consumed
  BY DEF Newest, Count, Consumed
<1>2. \A b : From(b)' = From(b) /\ Size(b)' = Size(b) /\ Oldest(b)' = Oldest(b) /\ Room(b)' = Room(b)
  BY <1>1 DEF From, Size, Oldest, Room
<1>3. Bound' = Bound /\ Limit' = Limit
  BY <1>1, <1>2 DEF Bound, Limit
<1>4. (InResize' <=> InResize) /\ (MaskDue' <=> MaskDue)
  OBVIOUS
<1>5. (producerMask = MaskOf(Size(IF MaskDue THEN Newest - 1 ELSE Newest)))'
  BY <1>1, <1>2, <1>4 DEF Words
<1>6. QED
  BY <1>1, <1>2, <1>3, <1>4, <1>5 DEF Words

\* The consumer is where it was.
LEMMA ConsumingFrame ==
    ASSUME Types, Layout, Consuming, WorkDone, UNCHANGED <<popper, spans, order>>
    PROVE  Consuming'
<1>1. Newest' = Newest /\ Count' = Count /\ Consumed' = Consumed
  BY DEF Newest, Count, Consumed, popper
<1>2. \A b, n : From(b)' = From(b) /\ Size(b)' = Size(b) /\ (In(b, n)' <=> In(b, n))
  BY <1>1 DEF From, Size, In
<1>3. (Pending(Consumed)' => Pending(Consumed)) /\ (JumpDue(consumerBuffer)' => JumpDue(consumerBuffer))
  <2>1. PICK n \in Nat, b \in Nat : n = Consumed /\ b = consumerBuffer
    BY Numbers DEF Consuming
  <2>2. (Pending(n)' => Pending(n)) /\ (JumpDue(b)' => JumpDue(b))
    BY DEF WorkDone
  <2>3. n = Consumed' /\ b = consumerBuffer'
    BY <2>1, <1>1 DEF popper
  <2>4. (Pending(Consumed)' <=> Pending(n)') /\ (JumpDue(consumerBuffer)' <=> JumpDue(b)')
    BY <2>3 DEF Pending, JumpDue
  <2>5. QED
    BY <2>1, <2>2, <2>4
<1>4. UNCHANGED <<consumerIndex, consumerMask, consumerBuffer, consumer, got, order>>
  BY DEF popper
<1>5. QED
  BY <1>1, <1>2, <1>3, <1>4 DEF Consuming

\* The slots hold what they held.
LEMMA SlotsFrame ==
    ASSUME Types, Layout, Slots, SlotWork, UNCHANGED <<arrays, spans, order, consumerIndex, consumerBuffer>>,
           consumer' = "advance" <=> consumer = "advance"
    PROVE  Slots'
<1>1. Newest' = Newest /\ Count' = Count /\ Consumed' = Consumed
  BY DEF Newest, Count, Consumed
<1>2. \A b, n : From(b)' = From(b) /\ Size(b)' = Size(b) /\ (In(b, n)' <=> In(b, n))
  BY <1>1 DEF From, Size, In
<1>3. ElementsPlaced'
  <2>1. \A n \in Consumed..(Count - 1) : Absent(n)' <=> Absent(n)
    BY <1>1, Numbers DEF SlotWork, Absent
  <2>2. QED
    BY <2>1, <1>1, <1>2 DEF Slots, ElementsPlaced
<1>4. JumpsPlaced' /\ LinksPlaced'
  <2>1. \A b \in 1..Newest : (JumpDue(b)' <=> JumpDue(b)) /\ (Linked(b)' <=> Linked(b))
    BY <1>1, Numbers DEF SlotWork, Linked
  <2>2. JumpsPlaced'
    BY <2>1, <1>1, <1>2 DEF Slots, JumpsPlaced
  <2>3. LinksPlaced'
    BY <2>1, <1>1, <1>2 DEF Slots, LinksPlaced
  <2>4. QED
    BY <2>2, <2>3
<1>5. OthersFree'
  BY <1>1, <1>2 DEF Slots, OthersFree
<1>6. QED
  BY <1>3, <1>4, <1>5 DEF Slots

\* What a producer has read gets older, but does not become false.
Forward ==
    /\ Newest' \in Nat /\ Newest' >= Newest /\ Bound' \in Nat /\ Bound' >= Bound
    /\ Limit' \in Nat /\ Limit' >= Limit
    /\ producerIndex' \in Nat /\ producerIndex' >= producerIndex
    /\ consumerIndex' \in Nat /\ consumerIndex' >= consumerIndex
    /\ maxQueueCapacity' = maxQueueCapacity
    /\ \A b \in 1..Newest : Size(b)' = Size(b)
    /\ \A n \in Nat : producerIndex' = 2 * n /\ producerIndex' = producerIndex => Newest' = Newest

\* A producer that has stayed where it was still knows what it knew.
LEMMA TryingForward ==
    ASSUME Types, Layout, NEW q \in Producers, TryingSound(q), Forward,
           pc'[q] = pc[q], local'[q] = local[q]
    PROVE  TryingSound(q)'
<1>1. /\ local[q] \in Locals /\ Num(q)' = Num(q) /\ Num(q) \in Nat
      /\ Newest \in Nat /\ Bound \in Nat /\ Limit \in Nat /\ producerIndex \in Nat /\ consumerIndex \in Nat
  <2>1. local[q] \in Locals /\ producerIndex \in Nat /\ consumerIndex \in Nat
    BY DEF Types
  <2>2. Num(q) \in Nat
    BY <2>1, Half DEF Num, Locals
  <2>3. QED
    BY <2>1, <2>2, Numbers DEF Num
<1>2. local'[q].limit <= 2 * Bound' /\ local'[q].limit <= 2 * Limit'
  BY <1>1 DEF Forward, TryingSound, Locals
<1>3. pc[q] \in Trying => /\ local[q].index = 2 * Num(q) /\ local[q].index <= producerIndex
                          /\ local[q].index <= producerIndex'
                          /\ local[q].index = producerIndex' =>
                               local[q].index = producerIndex /\ Newest' = Newest
  <2>1. pc[q] \in Trying => local[q].index = 2 * Num(q) /\ local[q].index <= producerIndex
    BY DEF TryingSound
  <2>2. pc[q] \in Trying /\ local[q].index = producerIndex' =>
          local[q].index = producerIndex /\ producerIndex' = 2 * Num(q)
    BY <1>1, <2>1 DEF Forward, Locals
  <2>3. QED
    BY <1>1, <2>1, <2>2 DEF Forward, Locals
<1>4. (pc[q] \in Trying \ {"readMask"} =>
         \E b \in 1..Newest : /\ local[q].mask = MaskOf(Size(b))
                              /\ local[q].index = producerIndex => b = Newest)'
  <2>1. SUFFICES ASSUME pc[q] \in Trying \ {"readMask"}
                 PROVE  \E b \in 1..Newest' : /\ local[q].mask = MaskOf(Size(b)')
                                              /\ local[q].index = producerIndex' => b = Newest'
    BY DEF MaskOf
  <2>2. PICK b \in 1..Newest : /\ local[q].mask = MaskOf(Size(b))
                               /\ local[q].index = producerIndex => b = Newest
    BY <2>1 DEF TryingSound
  <2>3. b \in 1..Newest' /\ Size(b)' = Size(b)
    BY <1>1 DEF Forward
  <2>4. QED
    BY <2>1, <2>2, <2>3, <1>3
<1>5. (pc[q] \in Trying \ {"readMask", "readBuffer"} =>
         /\ local[q].buffer \in 1..Newest
         /\ local[q].index = producerIndex => local[q].buffer = Newest)'
  BY <1>1, <1>3 DEF TryingSound, Forward
<1>6. (pc[q] = "casLimit" => /\ local[q].seen <= consumerIndex
                             /\ local[q].index < local[q].seen + CurrentBufferCapacity(local[q].mask))'
  BY <1>1 DEF TryingSound, Forward, CurrentBufferCapacity, Locals
<1>7. (pc[q] \in {"casLimit", "casIndex"} => Num(q) < Bound /\ Num(q) < Limit)'
  BY <1>1 DEF TryingSound, Forward
<1>8. (pc[q] = "casResize" => /\ local[q].mask + 2 # maxQueueCapacity
                              /\ Num(q) < Limit /\ Num(q) >= 1)'
  BY <1>1 DEF TryingSound, Forward
<1>9. (pc[q] \in Trying => local[q].index = 2 * Num(q) /\ local[q].index <= producerIndex)'
  BY <1>1, <1>3
<1>10. QED
  BY <1>2, <1>4, <1>5, <1>6, <1>7, <1>8, <1>9 DEF TryingSound

\* A producer at work, when neither the arrays nor the indices have changed.
LEMMA OwningFrame ==
    ASSUME NEW q \in Producers, OwningSound(q), pc'[q] = pc[q], local'[q] = local[q],
           UNCHANGED <<spans, order, pushed, consumerIndex, consumerBuffer, maxQueueCapacity>>
    PROVE  OwningSound(q)'
<1>1. Newest' = Newest /\ Count' = Count /\ Consumed' = Consumed /\ Num(q)' = Num(q)
  BY DEF Newest, Count, Consumed, Num
<1>2. \A b, n : From(b)' = From(b) /\ Size(b)' = Size(b) /\ (In(b, n)' <=> In(b, n))
  BY <1>1 DEF From, Size, In
<1>3. UNCHANGED <<spans, order, pushed, consumerIndex, consumerBuffer, maxQueueCapacity>>
  OBVIOUS
<1>4. In(local[q].buffer, Num(q))' <=> In(local[q].buffer, Num(q))
  BY <1>1, <1>2 DEF In, From, Num
<1>5. Size(local[q].buffer)' = Size(local[q].buffer)
  BY DEF Size
<1>6. From(local[q].buffer)' = From(local[q].buffer) /\ From(local[q].buffer + 1)' = From(local[q].buffer + 1)
  BY DEF From
<1>7. Size(Newest)' = Size(Newest) /\ From(Newest)' = From(Newest)
  BY <1>1 DEF Size, From
<1>8. QED
  BY <1>1, <1>3, <1>4, <1>5, <1>6, <1>7 DEF OwningSound

\* A step of p alone, that leaves the arrays and the indices as they are; it may move the
\* limit, to where no index lies that must not be given out.
QuietBy(p, from, to) ==
    /\ Moves(p, from, to) /\ Minds(p) /\ WorkKept(p)
    /\ UNCHANGED <<producerIndex, producerMask, producerBuffer, popper, arrays, record>>
    /\ producerLimit' \in Nat /\ producerLimit' <= 2 * Bound /\ producerLimit' <= 2 * Limit
    /\ answer' \in [Producers -> {"none", "pending", "pushed", "full"}]

\* All that is left to show of such a step is about p.
LEMMA Quiet ==
    ASSUME Inv, NEW p \in Producers, NEW from, NEW to, QuietBy(p, from, to),
           Calling', TryingSound(p)', OwningSound(p)'
    PROVE  Inv'
<1>1. Types /\ Calling /\ Layout /\ Words /\ Producing /\ Consuming /\ Slots
  BY DEF Inv
<1>2. SameWork
  BY WorkSame DEF QuietBy
<1>3. /\ UNCHANGED <<producerIndex, producerMask, producerBuffer, popper, arrays, record>>
      /\ producerLimit' \in Nat /\ producerLimit' <= 2 * Bound /\ producerLimit' <= 2 * Limit
  BY DEF QuietBy
<1>4. /\ UNCHANGED <<spans, order, pushed, maxQueueCapacity>>
      /\ UNCHANGED <<consumerIndex, consumerMask, consumerBuffer, consumer, got, taken>>
  BY <1>3 DEF popper, record
<1>5. Types'
  <2>1. pc' \in [Producers -> Free \cup Owning] /\ local' \in [Producers -> Locals]
    BY DEF QuietBy, Moves, Minds
  <2>2. answer' \in [Producers -> {"none", "pending", "pushed", "full"}]
    BY DEF QuietBy
  <2>3. QED
    BY <1>1, <1>3, <1>4, <2>1, <2>2 DEF Types
<1>6. Layout'
  <2>1. ArraysKept /\ Consumed' = Consumed
    BY <1>3, <1>4 DEF ArraysKept, Consumed
  <2>2. QED
    BY <1>1, <1>4, <1>5, <2>1, LayoutFrame, Numbers
<1>7. Words'
  BY <1>1, <1>2, <1>3, <1>4, WordsFrame DEF SameWork
<1>8. Consuming'
  BY <1>1, <1>2, <1>3, <1>4, ConsumingFrame DEF SameWork, SlotWork, WorkDone
<1>9. Slots'
  BY <1>1, <1>2, <1>3, <1>4, SlotsFrame DEF SameWork
<1>10. Forward
  <2>1. Newest' = Newest /\ Consumed' = Consumed /\ \A b : From(b)' = From(b) /\ Size(b)' = Size(b)
    BY <1>4 DEF Newest, From, Size, Consumed
  <2>2. Bound' = Bound /\ Limit' = Limit
    BY <2>1, <1>4 DEF Bound, Limit, Oldest, Room
  <2>3. producerIndex \in Nat /\ consumerIndex \in Nat
    BY <1>1 DEF Types
  <2>4. QED
    BY <1>1, <1>3, <1>4, <2>1, <2>2, <2>3, Numbers DEF Forward
<1>11. ASSUME NEW q \in Producers PROVE TryingSound(q)' /\ OwningSound(q)'
  <2>1. ASSUME q # p PROVE pc'[q] = pc[q] /\ local'[q] = local[q]
    BY <2>1 DEF QuietBy, Moves, Minds
  <2>2. TryingSound(q) /\ OwningSound(q)
    BY <1>1 DEF Producing
  <2>3. ASSUME q # p PROVE TryingSound(q)' /\ OwningSound(q)'
    BY <1>1, <1>4, <1>10, <2>1, <2>2, <2>3, TryingForward, OwningFrame
  <2>4. QED
    BY <2>3
<1>12. OwnersApart'
  <2>1. \A q \in Producers : /\ pc'[q] \in Owning <=> pc[q] \in Owning
                             /\ pc[q] \in Owning => Num(q)' = Num(q)
    BY DEF QuietBy, Moves, Minds, WorkKept, Num
  <2>2. QED
    BY <1>1, <2>1 DEF Producing, OwnersApart
<1>13. QED
  BY <1>5, <1>6, <1>7, <1>8, <1>9, <1>11, <1>12 DEF Inv, Producing

\* A producer's step is a move.
LEMMA StepMoves ==
    ASSUME Types, NEW p \in Producers, NEW from, NEW to, Step(p, from, to), to \in Free \cup Owning
    PROVE  Moves(p, from, to)
<1>1. pc \in [Producers -> Free \cup Owning]
  BY DEF Types
<1>2. QED
  BY <1>1 DEF Step, Moves

\* The local variables of a producer, and the words, are numbers.
LEMMA Locally ==
    ASSUME Types, Layout, NEW p \in Producers
    PROVE  /\ local \in [Producers -> Locals] /\ local[p] \in Locals
           /\ local[p].index \in Nat /\ local[p].limit \in Nat /\ local[p].mask \in Nat
           /\ local[p].buffer \in Nat /\ local[p].seen \in Nat /\ Num(p) \in Nat
           /\ producerIndex \in Nat /\ consumerIndex \in Nat /\ producerLimit \in Nat
           /\ producerMask \in Nat /\ maxQueueCapacity \in Nat
           /\ NoLocal \in Locals
<1>1. /\ local \in [Producers -> Locals]
      /\ producerIndex \in Nat /\ consumerIndex \in Nat /\ producerLimit \in Nat
      /\ producerMask \in Nat /\ maxQueueCapacity \in Nat
  BY DEF Types
<1>2. /\ local[p].index \in Nat /\ local[p].limit \in Nat /\ local[p].mask \in Nat
      /\ local[p].buffer \in Nat /\ local[p].seen \in Nat
  BY <1>1 DEF Locals
<1>3. NoLocal \in Locals
  BY DEF NoLocal, Locals
<1>4. QED
  BY <1>1, <1>2, <1>3, Half DEF Num

\* A quiet step leaves the numbers as they are.
LEMMA QuietSame ==
    ASSUME NEW p, NEW from, NEW to, QuietBy(p, from, to)
    PROVE  /\ pc[p] = from /\ pc'[p] = to
           /\ Newest' = Newest /\ Bound' = Bound /\ Limit' = Limit /\ producerIndex' = producerIndex
           /\ consumerIndex' = consumerIndex /\ maxQueueCapacity' = maxQueueCapacity
           /\ \A b : Size(b)' = Size(b) /\ From(b)' = From(b)
           /\ order' = order /\ pushed' = pushed /\ consumerBuffer' = consumerBuffer
           /\ Consumed' = Consumed /\ Count' = Count
<1>1. /\ producerIndex' = producerIndex /\ consumerIndex' = consumerIndex
      /\ maxQueueCapacity' = maxQueueCapacity /\ spans' = spans /\ order' = order /\ pushed' = pushed
      /\ consumerBuffer' = consumerBuffer
  BY DEF QuietBy, popper, record
<1>2. /\ Newest' = Newest /\ Consumed' = Consumed /\ Count' = Count
      /\ \A b : Size(b)' = Size(b) /\ From(b)' = From(b)
  BY <1>1 DEF Newest, Consumed, Count, Size, From
<1>3. Bound' = Bound /\ Limit' = Limit
  BY <1>1, <1>2 DEF Bound, Limit, Oldest, Room
<1>4. QED
  BY <1>1, <1>2, <1>3 DEF QuietBy, Moves

\* A producer that is not given an index, and not told anything, goes on asking.
LEMMA CallingFrame ==
    ASSUME Calling, NEW p \in Producers, NEW from, NEW to, Moves(p, from, to),
           from \in Asking <=> to \in Asking, UNCHANGED <<pushed, calls, answer>>
    PROVE  Calling'
  BY DEF Calling, Moves

\* A producer without an index has nothing to do for one.
LEMMA FreeOwesNothing ==
    ASSUME NEW p, pc'[p] \in Free
    PROVE  OwningSound(p)'
  BY DEF OwningSound, Free, Asking, Trying, Owning, Resizing, Jumping

\* A step between free labels, of which the limit is known.
LEMMA QuietFree ==
    ASSUME Types, NEW p \in Producers, NEW from, NEW to, Step(p, from, to), from \in Free, to \in Free,
           Minds(p),
           UNCHANGED <<producerIndex, producerMask, producerBuffer, popper, arrays, record>>,
           producerLimit' \in Nat, producerLimit' <= 2 * Bound, producerLimit' <= 2 * Limit,
           answer' \in [Producers -> {"none", "pending", "pushed", "full"}]
    PROVE  QuietBy(p, from, to) /\ OwningSound(p)'
<1>1. Moves(p, from, to)
  BY StepMoves
<1>2. pc[p] \in Free /\ pc'[p] \in Free
  BY <1>1 DEF Moves
<1>3. QED
  BY <1>1, <1>2, FreeWork, FreeOwesNothing DEF QuietBy

\* The words as the producers use them.
LEMMA WordsSay ==
    ASSUME Types, Words
    PROVE  /\ producerLimit \in Nat /\ producerLimit <= 2 * Bound /\ producerLimit <= 2 * Limit
           /\ producerIndex \in Nat /\ producerBuffer = Newest /\ consumerIndex = 2 * Consumed
           /\ answer \in [Producers -> {"none", "pending", "pushed", "full"}]
  BY DEF Types, Words

\* Call.
LEMMA CallKeeps == ASSUME Inv, NEW p \in Producers, Call(p) PROVE Inv'
<1>1. Types /\ Calling /\ Layout /\ Words /\ TryingSound(p)
  BY DEF Inv, Producing
<1>2. /\ Step(p, "off", "readLimit") /\ calls < MaxPushes /\ calls' = calls + 1
      /\ answer' = [answer EXCEPT ![p] = "pending"]
      /\ UNCHANGED <<indices, popper, arrays, local, record>>
  BY DEF Call
<1>3. "off" \in Free /\ "readLimit" \in Free /\ "off" \notin Asking /\ "readLimit" \in Asking
      /\ "readLimit" \notin Trying
  BY DEF Free, Asking, Trying
<1>4. QuietBy(p, "off", "readLimit") /\ OwningSound(p)'
  <2>1. Minds(p)
    BY <1>1, <1>2, Locally DEF Minds
  <2>2. answer' \in [Producers -> {"none", "pending", "pushed", "full"}]
    BY <1>1, <1>2, WordsSay
  <2>3. UNCHANGED <<producerIndex, producerLimit, producerMask, producerBuffer, popper, arrays, record>>
    BY <1>2 DEF indices
  <2>4. QED
    BY <1>1, <1>2, <1>3, <2>1, <2>2, <2>3, QuietFree, WordsSay
<1>5. Calling'
  <2>1. pushed' = pushed /\ calls \in Nat /\ pushed \in [Producers -> Nat]
    BY <1>1, <1>2 DEF record, Calling
  <2>2. \A q \in Producers : q # p => pc'[q] = pc[q] /\ answer'[q] = answer[q]
    BY <1>1, <1>2, <1>4, WordsSay DEF QuietBy, Moves
  <2>3. pc'[p] = "readLimit" /\ answer'[p] = "pending"
    BY <1>1, <1>2, <1>4, WordsSay DEF QuietBy, Moves
  <2>4. \A q \in Producers : pushed[q] <= calls
    BY <1>1 DEF Calling
  <2>5. ASSUME NEW q \in Producers
        PROVE  /\ pushed[q] <= calls + 1
               /\ pc'[q] \in Asking => pushed[q] < calls + 1
               /\ pc'[q] \in Asking <=> answer'[q] = "pending"
    BY <1>1, <1>3, <2>1, <2>2, <2>3, <2>4 DEF Calling
  <2>6. QED
    BY <1>2, <2>1, <2>5, Constants DEF Calling
<1>6. TryingSound(p)'
  <2>1. local'[p] = local[p] /\ pc'[p] = "readLimit"
    BY <1>2, <1>4, QuietSame
  <2>2. QED
    BY <1>1, <1>3, <1>4, <2>1, QuietSame DEF TryingSound
<1>7. QED
  BY <1>4, <1>5, <1>6, Quiet

\* ReadLimit.
LEMMA ReadLimitKeeps == ASSUME Inv, NEW p \in Producers, ReadLimit(p) PROVE Inv'
<1>1. Types /\ Calling /\ Layout /\ Words /\ TryingSound(p)
  BY DEF Inv, Producing
<1>2. /\ Step(p, "readLimit", "readIndex") /\ local' = [local EXCEPT ![p].limit = producerLimit]
      /\ UNCHANGED <<indices, popper, arrays, record, calls, answer>>
  BY DEF ReadLimit
<1>3. "readLimit" \in Free /\ "readIndex" \in Free /\ "readLimit" \in Asking /\ "readIndex" \in Asking
      /\ "readIndex" \notin Trying
  BY DEF Free, Asking, Trying
<1>4. Minds(p) /\ local'[p].limit = producerLimit
  BY <1>1, <1>2, Locally DEF Minds, Locals
<1>5. QuietBy(p, "readLimit", "readIndex") /\ OwningSound(p)'
  <2>1. UNCHANGED <<producerIndex, producerLimit, producerMask, producerBuffer, popper, arrays, record, answer>>
    BY <1>2 DEF indices
  <2>2. QED
    BY <1>1, <1>2, <1>3, <1>4, <2>1, QuietFree, WordsSay
<1>6. Calling'
  <2>1. UNCHANGED <<pushed, calls, answer>>
    BY <1>2 DEF record
  <2>2. QED
    BY <1>1, <1>3, <1>5, <2>1, CallingFrame DEF QuietBy
<1>7. TryingSound(p)'
  BY <1>1, <1>3, <1>4, <1>5, QuietSame, WordsSay DEF TryingSound
<1>8. QED
  BY <1>5, <1>6, <1>7, Quiet

\* A step of a producer that goes on asking.
LEMMA Asks ==
    ASSUME Inv, NEW p \in Producers, NEW from, NEW to, Step(p, from, to), from \in Asking, to \in Asking,
           Minds(p),
           UNCHANGED <<producerIndex, producerMask, producerBuffer, popper, arrays, record, calls, answer>>,
           producerLimit' \in Nat, producerLimit' <= 2 * Bound, producerLimit' <= 2 * Limit
    PROVE  /\ QuietBy(p, from, to)
           /\ TryingSound(p)' => Inv'
<1>1. Types /\ Calling /\ Layout /\ Words
  BY DEF Inv
<1>2. from \in Free /\ to \in Free
  BY DEF Free
<1>3. QuietBy(p, from, to) /\ OwningSound(p)'
  BY <1>1, <1>2, QuietFree, WordsSay
<1>4. Calling'
  <2>1. UNCHANGED <<pushed, calls, answer>>
    BY DEF record
  <2>2. QED
    BY <1>1, <1>3, <2>1, CallingFrame DEF QuietBy
<1>5. QED
  BY <1>3, <1>4, Quiet

\* An index without the mark of a resize is twice a number.
LEMMA EvenIndex ==
    ASSUME Types, Layout, Words, NEW n \in Nat, producerIndex = 2 * n
    PROVE  n = Count /\ Count <= Bound /\ ~InResize
  BY Numbers DEF Words

\* ReadIndex.
LEMMA ReadIndexKeeps == ASSUME Inv, NEW p \in Producers, ReadIndex(p) PROVE Inv'
<1>1. Types /\ Layout /\ Words /\ TryingSound(p)
  BY DEF Inv, Producing
<1> DEFINE to == IF producerIndex % 2 = 1 THEN "readLimit" ELSE "readMask"
<1>2. /\ Step(p, "readIndex", to) /\ local' = [local EXCEPT ![p].index = producerIndex]
      /\ UNCHANGED <<indices, popper, arrays, record, calls, answer>>
  BY DEF ReadIndex
<1>3. "readIndex" \in Asking /\ to \in Asking /\ "readLimit" \notin Trying
  BY DEF Asking, Trying
<1>4. Minds(p) /\ local'[p].index = producerIndex /\ local'[p].limit = local[p].limit
  BY <1>1, <1>2, Locally DEF Minds, Locals
<1>5. producerIndex % 2 # 1 => producerIndex = 2 * (producerIndex \div 2)
  BY <1>1, WordsSay
<1>6. (Num(p) = producerIndex \div 2)'
  BY <1>2, <1>4 DEF Num, indices
<1> HIDE DEF to
<1>7. QuietBy(p, "readIndex", to) /\ (TryingSound(p)' => Inv')
  BY <1>1, <1>2, <1>3, <1>4, Asks, WordsSay DEF indices
<1>8. pc'[p] = to /\ producerIndex' = producerIndex
  BY <1>7, QuietSame
<1>9. CASE producerIndex % 2 = 1
  <2>1. pc'[p] = "readLimit"
    BY <1>8, <1>9 DEF to
  <2>2. TryingSound(p)'
    BY <1>1, <1>3, <1>4, <1>7, <2>1, QuietSame DEF TryingSound
  <2>3. QED
    BY <1>7, <2>2
<1>10. CASE producerIndex % 2 # 1
  <2>1. pc'[p] = "readMask"
    BY <1>8, <1>10 DEF to
  <2>2. (local[p].index = 2 * Num(p) /\ local[p].index <= producerIndex)'
    BY <1>1, <1>4, <1>5, <1>6, <1>8, <1>10, WordsSay
  <2>3. TryingSound(p)'
    BY <1>1, <1>3, <1>4, <1>7, <2>1, <2>2, QuietSame DEF TryingSound
  <2>4. QED
    BY <1>7, <2>3
<1>11. QED
  BY <1>9, <1>10

\* ReadMask.
LEMMA ReadMaskKeeps == ASSUME Inv, NEW p \in Producers, ReadMask(p) PROVE Inv'
<1>1. Types /\ Layout /\ Words /\ TryingSound(p) /\ Producing
  BY DEF Inv, Producing
<1>2. /\ Step(p, "readMask", "readBuffer") /\ local' = [local EXCEPT ![p].mask = producerMask]
      /\ UNCHANGED <<indices, popper, arrays, record, calls, answer>>
  BY DEF ReadMask
<1>3. "readMask" \in Asking /\ "readBuffer" \in Asking /\ "readMask" \in Trying /\ "readBuffer" \in Trying
  BY DEF Asking, Trying
<1>4. /\ Minds(p) /\ local'[p].index = local[p].index /\ local'[p].limit = local[p].limit
      /\ local'[p].mask = producerMask
  BY <1>1, <1>2, Locally DEF Minds, Locals
<1>5. QuietBy(p, "readMask", "readBuffer") /\ (TryingSound(p)' => Inv')
  BY <1>1, <1>2, <1>3, <1>4, Asks, WordsSay DEF indices
<1>6. local[p].index = 2 * Num(p) /\ local[p].index <= producerIndex
  BY <1>1, <1>2, <1>3 DEF TryingSound, Step
<1>7. Num(p)' = Num(p)
  BY <1>4 DEF Num
<1>8. \E b \in 1..Newest : /\ producerMask = MaskOf(Size(b))
                           /\ local[p].index = producerIndex => b = Newest
  <2>1. CASE MaskDue
    <3>1. PICK q \in Producers : pc[q] = "resizeMask"
      BY <2>1 DEF MaskDue
    <3>2. pc[q] \in Owning /\ pc[q] \in Resizing \ {"resizeBuffer"}
      BY <3>1 DEF Owning, Resizing
    <3>3. local[q].buffer \in 1..Newest /\ local[q].buffer = Newest - 1
      BY <1>1, <3>2 DEF Producing, OwningSound
    <3>4. InResize
      BY <3>2 DEF InResize
    <3>5. local[p].index # producerIndex
      BY <1>1, <1>6, <3>4, EvenIndex, Locally
    <3>6. producerMask = MaskOf(Size(Newest - 1))
      BY <1>1, <2>1 DEF Words
    <3>7. QED
      BY <3>3, <3>5, <3>6
  <2>2. CASE ~MaskDue
    <3>1. producerMask = MaskOf(Size(Newest))
      BY <1>1, <2>2 DEF Words
    <3>2. QED
      BY <1>1, <3>1, Numbers
  <2>3. QED
    BY <2>1, <2>2
<1>9. (\E b \in 1..Newest : /\ local[p].mask = MaskOf(Size(b))
                            /\ local[p].index = producerIndex => b = Newest)'
  BY <1>4, <1>5, <1>8, QuietSame DEF MaskOf
<1>10. pc'[p] = "readBuffer"
  BY <1>5, QuietSame
<1>11. TryingSound(p)'
  BY <1>1, <1>4, <1>5, <1>6, <1>7, <1>9, <1>10, QuietSame DEF TryingSound
<1>12. QED
  BY <1>5, <1>11

\* ReadBuffer.
LEMMA ReadBufferKeeps == ASSUME Inv, NEW p \in Producers, ReadBuffer(p) PROVE Inv'
<1>1. Types /\ Layout /\ Words /\ TryingSound(p)
  BY DEF Inv, Producing
<1> DEFINE to == IF local[p].limit <= local[p].index THEN "slowPath" ELSE "casIndex"
<1>2. /\ Step(p, "readBuffer", to) /\ local' = [local EXCEPT ![p].buffer = producerBuffer]
      /\ UNCHANGED <<indices, popper, arrays, record, calls, answer>>
  BY DEF ReadBuffer
<1>3. /\ "readBuffer" \in Asking /\ to \in Asking /\ to \in {"slowPath", "casIndex"}
      /\ "readBuffer" \in Trying \ {"readMask"}
  BY DEF Asking, Trying
<1>4. /\ Minds(p) /\ local'[p].index = local[p].index /\ local'[p].limit = local[p].limit
      /\ local'[p].mask = local[p].mask /\ local'[p].buffer = Newest
  <2>1. producerBuffer = Newest /\ Newest \in Nat
    BY <1>1, WordsSay, Numbers
  <2>2. QED
    BY <1>1, <1>2, <2>1, Locally DEF Minds, Locals
<1>5. to = "casIndex" => local[p].index < local[p].limit
  BY <1>1, Locally
<1> HIDE DEF to
<1>6. QuietBy(p, "readBuffer", to) /\ (TryingSound(p)' => Inv')
  BY <1>1, <1>2, <1>3, <1>4, Asks, WordsSay DEF indices
<1>7. /\ local[p].index = 2 * Num(p) /\ local[p].index <= producerIndex
      /\ local[p].limit <= 2 * Bound /\ local[p].limit <= 2 * Limit
      /\ \E b \in 1..Newest : /\ local[p].mask = MaskOf(Size(b))
                              /\ local[p].index = producerIndex => b = Newest
  BY <1>1, <1>2, <1>3 DEF TryingSound, Step
<1>8. Num(p)' = Num(p)
  BY <1>4 DEF Num
<1>9. (\E b \in 1..Newest : /\ local[p].mask = MaskOf(Size(b))
                            /\ local[p].index = producerIndex => b = Newest)'
  BY <1>4, <1>6, <1>7, QuietSame DEF MaskOf
<1>10. pc'[p] = to
  BY <1>6, QuietSame
<1>11. to = "casIndex" => Num(p) < Bound /\ Num(p) < Limit
  BY <1>1, <1>5, <1>7, Locally, Numbers
<1>12. Newest \in 1..Newest
  BY <1>1, Numbers
<1>13. TryingSound(p)'
  BY <1>3, <1>4, <1>6, <1>7, <1>8, <1>9, <1>10, <1>11, <1>12, QuietSame DEF TryingSound
<1>14. QED
  BY <1>6, <1>13

\* How many elements an array of this mask is said to hold, and that later arrays hold more.
LEMMA Capacity ==
    ASSUME Types, Layout, NEW b \in 1..Newest
    PROVE  /\ CurrentBufferCapacity(MaskOf(Size(b))) = 2 * Room(b)
           /\ Room(b) \in Nat /\ Room(b) >= 1 /\ 2 * Room(b) <= maxQueueCapacity
           /\ Consumed + Room(b) <= Bound
<1>1. Size(b) \in Nat /\ Size(b) >= 2 /\ maxQueueCapacity \in Nat /\ Newest \in 1..Newest
  BY Numbers DEF Types
<1>2. \A c \in 1..Newest : 2 * Size(c) <= maxQueueCapacity
  BY DEF Layout
<1>3. CurrentBufferCapacity(MaskOf(Size(b))) = 2 * Room(b)
  BY <1>1, MaskSays DEF CurrentBufferCapacity, Room, MaskOf
<1>4. Room(b) \in Nat /\ Room(b) >= 1 /\ 2 * Room(b) <= maxQueueCapacity
  BY <1>1, <1>2 DEF Room
<1>5. Room(b) <= Room(Newest)
  <2>1. Size(b) <= Size(Newest) /\ 2 * Size(Newest) <= maxQueueCapacity /\ Size(Newest) \in Nat
    BY <1>1, <1>2, FromAscends, Numbers
  <2>2. QED
    BY <1>1, <2>1 DEF Room
<1>6. Consumed + Room(b) <= Bound
  BY <1>1, <1>4, <1>5, Numbers DEF Bound
<1>7. QED
  BY <1>3, <1>4, <1>5, <1>6

\* What is known of a producer that takes the slow path, or one of its exits.
LEMMA SlowSays ==
    ASSUME Types, Layout, Words, NEW p \in Producers, TryingSound(p),
           pc[p] \in {"slowPath", "casLimit", "casIndex", "casResize"}
    PROVE  /\ local[p].index = 2 * Num(p) /\ local[p].index <= producerIndex /\ Num(p) <= Count
           /\ local[p].limit <= 2 * Bound /\ local[p].limit <= 2 * Limit
           /\ local[p].buffer \in 1..Newest
           /\ local[p].index = producerIndex => local[p].buffer = Newest
           /\ \E b \in 1..Newest : /\ local[p].mask = MaskOf(Size(b))
                                   /\ local[p].index = producerIndex => b = Newest
<1>1. pc[p] \in Trying \ {"readMask"} /\ pc[p] \in Trying \ {"readMask", "readBuffer"}
  BY DEF Trying
<1>2. /\ local[p].index = 2 * Num(p) /\ local[p].index <= producerIndex
      /\ local[p].limit <= 2 * Bound /\ local[p].limit <= 2 * Limit
  BY <1>1 DEF TryingSound
<1>3. /\ local[p].buffer \in 1..Newest
      /\ local[p].index = producerIndex => local[p].buffer = Newest
  BY <1>1 DEF TryingSound
<1>4. \E b \in 1..Newest : /\ local[p].mask = MaskOf(Size(b))
                           /\ local[p].index = producerIndex => b = Newest
  BY <1>1 DEF TryingSound
<1>5. Num(p) <= Count
  <2>1. producerIndex <= 2 * Count
    BY Numbers DEF Words
  <2>2. QED
    BY <2>1, <1>2, Locally, Numbers
<1>6. QED
  BY <1>2, <1>3, <1>4, <1>5

\* PushSlowPath: there is room after all.
LEMMA RoomKeeps ==
    ASSUME Inv, NEW p \in Producers, Step(p, "slowPath", "casLimit"),
           consumerIndex + CurrentBufferCapacity(local[p].mask) > local[p].index,
           local' = [local EXCEPT ![p].seen = consumerIndex],
           UNCHANGED <<indices, popper, arrays, record, calls, answer>>
    PROVE  Inv'
<1>1. Types /\ Layout /\ Words /\ TryingSound(p)
  BY DEF Inv, Producing
<1>2. "slowPath" \in Asking /\ "casLimit" \in Asking /\ pc[p] = "slowPath"
  BY DEF Asking, Trying, Step
<1>3. /\ Minds(p) /\ local'[p].index = local[p].index /\ local'[p].limit = local[p].limit
      /\ local'[p].mask = local[p].mask /\ local'[p].buffer = local[p].buffer
      /\ local'[p].seen = consumerIndex
  BY <1>1, Locally DEF Minds, Locals
<1>4. QuietBy(p, "slowPath", "casLimit") /\ (TryingSound(p)' => Inv')
  BY <1>1, <1>2, <1>3, Asks, WordsSay DEF indices
<1>5. PICK b \in 1..Newest : /\ local[p].mask = MaskOf(Size(b))
                             /\ local[p].index = producerIndex => b = Newest
  BY <1>1, <1>2, SlowSays
<1>6. Num(p) < Bound /\ Num(p) < Limit
  <2>1. consumerIndex = 2 * Consumed /\ local[p].index = 2 * Num(p)
    BY <1>1, <1>2, WordsSay, SlowSays
  <2>2. Num(p) < Consumed + Room(b)
    BY <1>1, <1>5, <2>1, Capacity, Locally, Numbers
  <2>3. Consumed + Room(b) <= Limit
    <3>1. 2 * (maxQueueCapacity \div 2) = maxQueueCapacity
      BY <1>1 DEF Layout
    <3>2. QED
      BY <1>1, <3>1, Capacity, Numbers DEF Limit
  <2>4. QED
    BY <1>1, <2>2, <2>3, Capacity, Numbers, Locally
<1>7. Num(p)' = Num(p)
  BY <1>3 DEF Num
<1>8. (\E c \in 1..Newest : /\ local[p].mask = MaskOf(Size(c))
                            /\ local[p].index = producerIndex => c = Newest)'
  BY <1>3, <1>4, <1>5, QuietSame DEF MaskOf
<1>9. pc'[p] = "casLimit"
  BY <1>4, QuietSame
<1>10. (/\ local[p].seen <= consumerIndex
        /\ local[p].index < local[p].seen + CurrentBufferCapacity(local[p].mask))'
  <2>1. CurrentBufferCapacity(local[p].mask)' = CurrentBufferCapacity(local[p].mask)
    BY <1>3, <1>4, QuietSame DEF CurrentBufferCapacity
  <2>2. CurrentBufferCapacity(local[p].mask) \in Nat
    BY <1>1, <1>5, Capacity
  <2>3. QED
    BY <1>1, <1>3, <1>4, <2>1, <2>2, QuietSame, Locally
<1>11. (/\ local[p].index = 2 * Num(p) /\ local[p].index <= producerIndex
        /\ local[p].limit <= 2 * Bound /\ local[p].limit <= 2 * Limit
        /\ local[p].buffer \in 1..Newest
        /\ local[p].index = producerIndex => local[p].buffer = Newest
        /\ Num(p) < Bound /\ Num(p) < Limit)'
  BY <1>1, <1>2, <1>3, <1>4, <1>6, <1>7, SlowSays, QuietSame
<1>12. TryingSound(p)'
  BY <1>8, <1>9, <1>10, <1>11 DEF TryingSound
<1>13. QED
  BY <1>4, <1>12

\* PushSlowPath: the array is full, but it is not the last one.
LEMMA ArrayFullKeeps ==
    ASSUME Inv, NEW p \in Producers, Step(p, "slowPath", "casResize"),
           ~(consumerIndex + CurrentBufferCapacity(local[p].mask) > local[p].index),
           ~(maxQueueCapacity - (local[p].index - consumerIndex) = 0),
           UNCHANGED <<indices, popper, arrays, local, record, calls, answer>>
    PROVE  Inv'
<1>1. Types /\ Layout /\ Words /\ TryingSound(p)
  BY DEF Inv, Producing
<1>2. "slowPath" \in Asking /\ "casResize" \in Asking /\ pc[p] = "slowPath"
  BY DEF Asking, Trying, Step
<1>3. Minds(p) /\ local' = local
  BY <1>1, Locally DEF Minds
<1>4. QuietBy(p, "slowPath", "casResize") /\ (TryingSound(p)' => Inv')
  BY <1>1, <1>2, <1>3, Asks, WordsSay DEF indices
<1>5. PICK b \in 1..Newest : /\ local[p].mask = MaskOf(Size(b))
                             /\ local[p].index = producerIndex => b = Newest
  BY <1>1, <1>2, SlowSays
<1>6. consumerIndex = 2 * Consumed /\ local[p].index = 2 * Num(p) /\ Num(p) <= Count
  BY <1>1, <1>2, WordsSay, SlowSays
<1>7. 2 * Limit = consumerIndex + maxQueueCapacity /\ Count <= Limit
  <2>1. 2 * (maxQueueCapacity \div 2) = maxQueueCapacity /\ Count <= Limit
    BY <1>1 DEF Layout, Words
  <2>2. QED
    BY <1>1, <1>6, <2>1, Numbers DEF Limit
<1>8. Num(p) < Limit
  <2>1. Num(p) \in Nat /\ Limit \in Nat /\ consumerIndex \in Nat /\ maxQueueCapacity \in Nat /\ Count \in Nat
    BY <1>1, Numbers, Locally
  <2>2. ASSUME Num(p) = Limit PROVE FALSE
    <3>1. local[p].index = consumerIndex + maxQueueCapacity
      BY <1>6, <1>7, <2>2
    <3>2. maxQueueCapacity - (local[p].index - consumerIndex) = 0
      BY <2>1, <3>1
    <3>3. QED
      BY <3>2
  <2>3. Num(p) # Limit
    BY <2>2
  <2>4. Num(p) <= Count /\ Count <= Limit
    BY <1>6, <1>7
  <2>5. QED
    BY <2>1, <2>3, <2>4
<1>9. Num(p) >= 1
  BY <1>1, <1>5, <1>6, Capacity, Numbers, Locally
<1>10. local[p].mask + 2 # maxQueueCapacity
  <2>1. ASSUME local[p].mask + 2 = maxQueueCapacity PROVE FALSE
    <3>1. CurrentBufferCapacity(local[p].mask) = maxQueueCapacity
      BY <2>1 DEF CurrentBufferCapacity
    <3>2. QED
      BY <1>1, <1>6, <1>7, <1>8, <3>1, Numbers, Locally
  <2>2. QED
    BY <2>1
<1>11. (\E c \in 1..Newest : /\ local[p].mask = MaskOf(Size(c))
                             /\ local[p].index = producerIndex => c = Newest)'
  BY <1>3, <1>4, <1>5, QuietSame DEF MaskOf
<1>12. pc'[p] = "casResize" /\ Num(p)' = Num(p)
  BY <1>3, <1>4, QuietSame DEF Num
<1>13. (/\ local[p].index = 2 * Num(p) /\ local[p].index <= producerIndex
        /\ local[p].limit <= 2 * Bound /\ local[p].limit <= 2 * Limit
        /\ local[p].buffer \in 1..Newest
        /\ local[p].index = producerIndex => local[p].buffer = Newest
        /\ local[p].mask + 2 # maxQueueCapacity
        /\ Num(p) < Limit /\ Num(p) >= 1)'
  BY <1>1, <1>2, <1>3, <1>4, <1>8, <1>9, <1>10, <1>12, SlowSays, QuietSame
<1>14. TryingSound(p)'
  BY <1>11, <1>12, <1>13 DEF TryingSound
<1>15. QED
  BY <1>4, <1>14

\* PushSlowPath: the queue is full.
LEMMA FullKeeps ==
    ASSUME Inv, NEW p \in Producers, Return(p, "slowPath"), answer' = [answer EXCEPT ![p] = "full"],
           UNCHANGED <<indices, popper, arrays, record, calls>>
    PROVE  Inv'
<1>1. Types /\ Layout /\ Words /\ Calling
  BY DEF Inv
<1>2. Step(p, "slowPath", "off") /\ local' = [local EXCEPT ![p] = NoLocal]
  BY DEF Return
<1>3. "slowPath" \in Free /\ "off" \in Free /\ "off" \notin Asking /\ "off" \notin Trying
  BY DEF Free, Asking, Trying
<1>4. Minds(p) /\ local'[p] = NoLocal
  BY <1>1, <1>2, Locally DEF Minds
<1>5. answer' \in [Producers -> {"none", "pending", "pushed", "full"}]
  BY <1>1, WordsSay
<1>6. QuietBy(p, "slowPath", "off") /\ OwningSound(p)'
  BY <1>1, <1>2, <1>3, <1>4, <1>5, QuietFree, WordsSay DEF indices
<1>7. Calling'
  <2>1. pushed' = pushed /\ calls' = calls
    BY DEF record
  <2>2. \A q \in Producers : q # p => pc'[q] = pc[q] /\ answer'[q] = answer[q]
    BY <1>1, <1>6, WordsSay DEF QuietBy, Moves
  <2>3. pc'[p] = "off" /\ answer'[p] = "full"
    BY <1>1, <1>6, WordsSay DEF QuietBy, Moves
  <2>4. QED
    BY <1>1, <1>3, <2>1, <2>2, <2>3 DEF Calling
<1>8. TryingSound(p)'
  <2>1. local'[p].limit = 0 /\ pc'[p] = "off" /\ Bound' = Bound /\ Limit' = Limit
    BY <1>4, <1>6, QuietSame DEF NoLocal
  <2>2. QED
    BY <1>1, <1>3, <2>1, Numbers DEF TryingSound
<1>9. QED
  BY <1>6, <1>7, <1>8, Quiet

\* PushSlowPath.
LEMMA PushSlowPathKeeps == ASSUME Inv, NEW p \in Producers, PushSlowPath(p) PROVE Inv'
  BY RoomKeeps, ArrayFullKeeps, FullKeeps DEF PushSlowPath

\* CasLimit.
LEMMA CasLimitKeeps == ASSUME Inv, NEW p \in Producers, CasLimit(p) PROVE Inv'
<1>1. Types /\ Layout /\ Words /\ TryingSound(p)
  BY DEF Inv, Producing
<1>2. "casLimit" \in Asking /\ "casIndex" \in Asking /\ "readLimit" \in Asking /\ pc[p] = "casLimit"
      /\ "readLimit" \notin Trying
  BY DEF Asking, Trying, CasLimit, Step
<1>3. /\ UNCHANGED <<producerIndex, producerMask, producerBuffer, popper, arrays, record, calls, answer>>
      /\ local' = local /\ Minds(p) /\ Num(p)' = Num(p)
  BY <1>1, Locally DEF CasLimit, Minds, Num
<1>4. CASE producerLimit = local[p].limit
  <2>1. /\ Step(p, "casLimit", "casIndex")
        /\ producerLimit' = local[p].seen + CurrentBufferCapacity(local[p].mask)
    BY <1>4 DEF CasLimit
  <2>2. PICK b \in 1..Newest : /\ local[p].mask = MaskOf(Size(b))
                               /\ local[p].index = producerIndex => b = Newest
    BY <1>1, <1>2, SlowSays
  <2>3. producerLimit' \in Nat /\ producerLimit' <= 2 * Bound /\ producerLimit' <= 2 * Limit
    <3>1. local[p].seen <= 2 * Consumed /\ local[p].seen \in Nat
      BY <1>1, <1>2, WordsSay, Locally DEF TryingSound
    <3>2. producerLimit' = local[p].seen + 2 * Room(b)
      BY <1>1, <2>1, <2>2, Capacity
    <3>3. 2 * (maxQueueCapacity \div 2) = maxQueueCapacity
      BY <1>1 DEF Layout
    <3>4. Consumed + Room(b) <= Limit
      BY <1>1, <3>3, Capacity, Numbers DEF Limit
    <3>5. QED
      BY <1>1, <3>1, <3>2, <3>4, Capacity, Numbers
  <2>4. QuietBy(p, "casLimit", "casIndex") /\ (TryingSound(p)' => Inv')
    BY <1>2, <1>3, <2>1, <2>3, Asks
  <2>5. (\E c \in 1..Newest : /\ local[p].mask = MaskOf(Size(c))
                              /\ local[p].index = producerIndex => c = Newest)'
    BY <1>3, <2>2, <2>4, QuietSame DEF MaskOf
  <2>6. pc'[p] = "casIndex"
    BY <2>4, QuietSame
  <2>7. Num(p) < Bound /\ Num(p) < Limit
    BY <1>1, <1>2 DEF TryingSound
  <2>8. (/\ local[p].index = 2 * Num(p) /\ local[p].index <= producerIndex
         /\ local[p].limit <= 2 * Bound /\ local[p].limit <= 2 * Limit
         /\ local[p].buffer \in 1..Newest
         /\ local[p].index = producerIndex => local[p].buffer = Newest
         /\ Num(p) < Bound /\ Num(p) < Limit)'
    BY <1>1, <1>2, <1>3, <2>4, <2>7, SlowSays, QuietSame
  <2>9. TryingSound(p)'
    BY <2>5, <2>6, <2>8 DEF TryingSound
  <2>10. QED
    BY <2>4, <2>9
<1>5. CASE producerLimit # local[p].limit
  <2>1. Step(p, "casLimit", "readLimit") /\ producerLimit' = producerLimit
    BY <1>5 DEF CasLimit
  <2>2. QuietBy(p, "casLimit", "readLimit") /\ (TryingSound(p)' => Inv')
    BY <1>1, <1>2, <1>3, <2>1, Asks, WordsSay
  <2>3. TryingSound(p)'
    BY <1>1, <1>2, <1>3, <2>2, QuietSame DEF TryingSound
  <2>4. QED
    BY <2>2, <2>3
<1>6. QED
  BY <1>4, <1>5

\* Acquire, when the index has been given to somebody else.
LEMMA MissedKeeps ==
    ASSUME Inv, NEW p \in Producers, NEW from \in {"casIndex", "casResize"},
           Step(p, from, "readLimit"),
           UNCHANGED <<indices, popper, arrays, local, record, calls, answer>>
    PROVE  Inv'
<1>1. Types /\ Layout /\ Words /\ TryingSound(p)
  BY DEF Inv, Producing
<1>2. from \in Asking /\ "readLimit" \in Asking /\ "readLimit" \notin Trying
  BY DEF Asking, Trying
<1>3. Minds(p)
  BY <1>1, Locally DEF Minds
<1>4. QuietBy(p, from, "readLimit") /\ (TryingSound(p)' => Inv')
  BY <1>1, <1>2, <1>3, Asks, WordsSay DEF indices
<1>5. TryingSound(p)'
  BY <1>1, <1>2, <1>4, QuietSame DEF TryingSound
<1>6. QED
  BY <1>4, <1>5

\* The part of a resize that only moves the limit.
Announcing == {"resizeSeen", "resizeLimit", "resizeIndex"}

\* What is known of a producer in that part.
LEMMA AnnouncingSays ==
    ASSUME Types, Layout, Words, NEW p \in Producers, OwningSound(p), pc[p] \in Announcing
    PROVE  /\ local[p].index = 2 * Num(p) /\ Consumed <= Num(p) /\ Num(p) = Count - 1
           /\ order[Num(p) + 1] = <<p, pushed[p]>>
           /\ local[p].buffer \in 1..Newest /\ local[p].mask = MaskOf(Size(local[p].buffer))
           /\ consumerBuffer <= local[p].buffer
           /\ local[p].buffer = Newest - 1 /\ From(Newest) = Num(p)
<1>1. pc[p] \in Owning /\ pc[p] \in Resizing /\ pc[p] \in Jumping /\ pc[p] \in Resizing \ {"resizeBuffer"}
  BY DEF Owning, Resizing, Jumping, Announcing
<1>2. /\ local[p].index = 2 * Num(p) /\ Consumed <= Num(p) /\ Num(p) = Count - 1
      /\ order[Num(p) + 1] = <<p, pushed[p]>>
      /\ local[p].buffer \in 1..Newest /\ local[p].mask = MaskOf(Size(local[p].buffer))
      /\ consumerBuffer <= local[p].buffer /\ local[p].buffer = Newest - 1
      /\ From(local[p].buffer + 1) = Num(p)
  BY <1>1 DEF OwningSound
<1>3. local[p].buffer + 1 = Newest
  BY <1>2, Numbers
<1>4. QED
  BY <1>2, <1>3

\* A step in that part.
LEMMA Announces ==
    ASSUME Inv, NEW p \in Producers, NEW from \in Announcing, NEW to \in Announcing, Step(p, from, to),
           Minds(p), local'[p].index = local[p].index, local'[p].buffer = local[p].buffer,
           local'[p].mask = local[p].mask, local'[p].limit = local[p].limit,
           to = "resizeLimit" => /\ local'[p].seen <= consumerIndex
                                 /\ local'[p].index < local'[p].seen + maxQueueCapacity,
           UNCHANGED <<producerIndex, producerMask, producerBuffer, popper, arrays, record, calls, answer>>,
           producerLimit' \in Nat, producerLimit' <= 2 * Bound, producerLimit' <= 2 * Limit
    PROVE  Inv'
<1>1. Types /\ Layout /\ Words /\ Calling /\ TryingSound(p) /\ OwningSound(p)
  BY DEF Inv, Producing
<1>2. from \in Free \cup Owning /\ to \in Free \cup Owning
  BY DEF Free, Owning, Resizing, Announcing
<1>3. Moves(p, from, to)
  BY <1>1, <1>2, StepMoves
<1>4. pc[p] = from /\ pc'[p] = to
  BY <1>3 DEF Moves
<1>5. WorkKept(p)
  BY <1>4 DEF WorkKept, Announcing, Filling, Jumping, Linking, Owning, Resizing
<1>6. QuietBy(p, from, to)
  BY <1>1, <1>3, <1>5, WordsSay DEF QuietBy
<1>7. Calling'
  <2>1. from \notin Asking /\ to \notin Asking
    BY DEF Asking, Trying, Announcing
  <2>2. pushed' = pushed
    BY DEF record
  <2>3. QED
    BY <1>1, <1>3, <2>1, <2>2, CallingFrame
<1>8. TryingSound(p)'
  <2>1. pc'[p] \notin Trying /\ pc'[p] \notin {"casLimit", "casIndex"} /\ pc'[p] # "casResize"
    BY <1>4 DEF Trying, Announcing
  <2>2. local[p].limit <= 2 * Bound /\ local[p].limit <= 2 * Limit
    BY <1>1 DEF TryingSound
  <2>3. QED
    BY <1>6, <2>1, <2>2, QuietSame DEF TryingSound
<1>9. OwningSound(p)'
  <2>1. Num(p)' = Num(p)
    BY DEF Num
  <2>2. /\ local[p].index = 2 * Num(p) /\ Consumed <= Num(p) /\ Num(p) = Count - 1
        /\ order[Num(p) + 1] = <<p, pushed[p]>>
        /\ local[p].buffer \in 1..Newest /\ local[p].mask = MaskOf(Size(local[p].buffer))
        /\ consumerBuffer <= local[p].buffer
        /\ local[p].buffer = Newest - 1 /\ From(Newest) = Num(p)
    BY <1>1, <1>4, AnnouncingSays
  <2>3. local[p].buffer + 1 = Newest /\ Newest - 1 < Newest /\ Num(p) < Count
    BY <1>1, <2>2, Numbers, Locally
  <2>4. pc'[p] \notin {"store", "resizeBuffer"}
    BY <1>4 DEF Announcing
  <2>5. (/\ local[p].index = 2 * Num(p) /\ Consumed <= Num(p) /\ Num(p) < Count /\ Num(p) = Count - 1
         /\ order[Num(p) + 1] = <<p, pushed[p]>>
         /\ local[p].buffer \in 1..Newest /\ local[p].mask = MaskOf(Size(local[p].buffer))
         /\ consumerBuffer <= local[p].buffer
         /\ local[p].buffer < Newest /\ local[p].buffer = Newest - 1
         /\ From(local[p].buffer + 1) = Num(p))'
    BY <1>6, <2>1, <2>2, <2>3, QuietSame DEF MaskOf
  <2>6. (pc[p] = "resizeLimit" => /\ local[p].seen <= consumerIndex
                                  /\ local[p].index < local[p].seen + maxQueueCapacity)'
    BY <1>4, <1>6, QuietSame
  <2>7. QED
    BY <2>4, <2>5, <2>6 DEF OwningSound
<1>10. QED
  BY <1>6, <1>7, <1>8, <1>9, Quiet

\* ResizeSeen: something is available.
LEMMA ResizeSeenKeeps == ASSUME Inv, NEW p \in Producers, ResizeSeen(p) PROVE Inv'
<1>1. Types /\ Layout /\ Words /\ OwningSound(p)
  BY DEF Inv, Producing
<1>2. pc[p] = "resizeSeen" /\ "resizeSeen" \in Announcing /\ "resizeLimit" \in Announcing
  BY DEF ResizeSeen, Step, Announcing
<1>3. local[p].index < consumerIndex + maxQueueCapacity /\ consumerIndex <= local[p].index
  <2>1. 2 * (maxQueueCapacity \div 2) = maxQueueCapacity /\ Count <= Limit /\ consumerIndex = 2 * Consumed
    BY <1>1 DEF Layout, Words
  <2>2. local[p].index = 2 * Num(p) /\ Consumed <= Num(p) /\ Num(p) = Count - 1
    BY <1>1, <1>2, AnnouncingSays
  <2>3. Num(p) < Limit
    BY <1>1, <2>1, <2>2, Numbers, Locally
  <2>4. 2 * Limit = consumerIndex + maxQueueCapacity
    BY <1>1, <2>1, Numbers DEF Limit
  <2>5. QED
    BY <1>1, <2>1, <2>2, <2>3, <2>4, Numbers, Locally
<1>4. maxQueueCapacity - (local[p].index - consumerIndex) # 0
  BY <1>1, <1>3, Locally
<1>5. /\ Step(p, "resizeSeen", "resizeLimit") /\ local' = [local EXCEPT ![p].seen = consumerIndex]
      /\ UNCHANGED <<indices, popper, arrays, record, calls, answer>>
  BY <1>4 DEF ResizeSeen
<1>6. /\ Minds(p) /\ local'[p].index = local[p].index /\ local'[p].buffer = local[p].buffer
      /\ local'[p].mask = local[p].mask /\ local'[p].limit = local[p].limit
      /\ local'[p].seen = consumerIndex
  BY <1>1, <1>5, Locally DEF Minds, Locals
<1>7. local'[p].seen <= consumerIndex /\ local'[p].index < local'[p].seen + maxQueueCapacity
  BY <1>1, <1>3, <1>6, Locally
<1>8. QED
  BY <1>1, <1>2, <1>5, <1>6, <1>7, Announces, WordsSay DEF indices

\* The smaller of two numbers.
LEMMA MinOfTwo ==
    ASSUME NEW a \in Int, NEW b \in Int
    PROVE  Min({a, b}) \in {a, b} /\ Min({a, b}) <= a /\ Min({a, b}) <= b
<1>1. \E x \in {a, b} : \A y \in {a, b} : x <= y
  <2>1. CASE a <= b
    BY <2>1
  <2>2. CASE b <= a
    BY <2>2
  <2>3. QED
    BY <2>1, <2>2
<1>2. Min({a, b}) \in {a, b} /\ \A y \in {a, b} : Min({a, b}) <= y
  BY <1>1 DEF Min
<1>3. QED
  BY <1>2

\* ResizeLimit.
LEMMA ResizeLimitKeeps == ASSUME Inv, NEW p \in Producers, ResizeLimit(p) PROVE Inv'
<1>1. Types /\ Layout /\ Words /\ OwningSound(p) /\ Producing
  BY DEF Inv, Producing
<1>2. pc[p] = "resizeLimit" /\ "resizeLimit" \in Announcing /\ "resizeIndex" \in Announcing
  BY DEF ResizeLimit, Step, Announcing
<1>3. /\ Step(p, "resizeLimit", "resizeIndex") /\ local' = local
      /\ producerLimit' = local[p].index + Min({producerMask, Available(p)})
      /\ UNCHANGED <<producerIndex, producerMask, producerBuffer, popper, arrays, record, calls, answer>>
  BY DEF ResizeLimit
<1>4. Minds(p)
  BY <1>1, <1>3, Locally DEF Minds
<1>5. local[p].index = 2 * Num(p) /\ From(Newest) = Num(p) /\ Num(p) = Count - 1
  BY <1>1, <1>2, AnnouncingSays
<1>6. ~MaskDue
  <2>1. SUFFICES ASSUME NEW q \in Producers, pc[q] = "resizeMask" PROVE FALSE
    BY DEF MaskDue
  <2>2. pc[q] \in Resizing /\ pc[q] \in Owning /\ pc[p] \in Owning
    BY <1>2, <2>1 DEF Resizing, Owning
  <2>3. Num(q) = Count - 1
    BY <1>1, <2>2 DEF Producing, OwningSound
  <2>4. p = q
    BY <1>1, <1>5, <2>2, <2>3 DEF Producing, OwnersApart
  <2>5. QED
    BY <1>2, <2>1, <2>4
<1>7. producerMask = MaskOf(Size(Newest))
  BY <1>1, <1>6 DEF Words
<1>8. Available(p) \in Int /\ producerMask \in Nat
  BY <1>1, Locally DEF Available
<1>9. local[p].seen <= consumerIndex /\ local[p].index < local[p].seen + maxQueueCapacity
  BY <1>1, <1>2 DEF OwningSound
<1>10. Available(p) > 0 /\ local[p].index + Available(p) <= consumerIndex + maxQueueCapacity
  BY <1>1, <1>9, Locally DEF Available
<1>11. /\ Min({producerMask, Available(p)}) \in Nat
       /\ Min({producerMask, Available(p)}) <= producerMask
       /\ Min({producerMask, Available(p)}) <= Available(p)
  <2>1. producerMask \in Int /\ Available(p) \in Int /\ Available(p) \in Nat
    BY <1>8, <1>10
  <2>2. /\ Min({producerMask, Available(p)}) \in {producerMask, Available(p)}
        /\ Min({producerMask, Available(p)}) <= producerMask
        /\ Min({producerMask, Available(p)}) <= Available(p)
    BY <2>1, MinOfTwo
  <2>3. QED
    BY <1>8, <2>1, <2>2
<1>12. producerLimit' \in Nat
  BY <1>1, <1>3, <1>11, Locally
<1>13. producerLimit' <= 2 * Bound
  <2>1. producerLimit' <= 2 * Num(p) + producerMask
    BY <1>1, <1>3, <1>5, <1>8, <1>11, Locally
  <2>2. Newest \in 1..Newest /\ producerMask = 2 * (Size(Newest) - 1)
    BY <1>1, <1>7, Numbers DEF MaskOf
  <2>3. Bound >= Num(p) + Size(Newest) - 1
    BY <1>1, <1>5, <2>2, Numbers DEF Bound
  <2>4. QED
    BY <1>1, <1>12, <2>1, <2>2, <2>3, Numbers, Locally
<1>14. producerLimit' <= 2 * Limit
  <2>1. 2 * (maxQueueCapacity \div 2) = maxQueueCapacity /\ consumerIndex = 2 * Consumed
    BY <1>1 DEF Layout, Words
  <2>2. 2 * Limit = consumerIndex + maxQueueCapacity
    BY <1>1, <2>1, Numbers DEF Limit
  <2>3. producerLimit' <= local[p].index + Available(p)
    BY <1>1, <1>3, <1>8, <1>11, Locally
  <2>4. QED
    BY <1>1, <1>8, <1>10, <1>12, <2>2, <2>3, Numbers, Locally
<1>15. QED
  BY <1>2, <1>3, <1>4, <1>12, <1>13, <1>14, Announces

--------------------------------------------------------------------------------
(* Steps that write to a slot *)

\* Value v is put into slot i of array b.
PutBy(b, i, v) ==
    /\ arrays' \in Seq(Spaces) /\ ArraysKept
    /\ \A c \in 1..Newest : \A j \in 0..Size(c) :
         arrays'[c][j] = IF c = b /\ j = i THEN v ELSE arrays[c][j]

\* That is what the assignment to a slot does.
LEMMA PutDoes ==
    ASSUME Types, Layout, NEW b \in 1..Newest, NEW i \in 0..Size(b), NEW v \in Marked,
           arrays' = [arrays EXCEPT ![b][i] = v]
    PROVE  PutBy(b, i, v)
<1>1. arrays \in Seq(Spaces) /\ Len(arrays) = Newest /\ b \in 1..Len(arrays)
  BY DEF Types, Layout
<1>2. \A c \in 1..Newest : DOMAIN arrays[c] = 0..Size(c)
  BY DEF Layout
<1>3. PICK n \in Nat : arrays[b] \in [0..n -> Marked]
  <2>1. arrays[b] \in Spaces
    BY <1>1, ElementOfSeq
  <2>2. QED
    BY <2>1 DEF Spaces
<1> DEFINE g == [arrays[b] EXCEPT ![i] = v]
<1>4. g \in [0..n -> Marked] /\ g \in Spaces
  BY <1>3 DEF Spaces
<1>5. DOMAIN g = 0..Size(b) /\ \A j \in 0..Size(b) : g[j] = IF j = i THEN v ELSE arrays[b][j]
  BY <1>2
<1>6. arrays' = [arrays EXCEPT ![b] = g]
  OBVIOUS
<1> HIDE DEF g
<1>7. /\ arrays' \in Seq(Spaces) /\ Len(arrays') = Len(arrays)
      /\ \A c \in 1..Len(arrays) : arrays'[c] = IF c = b THEN g ELSE arrays[c]
  <2>1. /\ [arrays EXCEPT ![b] = g] \in Seq(Spaces)
        /\ Len([arrays EXCEPT ![b] = g]) = Len(arrays)
        /\ \A c \in 1..Len(arrays) : [arrays EXCEPT ![b] = g][c] = IF c = b THEN g ELSE arrays[c]
    BY <1>1, <1>4, ExceptSeq
  <2>2. QED
    BY <1>6, <2>1
<1>8. ArraysKept
  BY <1>1, <1>2, <1>5, <1>7 DEF ArraysKept
<1>9. ASSUME NEW c \in 1..Newest, NEW j \in 0..Size(c)
      PROVE  arrays'[c][j] = IF c = b /\ j = i THEN v ELSE arrays[c][j]
  <2>1. arrays'[c] = IF c = b THEN g ELSE arrays[c]
    BY <1>1, <1>7
  <2>2. CASE c = b
    <3>1. j \in 0..Size(b) /\ arrays'[c] = g /\ arrays[c] = arrays[b]
      BY <2>1, <2>2
    <3>2. g[j] = IF j = i THEN v ELSE arrays[b][j]
      BY <1>5, <3>1
    <3>3. QED
      BY <2>2, <3>1, <3>2
  <2>3. CASE c # b
    BY <2>1, <2>3
  <2>4. QED
    BY <2>2, <2>3
<1>10. QED
  BY <1>7, <1>8, <1>9 DEF PutBy

\* The other elements, the jump marks, and the links have places of their own.
LEMMA PlacesApart ==
    ASSUME Types, Layout, Words, NEW c \in 1..Newest, NEW m \in Nat, Window(c, m)
    PROVE  /\ \A n \in Consumed..(Count - 1) :
                In(c, n) /\ n # m => n % Size(c) # m % Size(c)
           /\ c < Newest /\ Consumed <= From(c + 1) /\ From(c + 1) # m =>
                From(c + 1) % Size(c) # m % Size(c)
           /\ m % Size(c) # Size(c) /\ m % Size(c) \in 0..Size(c)
           /\ \A n \in Nat, b \in 1..Newest : n % Size(b) \in 0..Size(b) /\ Size(b) \in 0..Size(b)
<1>1. ASSUME NEW n \in Consumed..(Count - 1), In(c, n), n # m PROVE n % Size(c) # m % Size(c)
  <2>1. n \in Nat /\ Window(c, n)
    BY <1>1, InWindow, Numbers
  <2>2. QED
    BY <1>1, <2>1, WindowApart
<1>2. ASSUME c < Newest, Consumed <= From(c + 1), From(c + 1) # m
      PROVE  From(c + 1) % Size(c) # m % Size(c)
  <2>1. c + 1 \in 1..Newest
    BY <1>2, Numbers
  <2>2. From(c + 1) \in Nat /\ Window(c, From(c + 1))
    BY <1>2, <2>1, InWindow, Numbers
  <2>3. QED
    BY <1>2, <2>2, WindowApart
<1>3. \A b \in 1..Newest : Size(b) \in Nat \ {0}
  BY Numbers
<1>4. ASSUME NEW n \in Nat, NEW b \in 1..Newest PROVE n % Size(b) \in 0..(Size(b) - 1)
  BY <1>3, ModRange
<1>5. \A n \in Nat, b \in 1..Newest : n % Size(b) \in 0..Size(b) /\ Size(b) \in 0..Size(b) /\ n % Size(b) # Size(b)
  BY <1>3, <1>4
<1>6. QED
  BY <1>1, <1>2, <1>5

\* The consumer's index, the elements and the layout are those they were.
Placement == UNCHANGED <<spans, order, consumerIndex>>

\* The numbers then are, too.
LEMMA Placed ==
    ASSUME Placement
    PROVE  /\ Newest' = Newest /\ Count' = Count /\ Consumed' = Consumed /\ order' = order
           /\ \A b, n : From(b)' = From(b) /\ Size(b)' = Size(b) /\ (In(b, n)' <=> In(b, n))
<1>1. Newest' = Newest /\ Count' = Count /\ Consumed' = Consumed /\ order' = order
  BY DEF Newest, Count, Consumed, Placement
<1>2. QED
  BY <1>1 DEF Placement, From, Size, In

\* The slots after element m has been put into its place, or taken from there.
LEMMA SlotsByElement ==
    ASSUME Types, Layout, Words, Slots, Placement,
           NEW c \in 1..Newest, NEW m \in Consumed..(Count - 1), In(c, m), NEW v,
           PutBy(c, m % Size(c), v), v = IF Absent(m)' THEN Nothing ELSE order[m + 1],
           \A n \in Nat : n # m => (Absent(n)' <=> Absent(n)),
           \A b \in Nat : (JumpDue(b)' <=> JumpDue(b)) /\ (Linked(b)' <=> Linked(b))
    PROVE  Slots'
<1>1. m \in Nat /\ Window(c, m)
  BY InWindow, Numbers
<1>2. \A b \in 1..Newest : \A j \in 0..Size(b) :
         arrays'[b][j] = IF b = c /\ j = m % Size(c) THEN v ELSE arrays[b][j]
  BY DEF PutBy
<1>3. /\ \A n \in Consumed..(Count - 1) : In(c, n) /\ n # m => n % Size(c) # m % Size(c)
      /\ m % Size(c) # Size(c) /\ m % Size(c) \in 0..Size(c)
      /\ \A n \in Nat, b \in 1..Newest : n % Size(b) \in 0..Size(b) /\ Size(b) \in 0..Size(b)
  BY <1>1, PlacesApart
<1>4. ASSUME NEW b \in 1..Newest, NEW n \in Consumed..(Count - 1), In(b, n)
      PROVE  arrays'[b][n % Size(b)] = IF Absent(n)' THEN Nothing ELSE order[n + 1]
  <2>1. CASE n = m
    <3>1. b = c
      BY <1>1, <1>4, <2>1, InOnce
    <3>2. arrays'[b][n % Size(b)] = v
      BY <1>2, <1>3, <2>1, <3>1
    <3>3. Absent(n)' <=> Absent(m)'
      BY <2>1
    <3>4. QED
      BY <2>1, <3>2, <3>3
  <2>2. CASE n # m
    <3>1. n \in Nat
      BY Numbers
    <3>2. ~(b = c /\ n % Size(b) = m % Size(c))
      BY <1>3, <1>4, <2>2
    <3>3. arrays'[b][n % Size(b)] = arrays[b][n % Size(b)]
      BY <1>2, <1>3, <3>1, <3>2
    <3>4. arrays[b][n % Size(b)] = IF Absent(n) THEN Nothing ELSE order[n + 1]
      BY <1>4 DEF Slots, ElementsPlaced
    <3>5. Absent(n)' <=> Absent(n)
      BY <2>2, <3>1
    <3>6. QED
      BY <3>3, <3>4, <3>5
  <2>3. QED
    BY <2>1, <2>2
<1>5. ElementsPlaced'
  BY <1>4, Placed DEF ElementsPlaced
<1>6. ASSUME NEW b \in 1..Newest, b < Newest
      PROVE  arrays'[b][From(b + 1) % Size(b)] = IF JumpDue(b)' THEN Nothing ELSE Jump
  <2>1. b + 1 \in 1..Newest /\ b \in Nat
    BY <1>6, Numbers
  <2>2. From(b + 1) \in Nat
    BY <2>1, Numbers
  <2>3. ~(b = c /\ From(b + 1) % Size(b) = m % Size(c))
    <3>1. SUFFICES ASSUME b = c PROVE From(b + 1) % Size(b) # m % Size(c)
      OBVIOUS
    <3>2. m < From(c + 1) /\ Consumed <= m
      BY <1>6, <3>1, Numbers DEF In
    <3>3. Consumed <= From(c + 1) /\ From(c + 1) # m
      BY <1>1, <2>2, <3>1, <3>2, Numbers
    <3>4. QED
      BY <1>1, <1>6, <3>1, <3>3, PlacesApart
  <2>4. arrays'[b][From(b + 1) % Size(b)] = arrays[b][From(b + 1) % Size(b)]
    BY <1>2, <1>3, <2>2, <2>3
  <2>5. QED
    BY <1>6, <2>1, <2>4 DEF Slots, JumpsPlaced
<1>7. JumpsPlaced'
  BY <1>6, Placed DEF JumpsPlaced
<1>8. ASSUME NEW b \in 1..Newest
      PROVE  arrays'[b][Size(b)] = IF Linked(b)' THEN Link(b + 1) ELSE Nothing
  <2>1. arrays'[b][Size(b)] = arrays[b][Size(b)]
    BY <1>2, <1>3, <1>1
  <2>2. QED
    BY <2>1, Numbers DEF Slots, LinksPlaced
<1>9. LinksPlaced'
  BY <1>8, Placed DEF LinksPlaced
<1>10. ASSUME NEW b \in 1..Newest, NEW i \in 0..(Size(b) - 1)
       PROVE  \/ arrays'[b][i] = Nothing
              \/ b < Newest /\ i = From(b + 1) % Size(b)
              \/ \E n \in Consumed..(Count - 1) : In(b, n) /\ i = n % Size(b)
  <2>1. i \in 0..Size(b)
    BY Numbers
  <2>2. CASE b = c /\ i = m % Size(c)
    BY <2>2
  <2>3. CASE ~(b = c /\ i = m % Size(c))
    <3>1. arrays'[b][i] = arrays[b][i]
      BY <1>2, <2>1, <2>3
    <3>2. QED
      BY <3>1 DEF Slots, OthersFree
  <2>4. QED
    BY <2>2, <2>3
<1>11. OthersFree'
  BY <1>10, Placed DEF OthersFree
<1>12. QED
  BY <1>5, <1>7, <1>9, <1>11 DEF Slots

\* The slots after the jump mark of an array has been put into its place.
LEMMA SlotsByJump ==
    ASSUME Types, Layout, Words, Slots, Placement,
           NEW c \in 1..Newest, c < Newest, Consumed <= From(c + 1),
           PutBy(c, From(c + 1) % Size(c), Jump),
           \A n \in Nat : Absent(n)' <=> Absent(n),
           \A b \in Nat : JumpDue(b)' <=> (JumpDue(b) /\ b # c),
           \A b \in Nat : Linked(b)' <=> Linked(b)
    PROVE  Slots'
<1> DEFINE m == From(c + 1)
<1>1. c + 1 \in 1..Newest
  BY Numbers
<1>2. m \in Nat /\ Window(c, m)
  BY <1>1, InWindow, Numbers
<1>3. \A b \in 1..Newest : \A j \in 0..Size(b) :
         arrays'[b][j] = IF b = c /\ j = m % Size(c) THEN Jump ELSE arrays[b][j]
  BY DEF PutBy
<1>4. /\ \A n \in Consumed..(Count - 1) : In(c, n) /\ n # m => n % Size(c) # m % Size(c)
      /\ m % Size(c) # Size(c) /\ m % Size(c) \in 0..Size(c)
      /\ \A n \in Nat, b \in 1..Newest : n % Size(b) \in 0..Size(b) /\ Size(b) \in 0..Size(b)
  BY <1>2, PlacesApart
<1>5. ASSUME NEW b \in 1..Newest, NEW n \in Consumed..(Count - 1), In(b, n)
      PROVE  arrays'[b][n % Size(b)] = IF Absent(n)' THEN Nothing ELSE order[n + 1]
  <2>1. n \in Nat
    BY Numbers
  <2>2. b = c => n # m
    BY <1>5, <2>1, <1>2 DEF In
  <2>3. ~(b = c /\ n % Size(b) = m % Size(c))
    BY <1>4, <1>5, <2>2
  <2>4. arrays'[b][n % Size(b)] = arrays[b][n % Size(b)]
    BY <1>3, <1>4, <2>1, <2>3
  <2>5. QED
    BY <1>5, <2>1, <2>4 DEF Slots, ElementsPlaced
<1>6. ElementsPlaced'
  BY <1>5, Placed DEF ElementsPlaced
<1>7. ASSUME NEW b \in 1..Newest, b < Newest
      PROVE  arrays'[b][From(b + 1) % Size(b)] = IF JumpDue(b)' THEN Nothing ELSE Jump
  <2>1. b + 1 \in 1..Newest /\ b \in Nat
    BY <1>7, Numbers
  <2>2. From(b + 1) % Size(b) \in 0..Size(b)
    BY <1>4, <2>1, Numbers
  <2>3. CASE b = c
    BY <1>3, <2>1, <2>2, <2>3
  <2>4. CASE b # c
    BY <1>3, <1>7, <2>1, <2>2, <2>4 DEF Slots, JumpsPlaced
  <2>5. QED
    BY <2>3, <2>4
<1>8. JumpsPlaced'
  BY <1>7, Placed DEF JumpsPlaced
<1>9. ASSUME NEW b \in 1..Newest
      PROVE  arrays'[b][Size(b)] = IF Linked(b)' THEN Link(b + 1) ELSE Nothing
  <2>1. arrays'[b][Size(b)] = arrays[b][Size(b)]
    BY <1>3, <1>4, <1>2
  <2>2. QED
    BY <2>1, Numbers DEF Slots, LinksPlaced
<1>10. LinksPlaced'
  BY <1>9, Placed DEF LinksPlaced
<1>11. ASSUME NEW b \in 1..Newest, NEW i \in 0..(Size(b) - 1)
       PROVE  \/ arrays'[b][i] = Nothing
              \/ b < Newest /\ i = From(b + 1) % Size(b)
              \/ \E n \in Consumed..(Count - 1) : In(b, n) /\ i = n % Size(b)
  <2>1. i \in 0..Size(b)
    BY Numbers
  <2>2. CASE b = c /\ i = m % Size(c)
    BY <2>2
  <2>3. CASE ~(b = c /\ i = m % Size(c))
    <3>1. arrays'[b][i] = arrays[b][i]
      BY <1>3, <2>1, <2>3
    <3>2. QED
      BY <3>1 DEF Slots, OthersFree
  <2>4. QED
    BY <2>2, <2>3
<1>12. OthersFree'
  BY <1>11, Placed DEF OthersFree
<1>13. QED
  BY <1>6, <1>8, <1>10, <1>12 DEF Slots

\* The slots after the link of an array has been put into its place, or taken from there.
LEMMA SlotsByLink ==
    ASSUME Types, Layout, Words, Slots, Placement,
           NEW c \in 1..Newest, NEW v, PutBy(c, Size(c), v),
           v = IF Linked(c)' THEN Link(c + 1) ELSE Nothing,
           \A n \in Nat : Absent(n)' <=> Absent(n),
           \A b \in Nat : JumpDue(b)' <=> JumpDue(b),
           \A b \in Nat : b # c => (Linked(b)' <=> Linked(b))
    PROVE  Slots'
<1>1. \A b \in 1..Newest : \A j \in 0..Size(b) :
         arrays'[b][j] = IF b = c /\ j = Size(c) THEN v ELSE arrays[b][j]
  BY DEF PutBy
<1>2. ASSUME NEW b \in 1..Newest, NEW i \in 0..(Size(b) - 1) PROVE arrays'[b][i] = arrays[b][i]
  BY <1>1, Numbers
<1>3. ASSUME NEW b \in 1..Newest, NEW n \in Nat PROVE n % Size(b) \in 0..(Size(b) - 1)
  <2>1. Size(b) \in Nat \ {0}
    BY Numbers
  <2>2. QED
    BY <2>1, ModRange
<1>4. ElementsPlaced'
  <2>1. ASSUME NEW b \in 1..Newest, NEW n \in Consumed..(Count - 1), In(b, n)
        PROVE  arrays'[b][n % Size(b)] = IF Absent(n)' THEN Nothing ELSE order[n + 1]
    <3>1. n \in Nat
      BY Numbers
    <3>2. arrays'[b][n % Size(b)] = arrays[b][n % Size(b)]
      BY <1>2, <1>3, <3>1
    <3>3. QED
      BY <2>1, <3>1, <3>2 DEF Slots, ElementsPlaced
  <2>2. QED
    BY <2>1, Placed DEF ElementsPlaced
<1>5. JumpsPlaced'
  <2>1. ASSUME NEW b \in 1..Newest, b < Newest
        PROVE  arrays'[b][From(b + 1) % Size(b)] = IF JumpDue(b)' THEN Nothing ELSE Jump
    <3>1. b + 1 \in 1..Newest /\ b \in Nat
      BY <2>1, Numbers
    <3>2. From(b + 1) \in Nat
      BY <3>1, Numbers
    <3>3. arrays'[b][From(b + 1) % Size(b)] = arrays[b][From(b + 1) % Size(b)]
      BY <1>2, <1>3, <3>2
    <3>4. QED
      BY <2>1, <3>1, <3>3 DEF Slots, JumpsPlaced
  <2>2. QED
    BY <2>1, Placed DEF JumpsPlaced
<1>6. LinksPlaced'
  <2>1. ASSUME NEW b \in 1..Newest
        PROVE  arrays'[b][Size(b)] = IF Linked(b)' THEN Link(b + 1) ELSE Nothing
    <3>1. Size(b) \in 0..Size(b) /\ b \in Nat
      BY Numbers
    <3>2. CASE b = c
      BY <1>1, <3>1, <3>2
    <3>3. CASE b # c
      BY <1>1, <3>1, <3>3 DEF Slots, LinksPlaced
    <3>4. QED
      BY <3>2, <3>3
  <2>2. QED
    BY <2>1, Placed DEF LinksPlaced
<1>7. OthersFree'
  BY <1>2, Placed DEF Slots, OthersFree
<1>8. QED
  BY <1>4, <1>5, <1>6, <1>7 DEF Slots

\* Whoever has an index, or an array to link, has it alone.
LEMMA DueApart ==
    ASSUME Types, Layout, Producing, NEW p \in Producers, NEW q \in Producers
    PROVE  /\ pc[p] \in Owning /\ pc[q] \in Owning /\ Num(p) = Num(q) => p = q
           /\ pc[p] \in Jumping /\ pc[q] \in Jumping /\ local[p].buffer = local[q].buffer => p = q
<1>1. pc[p] \in Owning /\ pc[q] \in Owning /\ Num(p) = Num(q) => p = q
  BY DEF Producing, OwnersApart
<1>2. ASSUME pc[p] \in Jumping, pc[q] \in Jumping, local[p].buffer = local[q].buffer
      PROVE  p = q
  <2>1. pc[p] \in Owning /\ pc[q] \in Owning
    BY <1>2 DEF Jumping
  <2>2. From(local[p].buffer + 1) = Num(p) /\ From(local[q].buffer + 1) = Num(q)
    BY <1>2 DEF Producing, OwningSound
  <2>3. QED
    BY <1>1, <1>2, <2>1, <2>2
<1>3. QED
  BY <1>1, <1>2

\* p has filled its slot.
LEMMA PendingAfter ==
    ASSUME Types, Layout, Producing, NEW p \in Producers, NEW from \in Filling, NEW to,
           to \notin Filling, Moves(p, from, to), Minds(p)
    PROVE  \A n \in Nat : Pending(n)' <=> (Pending(n) /\ n # Num(p))
<1>1. \A q \in Producers : q # p => pc'[q] = pc[q] /\ Num(q)' = Num(q)
  BY DEF Moves, Minds, Num
<1>2. pc[p] \in Filling /\ pc'[p] \notin Filling
  BY DEF Moves
<1>3. \A l \in Filling : l \in Owning
  BY DEF Filling, Owning, Resizing
<1>4. \A q \in Producers : pc[q] \in Filling /\ Num(q) = Num(p) => q = p
  BY <1>2, <1>3, DueApart
<1>5. QED
  BY <1>1, <1>2, <1>4 DEF Pending

\* p has put the jump mark.
LEMMA JumpDueAfter ==
    ASSUME Types, Layout, Producing, NEW p \in Producers, NEW from \in Jumping, NEW to,
           to \notin Jumping, Moves(p, from, to), Minds(p)
    PROVE  \A b \in Nat : JumpDue(b)' <=> (JumpDue(b) /\ b # local[p].buffer)
<1>1. \A q \in Producers : q # p => pc'[q] = pc[q] /\ local'[q] = local[q]
  BY DEF Moves, Minds
<1>2. pc[p] \in Jumping /\ pc'[p] \notin Jumping
  BY DEF Moves
<1>3. \A q \in Producers : pc[q] \in Jumping /\ local[q].buffer = local[p].buffer => q = p
  BY <1>2, DueApart
<1>4. QED
  BY <1>1, <1>2, <1>3 DEF JumpDue

\* p has put the link.
LEMMA LinkDueAfter ==
    ASSUME Types, Layout, Producing, NEW p \in Producers, NEW from \in Linking, NEW to,
           to \notin Linking, Moves(p, from, to), Minds(p)
    PROVE  \A b \in Nat : LinkDue(b)' <=> (LinkDue(b) /\ b # local[p].buffer)
<1>1. \A q \in Producers : q # p => pc'[q] = pc[q] /\ local'[q] = local[q]
  BY DEF Moves, Minds
<1>2. pc[p] \in Linking /\ pc'[p] \notin Linking /\ \A l \in Linking : l \in Jumping
  BY DEF Moves, Linking, Jumping, Owning, Resizing
<1>3. \A q \in Producers : pc[q] \in Linking /\ local[q].buffer = local[p].buffer => q = p
  BY <1>2, DueApart
<1>4. QED
  BY <1>1, <1>2, <1>3 DEF LinkDue

\* p has not changed what is pending.
LEMMA PendingSame ==
    ASSUME NEW p \in Producers, NEW from, NEW to, Moves(p, from, to), Minds(p),
           from \in Filling <=> to \in Filling, to \in Filling => local'[p].index = local[p].index
    PROVE  \A n \in Nat : Pending(n)' <=> Pending(n)
  BY DEF Moves, Minds, Pending, Num

\* Nor what jump marks are due.
LEMMA JumpDueSame ==
    ASSUME NEW p \in Producers, NEW from, NEW to, Moves(p, from, to), Minds(p),
           from \in Jumping <=> to \in Jumping, to \in Jumping => local'[p].buffer = local[p].buffer
    PROVE  \A b \in Nat : JumpDue(b)' <=> JumpDue(b)
  BY DEF Moves, Minds, JumpDue

\* Nor what links.
LEMMA LinkDueSame ==
    ASSUME NEW p \in Producers, NEW from, NEW to, Moves(p, from, to), Minds(p),
           from \in Linking <=> to \in Linking, to \in Linking => local'[p].buffer = local[p].buffer
    PROVE  \A b \in Nat : LinkDue(b)' <=> LinkDue(b)
  BY DEF Moves, Minds, LinkDue

\* Nor whether there is a resize.
LEMMA InResizeSame ==
    ASSUME NEW p \in Producers, NEW from, NEW to, Moves(p, from, to),
           from \in Resizing <=> to \in Resizing
    PROVE  InResize' <=> InResize
  BY DEF Moves, InResize

\* Nor whether the new mask has been announced.
LEMMA MaskDueSame ==
    ASSUME NEW p \in Producers, NEW from, NEW to, Moves(p, from, to),
           from = "resizeMask" <=> to = "resizeMask"
    PROVE  MaskDue' <=> MaskDue
  BY DEF Moves, MaskDue

\* The stores of the producers, with the labels around them.
Stores == {<<"store", "off">>, <<"resizeElement", "resizeLink">>, <<"resizeLink", "resizeSeen">>,
           <<"resizeJump", "off">>}

\* All that is left to show of such a store is that it is put into the right slot.
LEMMA Writes ==
    ASSUME Inv, NEW p \in Producers, NEW from, NEW to, Step(p, from, to), <<from, to>> \in Stores,
           IF to = "off" THEN local' = [local EXCEPT ![p] = NoLocal] ELSE local' = local,
           ArraysKept, arrays' \in Seq(Spaces),
           UNCHANGED <<indices, popper, record, calls, answer>>,
           Moves(p, from, to) /\ Minds(p) => Slots'
    PROVE  Inv'
<1>1. Types /\ Calling /\ Layout /\ Words /\ Producing /\ Consuming /\ Slots
  BY DEF Inv
<1>2. /\ from \in Owning /\ to \in Free \cup Owning /\ from \notin Asking /\ to \notin Asking
      /\ from \in Resizing <=> to \in Resizing
      /\ from # "resizeMask" /\ to # "resizeMask"
      /\ to \notin Trying /\ to \notin {"casLimit", "casIndex"} /\ to # "casResize"
  BY DEF Stores, Owning, Resizing, Free, Asking, Trying
<1>3. Moves(p, from, to)
  BY <1>1, <1>2, StepMoves
<1>4. Minds(p) /\ (to # "off" => local'[p] = local[p]) /\ (to = "off" => local'[p] = NoLocal)
  BY <1>1, Locally DEF Minds
<1>5. /\ UNCHANGED <<producerIndex, producerLimit, producerMask, producerBuffer>>
      /\ UNCHANGED <<consumerIndex, consumerMask, consumerBuffer, consumer, got, taken, popper>>
      /\ UNCHANGED <<pushed, order, spans, maxQueueCapacity, calls, answer>>
  BY DEF indices, popper, record
<1>6. Types'
  <2>1. pc' \in [Producers -> Free \cup Owning] /\ local' \in [Producers -> Locals]
    BY <1>3, <1>4 DEF Moves, Minds
  <2>2. QED
    BY <1>1, <1>5, <2>1 DEF Types
<1>7. Calling'
  BY <1>1, <1>2, <1>3, <1>5, CallingFrame
<1>8. Layout'
  <2>1. Consumed' = Consumed
    BY <1>5 DEF Consumed
  <2>2. QED
    BY <1>1, <1>5, <1>6, <2>1, LayoutFrame, Numbers
<1>9. Words'
  <2>1. (InResize' <=> InResize) /\ (MaskDue' <=> MaskDue)
    BY <1>2, <1>3, InResizeSame, MaskDueSame
  <2>2. QED
    BY <1>1, <1>5, <2>1, WordsFrame, WordsSay
<1>10. WorkDone
  <2>1. to \notin Filling
    BY DEF Stores, Filling
  <2>2. (from \in Jumping /\ to \notin Jumping) \/ (from \in Jumping <=> to \in Jumping)
    BY DEF Stores, Jumping, Owning, Resizing
  <2>3. to \in Jumping => to # "off"
    BY DEF Jumping, Owning, Resizing
  <2>4. \A n \in Nat : Pending(n)' => Pending(n)
    BY <1>1, <1>3, <1>4, <2>1, PendingAfter, PendingSame
  <2>5. \A b \in Nat : JumpDue(b)' => JumpDue(b)
    BY <1>1, <1>3, <1>4, <2>2, <2>3, JumpDueAfter, JumpDueSame
  <2>6. QED
    BY <2>4, <2>5 DEF WorkDone
<1>11. Consuming'
  BY <1>1, <1>5, <1>10, ConsumingFrame
<1>12. Slots'
  BY <1>3, <1>4
<1>13. Placement
  BY <1>5 DEF Placement
<1>14. /\ Newest' = Newest /\ Bound' = Bound /\ Limit' = Limit
       /\ \A b : From(b)' = From(b) /\ Size(b)' = Size(b)
  <2>1. Newest' = Newest /\ Consumed' = Consumed /\ \A b : From(b)' = From(b) /\ Size(b)' = Size(b)
    BY <1>13, Placed
  <2>2. QED
    BY <1>5, <2>1 DEF Bound, Limit, Oldest, Room
<1>15. Forward
  <2>1. producerIndex \in Nat /\ consumerIndex \in Nat
    BY <1>1 DEF Types
  <2>2. QED
    BY <1>1, <1>5, <1>14, <2>1, Numbers DEF Forward
<1>16. TryingSound(p)'
  <2>1. pc'[p] = to
    BY <1>3 DEF Moves
  <2>2. local[p].limit <= 2 * Bound /\ local[p].limit <= 2 * Limit
    BY <1>1 DEF Producing, TryingSound
  <2>3. local'[p].limit <= 2 * Bound /\ local'[p].limit <= 2 * Limit
    <3>1. NoLocal.limit = 0 /\ Bound \in Nat /\ Limit \in Nat
      BY <1>1, Numbers DEF NoLocal
    <3>2. QED
      BY <1>4, <2>2, <3>1
  <2>4. QED
    BY <1>2, <1>14, <2>1, <2>3 DEF TryingSound
<1>17. OwningSound(p)'
  <2>1. pc[p] = from /\ pc'[p] = to
    BY <1>3 DEF Moves
  <2>2. CASE to = "off"
    BY <2>1, <2>2, FreeOwesNothing DEF Free
  <2>3. CASE to # "off"
    <3>1. /\ pc[p] \in Owning /\ pc[p] \in Resizing /\ pc[p] \in Jumping
          /\ pc[p] \in Resizing \ {"resizeBuffer"}
          /\ pc'[p] \notin {"store", "resizeBuffer", "resizeLimit"}
      BY <2>1, <2>3 DEF Stores, Owning, Resizing, Jumping
    <3>2. /\ local[p].index = 2 * Num(p) /\ Consumed <= Num(p) /\ Num(p) < Count
          /\ order[Num(p) + 1] = <<p, pushed[p]>>
          /\ local[p].buffer \in 1..Newest /\ local[p].mask = MaskOf(Size(local[p].buffer))
          /\ consumerBuffer <= local[p].buffer
          /\ Num(p) = Count - 1
          /\ local[p].buffer < Newest /\ From(local[p].buffer + 1) = Num(p)
          /\ local[p].buffer = Newest - 1
      BY <1>1, <3>1 DEF Producing, OwningSound
    <3>3. local'[p] = local[p] /\ Num(p)' = Num(p)
      BY <1>4, <2>3 DEF Num
    <3>4. (/\ local[p].index = 2 * Num(p) /\ Consumed <= Num(p) /\ Num(p) < Count
           /\ order[Num(p) + 1] = <<p, pushed[p]>>
           /\ local[p].buffer \in 1..Newest /\ local[p].mask = MaskOf(Size(local[p].buffer))
           /\ consumerBuffer <= local[p].buffer
           /\ Num(p) = Count - 1
           /\ local[p].buffer < Newest /\ From(local[p].buffer + 1) = Num(p)
           /\ local[p].buffer = Newest - 1)'
      BY <1>5, <1>13, <1>14, <3>2, <3>3, Placed DEF MaskOf
    <3>5. QED
      BY <3>1, <3>4 DEF OwningSound
  <2>4. QED
    BY <2>2, <2>3
<1>18. ASSUME NEW q \in Producers, q # p PROVE TryingSound(q)' /\ OwningSound(q)'
  <2>1. pc'[q] = pc[q] /\ local'[q] = local[q]
    BY <1>3, <1>4, <1>18 DEF Moves, Minds
  <2>2. TryingSound(q) /\ OwningSound(q)
    BY <1>1 DEF Producing
  <2>3. QED
    BY <1>1, <1>5, <1>15, <2>1, <2>2, TryingForward, OwningFrame
<1>19. OwnersApart'
  <2>1. \A q \in Producers : pc'[q] \in Owning => pc[q] \in Owning /\ Num(q)' = Num(q)
    <3>1. "off" \notin Owning
      BY DEF Owning, Resizing
    <3>2. QED
      BY <1>2, <1>3, <1>4, <3>1 DEF Moves, Minds, Num
  <2>2. QED
    BY <1>1, <2>1 DEF Producing, OwnersApart
<1>20. Producing'
  BY <1>16, <1>17, <1>18, <1>19 DEF Producing
<1>21. QED
  BY <1>6, <1>7, <1>8, <1>9, <1>11, <1>12, <1>20 DEF Inv

\* Where element n is in array b.
LEMMA Place ==
    ASSUME Types, Layout, NEW b \in 1..Newest, NEW n \in Nat
    PROVE  /\ Offset(2 * n, MaskOf(Size(b))) = n % Size(b) /\ n % Size(b) \in 0..Size(b)
           /\ NextArrayOffset(MaskOf(Size(b))) = Size(b) /\ Size(b) \in 0..Size(b)
           /\ NextMask(MaskOf(Size(b))) = MaskOf(2 * Size(b))
<1>1. Size(b) \in Nat /\ Size(b) >= 2
  BY Numbers
<1>2. n % Size(b) \in 0..(Size(b) - 1)
  BY <1>1, ModRange
<1>3. n % Size(b) \in 0..Size(b) /\ Size(b) \in 0..Size(b)
  BY <1>1, <1>2
<1>4. PICK s \in Nat : s = Size(b)
  BY <1>1
<1>5. /\ Offset(2 * n, MaskOf(s)) = n % s
      /\ NextArrayOffset(MaskOf(s)) = s
      /\ NextMask(MaskOf(s)) = MaskOf(2 * s)
  <2>1. s >= 2
    BY <1>1, <1>4
  <2>2. QED
    BY <2>1, MaskSays
<1>6. QED
  BY <1>3, <1>4, <1>5

\* An element is one of Elements, wherever it is in the order.
LEMMA ElementAt ==
    ASSUME Types, NEW n \in Nat, n < Count
    PROVE  order[n + 1] \in Elements /\ order[n + 1] \in Marked
<1>1. order \in Seq(Elements) /\ n + 1 \in 1..Len(order)
  BY DEF Types, Count
<1>2. QED
  BY <1>1, ElementOfSeq, Marks

\* StoreElement.
LEMMA StoreElementKeeps == ASSUME Inv, NEW p \in Producers, StoreElement(p) PROVE Inv'
<1>1. Types /\ Layout /\ Words /\ Producing /\ Consuming /\ Slots /\ OwningSound(p)
  BY DEF Inv, Producing
<1>2. Step(p, "store", "off") /\ local' = [local EXCEPT ![p] = NoLocal] /\ pc[p] = "store"
      /\ UNCHANGED <<indices, popper, record, calls, answer>>
  BY DEF StoreElement, Return, Step
<1>0. PICK c \in Nat, m \in Nat : c = local[p].buffer /\ m = Num(p)
  BY <1>1, Locally
<1>3. /\ local[p].index = 2 * m /\ Consumed <= m /\ m < Count /\ order[m + 1] = <<p, pushed[p]>>
      /\ c \in 1..Newest /\ local[p].mask = MaskOf(Size(c)) /\ In(c, m)
  <2>1. pc[p] \in Owning
    BY <1>2 DEF Owning
  <2>2. QED
    BY <1>0, <1>1, <1>2, <2>1 DEF OwningSound
<1>4. m \in Consumed..(Count - 1)
  BY <1>1, <1>3, Numbers
<1>5. Offset(local[p].index, local[p].mask) = m % Size(c) /\ m % Size(c) \in 0..Size(c)
  BY <1>1, <1>3, Place
<1>6. PutBy(c, m % Size(c), order[m + 1])
  <2>1. arrays' = [arrays EXCEPT ![c][m % Size(c)] = order[m + 1]]
    BY <1>0, <1>3, <1>5 DEF StoreElement
  <2>2. order[m + 1] \in Marked
    BY <1>1, <1>3, <1>4, ElementAt
  <2>3. QED
    BY <1>1, <1>3, <1>5, <2>1, <2>2, PutDoes
<1>7. /\ "store" \in Filling /\ "off" \notin Filling /\ "store" \notin Jumping /\ "off" \notin Jumping
      /\ "store" \notin Linking /\ "off" \notin Linking
  BY DEF Filling, Jumping, Linking, Owning, Resizing
<1>8. UNCHANGED <<consumer, consumerBuffer>> /\ Placement
  BY <1>2 DEF popper, record, Placement
<1>9. ASSUME Moves(p, "store", "off"), Minds(p) PROVE Slots'
  <2>1. \A n \in Nat : Pending(n)' <=> (Pending(n) /\ n # m)
    BY <1>1, <1>7, <1>9, PendingAfter, <1>0
  <2>2. \A b \in Nat : (JumpDue(b)' <=> JumpDue(b)) /\ (LinkDue(b)' <=> LinkDue(b))
    BY <1>7, <1>9, JumpDueSame, LinkDueSame
  <2>3. Consumed' = Consumed /\ Newest' = Newest
    BY <1>8, Placed
  <2>4. \A n \in Nat : n # m => (Absent(n)' <=> Absent(n))
    BY <1>8, <2>1, <2>3 DEF Absent
  <2>5. ~Absent(m)'
    <3>1. Pending(m)
      BY <1>0, <1>2, <1>7 DEF Pending
    <3>2. consumer = "advance" => m # Consumed
      BY <1>1, <3>1 DEF Consuming
    <3>3. QED
      BY <1>4, <1>8, <2>1, <2>3, <3>2 DEF Absent
  <2>6. \A b \in Nat : (JumpDue(b)' <=> JumpDue(b)) /\ (Linked(b)' <=> Linked(b))
    BY <1>8, <2>2, <2>3 DEF Linked
  <2>7. order[m + 1] = IF Absent(m)' THEN Nothing ELSE order[m + 1]
    BY <2>5
  <2>8. QED
    BY <1>1, <1>3, <1>4, <1>6, <1>8, <2>4, <2>6, <2>7, SlotsByElement
<1>10. ArraysKept /\ arrays' \in Seq(Spaces) /\ <<"store", "off">> \in Stores
  BY <1>6 DEF PutBy, Stores
<1>11. QED
  BY <1>2, <1>9, <1>10, Writes

\* A producer that is installing an array is the only one.
LEMMA OneResizer ==
    ASSUME Types, Layout, Producing, NEW p \in Producers, NEW q \in Producers,
           pc[p] \in Resizing, pc[q] \in Resizing
    PROVE  p = q
<1>1. pc[p] \in Owning /\ pc[q] \in Owning
  BY DEF Owning
<1>2. Num(p) = Count - 1 /\ Num(q) = Count - 1
  BY DEF Producing, OwningSound
<1>3. QED
  BY <1>1, <1>2, DueApart

\* What is known of it once the array is there.
LEMMA ResizingSays ==
    ASSUME Types, Layout, Words, Producing, NEW p \in Producers,
           pc[p] \in Resizing \ {"resizeBuffer"}
    PROVE  /\ local[p].index = 2 * Num(p) /\ Consumed <= Num(p) /\ Num(p) = Count - 1
           /\ order[Num(p) + 1] = <<p, pushed[p]>>
           /\ local[p].buffer \in 1..Newest /\ local[p].mask = MaskOf(Size(local[p].buffer))
           /\ consumerBuffer <= local[p].buffer /\ local[p].buffer \in Nat
           /\ local[p].buffer + 1 = Newest /\ From(Newest) = Num(p)
           /\ Num(p) \in Consumed..(Count - 1) /\ In(Newest, Num(p)) /\ Newest \in 1..Newest
           /\ pc[p] # "resizeMask" => producerMask = MaskOf(Size(Newest))
<1>1. pc[p] \in Owning /\ pc[p] \in Resizing /\ pc[p] \in Jumping
  BY DEF Owning, Jumping, Resizing
<1>2. /\ local[p].index = 2 * Num(p) /\ Consumed <= Num(p) /\ Num(p) = Count - 1
      /\ order[Num(p) + 1] = <<p, pushed[p]>>
      /\ local[p].buffer \in 1..Newest /\ local[p].mask = MaskOf(Size(local[p].buffer))
      /\ consumerBuffer <= local[p].buffer /\ local[p].buffer = Newest - 1
      /\ From(local[p].buffer + 1) = Num(p)
  BY <1>1 DEF Producing, OwningSound
<1>3. local[p].buffer + 1 = Newest
  BY <1>2, Numbers
<1>4. Num(p) \in Consumed..(Count - 1) /\ In(Newest, Num(p)) /\ Newest \in 1..Newest
  BY <1>2, <1>3, Numbers, Locally DEF In
<1>5. ASSUME pc[p] # "resizeMask" PROVE producerMask = MaskOf(Size(Newest))
  <2>1. ~MaskDue
    <3>1. SUFFICES ASSUME NEW q \in Producers, pc[q] = "resizeMask" PROVE FALSE
      BY DEF MaskDue
    <3>2. pc[q] \in Resizing
      BY <3>1 DEF Resizing
    <3>3. QED
      BY <1>1, <1>5, <3>1, <3>2, OneResizer
  <2>2. QED
    BY <2>1 DEF Words
<1>6. QED
  BY <1>2, <1>3, <1>4, <1>5, Locally

\* ResizeElement.
LEMMA ResizeElementKeeps == ASSUME Inv, NEW p \in Producers, ResizeElement(p) PROVE Inv'
<1>1. Types /\ Layout /\ Words /\ Producing /\ Consuming /\ Slots
  BY DEF Inv
<1>2. Step(p, "resizeElement", "resizeLink") /\ local' = local /\ pc[p] = "resizeElement"
      /\ UNCHANGED <<indices, popper, record, calls, answer>>
  BY DEF ResizeElement, Step
<1>0. PICK m \in Nat : m = Num(p)
  BY <1>1, Locally
<1>3. /\ local[p].index = 2 * m /\ order[m + 1] = <<p, pushed[p]>> /\ producerMask = MaskOf(Size(Newest))
      /\ m \in Consumed..(Count - 1) /\ In(Newest, m) /\ Newest \in 1..Newest /\ producerBuffer = Newest
  <2>1. pc[p] \in Resizing \ {"resizeBuffer"} /\ pc[p] # "resizeMask"
    BY <1>2 DEF Resizing
  <2>2. QED
    BY <1>0, <1>1, <2>1, ResizingSays, WordsSay
<1>4. m < Count
  BY <1>1, <1>3, Numbers
<1>5. Offset(local[p].index, producerMask) = m % Size(Newest) /\ m % Size(Newest) \in 0..Size(Newest)
  BY <1>1, <1>3, Place
<1>6. PutBy(Newest, m % Size(Newest), order[m + 1])
  <2>1. arrays' = [arrays EXCEPT ![Newest][m % Size(Newest)] = order[m + 1]]
    BY <1>3, <1>5 DEF ResizeElement
  <2>2. order[m + 1] \in Marked
    BY <1>1, <1>4, ElementAt
  <2>3. QED
    BY <1>1, <1>3, <1>5, <2>1, <2>2, PutDoes
<1>7. /\ "resizeElement" \in Filling /\ "resizeLink" \notin Filling
      /\ "resizeElement" \in Jumping /\ "resizeLink" \in Jumping
      /\ "resizeElement" \in Linking /\ "resizeLink" \in Linking
  BY DEF Filling, Jumping, Linking, Owning, Resizing
<1>8. UNCHANGED <<consumer, consumerBuffer>> /\ Placement
  BY <1>2 DEF popper, record, Placement
<1>9. ASSUME Moves(p, "resizeElement", "resizeLink"), Minds(p) PROVE Slots'
  <2>1. \A n \in Nat : Pending(n)' <=> (Pending(n) /\ n # m)
    BY <1>1, <1>7, <1>9, PendingAfter, <1>0
  <2>2. \A b \in Nat : (JumpDue(b)' <=> JumpDue(b)) /\ (LinkDue(b)' <=> LinkDue(b))
    BY <1>2, <1>7, <1>9, JumpDueSame, LinkDueSame
  <2>3. Consumed' = Consumed /\ Newest' = Newest
    BY <1>8, Placed
  <2>4. \A n \in Nat : n # m => (Absent(n)' <=> Absent(n))
    BY <1>8, <2>1, <2>3 DEF Absent
  <2>5. ~Absent(m)'
    <3>1. Pending(m)
      BY <1>0, <1>2, <1>7 DEF Pending
    <3>2. consumer = "advance" => m # Consumed
      BY <1>1, <3>1 DEF Consuming
    <3>3. QED
      BY <1>4, <1>8, <2>1, <2>3, <3>2 DEF Absent
  <2>6. \A b \in Nat : (JumpDue(b)' <=> JumpDue(b)) /\ (Linked(b)' <=> Linked(b))
    BY <1>8, <2>2, <2>3 DEF Linked
  <2>7. order[m + 1] = IF Absent(m)' THEN Nothing ELSE order[m + 1]
    BY <2>5
  <2>8. QED
    BY <1>1, <1>3, <1>4, <1>6, <1>8, <2>4, <2>6, <2>7, SlotsByElement
<1>10. ArraysKept /\ arrays' \in Seq(Spaces) /\ <<"resizeElement", "resizeLink">> \in Stores
  BY <1>6 DEF PutBy, Stores
<1>11. QED
  BY <1>2, <1>9, <1>10, Writes

\* ResizeLink.
LEMMA ResizeLinkKeeps == ASSUME Inv, NEW p \in Producers, ResizeLink(p) PROVE Inv'
<1>1. Types /\ Layout /\ Words /\ Producing /\ Consuming /\ Slots
  BY DEF Inv
<1>2. Step(p, "resizeLink", "resizeSeen") /\ local' = local /\ pc[p] = "resizeLink"
      /\ UNCHANGED <<indices, popper, record, calls, answer>>
  BY DEF ResizeLink, Step
<1>0. PICK c \in Nat : c = local[p].buffer
  BY <1>1, Locally
<1>3. /\ c \in 1..Newest /\ local[p].mask = MaskOf(Size(c)) /\ c + 1 = Newest /\ c \in Nat
      /\ consumerBuffer <= c /\ producerBuffer = Newest
  <2>1. pc[p] \in Resizing \ {"resizeBuffer"}
    BY <1>2 DEF Resizing
  <2>2. QED
    BY <1>0, <1>1, <2>1, ResizingSays, WordsSay
<1>4. NextArrayOffset(local[p].mask) = Size(c) /\ Size(c) \in 0..Size(c)
  BY <1>1, <1>3, Place
<1>5. PutBy(c, Size(c), Link(c + 1))
  <2>1. arrays' = [arrays EXCEPT ![c][Size(c)] = Link(c + 1)]
    BY <1>0, <1>3, <1>4 DEF ResizeLink
  <2>2. Link(c + 1) \in Marked
    BY <1>3, Marks
  <2>3. QED
    BY <1>1, <1>3, <1>4, <2>1, <2>2, PutDoes
<1>6. /\ "resizeLink" \notin Filling /\ "resizeSeen" \notin Filling
      /\ "resizeLink" \in Jumping /\ "resizeSeen" \in Jumping
      /\ "resizeLink" \in Linking /\ "resizeSeen" \notin Linking
  BY DEF Filling, Jumping, Linking, Owning, Resizing
<1>7. UNCHANGED <<consumer, consumerBuffer>> /\ Placement
  BY <1>2 DEF popper, record, Placement
<1>8. ASSUME Moves(p, "resizeLink", "resizeSeen"), Minds(p) PROVE Slots'
  <2>1. \A n \in Nat : Pending(n)' <=> Pending(n)
    BY <1>2, <1>6, <1>8, PendingSame
  <2>2. \A b \in Nat : JumpDue(b)' <=> JumpDue(b)
    BY <1>2, <1>6, <1>8, JumpDueSame
  <2>3. \A b \in Nat : LinkDue(b)' <=> (LinkDue(b) /\ b # c)
    BY <1>1, <1>6, <1>8, LinkDueAfter, <1>0
  <2>4. Consumed' = Consumed /\ Newest' = Newest
    BY <1>7, Placed
  <2>5. \A n \in Nat : Absent(n)' <=> Absent(n)
    BY <1>7, <2>1, <2>4 DEF Absent
  <2>6. \A b \in Nat : b # c => (Linked(b)' <=> Linked(b))
    BY <1>7, <2>3, <2>4 DEF Linked
  <2>7. Linked(c)'
    BY <1>3, <1>7, <2>3, <2>4 DEF Linked
  <2>8. Link(c + 1) = IF Linked(c)' THEN Link(c + 1) ELSE Nothing
    BY <2>7
  <2>9. QED
    BY <1>1, <1>3, <1>5, <1>7, <2>2, <2>5, <2>6, <2>8, SlotsByLink
<1>9. ArraysKept /\ arrays' \in Seq(Spaces) /\ <<"resizeLink", "resizeSeen">> \in Stores
  BY <1>5 DEF PutBy, Stores
<1>10. QED
  BY <1>2, <1>8, <1>9, Writes

\* ResizeJump.
LEMMA ResizeJumpKeeps == ASSUME Inv, NEW p \in Producers, ResizeJump(p) PROVE Inv'
<1>1. Types /\ Layout /\ Words /\ Producing /\ Consuming /\ Slots /\ OwningSound(p)
  BY DEF Inv, Producing
<1>2. Step(p, "resizeJump", "off") /\ local' = [local EXCEPT ![p] = NoLocal] /\ pc[p] = "resizeJump"
      /\ UNCHANGED <<indices, popper, record, calls, answer>>
  BY DEF ResizeJump, Return, Step
<1>0. PICK c \in Nat : c = local[p].buffer
  BY <1>1, Locally
<1>3. /\ local[p].index = 2 * Num(p) /\ Consumed <= Num(p)
      /\ c \in 1..Newest /\ local[p].mask = MaskOf(Size(c)) /\ c < Newest /\ From(c + 1) = Num(p)
  <2>1. pc[p] \in Owning /\ pc[p] \in Jumping
    BY <1>2 DEF Owning, Jumping
  <2>2. QED
    BY <1>0, <1>1, <2>1 DEF OwningSound
<1>4. Num(p) \in Nat
  BY <1>1, Locally
<1>5. /\ Offset(local[p].index, local[p].mask) = From(c + 1) % Size(c)
      /\ From(c + 1) % Size(c) \in 0..Size(c)
  BY <1>1, <1>3, <1>4, Place
<1>6. PutBy(c, From(c + 1) % Size(c), Jump)
  <2>1. arrays' = [arrays EXCEPT ![c][From(c + 1) % Size(c)] = Jump]
    BY <1>0, <1>5 DEF ResizeJump
  <2>2. QED
    BY <1>1, <1>3, <1>5, <2>1, PutDoes, Marks
<1>7. /\ "resizeJump" \notin Filling /\ "off" \notin Filling
      /\ "resizeJump" \in Jumping /\ "off" \notin Jumping
      /\ "resizeJump" \notin Linking /\ "off" \notin Linking
  BY DEF Filling, Jumping, Linking, Owning, Resizing
<1>8. UNCHANGED <<consumer, consumerBuffer>> /\ Placement
  BY <1>2 DEF popper, record, Placement
<1>9. ASSUME Moves(p, "resizeJump", "off"), Minds(p) PROVE Slots'
  <2>1. \A n \in Nat : Pending(n)' <=> Pending(n)
    BY <1>7, <1>9, PendingSame
  <2>2. \A b \in Nat : LinkDue(b)' <=> LinkDue(b)
    BY <1>7, <1>9, LinkDueSame
  <2>3. \A b \in Nat : JumpDue(b)' <=> (JumpDue(b) /\ b # c)
    BY <1>1, <1>7, <1>9, JumpDueAfter, <1>0
  <2>4. Consumed' = Consumed /\ Newest' = Newest
    BY <1>8, Placed
  <2>5. \A n \in Nat : Absent(n)' <=> Absent(n)
    BY <1>8, <2>1, <2>4 DEF Absent
  <2>6. \A b \in Nat : Linked(b)' <=> Linked(b)
    BY <1>8, <2>2, <2>4 DEF Linked
  <2>7. QED
    BY <1>1, <1>3, <1>6, <1>8, <2>3, <2>5, <2>6, SlotsByJump
<1>10. ArraysKept /\ arrays' \in Seq(Spaces) /\ <<"resizeJump", "off">> \in Stores
  BY <1>6 DEF PutBy, Stores
<1>11. QED
  BY <1>2, <1>9, <1>10, Writes

--------------------------------------------------------------------------------
(* Steps that give out an index *)

\* The compare-and-swaps that do, with the labels around them.
Gifts == {<<"casIndex", "store">>, <<"casResize", "resizeBuffer">>}

\* What is known of a producer that is about to be given an index.
LEMMA GiftSays ==
    ASSUME Inv, NEW p \in Producers, pc[p] \in {"casIndex", "casResize"},
           producerIndex = local[p].index
    PROVE  /\ Num(p) = Count /\ local[p].index = 2 * Count /\ producerIndex = 2 * Count /\ ~InResize
           /\ local[p].buffer = Newest /\ local[p].mask = MaskOf(Size(Newest))
           /\ Count < Oldest(Newest) + Size(Newest) /\ Count < Limit
           /\ pc[p] = "casIndex" => Count < Bound
           /\ pc[p] = "casResize" => Count >= 1 /\ 2 * Size(Newest) # maxQueueCapacity
           /\ pushed[p] \in Nat /\ pushed[p] < calls /\ <<p, pushed[p] + 1>> \in Elements
<1>1. Types /\ Calling /\ Layout /\ Words /\ TryingSound(p)
  BY DEF Inv, Producing
<1>2. /\ local[p].index = 2 * Num(p)
      /\ local[p].buffer = Newest /\ local[p].mask = MaskOf(Size(Newest))
  <2>1. /\ local[p].index = 2 * Num(p) /\ local[p].buffer = Newest
    BY <1>1, SlowSays
  <2>2. \E b \in 1..Newest : local[p].mask = MaskOf(Size(b)) /\ b = Newest
    BY <1>1, SlowSays
  <2>3. QED
    BY <2>1, <2>2
<1>3. Num(p) = Count /\ Count <= Bound /\ ~InResize
  BY <1>1, <1>2, EvenIndex, Locally
<1>4. Newest \in 1..Newest
  BY <1>1, Numbers
<1>5. Bound = Oldest(Newest) + Room(Newest)
  BY DEF Bound
<1>6. ASSUME pc[p] = "casIndex" PROVE Count < Bound /\ Count < Limit /\ Count < Oldest(Newest) + Size(Newest)
  <2>1. Count < Bound /\ Count < Limit
    BY <1>1, <1>3, <1>6 DEF TryingSound
  <2>2. QED
    BY <1>1, <1>4, <1>5, <2>1, Numbers
<1>7. ASSUME pc[p] = "casResize"
      PROVE  /\ Count >= 1 /\ 2 * Size(Newest) # maxQueueCapacity /\ Count < Limit
             /\ Count < Oldest(Newest) + Size(Newest)
  <2>1. local[p].mask + 2 # maxQueueCapacity /\ Count < Limit /\ Count >= 1
    BY <1>1, <1>3, <1>7 DEF TryingSound
  <2>2. local[p].mask + 2 = 2 * Size(Newest)
    BY <1>1, <1>2, <1>4, Numbers DEF MaskOf
  <2>3. Room(Newest) = Size(Newest) - 1
    BY <2>1, <2>2 DEF Room
  <2>4. QED
    BY <1>1, <1>3, <1>4, <1>5, <2>1, <2>2, <2>3, Numbers
<1>8. pushed[p] \in Nat /\ pushed[p] < calls /\ calls \in Nat /\ calls <= MaxPushes
  <2>1. pc[p] \in Asking
    BY DEF Asking, Trying
  <2>2. QED
    BY <1>1, <2>1 DEF Calling
<1>9. <<p, pushed[p] + 1>> \in Elements
  <2>1. pushed[p] + 1 \in 1..MaxPushes
    BY <1>8, Constants
  <2>2. QED
    BY <2>1 DEF Elements
<1>10. QED
  BY <1>2, <1>3, <1>6, <1>7, <1>8, <1>9

\* p is given the next index.
GiftBy(p, from, to) ==
    /\ Moves(p, from, to) /\ <<from, to>> \in Gifts
    /\ producerIndex = local[p].index
    /\ order' \in Seq(Elements) /\ Len(order') = Len(order) + 1
    /\ \A i \in 1..Len(order) : order'[i] = order[i]
    /\ order'[Len(order) + 1] = <<p, pushed'[p]>>
    /\ pushed' = [pushed EXCEPT ![p] = @ + 1] /\ answer' = [answer EXCEPT ![p] = "pushed"]
    /\ producerIndex' = producerIndex + (IF to = "store" THEN 2 ELSE 1)
    /\ UNCHANGED <<producerLimit, producerMask, producerBuffer, popper, arrays, local, spans,
                   maxQueueCapacity, calls>>

\* That is what a successful compare-and-swap does.
LEMMA GiftDoes ==
    ASSUME Inv, NEW p \in Producers, NEW from, NEW to, <<from, to>> \in Gifts,
           NEW increment, increment = IF to = "store" THEN 2 ELSE 1,
           producerIndex = local[p].index, Acquire(p, from, increment, to),
           UNCHANGED <<producerLimit, producerMask, producerBuffer, popper, arrays, local, calls>>
    PROVE  GiftBy(p, from, to)
<1>1. Types /\ Calling
  BY DEF Inv
<1>2. /\ Step(p, from, to) /\ producerIndex' = producerIndex + increment
      /\ pushed' = [pushed EXCEPT ![p] = @ + 1]
      /\ order' = Append(order, <<p, pushed[p] + 1>>)
      /\ answer' = [answer EXCEPT ![p] = "pushed"]
      /\ UNCHANGED <<spans, maxQueueCapacity>>
  BY DEF Acquire
<1>3. to \in Free \cup Owning /\ from \in {"casIndex", "casResize"}
  BY DEF Gifts, Free, Owning, Resizing
<1>4. Moves(p, from, to)
  BY <1>1, <1>2, <1>3, StepMoves
<1>5. <<p, pushed[p] + 1>> \in Elements
  <2>1. pc[p] \in {"casIndex", "casResize"}
    BY <1>2, <1>3 DEF Step
  <2>2. QED
    BY <2>1, GiftSays
<1>6. order \in Seq(Elements)
  BY <1>1 DEF Types
<1> DEFINE e == <<p, pushed[p] + 1>>
<1>7. /\ Append(order, e) \in Seq(Elements) /\ Len(Append(order, e)) = Len(order) + 1
      /\ \A i \in 1..Len(order) : Append(order, e)[i] = order[i]
      /\ Append(order, e)[Len(order) + 1] = e
  BY <1>5, <1>6, AppendProperties
<1>8. pushed'[p] = pushed[p] + 1
  BY <1>1, <1>2 DEF Calling
<1>9. QED
  BY <1>2, <1>4, <1>7, <1>8 DEF GiftBy

\* The numbers, once p has been given the next index.
LEMMA GiftNumbers ==
    ASSUME Inv, NEW p \in Producers, NEW from, NEW to, GiftBy(p, from, to)
    PROVE  /\ pc[p] = from /\ pc'[p] = to /\ local'[p] = local[p]
           /\ Newest' = Newest /\ Consumed' = Consumed /\ Count' = Count + 1 /\ Num(p)' = Count
           /\ \A b : /\ From(b)' = From(b) /\ Size(b)' = Size(b)
                     /\ Oldest(b)' = Oldest(b) /\ Room(b)' = Room(b)
           /\ \A b, n : In(b, n)' <=> In(b, n)
           /\ Bound' = Bound /\ Limit' = Limit
           /\ \A n \in Nat : n < Count => order'[n + 1] = order[n + 1]
           /\ order'[Count + 1] = <<p, pushed'[p]>>
<1>1. Types /\ Layout
  BY DEF Inv
<1>2. UNCHANGED <<consumerIndex, consumerMask, consumerBuffer, consumer, got, taken, spans,
                  maxQueueCapacity, local>>
  BY DEF GiftBy, popper
<1>3. Newest' = Newest /\ Consumed' = Consumed /\ \A b : From(b)' = From(b) /\ Size(b)' = Size(b)
  BY <1>2 DEF Newest, Consumed, From, Size
<1>4. \A b : Oldest(b)' = Oldest(b) /\ Room(b)' = Room(b)
  BY <1>2, <1>3 DEF Oldest, Room
<1>5. \A b, n : In(b, n)' <=> In(b, n)
  BY <1>3 DEF In
<1>6. Bound' = Bound /\ Limit' = Limit
  BY <1>2, <1>3, <1>4 DEF Bound, Limit
<1>7. Count' = Count + 1 /\ order'[Count + 1] = <<p, pushed'[p]>>
  BY DEF GiftBy, Count
<1>8. ASSUME NEW n \in Nat, n < Count PROVE order'[n + 1] = order[n + 1]
  <2>1. n + 1 \in 1..Count
    BY <1>1, <1>8, Numbers
  <2>2. QED
    BY <2>1 DEF GiftBy, Count
<1>9. pc[p] = from /\ pc'[p] = to /\ local'[p] = local[p]
  BY <1>2 DEF GiftBy, Moves
<1>10. Num(p)' = Count
  <2>1. pc[p] \in {"casIndex", "casResize"}
    BY <1>9 DEF GiftBy, Gifts
  <2>2. Num(p) = Count
    BY <2>1, GiftSays DEF GiftBy
  <2>3. QED
    BY <1>9, <2>2 DEF Num
<1>11. QED
  BY <1>3, <1>4, <1>5, <1>6, <1>7, <1>8, <1>9, <1>10

\* Its element is what is pending now, besides what was.
LEMMA GiftWork ==
    ASSUME Inv, NEW p \in Producers, NEW from, NEW to, GiftBy(p, from, to)
    PROVE  /\ \A n \in Nat : Pending(n)' <=> (Pending(n) \/ n = Count)
           /\ \A b \in Nat : (JumpDue(b)' <=> JumpDue(b)) /\ (LinkDue(b)' <=> LinkDue(b))
           /\ MaskDue' <=> MaskDue
           /\ InResize' <=> (InResize \/ to = "resizeBuffer")
<1>1. Moves(p, from, to) /\ local' = local
  BY DEF GiftBy
<1>2. /\ from \notin Filling /\ to \in Filling /\ from \notin Jumping /\ to \notin Jumping
      /\ from \notin Linking /\ to \notin Linking /\ from # "resizeMask" /\ to # "resizeMask"
      /\ from \notin Resizing /\ (to \in Resizing <=> to = "resizeBuffer")
  BY DEF GiftBy, Gifts, Filling, Jumping, Linking, Owning, Resizing
<1>3. Minds(p)
  <2>1. local \in [Producers -> Locals]
    BY DEF Inv, Types
  <2>2. QED
    BY <1>1, <2>1 DEF Minds
<1>4. \A b \in Nat : (JumpDue(b)' <=> JumpDue(b)) /\ (LinkDue(b)' <=> LinkDue(b))
  BY <1>1, <1>2, <1>3, JumpDueSame, LinkDueSame
<1>5. MaskDue' <=> MaskDue
  BY <1>1, <1>2, MaskDueSame
<1>6. InResize' <=> (InResize \/ to = "resizeBuffer")
  <2>1. \A q \in Producers : q # p => pc'[q] = pc[q]
    BY <1>1 DEF Moves
  <2>2. pc[p] \notin Resizing /\ (pc'[p] \in Resizing <=> to = "resizeBuffer")
    BY <1>1, <1>2 DEF Moves
  <2>3. QED
    BY <2>1, <2>2 DEF InResize
<1>7. \A q \in Producers : q # p => pc'[q] = pc[q] /\ Num(q)' = Num(q)
  BY <1>1 DEF Moves, Num
<1>8. pc[p] \notin Filling /\ pc'[p] \in Filling /\ Num(p)' = Count
  BY <1>1, <1>2, GiftNumbers DEF Moves
<1>9. \A n \in Nat : Pending(n)' <=> (Pending(n) \/ n = Count)
  BY <1>7, <1>8 DEF Pending
<1>10. QED
  BY <1>4, <1>5, <1>6, <1>9

\* The words afterwards.
LEMMA GiftWords ==
    ASSUME Inv, NEW p \in Producers, NEW from, NEW to, GiftBy(p, from, to)
    PROVE  Words'
<1>1. Types /\ Layout /\ Words
  BY DEF Inv
<1>2. pc[p] = from /\ pc[p] \in {"casIndex", "casResize"} /\ <<from, to>> \in Gifts
      /\ to \in {"store", "resizeBuffer"} /\ (to = "store" <=> from = "casIndex")
  BY GiftNumbers DEF GiftBy, Gifts
<1>3. /\ producerIndex = 2 * Count /\ ~InResize
      /\ Count < Oldest(Newest) + Size(Newest) /\ Count < Limit
      /\ pc[p] = "casIndex" => Count < Bound
      /\ pc[p] = "casResize" => Count >= 1
  BY <1>2, GiftSays DEF GiftBy
<1>4. /\ Newest' = Newest /\ Consumed' = Consumed /\ Count' = Count + 1
      /\ \A b : /\ From(b)' = From(b) /\ Size(b)' = Size(b) /\ Oldest(b)' = Oldest(b)
      /\ Bound' = Bound /\ Limit' = Limit
  BY GiftNumbers
<1>5. /\ producerIndex' = producerIndex + (IF to = "store" THEN 2 ELSE 1)
      /\ UNCHANGED <<producerLimit, producerMask, producerBuffer, consumerIndex>>
  BY DEF GiftBy, popper
<1>6. Newest \in 1..Newest
  BY <1>1, Numbers
<1>7. (consumerIndex = 2 * Consumed /\ Consumed <= Count)'
  BY <1>1, <1>4, <1>5, Numbers DEF Words
<1>8. (Newest > 1 => From(Newest) < Count)'
  BY <1>1, <1>4, <1>6, Numbers DEF Words
<1>9. (Count <= Oldest(Newest) + Size(Newest) /\ Count <= Limit)'
  BY <1>1, <1>3, <1>4, <1>6, Numbers
<1>10. (\/ producerIndex = 2 * Count /\ Count <= Bound /\ ~InResize
        \/ producerIndex = 2 * Count - 1 /\ Count >= 1 /\ InResize)'
  <2>1. CASE to = "store"
    <3>1. producerIndex' = 2 * Count' /\ Count' <= Bound'
      BY <1>1, <1>2, <1>3, <1>4, <1>5, <2>1, Numbers
    <3>2. ~InResize'
      BY <1>3, <2>1, GiftWork
    <3>3. QED
      BY <3>1, <3>2
  <2>2. CASE to = "resizeBuffer"
    <3>1. producerIndex' = 2 * Count' - 1 /\ Count' >= 1
      BY <1>1, <1>3, <1>4, <1>5, <2>2, Numbers
    <3>2. InResize'
      BY <2>2, GiftWork
    <3>3. QED
      BY <3>1, <3>2
  <2>3. QED
    BY <1>2, <2>1, <2>2
<1>11. (producerLimit <= 2 * Bound /\ producerLimit <= 2 * Limit /\ producerBuffer = Newest)'
  BY <1>1, <1>4, <1>5 DEF Words
<1>12. (producerMask = MaskOf(Size(IF MaskDue THEN Newest - 1 ELSE Newest)))'
  <2>1. MaskDue' <=> MaskDue
    BY GiftWork
  <2>2. QED
    BY <1>1, <1>4, <1>5, <2>1 DEF Words, MaskOf
<1>13. QED
  BY <1>7, <1>8, <1>9, <1>10, <1>11, <1>12 DEF Words

\* The producers afterwards.
LEMMA GiftProducing ==
    ASSUME Inv, NEW p \in Producers, NEW from, NEW to, GiftBy(p, from, to)
    PROVE  Producing'
<1>1. Types /\ Layout /\ Words /\ Producing /\ Consuming
  BY DEF Inv
<1>2. pc[p] = from /\ pc'[p] = to /\ pc[p] \in {"casIndex", "casResize"} /\ <<from, to>> \in Gifts
      /\ to \in {"store", "resizeBuffer"} /\ (to = "resizeBuffer" <=> from = "casResize")
      /\ local' = local
  BY GiftNumbers DEF GiftBy, Gifts
<1>3. /\ local[p].index = 2 * Count /\ producerIndex = 2 * Count /\ ~InResize
      /\ local[p].buffer = Newest /\ local[p].mask = MaskOf(Size(Newest))
      /\ pc[p] = "casResize" => Count >= 1 /\ 2 * Size(Newest) # maxQueueCapacity
  BY <1>2, GiftSays DEF GiftBy
<1>4. /\ Newest' = Newest /\ Consumed' = Consumed /\ Count' = Count + 1 /\ Num(p)' = Count
      /\ \A b : From(b)' = From(b) /\ Size(b)' = Size(b)
      /\ \A b, n : In(b, n)' <=> In(b, n)
      /\ Bound' = Bound /\ Limit' = Limit
      /\ \A n \in Nat : n < Count => order'[n + 1] = order[n + 1]
      /\ order'[Count + 1] = <<p, pushed'[p]>>
  BY GiftNumbers
<1>5. /\ producerIndex' = producerIndex + (IF to = "store" THEN 2 ELSE 1)
      /\ UNCHANGED <<consumerIndex, consumerBuffer, maxQueueCapacity>>
      /\ pushed' = [pushed EXCEPT ![p] = @ + 1]
      /\ \A q \in Producers : q # p => pc'[q] = pc[q]
  BY DEF GiftBy, popper, Moves
<1>6. Newest \in 1..Newest
  BY <1>1, Numbers
<1>7. Forward
  <2>1. producerIndex \in Nat /\ consumerIndex \in Nat
    BY <1>1 DEF Types
  <2>2. QED
    BY <1>1, <1>2, <1>4, <1>5, <2>1, Numbers DEF Forward
<1>8. From(Newest) <= Count /\ (Newest > 1 => From(Newest) < Count)
  <2>1. From(1) = 0 /\ (Newest > 1 => From(Newest) < Count)
    BY <1>1 DEF Layout, Words
  <2>2. QED
    BY <1>1, <1>6, <2>1, Numbers
<1>9. TryingSound(p)'
  <2>1. /\ pc'[p] \notin Trying /\ pc'[p] \notin {"casLimit", "casIndex"} /\ pc'[p] # "casResize"
    BY <1>2 DEF Trying
  <2>2. local[p].limit <= 2 * Bound /\ local[p].limit <= 2 * Limit
    BY <1>1 DEF Producing, TryingSound
  <2>3. QED
    BY <1>2, <1>4, <2>1, <2>2 DEF TryingSound
<1>10. OwningSound(p)'
  <2>1. Consumed <= Count /\ Count < Count + 1 /\ Count = Count + 1 - 1
    BY <1>1, Numbers DEF Words
  <2>2. consumerBuffer <= Newest
    BY <1>1, Numbers DEF Consuming
  <2>3. (/\ local[p].index = 2 * Num(p) /\ Consumed <= Num(p) /\ Num(p) < Count
         /\ order[Num(p) + 1] = <<p, pushed[p]>>
         /\ local[p].buffer \in 1..Newest /\ local[p].mask = MaskOf(Size(local[p].buffer))
         /\ consumerBuffer <= local[p].buffer /\ Num(p) = Count - 1)'
    <3>1. (local[p].index = 2 * Num(p) /\ Consumed <= Num(p) /\ Num(p) < Count /\ Num(p) = Count - 1)'
      <4>1. Count \in Nat
        BY <1>1, Numbers
      <4>2. Num(p)' = Count /\ Count' = Count + 1 /\ Consumed' = Consumed /\ local'[p].index = 2 * Count
        BY <1>2, <1>3, <1>4
      <4>3. QED
        BY <2>1, <4>1, <4>2
    <3>2. (order[Num(p) + 1] = <<p, pushed[p]>>)'
      BY <1>4
    <3>3. (local[p].buffer \in 1..Newest /\ consumerBuffer <= local[p].buffer)'
      BY <1>2, <1>3, <1>4, <1>5, <1>6, <2>2
    <3>4. (local[p].mask = MaskOf(Size(local[p].buffer)))'
      BY <1>2, <1>3, <1>4 DEF MaskOf
    <3>5. QED
      BY <3>1, <3>2, <3>3, <3>4
  <2>4. In(Newest, Count)
    BY <1>1, <1>8, Numbers DEF In
  <2>5. (/\ In(local[p].buffer, Num(p))
         /\ local[p].buffer > 1 => From(local[p].buffer) < Num(p))'
    <3>1. In(local[p].buffer, Num(p))' <=> In(Newest, Count)
      BY <1>2, <1>3, <1>4 DEF In
    <3>2. QED
      BY <1>2, <1>3, <1>4, <1>8, <2>4, <3>1
  <2>6. pc'[p] = "resizeBuffer" => (/\ local[p].buffer = Newest /\ From(Newest) < Num(p)
                                    /\ 2 * Size(Newest) # maxQueueCapacity)'
    <3>1. pc'[p] = "resizeBuffer" => Count >= 1 /\ 2 * Size(Newest) # maxQueueCapacity
      BY <1>2, <1>3
    <3>2. From(1) = 0
      BY <1>1 DEF Layout
    <3>3. pc'[p] = "resizeBuffer" => From(Newest) < Count
      BY <1>1, <1>6, <1>8, <3>1, <3>2, Numbers
    <3>4. Size(Newest)' = Size(Newest) /\ From(Newest)' = From(Newest)
      BY <1>4 DEF Size, From
    <3>5. QED
      BY <1>2, <1>3, <1>4, <1>5, <3>1, <3>3, <3>4
  <2>7. pc'[p] \notin Jumping /\ pc'[p] \notin Resizing \ {"resizeBuffer"} /\ pc'[p] # "resizeLimit"
    BY <1>2 DEF Jumping, Resizing, Owning
  <2>8. QED
    BY <2>3, <2>5, <2>6, <2>7 DEF OwningSound
<1>11. ASSUME NEW q \in Producers, q # p PROVE TryingSound(q)' /\ OwningSound(q)'
  <2>1. pc'[q] = pc[q] /\ local'[q] = local[q] /\ Num(q)' = Num(q) /\ pushed'[q] = pushed[q]
    <3>1. pushed \in [Producers -> Nat]
      BY DEF Inv, Calling
    <3>2. QED
      BY <1>2, <1>5, <1>11, <3>1 DEF Num
  <2>2. TryingSound(q) /\ OwningSound(q)
    BY <1>1 DEF Producing
  <2>3. TryingSound(q)'
    BY <1>1, <1>7, <2>1, <2>2, TryingForward
  <2>4. pc[q] \notin Resizing
    BY <1>3 DEF InResize
  <2>5. pc'[q] \in Owning => order'[Num(q) + 1] = order[Num(q) + 1] /\ Num(q) < Count + 1
    BY <1>1, <1>4, <2>1, <2>2, Numbers, Locally DEF OwningSound
  <2>6. /\ In(local[q].buffer, Num(q))' <=> In(local[q].buffer, Num(q))
        /\ Size(local[q].buffer)' = Size(local[q].buffer)
        /\ From(local[q].buffer)' = From(local[q].buffer)
        /\ From(local[q].buffer + 1)' = From(local[q].buffer + 1)
    <3>1. spans' = spans /\ Newest' = Newest
      BY <1>4 DEF GiftBy
    <3>2. QED
      BY <2>1, <3>1 DEF In, Size, From
  <2>7. pc'[q] # "resizeBuffer" /\ pc'[q] # "resizeLimit"
    BY <2>1, <2>4 DEF Resizing
  <2>8. OwningSound(q)'
    BY <1>4, <1>5, <2>1, <2>2, <2>4, <2>5, <2>6, <2>7 DEF OwningSound
  <2>9. QED
    BY <2>3, <2>8
<1>12. OwnersApart'
  <2>1. ASSUME NEW q \in Producers, q # p, pc'[q] \in Owning
        PROVE  pc[q] \in Owning /\ Num(q)' = Num(q) /\ Num(q) < Count
    <3>1. pc[q] \in Owning /\ Num(q)' = Num(q)
      BY <1>2, <1>5, <2>1 DEF Num
    <3>2. QED
      BY <1>1, <3>1 DEF Producing, OwningSound
  <2>2. Num(p)' = Count /\ \A q \in Producers : Num(q) \in Nat
    BY <1>1, <1>4, Locally
  <2>3. ASSUME NEW a \in Producers, NEW b \in Producers, pc'[a] \in Owning, pc'[b] \in Owning,
               Num(a)' = Num(b)'
        PROVE  a = b
    <3>1. CASE a # p /\ b # p
      BY <1>1, <2>1, <2>3, <3>1 DEF Producing, OwnersApart
    <3>2. CASE a = p /\ b # p
      BY <1>1, <2>1, <2>2, <2>3, <3>2, Numbers
    <3>3. CASE a # p /\ b = p
      BY <1>1, <2>1, <2>2, <2>3, <3>3, Numbers
    <3>4. QED
      BY <3>1, <3>2, <3>3
  <2>4. QED
    BY <2>3 DEF OwnersApart
<1>13. QED
  BY <1>9, <1>10, <1>11, <1>12 DEF Producing

\* The slots afterwards: that of the new element is free.
LEMMA GiftSlots ==
    ASSUME Inv, NEW p \in Producers, NEW from, NEW to, GiftBy(p, from, to)
    PROVE  Slots'
<1>1. Types /\ Layout /\ Words /\ Consuming /\ Slots
  BY DEF Inv
<1>2. pc[p] \in {"casIndex", "casResize"} /\ producerIndex = local[p].index
  BY GiftNumbers DEF GiftBy, Gifts
<1>3. Count < Oldest(Newest) + Size(Newest)
  BY <1>2, GiftSays
<1>4. /\ Newest' = Newest /\ Consumed' = Consumed /\ Count' = Count + 1
      /\ \A b : From(b)' = From(b) /\ Size(b)' = Size(b)
      /\ \A b, n : In(b, n)' <=> In(b, n)
      /\ \A n \in Nat : n < Count => order'[n + 1] = order[n + 1]
  BY GiftNumbers
<1>5. /\ \A n \in Nat : Pending(n)' <=> (Pending(n) \/ n = Count)
      /\ \A b \in Nat : (JumpDue(b)' <=> JumpDue(b)) /\ (LinkDue(b)' <=> LinkDue(b))
  BY GiftWork
<1>6. UNCHANGED <<consumer, consumerBuffer, arrays>>
  BY DEF GiftBy, popper
<1>7. Newest \in 1..Newest /\ Count \in Nat /\ Consumed \in Nat
  BY <1>1, Numbers
<1>8. Window(Newest, Count) /\ In(Newest, Count)
  <2>1. Window(Newest, Count)
    BY <1>1, <1>3, InWindow
  <2>2. From(Newest) <= Count
    <3>1. From(1) = 0 /\ (Newest > 1 => From(Newest) < Count)
      BY <1>1 DEF Layout, Words
    <3>2. QED
      BY <1>1, <1>7, <3>1, Numbers
  <2>3. QED
    BY <1>1, <2>1, <2>2, Numbers DEF In
<1>9. arrays[Newest][Count % Size(Newest)] = Nothing
  <2>1. Count % Size(Newest) \in 0..(Size(Newest) - 1)
    <3>1. Size(Newest) \in Nat \ {0}
      BY <1>1, <1>7, Numbers
    <3>2. QED
      BY <1>7, <3>1, ModRange
  <2>2. ASSUME NEW n \in Consumed..(Count - 1), In(Newest, n)
        PROVE  Count % Size(Newest) # n % Size(Newest)
    <3>1. n \in Nat /\ n # Count /\ Window(Newest, n)
      BY <1>1, <1>7, <2>2, InWindow
    <3>2. QED
      BY <1>1, <1>7, <1>8, <3>1, WindowApart
  <2>3. ~(Newest < Newest)
    BY <1>7
  <2>4. QED
    BY <1>1, <1>7, <2>1, <2>2, <2>3 DEF Slots, OthersFree
<1>10. ASSUME NEW b \in 1..Newest, NEW n \in Consumed..Count, In(b, n)
       PROVE  arrays[b][n % Size(b)] = IF Absent(n)' THEN Nothing ELSE order'[n + 1]
  <2>1. n \in Nat
    BY <1>7
  <2>2. CASE n = Count
    <3>1. b = Newest
      BY <1>1, <1>7, <1>8, <1>10, <2>2, InOnce
    <3>2. Pending(n)'
      BY <1>5, <2>1, <2>2
    <3>3. Absent(n)'
      BY <3>2 DEF Absent
    <3>4. QED
      BY <1>9, <2>2, <3>1, <3>3
  <2>3. CASE n # Count
    <3>1. n \in Consumed..(Count - 1) /\ n < Count
      BY <1>7, <2>3
    <3>2. arrays[b][n % Size(b)] = IF Absent(n) THEN Nothing ELSE order[n + 1]
      BY <1>1, <1>10, <3>1 DEF Slots, ElementsPlaced
    <3>3. Absent(n)' <=> Absent(n)
      BY <1>4, <1>5, <1>6, <2>1, <2>3 DEF Absent
    <3>4. order'[n + 1] = order[n + 1]
      BY <1>4, <2>1, <3>1
    <3>5. QED
      BY <3>2, <3>3, <3>4
  <2>4. QED
    BY <2>2, <2>3
<1>11. ElementsPlaced'
  <2>1. Count' - 1 = Count
    BY <1>4, <1>7
  <2>2. QED
    BY <1>4, <1>6, <1>10, <2>1 DEF ElementsPlaced
<1>12. JumpsPlaced' /\ LinksPlaced'
  <2>1. \A b \in 1..Newest : (JumpDue(b)' <=> JumpDue(b)) /\ (Linked(b)' <=> Linked(b))
    BY <1>4, <1>5, <1>6, <1>7 DEF Linked
  <2>2. JumpsPlaced'
    BY <1>1, <1>4, <1>6, <2>1 DEF Slots, JumpsPlaced
  <2>3. LinksPlaced'
    BY <1>1, <1>4, <1>6, <2>1 DEF Slots, LinksPlaced
  <2>4. QED
    BY <2>2, <2>3
<1>13. OthersFree'
  <2>1. (\A n \in Consumed..(Count - 1) : n \in Consumed..Count) /\ Count' - 1 = Count
    BY <1>4, <1>7
  <2>2. ASSUME NEW b \in 1..Newest, NEW i \in 0..(Size(b) - 1)
        PROVE  \/ arrays[b][i] = Nothing
               \/ b < Newest /\ i = From(b + 1) % Size(b)
               \/ \E n \in Consumed..Count : In(b, n) /\ i = n % Size(b)
    BY <1>1, <2>1 DEF Slots, OthersFree
  <2>3. QED
    BY <1>4, <1>6, <2>1, <2>2 DEF OthersFree
<1>14. QED
  BY <1>11, <1>12, <1>13 DEF Slots

\* Acquire, when the index is still the one that p has read.
LEMMA GiftKeeps ==
    ASSUME Inv, NEW p \in Producers, NEW from, NEW to, GiftBy(p, from, to)
    PROVE  Inv'
<1>1. Types /\ Calling /\ Layout /\ Consuming
  BY DEF Inv
<1>2. /\ Newest' = Newest /\ Consumed' = Consumed /\ Count' = Count + 1
      /\ \A b : From(b)' = From(b) /\ Size(b)' = Size(b)
      /\ \A b, n : In(b, n)' <=> In(b, n)
      /\ \A n \in Nat : n < Count => order'[n + 1] = order[n + 1]
      /\ pc[p] = from /\ pc'[p] = to
  BY GiftNumbers
<1>3. /\ UNCHANGED <<consumerIndex, consumerMask, consumerBuffer, consumer, got, taken>>
      /\ UNCHANGED <<producerLimit, producerMask, producerBuffer, arrays, local, spans,
                     maxQueueCapacity, calls>>
      /\ pushed' = [pushed EXCEPT ![p] = @ + 1] /\ answer' = [answer EXCEPT ![p] = "pushed"]
      /\ producerIndex' = producerIndex + (IF to = "store" THEN 2 ELSE 1)
      /\ order' \in Seq(Elements) /\ pc' \in [Producers -> Free \cup Owning]
      /\ \A q \in Producers : q # p => pc'[q] = pc[q]
  BY DEF GiftBy, popper, Moves
<1>4. from \in {"casIndex", "casResize"} /\ from \in Asking /\ to \notin Asking
  BY DEF GiftBy, Gifts, Asking, Trying
<1>5. Types'
  <2>1. producerIndex' \in Nat
    <3>1. producerIndex \in Nat
      BY <1>1 DEF Types
    <3>2. QED
      BY <1>3, <3>1
  <2>2. answer' \in [Producers -> {"none", "pending", "pushed", "full"}]
    <3>1. answer \in [Producers -> {"none", "pending", "pushed", "full"}]
      BY <1>1 DEF Types
    <3>2. QED
      BY <1>3, <3>1
  <2>3. QED
    BY <1>1, <1>3, <2>1, <2>2 DEF Types
<1>6. Calling'
  <2>1. pushed \in [Producers -> Nat] /\ calls \in Nat /\ pushed[p] < calls
    BY <1>1, <1>2, <1>4 DEF Calling
  <2>2. pushed' \in [Producers -> Nat]
    BY <1>3, <2>1
  <2>3. ASSUME NEW q \in Producers
        PROVE  /\ pushed'[q] <= calls
               /\ pc'[q] \in Asking => pushed'[q] < calls
               /\ pc'[q] \in Asking <=> answer'[q] = "pending"
    <3>1. CASE q = p
      <4>1. answer'[p] = "pushed" /\ pushed'[p] = pushed[p] + 1
        <5>1. answer \in [Producers -> {"none", "pending", "pushed", "full"}]
          BY <1>1 DEF Types
        <5>2. QED
          BY <1>3, <2>1, <5>1
      <4>2. QED
        BY <1>2, <1>4, <2>1, <3>1, <4>1
    <3>2. CASE q # p
      <4>1. answer'[q] = answer[q] /\ pushed'[q] = pushed[q] /\ pc'[q] = pc[q]
        <5>1. answer \in [Producers -> {"none", "pending", "pushed", "full"}]
          BY <1>1 DEF Types
        <5>2. QED
          BY <1>3, <2>1, <3>2, <5>1
      <4>2. QED
        BY <1>1, <4>1 DEF Calling
    <3>3. QED
      BY <3>1, <3>2
  <2>4. QED
    BY <1>1, <1>3, <2>2, <2>3 DEF Calling
<1>7. Layout'
  <2>1. ArraysKept /\ Consumed' >= Consumed
    BY <1>1, <1>2, <1>3, Numbers DEF ArraysKept
  <2>2. QED
    BY <1>1, <1>3, <1>5, <2>1, LayoutFrame
<1>8. Consuming'
  <2>1. PICK n \in Nat, b \in Nat : n = Consumed /\ b = consumerBuffer
    BY <1>1, Numbers DEF Consuming
  <2>2. (Pending(n)' <=> (Pending(n) \/ n = Count)) /\ (JumpDue(b)' <=> JumpDue(b))
    BY GiftWork
  <2>3. /\ Pending(Consumed)' <=> (Pending(Consumed) \/ Consumed = Count)
        /\ JumpDue(consumerBuffer)' <=> JumpDue(consumerBuffer)
    <3>1. n = Consumed' /\ b = consumerBuffer'
      BY <1>2, <1>3, <2>1
    <3>2. (Pending(Consumed)' <=> Pending(n)') /\ (JumpDue(consumerBuffer)' <=> JumpDue(b)')
      BY <3>1 DEF Pending, JumpDue
    <3>3. QED
      BY <2>1, <2>2, <3>2
  <2>4. In(consumerBuffer, Consumed)' <=> In(consumerBuffer, Consumed)
    BY <1>2, <1>3 DEF In
  <2>5. Count \in Nat /\ Consumed \in Nat
    BY <1>1, Numbers
  <2>6. (consumer \in {"spin", "clear", "advance", "newBuffer"} => Consumed < Count)'
    BY <1>1, <1>2, <1>3, <2>5 DEF Consuming
  <2>7. (consumer \in {"newBuffer", "clear", "advance"} =>
           In(consumerBuffer, Consumed) /\ ~Pending(Consumed))'
    BY <1>1, <1>3, <2>3, <2>4, <2>5 DEF Consuming
  <2>8. (got = IF consumer = "advance" THEN order[Consumed + 1] ELSE Nothing)'
    BY <1>1, <1>2, <1>3, <2>5 DEF Consuming
  <2>9. /\ Size(consumerBuffer)' = Size(consumerBuffer) /\ From(consumerBuffer)' = From(consumerBuffer)
        /\ From(consumerBuffer + 1)' = From(consumerBuffer + 1)
    BY <1>3 DEF Size, From
  <2>10. (/\ consumerBuffer \in 1..Newest /\ consumerMask = MaskOf(Size(consumerBuffer))
          /\ From(consumerBuffer) <= Consumed
          /\ consumerBuffer < Newest => Consumed <= From(consumerBuffer + 1))'
    BY <1>1, <1>2, <1>3, <2>9 DEF Consuming, MaskOf
  <2>11. (/\ consumer = "nextBuffer" => /\ consumerBuffer < Newest /\ Consumed = From(consumerBuffer + 1)
                                        /\ ~JumpDue(consumerBuffer)
          /\ consumer = "newBuffer" => Consumed = From(consumerBuffer))'
    BY <1>1, <1>2, <1>3, <2>3, <2>9 DEF Consuming
  <2>12. QED
    BY <2>6, <2>7, <2>8, <2>10, <2>11 DEF Consuming
<1>9. QED
  BY <1>5, <1>6, <1>7, <1>8, GiftWords, GiftProducing, GiftSlots DEF Inv

\* CasIndex.
LEMMA CasIndexKeeps == ASSUME Inv, NEW p \in Producers, CasIndex(p) PROVE Inv'
<1>1. /\ Acquire(p, "casIndex", 2, "store")
      /\ UNCHANGED <<producerLimit, producerMask, producerBuffer, popper, arrays, local, calls>>
  BY DEF CasIndex
<1>2. CASE producerIndex = local[p].index
  <2>1. <<"casIndex", "store">> \in Gifts
    BY DEF Gifts
  <2>2. GiftBy(p, "casIndex", "store")
    BY <1>1, <1>2, <2>1, GiftDoes
  <2>3. QED
    BY <2>2, GiftKeeps
<1>3. CASE producerIndex # local[p].index
  <2>1. Step(p, "casIndex", "readLimit") /\ UNCHANGED <<indices, popper, arrays, local, record, calls, answer>>
    BY <1>1, <1>3 DEF Acquire, indices
  <2>2. QED
    BY <2>1, MissedKeeps
<1>4. QED
  BY <1>2, <1>3

\* CasResize.
LEMMA CasResizeKeeps == ASSUME Inv, NEW p \in Producers, CasResize(p) PROVE Inv'
<1>1. /\ Acquire(p, "casResize", 1, "resizeBuffer")
      /\ UNCHANGED <<producerLimit, producerMask, producerBuffer, popper, arrays, local, calls>>
  BY DEF CasResize
<1>2. CASE producerIndex = local[p].index
  <2>1. <<"casResize", "resizeBuffer">> \in Gifts
    BY DEF Gifts
  <2>2. GiftBy(p, "casResize", "resizeBuffer")
    BY <1>1, <1>2, <2>1, GiftDoes
  <2>3. QED
    BY <2>2, GiftKeeps
<1>3. CASE producerIndex # local[p].index
  <2>1. Step(p, "casResize", "readLimit") /\ UNCHANGED <<indices, popper, arrays, local, record, calls, answer>>
    BY <1>1, <1>3 DEF Acquire, indices
  <2>2. QED
    BY <2>1, MissedKeeps
<1>4. QED
  BY <1>2, <1>3

--------------------------------------------------------------------------------
(* The step that appends an array *)

\* p has appended an array, after N arrays.
GrowsBy(p, N) ==
    /\ N = Newest /\ N \in Nat /\ N >= 1 /\ N \in 1..N
    /\ Moves(p, "resizeBuffer", "resizeMask") /\ pc[p] = "resizeBuffer" /\ pc'[p] = "resizeMask"
    /\ Newest' = N + 1 /\ Len(arrays') = N + 1
    /\ \A b \in 1..N : From(b)' = From(b) /\ Size(b)' = Size(b) /\ arrays'[b] = arrays[b]
    /\ From(N + 1)' = Count - 1 /\ Size(N + 1)' = 2 * Size(N)
    /\ DOMAIN arrays'[N + 1] = 0..(2 * Size(N))
    /\ \A i \in 0..(2 * Size(N)) : arrays'[N + 1][i] = Nothing
    /\ arrays' \in Seq(Spaces) /\ spans' \in Seq([from : Nat, size : Nat])
    /\ producerBuffer' = N + 1
    /\ UNCHANGED <<producerIndex, producerLimit, producerMask>>
    /\ UNCHANGED <<consumerIndex, consumerMask, consumerBuffer, consumer, got, taken>>
    /\ UNCHANGED <<local, pushed, order, maxQueueCapacity, calls, answer>>

\* What is known of it before.
LEMMA GrowSays ==
    ASSUME Inv, NEW p \in Producers, pc[p] = "resizeBuffer"
    PROVE  /\ local[p].index = 2 * Num(p) /\ Num(p) = Count - 1 /\ Consumed <= Count - 1
           /\ order[Num(p) + 1] = <<p, pushed[p]>>
           /\ local[p].buffer = Newest /\ local[p].mask = MaskOf(Size(Newest))
           /\ consumerBuffer <= Newest /\ From(Newest) < Count - 1
           /\ 2 * Size(Newest) # maxQueueCapacity
           /\ producerIndex = 2 * Count - 1 /\ Count >= 1 /\ InResize /\ ~MaskDue
           /\ producerMask = MaskOf(Size(Newest)) /\ Pending(Count - 1)
           /\ Count - 1 \in Nat /\ Count - 1 \in Consumed..(Count - 1)
           /\ In(Newest, Count - 1)
<1>1. Types /\ Layout /\ Words /\ Producing /\ OwningSound(p)
  BY DEF Inv, Producing
<1>2. pc[p] \in Owning /\ pc[p] \in Resizing /\ pc[p] \in Filling
  BY DEF Owning, Resizing, Filling
<1>3. /\ local[p].index = 2 * Num(p) /\ Num(p) = Count - 1 /\ Consumed <= Count - 1
      /\ order[Num(p) + 1] = <<p, pushed[p]>>
      /\ local[p].buffer = Newest /\ local[p].mask = MaskOf(Size(Newest))
      /\ consumerBuffer <= Newest /\ From(Newest) < Count - 1
      /\ 2 * Size(Newest) # maxQueueCapacity
  <2>1. local[p].buffer = Newest
    BY <1>1 DEF OwningSound
  <2>2. QED
    BY <1>1, <1>2, <2>1 DEF OwningSound
<1>4. InResize
  BY <1>2 DEF InResize
<1>5. producerIndex = 2 * Count - 1 /\ Count >= 1
  BY <1>1, <1>4 DEF Words
<1>6. ~MaskDue
  <2>1. SUFFICES ASSUME NEW q \in Producers, pc[q] = "resizeMask" PROVE FALSE
    BY DEF MaskDue
  <2>2. pc[q] \in Resizing
    BY <2>1 DEF Resizing
  <2>3. QED
    BY <1>1, <1>2, <2>1, <2>2, OneResizer
<1>7. producerMask = MaskOf(Size(Newest))
  BY <1>1, <1>6 DEF Words
<1>8. Pending(Count - 1)
  BY <1>2, <1>3 DEF Pending
<1>9. Count - 1 \in Nat /\ Count - 1 \in Consumed..(Count - 1) /\ In(Newest, Count - 1)
  <2>1. Newest \in 1..Newest
    BY <1>1, Numbers
  <2>2. QED
    BY <1>1, <1>3, <1>5, <2>1, Numbers DEF In
<1>10. QED
  BY <1>3, <1>4, <1>5, <1>6, <1>7, <1>8, <1>9

\* That is what resizeBuffer does.
LEMMA GrowDoes ==
    ASSUME Inv, NEW p \in Producers, ResizeBuffer(p), NEW N \in Nat, N = Newest
    PROVE  GrowsBy(p, N)
<1>1. Types /\ Layout
  BY DEF Inv
<1>2. /\ Step(p, "resizeBuffer", "resizeMask")
      /\ arrays' = Append(arrays, NewBuffer(NextLength(local[p].mask)))
      /\ producerBuffer' = Len(arrays')
      /\ spans' = Append(spans, [from |-> local[p].index \div 2, size |-> NextLength(local[p].mask) - 1])
      /\ UNCHANGED <<producerIndex, producerLimit, producerMask, popper, local, pushed, order,
                     maxQueueCapacity, calls, answer>>
  BY DEF ResizeBuffer
<1>3. "resizeMask" \in Free \cup Owning
  BY DEF Owning, Resizing
<1>4. Moves(p, "resizeBuffer", "resizeMask") /\ pc[p] = "resizeBuffer" /\ pc'[p] = "resizeMask"
  <2>1. Moves(p, "resizeBuffer", "resizeMask")
    BY <1>1, <1>2, <1>3, StepMoves
  <2>2. QED
    BY <2>1 DEF Moves
<1>5. /\ Num(p) = Count - 1 /\ Count - 1 \in Nat /\ local[p].mask = MaskOf(Size(N))
  BY <1>4, GrowSays
<1>6. N >= 1 /\ N \in 1..N /\ Size(N) \in Nat /\ Size(N) >= 2
  BY <1>1, Numbers
<1>7. PICK s \in Nat : s = Size(N)
  BY <1>6
<1>8. NextLength(local[p].mask) = 2 * s + 1
  BY <1>5, <1>6, <1>7, MaskSays
<1> DEFINE new == [i \in 0..(2 * s) |-> Nothing]
           span == [from |-> Count - 1, size |-> 2 * s]
<1>9. arrays' = Append(arrays, new) /\ spans' = Append(spans, span)
  <2>1. NewBuffer(NextLength(local[p].mask)) = new
    BY <1>8 DEF NewBuffer
  <2>2. local[p].index \div 2 = Count - 1 /\ NextLength(local[p].mask) - 1 = 2 * s
    BY <1>5, <1>8 DEF Num
  <2>3. QED
    BY <1>2, <2>1, <2>2
<1>10. new \in Spaces
  <2>1. new \in [0..(2 * s) -> Marked] /\ 2 * s \in Nat
    BY Marks
  <2>2. QED
    BY <2>1 DEF Spaces
<1>11. span \in [from : Nat, size : Nat] /\ span.from = Count - 1 /\ span.size = 2 * s
  BY <1>5
<1>12. DOMAIN new = 0..(2 * s) /\ \A i \in 0..(2 * s) : new[i] = Nothing
  OBVIOUS
<1> HIDE DEF new, span
<1>13. /\ arrays' \in Seq(Spaces) /\ Len(arrays') = N + 1
       /\ \A b \in 1..N : arrays'[b] = arrays[b]
       /\ arrays'[N + 1] = new
  <2>1. arrays \in Seq(Spaces) /\ Len(arrays) = N
    BY <1>1 DEF Types, Layout
  <2>2. QED
    BY <1>9, <1>10, <2>1, AppendProperties
<1>14. /\ spans' \in Seq([from : Nat, size : Nat]) /\ Len(spans') = N + 1
       /\ \A b \in 1..N : spans'[b] = spans[b]
       /\ spans'[N + 1] = span
  <2>1. spans \in Seq([from : Nat, size : Nat]) /\ Len(spans) = N
    BY <1>1 DEF Types, Newest
  <2>2. QED
    BY <1>9, <1>11, <2>1, AppendProperties
<1>15. Newest' = N + 1 /\ \A b \in 1..N : From(b)' = From(b) /\ Size(b)' = Size(b)
  BY <1>14 DEF Newest, From, Size
<1>16. From(N + 1)' = Count - 1 /\ Size(N + 1)' = 2 * Size(N)
  BY <1>7, <1>11, <1>14 DEF From, Size
<1>17. DOMAIN arrays'[N + 1] = 0..(2 * Size(N)) /\ \A i \in 0..(2 * Size(N)) : arrays'[N + 1][i] = Nothing
  BY <1>7, <1>12, <1>13
<1>18. /\ UNCHANGED <<producerIndex, producerLimit, producerMask>>
       /\ UNCHANGED <<consumerIndex, consumerMask, consumerBuffer, consumer, got, taken>>
       /\ UNCHANGED <<local, pushed, order, maxQueueCapacity, calls, answer>>
  BY <1>2 DEF popper
<1>19. QED
  BY <1>2, <1>4, <1>6, <1>13, <1>14, <1>15, <1>16, <1>17, <1>18 DEF GrowsBy

\* The numbers afterwards.
LEMMA GrowNumbers ==
    ASSUME Inv, NEW p \in Producers, NEW N, GrowsBy(p, N)
    PROVE  /\ Consumed' = Consumed /\ Count' = Count /\ Limit' = Limit
           /\ \A q \in Producers : Num(q)' = Num(q)
           /\ \A b \in 1..N : Oldest(b)' = Oldest(b)
           /\ \A b \in 1..N : \A n : b < N => (In(b, n)' <=> In(b, n))
           /\ \A n \in Nat : In(N, n)' <=> (In(N, n) /\ n < Count - 1)
           /\ \A n \in Nat : In(N + 1, n)' <=> Count - 1 <= n
           /\ Oldest(N + 1)' = Count - 1 /\ Bound' \in Nat /\ Bound <= Bound'
           /\ Count - 1 + 2 * Size(N) >= Count
<1>1. Types /\ Layout
  BY DEF Inv
<1>2. /\ N = Newest /\ N \in Nat /\ N >= 1 /\ N \in 1..N /\ Newest' = N + 1
      /\ \A b \in 1..N : From(b)' = From(b) /\ Size(b)' = Size(b)
      /\ From(N + 1)' = Count - 1 /\ Size(N + 1)' = 2 * Size(N)
      /\ UNCHANGED <<consumerIndex, local, order, maxQueueCapacity>>
      /\ pc[p] = "resizeBuffer"
  BY DEF GrowsBy
<1>3. /\ Consumed <= Count - 1 /\ From(N) < Count - 1 /\ 2 * Size(N) # maxQueueCapacity
      /\ Count - 1 \in Nat
  BY <1>2, GrowSays
<1>4. Consumed' = Consumed /\ Count' = Count /\ Limit' = Limit
  BY <1>2 DEF Consumed, Count, Limit
<1>5. \A q \in Producers : Num(q)' = Num(q)
  BY <1>2 DEF Num
<1>6. \A b \in 1..N : Oldest(b)' = Oldest(b)
  BY <1>2, <1>4 DEF Oldest
<1>7. ASSUME NEW b \in 1..N, NEW n, b < N PROVE In(b, n)' <=> In(b, n)
  <2>1. b + 1 \in 1..N /\ b < N + 1
    BY <1>2, <1>7
  <2>2. From(b)' = From(b) /\ From(b + 1)' = From(b + 1)
    BY <1>2, <2>1
  <2>3. QED
    BY <1>2, <1>7, <2>1, <2>2 DEF In
<1>8. ASSUME NEW n \in Nat PROVE In(N, n)' <=> (In(N, n) /\ n < Count - 1)
  BY <1>2 DEF In
<1>9. ASSUME NEW n \in Nat PROVE In(N + 1, n)' <=> Count - 1 <= n
  <2>1. ~(N + 1 < Newest')
    BY <1>2
  <2>2. QED
    BY <1>2, <2>1 DEF In
<1>10. Size(N) \in Nat /\ Size(N) >= 2 /\ Oldest(N) \in Nat /\ Consumed \in Nat /\ From(N) \in Nat /\ Count \in Nat
  BY <1>1, <1>2, Numbers
<1>11. Oldest(N + 1)' = Count - 1
  BY <1>2, <1>3, <1>4, <1>10 DEF Oldest, Later
<1>12. Bound' \in Nat /\ Bound <= Bound'
  <2>1. Room(N) = Size(N) - 1
    BY <1>3 DEF Room
  <2>2. Bound = Oldest(N) + Size(N) - 1
    BY <1>2, <1>10, <2>1 DEF Bound
  <2>3. Oldest(N) <= Count - 1
    BY <1>3, <1>10 DEF Oldest, Later
  <2>4. Room(N + 1)' \in Nat /\ Room(N + 1)' >= 2 * Size(N) - 1
    BY <1>2, <1>10 DEF Room
  <2>5. Bound' = Oldest(N + 1)' + Room(N + 1)'
    BY <1>2 DEF Bound
  <2>6. QED
    BY <1>3, <1>10, <1>11, <2>2, <2>3, <2>4, <2>5
<1>13. QED
  BY <1>3, <1>4, <1>5, <1>6, <1>7, <1>8, <1>9, <1>10, <1>11, <1>12

\* What is to be done afterwards: the mark and the link of array N, and the mask.
LEMMA GrowWork ==
    ASSUME Inv, NEW p \in Producers, NEW N, GrowsBy(p, N)
    PROVE  /\ \A n \in Nat : Pending(n)' <=> Pending(n)
           /\ \A b \in Nat : /\ JumpDue(b)' <=> (JumpDue(b) \/ b = N)
                             /\ LinkDue(b)' <=> (LinkDue(b) \/ b = N)
           /\ InResize' /\ MaskDue'
<1>1. /\ Moves(p, "resizeBuffer", "resizeMask") /\ local' = local
      /\ pc[p] = "resizeBuffer" /\ pc'[p] = "resizeMask" /\ N = Newest
      /\ \A q \in Producers : q # p => pc'[q] = pc[q]
  BY DEF GrowsBy, Moves
<1>2. local[p].buffer = N
  BY <1>1, GrowSays
<1>3. Minds(p)
  <2>1. local \in [Producers -> Locals]
    BY DEF Inv, Types
  <2>2. QED
    BY <1>1, <2>1 DEF Minds
<1>4. /\ "resizeBuffer" \in Filling /\ "resizeMask" \in Filling
      /\ "resizeBuffer" \notin Jumping /\ "resizeMask" \in Jumping
      /\ "resizeBuffer" \notin Linking /\ "resizeMask" \in Linking /\ "resizeMask" \in Resizing
  BY DEF Filling, Jumping, Linking, Owning, Resizing
<1>5. \A n \in Nat : Pending(n)' <=> Pending(n)
  BY <1>1, <1>3, <1>4, PendingSame
<1>6. \A b \in Nat : /\ JumpDue(b)' <=> (JumpDue(b) \/ b = N)
                     /\ LinkDue(b)' <=> (LinkDue(b) \/ b = N)
  BY <1>1, <1>2, <1>4 DEF JumpDue, LinkDue
<1>7. InResize' /\ MaskDue'
  BY <1>1, <1>4 DEF InResize, MaskDue
<1>8. QED
  BY <1>5, <1>6, <1>7

\* The layout afterwards.
LEMMA GrowLayout ==
    ASSUME Inv, NEW p \in Producers, NEW N, GrowsBy(p, N)
    PROVE  Layout'
<1>1. Types /\ Layout /\ Words
  BY DEF Inv
<1>2. /\ N = Newest /\ N \in Nat /\ N >= 1 /\ N \in 1..N /\ Newest' = N + 1 /\ Len(arrays') = N + 1
      /\ \A b \in 1..N : From(b)' = From(b) /\ Size(b)' = Size(b) /\ arrays'[b] = arrays[b]
      /\ From(N + 1)' = Count - 1 /\ Size(N + 1)' = 2 * Size(N)
      /\ DOMAIN arrays'[N + 1] = 0..(2 * Size(N))
      /\ maxQueueCapacity' = maxQueueCapacity
      /\ pc[p] = "resizeBuffer"
  BY DEF GrowsBy
<1>3. /\ From(N) < Count - 1 /\ 2 * Size(N) # maxQueueCapacity /\ Count - 1 \in Nat
      /\ \A b \in 1..N : Oldest(b)' = Oldest(b)
  BY <1>2, GrowSays, GrowNumbers
<1>4. \A b \in 1..N : From(b) \in Nat /\ Size(b) \in Nat /\ Size(b) >= 2 /\ Oldest(b) \in Nat
  BY <1>1, <1>2, Numbers
<1>5. PICK m \in Nat : m = maxQueueCapacity \div 2 /\ maxQueueCapacity = 2 * m
  BY <1>1, Numbers DEF Layout
<1>6. Doubled(2 * Size(N), m) /\ 2 * Size(N) <= m
  <2>1. Doubled(Size(N), m) /\ Size(N) # m
    BY <1>1, <1>2, <1>3, <1>5 DEF Layout
  <2>2. QED
    BY <1>2, <1>4, <2>1, DoubledAgain
<1>7. From(1)' = 0 /\ Size(1)' = InitialCapacity
  BY <1>1, <1>2 DEF Layout
<1>8. ASSUME NEW b \in 1..(N + 1)
      PROVE  /\ DOMAIN arrays'[b] = 0..Size(b)' /\ Size(b)' >= 2 /\ 2 * Size(b)' <= maxQueueCapacity
             /\ b < N + 1 => /\ Size(b + 1)' = 2 * Size(b)'
                             /\ From(b + 1)' < Oldest(b)' + Size(b)'
  <2>1. CASE b = N + 1
    BY <1>2, <1>4, <1>5, <1>6, <2>1
  <2>2. CASE b = N
    <3>1. DOMAIN arrays[N] = 0..Size(N) /\ 2 * Size(N) <= maxQueueCapacity
      BY <1>1, <1>2 DEF Layout
    <3>2. Count <= Oldest(N) + Size(N)
      BY <1>1, <1>2 DEF Words
    <3>3. Count - 1 < Oldest(N) + Size(N)
      <4>1. PICK x \in Nat, y \in Nat, z \in Nat : x = Count /\ y = Oldest(N) /\ z = Size(N)
        BY <1>1, <1>2, <1>4, Numbers
      <4>2. x - 1 < y + z
        BY <3>2, <4>1
      <4>3. QED
        BY <4>1, <4>2
    <3>4. QED
      BY <1>2, <1>3, <1>4, <2>2, <3>1, <3>3
  <2>3. CASE b < N
    <3>1. b \in 1..N /\ b + 1 \in 1..N
      BY <1>2, <2>3
    <3>2. /\ DOMAIN arrays[b] = 0..Size(b) /\ 2 * Size(b) <= maxQueueCapacity
          /\ Size(b + 1) = 2 * Size(b) /\ From(b + 1) < Oldest(b) + Size(b)
      BY <1>1, <1>2, <2>3, <3>1 DEF Layout
    <3>3. QED
      BY <1>2, <1>3, <1>4, <3>1, <3>2
  <2>4. QED
    BY <1>2, <2>1, <2>2, <2>3
<1>9. ASSUME NEW a \in 1..(N + 1), NEW b \in 1..(N + 1), a < b
      PROVE  From(a)' < From(b)' /\ 2 * Size(a)' <= Size(b)'
  <2>1. a \in 1..N
    BY <1>2, <1>9
  <2>2. CASE b = N + 1
    <3>1. From(a) <= From(N) /\ Size(a) <= Size(N)
      BY <1>1, <1>2, <2>1, FromAscends
    <3>2. QED
      BY <1>2, <1>3, <1>4, <2>1, <2>2, <3>1
  <2>3. CASE b \in 1..N
    BY <1>1, <1>2, <1>9, <2>1, <2>3 DEF Layout
  <2>4. QED
    BY <1>2, <2>2, <2>3
<1>10. Doubled(Size(N + 1), maxQueueCapacity \div 2)'
  <2>1. Size(N + 1)' = 2 * Size(N) /\ (maxQueueCapacity \div 2)' = m
    BY <1>2, <1>5
  <2>2. QED
    BY <1>6, <2>1 DEF Doubled
<1>11. (maxQueueCapacity = 2 * (maxQueueCapacity \div 2))'
  BY <1>1, <1>2 DEF Layout
<1>12. QED
  BY <1>2, <1>7, <1>8, <1>9, <1>10, <1>11 DEF Layout

\* The words afterwards.
LEMMA GrowWords ==
    ASSUME Inv, NEW p \in Producers, NEW N, GrowsBy(p, N)
    PROVE  Words'
<1>1. Types /\ Layout /\ Words
  BY DEF Inv
<1>2. /\ N = Newest /\ N \in Nat /\ N >= 1 /\ N \in 1..N /\ Newest' = N + 1
      /\ \A b \in 1..N : Size(b)' = Size(b)
      /\ From(N + 1)' = Count - 1 /\ Size(N + 1)' = 2 * Size(N)
      /\ producerBuffer' = N + 1
      /\ UNCHANGED <<producerIndex, producerLimit, producerMask, consumerIndex, maxQueueCapacity>>
      /\ pc[p] = "resizeBuffer"
  BY DEF GrowsBy
<1>3. producerIndex = 2 * Count - 1 /\ Count >= 1 /\ producerMask = MaskOf(Size(N)) /\ Count \in Nat
  BY <1>1, <1>2, GrowSays, Numbers
<1>4. /\ Consumed' = Consumed /\ Count' = Count /\ Limit' = Limit
      /\ Oldest(N + 1)' = Count - 1 /\ Bound' \in Nat /\ Bound <= Bound'
      /\ Count - 1 + 2 * Size(N) >= Count
  BY GrowNumbers
<1>5. InResize' /\ MaskDue'
  BY GrowWork
<1>6. (consumerIndex = 2 * Consumed /\ Consumed <= Count)'
  BY <1>1, <1>2, <1>4 DEF Words
<1>7. (Newest > 1 => From(Newest) < Count)'
  BY <1>2, <1>3, <1>4
<1>8. (Count <= Oldest(Newest) + Size(Newest) /\ Count <= Limit)'
  <2>1. Oldest(Newest)' = Count - 1 /\ Size(Newest)' = 2 * Size(N)
    BY <1>2, <1>4 DEF Oldest, Size, From
  <2>2. Count <= Limit
    BY <1>1 DEF Words
  <2>3. QED
    BY <1>4, <2>1, <2>2
<1>9. (producerIndex = 2 * Count - 1 /\ Count >= 1 /\ InResize)'
  BY <1>2, <1>3, <1>4, <1>5
<1>10. (producerLimit <= 2 * Bound /\ producerLimit <= 2 * Limit)'
  <2>1. producerLimit <= 2 * Bound /\ producerLimit <= 2 * Limit /\ producerLimit \in Nat /\ Bound \in Nat
    BY <1>1, Numbers DEF Types, Words
  <2>2. producerLimit' = producerLimit /\ Bound' \in Nat /\ Bound <= Bound' /\ Limit' = Limit
    BY <1>2, <1>4
  <2>3. producerLimit <= 2 * Bound'
    <3>1. PICK x \in Nat, y \in Nat, z \in Nat : x = Bound /\ y = Bound' /\ z = producerLimit
      BY <2>1, <2>2
    <3>2. z <= 2 * x /\ x <= y
      BY <2>1, <2>2, <3>1
    <3>3. z <= 2 * y
      BY <3>2
    <3>4. QED
      BY <3>1, <3>3
  <2>4. QED
    BY <2>1, <2>2, <2>3
<1>11. (producerBuffer = Newest)'
  BY <1>2
<1>12. (producerMask = MaskOf(Size(IF MaskDue THEN Newest - 1 ELSE Newest)))'
  <2>1. Newest' - 1 = N
    BY <1>2
  <2>2. Size(Newest - 1)' = Size(N)
    BY <1>2, <2>1 DEF Size
  <2>3. (producerMask = MaskOf(Size(Newest - 1)))'
    BY <1>2, <1>3, <2>2 DEF MaskOf
  <2>4. QED
    BY <1>5, <2>3
<1>13. QED
  BY <1>6, <1>7, <1>8, <1>9, <1>10, <1>11, <1>12 DEF Words

\* The producers afterwards.
LEMMA GrowProducing ==
    ASSUME Inv, NEW p \in Producers, NEW N, GrowsBy(p, N)
    PROVE  Producing'
<1>1. Types /\ Layout /\ Words /\ Producing
  BY DEF Inv
<1>2. /\ N = Newest /\ N \in Nat /\ N >= 1 /\ N \in 1..N /\ Newest' = N + 1
      /\ \A b \in 1..N : From(b)' = From(b) /\ Size(b)' = Size(b)
      /\ From(N + 1)' = Count - 1
      /\ UNCHANGED <<producerIndex, consumerIndex, consumerBuffer, local, pushed, order, maxQueueCapacity>>
      /\ pc[p] = "resizeBuffer" /\ pc'[p] = "resizeMask"
      /\ \A q \in Producers : q # p => pc'[q] = pc[q]
  BY DEF GrowsBy, Moves
<1>3. /\ local[p].index = 2 * Num(p) /\ Num(p) = Count - 1 /\ Consumed <= Count - 1
      /\ order[Num(p) + 1] = <<p, pushed[p]>>
      /\ local[p].buffer = N /\ local[p].mask = MaskOf(Size(N)) /\ consumerBuffer <= N
      /\ producerIndex = 2 * Count - 1 /\ Count - 1 \in Nat /\ Count \in Nat
  BY <1>1, <1>2, GrowSays, Numbers
<1>4. /\ Consumed' = Consumed /\ Count' = Count /\ Limit' = Limit
      /\ \A q \in Producers : Num(q)' = Num(q)
      /\ Bound' \in Nat /\ Bound <= Bound'
  BY GrowNumbers
<1>5. Forward
  <2>1. producerIndex \in Nat /\ consumerIndex \in Nat /\ Limit \in Nat
    BY <1>1, Numbers DEF Types
  <2>2. \A n \in Nat : producerIndex # 2 * n
    BY <1>3
  <2>3. Bound \in Nat /\ Bound' >= Bound
    BY <1>1, <1>4, Numbers
  <2>4. Newest' \in Nat /\ Newest' >= Newest
    BY <1>2
  <2>5. QED
    BY <1>2, <1>4, <2>1, <2>2, <2>3, <2>4 DEF Forward
<1>6. pc[p] \in Owning /\ pc[p] \in Resizing
  BY <1>2 DEF Owning, Resizing
<1>7. TryingSound(p)'
  <2>1. pc'[p] \notin Trying /\ pc'[p] \notin {"casLimit", "casIndex"} /\ pc'[p] # "casResize"
    BY <1>2 DEF Trying
  <2>2. PICK x \in Nat, y \in Nat, z \in Nat : x = Bound /\ y = Bound' /\ z = local[p].limit
    BY <1>1, <1>4, Numbers, Locally
  <2>3. z <= 2 * x /\ z <= 2 * Limit /\ x <= y
    BY <1>1, <1>4, <2>2 DEF Producing, TryingSound
  <2>4. z <= 2 * y
    BY <2>3
  <2>5. local'[p].limit <= 2 * Bound' /\ local'[p].limit <= 2 * Limit'
    BY <1>2, <1>4, <2>2, <2>3, <2>4
  <2>6. QED
    BY <2>1, <2>5 DEF TryingSound
<1>8. OwningSound(p)'
  <2>1. pc'[p] \notin {"store", "resizeBuffer", "resizeLimit"}
    BY <1>2
  <2>2. Num(p)' < Count'
    BY <1>3, <1>4
  <2>3. (local[p].buffer \in 1..Newest /\ local[p].buffer < Newest /\ local[p].buffer = Newest - 1)'
    BY <1>2, <1>3
  <2>4. (From(local[p].buffer + 1) = Num(p))'
    BY <1>2, <1>3, <1>4 DEF From
  <2>5. (local[p].mask = MaskOf(Size(local[p].buffer)))'
    BY <1>2, <1>3 DEF Size, MaskOf
  <2>6. (/\ local[p].index = 2 * Num(p) /\ Consumed <= Num(p) /\ Num(p) = Count - 1
         /\ order[Num(p) + 1] = <<p, pushed[p]>> /\ consumerBuffer <= local[p].buffer)'
    BY <1>2, <1>3, <1>4
  <2>7. QED
    BY <2>1, <2>2, <2>3, <2>4, <2>5, <2>6 DEF OwningSound
<1>9. ASSUME NEW q \in Producers, q # p PROVE TryingSound(q)' /\ OwningSound(q)'
  <2>1. pc'[q] = pc[q] /\ local'[q] = local[q] /\ Num(q)' = Num(q) /\ Num(q) \in Nat
    BY <1>1, <1>2, <1>4, <1>9, Locally
  <2>2. TryingSound(q) /\ OwningSound(q)
    BY <1>1 DEF Producing
  <2>3. TryingSound(q)'
    BY <1>1, <1>5, <2>1, <2>2, TryingForward
  <2>4. pc[q] \notin Resizing
    BY <1>1, <1>6, <1>9, OneResizer
  <2>5. CASE pc[q] \notin Owning
    <3>1. /\ pc'[q] \notin Owning /\ pc'[q] \notin Jumping /\ pc'[q] \notin Resizing
          /\ pc'[q] # "store" /\ pc'[q] # "resizeBuffer" /\ pc'[q] # "resizeLimit"
      BY <2>1, <2>5 DEF Owning, Jumping, Resizing
    <3>2. QED
      BY <2>3, <3>1 DEF OwningSound
  <2>6. CASE pc[q] \in Owning
    <3>1. PICK c \in Nat : c = local[q].buffer
      BY <1>1, Locally
    <3>2. c \in 1..N /\ c \in 1..(N + 1) /\ local'[q].buffer = c
      BY <1>2, <2>1, <2>2, <2>6, <3>1 DEF OwningSound
    <3>3. (local[q].mask = MaskOf(Size(local[q].buffer)))'
      BY <1>2, <2>1, <2>2, <2>6, <3>1, <3>2 DEF OwningSound, MaskOf
    <3>4. Num(q) < Count /\ Num(q) # Count - 1 /\ Num(q) < Count - 1
      <4>1. Num(q) < Count
        BY <2>2, <2>6 DEF OwningSound
      <4>2. Num(q) # Num(p)
        BY <1>1, <1>6, <1>9, <2>6, DueApart
      <4>3. QED
        BY <1>3, <2>1, <4>1, <4>2
    <3>5. (pc[q] = "store" => /\ In(local[q].buffer, Num(q))
                              /\ local[q].buffer > 1 => From(local[q].buffer) < Num(q))'
      <4>1. SUFFICES ASSUME pc[q] = "store"
                     PROVE  (/\ In(local[q].buffer, Num(q))
                             /\ local[q].buffer > 1 => From(local[q].buffer) < Num(q))'
        BY <2>1
      <4>2. In(c, Num(q)) /\ (c > 1 => From(c) < Num(q))
        BY <2>2, <3>1, <4>1 DEF OwningSound
      <4>3. PICK n \in Nat : n = Num(q)
        BY <2>1
      <4>4. In(c, n)'
        BY <1>2, <3>2, <3>4, <4>2, <4>3, GrowNumbers
      <4>5. In(local[q].buffer, Num(q))'
        BY <2>1, <3>2, <4>3, <4>4 DEF In, From
      <4>6. QED
        BY <1>2, <2>1, <3>2, <4>2, <4>5
    <3>6. (pc[q] \in Jumping => local[q].buffer < Newest /\ From(local[q].buffer + 1) = Num(q))'
      <4>1. SUFFICES ASSUME pc[q] \in Jumping
                     PROVE  (local[q].buffer < Newest /\ From(local[q].buffer + 1) = Num(q))'
        BY <2>1 DEF Jumping, Owning, Resizing
      <4>2. c < N /\ From(c + 1) = Num(q)
        BY <1>2, <2>2, <3>1, <4>1 DEF OwningSound
      <4>3. c + 1 \in 1..N
        BY <1>2, <3>2, <4>2
      <4>4. From(c + 1)' = From(c + 1)
        BY <1>2, <4>3
      <4>5. QED
        BY <1>2, <2>1, <3>2, <4>2, <4>4 DEF From
    <3>7. (/\ local[q].index = 2 * Num(q) /\ Consumed <= Num(q) /\ Num(q) < Count
           /\ order[Num(q) + 1] = <<q, pushed[q]>>
           /\ local[q].buffer \in 1..Newest /\ consumerBuffer <= local[q].buffer)'
      BY <1>2, <1>4, <2>1, <2>2, <2>6, <3>2, <3>4 DEF OwningSound
    <3>8. /\ pc'[q] \notin Resizing /\ pc'[q] \notin Resizing \ {"resizeBuffer"}
          /\ pc'[q] # "resizeBuffer" /\ pc'[q] # "resizeLimit"
      BY <2>1, <2>4 DEF Resizing
    <3>9. QED
      BY <2>3, <3>3, <3>5, <3>6, <3>7, <3>8 DEF OwningSound
  <2>7. QED
    BY <2>3, <2>5, <2>6
<1>10. OwnersApart'
  <2>1. \A q \in Producers : pc'[q] \in Owning => pc[q] \in Owning /\ Num(q)' = Num(q)
    BY <1>2, <1>4, <1>6
  <2>2. QED
    BY <1>1, <2>1 DEF Producing, OwnersApart
<1>11. QED
  BY <1>7, <1>8, <1>9, <1>10 DEF Producing

\* The consumer afterwards: the element that is not there yet is not the one it is at.
LEMMA GrowConsuming ==
    ASSUME Inv, NEW p \in Producers, NEW N, GrowsBy(p, N)
    PROVE  Consuming'
<1>1. Types /\ Layout /\ Words /\ Consuming
  BY DEF Inv
<1>2. /\ N = Newest /\ N \in Nat /\ N >= 1 /\ N \in 1..N /\ Newest' = N + 1
      /\ \A b \in 1..N : From(b)' = From(b) /\ Size(b)' = Size(b)
      /\ From(N + 1)' = Count - 1
      /\ UNCHANGED <<consumerIndex, consumerMask, consumerBuffer, consumer, got, order>>
      /\ pc[p] = "resizeBuffer"
  BY DEF GrowsBy
<1>3. Consumed <= Count - 1 /\ Pending(Count - 1) /\ Count \in Nat /\ Consumed \in Nat
  BY <1>1, <1>2, GrowSays, Numbers
<1>4. Consumed' = Consumed /\ Count' = Count
  BY GrowNumbers
<1>5. PICK n \in Nat, c \in Nat : n = Consumed /\ c = consumerBuffer
  BY <1>1, Numbers DEF Consuming
<1>6. /\ n = Consumed' /\ c = consumerBuffer' /\ c \in 1..N /\ c \in 1..(N + 1)
  BY <1>1, <1>2, <1>4, <1>5 DEF Consuming
<1>7. /\ Pending(Consumed)' <=> Pending(n)
      /\ JumpDue(consumerBuffer)' <=> (JumpDue(c) \/ c = N)
  <2>1. (Pending(Consumed)' <=> Pending(n)') /\ (JumpDue(consumerBuffer)' <=> JumpDue(c)')
    BY <1>6 DEF Pending, JumpDue
  <2>2. QED
    BY <2>1, GrowWork
<1>8. (/\ consumerBuffer \in 1..Newest /\ consumerMask = MaskOf(Size(consumerBuffer))
       /\ From(consumerBuffer) <= Consumed)'
  <2>1. Size(consumerBuffer)' = Size(c) /\ From(consumerBuffer)' = From(c)
    BY <1>2, <1>6 DEF Size, From
  <2>2. QED
    BY <1>1, <1>2, <1>4, <1>5, <1>6, <2>1 DEF Consuming, MaskOf
<1>9. From(consumerBuffer + 1)' = From(c + 1)'
  BY <1>6 DEF From
<1>10. (consumerBuffer < Newest => Consumed <= From(consumerBuffer + 1))'
  <2>1. CASE c = N
    BY <1>2, <1>3, <1>4, <1>9, <2>1
  <2>2. CASE c < N
    <3>1. Consumed <= From(c + 1) /\ c + 1 \in 1..N
      BY <1>1, <1>2, <1>5, <1>6, <2>2 DEF Consuming
    <3>2. QED
      BY <1>2, <1>4, <1>9, <3>1
  <2>3. QED
    BY <1>2, <1>6, <2>1, <2>2
<1>11. (consumer \in {"spin", "clear", "advance", "newBuffer"} => Consumed < Count)'
  BY <1>1, <1>2, <1>4 DEF Consuming
<1>12. (consumer = "nextBuffer" => /\ consumerBuffer < Newest /\ Consumed = From(consumerBuffer + 1)
                                   /\ ~JumpDue(consumerBuffer))'
  <2>1. SUFFICES ASSUME consumer = "nextBuffer"
                 PROVE  (/\ consumerBuffer < Newest /\ Consumed = From(consumerBuffer + 1)
                         /\ ~JumpDue(consumerBuffer))'
    BY <1>2
  <2>2. c < N /\ Consumed = From(c + 1) /\ ~JumpDue(c) /\ c + 1 \in 1..N
    BY <1>1, <1>2, <1>5, <1>6, <2>1 DEF Consuming
  <2>3. QED
    BY <1>2, <1>4, <1>6, <1>7, <1>9, <2>2
<1>13. (consumer = "newBuffer" => Consumed = From(consumerBuffer))'
  <2>1. From(consumerBuffer)' = From(c)
    BY <1>2, <1>6 DEF From
  <2>2. QED
    BY <1>1, <1>2, <1>4, <1>5, <2>1 DEF Consuming
<1>14. (consumer \in {"newBuffer", "clear", "advance"} =>
          In(consumerBuffer, Consumed) /\ ~Pending(Consumed))'
  <2>1. SUFFICES ASSUME consumer \in {"newBuffer", "clear", "advance"}
                 PROVE  (In(consumerBuffer, Consumed) /\ ~Pending(Consumed))'
    BY <1>2
  <2>2. In(c, n) /\ ~Pending(n) /\ n < Count
    BY <1>1, <1>5, <2>1 DEF Consuming
  <2>3. n < Count - 1
    <3>1. n # Count - 1
      BY <1>3, <2>2
    <3>2. QED
      BY <1>3, <2>2, <3>1
  <2>4. In(c, n)'
    BY <1>2, <1>6, <2>2, <2>3, GrowNumbers
  <2>5. In(consumerBuffer, Consumed)' <=> In(c, n)'
    BY <1>6 DEF In, From
  <2>6. QED
    BY <1>7, <2>2, <2>4, <2>5
<1>15. (got = IF consumer = "advance" THEN order[Consumed + 1] ELSE Nothing)'
  BY <1>1, <1>2, <1>4 DEF Consuming
<1>16. QED
  BY <1>8, <1>10, <1>11, <1>12, <1>13, <1>14, <1>15 DEF Consuming

\* The slots afterwards: the new array is empty, and where the mark and the link of the
\* array before belong there is nothing.
LEMMA GrowSlots ==
    ASSUME Inv, NEW p \in Producers, NEW N, GrowsBy(p, N)
    PROVE  Slots'
<1>1. Types /\ Layout /\ Words /\ Slots
  BY DEF Inv
<1>2. /\ N = Newest /\ N \in Nat /\ N >= 1 /\ N \in 1..N /\ Newest' = N + 1
      /\ \A b \in 1..N : From(b)' = From(b) /\ Size(b)' = Size(b) /\ arrays'[b] = arrays[b]
      /\ From(N + 1)' = Count - 1 /\ Size(N + 1)' = 2 * Size(N)
      /\ \A i \in 0..(2 * Size(N)) : arrays'[N + 1][i] = Nothing
      /\ UNCHANGED <<consumerBuffer, consumer, order>>
      /\ pc[p] = "resizeBuffer"
  BY DEF GrowsBy
<1>3. /\ Consumed <= Count - 1 /\ Pending(Count - 1) /\ Count \in Nat /\ Consumed \in Nat
      /\ Count - 1 \in Nat /\ Count - 1 \in Consumed..(Count - 1) /\ In(N, Count - 1)
  BY <1>1, <1>2, GrowSays, Numbers
<1>4. /\ Consumed' = Consumed /\ Count' = Count
      /\ \A b \in 1..N : \A n : b < N => (In(b, n)' <=> In(b, n))
      /\ \A n \in Nat : In(N, n)' <=> (In(N, n) /\ n < Count - 1)
      /\ \A n \in Nat : In(N + 1, n)' <=> Count - 1 <= n
  BY GrowNumbers
<1>5. /\ \A n \in Nat : Pending(n)' <=> Pending(n)
      /\ \A b \in Nat : /\ JumpDue(b)' <=> (JumpDue(b) \/ b = N)
                        /\ LinkDue(b)' <=> (LinkDue(b) \/ b = N)
  BY GrowWork
<1>6. \A n \in Nat : Absent(n)' <=> Absent(n)
  BY <1>2, <1>4, <1>5 DEF Absent
<1>7. \A b \in 1..N : Size(b) \in Nat \ {0} /\ Size(b) \in 0..Size(b)
  BY <1>1, <1>2, Numbers
<1>8. ASSUME NEW b \in 1..(N + 1), NEW n \in Consumed..(Count - 1), In(b, n)'
      PROVE  arrays'[b][n % Size(b)'] = IF Absent(n)' THEN Nothing ELSE order[n + 1]
  <2>1. n \in Nat
    BY <1>3
  <2>2. CASE b \in 1..N
    <3>1. In(b, n)
      BY <1>2, <1>4, <1>8, <2>1, <2>2
    <3>2. arrays[b][n % Size(b)] = IF Absent(n) THEN Nothing ELSE order[n + 1]
      BY <1>1, <1>2, <2>2, <3>1 DEF Slots, ElementsPlaced
    <3>3. QED
      BY <1>2, <1>6, <2>1, <2>2, <3>2
  <2>3. CASE b = N + 1
    <3>1. n = Count - 1
      BY <1>3, <1>4, <1>8, <2>1, <2>3
    <3>2. Absent(n)'
      BY <1>3, <1>6, <2>1, <3>1 DEF Absent
    <3>3. n % (2 * Size(N)) \in 0..(2 * Size(N) - 1)
      <4>1. 2 * Size(N) \in Nat \ {0}
        BY <1>2, <1>7
      <4>2. QED
        BY <2>1, <4>1, ModRange
    <3>4. arrays'[N + 1][n % (2 * Size(N))] = Nothing
      BY <1>2, <1>7, <3>3
    <3>5. QED
      BY <1>2, <2>3, <3>2, <3>4
  <2>4. QED
    BY <1>2, <2>2, <2>3
<1>9. ElementsPlaced'
  BY <1>2, <1>4, <1>8 DEF ElementsPlaced
<1>10. ASSUME NEW b \in 1..N
       PROVE  arrays'[b][From(b + 1)' % Size(b)'] = IF JumpDue(b)' THEN Nothing ELSE Jump
  <2>1. CASE b = N
    <3>1. JumpDue(N)'
      BY <1>2, <1>5
    <3>2. arrays[N][(Count - 1) % Size(N)] = Nothing
      <4>1. Absent(Count - 1)
        BY <1>3 DEF Absent
      <4>2. QED
        BY <1>1, <1>2, <1>3, <4>1 DEF Slots, ElementsPlaced
    <3>3. QED
      BY <1>2, <2>1, <3>1, <3>2
  <2>2. CASE b < N
    <3>1. b + 1 \in 1..N /\ b \in Nat /\ b # N
      BY <1>2, <2>2
    <3>2. arrays[b][From(b + 1) % Size(b)] = IF JumpDue(b) THEN Nothing ELSE Jump
      BY <1>1, <1>2, <2>2 DEF Slots, JumpsPlaced
    <3>3. JumpDue(b)' <=> JumpDue(b)
      BY <1>5, <3>1
    <3>4. QED
      BY <1>2, <3>1, <3>2, <3>3
  <2>3. QED
    BY <1>2, <2>1, <2>2
<1>11. JumpsPlaced'
  <2>1. \A b \in 1..(N + 1) : b < N + 1 => b \in 1..N
    BY <1>2
  <2>2. QED
    BY <1>2, <1>10, <2>1 DEF JumpsPlaced
<1>12. ASSUME NEW b \in 1..(N + 1)
       PROVE  arrays'[b][Size(b)'] = IF Linked(b)' THEN Link(b + 1) ELSE Nothing
  <2>1. CASE b = N + 1
    <3>1. ~Linked(N + 1)'
      BY <1>2 DEF Linked
    <3>2. 2 * Size(N) \in 0..(2 * Size(N))
      BY <1>2, <1>7
    <3>3. arrays'[N + 1][2 * Size(N)] = Nothing
      BY <1>2, <3>2
    <3>4. QED
      BY <1>2, <2>1, <3>1, <3>3
  <2>2. CASE b = N
    <3>1. LinkDue(N)'
      BY <1>2, <1>5
    <3>2. ~Linked(N)'
      BY <3>1 DEF Linked
    <3>3. ~Linked(N)
      BY <1>2 DEF Linked
    <3>4. arrays[N][Size(N)] = Nothing
      BY <1>1, <1>2, <3>3 DEF Slots, LinksPlaced
    <3>5. QED
      BY <1>2, <2>2, <3>2, <3>4
  <2>3. CASE b < N
    <3>1. b \in 1..N /\ b \in Nat /\ b # N /\ b < N + 1
      BY <1>2, <2>3
    <3>2. Linked(b)' <=> Linked(b)
      BY <1>2, <1>5, <2>3, <3>1 DEF Linked
    <3>3. arrays[b][Size(b)] = IF Linked(b) THEN Link(b + 1) ELSE Nothing
      BY <1>1, <1>2, <3>1 DEF Slots, LinksPlaced
    <3>4. QED
      BY <1>2, <3>1, <3>2, <3>3
  <2>4. QED
    BY <1>2, <2>1, <2>2, <2>3
<1>13. LinksPlaced'
  BY <1>2, <1>12 DEF LinksPlaced
<1>14. ASSUME NEW b \in 1..(N + 1), NEW i \in 0..(Size(b)' - 1)
       PROVE  \/ arrays'[b][i] = Nothing
              \/ b < N + 1 /\ i = From(b + 1)' % Size(b)'
              \/ \E n \in Consumed..(Count - 1) : In(b, n)' /\ i = n % Size(b)'
  <2>1. CASE b = N + 1
    <3>1. i \in 0..(2 * Size(N))
      BY <1>2, <1>7, <2>1
    <3>2. QED
      BY <1>2, <2>1, <3>1
  <2>2. CASE b \in 1..N
    <3>1. i \in 0..(Size(b) - 1) /\ Size(b)' = Size(b) /\ arrays'[b][i] = arrays[b][i]
      BY <1>2, <2>2
    <3>2. CASE arrays[b][i] = Nothing
      BY <3>1, <3>2
    <3>3. CASE b < N /\ i = From(b + 1) % Size(b)
      <4>1. b + 1 \in 1..N /\ b < N + 1
        BY <1>2, <2>2, <3>3
      <4>2. QED
        BY <1>2, <3>1, <3>3, <4>1
    <3>4. ASSUME NEW n \in Consumed..(Count - 1), In(b, n), i = n % Size(b)
          PROVE  \/ b < N + 1 /\ i = From(b + 1)' % Size(b)'
                 \/ In(b, n)' /\ i = n % Size(b)'
      <4>1. n \in Nat
        BY <1>3
      <4>2. CASE b < N
        BY <1>4, <2>2, <3>1, <3>4, <4>2
      <4>3. CASE b = N /\ n < Count - 1
        BY <1>4, <3>1, <3>4, <4>1, <4>3
      <4>4. CASE b = N /\ n = Count - 1
        BY <1>2, <3>1, <3>4, <4>4
      <4>5. QED
        BY <1>2, <1>3, <2>2, <4>1, <4>2, <4>3, <4>4
    <3>5. QED
      BY <1>1, <1>2, <2>2, <3>1, <3>2, <3>3, <3>4 DEF Slots, OthersFree
  <2>3. QED
    BY <1>2, <2>1, <2>2
<1>15. OthersFree'
  BY <1>2, <1>4, <1>14 DEF OthersFree
<1>16. QED
  BY <1>9, <1>11, <1>13, <1>15 DEF Slots

\* ResizeBuffer.
LEMMA ResizeBufferKeeps == ASSUME Inv, NEW p \in Producers, ResizeBuffer(p) PROVE Inv'
<1>1. Types /\ Calling /\ Layout
  BY DEF Inv
<1>2. PICK N \in Nat : N = Newest
  BY <1>1, Numbers
<1>3. GrowsBy(p, N)
  BY <1>2, GrowDoes
<1>4. /\ Moves(p, "resizeBuffer", "resizeMask") /\ pc' \in [Producers -> Free \cup Owning]
      /\ arrays' \in Seq(Spaces) /\ spans' \in Seq([from : Nat, size : Nat])
      /\ UNCHANGED <<producerIndex, producerLimit, producerMask>>
      /\ UNCHANGED <<consumerIndex, consumerMask, consumerBuffer, consumer, got, taken>>
      /\ UNCHANGED <<local, pushed, order, maxQueueCapacity, calls, answer>>
  BY <1>3 DEF GrowsBy, Moves
<1>5. Types'
  BY <1>1, <1>4 DEF Types
<1>6. Calling'
  <2>1. "resizeBuffer" \notin Asking /\ "resizeMask" \notin Asking
    BY DEF Asking, Trying
  <2>2. QED
    BY <1>1, <1>4, <2>1, CallingFrame
<1>7. QED
  BY <1>3, <1>5, <1>6, GrowLayout, GrowWords, GrowProducing, GrowConsuming, GrowSlots DEF Inv

--------------------------------------------------------------------------------
(* The steps that announce the new array *)

\* The stores to the words of the producers, with the labels around them.
Announcements == {<<"resizeMask", "resizeElement">>, <<"resizeIndex", "resizeJump">>}

\* All that is left to show of such a store is that the words then say what they should.
LEMMA Installs ==
    ASSUME Inv, NEW p \in Producers, NEW from, NEW to, Step(p, from, to), <<from, to>> \in Announcements,
           UNCHANGED <<producerLimit, producerBuffer, popper, arrays, local, record, calls, answer>>,
           producerIndex' \in Nat, producerMask' \in Nat, producerIndex' >= producerIndex,
           Moves(p, from, to) => Words'
    PROVE  Inv'
<1>1. Types /\ Calling /\ Layout /\ Words /\ Producing /\ Consuming /\ Slots
  BY DEF Inv
<1>2. /\ from \in Owning /\ to \in Owning /\ from \notin Asking /\ to \notin Asking
      /\ from \in Resizing \ {"resizeBuffer"} /\ to \in Jumping /\ from \in Jumping
      /\ (from \in Filling <=> to \in Filling) /\ (from \in Linking <=> to \in Linking)
      /\ to \notin Trying /\ to \notin {"casLimit", "casIndex"} /\ to # "casResize"
      /\ to # "store" /\ to # "resizeBuffer" /\ to # "resizeLimit"
  BY DEF Announcements, Owning, Resizing, Asking, Trying, Jumping, Filling, Linking
<1>3. /\ UNCHANGED <<consumerIndex, consumerMask, consumerBuffer, consumer, got, taken, popper>>
      /\ UNCHANGED <<pushed, order, spans, maxQueueCapacity, calls, answer>>
  BY DEF popper, record
<1>4. Moves(p, from, to)
  BY <1>1, <1>2, StepMoves
<1>5. pc[p] = from /\ pc'[p] = to /\ pc' \in [Producers -> Free \cup Owning]
      /\ \A q \in Producers : q # p => pc'[q] = pc[q]
  BY <1>4 DEF Moves
<1>6. Minds(p)
  BY <1>1, Locally DEF Minds
<1>7. Types'
  BY <1>1, <1>3, <1>5 DEF Types
<1>8. Calling'
  BY <1>1, <1>2, <1>3, <1>4, CallingFrame
<1>9. Newest' = Newest /\ Consumed' = Consumed /\ Count' = Count /\ \A b : From(b)' = From(b) /\ Size(b)' = Size(b)
  BY <1>3 DEF Newest, Consumed, Count, From, Size
<1>10. Bound' = Bound /\ Limit' = Limit
  BY <1>3, <1>9 DEF Bound, Limit, Oldest, Room
<1>11. Layout'
  <2>1. ArraysKept /\ Consumed' >= Consumed
    BY <1>1, <1>9, Numbers DEF ArraysKept
  <2>2. QED
    BY <1>1, <1>3, <1>7, <2>1, LayoutFrame
<1>12. SlotWork
  <2>1. \A n \in Nat : Pending(n)' <=> Pending(n)
    BY <1>2, <1>4, <1>6, PendingSame
  <2>2. \A b \in Nat : JumpDue(b)' <=> JumpDue(b)
    BY <1>2, <1>4, <1>6, JumpDueSame
  <2>3. \A b \in Nat : LinkDue(b)' <=> LinkDue(b)
    BY <1>2, <1>4, <1>6, LinkDueSame
  <2>4. QED
    BY <2>1, <2>2, <2>3 DEF SlotWork
<1>13. Consuming'
  BY <1>1, <1>3, <1>12, ConsumingFrame DEF SlotWork, WorkDone
<1>14. Slots'
  BY <1>1, <1>3, <1>12, SlotsFrame
<1>15. Forward
  <2>1. consumerIndex \in Nat
    BY <1>1 DEF Types
  <2>2. QED
    BY <1>1, <1>3, <1>9, <1>10, <2>1, Numbers DEF Forward
<1>16. TryingSound(p)'
  <2>1. local[p].limit <= 2 * Bound /\ local[p].limit <= 2 * Limit
    BY <1>1 DEF Producing, TryingSound
  <2>2. QED
    BY <1>2, <1>5, <1>10, <2>1 DEF TryingSound
<1>17. OwningSound(p)'
  <2>1. PICK m \in Nat, c \in Nat : m = Num(p) /\ c = local[p].buffer
    BY <1>1, Locally
  <2>2. /\ local[p].index = 2 * m /\ Consumed <= m /\ m = Count - 1 /\ m < Count
        /\ order[m + 1] = <<p, pushed[p]>>
        /\ c \in 1..Newest /\ local[p].mask = MaskOf(Size(c)) /\ consumerBuffer <= c
        /\ c = Newest - 1 /\ c < Newest /\ From(c + 1) = m
    <3>1. /\ local[p].index = 2 * m /\ Consumed <= m /\ m = Count - 1
          /\ order[m + 1] = <<p, pushed[p]>>
          /\ c \in 1..Newest /\ local[p].mask = MaskOf(Size(c)) /\ consumerBuffer <= c
          /\ c + 1 = Newest /\ From(Newest) = m
      BY <1>1, <1>2, <1>5, <2>1, ResizingSays
    <3>2. m < Count /\ c = Newest - 1 /\ c < Newest /\ From(c + 1) = m
      BY <1>1, <3>1, Numbers
    <3>3. QED
      BY <3>1, <3>2
  <2>3. Num(p)' = m /\ local'[p] = local[p]
    BY <2>1 DEF Num
  <2>4. (/\ local[p].index = 2 * Num(p) /\ Consumed <= Num(p) /\ Num(p) = Count - 1 /\ Num(p) < Count
         /\ order[Num(p) + 1] = <<p, pushed[p]>>
         /\ local[p].buffer \in 1..Newest /\ local[p].mask = MaskOf(Size(local[p].buffer))
         /\ consumerBuffer <= local[p].buffer
         /\ local[p].buffer = Newest - 1 /\ local[p].buffer < Newest
         /\ From(local[p].buffer + 1) = Num(p))'
    BY <1>3, <1>9, <2>1, <2>2, <2>3 DEF MaskOf
  <2>5. QED
    BY <1>2, <1>5, <2>4 DEF OwningSound
<1>18. ASSUME NEW q \in Producers, q # p PROVE TryingSound(q)' /\ OwningSound(q)'
  <2>1. pc'[q] = pc[q] /\ local'[q] = local[q]
    BY <1>5, <1>18
  <2>2. TryingSound(q) /\ OwningSound(q)
    BY <1>1 DEF Producing
  <2>3. QED
    BY <1>1, <1>3, <1>15, <2>1, <2>2, TryingForward, OwningFrame
<1>19. OwnersApart'
  <2>1. \A q \in Producers : pc'[q] \in Owning => pc[q] \in Owning /\ Num(q)' = Num(q)
    BY <1>2, <1>5 DEF Num
  <2>2. QED
    BY <1>1, <2>1 DEF Producing, OwnersApart
<1>20. Producing'
  BY <1>16, <1>17, <1>18, <1>19 DEF Producing
<1>21. QED
  BY <1>4, <1>7, <1>8, <1>11, <1>13, <1>14, <1>20 DEF Inv

\* ResizeMask.
LEMMA ResizeMaskKeeps == ASSUME Inv, NEW p \in Producers, ResizeMask(p) PROVE Inv'
<1>1. Types /\ Layout /\ Words /\ Producing
  BY DEF Inv
<1>2. /\ Step(p, "resizeMask", "resizeElement") /\ producerMask' = NextMask(local[p].mask)
      /\ pc[p] = "resizeMask"
      /\ UNCHANGED <<producerIndex, producerLimit, producerBuffer, popper, arrays, local,
                     record, calls, answer>>
  BY DEF ResizeMask, Step
<1>3. <<"resizeMask", "resizeElement">> \in Announcements
  BY DEF Announcements
<1>4. producerMask' = MaskOf(Size(Newest)) /\ producerMask' \in Nat
  <2>1. pc[p] \in Resizing \ {"resizeBuffer"}
    BY <1>2 DEF Resizing
  <2>2. PICK c \in Nat : c = local[p].buffer
    BY <1>1, Locally
  <2>3. c \in 1..Newest /\ local[p].mask = MaskOf(Size(c)) /\ c + 1 = Newest /\ Newest \in 1..Newest
    BY <1>1, <2>1, <2>2, ResizingSays
  <2>4. Size(Newest) = 2 * Size(c) /\ Size(Newest) \in Nat /\ Size(Newest) >= 2
    <3>1. c < Newest
      BY <1>1, <2>3, Numbers
    <3>2. Size(c + 1) = 2 * Size(c)
      BY <1>1, <2>3, <3>1 DEF Layout
    <3>3. QED
      BY <1>1, <2>3, <3>2, Numbers
  <2>5. NextMask(MaskOf(Size(c))) = MaskOf(2 * Size(c))
    BY <1>1, <2>3, Place
  <2>6. QED
    BY <1>2, <2>3, <2>4, <2>5, MaskSays
<1>5. ASSUME Moves(p, "resizeMask", "resizeElement") PROVE Words'
  <2>1. UNCHANGED <<consumerIndex, spans, order, maxQueueCapacity>>
    BY <1>2 DEF popper, record
  <2>2. Newest' = Newest /\ Count' = Count /\ Consumed' = Consumed
    BY <2>1 DEF Newest, Count, Consumed
  <2>3. \A b : From(b)' = From(b) /\ Size(b)' = Size(b) /\ Oldest(b)' = Oldest(b) /\ Room(b)' = Room(b)
    BY <2>1, <2>2 DEF From, Size, Oldest, Room
  <2>4. Bound' = Bound /\ Limit' = Limit
    BY <2>1, <2>2, <2>3 DEF Bound, Limit
  <2>5. InResize' <=> InResize
    BY <1>5, InResizeSame DEF Resizing
  <2>6. ~MaskDue'
    <3>1. SUFFICES ASSUME NEW q \in Producers, pc'[q] = "resizeMask" PROVE FALSE
      BY DEF MaskDue
    <3>2. q # p /\ pc[q] = "resizeMask"
      BY <1>5, <3>1 DEF Moves
    <3>3. pc[p] \in Resizing /\ pc[q] \in Resizing
      BY <1>2, <3>2 DEF Resizing
    <3>4. QED
      BY <1>1, <3>2, <3>3, OneResizer
  <2>7. (producerMask = MaskOf(Size(IF MaskDue THEN Newest - 1 ELSE Newest)))'
    <3>1. Size(Newest)' = Size(Newest)
      BY <2>2, <2>3 DEF Size
    <3>2. (producerMask = MaskOf(Size(Newest)))'
      BY <1>4, <3>1 DEF MaskOf
    <3>3. QED
      BY <2>6, <3>2
  <2>8. UNCHANGED <<producerIndex, producerLimit, producerBuffer>>
    BY <1>2
  <2>9. QED
    BY <1>1, <2>1, <2>2, <2>3, <2>4, <2>5, <2>7, <2>8 DEF Words
<1>6. producerIndex' \in Nat /\ producerIndex' >= producerIndex
  BY <1>1, <1>2, Locally
<1>7. QED
  BY <1>2, <1>3, <1>4, <1>5, <1>6, Installs

\* ResizeIndex.
LEMMA ResizeIndexKeeps == ASSUME Inv, NEW p \in Producers, ResizeIndex(p) PROVE Inv'
<1>1. Types /\ Layout /\ Words /\ Producing
  BY DEF Inv
<1>2. /\ Step(p, "resizeIndex", "resizeJump") /\ producerIndex' = local[p].index + 2
      /\ pc[p] = "resizeIndex"
      /\ UNCHANGED <<producerLimit, producerMask, producerBuffer, popper, arrays, local,
                     record, calls, answer>>
  BY DEF ResizeIndex, Step
<1>3. <<"resizeIndex", "resizeJump">> \in Announcements
  BY DEF Announcements
<1>4. pc[p] \in Resizing /\ pc[p] \in Resizing \ {"resizeBuffer"}
  BY <1>2 DEF Resizing
<1>5. /\ local[p].index = 2 * Num(p) /\ Num(p) = Count - 1 /\ Num(p) \in Nat /\ Count \in Nat
      /\ From(Newest) = Num(p) /\ Newest \in 1..Newest /\ Consumed <= Num(p)
  BY <1>1, <1>4, ResizingSays, Locally, Numbers
<1>6. producerIndex' = 2 * Count
  <2>1. PICK m \in Nat, n \in Nat : m = Num(p) /\ n = Count
    BY <1>5
  <2>2. producerIndex' = 2 * m + 2 /\ m = n - 1
    BY <1>2, <1>5, <2>1
  <2>3. producerIndex' = 2 * n
    BY <2>2
  <2>4. QED
    BY <2>1, <2>3
<1>7. producerIndex = 2 * Count - 1
  <2>1. InResize
    BY <1>4 DEF InResize
  <2>2. QED
    BY <1>1, <2>1 DEF Words
<1>8. Count <= Bound
  <2>1. Bound = Oldest(Newest) + Room(Newest)
    BY DEF Bound
  <2>2. Oldest(Newest) >= From(Newest) /\ Room(Newest) >= Size(Newest) - 1 /\ Size(Newest) >= 2
        /\ Oldest(Newest) \in Nat /\ Room(Newest) \in Nat /\ Size(Newest) \in Nat
    BY <1>1, <1>5, Numbers
  <2>3. QED
    BY <1>5, <2>1, <2>2
<1>9. ASSUME Moves(p, "resizeIndex", "resizeJump") PROVE Words'
  <2>1. UNCHANGED <<consumerIndex, spans, order, maxQueueCapacity>>
    BY <1>2 DEF popper, record
  <2>2. Newest' = Newest /\ Count' = Count /\ Consumed' = Consumed
    BY <2>1 DEF Newest, Count, Consumed
  <2>3. \A b : From(b)' = From(b) /\ Size(b)' = Size(b) /\ Oldest(b)' = Oldest(b) /\ Room(b)' = Room(b)
    BY <2>1, <2>2 DEF From, Size, Oldest, Room
  <2>4. Bound' = Bound /\ Limit' = Limit
    BY <2>1, <2>2, <2>3 DEF Bound, Limit
  <2>5. MaskDue' <=> MaskDue
    BY <1>9, MaskDueSame
  <2>6. ~InResize'
    <3>1. SUFFICES ASSUME NEW q \in Producers, pc'[q] \in Resizing PROVE FALSE
      BY DEF InResize
    <3>2. "resizeJump" \notin Resizing
      BY DEF Resizing
    <3>3. q # p /\ pc[q] \in Resizing
      BY <1>9, <3>1, <3>2 DEF Moves
    <3>4. QED
      BY <1>1, <1>4, <3>3, OneResizer
  <2>7. (producerMask = MaskOf(Size(IF MaskDue THEN Newest - 1 ELSE Newest)))'
    BY <1>1, <1>2, <2>2, <2>3, <2>5 DEF Words
  <2>8. (producerIndex = 2 * Count /\ Count <= Bound /\ ~InResize)'
    BY <1>6, <1>8, <2>2, <2>4, <2>6
  <2>9. UNCHANGED <<producerLimit, producerBuffer>>
    BY <1>2
  <2>10. QED
    BY <1>1, <2>1, <2>2, <2>3, <2>4, <2>7, <2>8, <2>9 DEF Words
<1>10. producerIndex' \in Nat /\ producerIndex' >= producerIndex /\ producerMask' \in Nat
  <2>1. producerMask' = producerMask /\ producerMask \in Nat
    BY <1>1, <1>2, Locally
  <2>2. QED
    BY <1>5, <1>6, <1>7, <2>1
<1>11. QED
  BY <1>2, <1>3, <1>9, <1>10, Installs

--------------------------------------------------------------------------------
(* Steps of the consumer *)

\* The producers do nothing meanwhile, and the consumer does not take an element.
Watching ==
    /\ UNCHANGED <<indices, pc, local, record, calls, answer, consumerIndex>>
    /\ arrays' \in Seq(Spaces) /\ ArraysKept
    /\ consumerMask' \in Nat
    /\ consumer' \in {"off", "empty", "spin", "clear", "advance", "nextBuffer", "newBuffer"}
    /\ got' \in Elements \cup {Nothing} /\ taken' \in Elements \cup {Nothing}

\* What is left to show of such a step is about the consumer and the slots.
LEMMA Watches ==
    ASSUME Inv, Watching,
           \A q \in Producers : pc[q] \in Owning => consumerBuffer' <= local[q].buffer,
           SlotWork => Consuming' /\ Slots'
    PROVE  Inv'
<1>1. Types /\ Calling /\ Layout /\ Words /\ Producing /\ Consuming /\ Slots
  BY DEF Inv
<1>2. /\ UNCHANGED <<producerIndex, producerLimit, producerMask, producerBuffer>>
      /\ UNCHANGED <<pc, local, pushed, order, spans, maxQueueCapacity, calls, answer, consumerIndex>>
  BY DEF Watching, indices, record
<1>3. Types'
  BY <1>1, <1>2 DEF Types, Watching
<1>4. Calling'
  BY <1>1, <1>2 DEF Calling
<1>5. Newest' = Newest /\ Consumed' = Consumed /\ Count' = Count /\ \A b : From(b)' = From(b) /\ Size(b)' = Size(b)
  BY <1>2 DEF Newest, Consumed, Count, From, Size
<1>6. \A b, n : In(b, n)' <=> In(b, n)
  BY <1>5 DEF In
<1>7. Layout'
  <2>1. ArraysKept /\ Consumed' >= Consumed
    BY <1>1, <1>5, Numbers DEF Watching
  <2>2. QED
    BY <1>1, <1>2, <1>3, <2>1, LayoutFrame
<1>8. Words'
  <2>1. (InResize' <=> InResize) /\ (MaskDue' <=> MaskDue)
    BY <1>2 DEF InResize, MaskDue
  <2>2. producerLimit' <= 2 * Bound /\ producerLimit' <= 2 * Limit
    BY <1>1, <1>2 DEF Words
  <2>3. QED
    BY <1>1, <1>2, <2>1, <2>2, WordsFrame
<1>9. SlotWork
  BY <1>2 DEF SlotWork, Pending, JumpDue, LinkDue, Num
<1>10. Bound' = Bound /\ Limit' = Limit
  BY <1>2, <1>5 DEF Bound, Limit, Oldest, Room
<1>11. Forward
  <2>1. producerIndex \in Nat /\ consumerIndex \in Nat
    BY <1>1 DEF Types
  <2>2. QED
    BY <1>1, <1>2, <1>5, <1>10, <2>1, Numbers DEF Forward
<1>12. ASSUME NEW q \in Producers PROVE TryingSound(q)' /\ OwningSound(q)'
  <2>1. TryingSound(q) /\ OwningSound(q)
    BY <1>1 DEF Producing
  <2>2. TryingSound(q)'
    BY <1>1, <1>2, <1>11, <2>1, TryingForward
  <2>3. Num(q)' = Num(q) /\ pc'[q] = pc[q] /\ local'[q] = local[q]
    BY <1>2 DEF Num
  <2>4. /\ In(local[q].buffer, Num(q))' <=> In(local[q].buffer, Num(q))
        /\ Size(local[q].buffer)' = Size(local[q].buffer)
        /\ From(local[q].buffer)' = From(local[q].buffer)
        /\ From(local[q].buffer + 1)' = From(local[q].buffer + 1)
        /\ Size(Newest)' = Size(Newest) /\ From(Newest)' = From(Newest)
    BY <1>2, <1>5, <2>3 DEF In, Size, From
  <2>5. pc'[q] \in Owning => consumerBuffer' <= local'[q].buffer
    BY <2>3
  <2>6. OwningSound(q)'
    BY <1>2, <1>5, <2>1, <2>3, <2>4, <2>5 DEF OwningSound
  <2>7. QED
    BY <2>2, <2>6
<1>13. OwnersApart'
  <2>1. \A q \in Producers : Num(q)' = Num(q)
    BY <1>2 DEF Num
  <2>2. QED
    BY <1>1, <1>2, <2>1 DEF Producing, OwnersApart
<1>14. QED
  BY <1>3, <1>4, <1>7, <1>8, <1>9, <1>12, <1>13 DEF Inv, Producing

\* What the consumer sees in the slot it is at.
LEMMA SlotSays ==
    ASSUME Types, Layout, Words, Consuming, Slots
    PROVE  /\ Slot = arrays[consumerBuffer][Consumed % Size(consumerBuffer)]
           /\ \/ /\ consumerBuffer < Newest /\ Consumed = From(consumerBuffer + 1)
                 /\ Slot = IF JumpDue(consumerBuffer) THEN Nothing ELSE Jump
              \/ /\ Consumed < Count /\ In(consumerBuffer, Consumed)
                 /\ Slot = IF Absent(Consumed) THEN Nothing ELSE order[Consumed + 1]
              \/ consumerBuffer = Newest /\ Consumed = Count /\ Slot = Nothing
<1>1. PICK c \in Nat, n \in Nat : c = consumerBuffer /\ n = Consumed
  BY Numbers DEF Consuming
<1>2. /\ c \in 1..Newest /\ consumerMask = MaskOf(Size(c)) /\ From(c) <= n
      /\ c < Newest => n <= From(c + 1)
      /\ consumerIndex = 2 * n /\ n <= Count /\ Count \in Nat /\ Newest \in Nat
  BY <1>1, Numbers DEF Consuming, Words
<1>3. Slot = arrays[c][n % Size(c)]
  BY <1>1, <1>2, Place DEF Slot
<1>4. CASE c < Newest /\ n = From(c + 1)
  <2>1. Slot = IF JumpDue(c) THEN Nothing ELSE Jump
    BY <1>2, <1>3, <1>4 DEF Slots, JumpsPlaced
  <2>2. QED
    BY <1>1, <1>3, <1>4, <2>1
<1>5. CASE In(c, n) /\ n < Count
  <2>1. n \in Consumed..(Count - 1)
    BY <1>1, <1>2, <1>5
  <2>2. Slot = IF Absent(n) THEN Nothing ELSE order[n + 1]
    BY <1>2, <1>3, <1>5, <2>1 DEF Slots, ElementsPlaced
  <2>3. QED
    BY <1>1, <1>3, <1>5, <2>2
<1>6. CASE c = Newest /\ n = Count
  <2>1. n % Size(c) \in 0..(Size(c) - 1)
    <3>1. Size(c) \in Nat \ {0}
      BY <1>2, Numbers
    <3>2. QED
      BY <3>1, ModRange
  <2>2. ~(\E m \in Consumed..(Count - 1) : In(c, m) /\ n % Size(c) = m % Size(c))
    BY <1>1, <1>2, <1>6
  <2>3. Slot = Nothing
    BY <1>2, <1>3, <1>6, <2>1, <2>2 DEF Slots, OthersFree
  <2>4. QED
    BY <1>1, <1>3, <1>6, <2>3
<1>7. CASE c < Newest /\ n # From(c + 1)
  <2>1. c + 1 \in 1..Newest /\ Newest \in 1..Newest /\ c + 1 <= Newest /\ Newest > 1
    BY <1>2, <1>7
  <2>2. n < From(c + 1) /\ From(c + 1) <= From(Newest) /\ From(Newest) < Count
        /\ From(c + 1) \in Nat /\ From(Newest) \in Nat
    BY <1>2, <1>7, <2>1, FromAscends, Numbers DEF Words
  <2>3. In(c, n) /\ n < Count
    BY <1>2, <2>2 DEF In
  <2>4. QED
    BY <1>5, <2>3
<1>8. CASE c = Newest /\ n # Count
  <2>1. In(c, n) /\ n < Count
    BY <1>2, <1>8 DEF In
  <2>2. QED
    BY <1>5, <2>1
<1>9. QED
  BY <1>2, <1>4, <1>6, <1>7, <1>8

\* A step of the consumer that only looks at a slot.
LEMMA Looks ==
    ASSUME Inv, UNCHANGED <<indices, consumerIndex, consumerMask, consumerBuffer, got, arrays, pc,
                            local, record, calls, answer>>,
           consumer # "advance",
           consumer' \in {"off", "empty", "spin", "clear", "nextBuffer"},
           taken' \in Elements \cup {Nothing},
           consumer' = "spin" => Consumed < Count,
           consumer' = "nextBuffer" => /\ consumerBuffer < Newest /\ Consumed = From(consumerBuffer + 1)
                                       /\ ~JumpDue(consumerBuffer),
           consumer' = "clear" => Consumed < Count /\ In(consumerBuffer, Consumed) /\ ~Pending(Consumed)
    PROVE  Inv'
<1>1. Types /\ Layout /\ Words /\ Producing /\ Consuming /\ Slots
  BY DEF Inv
<1>2. Watching
  BY <1>1 DEF Watching, ArraysKept, Types
<1>3. UNCHANGED <<spans, order>>
  BY DEF record
<1>4. ASSUME NEW q \in Producers, pc[q] \in Owning PROVE consumerBuffer' <= local[q].buffer
  BY <1>1, <1>4 DEF Producing, OwningSound
<1>5. Newest' = Newest /\ Consumed' = Consumed /\ Count' = Count
      /\ \A b, n : From(b)' = From(b) /\ Size(b)' = Size(b) /\ (In(b, n)' <=> In(b, n))
  BY <1>3, Placed DEF Placement
<1>6. Slots' \/ ~SlotWork
  BY <1>1, <1>3, SlotsFrame
<1>7. Consuming'
  <2>1. (Pending(Consumed)' <=> Pending(Consumed)) /\ (JumpDue(consumerBuffer)' <=> JumpDue(consumerBuffer))
    BY <1>5 DEF Pending, JumpDue, Num
  <2>2. /\ Size(consumerBuffer)' = Size(consumerBuffer) /\ From(consumerBuffer)' = From(consumerBuffer)
        /\ From(consumerBuffer + 1)' = From(consumerBuffer + 1)
        /\ In(consumerBuffer, Consumed)' <=> In(consumerBuffer, Consumed)
    BY <1>3, <1>5 DEF Size, From, In
  <2>3. (/\ consumerBuffer \in 1..Newest /\ consumerMask = MaskOf(Size(consumerBuffer))
         /\ From(consumerBuffer) <= Consumed
         /\ consumerBuffer < Newest => Consumed <= From(consumerBuffer + 1))'
    BY <1>1, <1>5, <2>2 DEF Consuming, MaskOf
  <2>4. (consumer \in {"spin", "clear", "advance", "newBuffer"} => Consumed < Count)'
    BY <1>5
  <2>5. (consumer = "nextBuffer" => /\ consumerBuffer < Newest /\ Consumed = From(consumerBuffer + 1)
                                    /\ ~JumpDue(consumerBuffer))'
    BY <1>5, <2>1, <2>2
  <2>6. (/\ consumer = "newBuffer" => Consumed = From(consumerBuffer)
         /\ consumer \in {"newBuffer", "clear", "advance"} => In(consumerBuffer, Consumed) /\ ~Pending(Consumed))'
    BY <1>5, <2>1, <2>2
  <2>7. (got = IF consumer = "advance" THEN order[Consumed + 1] ELSE Nothing)'
    BY <1>1 DEF Consuming
  <2>8. QED
    BY <2>3, <2>4, <2>5, <2>6, <2>7 DEF Consuming
<1>8. QED
  BY <1>2, <1>4, <1>6, <1>7, Watches

\* What a load of the slot tells the consumer, where an empty one is no surprise.
LEMMA LoadedSays ==
    ASSUME Inv, NEW absent, absent \in {"empty", "spin"}, consumer # "advance"
    PROVE  /\ Loaded(absent) \in {absent, "clear", "nextBuffer"}
           /\ Loaded(absent) = "nextBuffer" =>
                /\ consumerBuffer < Newest /\ Consumed = From(consumerBuffer + 1)
                /\ ~JumpDue(consumerBuffer)
           /\ Loaded(absent) = "clear" =>
                Consumed < Count /\ In(consumerBuffer, Consumed) /\ ~Pending(Consumed)
<1>1. Types /\ Layout /\ Words /\ Consuming /\ Slots
  BY DEF Inv
<1>2. \/ /\ consumerBuffer < Newest /\ Consumed = From(consumerBuffer + 1)
         /\ Slot = IF JumpDue(consumerBuffer) THEN Nothing ELSE Jump
      \/ /\ Consumed < Count /\ In(consumerBuffer, Consumed)
         /\ Slot = IF Absent(Consumed) THEN Nothing ELSE order[Consumed + 1]
      \/ consumerBuffer = Newest /\ Consumed = Count /\ Slot = Nothing
  BY <1>1, SlotSays
<1>3. Consumed \in Nat /\ (Consumed < Count => order[Consumed + 1] \in Elements)
  BY <1>1, Numbers, ElementAt
<1>4. Nothing # Jump /\ Nothing \notin Elements /\ Jump \notin Elements
  BY Marks
<1>5. /\ Slot = Jump => Loaded(absent) = "nextBuffer"
      /\ Slot # Jump /\ Slot = Nothing => Loaded(absent) = absent
      /\ Slot # Jump /\ Slot # Nothing => Loaded(absent) = "clear"
  <2>1. ASSUME Slot = Jump PROVE Loaded(absent) = "nextBuffer"
    BY <1>4, <2>1 DEF Loaded
  <2>2. ASSUME Slot # Jump, Slot = Nothing PROVE Loaded(absent) = absent
    BY <2>2 DEF Loaded
  <2>3. ASSUME Slot # Jump, Slot # Nothing PROVE Loaded(absent) = "clear"
    BY <2>3 DEF Loaded
  <2>4. QED
    BY <2>1, <2>2, <2>3
<1>6. CASE Slot = Jump
  BY <1>2, <1>3, <1>4, <1>5, <1>6
<1>7. CASE Slot = Nothing
  BY <1>4, <1>5, <1>7
<1>8. CASE Slot # Jump /\ Slot # Nothing
  <2>1. Consumed < Count /\ In(consumerBuffer, Consumed) /\ ~Absent(Consumed)
    BY <1>2, <1>8
  <2>2. QED
    BY <1>5, <1>8, <2>1 DEF Absent
<1>9. QED
  BY <1>6, <1>7, <1>8

\* TryPop.
LEMMA TryPopKeeps == ASSUME Inv, TryPop PROVE Inv'
<1>1. /\ consumer = "off" /\ consumer' = Loaded("empty")
      /\ UNCHANGED <<indices, consumerIndex, consumerMask, consumerBuffer, got, taken, arrays,
                     pc, local, record, calls, answer>>
  BY DEF TryPop
<1>2. taken' \in Elements \cup {Nothing}
  BY <1>1 DEF Inv, Types
<1>3. /\ consumer' \in {"empty", "clear", "nextBuffer"}
      /\ consumer' = "nextBuffer" => /\ consumerBuffer < Newest /\ Consumed = From(consumerBuffer + 1)
                                     /\ ~JumpDue(consumerBuffer)
      /\ consumer' = "clear" => Consumed < Count /\ In(consumerBuffer, Consumed) /\ ~Pending(Consumed)
  BY <1>1, LoadedSays
<1>4. QED
  BY <1>1, <1>2, <1>3, Looks

\* Spin.
LEMMA SpinKeeps == ASSUME Inv, Spin PROVE Inv'
<1>1. /\ consumer = "spin" /\ consumer' = Loaded("spin")
      /\ UNCHANGED <<indices, consumerIndex, consumerMask, consumerBuffer, got, taken, arrays,
                     pc, local, record, calls, answer>>
  BY DEF Spin
<1>2. taken' \in Elements \cup {Nothing} /\ Consumed < Count
  BY <1>1 DEF Inv, Types, Consuming
<1>3. /\ consumer' \in {"spin", "clear", "nextBuffer"}
      /\ consumer' = "nextBuffer" => /\ consumerBuffer < Newest /\ Consumed = From(consumerBuffer + 1)
                                     /\ ~JumpDue(consumerBuffer)
      /\ consumer' = "clear" => Consumed < Count /\ In(consumerBuffer, Consumed) /\ ~Pending(Consumed)
  BY <1>1, LoadedSays
<1>4. QED
  BY <1>1, <1>2, <1>3, Looks

\* The queue is empty if and only if the two indices are the same.
LEMMA EmptySays ==
    ASSUME Inv
    PROVE  consumerIndex = producerIndex <=> Consumed = Count
<1>1. Types /\ Layout /\ Words /\ Producing
  BY DEF Inv
<1>2. consumerIndex = 2 * Consumed /\ Consumed <= Count /\ Consumed \in Nat /\ Count \in Nat
  BY <1>1, Numbers DEF Words
<1>3. CASE InResize
  <2>1. PICK q \in Producers : pc[q] \in Resizing
    BY <1>3 DEF InResize
  <2>2. Consumed <= Count - 1
    <3>1. pc[q] \in Owning
      BY <2>1 DEF Owning
    <3>2. QED
      BY <1>1, <2>1, <3>1 DEF Producing, OwningSound
  <2>3. producerIndex = 2 * Count - 1
    BY <1>1, <1>3 DEF Words
  <2>4. QED
    BY <1>2, <2>2, <2>3
<1>4. CASE ~InResize
  <2>1. producerIndex = 2 * Count
    BY <1>1, <1>4 DEF Words
  <2>2. QED
    BY <1>2, <2>1
<1>5. QED
  BY <1>3, <1>4

\* CheckEmpty.
LEMMA CheckEmptyKeeps == ASSUME Inv, CheckEmpty PROVE Inv'
<1>1. /\ consumer = "empty"
      /\ IF consumerIndex = producerIndex
         THEN consumer' = "off" /\ taken' = Nothing
         ELSE consumer' = "spin" /\ UNCHANGED taken
      /\ UNCHANGED <<indices, consumerIndex, consumerMask, consumerBuffer, got, arrays, pc,
                     local, record, calls, answer>>
  BY DEF CheckEmpty
<1>2. taken' \in Elements \cup {Nothing}
  BY <1>1 DEF Inv, Types
<1>3. consumer' = "spin" => Consumed < Count
  <2>1. Consumed <= Count /\ Consumed \in Nat /\ Count \in Nat
    BY Numbers DEF Inv, Words
  <2>2. consumer' = "spin" => Consumed # Count
    BY <1>1, EmptySays
  <2>3. QED
    BY <2>1, <2>2
<1>4. consumer' \in {"off", "spin"}
  BY <1>1
<1>5. QED
  BY <1>1, <1>2, <1>3, <1>4, Looks

\* At an element that is there, the consumer sees it.
LEMMA ElementSeen ==
    ASSUME Inv, consumer \in {"newBuffer", "clear"}
    PROVE  /\ Consumed \in Nat /\ Consumed < Count /\ In(consumerBuffer, Consumed) /\ ~Pending(Consumed)
           /\ Slot = order[Consumed + 1] /\ order[Consumed + 1] \in Elements
<1>1. Types /\ Layout /\ Words /\ Consuming /\ Slots
  BY DEF Inv
<1>2. Consumed < Count /\ In(consumerBuffer, Consumed) /\ ~Pending(Consumed)
  BY <1>1 DEF Consuming
<1>3. Consumed \in Nat /\ Count \in Nat /\ order[Consumed + 1] \in Elements
  BY <1>1, <1>2, Numbers, ElementAt
<1>4. ~Absent(Consumed)
  BY <1>2 DEF Absent
<1>5. ~(consumerBuffer < Newest /\ Consumed = From(consumerBuffer + 1))
  <2>1. SUFFICES ASSUME consumerBuffer < Newest, Consumed = From(consumerBuffer + 1) PROVE FALSE
    OBVIOUS
  <2>2. Consumed < Consumed
    BY <1>2, <2>1 DEF In
  <2>3. QED
    BY <1>3, <2>2
<1>6. Consumed # Count
  BY <1>2, <1>3
<1>7. QED
  BY <1>1, <1>2, <1>3, <1>4, <1>5, <1>6, SlotSays

\* NewBufferTryPush: the new array is not empty.
LEMMA NewBufferTryPushKeeps == ASSUME Inv, NewBufferTryPush PROVE Inv'
<1>1. /\ consumer = "newBuffer" /\ consumer' = IF Slot = Nothing THEN "panic" ELSE "clear"
      /\ UNCHANGED <<indices, consumerIndex, consumerMask, consumerBuffer, got, taken, arrays,
                     pc, local, record, calls, answer>>
  BY DEF NewBufferTryPush
<1>2. consumer' = "clear"
  BY <1>1, ElementSeen, Marks
<1>3. taken' \in Elements \cup {Nothing}
  BY <1>1 DEF Inv, Types
<1>4. QED
  BY <1>1, <1>2, <1>3, ElementSeen, Looks

\* Clear.
LEMMA ClearKeeps == ASSUME Inv, Clear PROVE Inv'
<1>1. Types /\ Layout /\ Words /\ Producing /\ Consuming /\ Slots
  BY DEF Inv
<1>2. /\ consumer = "clear" /\ got' = Slot /\ consumer' = "advance"
      /\ arrays' = [arrays EXCEPT ![consumerBuffer][Offset(consumerIndex, consumerMask)] = Nothing]
      /\ UNCHANGED <<indices, consumerIndex, consumerMask, consumerBuffer, taken, pc, local,
                     record, calls, answer>>
  BY DEF Clear
<1>3. PICK c \in Nat, n \in Nat : c = consumerBuffer /\ n = Consumed
  BY <1>1, Numbers DEF Consuming
<1>4. /\ n < Count /\ In(c, n) /\ ~Pending(n) /\ Slot = order[n + 1] /\ order[n + 1] \in Elements
  BY <1>2, <1>3, ElementSeen
<1>5. /\ c \in 1..Newest /\ consumerMask = MaskOf(Size(c)) /\ consumerIndex = 2 * n
  BY <1>1, <1>3 DEF Consuming, Words
<1>6. n \in Consumed..(Count - 1)
  BY <1>1, <1>3, <1>4, Numbers
<1>7. PutBy(c, n % Size(c), Nothing)
  <2>1. Offset(consumerIndex, consumerMask) = n % Size(c) /\ n % Size(c) \in 0..Size(c)
    BY <1>1, <1>5, Place
  <2>2. arrays' = [arrays EXCEPT ![c][n % Size(c)] = Nothing]
    BY <1>2, <1>3, <2>1
  <2>3. QED
    BY <1>1, <1>5, <2>1, <2>2, PutDoes, Marks
<1>8. Placement
  BY <1>2 DEF Placement, record
<1>9. Newest' = Newest /\ Consumed' = Consumed /\ Count' = Count
      /\ \A b, m : From(b)' = From(b) /\ Size(b)' = Size(b) /\ (In(b, m)' <=> In(b, m))
  BY <1>8, Placed
<1>10. Watching
  <2>1. arrays' \in Seq(Spaces) /\ ArraysKept
    BY <1>7 DEF PutBy
  <2>2. consumerMask' \in Nat /\ taken' \in Elements \cup {Nothing}
    BY <1>1, <1>2 DEF Types
  <2>3. QED
    BY <1>2, <1>4, <2>1, <2>2 DEF Watching
<1>11. ASSUME NEW q \in Producers, pc[q] \in Owning PROVE consumerBuffer' <= local[q].buffer
  BY <1>1, <1>2, <1>11 DEF Producing, OwningSound
<1>12. ASSUME SlotWork PROVE Slots'
  <2>1. \A m \in Nat : m # n => (Absent(m)' <=> Absent(m))
    BY <1>2, <1>3, <1>9, <1>12 DEF SlotWork, Absent
  <2>2. Absent(n)'
    BY <1>2, <1>3, <1>9 DEF Absent
  <2>3. \A b \in Nat : (JumpDue(b)' <=> JumpDue(b)) /\ (Linked(b)' <=> Linked(b))
    BY <1>2, <1>9, <1>12 DEF SlotWork, Linked
  <2>4. Nothing = IF Absent(n)' THEN Nothing ELSE order[n + 1]
    BY <2>2
  <2>5. QED
    BY <1>1, <1>4, <1>5, <1>6, <1>7, <1>8, <2>1, <2>3, <2>4, SlotsByElement
<1>13. Consuming'
  <2>1. (Pending(Consumed)' <=> Pending(Consumed)) /\ UNCHANGED spans
    BY <1>2, <1>9 DEF Pending, Num, record
  <2>2. /\ Size(consumerBuffer)' = Size(consumerBuffer) /\ From(consumerBuffer)' = From(consumerBuffer)
        /\ From(consumerBuffer + 1)' = From(consumerBuffer + 1)
        /\ In(consumerBuffer, Consumed)' <=> In(consumerBuffer, Consumed)
    BY <1>2, <1>9, <2>1 DEF Size, From, In
  <2>3. (/\ consumerBuffer \in 1..Newest /\ consumerMask = MaskOf(Size(consumerBuffer))
         /\ From(consumerBuffer) <= Consumed
         /\ consumerBuffer < Newest => Consumed <= From(consumerBuffer + 1))'
    BY <1>1, <1>2, <1>9, <2>2 DEF Consuming, MaskOf
  <2>4. (Consumed < Count /\ In(consumerBuffer, Consumed) /\ ~Pending(Consumed))'
    BY <1>3, <1>4, <1>9, <2>1, <2>2
  <2>5. (got = order[Consumed + 1])'
    BY <1>2, <1>3, <1>4, <1>8, <1>9 DEF Placement
  <2>6. QED
    BY <1>2, <2>3, <2>4, <2>5 DEF Consuming
<1>14. QED
  BY <1>10, <1>11, <1>12, <1>13, Watches

\* Where a jump mark tells the consumer to follow, nobody works in the old array any more.
LEMMA FollowSays ==
    ASSUME Inv, consumer = "nextBuffer", NEW c \in Nat, c = consumerBuffer
    PROVE  /\ c \in 1..Newest /\ c + 1 \in 1..Newest /\ c < Newest /\ Consumed = From(c + 1)
           /\ ~JumpDue(c) /\ ~LinkDue(c)
           /\ \A q \in Producers : pc[q] \in Owning => local[q].buffer \in Nat /\ c + 1 <= local[q].buffer
<1>1. Types /\ Layout /\ Words /\ Producing /\ Consuming
  BY DEF Inv
<1>2. PICK N \in Nat : N = Newest
  BY <1>1, Numbers
<1>3. c \in 1..N /\ c < N /\ Consumed = From(c + 1) /\ ~JumpDue(c)
  BY <1>1, <1>2 DEF Consuming
<1>4. c + 1 \in 1..N
  BY <1>2, <1>3
<1>5. ~LinkDue(c)
  BY <1>3 DEF JumpDue, LinkDue, Jumping, Linking, Owning, Resizing
<1>6. ASSUME NEW q \in Producers, pc[q] \in Owning
      PROVE  local[q].buffer \in Nat /\ c + 1 <= local[q].buffer
  <2>1. PICK b \in Nat : b = local[q].buffer
    BY <1>1, Locally
  <2>2. OwningSound(q)
    BY <1>1 DEF Producing
  <2>3. c <= b
    BY <1>6, <2>1, <2>2 DEF OwningSound
  <2>4. b # c
    <3>1. CASE pc[q] = "store"
      <4>1. In(b, Num(q)) /\ Consumed <= Num(q) /\ Num(q) \in Nat /\ Consumed \in Nat
        BY <1>1, <1>6, <2>1, <2>2, <3>1, Numbers, Locally DEF OwningSound
      <4>2. b = c => Num(q) < Consumed
        BY <1>2, <1>3, <4>1 DEF In
      <4>3. QED
        BY <4>1, <4>2
    <3>2. CASE pc[q] = "resizeBuffer"
      BY <1>2, <1>3, <2>1, <2>2, <3>2 DEF OwningSound
    <3>3. CASE pc[q] \in Jumping
      BY <1>3, <2>1, <3>3 DEF JumpDue
    <3>4. QED
      BY <1>6, <3>1, <3>2, <3>3 DEF Jumping
  <2>5. QED
    BY <2>1, <2>3, <2>4
<1>7. QED
  BY <1>2, <1>3, <1>4, <1>5, <1>6

\* The first element of the array that the jump mark leads to is there.
LEMMA FollowFinds ==
    ASSUME Inv, consumer = "nextBuffer", NEW c \in Nat, c = consumerBuffer
    PROVE  Consumed < Count /\ In(c + 1, Consumed) /\ ~Pending(Consumed)
<1>1. Types /\ Layout /\ Words /\ Producing
  BY DEF Inv
<1>2. PICK N \in Nat, n \in Nat : N = Newest /\ n = Consumed
  BY <1>1, Numbers
<1>3. /\ c \in 1..N /\ c + 1 \in 1..N /\ c < N /\ n = From(c + 1)
      /\ \A q \in Producers : pc[q] \in Owning => local[q].buffer \in Nat /\ c + 1 <= local[q].buffer
  BY <1>2, FollowSays
<1>4. N \in 1..N /\ From(N) \in Nat
  BY <1>1, <1>2, Numbers
<1>5. n <= From(N)
  BY <1>1, <1>2, <1>3, <1>4, FromAscends
<1>6. n < Count
  <2>1. From(N) < Count /\ Count \in Nat
    BY <1>1, <1>2, <1>3, Numbers DEF Words
  <2>2. QED
    BY <1>4, <1>5, <2>1
<1>7. In(c + 1, n)
  <2>1. ASSUME c + 1 < N PROVE n < From(c + 1 + 1)
    <3>1. c + 1 + 1 \in 1..N /\ c + 1 < c + 1 + 1
      BY <1>3, <2>1
    <3>2. QED
      BY <1>1, <1>2, <1>3, <3>1 DEF Layout
  <2>2. QED
    BY <1>2, <1>3, <2>1 DEF In
<1>8. ASSUME NEW q \in Producers, pc[q] \in Filling, Num(q) = n PROVE FALSE
  <2>1. pc[q] \in Owning
    BY <1>8 DEF Filling, Owning, Resizing
  <2>2. OwningSound(q)
    BY <1>1 DEF Producing
  <2>3. PICK b \in Nat : b = local[q].buffer
    BY <1>3, <2>1
  <2>4. b \in 1..N /\ c + 1 <= b
    BY <1>2, <1>3, <2>1, <2>2, <2>3 DEF OwningSound
  <2>5. CASE pc[q] = "store"
    <3>1. In(b, n) /\ (b > 1 => From(b) < n)
      BY <1>8, <2>2, <2>3, <2>5 DEF OwningSound
    <3>2. b = c + 1
      BY <1>1, <1>2, <1>3, <1>7, <2>4, <3>1, InOnce
    <3>3. b > 1
      BY <1>3, <3>2
    <3>4. QED
      BY <1>2, <1>3, <3>1, <3>2, <3>3
  <2>6. CASE pc[q] = "resizeBuffer"
    <3>1. From(N) < n
      BY <1>2, <1>8, <2>2, <2>6 DEF OwningSound
    <3>2. QED
      BY <1>2, <1>4, <1>5, <3>1
  <2>7. CASE pc[q] \in {"resizeMask", "resizeElement"}
    <3>1. b < N /\ From(b + 1) = n
      BY <1>2, <1>8, <2>2, <2>3, <2>7 DEF OwningSound, Jumping, Owning, Resizing
    <3>2. b + 1 \in 1..N /\ c + 1 < b + 1
      BY <2>4, <3>1
    <3>3. From(c + 1) < From(b + 1)
      BY <1>1, <1>2, <1>3, <3>2 DEF Layout
    <3>4. QED
      BY <1>2, <1>3, <3>1, <3>3
  <2>8. QED
    BY <1>8, <2>5, <2>6, <2>7 DEF Filling
<1>9. QED
  BY <1>2, <1>6, <1>7, <1>8 DEF Pending

\* NextBuffer.
LEMMA NextBufferKeeps == ASSUME Inv, NextBuffer PROVE Inv'
<1>1. Types /\ Layout /\ Words /\ Producing /\ Consuming /\ Slots
  BY DEF Inv
<1>2. PICK c \in Nat, n \in Nat, N \in Nat : c = consumerBuffer /\ n = Consumed /\ N = Newest
  BY <1>1, Numbers DEF Consuming
<1>3. consumer = "nextBuffer"
  BY DEF NextBuffer
<1>4. /\ c \in 1..N /\ c + 1 \in 1..N /\ c < N /\ n = From(c + 1) /\ ~JumpDue(c) /\ ~LinkDue(c)
      /\ \A q \in Producers : pc[q] \in Owning => local[q].buffer \in Nat /\ c + 1 <= local[q].buffer
  BY <1>2, <1>3, FollowSays
<1>5. n < Count /\ In(c + 1, n) /\ ~Pending(n)
  BY <1>2, <1>3, FollowFinds
<1>6. consumerMask = MaskOf(Size(c)) /\ Size(c + 1) = 2 * Size(c)
  BY <1>1, <1>2, <1>4 DEF Consuming, Layout
<1>7. /\ NextArrayOffset(consumerMask) = Size(c) /\ Size(c) \in 0..Size(c)
      /\ NextMask(consumerMask) = MaskOf(Size(c + 1))
  BY <1>1, <1>2, <1>4, <1>6, Place
<1>8. arrays[c][Size(c)] = Link(c + 1)
  <2>1. Linked(c)
    BY <1>2, <1>4 DEF Linked
  <2>2. QED
    BY <1>1, <1>2, <1>4, <2>1 DEF Slots, LinksPlaced
<1>9. Link(c + 1) # Nothing /\ Link(c + 1)[2] = c + 1
  BY Marks
<1>10. /\ consumerBuffer' = c + 1 /\ consumerMask' = MaskOf(Size(c + 1)) /\ consumer' = "newBuffer"
       /\ arrays' = [arrays EXCEPT ![c][Size(c)] = Nothing]
       /\ UNCHANGED <<indices, consumerIndex, got, taken, pc, local, record, calls, answer>>
  BY <1>2, <1>7, <1>8, <1>9 DEF NextBuffer
<1>11. PutBy(c, Size(c), Nothing)
  BY <1>1, <1>2, <1>4, <1>7, <1>10, PutDoes, Marks
<1>12. Placement
  BY <1>10 DEF Placement, record
<1>13. /\ Newest' = Newest /\ Consumed' = Consumed /\ Count' = Count
       /\ \A b, m : From(b)' = From(b) /\ Size(b)' = Size(b) /\ (In(b, m)' <=> In(b, m))
  BY <1>12, Placed
<1>14. Watching
  <2>1. arrays' \in Seq(Spaces) /\ ArraysKept
    BY <1>11 DEF PutBy
  <2>2. consumerMask' \in Nat
    <3>1. Size(c + 1) \in Nat /\ Size(c + 1) >= 2
      BY <1>1, <1>2, <1>4, Numbers
    <3>2. QED
      BY <1>10, <3>1, MaskSays
  <2>3. got' \in Elements \cup {Nothing} /\ taken' \in Elements \cup {Nothing}
    BY <1>1, <1>10 DEF Types
  <2>4. QED
    BY <1>10, <2>1, <2>2, <2>3 DEF Watching
<1>15. ASSUME NEW q \in Producers, pc[q] \in Owning PROVE consumerBuffer' <= local[q].buffer
  BY <1>4, <1>10, <1>15
<1>16. ASSUME SlotWork PROVE Slots'
  <2>1. \A m \in Nat : Absent(m)' <=> Absent(m)
    BY <1>3, <1>10, <1>16 DEF SlotWork, Absent
  <2>2. \A b \in Nat : JumpDue(b)' <=> JumpDue(b)
    BY <1>16 DEF SlotWork
  <2>3. ASSUME NEW b \in Nat, b # c PROVE Linked(b)' <=> Linked(b)
    <3>1. LinkDue(b)' <=> LinkDue(b)
      BY <1>16 DEF SlotWork
    <3>2. c + 1 <= b <=> c <= b
      BY <2>3
    <3>3. QED
      BY <1>2, <1>10, <1>13, <3>1, <3>2 DEF Linked
  <2>4. ~Linked(c)'
    <3>1. ~(c + 1 <= c)
      OBVIOUS
    <3>2. QED
      BY <1>10, <3>1 DEF Linked
  <2>5. Nothing = IF Linked(c)' THEN Link(c + 1) ELSE Nothing
    BY <2>4
  <2>6. c \in 1..Newest
    BY <1>2, <1>4
  <2>7. QED
    BY <1>1, <1>11, <1>12, <2>1, <2>2, <2>3, <2>5, <2>6, SlotsByLink
<1>17. ASSUME SlotWork PROVE Consuming'
  <2>1. Pending(n)' <=> Pending(n)
    BY <1>17 DEF SlotWork
  <2>2. /\ consumerBuffer' = c + 1 /\ Consumed' = n /\ Newest' = N
        /\ Size(c + 1)' = Size(c + 1) /\ From(c + 1)' = From(c + 1)
        /\ In(c + 1, n)' <=> In(c + 1, n)
    BY <1>2, <1>10, <1>13
  <2>3. ~(c + 1 < N) \/ n <= From(c + 1 + 1)'
    <3>1. ASSUME c + 1 < N PROVE n <= From(c + 1 + 1)
      <4>1. n < From(c + 1 + 1)
        BY <1>2, <1>5, <3>1 DEF In
      <4>2. c + 1 + 1 \in 1..N
        BY <1>4, <3>1
      <4>3. From(c + 1 + 1) \in Nat
        BY <1>1, <1>2, <4>2, Numbers
      <4>4. QED
        BY <4>1, <4>3
    <3>2. QED
      BY <1>13, <3>1
  <2>4. From(c + 1) <= n
    BY <1>2, <1>4
  <2>5. (got = IF consumer = "advance" THEN order[Consumed + 1] ELSE Nothing)'
    BY <1>1, <1>3, <1>10 DEF Consuming
  <2>6. QED
    BY <1>4, <1>5, <1>10, <1>13, <2>1, <2>2, <2>3, <2>4, <2>5 DEF Consuming, MaskOf
<1>18. QED
  BY <1>14, <1>15, <1>16, <1>17, Watches

\* Once the consumer has cleared a slot, no producer is at work for its index.
LEMMA AdvanceSays ==
    ASSUME Inv, consumer = "advance", NEW n \in Nat, n = Consumed
    PROVE  /\ n < Count /\ In(consumerBuffer, n) /\ ~Pending(n)
           /\ got = order[n + 1] /\ order[n + 1] \in Elements
           /\ \A q \in Producers : pc[q] \in Owning => Num(q) \in Nat /\ n + 1 <= Num(q)
<1>1. Types /\ Layout /\ Words /\ Producing /\ Consuming
  BY DEF Inv
<1>2. PICK N \in Nat, c \in Nat : N = Newest /\ c = consumerBuffer /\ c \in 1..N
  BY <1>1, Numbers DEF Consuming
<1>3. n < Count /\ In(c, n) /\ ~Pending(n) /\ got = order[n + 1]
  BY <1>1, <1>2 DEF Consuming
<1>4. order[n + 1] \in Elements
  BY <1>1, <1>3, ElementAt
<1>5. ASSUME NEW q \in Producers, pc[q] \in Owning PROVE Num(q) \in Nat /\ n + 1 <= Num(q)
  <2>1. PICK m \in Nat, b \in Nat : m = Num(q) /\ b = local[q].buffer
    BY <1>1, Locally
  <2>2. OwningSound(q)
    BY <1>1 DEF Producing
  <2>3. n <= m /\ b \in 1..N /\ c <= b
    BY <1>2, <1>5, <2>1, <2>2 DEF OwningSound
  <2>4. m # n
    <3>1. CASE pc[q] \in Filling
      BY <1>3, <2>1, <3>1 DEF Pending
    <3>2. CASE pc[q] \in Jumping
      <4>1. b < N /\ From(b + 1) = m
        BY <1>2, <2>1, <2>2, <3>2 DEF OwningSound
      <4>2. c < N /\ c + 1 \in 1..N /\ b + 1 \in 1..N /\ c + 1 <= b + 1
        BY <1>2, <2>3, <4>1
      <4>3. From(c + 1) <= From(b + 1) /\ n < From(c + 1)
        BY <1>1, <1>2, <1>3, <4>2, FromAscends DEF In
      <4>4. From(c + 1) \in Nat
        BY <1>1, <1>2, <4>2, Numbers
      <4>5. QED
        BY <4>1, <4>3, <4>4
    <3>3. QED
      BY <1>5, <3>1, <3>2 DEF Filling, Jumping, Owning, Resizing
  <2>5. QED
    BY <2>1, <2>3, <2>4
<1>6. QED
  BY <1>2, <1>3, <1>4, <1>5

\* What the step changes: the number of the elements consumed, and with it how far the
\* producers may go.
AdvanceBy(n) ==
    /\ n \in Nat /\ n = Consumed /\ Consumed' = n + 1
    /\ consumer = "advance" /\ consumer' = "off" /\ consumerIndex = 2 * n /\ consumerIndex' = 2 * (n + 1)
    /\ taken' = got /\ got' = Nothing
    /\ UNCHANGED <<producerIndex, producerLimit, producerMask, producerBuffer>>
    /\ UNCHANGED <<consumerMask, consumerBuffer, arrays, pc, local, pushed, order, spans,
                   maxQueueCapacity, calls, answer>>

\* Advance changes what AdvanceBy says.
LEMMA AdvanceDoes == ASSUME Inv, Advance, NEW n \in Nat, n = Consumed PROVE AdvanceBy(n)
<1>1. consumerIndex = 2 * n
  BY DEF Inv, Words
<1>2. consumerIndex' = 2 * (n + 1)
  BY <1>1 DEF Advance
<1>3. Consumed' = n + 1
  BY <1>2, Half DEF Consumed
<1>4. QED
  BY <1>1, <1>2, <1>3 DEF Advance, AdvanceBy, indices, record

\* Nothing but the number of the elements consumed, and the bounds, depends on Advance.
LEMMA AdvanceNumbers ==
    ASSUME Inv, NEW n, AdvanceBy(n)
    PROVE  /\ Newest' = Newest /\ Count' = Count
           /\ \A b : From(b)' = From(b) /\ Size(b)' = Size(b) /\ Room(b)' = Room(b)
           /\ \A b, m : In(b, m)' <=> In(b, m)
           /\ \A b \in 1..Newest : Oldest(b)' \in Nat /\ Oldest(b)' >= Oldest(b)
           /\ Bound' \in Nat /\ Bound' >= Bound /\ Limit' \in Nat /\ Limit' >= Limit
           /\ SameWork
           /\ \A q \in Producers : Num(q)' = Num(q)
<1>1. Types /\ Layout
  BY DEF Inv
<1>2. Newest' = Newest /\ Count' = Count /\ \A b : From(b)' = From(b) /\ Size(b)' = Size(b)
  BY DEF AdvanceBy, Newest, Count, From, Size
<1>3. \A b : Room(b)' = Room(b)
  BY <1>2 DEF AdvanceBy, Room
<1>4. \A b, m : In(b, m)' <=> In(b, m)
  BY <1>2 DEF In
<1>5. n \in Nat /\ Consumed = n /\ Consumed' = n + 1
  BY DEF AdvanceBy
<1>6. ASSUME NEW b \in 1..Newest PROVE Oldest(b)' \in Nat /\ Oldest(b)' >= Oldest(b)
  <2>1. PICK f \in Nat : f = From(b)
    BY <1>1, Numbers
  <2>2. Oldest(b) = Later(n, f) /\ Oldest(b)' = Later(n + 1, f)
    BY <1>2, <1>5, <2>1 DEF Oldest
  <2>3. QED
    BY <1>5, <2>2 DEF Later
<1>7. Bound' \in Nat /\ Bound' >= Bound
  <2>1. PICK N \in Nat : N = Newest /\ N \in 1..Newest
    BY <1>1, Numbers
  <2>2. PICK x \in Nat, y \in Nat, r \in Nat : x = Oldest(N) /\ y = Oldest(N)' /\ y >= x /\ r = Room(N)
    BY <1>1, <1>6, <2>1, Numbers
  <2>3. Bound = x + r /\ Bound' = y + r
    BY <1>2, <1>3, <2>1, <2>2 DEF Bound
  <2>4. QED
    BY <2>2, <2>3
<1>8. Limit' \in Nat /\ Limit' >= Limit
  <2>1. PICK k \in Nat : k = maxQueueCapacity \div 2
    BY <1>1, Numbers
  <2>2. Limit = n + k /\ Limit' = n + 1 + k
    BY <1>5, <2>1 DEF Limit, AdvanceBy
  <2>3. QED
    BY <1>5, <2>2
<1>9. SameWork /\ \A q \in Producers : Num(q)' = Num(q)
  BY DEF AdvanceBy, SameWork, SlotWork, Pending, JumpDue, LinkDue, InResize, MaskDue, Num
<1>10. QED
  BY <1>2, <1>3, <1>4, <1>6, <1>7, <1>8, <1>9

\* The bounds move on by what is consumed, so the words stay within them.
LEMMA AdvanceWords == ASSUME Inv, NEW n, AdvanceBy(n) PROVE Words'
<1>1. Types /\ Layout /\ Words
  BY DEF Inv
<1>2. PICK k \in Nat, N \in Nat : k = Count /\ N = Newest /\ N \in 1..Newest
  BY <1>1, Numbers
<1>3. n \in Nat /\ n = Consumed /\ n < k
  BY <1>2, AdvanceSays DEF AdvanceBy
<1>4. /\ Newest' = N /\ Count' = k /\ From(N)' = From(N) /\ Size(N)' = Size(N)
      /\ Oldest(N)' \in Nat /\ Oldest(N)' >= Oldest(N)
      /\ Bound' \in Nat /\ Bound' >= Bound /\ Limit' \in Nat /\ Limit' >= Limit /\ SameWork
  BY <1>2, AdvanceNumbers
<1>5. (consumerIndex = 2 * Consumed /\ Consumed <= Count)'
  BY <1>2, <1>3, <1>4 DEF AdvanceBy
<1>6. (Newest > 1 => From(Newest) < Count)'
  BY <1>1, <1>2, <1>4 DEF Words
<1>7. (Count <= Oldest(Newest) + Size(Newest) /\ Count <= Limit)'
  <2>1. PICK x \in Nat, y \in Nat, s \in Nat, l \in Nat, m \in Nat :
          x = Oldest(N) /\ y = Oldest(N)' /\ s = Size(N) /\ l = Limit /\ m = Limit'
    BY <1>1, <1>2, <1>4, Numbers
  <2>2. k <= x + s /\ k <= l
    BY <1>1, <1>2, <2>1 DEF Words
  <2>3. y >= x /\ m >= l
    BY <1>4, <2>1
  <2>4. k <= y + s /\ k <= m
    BY <2>1, <2>2, <2>3
  <2>5. QED
    BY <1>2, <1>4, <2>1, <2>4
<1>8. PICK x \in Nat, y \in Nat, l \in Nat, m \in Nat, w \in Nat :
        x = Bound /\ y = Bound' /\ l = Limit /\ m = Limit' /\ w = producerLimit
  BY <1>1, <1>4, Numbers DEF Types
<1>9. (\/ producerIndex = 2 * Count /\ Count <= Bound /\ ~InResize
       \/ producerIndex = 2 * Count - 1 /\ Count >= 1 /\ InResize)'
  <2>1. \/ producerIndex = 2 * k /\ k <= x /\ ~InResize
        \/ producerIndex = 2 * k - 1 /\ k >= 1 /\ InResize
    BY <1>1, <1>2, <1>8 DEF Words
  <2>2. k <= x => k <= y
    BY <1>2, <1>4, <1>8
  <2>3. producerIndex' = producerIndex /\ (InResize' <=> InResize)
    BY <1>4 DEF AdvanceBy, SameWork
  <2>4. QED
    BY <1>2, <1>4, <1>8, <2>1, <2>2, <2>3
<1>10. (producerLimit <= 2 * Bound /\ producerLimit <= 2 * Limit)'
  <2>1. w <= 2 * x /\ w <= 2 * l
    BY <1>1, <1>8 DEF Words
  <2>2. x <= y /\ l <= m
    BY <1>4, <1>8
  <2>3. w <= 2 * y /\ w <= 2 * m
    <3>1. 2 * x <= 2 * y /\ 2 * l <= 2 * m
      BY <2>2
    <3>2. ASSUME NEW a \in Nat, NEW b \in Nat, NEW d \in Nat, a <= b, b <= d PROVE a <= d
      BY <3>2
    <3>3. 2 * x \in Nat /\ 2 * y \in Nat /\ 2 * l \in Nat /\ 2 * m \in Nat
      OBVIOUS
    <3>4. QED
      BY <2>1, <3>1, <3>2, <3>3
  <2>4. QED
    BY <1>8, <2>3 DEF AdvanceBy
<1>11. (producerBuffer = Newest /\ producerMask = MaskOf(Size(IF MaskDue THEN Newest - 1 ELSE Newest)))'
  <2>1. producerBuffer = Newest /\ producerMask = MaskOf(Size(IF MaskDue THEN Newest - 1 ELSE Newest))
    BY <1>1 DEF Words
  <2>2. (MaskDue' <=> MaskDue) /\ \A b : Size(b)' = Size(b)
    BY AdvanceNumbers DEF SameWork
  <2>3. QED
    BY <1>2, <1>4, <2>1, <2>2 DEF AdvanceBy, MaskOf
<1>12. QED
  BY <1>5, <1>6, <1>7, <1>9, <1>10, <1>11 DEF Words

\* What the producers have read, and owe, stays true.
LEMMA AdvanceProducing == ASSUME Inv, NEW n, AdvanceBy(n) PROVE Producing'
<1>1. Types /\ Layout /\ Words /\ Producing
  BY DEF Inv
<1>2. Forward
  <2>1. producerIndex \in Nat /\ producerIndex' = producerIndex /\ maxQueueCapacity' = maxQueueCapacity
    BY <1>1 DEF Types, AdvanceBy
  <2>2. consumerIndex' \in Nat /\ consumerIndex' >= consumerIndex
    BY DEF AdvanceBy
  <2>3. QED
    BY <1>1, <2>1, <2>2, AdvanceNumbers, Numbers DEF Forward
<1>3. ASSUME NEW q \in Producers PROVE TryingSound(q)' /\ OwningSound(q)'
  <2>1. TryingSound(q) /\ OwningSound(q)
    BY <1>1 DEF Producing
  <2>2. pc'[q] = pc[q] /\ local'[q] = local[q] /\ order' = order /\ pushed' = pushed
        /\ consumerBuffer' = consumerBuffer /\ maxQueueCapacity' = maxQueueCapacity
    BY DEF AdvanceBy
  <2>3. TryingSound(q)'
    BY <1>1, <1>2, <2>1, <2>2, TryingForward
  <2>4. /\ Num(q)' = Num(q) /\ Newest' = Newest /\ Count' = Count
        /\ \A b : From(b)' = From(b) /\ Size(b)' = Size(b)
        /\ \A b, m : In(b, m)' <=> In(b, m)
    BY AdvanceNumbers
  <2>5. pc[q] \in Owning => Consumed' <= Num(q)
    BY AdvanceSays DEF AdvanceBy
  <2>6. pc[q] = "resizeLimit" => local[q].seen <= consumerIndex'
    <3>1. PICK s \in Nat, i \in Nat, j \in Nat :
            s = local[q].seen /\ i = consumerIndex /\ j = consumerIndex' /\ i <= j
      BY <1>1, <1>2, Locally DEF Forward
    <3>2. pc[q] = "resizeLimit" => s <= i
      BY <2>1, <3>1 DEF OwningSound
    <3>3. QED
      BY <3>1, <3>2
  <2>7. OwningSound(q)'
    BY <2>1, <2>2, <2>4, <2>5, <2>6 DEF OwningSound, MaskOf
  <2>8. QED
    BY <2>3, <2>7
<1>4. OwnersApart'
  BY <1>1, AdvanceNumbers DEF Producing, OwnersApart, AdvanceBy
<1>5. QED
  BY <1>3, <1>4 DEF Producing

\* The consumer stays in its array, or at its end.
LEMMA AdvanceConsuming == ASSUME Inv, NEW n, AdvanceBy(n) PROVE Consuming'
<1>1. Types /\ Layout /\ Consuming
  BY DEF Inv
<1>2. PICK c \in Nat, N \in Nat : c = consumerBuffer /\ N = Newest /\ c \in 1..N
  BY <1>1, Numbers DEF Consuming
<1>3. n \in Nat /\ n = Consumed /\ consumer = "advance" /\ In(c, n) /\ consumerMask = MaskOf(Size(c))
  BY <1>1, <1>2 DEF AdvanceBy, Consuming
<1>4. /\ Newest' = N /\ Consumed' = n + 1 /\ consumerBuffer' = c /\ consumerMask' = consumerMask
      /\ consumer' = "off" /\ got' = Nothing
      /\ From(c)' = From(c) /\ From(c + 1)' = From(c + 1) /\ Size(c)' = Size(c)
  BY <1>2, AdvanceNumbers DEF AdvanceBy
<1>5. From(c) \in Nat /\ From(c) <= n + 1
  BY <1>1, <1>2, <1>3, Numbers DEF In
<1>6. ASSUME c < N PROVE n + 1 <= From(c + 1)
  <2>1. c + 1 \in 1..N
    BY <1>2, <1>6
  <2>2. From(c + 1) \in Nat /\ n < From(c + 1)
    BY <1>1, <1>2, <1>3, <1>6, <2>1, Numbers DEF In
  <2>3. QED
    BY <1>3, <2>2
<1>7. QED
  BY <1>2, <1>3, <1>4, <1>5, <1>6 DEF Consuming, MaskOf

\* The slot passed is one of the free ones.
LEMMA AdvanceSlots == ASSUME Inv, NEW n, AdvanceBy(n) PROVE Slots'
<1>1. Types /\ Layout /\ Words /\ Consuming /\ Slots
  BY DEF Inv
<1>2. PICK c \in Nat, N \in Nat, k \in Nat : c = consumerBuffer /\ N = Newest /\ c \in 1..N /\ k = Count
  BY <1>1, Numbers DEF Consuming
<1>3. n \in Nat /\ n = Consumed /\ n < k /\ In(c, n) /\ consumer = "advance"
  BY <1>2, AdvanceSays DEF AdvanceBy
<1>4. /\ Newest' = N /\ Count' = k /\ Consumed' = n + 1 /\ arrays' = arrays /\ order' = order
      /\ consumerBuffer' = c /\ consumer' = "off"
      /\ \A b : From(b)' = From(b) /\ Size(b)' = Size(b)
      /\ \A b, m : In(b, m)' <=> In(b, m)
      /\ \A m \in Nat : Pending(m)' <=> Pending(m)
      /\ \A b \in Nat : (JumpDue(b)' <=> JumpDue(b)) /\ (LinkDue(b)' <=> LinkDue(b))
  BY <1>2, AdvanceNumbers DEF AdvanceBy, SameWork, SlotWork
<1>5. ElementsPlaced'
  <2>1. ASSUME NEW b \in 1..N, NEW m \in (n + 1)..(k - 1), In(b, m)
        PROVE  arrays[b][m % Size(b)] = IF Absent(m)' THEN Nothing ELSE order[m + 1]
    <3>1. m \in Nat /\ m # n /\ m \in n..(k - 1)
      BY <1>2, <1>3
    <3>2. Absent(m)' <=> Absent(m)
      BY <1>3, <1>4, <3>1 DEF Absent
    <3>3. arrays[b][m % Size(b)] = IF Absent(m) THEN Nothing ELSE order[m + 1]
      BY <1>1, <1>2, <1>3, <2>1, <3>1 DEF Slots, ElementsPlaced
    <3>4. QED
      BY <3>2, <3>3
  <2>2. QED
    BY <1>4, <2>1 DEF ElementsPlaced
<1>6. JumpsPlaced'
  <2>1. ASSUME NEW b \in 1..N, b < N
        PROVE  arrays[b][From(b + 1) % Size(b)] = IF JumpDue(b)' THEN Nothing ELSE Jump
    BY <1>1, <1>2, <1>4, <2>1 DEF Slots, JumpsPlaced
  <2>2. QED
    BY <1>4, <2>1 DEF JumpsPlaced
<1>7. LinksPlaced'
  <2>1. ASSUME NEW b \in 1..N PROVE arrays[b][Size(b)] = IF Linked(b)' THEN Link(b + 1) ELSE Nothing
    <3>1. Linked(b)' <=> Linked(b)
      BY <1>2, <1>4 DEF Linked
    <3>2. QED
      BY <1>1, <1>2, <3>1 DEF Slots, LinksPlaced
  <2>2. QED
    BY <1>4, <2>1 DEF LinksPlaced
<1>8. OthersFree'
  <2>1. ASSUME NEW b \in 1..N, NEW i \in 0..(Size(b) - 1)
        PROVE  \/ arrays[b][i] = Nothing
               \/ b < N /\ i = From(b + 1) % Size(b)
               \/ \E m \in (n + 1)..(k - 1) : In(b, m) /\ i = m % Size(b)
    <3>1. \/ arrays[b][i] = Nothing
          \/ b < N /\ i = From(b + 1) % Size(b)
          \/ \E m \in n..(k - 1) : In(b, m) /\ i = m % Size(b)
      BY <1>1, <1>2, <1>3 DEF Slots, OthersFree
    <3>2. ASSUME NEW m \in n..(k - 1), In(b, m), i = m % Size(b)
          PROVE  arrays[b][i] = Nothing \/ m \in (n + 1)..(k - 1)
      <4>1. CASE m = n
        <5>1. b = c
          BY <1>1, <1>2, <1>3, <3>2, <4>1, InOnce
        <5>2. Absent(n)
          BY <1>3 DEF Absent
        <5>3. n \in Consumed..(Count - 1)
          BY <1>2, <1>3
        <5>4. arrays[c][n % Size(c)] = Nothing
          BY <1>1, <1>2, <1>3, <5>2, <5>3 DEF Slots, ElementsPlaced
        <5>5. QED
          BY <3>2, <4>1, <5>1, <5>4
      <4>2. CASE m # n
        BY <1>2, <1>3, <3>2, <4>2
      <4>3. QED
        BY <4>1, <4>2
    <3>3. QED
      BY <3>1, <3>2
  <2>2. QED
    BY <1>4, <2>1 DEF OthersFree
<1>9. QED
  BY <1>5, <1>6, <1>7, <1>8 DEF Slots

\* Advance.
LEMMA AdvanceKeeps == ASSUME Inv, Advance PROVE Inv'
<1>1. Types /\ Calling /\ Layout /\ Words
  BY DEF Inv
<1>2. PICK n \in Nat : n = Consumed
  BY <1>1, Numbers
<1>3. AdvanceBy(n)
  BY <1>2, AdvanceDoes
<1>4. Types'
  <2>1. consumerIndex' \in Nat /\ consumer' = "off"
    BY <1>2, <1>3 DEF AdvanceBy
  <2>2. got' \in Elements \cup {Nothing} /\ taken' \in Elements \cup {Nothing}
    BY <1>2, <1>3, AdvanceSays DEF AdvanceBy
  <2>3. QED
    BY <1>1, <1>3, <2>1, <2>2 DEF Types, AdvanceBy
<1>5. Calling'
  BY <1>1, <1>3 DEF Calling, AdvanceBy
<1>6. Layout'
  <2>1. ArraysKept /\ Consumed' >= Consumed /\ UNCHANGED <<spans, maxQueueCapacity>>
    BY <1>2, <1>3 DEF ArraysKept, AdvanceBy
  <2>2. QED
    BY <1>1, <1>4, <2>1, LayoutFrame
<1>7. QED
  BY <1>3, <1>4, <1>5, <1>6, AdvanceWords, AdvanceProducing, AdvanceConsuming, AdvanceSlots DEF Inv

--------------------------------------------------------------------------------
(* The invariant *)

\* NewMPSC: one empty array, and nobody at work.
LEMMA InitInv == Init => Inv
<1> SUFFICES ASSUME Init PROVE Inv
  OBVIOUS
<1>1. PICK m \in MaxCapacities : maxQueueCapacity = 2 * m
  BY DEF Init
<1> DEFINE I == InitialCapacity
<1>2. I \in Nat /\ I >= 2 /\ m \in Nat /\ Doubled(I, m)
  BY Constants
<1>3. I <= m /\ maxQueueCapacity \div 2 = m /\ maxQueueCapacity \in Nat
  <2>1. I \in 1..m
    BY <1>2 DEF Doubled
  <2>2. QED
    BY <1>1, <1>2, <2>1, Half
<1>4. /\ Newest = 1 /\ Len(arrays) = 1 /\ From(1) = 0 /\ Size(1) = I /\ Count = 0 /\ Consumed = 0
      /\ spans \in Seq([from : Nat, size : Nat]) /\ order \in Seq(Elements)
  BY <1>2 DEF Init, Newest, From, Size, Count, Consumed
<1>5. arrays \in Seq(Spaces) /\ DOMAIN arrays[1] = 0..I /\ \A i \in 0..I : arrays[1][i] = Nothing
  <2>1. arrays = << NewBuffer(I + 1) >>
    BY DEF Init
  <2>2. NewBuffer(I + 1) = [i \in 0..I |-> Nothing]
    BY <1>2 DEF NewBuffer
  <2>3. NewBuffer(I + 1) \in Spaces
    <3>1. NewBuffer(I + 1) \in [0..I -> Marked]
      BY <2>2, Marks
    <3>2. QED
      BY <1>2, <3>1 DEF Spaces
  <2>4. arrays \in Seq(Spaces) /\ arrays[1] = NewBuffer(I + 1)
    BY <2>1, <2>3
  <2>5. DOMAIN NewBuffer(I + 1) = 0..I /\ \A i \in 0..I : NewBuffer(I + 1)[i] = Nothing
    BY <2>2
  <2>6. QED
    BY <2>4, <2>5
<1>6. /\ producerIndex = 0 /\ producerLimit = 2 * (I - 1) /\ producerMask = MaskOf(I) /\ producerBuffer = 1
      /\ consumerIndex = 0 /\ consumerMask = MaskOf(I) /\ consumerBuffer = 1 /\ consumer = "off"
      /\ got = Nothing /\ taken = Nothing /\ calls = 0
      /\ \A p \in Producers : pc[p] = "off" /\ local[p] = NoLocal /\ pushed[p] = 0 /\ answer[p] = "none"
  BY DEF Init, MaskOf
<1>7. /\ pc \in [Producers -> Free \cup Owning] /\ local \in [Producers -> Locals]
      /\ pushed \in [Producers -> Nat] /\ answer \in [Producers -> {"none", "pending", "pushed", "full"}]
  BY DEF Init, Free, Locals, NoLocal
<1>8. MaskOf(I) \in Nat
  BY <1>2 DEF MaskOf
<1>9. \A p \in Producers : pc[p] \notin Owning /\ pc[p] \notin Asking
  BY <1>6 DEF Owning, Resizing, Asking, Trying
<1>10. ~InResize /\ ~MaskDue
  BY <1>9 DEF InResize, MaskDue, Owning, Resizing
<1>11. Types
  BY <1>2, <1>3, <1>4, <1>5, <1>6, <1>7, <1>8 DEF Types
<1>12. Calling
  BY <1>6, <1>7, <1>9, Constants DEF Calling
<1>13. Layout
  BY <1>1, <1>2, <1>3, <1>4, <1>5 DEF Layout
<1>14. Oldest(1) = 0 /\ Room(1) \in Nat /\ Room(1) >= I - 1 /\ Bound = Room(1) /\ Limit = m
  <2>1. Oldest(1) = 0
    BY <1>4 DEF Oldest, Later
  <2>2. Room(1) \in Nat /\ Room(1) >= I - 1
    BY <1>2, <1>4 DEF Room
  <2>3. QED
    BY <1>2, <1>3, <1>4, <2>1, <2>2 DEF Bound, Limit
<1>15. Words
  <2>1. consumerIndex = 2 * Consumed /\ Consumed <= Count
    BY <1>4, <1>6
  <2>2. Count <= Oldest(Newest) + Size(Newest) /\ Count <= Limit /\ Count <= Bound
    BY <1>2, <1>4, <1>14
  <2>3. producerLimit <= 2 * Bound /\ producerLimit <= 2 * Limit
    BY <1>2, <1>3, <1>6, <1>14
  <2>4. producerIndex = 2 * Count /\ ~(Newest > 1)
    BY <1>4, <1>6
  <2>5. producerMask = MaskOf(Size(IF MaskDue THEN Newest - 1 ELSE Newest))
    BY <1>4, <1>6, <1>10
  <2>6. producerBuffer = Newest
    BY <1>4, <1>6
  <2>7. QED
    BY <1>10, <2>1, <2>2, <2>3, <2>4, <2>5, <2>6 DEF Words
<1>16. Producing
  <2>1. ASSUME NEW p \in Producers PROVE TryingSound(p) /\ OwningSound(p)
    <3>1. local[p].limit = 0 /\ pc[p] = "off"
      BY <1>6, <2>1 DEF NoLocal
    <3>2. local[p].limit <= 2 * Bound /\ local[p].limit <= 2 * Limit
      BY <1>2, <1>14, <3>1
    <3>3. TryingSound(p)
      BY <3>1, <3>2 DEF TryingSound, Trying
    <3>4. OwningSound(p)
      BY <3>1 DEF OwningSound, Owning, Resizing, Jumping
    <3>5. QED
      BY <3>3, <3>4
  <2>2. OwnersApart
    BY <1>9 DEF OwnersApart
  <2>3. QED
    BY <2>1, <2>2 DEF Producing
<1>17. Consuming
  BY <1>4, <1>6 DEF Consuming
<1>18. Slots
  <2>1. ElementsPlaced
    <3>1. Consumed..(Count - 1) = {}
      BY <1>4
    <3>2. QED
      BY <3>1 DEF ElementsPlaced
  <2>2. JumpsPlaced
    BY <1>4 DEF JumpsPlaced
  <2>3. LinksPlaced
    BY <1>2, <1>4, <1>5 DEF LinksPlaced, Linked
  <2>4. OthersFree
    BY <1>2, <1>4, <1>5 DEF OthersFree
  <2>5. QED
    BY <2>1, <2>2, <2>3, <2>4 DEF Slots
<1>19. QED
  BY <1>11, <1>12, <1>13, <1>15, <1>16, <1>17, <1>18 DEF Inv

\* Nothing.
LEMMA StutterKeeps == ASSUME Inv, UNCHANGED vars PROVE Inv'
<1>1. UNCHANGED <<indices, consumerIndex, consumerMask, consumerBuffer, got, arrays, pc, local,
                  record, calls, answer>>
      /\ consumer' = consumer /\ taken' = taken
  BY DEF vars, popper
<1>2. Watching
  <2>1. Types
    BY DEF Inv
  <2>2. QED
    BY <1>1, <2>1 DEF Watching, Types, ArraysKept
<1>3. Types /\ Layout /\ Producing /\ Consuming /\ Slots
  BY DEF Inv
<1>4. UNCHANGED <<popper, spans, order, arrays, consumerIndex, consumerBuffer>>
  BY <1>1 DEF popper, record
<1>5. ASSUME NEW q \in Producers, pc[q] \in Owning PROVE consumerBuffer' <= local[q].buffer
  BY <1>1, <1>3, <1>5 DEF Producing, OwningSound
<1>6. SlotWork => Consuming' /\ Slots'
  <2>1. SlotWork => WorkDone
    BY DEF SlotWork, WorkDone
  <2>2. QED
    BY <1>1, <1>3, <1>4, <2>1, ConsumingFrame, SlotsFrame
<1>7. QED
  BY <1>2, <1>5, <1>6, Watches

\* Every step keeps the invariant.
LEMMA NextInv == Inv /\ [Next]_vars => Inv'
<1> SUFFICES ASSUME Inv, [Next]_vars PROVE Inv'
  OBVIOUS
<1>1. ASSUME NEW p \in Producers, Call(p) \/ ProducerStep(p) PROVE Inv'
  <2>1. CASE Call(p) \/ ReadLimit(p) \/ ReadIndex(p) \/ ReadMask(p) \/ ReadBuffer(p)
    BY <2>1, CallKeeps, ReadLimitKeeps, ReadIndexKeeps, ReadMaskKeeps, ReadBufferKeeps
  <2>2. CASE PushSlowPath(p) \/ CasLimit(p) \/ CasIndex(p) \/ CasResize(p) \/ StoreElement(p)
    BY <2>2, PushSlowPathKeeps, CasLimitKeeps, CasIndexKeeps, CasResizeKeeps, StoreElementKeeps
  <2>3. CASE ResizeBuffer(p) \/ ResizeMask(p) \/ ResizeElement(p) \/ ResizeLink(p)
    BY <2>3, ResizeBufferKeeps, ResizeMaskKeeps, ResizeElementKeeps, ResizeLinkKeeps
  <2>4. CASE ResizeSeen(p) \/ ResizeLimit(p) \/ ResizeIndex(p) \/ ResizeJump(p)
    BY <2>4, ResizeSeenKeeps, ResizeLimitKeeps, ResizeIndexKeeps, ResizeJumpKeeps
  <2>5. QED
    BY <1>1, <2>1, <2>2, <2>3, <2>4 DEF ProducerStep
<1>2. CASE TryPop \/ ConsumerStep
  BY <1>2, TryPopKeeps, CheckEmptyKeeps, SpinKeeps, ClearKeeps, AdvanceKeeps, NextBufferKeeps,
     NewBufferTryPushKeeps DEF ConsumerStep
<1>3. CASE UNCHANGED vars
  BY <1>3, StutterKeeps
<1>4. QED
  BY <1>1, <1>2, <1>3 DEF Next

\* The invariant holds always.
LEMMA AlwaysInv == Spec => []Inv
  BY InitInv, NextInv, PTL DEF Spec

--------------------------------------------------------------------------------
(* What the invariant says of the slots *)

\* A slot holds an element, the jump mark, the link to the next array, or nothing.
LEMMA SlotContents ==
    ASSUME Inv, NEW b \in 1..Newest, NEW i \in 0..Size(b)
    PROVE  arrays[b][i] \in Contents
<1>1. Types /\ Layout /\ Slots
  BY DEF Inv
<1>2. PICK N \in Nat, s \in Nat : N = Newest /\ s = Size(b) /\ N = Len(arrays)
  BY <1>1, Numbers DEF Layout
<1>3. Jump \in Contents /\ Nothing \in Contents /\ Elements \subseteq Contents
      /\ \A c \in 1..N : Link(c) \in Contents
  BY <1>2 DEF Contents
<1>4. CASE i = s
  <2>1. arrays[b][s] = IF Linked(b) THEN Link(b + 1) ELSE Nothing
    BY <1>1, <1>2 DEF Slots, LinksPlaced
  <2>2. Linked(b) => b + 1 \in 1..N
    BY <1>2 DEF Linked
  <2>3. QED
    BY <1>3, <1>4, <2>1, <2>2
<1>5. CASE i # s
  <2>1. i \in 0..(Size(b) - 1)
    BY <1>2, <1>5
  <2>2. \/ arrays[b][i] = Nothing
        \/ b < N /\ i = From(b + 1) % Size(b)
        \/ \E n \in Consumed..(Count - 1) : In(b, n) /\ i = n % Size(b)
    BY <1>1, <1>2, <2>1 DEF Slots, OthersFree
  <2>3. ASSUME b < N, i = From(b + 1) % Size(b) PROVE arrays[b][i] \in {Nothing, Jump}
    <3>1. arrays[b][From(b + 1) % Size(b)] = IF JumpDue(b) THEN Nothing ELSE Jump
      BY <1>1, <1>2, <2>3 DEF Slots, JumpsPlaced
    <3>2. QED
      BY <2>3, <3>1
  <2>4. ASSUME NEW n \in Consumed..(Count - 1), In(b, n), i = n % Size(b)
        PROVE  arrays[b][i] \in Elements \cup {Nothing}
    <3>1. arrays[b][n % Size(b)] = IF Absent(n) THEN Nothing ELSE order[n + 1]
      BY <1>1, <2>4 DEF Slots, ElementsPlaced
    <3>2. n \in Nat /\ n < Count
      BY <1>1, <2>4, Numbers
    <3>3. order[n + 1] \in Elements
      BY <1>1, <3>2, ElementAt
    <3>4. QED
      BY <2>4, <3>1, <3>3
  <2>5. QED
    BY <1>3, <2>2, <2>3, <2>4
<1>6. QED
  BY <1>4, <1>5

\* The arrays and the indices, as the run checks them.
LEMMA InvTypeOK == Inv => TypeOK
<1> SUFFICES ASSUME Inv PROVE TypeOK
  OBVIOUS
<1>1. Types /\ Layout /\ Words /\ Consuming
  BY DEF Inv
<1>2. PICK N \in Nat, k \in Nat, n \in Nat, c \in Nat :
        N = Newest /\ k = Count /\ n = Consumed /\ c = consumerBuffer /\ N >= 1
  BY <1>1, Numbers DEF Consuming
<1>3. producerIndex \in {2 * Len(order), 2 * Len(order) - 1}
  BY <1>1 DEF Words, Count
<1>4. consumerIndex \in {2 * i : i \in 0..Len(order)}
  <2>1. consumerIndex = 2 * n /\ n <= k
    BY <1>1, <1>2 DEF Words
  <2>2. n \in 0..Len(order)
    BY <1>2, <2>1 DEF Count
  <2>3. QED
    BY <2>1, <2>2
<1>5. {producerLimit, producerMask, consumerMask} \subseteq Nat
  BY <1>1 DEF Types
<1>6. consumerBuffer <= producerBuffer /\ producerBuffer \in 1..Len(arrays)
  <2>1. c \in 1..N /\ producerBuffer = N /\ N = Len(arrays)
    BY <1>1, <1>2 DEF Consuming, Words, Layout
  <2>2. QED
    BY <1>2, <2>1
<1>7. Len(spans) = Len(arrays) /\ spans[1].size = InitialCapacity
  BY <1>1 DEF Layout, Newest, Size
<1>8. ASSUME NEW b \in 1..Len(arrays)
      PROVE  /\ DOMAIN arrays[b] = 0..spans[b].size
             /\ b > 1 => spans[b].size = 2 * spans[b - 1].size
             /\ spans[b].size <= maxQueueCapacity \div 2
             /\ \A i \in DOMAIN arrays[b] : arrays[b][i] \in Contents
  <2>1. b \in 1..N /\ N = Len(arrays)
    BY <1>1, <1>2 DEF Layout
  <2>2. DOMAIN arrays[b] = 0..Size(b)
    BY <1>1, <1>2, <2>1 DEF Layout
  <2>3. ASSUME b > 1 PROVE Size(b) = 2 * Size(b - 1)
    <3>1. b - 1 \in 1..N /\ b - 1 < N /\ b - 1 + 1 = b
      BY <1>2, <2>1, <2>3
    <3>2. Size(b - 1 + 1) = 2 * Size(b - 1)
      BY <1>1, <1>2, <3>1 DEF Layout
    <3>3. QED
      BY <3>1, <3>2
  <2>4. Size(b) <= maxQueueCapacity \div 2
    <3>1. PICK s \in Nat, m \in Nat : s = Size(b) /\ m = maxQueueCapacity \div 2
      BY <1>1, <1>2, <2>1, Numbers
    <3>2. 2 * s <= 2 * m
      BY <1>1, <1>2, <2>1, <3>1 DEF Layout
    <3>3. s <= m
      BY <3>1, <3>2
    <3>4. QED
      BY <3>1, <3>3
  <2>5. \A i \in DOMAIN arrays[b] : arrays[b][i] \in Contents
    BY <1>2, <2>1, <2>2, SlotContents
  <2>6. QED
    BY <2>2, <2>3, <2>4, <2>5 DEF Size
<1>9. ToSet(order) \subseteq Elements
  <2>1. order \in Seq(Elements)
    BY <1>1 DEF Types
  <2>2. QED
    BY <2>1, ElementOfSeq DEF ToSet
<1>10. /\ answer \in [Producers -> {"none", "pending", "pushed", "full"}]
       /\ got \in Elements \cup {Nothing} /\ taken \in Elements \cup {Nothing}
  BY <1>1 DEF Types
<1>11. QED
  BY <1>3, <1>4, <1>5, <1>6, <1>7, <1>8, <1>9, <1>10 DEF TypeOK

\* The two panics of the code are not reached.
LEMMA InvNoPanic == Inv => NoPanic
<1>1. "panic" \notin Free \cup Owning
  BY DEF Free, Asking, Trying, Owning, Resizing
<1>2. Types => NoPanic
  BY <1>1 DEF Types, NoPanic
<1>3. QED
  BY <1>2 DEF Inv

\* Whoever is about to write an element or a jump mark finds the slot free.
LEMMA InvNothingOverwritten == Inv => NothingOverwritten
<1> SUFFICES ASSUME Inv, NEW p \in Producers
             PROVE  /\ pc[p] = "store" =>
                         arrays[local[p].buffer][Offset(local[p].index, local[p].mask)] = Nothing
                    /\ pc[p] = "resizeElement" =>
                         arrays[producerBuffer][Offset(local[p].index, producerMask)] = Nothing
                    /\ pc[p] = "resizeJump" =>
                         arrays[local[p].buffer][Offset(local[p].index, local[p].mask)] = Nothing
  BY DEF NothingOverwritten
<1>1. Types /\ Layout /\ Words /\ Producing /\ Slots
  BY DEF Inv
<1>2. OwningSound(p)
  BY <1>1 DEF Producing
<1>3. PICK n \in Nat, b \in Nat, k \in Nat : n = Num(p) /\ b = local[p].buffer /\ k = Count
  BY <1>1, Locally, Numbers
<1>4. ASSUME pc[p] = "store"
      PROVE  arrays[local[p].buffer][Offset(local[p].index, local[p].mask)] = Nothing
  <2>1. /\ local[p].index = 2 * n /\ Consumed <= n /\ n < k /\ b \in 1..Newest
        /\ local[p].mask = MaskOf(Size(b)) /\ In(b, n)
    BY <1>2, <1>3, <1>4 DEF OwningSound, Owning
  <2>2. Offset(local[p].index, local[p].mask) = n % Size(b)
    BY <1>1, <1>3, <2>1, Place
  <2>3. n \in Consumed..(Count - 1)
    BY <1>1, <1>3, <2>1, Numbers
  <2>4. Absent(n)
    BY <1>3, <1>4 DEF Absent, Pending, Filling
  <2>5. arrays[b][n % Size(b)] = Nothing
    BY <1>1, <2>1, <2>3, <2>4 DEF Slots, ElementsPlaced
  <2>6. QED
    BY <1>3, <2>2, <2>5
<1>5. ASSUME pc[p] = "resizeElement"
      PROVE  arrays[producerBuffer][Offset(local[p].index, producerMask)] = Nothing
  <2>1. /\ local[p].index = 2 * n /\ n \in Consumed..(Count - 1) /\ In(Newest, n)
        /\ Newest \in 1..Newest /\ producerMask = MaskOf(Size(Newest))
    BY <1>1, <1>3, <1>5, ResizingSays DEF Resizing
  <2>2. producerBuffer = Newest
    BY <1>1 DEF Words
  <2>3. Offset(local[p].index, producerMask) = n % Size(Newest)
    BY <1>1, <1>3, <2>1, Place
  <2>4. Absent(n)
    BY <1>3, <1>5 DEF Absent, Pending, Filling
  <2>5. arrays[Newest][n % Size(Newest)] = Nothing
    BY <1>1, <2>1, <2>4 DEF Slots, ElementsPlaced
  <2>6. QED
    BY <2>2, <2>3, <2>5
<1>6. ASSUME pc[p] = "resizeJump"
      PROVE  arrays[local[p].buffer][Offset(local[p].index, local[p].mask)] = Nothing
  <2>1. /\ local[p].index = 2 * n /\ b \in 1..Newest /\ local[p].mask = MaskOf(Size(b))
        /\ b < Newest /\ From(b + 1) = n
    BY <1>2, <1>3, <1>6 DEF OwningSound, Owning, Resizing, Jumping
  <2>2. Offset(local[p].index, local[p].mask) = n % Size(b)
    BY <1>1, <1>3, <2>1, Place
  <2>3. JumpDue(b)
    BY <1>3, <1>6 DEF JumpDue, Jumping, Owning, Resizing
  <2>4. arrays[b][From(b + 1) % Size(b)] = Nothing
    BY <1>1, <2>1, <2>3 DEF Slots, JumpsPlaced
  <2>5. QED
    BY <1>3, <2>1, <2>2, <2>4
<1>7. QED
  BY <1>4, <1>5, <1>6

\* An element that is pending is so in its own array.
LEMMA PendingHere ==
    ASSUME Inv, NEW p \in Producers, pc[p] \in Filling, NEW c \in Nat, c = consumerBuffer,
           Num(p) = Consumed, In(c, Consumed)
    PROVE  local[p].index = consumerIndex /\ local[p].buffer = c
<1>1. Types /\ Layout /\ Words /\ Producing /\ Consuming
  BY DEF Inv
<1>2. PICK n \in Nat, b \in Nat, N \in Nat : n = Consumed /\ b = local[p].buffer /\ N = Newest /\ N \in 1..N
  BY <1>1, Locally, Numbers
<1>3. OwningSound(p) /\ pc[p] \in Owning
  BY <1>1 DEF Producing, Filling, Owning, Resizing
<1>4. local[p].index = 2 * n /\ b \in 1..N /\ c <= b /\ c \in 1..N /\ consumerIndex = 2 * n
  BY <1>1, <1>2, <1>3 DEF OwningSound, Words, Consuming
<1>5. CASE pc[p] = "store"
  <2>1. In(b, n)
    BY <1>2, <1>3, <1>5 DEF OwningSound
  <2>2. QED
    BY <1>1, <1>2, <1>4, <2>1, InOnce
<1>6. CASE pc[p] = "resizeBuffer"
  <2>1. b = N /\ From(N) < n
    BY <1>2, <1>3, <1>6 DEF OwningSound
  <2>2. In(N, n)
    <3>1. From(N) \in Nat
      BY <1>1, <1>2, Numbers
    <3>2. QED
      BY <1>2, <2>1, <3>1 DEF In
  <2>3. QED
    BY <1>1, <1>2, <1>4, <2>1, <2>2, InOnce
<1>7. CASE pc[p] \in {"resizeMask", "resizeElement"}
  <2>1. b < N /\ From(b + 1) = n
    BY <1>2, <1>3, <1>7 DEF OwningSound, Jumping, Owning, Resizing
  <2>2. c < N /\ c + 1 \in 1..N /\ b + 1 \in 1..N /\ c + 1 <= b + 1
    BY <1>4, <2>1
  <2>3. From(c + 1) <= From(b + 1) /\ n < From(c + 1) /\ From(c + 1) \in Nat
    BY <1>1, <1>2, <2>2, FromAscends, Numbers DEF In
  <2>4. QED
    BY <1>2, <2>1, <2>3
<1>8. QED
  BY <1>5, <1>6, <1>7 DEF Filling

\* The slot the consumer spins at is owned.
LEMMA InvSpinAttended == Inv => SpinAttended
<1> SUFFICES ASSUME Inv, consumer = "spin", Slot = Nothing
             PROVE  \E p \in Producers :
                      /\ pc[p] \in {"store", "resizeBuffer", "resizeMask", "resizeElement", "resizeLink",
                                    "resizeSeen", "resizeLimit", "resizeIndex", "resizeJump"}
                      /\ local[p].index = consumerIndex
                      /\ local[p].buffer = consumerBuffer
  BY DEF SpinAttended
<1>1. Types /\ Layout /\ Words /\ Producing /\ Consuming /\ Slots
  BY DEF Inv
<1>2. PICK c \in Nat, n \in Nat : c = consumerBuffer /\ n = Consumed
  BY <1>1, Numbers DEF Consuming
<1>3. n < Count /\ consumerIndex = 2 * n /\ Count \in Nat
  BY <1>1, <1>2, Numbers DEF Consuming, Words
<1>4. \/ /\ c < Newest /\ n = From(c + 1)
         /\ Slot = IF JumpDue(c) THEN Nothing ELSE Jump
      \/ /\ In(c, n)
         /\ Slot = IF Absent(n) THEN Nothing ELSE order[n + 1]
      \/ n = Count
  BY <1>1, <1>2, SlotSays
<1>5. ASSUME n = From(c + 1), JumpDue(c)
      PROVE  \E p \in Producers : /\ pc[p] \in Owning
                                  /\ local[p].index = consumerIndex /\ local[p].buffer = consumerBuffer
  <2>1. PICK p \in Producers : pc[p] \in Jumping /\ local[p].buffer = c
    BY <1>5 DEF JumpDue
  <2>2. OwningSound(p) /\ pc[p] \in Owning
    BY <1>1, <2>1 DEF Producing, Jumping
  <2>3. local[p].index = 2 * Num(p) /\ From(c + 1) = Num(p)
    BY <2>1, <2>2 DEF OwningSound
  <2>4. QED
    BY <1>2, <1>3, <1>5, <2>1, <2>2, <2>3
<1>6. ASSUME In(c, n), Absent(n)
      PROVE  \E p \in Producers : /\ pc[p] \in Owning
                                  /\ local[p].index = consumerIndex /\ local[p].buffer = consumerBuffer
  <2>1. PICK p \in Producers : pc[p] \in Filling /\ Num(p) = n
    BY <1>6 DEF Absent, Pending
  <2>2. pc[p] \in Owning
    BY <2>1 DEF Filling, Owning, Resizing
  <2>3. QED
    BY <1>2, <1>6, <2>1, <2>2, PendingHere
<1>7. n < Count => order[n + 1] # Nothing
  BY <1>1, <1>2, ElementAt, Marks
<1>8. n # Count
  BY <1>2, <1>3
<1>9. \E p \in Producers : /\ pc[p] \in Owning
                           /\ local[p].index = consumerIndex /\ local[p].buffer = consumerBuffer
  BY <1>3, <1>4, <1>5, <1>6, <1>7, <1>8, Marks
<1>10. QED
  BY <1>9 DEF Owning, Resizing

\* In every queue, whatever the capacities and however many producers: the arrays keep their
\* sizes, whoever holds an index finds its slot free, and the code's own assertions hold.
THEOREM QueueIsSound == Spec => []QueueSound
  BY AlwaysInv, InvTypeOK, InvNoPanic, InvNothingOverwritten, PTL DEF QueueSound

\* A consumer that spins at an empty slot waits for a producer that owns that very slot.
THEOREM SpinIsAttended == Spec => []SpinAttended
  BY AlwaysInv, InvSpinAttended, PTL

--------------------------------------------------------------------------------
(* The queue of module WriteQueue: the elements that have an index and are not consumed *)

Queue == SubSeq(order, consumerIndex \div 2 + 1, Len(order))

\* What is left of a sequence when n have been taken from its front.
LEMMA RestSays ==
    ASSUME NEW S, NEW s \in Seq(S), NEW n \in 0..Len(s)
    PROVE  /\ SubSeq(s, n + 1, Len(s)) \in Seq(S) /\ Len(SubSeq(s, n + 1, Len(s))) = Len(s) - n
           /\ SubSeq(s, n + 1, Len(s)) = <<>> <=> n = Len(s)
<1>1. PICK k \in Nat : k = Len(s) /\ n \in Nat /\ n <= k
  OBVIOUS
<1>2. \A i \in (n + 1)..k : s[i] \in S
  BY <1>1, ElementOfSeq
<1>3. /\ SubSeq(s, n + 1, k) \in Seq(S)
      /\ Len(SubSeq(s, n + 1, k)) = IF n + 1 <= k THEN k - (n + 1) + 1 ELSE 0
  BY <1>1, <1>2, SubSeqProperties
<1>4. Len(SubSeq(s, n + 1, k)) = k - n
  BY <1>1, <1>3
<1>5. SubSeq(s, n + 1, k) = <<>> <=> Len(SubSeq(s, n + 1, k)) = 0
  BY <1>3, EmptySeq
<1>6. QED
  BY <1>1, <1>3, <1>4, <1>5

\* Taking one more takes the head.
LEMMA RestPops ==
    ASSUME NEW S, NEW s \in Seq(S), NEW n \in 0..Len(s), n < Len(s)
    PROVE  /\ Head(SubSeq(s, n + 1, Len(s))) = s[n + 1]
           /\ Tail(SubSeq(s, n + 1, Len(s))) = SubSeq(s, n + 1 + 1, Len(s))
<1>1. n + 1 \in 1..Len(s) /\ Len(s) \in (n + 1)..Len(s)
  OBVIOUS
<1>2. QED
  BY <1>1, HeadTailOfSubSeq

\* An element appended to the whole is appended to the rest.
LEMMA RestGrows ==
    ASSUME NEW S, NEW s \in Seq(S), NEW n \in 0..Len(s), NEW e \in S
    PROVE  SubSeq(Append(s, e), n + 1, Len(s) + 1) = Append(SubSeq(s, n + 1, Len(s)), e)
<1>1. PICK k \in Nat : k = Len(s) /\ n \in Nat /\ n <= k
  OBVIOUS
<1>2. PICK t \in Seq(S) : t = Append(s, e) /\ Len(t) = k + 1 /\ t[k + 1] = e /\ t = s \o <<e>>
  <2>1. Append(s, e) \in Seq(S) /\ Len(Append(s, e)) = k + 1 /\ Append(s, e)[k + 1] = e
    BY <1>1, AppendProperties
  <2>2. Append(s, e) = s \o <<e>>
    BY AppendIsConcat
  <2>3. QED
    BY <2>1, <2>2
<1>3. SubSeq(t, n + 1, k + 1) = SubSeq(t, n + 1, k) \o <<e>>
  <2>1. n + 1 \in 1..Len(t) /\ k + 1 \in (n + 1)..Len(t) /\ k + 1 - 1 = k
    BY <1>1, <1>2
  <2>2. SubSeq(t, n + 1, k + 1) = SubSeq(t, n + 1, k + 1 - 1) \o <<t[k + 1]>>
    BY <2>1, SubSeqRecursiveSecond
  <2>3. QED
    BY <1>2, <2>1, <2>2
<1>4. SubSeq(t, n + 1, k) = SubSeq(s, n + 1, k)
  <2>1. CASE n = k
    <3>1. k < n + 1
      BY <1>1, <2>1
    <3>2. SubSeq(t, n + 1, k) = <<>> /\ SubSeq(s, n + 1, k) = <<>>
      BY <1>1, <3>1, SubSeqEmpty
    <3>3. QED
      BY <3>2
  <2>2. CASE n < k
    <3>1. n + 1 \in 1..Len(s) /\ k \in 1..Len(s) /\ <<e>> \in Seq(S)
      BY <1>1, <2>2
    <3>2. SubSeq(s \o <<e>>, n + 1, k) = SubSeq(s, n + 1, k)
      BY <3>1, SubSeqOfConcat1
    <3>3. QED
      BY <1>2, <3>2
  <2>3. QED
    BY <1>1, <2>1, <2>2
<1>5. SubSeq(s, n + 1, k) \in Seq(S)
  BY <1>1, RestSays
<1>6. SubSeq(s, n + 1, k) \o <<e>> = Append(SubSeq(s, n + 1, k), e)
  BY <1>5
<1>7. QED
  BY <1>1, <1>2, <1>3, <1>4, <1>6

\* How long the queue is.
LEMMA QueueSays ==
    ASSUME Inv, NEW n \in Nat, n = Consumed
    PROVE  /\ order \in Seq(Elements) /\ n \in 0..Len(order)
           /\ Queue = SubSeq(order, n + 1, Len(order)) /\ Len(Queue) = Count - n
           /\ Queue = <<>> <=> n = Count
<1>1. order \in Seq(Elements) /\ n <= Count /\ Count \in Nat
  BY Numbers DEF Inv, Types, Words
<1>2. n \in 0..Len(order)
  BY <1>1 DEF Count
<1>3. Queue = SubSeq(order, n + 1, Len(order))
  BY DEF Queue, Consumed
<1>4. QED
  BY <1>1, <1>2, <1>3, RestSays DEF Count

\* NewMPSC makes an empty queue.
LEMMA FifoInit == Init => Fifo!Init
<1> SUFFICES ASSUME Init PROVE Fifo!Init
  OBVIOUS
<1>1. maxQueueCapacity \div 2 \in Nat \ {0}
  <2>1. PICK m \in MaxCapacities : maxQueueCapacity = 2 * m
    BY DEF Init
  <2>2. m \in Nat /\ InitialCapacity \in 1..m
    BY <2>1, Constants DEF Doubled
  <2>3. QED
    BY <2>1, <2>2, Half
<1>2. SubSeq(order, consumerIndex \div 2 + 1, Len(order)) = <<>>
  <2>1. order = <<>> /\ consumerIndex = 0
    BY DEF Init
  <2>2. consumerIndex \div 2 + 1 = 1 /\ Len(order) = 0
    BY <2>1
  <2>3. QED
    BY <2>2, SubSeqEmpty
<1>3. /\ pushed = [p \in Producers |-> 0] /\ answer = [p \in Producers |-> "none"] /\ taken = Nothing
  BY DEF Init
<1>4. QED
  BY <1>1, <1>2, <1>3 DEF Fifo!Init

\* A step of the queue, on the queue's own variables.
Unqueued == UNCHANGED <<maxQueueCapacity, order, consumerIndex, pushed, answer, taken>>

\* Such a step is a stutter of the abstract queue.
LEMMA UnqueuedStutters == Unqueued => UNCHANGED Fifo!queueVars
  BY DEF Unqueued, Fifo!queueVars

\* A push begins.
LEMMA CallCalls == ASSUME Inv, NEW p \in Producers, Call(p) PROVE Fifo!Call(p)
<1>1. pc[p] = "off" /\ pc[p] \notin Asking
  BY DEF Call, Step, Asking, Trying
<1>2. answer[p] # "pending"
  BY <1>1 DEF Inv, Calling
<1>3. answer' = [answer EXCEPT ![p] = "pending"]
      /\ UNCHANGED <<maxQueueCapacity, order, consumerIndex, pushed, taken>>
  BY DEF Call, popper, record
<1>4. QED
  BY <1>2, <1>3 DEF Fifo!Call

\* A push is refused when the queue is full.
LEMMA FullRefuses ==
    ASSUME Inv, NEW p \in Producers, PushSlowPath(p)
    PROVE  Fifo!Refuse(p) \/ Unqueued
<1>1. UNCHANGED <<maxQueueCapacity, order, consumerIndex, pushed, taken>>
  BY DEF PushSlowPath, popper, record
<1>2. CASE answer' = answer
  BY <1>1, <1>2 DEF Unqueued
<1>3. CASE answer' # answer
  <2>1. /\ pc[p] = "slowPath" /\ answer' = [answer EXCEPT ![p] = "full"]
        /\ maxQueueCapacity - (local[p].index - consumerIndex) = 0
    BY <1>3 DEF PushSlowPath, Return, Step
  <2>2. Types /\ Layout /\ Words /\ Producing
    BY DEF Inv
  <2>3. PICK n \in Nat, k \in Nat, i \in Nat, c \in Nat :
          n = Consumed /\ k = Count /\ i = Num(p) /\ c = maxQueueCapacity \div 2
    BY <2>2, Numbers, Locally
  <2>4. local[p].index = 2 * i /\ i <= k
    BY <2>1, <2>2, <2>3, SlowSays DEF Producing
  <2>5. consumerIndex = 2 * n /\ maxQueueCapacity = 2 * c /\ k <= n + c
    BY <2>2, <2>3 DEF Words, Layout, Limit
  <2>6. 2 * c - (2 * i - 2 * n) = 0
    BY <2>1, <2>4, <2>5
  <2>7. k - n = c
    BY <2>3, <2>4, <2>5, <2>6
  <2>8. Len(Queue) = c
    BY <2>3, <2>7, QueueSays
  <2>9. answer[p] = "pending"
    BY <2>1 DEF Inv, Calling, Asking, Trying
  <2>10. QED
    BY <1>1, <2>1, <2>3, <2>8, <2>9 DEF Fifo!Refuse, Queue
<1>4. QED
  BY <1>2, <1>3

\* The compare-and-swap that gives an index is where the push takes effect.
LEMMA AcquirePushes ==
    ASSUME Inv, NEW p \in Producers, NEW from \in {"casIndex", "casResize"}, NEW to, NEW increment,
           Acquire(p, from, increment, to), UNCHANGED popper
    PROVE  Fifo!Push(p) \/ Unqueued
<1>1. UNCHANGED <<consumerIndex, taken>>
  BY DEF popper
<1>2. CASE producerIndex # local[p].index
  BY <1>1, <1>2 DEF Acquire, Unqueued, record
<1>3. CASE producerIndex = local[p].index
  <2>1. /\ pc[p] = from /\ pushed' = [pushed EXCEPT ![p] = @ + 1]
        /\ order' = Append(order, <<p, pushed[p] + 1>>)
        /\ answer' = [answer EXCEPT ![p] = "pushed"] /\ maxQueueCapacity' = maxQueueCapacity
    BY <1>3 DEF Acquire, Step
  <2>2. Types /\ Layout
    BY DEF Inv
  <2>3. PICK n \in Nat, k \in Nat, c \in Nat : n = Consumed /\ k = Count /\ c = maxQueueCapacity \div 2
    BY <2>2, Numbers
  <2>4. Count < Limit /\ <<p, pushed[p] + 1>> \in Elements
    BY <1>3, <2>1, GiftSays
  <2>5. /\ order \in Seq(Elements) /\ n \in 0..Len(order)
        /\ Queue = SubSeq(order, n + 1, Len(order)) /\ Len(Queue) = k - n
    BY <2>3, QueueSays
  <2>6. Len(Queue) < c
    <3>1. k < n + c
      BY <2>3, <2>4 DEF Limit
    <3>2. QED
      BY <2>3, <2>5, <3>1
  <2>7. Queue' = Append(Queue, <<p, pushed[p] + 1>>)
    <3>1. Len(order') = Len(order) + 1
      BY <2>1, <2>4, <2>5
    <3>2. Queue' = SubSeq(Append(order, <<p, pushed[p] + 1>>), n + 1, Len(order) + 1)
      BY <1>1, <2>1, <2>3, <3>1 DEF Queue, Consumed
    <3>3. QED
      BY <2>4, <2>5, <3>2, RestGrows
  <2>8. answer[p] = "pending"
    BY <2>1 DEF Inv, Calling, Asking, Trying
  <2>9. QED
    BY <1>1, <2>1, <2>3, <2>6, <2>7, <2>8 DEF Fifo!Push, Queue
<1>4. QED
  BY <1>2, <1>3

\* The consumer's index tells that the element is gone.
LEMMA AdvancePops == ASSUME Inv, Advance PROVE Fifo!Pop
<1>1. PICK n \in Nat : n = Consumed
  BY Numbers DEF Inv
<1>2. AdvanceBy(n)
  BY <1>1, AdvanceDoes
<1>3. n < Count /\ got = order[n + 1]
  BY <1>1, <1>2, AdvanceSays DEF AdvanceBy
<1>4. /\ order \in Seq(Elements) /\ n \in 0..Len(order)
      /\ Queue = SubSeq(order, n + 1, Len(order)) /\ (Queue = <<>> <=> n = Count) /\ Count \in Nat
  BY <1>1, QueueSays, Numbers DEF Inv
<1>5. Queue # <<>>
  BY <1>3, <1>4
<1>6. Head(Queue) = order[n + 1] /\ Tail(Queue) = SubSeq(order, n + 1 + 1, Len(order))
  BY <1>3, <1>4, RestPops DEF Count
<1>7. Queue' = SubSeq(order, n + 1 + 1, Len(order))
  BY <1>2 DEF Queue, Consumed, AdvanceBy
<1>8. taken' = got /\ UNCHANGED <<maxQueueCapacity, pushed, answer>>
  BY <1>2 DEF AdvanceBy
<1>9. QED
  BY <1>3, <1>5, <1>6, <1>7, <1>8 DEF Fifo!Pop, Queue

\* The consumer finds nothing when the queue is empty.
LEMMA EmptyFinds == ASSUME Inv, CheckEmpty PROVE Fifo!FindEmpty \/ Unqueued
<1>1. UNCHANGED <<maxQueueCapacity, order, consumerIndex, pushed, answer>>
  BY DEF CheckEmpty, record
<1>2. CASE consumerIndex = producerIndex
  <2>1. taken' = Nothing
    BY <1>2 DEF CheckEmpty
  <2>2. Queue = <<>>
    BY <1>2, EmptySays, QueueSays, Numbers DEF Inv
  <2>3. QED
    BY <1>1, <2>1, <2>2 DEF Fifo!FindEmpty, Queue
<1>3. CASE consumerIndex # producerIndex
  BY <1>1, <1>3 DEF CheckEmpty, Unqueued
<1>4. QED
  BY <1>2, <1>3

\* The other steps do not change the queue.
LEMMA OthersStutter ==
    ASSUME NEW p \in Producers,
           \/ ReadLimit(p) \/ ReadIndex(p) \/ ReadMask(p) \/ ReadBuffer(p) \/ CasLimit(p)
           \/ StoreElement(p) \/ ResizeBuffer(p) \/ ResizeMask(p) \/ ResizeElement(p)
           \/ ResizeLink(p) \/ ResizeSeen(p) \/ ResizeLimit(p) \/ ResizeIndex(p) \/ ResizeJump(p)
    PROVE  Unqueued
<1>1. CASE ReadLimit(p) \/ ReadIndex(p) \/ ReadMask(p) \/ ReadBuffer(p) \/ CasLimit(p)
  BY <1>1 DEF Unqueued, popper, record, ReadLimit, ReadIndex, ReadMask, ReadBuffer, CasLimit
<1>2. CASE StoreElement(p) \/ ResizeBuffer(p) \/ ResizeMask(p) \/ ResizeElement(p)
  BY <1>2 DEF Unqueued, popper, record, StoreElement, ResizeBuffer, ResizeMask, ResizeElement
<1>3. CASE ResizeLink(p) \/ ResizeSeen(p) \/ ResizeLimit(p) \/ ResizeIndex(p) \/ ResizeJump(p)
  BY <1>3 DEF Unqueued, popper, record, ResizeLink, ResizeSeen, ResizeLimit, ResizeIndex, ResizeJump
<1>4. QED
  BY <1>1, <1>2, <1>3

\* Every step is one of the queue's, or a stutter.
LEMMA FifoStep == Inv /\ [Next]_vars => [Fifo!Next]_(Fifo!queueVars)
<1> SUFFICES ASSUME Inv, [Next]_vars PROVE Fifo!Next \/ UNCHANGED Fifo!queueVars
  OBVIOUS
<1>1. ASSUME NEW p \in Producers, Call(p) \/ ProducerStep(p)
      PROVE  Fifo!Call(p) \/ Fifo!Push(p) \/ Fifo!Refuse(p) \/ Unqueued
  <2>1. CASE Call(p)
    BY <2>1, CallCalls
  <2>2. CASE PushSlowPath(p)
    BY <2>2, FullRefuses
  <2>3. CASE CasIndex(p)
    BY <2>3, AcquirePushes DEF CasIndex
  <2>4. CASE CasResize(p)
    BY <2>4, AcquirePushes DEF CasResize
  <2>5. QED
    BY <1>1, <2>1, <2>2, <2>3, <2>4, OthersStutter DEF ProducerStep
<1>2. CASE TryPop \/ Spin \/ Clear \/ NextBuffer \/ NewBufferTryPush
  <2>1. Unqueued
    BY <1>2 DEF Unqueued, record, TryPop, Spin, Clear, NextBuffer, NewBufferTryPush
  <2>2. QED
    BY <2>1, UnqueuedStutters
<1>3. CASE CheckEmpty
  BY <1>3, EmptyFinds, UnqueuedStutters DEF Fifo!Next
<1>4. CASE Advance
  BY <1>4, AdvancePops DEF Fifo!Next
<1>5. CASE UNCHANGED vars
  <2>1. Unqueued
    BY <1>5 DEF vars, popper, record, Unqueued
  <2>2. QED
    BY <2>1, UnqueuedStutters
<1>6. QED
  BY <1>1, <1>2, <1>3, <1>4, <1>5, UnqueuedStutters DEF Next, ConsumerStep, Fifo!Next

\* The write buffer is the bounded FIFO queue that module Drain builds upon, for every number
\* of producers and pushes, every initial and every maximum capacity.
THEOREM QueueIsFifo == Spec => FifoHolds
  BY FifoInit, FifoStep, AlwaysInv, PTL DEF Spec, FifoHolds, Fifo!Spec

================================================================================
