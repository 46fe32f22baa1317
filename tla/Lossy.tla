------------------------------------ MODULE Lossy ------------------------------------
(***************************************************************************)
(* The read buffer (internal/lossy): readers record the nodes they have    *)
(* met, and may give up; the maintenance drains what they have recorded.   *)
(* A striped buffer is an array of rings that is doubled when readers      *)
(* collide (striped.go), a ring is a bounded buffer with many producers    *)
(* and one consumer (ring.go).  One step per access to an atomic that      *)
(* others may change meanwhile.                                            *)
(***************************************************************************)
EXTENDS Integers, FiniteSets, Sequences, Functions

CONSTANTS
    Readers,
    MaxAdds,     \* bound: how many elements each reader adds
    MaxDrains,   \* bound: how often the buffer is drained
    RingSize,    \* bufferSize
    MaxLen,      \* of the array of rings
    Attempts,
    FirstIndexes, \* where the first ring may stand when the model begins
    None

Elements == UNION {{r} \X (1..MaxAdds[r]) : r \in Readers}

\* The array is doubled from one ring on: its greatest length is a power of two.
ASSUME LossyAssumption ==
    /\ {RingSize, MaxLen, Attempts} \subseteq Nat \ {0}
    /\ \E S \in SUBSET (1..MaxLen) :
         {1, MaxLen} \subseteq S /\ \A n \in S \ {MaxLen} : 2 * n \in S
    /\ MaxAdds \in [Readers -> Nat]
    /\ MaxDrains \in Nat
    /\ FirstIndexes \subseteq Nat
    /\ None \notin Readers \cup Elements

VARIABLES
    rings,      \* the rings allocated so far
    arrays,     \* the arrays of rings; 0 for a stripe without a ring
    striped,    \* the array that is published, or 0
    busy,
    pc, my,     \* the readers
    added,      \* how many elements each reader has offered
    drain,      \* the consumer: pc, array, stripe, ring, head, tail
    drains,
    \* history
    taken, refused,
    before      \* what was waiting when the drain began and has not been taken yet

shared == <<rings, arrays, striped, busy>>
vars   == <<shared, pc, my, added, drain, drains, taken, refused, before>>

NewRing(e) == [head |-> 0, tail |-> 1,
               buffer |-> [i \in 0..(RingSize - 1) |-> IF i = 0 THEN e ELSE None]]

NoCall == [idx |-> 0, array |-> 0, ring |-> 0, head |-> 0, tail |-> 0,
           attempt |-> 0, uncontended |-> TRUE, collide |-> TRUE]
NoDrain == [pc |-> "off", array |-> 0, stripe |-> 0, ring |-> 0, head |-> 0, tail |-> 0,
            stopped |-> FALSE]

LenOf(a)    == Cardinality(DOMAIN arrays[a])
Stripe(a, idx) == idx % LenOf(a)

\* Nothing recorded yet, or one ring that has been in use, its array doubled or not.
Init ==
    /\ \/ rings = <<>> /\ arrays = <<>> /\ striped = 0
       \/ /\ \E i \in FirstIndexes :
               rings = <<[head |-> i, tail |-> i,
                          buffer |-> [j \in 0..(RingSize - 1) |-> None]]>>
          /\ \E len \in {1, MaxLen} :
               arrays = <<[j \in 0..(len - 1) |-> IF j = 0 THEN 1 ELSE 0]>>
          /\ striped = 1
    /\ busy = None
    /\ pc = [r \in Readers |-> "off"]
    /\ my = [r \in Readers |-> NoCall]
    /\ added = [r \in Readers |-> 0]
    /\ drain = NoDrain
    /\ drains = 0
    /\ taken = {} /\ refused = {} /\ before = {}

Element(r)        == <<r, added[r]>>
Step(r, from, to) == pc[r] = from /\ pc' = [pc EXCEPT ![r] = to]
Keep(r, rec)      == my' = [my EXCEPT ![r] = rec]

\* Add returns; only Success means that the element is in a ring.
Return(r, from, success) ==
    /\ Step(r, from, "off")
    /\ Keep(r, NoCall)
    /\ refused' = IF success THEN refused ELSE refused \cup {Element(r)}

\* The next turn of the loop of expandOrRetry, if there is one. A new token for the next
\* turn is a random number.
NextAttempt(r, from, rehash, rec) ==
    IF rec.attempt + 1 = Attempts
    THEN Return(r, from, FALSE)
    ELSE /\ Step(r, from, "attempt")
         /\ \E i \in IF rehash THEN 0..(MaxLen - 1) ELSE {rec.idx} :
              Keep(r, [rec EXCEPT !.attempt = @ + 1, !.idx = i])
         /\ UNCHANGED refused

--------------------------------------------------------------------------------
(* Add, and add of a ring *)

Add(r) ==
    /\ pc[r] = "off" /\ added[r] < MaxAdds[r]
    /\ added' = [added EXCEPT ![r] = @ + 1]
    /\ \E i \in 0..(MaxLen - 1) : Keep(r, [NoCall EXCEPT !.idx = i, !.array = striped])
    /\ Step(r, "off", IF striped = 0 THEN "attempt" ELSE "fast")
    /\ UNCHANGED <<shared, refused>>

LoadFast(r) ==
    /\ pc[r] = "fast"
    /\ LET ring == arrays[my[r].array][Stripe(my[r].array, my[r].idx)]
       IN  IF ring = 0 THEN Step(r, "fast", "attempt") /\ UNCHANGED my
           ELSE /\ Step(r, "fast", "head")
                /\ Keep(r, [my[r] EXCEPT !.ring = ring, !.uncontended = FALSE, !.attempt = -1])
    /\ UNCHANGED <<shared, added, refused>>

LoadHead(r) ==
    /\ Step(r, "head", "tail")
    /\ Keep(r, [my[r] EXCEPT !.head = rings[my[r].ring].head])
    /\ UNCHANGED <<shared, added, refused>>

\* Mutant: one slot too many.
LoadTailOverfull(r) ==
    /\ pc[r] = "tail"
    /\ LET tail == rings[my[r].ring].tail
       IN  IF tail - my[r].head > RingSize
           THEN Return(r, "tail", FALSE)
           ELSE Step(r, "tail", "cas") /\ Keep(r, [my[r] EXCEPT !.tail = tail]) /\ UNCHANGED refused
    /\ UNCHANGED <<shared, added>>

LoadTail(r) ==
    /\ pc[r] = "tail"
    /\ LET tail == rings[my[r].ring].tail
       IN  IF tail - my[r].head >= RingSize
           THEN Return(r, "tail", FALSE)
           ELSE Step(r, "tail", "cas") /\ Keep(r, [my[r] EXCEPT !.tail = tail]) /\ UNCHANGED refused
    /\ UNCHANGED <<shared, added>>

CasTail(r) ==
    /\ pc[r] = "cas"
    /\ rings[my[r].ring].tail = my[r].tail
    /\ rings' = [rings EXCEPT ![my[r].ring].tail = @ + 1]
    /\ Step(r, "cas", "store")
    /\ UNCHANGED <<arrays, striped, busy, my, added, refused>>

\* The CAS of the fast path (attempt -1) fails: on to expandOrRetry.
CasFails(r) ==
    /\ pc[r] = "cas"
    /\ rings[my[r].ring].tail # my[r].tail
    /\ IF my[r].attempt = -1 THEN NextAttempt(r, "cas", FALSE, my[r])
       ELSE Step(r, "cas", "collision") /\ UNCHANGED <<my, refused>>
    /\ UNCHANGED <<shared, added>>

\* Mutant: the slot is taken from the tail there is now.
StoreAtTail(r) ==
    /\ pc[r] = "store"
    /\ rings' = [rings EXCEPT ![my[r].ring].buffer[(rings[my[r].ring].tail - 1) % RingSize] = Element(r)]
    /\ Return(r, "store", TRUE)
    /\ UNCHANGED <<arrays, striped, busy, added>>

StoreElement(r) ==
    /\ pc[r] = "store"
    /\ rings' = [rings EXCEPT ![my[r].ring].buffer[my[r].tail % RingSize] = Element(r)]
    /\ Return(r, "store", TRUE)
    /\ UNCHANGED <<arrays, striped, busy, added>>

--------------------------------------------------------------------------------
(* expandOrRetry *)

LoadStriped(r) ==
    /\ Step(r, "attempt", IF striped = 0 THEN "initialise" ELSE "stripe")
    /\ Keep(r, [my[r] EXCEPT !.array = striped])
    /\ UNCHANGED <<shared, added, refused>>

LoadStripe(r) ==
    /\ pc[r] = "stripe"
    /\ LET ring == arrays[my[r].array][Stripe(my[r].array, my[r].idx)]
       IN  \/ /\ ring = 0
              /\ Step(r, "stripe", "attach") /\ UNCHANGED <<my, refused>>
           \/ /\ ring # 0 /\ ~my[r].uncontended
              /\ NextAttempt(r, "stripe", TRUE, [my[r] EXCEPT !.uncontended = TRUE])
           \/ /\ ring # 0 /\ my[r].uncontended
              /\ Step(r, "stripe", "head")
              /\ Keep(r, [my[r] EXCEPT !.ring = ring])
              /\ UNCHANGED refused
    /\ UNCHANGED <<shared, added>>

\* After a collision: double the array, unless it is as long as it may be, or stale.
Collision(r) ==
    /\ pc[r] = "collision"
    /\ \/ /\ LenOf(my[r].array) >= MaxLen \/ striped # my[r].array
          /\ NextAttempt(r, "collision", TRUE, [my[r] EXCEPT !.collide = FALSE])
       \/ /\ LenOf(my[r].array) < MaxLen /\ striped = my[r].array /\ ~my[r].collide
          /\ NextAttempt(r, "collision", TRUE, [my[r] EXCEPT !.collide = TRUE])
       \/ /\ LenOf(my[r].array) < MaxLen /\ striped = my[r].array /\ my[r].collide
          /\ Step(r, "collision", "double") /\ UNCHANGED <<my, refused>>
    /\ UNCHANGED <<shared, added>>

Locked(from) ==
    IF from = "attach" THEN "attachLocked"
    ELSE IF from = "double" THEN "doubleLocked" ELSE "initialiseLocked"

\* busy is taken, in order to attach, double or initialise. An initialisation has looked
\* at the array before that: it may go on, or not, when there is one by now.
TakeBusy(r, from) ==
    /\ from \in {"attach", "double", "initialise"}
    /\ busy = None
    /\ busy' = r
    /\ Step(r, from, Locked(from))
    /\ UNCHANGED <<rings, arrays, striped, my, added, refused>>

TakeBusyFails(r, from) ==
    /\ from \in {"attach", "double", "initialise"}
    /\ busy # None \/ (from = "initialise" /\ striped # 0)
    /\ NextAttempt(r, from, (from # "initialise"),
                   IF from = "attach" THEN [my[r] EXCEPT !.collide = FALSE] ELSE my[r])
    /\ UNCHANGED <<shared, added>>

\* Release busy and return, or go on.
Release(r, from, done) ==
    Step(r, from, IF done THEN "releaseAndReturn" ELSE "releaseAndRetry")

\* Mutant: the stripe is not looked at again.
AttachAnyway(r) ==
    LET j == Stripe(striped, my[r].idx)
    IN  /\ pc[r] = "attachLocked"
        /\ rings' = Append(rings, NewRing(Element(r)))
        /\ arrays' = [arrays EXCEPT ![striped][j] = Len(rings')]
        /\ Release(r, "attachLocked", TRUE)
        /\ UNCHANGED <<striped, busy, my, added, refused>>

Attach(r) ==
    LET j == Stripe(striped, my[r].idx)
    IN  /\ pc[r] = "attachLocked"
        /\ IF arrays[striped][j] = 0
           THEN /\ rings' = Append(rings, NewRing(Element(r)))
                /\ arrays' = [arrays EXCEPT ![striped][j] = Len(rings')]
                /\ Release(r, "attachLocked", TRUE)
           ELSE Release(r, "attachLocked", FALSE) /\ UNCHANGED <<rings, arrays>>
        /\ UNCHANGED <<striped, busy, my, added, refused>>

Double(r) ==
    /\ pc[r] = "doubleLocked"
    /\ IF striped = my[r].array
       THEN /\ arrays' = Append(arrays, [j \in 0..(2 * LenOf(striped) - 1) |->
                                            IF j < LenOf(striped) THEN arrays[striped][j] ELSE 0])
            /\ striped' = Len(arrays')
       ELSE UNCHANGED <<arrays, striped>>
    /\ Release(r, "doubleLocked", FALSE)
    /\ Keep(r, [my[r] EXCEPT !.collide = FALSE])
    /\ UNCHANGED <<rings, busy, added, refused>>

Initialise(r) ==
    /\ pc[r] = "initialiseLocked"
    /\ IF striped = my[r].array
       THEN /\ rings' = Append(rings, NewRing(Element(r)))
            /\ arrays' = Append(arrays, [j \in 0..0 |-> Len(rings')])
            /\ striped' = Len(arrays')
            /\ Release(r, "initialiseLocked", TRUE)
       ELSE Release(r, "initialiseLocked", FALSE) /\ UNCHANGED <<rings, arrays, striped>>
    /\ UNCHANGED <<busy, my, added, refused>>

ReleaseBusy(r) ==
    /\ busy' = None
    /\ \/ Return(r, "releaseAndReturn", TRUE)
       \/ pc[r] = "releaseAndRetry" /\ NextAttempt(r, "releaseAndRetry", FALSE, my[r])
    /\ UNCHANGED <<rings, arrays, striped, added>>

--------------------------------------------------------------------------------
(* DrainTo: one goroutine at a time, the one that holds the eviction mutex *)

\* The elements in the rings of the published array.
Waiting ==
    IF striped = 0 THEN {}
    ELSE (UNION {Range(rings[n].buffer) : n \in Range(arrays[striped]) \ {0}}) \ {None}

Goto(rec) == drain' = rec /\ UNCHANGED <<pc, my, added, refused, drains>>

DrainTo ==
    /\ drain.pc = "off" /\ drains < MaxDrains /\ striped # 0
    /\ drain' = [NoDrain EXCEPT !.pc = "stripe", !.array = striped]
    /\ drains' = drains + 1
    /\ before' = Waiting
    /\ UNCHANGED <<shared, pc, my, added, taken, refused>>

DrainStripe ==
    /\ drain.pc = "stripe" /\ drain.stripe < LenOf(drain.array)
    /\ LET n == arrays[drain.array][drain.stripe]
       IN  Goto(IF n = 0 THEN [drain EXCEPT !.stripe = @ + 1]
                ELSE [drain EXCEPT !.pc = "tail", !.ring = n, !.head = rings[n].head])
    /\ UNCHANGED <<shared, taken, before>>

DrainLoadTail ==
    /\ drain.pc = "tail"
    /\ LET tail == rings[drain.ring].tail
       IN  Goto(IF tail = drain.head THEN [drain EXCEPT !.pc = "stripe", !.stripe = @ + 1]
                ELSE [drain EXCEPT !.pc = "slot", !.tail = tail])
    /\ UNCHANGED <<shared, taken, before>>

DrainSlot ==
    LET i == drain.head % RingSize
        e == rings[drain.ring].buffer[i]
    IN  /\ drain.pc = "slot" /\ drain.head # drain.tail
        /\ IF e = None
           THEN /\ Goto([drain EXCEPT !.pc = "head", !.stopped = TRUE])
                /\ UNCHANGED <<rings, taken, before>>
           ELSE /\ taken' = taken \cup {e}
                /\ before' = before \ {e}
                /\ rings' = [rings EXCEPT ![drain.ring].buffer[i] = None]
                /\ Goto([drain EXCEPT !.head = @ + 1])
        /\ UNCHANGED <<arrays, striped, busy>>

\* Mutant: the head goes to the tail the drain has started from.
StoreTailAsHead ==
    /\ drain.pc = "head" \/ (drain.pc = "slot" /\ drain.head = drain.tail)
    /\ rings' = [rings EXCEPT ![drain.ring].head = drain.tail]
    /\ Goto([drain EXCEPT !.pc = "stripe", !.stripe = @ + 1])
    /\ UNCHANGED <<arrays, striped, busy, taken, before>>

\* The loop ends at the tail, or at a slot that is not published.
StoreHead ==
    /\ drain.pc = "head" \/ (drain.pc = "slot" /\ drain.head = drain.tail)
    /\ rings' = [rings EXCEPT ![drain.ring].head = drain.head]
    /\ Goto([drain EXCEPT !.pc = "stripe", !.stripe = @ + 1])
    /\ UNCHANGED <<arrays, striped, busy, taken, before>>

DrainEnd ==
    /\ drain.pc = "stripe" /\ drain.stripe = LenOf(drain.array)
    /\ Goto(NoDrain)
    /\ before' = {}
    /\ UNCHANGED <<shared, taken>>

ReaderStep(r) ==
    \/ Add(r) \/ LoadFast(r) \/ LoadHead(r) \/ LoadTail(r) \/ CasTail(r) \/ CasFails(r)
    \/ StoreElement(r) \/ LoadStriped(r) \/ LoadStripe(r) \/ Collision(r)
    \/ (\E from \in {"attach", "double", "initialise"} : TakeBusy(r, from) \/ TakeBusyFails(r, from))
    \/ Attach(r) \/ Double(r) \/ Initialise(r) \/ ReleaseBusy(r)

Drain == DrainTo \/ DrainStripe \/ DrainLoadTail \/ DrainSlot \/ StoreHead \/ DrainEnd

Next ==
    \/ (\E r \in Readers : ReaderStep(r)) /\ UNCHANGED <<drain, drains, taken, before>>
    \/ Drain

Spec == Init /\ [][Next]_vars

--------------------------------------------------------------------------------
(* Properties *)

\* The variables stay in their ranges; a ring never has more slots reserved than it has.
TypeOK ==
    /\ \A n \in DOMAIN rings :
         /\ rings[n].head <= rings[n].tail /\ rings[n].tail <= rings[n].head + RingSize
         /\ rings[n].buffer \in [0..(RingSize - 1) -> Elements \cup {None}]
    /\ \A a \in DOMAIN arrays : LenOf(a) <= MaxLen /\ Range(arrays[a]) \subseteq 0..Len(rings)
    /\ striped \in 0..Len(arrays)
    /\ taken \subseteq Elements /\ refused \subseteq Elements

\* A reader that has reserved a slot finds it empty when it fills it, however long it
\* has slept in between: the drain stops in front of it, nobody else can reserve it.
SlotsReserved ==
    \A r \in Readers :
        pc[r] = "store" =>
            /\ rings[my[r].ring].buffer[my[r].tail % RingSize] = None
            /\ rings[my[r].ring].head <= my[r].tail
            /\ \A q \in Readers \ {r} :
                 pc[q] = "store" /\ my[q].ring = my[r].ring => my[q].tail # my[r].tail

\* Whoever changes the array or attaches a ring does so alone: doubling copies every ring
\* of the published array, and nobody attaches one to the old array meanwhile.
BusyExclusive ==
    /\ \A r \in Readers :
         pc[r] \in {"attachLocked", "doubleLocked", "initialiseLocked",
                    "releaseAndReturn", "releaseAndRetry"} => busy = r
    /\ striped # 0 =>
         \A n \in DOMAIN rings : n \in Range(arrays[striped])

\* The read buffer implements LossyBag: what is accepted stays in a ring the drain will
\* visit, also when the array is doubled, until it is taken, once.
Bag == INSTANCE LossyBag WITH waiting <- Waiting
ImplementsBag == Bag!Spec

\* A drain that met no reserved slot has taken all that was waiting when it began.
DrainIsComplete ==
    drain.pc = "stripe" /\ drain.stripe = LenOf(drain.array) /\ ~drain.stopped => before = {}

\* Together: rings and arrays are changed by one at a time.
RingsSound == TypeOK /\ SlotsReserved /\ BusyExclusive

=============================================================================
