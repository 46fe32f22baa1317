------------------------------------- MODULE MPSC -------------------------------------
(***************************************************************************)
(* The write buffer (internal/deque/queue/mpsc.go): a queue of many        *)
(* producers and one consumer in a chain of arrays, each twice as long as  *)
(* the one before.  Indices count in steps of two; an odd producerIndex    *)
(* means that a producer is installing the next array.  An agent takes one *)
(* step per access to an atomic.  The consumer is whoever holds the        *)
(* eviction mutex (module Drain), one at a time.                           *)
(***************************************************************************)
EXTENDS Naturals, Sequences, FiniteSets, SequencesExt, FiniteSetsExt

CONSTANTS
    Producers,
    MaxPushes,        \* bound: pushes of all the producers together
    InitialCapacity,  \* of NewMPSC, rounded up to powers of two
    MaxCapacities,
    Nothing           \* the nil pointer

\* What an array slot holds besides elements: the jump mark, the next array.
Jump    == <<"jump">>
Link(b) == <<"array", b>>

\* Size m is size s, doubled any number of times: what matters of the powers of two.
Doubled(s, m) ==
    \E S \in SUBSET (1..m) : {s, m} \subseteq S /\ \A n \in S \ {m} : 2 * n \in S

ASSUME MPSCAssumption ==
    /\ MaxPushes \in Nat
    /\ InitialCapacity \in Nat \ {0, 1}
    /\ MaxCapacities \subseteq Nat /\ \A m \in MaxCapacities : Doubled(InitialCapacity, m)
    /\ "array" \notin Producers
    /\ Nothing \notin {Jump} \cup ((Producers \cup {"array"}) \X Nat)

VARIABLES
    producerIndex, producerLimit, producerMask, producerBuffer,
    consumerIndex, consumerMask, consumerBuffer,
    maxQueueCapacity,
    arrays,      \* the arrays allocated so far; a slot is an element, a mark or Nothing
    pc,          \* where each producer is
    local,       \* the local variables of its TryPush
    consumer,    \* where the consumer is
    pushed,      \* the pushes each producer has got an index for
    calls,       \* the pushes begun, by whomever
    order,       \* history: the elements in the order of their indices
    spans,       \* history: of each array, its size and how many elements came before it
    answer,      \* what each producer's last call answers
    got,         \* the element TryPop has read
    taken        \* what the consumer's last TryPop has returned

indices == <<producerIndex, producerLimit, producerMask, producerBuffer>>
popper  == <<consumerIndex, consumerMask, consumerBuffer, consumer, got, taken>>
record  == <<pushed, order, spans, maxQueueCapacity>>
vars == <<indices, popper, arrays, pc, local, record, calls, answer>>

\* (index & mask) >> 1, for a mask that is twice a power of two less two.
Offset(index, mask) == (index \div 2) % (mask \div 2 + 1)
NextArrayOffset(mask) == (mask + 2) \div 2

NewBuffer(length) == [i \in 0..(length - 1) |-> Nothing]

\* Mutant: the slot of the link is doubled too.
NextLengthWithLink(mask) == 2 * (NextArrayOffset(mask) + 1)

\* The length, and the mask, of the array after one with this mask.
NextLength(mask) == 2 * NextArrayOffset(mask) + 1
NextMask(mask)   == 2 * (NextLength(mask) - 2)

\* Mutant: the present array is taken for the last one.
CapacityOfLastArray(mask) == maxQueueCapacity

CurrentBufferCapacity(mask) == IF mask + 2 = maxQueueCapacity THEN maxQueueCapacity ELSE mask

NoLocal == [index |-> 0, limit |-> 0, mask |-> 0, buffer |-> 0, seen |-> 0]

Init ==
    /\ producerIndex = 0
    /\ producerLimit = 2 * (InitialCapacity - 1)
    /\ producerMask = 2 * (InitialCapacity - 1)
    /\ producerBuffer = 1
    /\ consumerIndex = 0
    /\ consumerMask = 2 * (InitialCapacity - 1)
    /\ consumerBuffer = 1
    /\ \E m \in MaxCapacities : maxQueueCapacity = 2 * m
    /\ arrays = << NewBuffer(InitialCapacity + 1) >>
    /\ pc = [p \in Producers |-> "off"]
    /\ local = [p \in Producers |-> NoLocal]
    /\ consumer = "off"
    /\ pushed = [p \in Producers |-> 0]
    /\ calls = 0
    /\ order = <<>>
    /\ spans = << [from |-> 0, size |-> InitialCapacity] >>
    /\ answer = [p \in Producers |-> "none"]
    /\ got = Nothing
    /\ taken = Nothing

--------------------------------------------------------------------------------
(* TryPush *)

Step(p, from, to) == pc[p] = from /\ pc' = [pc EXCEPT ![p] = to]
Return(p, from)   == Step(p, from, "off") /\ local' = [local EXCEPT ![p] = NoLocal]

Call(p) ==
    /\ Step(p, "off", "readLimit")
    /\ calls < MaxPushes
    /\ calls' = calls + 1
    /\ answer' = [answer EXCEPT ![p] = "pending"]
    /\ UNCHANGED <<indices, popper, arrays, local, record>>

ReadLimit(p) ==
    /\ Step(p, "readLimit", "readIndex")
    /\ local' = [local EXCEPT ![p].limit = producerLimit]
    /\ UNCHANGED <<indices, popper, arrays, record, calls, answer>>

\* The lower bit tells of a resize: spin until it is cleared.
ReadIndex(p) ==
    /\ Step(p, "readIndex", IF producerIndex % 2 = 1 THEN "readLimit" ELSE "readMask")
    /\ local' = [local EXCEPT ![p].index = producerIndex]
    /\ UNCHANGED <<indices, popper, arrays, record, calls, answer>>

ReadMask(p) ==
    /\ Step(p, "readMask", "readBuffer")
    /\ local' = [local EXCEPT ![p].mask = producerMask]
    /\ UNCHANGED <<indices, popper, arrays, record, calls, answer>>

ReadBuffer(p) ==
    /\ Step(p, "readBuffer", IF local[p].limit <= local[p].index THEN "slowPath" ELSE "casIndex")
    /\ local' = [local EXCEPT ![p].buffer = producerBuffer]
    /\ UNCHANGED <<indices, popper, arrays, record, calls, answer>>

\* pushSlowPath up to its first compare-and-swap: there is room, the queue is
\* full, or the array is.
PushSlowPath(p) ==
    LET l    == local[p]
        room == consumerIndex + CurrentBufferCapacity(l.mask) > l.index
        full == maxQueueCapacity - (l.index - consumerIndex) = 0
    IN  /\ \/ /\ room
              /\ Step(p, "slowPath", "casLimit")
              /\ local' = [local EXCEPT ![p].seen = consumerIndex]
              /\ UNCHANGED answer
           \/ /\ ~room /\ full
              /\ Return(p, "slowPath")
              /\ answer' = [answer EXCEPT ![p] = "full"]
           \/ /\ ~room /\ ~full
              /\ Step(p, "slowPath", "casResize")
              /\ UNCHANGED <<local, answer>>
        /\ UNCHANGED <<indices, popper, arrays, record, calls>>

CasLimit(p) ==
    /\ IF producerLimit = local[p].limit
       THEN /\ producerLimit' = local[p].seen + CurrentBufferCapacity(local[p].mask)
            /\ Step(p, "casLimit", "casIndex")
       ELSE /\ UNCHANGED producerLimit
            /\ Step(p, "casLimit", "readLimit")
    /\ UNCHANGED <<producerIndex, producerMask, producerBuffer, popper, arrays, local,
                   record, calls, answer>>

\* The compare-and-swap that gives p an index; an odd one locks the resize.
Acquire(p, from, increment, to) ==
    IF producerIndex = local[p].index
    THEN /\ producerIndex' = producerIndex + increment
         /\ pushed' = [pushed EXCEPT ![p] = @ + 1]
         /\ order' = Append(order, <<p, pushed[p] + 1>>)
         /\ answer' = [answer EXCEPT ![p] = "pushed"]
         /\ UNCHANGED <<spans, maxQueueCapacity>>
         /\ Step(p, from, to)
    ELSE /\ Step(p, from, "readLimit")
         /\ UNCHANGED <<producerIndex, record, answer>>

CasIndex(p) ==
    /\ Acquire(p, "casIndex", 2, "store")
    /\ UNCHANGED <<producerLimit, producerMask, producerBuffer, popper, arrays, local, calls>>

CasResize(p) ==
    /\ Acquire(p, "casResize", 1, "resizeBuffer")
    /\ UNCHANGED <<producerLimit, producerMask, producerBuffer, popper, arrays, local, calls>>

\* Mutant: the buffer and the mask are read again, after the compare-and-swap.
StoreInPresentArray(p) ==
    /\ Return(p, "store")
    /\ arrays' = [arrays EXCEPT ![producerBuffer][Offset(local[p].index, producerMask)] =
                                  <<p, pushed[p]>>]
    /\ UNCHANGED <<indices, popper, record, calls, answer>>

StoreElement(p) ==
    /\ Return(p, "store")
    /\ arrays' = [arrays EXCEPT ![local[p].buffer][Offset(local[p].index, local[p].mask)] =
                                  <<p, pushed[p]>>]
    /\ UNCHANGED <<indices, popper, record, calls, answer>>

--------------------------------------------------------------------------------
(* resize: p has made producerIndex odd *)

ResizeBuffer(p) ==
    /\ Step(p, "resizeBuffer", "resizeMask")
    /\ arrays' = Append(arrays, NewBuffer(NextLength(local[p].mask)))
    /\ producerBuffer' = Len(arrays')
    /\ spans' = Append(spans, [from |-> local[p].index \div 2, size |-> NextLength(local[p].mask) - 1])
    /\ UNCHANGED <<producerIndex, producerLimit, producerMask, popper, local, pushed, order,
                   maxQueueCapacity, calls, answer>>

ResizeMask(p) ==
    /\ Step(p, "resizeMask", "resizeElement")
    /\ producerMask' = NextMask(local[p].mask)
    /\ UNCHANGED <<producerIndex, producerLimit, producerBuffer, popper, arrays, local,
                   record, calls, answer>>

ResizeElement(p) ==
    /\ Step(p, "resizeElement", "resizeLink")
    /\ arrays' = [arrays EXCEPT
         ![producerBuffer][Offset(local[p].index, producerMask)] = <<p, pushed[p]>>]
    /\ UNCHANGED <<indices, popper, local, record, calls, answer>>

\* Mutant: the link is put where the next element of the old array would go.
LinkInNextSlot(p) ==
    /\ Step(p, "resizeLink", "resizeSeen")
    /\ arrays' = [arrays EXCEPT
         ![local[p].buffer][Offset(local[p].index + 2, local[p].mask)] = Link(producerBuffer)]
    /\ UNCHANGED <<indices, popper, local, record, calls, answer>>

ResizeLink(p) ==
    /\ Step(p, "resizeLink", "resizeSeen")
    /\ arrays' = [arrays EXCEPT
         ![local[p].buffer][NextArrayOffset(local[p].mask)] = Link(producerBuffer)]
    /\ UNCHANGED <<indices, popper, local, record, calls, answer>>

Available(p) == maxQueueCapacity - (local[p].index - local[p].seen)

\* The code panics when nothing is available.
ResizeSeen(p) ==
    /\ LET available == maxQueueCapacity - (local[p].index - consumerIndex)
       IN  Step(p, "resizeSeen", IF available = 0 THEN "panic" ELSE "resizeLimit")
    /\ local' = [local EXCEPT ![p].seen = consumerIndex]
    /\ UNCHANGED <<indices, popper, arrays, record, calls, answer>>

ResizeLimit(p) ==
    /\ Step(p, "resizeLimit", "resizeIndex")
    /\ producerLimit' = local[p].index + Min({producerMask, Available(p)})
    /\ UNCHANGED <<producerIndex, producerMask, producerBuffer, popper, arrays, local,
                   record, calls, answer>>

ResizeIndex(p) ==
    /\ Step(p, "resizeIndex", "resizeJump")
    /\ producerIndex' = local[p].index + 2
    /\ UNCHANGED <<producerLimit, producerMask, producerBuffer, popper, arrays, local,
                   record, calls, answer>>

ResizeJump(p) ==
    /\ Return(p, "resizeJump")
    /\ arrays' = [arrays EXCEPT ![local[p].buffer][Offset(local[p].index, local[p].mask)] = Jump]
    /\ UNCHANGED <<indices, popper, record, calls, answer>>

--------------------------------------------------------------------------------
(* TryPop *)

Slot == arrays[consumerBuffer][Offset(consumerIndex, consumerMask)]

\* What the consumer does with what it has loaded from the slot.
Loaded(absent) == CASE Slot = Jump    -> "nextBuffer"
                    [] Slot = Nothing -> absent
                    [] OTHER          -> "clear"

TryPop ==
    /\ consumer = "off"
    /\ consumer' = Loaded("empty")
    /\ UNCHANGED <<indices, consumerIndex, consumerMask, consumerBuffer, got, taken, arrays,
                   pc, local, record, calls, answer>>

CheckEmpty ==
    /\ consumer = "empty"
    /\ IF consumerIndex = producerIndex
       THEN consumer' = "off" /\ taken' = Nothing
       ELSE consumer' = "spin" /\ UNCHANGED taken
    /\ UNCHANGED <<indices, consumerIndex, consumerMask, consumerBuffer, got, arrays, pc,
                   local, record, calls, answer>>

\* The index of the slot has been given out: wait until the slot is filled.
Spin ==
    /\ consumer = "spin"
    /\ consumer' = Loaded("spin")
    /\ UNCHANGED <<indices, consumerIndex, consumerMask, consumerBuffer, got, taken, arrays,
                   pc, local, record, calls, answer>>

\* Mutant: the slot keeps its element.
ClearForgotten ==
    /\ consumer = "clear"
    /\ got' = Slot
    /\ consumer' = "advance"
    /\ UNCHANGED <<indices, consumerIndex, consumerMask, consumerBuffer, taken, arrays, pc,
                   local, record, calls, answer>>

Clear ==
    /\ consumer = "clear"
    /\ got' = Slot
    /\ arrays' = [arrays EXCEPT ![consumerBuffer][Offset(consumerIndex, consumerMask)] = Nothing]
    /\ consumer' = "advance"
    /\ UNCHANGED <<indices, consumerIndex, consumerMask, consumerBuffer, taken, pc, local,
                   record, calls, answer>>

Advance ==
    /\ consumer = "advance"
    /\ consumerIndex' = consumerIndex + 2
    /\ taken' = got
    /\ got' = Nothing
    /\ consumer' = "off"
    /\ UNCHANGED <<indices, consumerMask, consumerBuffer, arrays, pc, local, record, calls,
                   answer>>

\* getNextBuffer and newBufferAndOffset; the code panics when there is no link.
NextBuffer ==
    /\ consumer = "nextBuffer"
    /\ LET link == arrays[consumerBuffer][NextArrayOffset(consumerMask)]
       IN  IF link = Nothing
           THEN consumer' = "panic" /\ UNCHANGED <<consumerMask, consumerBuffer, arrays>>
           ELSE /\ consumerBuffer' = link[2]
                /\ consumerMask' = NextMask(consumerMask)
                /\ arrays' = [arrays EXCEPT
                     ![consumerBuffer][NextArrayOffset(consumerMask)] = Nothing]
                /\ consumer' = "newBuffer"
    /\ UNCHANGED <<indices, consumerIndex, got, taken, pc, local, record, calls, answer>>

\* newBufferTryPush; the code panics when the new array is empty.
NewBufferTryPush ==
    /\ consumer = "newBuffer"
    /\ consumer' = IF Slot = Nothing THEN "panic" ELSE "clear"
    /\ UNCHANGED <<indices, consumerIndex, consumerMask, consumerBuffer, got, taken, arrays,
                   pc, local, record, calls, answer>>

--------------------------------------------------------------------------------

ProducerStep(p) ==
    \/ ReadLimit(p) \/ ReadIndex(p) \/ ReadMask(p) \/ ReadBuffer(p)
    \/ PushSlowPath(p) \/ CasLimit(p) \/ CasIndex(p) \/ CasResize(p)
    \/ StoreElement(p) \/ ResizeBuffer(p) \/ ResizeMask(p) \/ ResizeElement(p)
    \/ ResizeLink(p) \/ ResizeSeen(p) \/ ResizeLimit(p) \/ ResizeIndex(p) \/ ResizeJump(p)

ConsumerStep ==
    CheckEmpty \/ Spin \/ Clear \/ Advance \/ NextBuffer \/ NewBufferTryPush

Next ==
    \/ \E p \in Producers : Call(p) \/ ProducerStep(p)
    \/ TryPop
    \/ ConsumerStep

Spec == Init /\ [][Next]_vars

--------------------------------------------------------------------------------
(* Properties *)

Elements == Producers \X (1..MaxPushes)
Contents == Elements \cup {Nothing, Jump} \cup {Link(b) : b \in 1..Len(arrays)}

\* The variables stay in their ranges: in particular each array has room for twice the
\* elements of the one before, and for its link, and none for more than the maximum capacity.
TypeOK ==
    /\ producerIndex \in {2 * Len(order), 2 * Len(order) - 1}
    /\ consumerIndex \in {2 * i : i \in 0..Len(order)}
    /\ {producerLimit, producerMask, consumerMask} \subseteq Nat
    /\ consumerBuffer <= producerBuffer /\ producerBuffer \in 1..Len(arrays)
    /\ Len(spans) = Len(arrays) /\ spans[1].size = InitialCapacity
    /\ \A b \in 1..Len(arrays) :
         /\ DOMAIN arrays[b] = 0..spans[b].size
         /\ b > 1 => spans[b].size = 2 * spans[b - 1].size
         /\ spans[b].size <= maxQueueCapacity \div 2
         /\ \A i \in DOMAIN arrays[b] : arrays[b][i] \in Contents
    /\ answer \in [Producers -> {"none", "pending", "pushed", "full"}]
    /\ ToSet(order) \subseteq Elements
    /\ got \in Elements \cup {Nothing} /\ taken \in Elements \cup {Nothing}

\* The queue is the bounded FIFO queue that the scheduler relies on: elements come
\* out once each, in the order of their indices, across all the arrays; a push is
\* refused only when the queue is full, and a pop finds nothing only when it is empty.
Fifo == INSTANCE WriteQueue WITH
    capacity <- maxQueueCapacity \div 2,
    queue    <- SubSeq(order, consumerIndex \div 2 + 1, Len(order))

FifoHolds == Fifo!Spec

\* The code's own assertions hold: the consumer that follows a jump finds the next
\* array linked and not empty, and a producer that resizes finds room.
NoPanic == consumer # "panic" /\ \A p \in Producers : pc[p] # "panic"

\* "We never set the limit beyond the bounds of a buffer": whoever gets an index,
\* from a limit and an array that others may be replacing meanwhile, finds its slot
\* free; no element, jump mark or link of the past is overwritten.
NothingOverwritten ==
    \A p \in Producers :
        /\ pc[p] = "store" =>
             arrays[local[p].buffer][Offset(local[p].index, local[p].mask)] = Nothing
        /\ pc[p] = "resizeElement" =>
             arrays[producerBuffer][Offset(local[p].index, producerMask)] = Nothing
        /\ pc[p] = "resizeJump" =>
             arrays[local[p].buffer][Offset(local[p].index, local[p].mask)] = Nothing

\* A consumer that spins on an empty slot is waiting for a producer that is still
\* on its way to that slot, so TryPop returns if producers keep running: the slot's
\* index was given out together with the array the consumer looks at.
SpinAttended ==
    consumer = "spin" /\ Slot = Nothing =>
        \E p \in Producers :
            /\ pc[p] \in {"store", "resizeBuffer", "resizeMask", "resizeElement", "resizeLink",
                          "resizeSeen", "resizeLimit", "resizeIndex", "resizeJump"}
            /\ local[p].index = consumerIndex
            /\ local[p].buffer = consumerBuffer

\* Together: the producers and the consumer agree about arrays and indices.
QueueSound == TypeOK /\ NoPanic /\ NothingOverwritten

=============================================================================
