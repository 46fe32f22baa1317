------------------------------ MODULE LossyProofs ------------------------------
(***************************************************************************)
(* Proofs about Lossy, for any number of readers and elements, any size of *)
(* the rings and any length of their array: the rings are sound, the read  *)
(* buffer is the bag LossyBag, and a drain that was not stopped is         *)
(* complete.                                                               *)
(*                                                                         *)
(* The inductive invariant says where an element may be: a full slot lies  *)
(* between the head (the one the drain has got to, while it is in that     *)
(* ring) and the tail of its ring, a slot reserved there is empty, and an  *)
(* element is in at most one slot, and in none as long as its reader has   *)
(* not placed it or after it has been taken or refused.                    *)
(***************************************************************************)
EXTENDS Lossy, SequenceTheorems, FiniteSetTheorems, TLAPS

Slots == 0..(RingSize - 1)

Ring == [head : Nat, tail : Nat, buffer : [Slots -> Elements \cup {None}]]

\* The lengths the array of rings takes: doubling one of them that is not the greatest
\* gives another.
Doubling(S) == {1, MaxLen} \subseteq S /\ \A n \in S \ {MaxLen} : 2 * n \in S

Lengths == CHOOSE S \in SUBSET (1..MaxLen) : Doubling(S)

Array == UNION {[0..(n - 1) -> Nat] : n \in Lengths}

Labels == {"off", "attempt", "fast", "head", "tail", "cas", "store", "stripe", "attach",
           "attachLocked", "collision", "double", "doubleLocked", "initialise", "initialiseLocked",
           "releaseAndReturn", "releaseAndRetry"}

Calls == [idx : Nat, array : Nat, ring : Nat, head : Nat, tail : Nat,
          attempt : Int, uncontended : BOOLEAN, collide : BOOLEAN]

Drains == [pc : {"off", "stripe", "tail", "slot", "head"}, array : Nat, stripe : Nat, ring : Nat,
           head : Nat, tail : Nat, stopped : BOOLEAN]

InArray == {"fast", "stripe", "head", "tail", "cas", "collision", "attach", "double", "attachLocked",
            "doubleLocked"}

Holding == {"attachLocked", "doubleLocked", "initialiseLocked", "releaseAndReturn", "releaseAndRetry"}

InRing == {"tail", "slot", "head"}

--------------------------------------------------------------------------------
(* The inductive invariant *)

Types ==
    /\ rings \in Seq(Ring)
    /\ arrays \in Seq(Array)
    /\ striped = Len(arrays)
    /\ busy \in Readers \cup {None}
    /\ pc \in [Readers -> Labels] /\ my \in [Readers -> Calls]
    /\ added \in [Readers -> Nat]
    /\ drain \in Drains
    /\ taken \subseteq Elements /\ refused \subseteq Elements /\ before \subseteq Elements

\* The arrays name rings; the published one, all of them.
Published ==
    /\ striped = 0 => Len(rings) = 0
    /\ \A a \in 1..Len(arrays) : \A s \in DOMAIN arrays[a] : arrays[a][s] \in 0..Len(rings)
    /\ striped # 0 => \A n \in 1..Len(rings) : \E s \in DOMAIN arrays[striped] : arrays[striped][s] = n

\* What a reader has read is not newer than the rings, and whoever changes the array
\* holds busy.
CallerSound(r) ==
    /\ pc[r] \in InArray => my[r].array \in 1..Len(arrays)
    /\ pc[r] \in {"initialise", "initialiseLocked"} => my[r].array = 0
    /\ pc[r] \in {"head", "tail", "cas", "store"} => my[r].ring \in 1..Len(rings)
    /\ pc[r] \in {"tail", "cas"} => my[r].head <= rings[my[r].ring].head
    /\ pc[r] = "cas" => my[r].tail - my[r].head < RingSize
    /\ pc[r] \in {"double", "doubleLocked"} => LenOf(my[r].array) # MaxLen
    /\ pc[r] # "off" => added[r] \in 1..MaxAdds[r]
    /\ pc[r] \in Holding => busy = r

Callers == \A r \in Readers : CallerSound(r)

\* The drain is in a ring of its array, and has not passed its tail.
DrainSound ==
    /\ drain.pc # "off" => drain.array \in 1..Len(arrays) /\ drain.stripe \in 0..LenOf(drain.array)
    /\ drain.pc \in InRing =>
         /\ drain.stripe < LenOf(drain.array)
         /\ drain.ring = arrays[drain.array][drain.stripe]
         /\ drain.ring \in 1..Len(rings)
         /\ rings[drain.ring].head <= drain.head
    /\ drain.pc = "tail" => rings[drain.ring].head = drain.head
    /\ drain.pc \in {"slot", "head"} => drain.head <= drain.tail /\ drain.tail <= rings[drain.ring].tail
    /\ drain.pc = "head" => drain.stopped

\* How far a ring has been emptied.
LowHead(n) == IF drain.pc \in InRing /\ drain.ring = n THEN drain.head ELSE rings[n].head

InWindow(n, i) == i \in Nat /\ LowHead(n) <= i /\ i < rings[n].tail

\* No ring has more slots between its head and its tail than it has.
RingsBounded ==
    \A n \in 1..Len(rings) : LowHead(n) <= rings[n].tail /\ rings[n].tail <= rings[n].head + RingSize

\* A full slot lies between the head and the tail.
Window ==
    \A n \in 1..Len(rings) : \A j \in Slots :
        rings[n].buffer[j] # None => \E i \in Nat : InWindow(n, i) /\ i % RingSize = j

\* A reserved slot is empty, between the head and the tail, and reserved once.
Reserved ==
    \A r \in Readers :
        pc[r] = "store" =>
            /\ InWindow(my[r].ring, my[r].tail)
            /\ rings[my[r].ring].buffer[my[r].tail % RingSize] = None
            /\ \A q \in Readers \ {r} :
                 pc[q] = "store" /\ my[q].ring = my[r].ring => my[q].tail # my[r].tail

\* The reader has an element that is neither in a ring nor refused yet.
Pending(r) == pc[r] \notin {"off", "releaseAndReturn"}

Fresh(r, k) == k > added[r] \/ (k = added[r] /\ Pending(r))

Outside(e) ==
    /\ e \notin taken \cup refused
    /\ \A n \in 1..Len(rings) : \A j \in Slots : rings[n].buffer[j] # e

\* An element that is not placed yet is nowhere.
FreshOutside == \A r \in Readers : \A k \in 1..MaxAdds[r] : Fresh(r, k) => Outside(<<r, k>>)

\* An element is in one place.
OncePlaced ==
    /\ taken \cap refused = {}
    /\ \A n \in 1..Len(rings) : \A j \in Slots :
         /\ rings[n].buffer[j] \notin taken \cup refused
         /\ rings[n].buffer[j] # None =>
              \A m \in 1..Len(rings) : \A i \in Slots :
                 rings[m].buffer[i] = rings[n].buffer[j] => m = n /\ i = j

\* Slot i of the window of a ring holds e.
HeldAt(n, e, i) == InWindow(n, i) /\ rings[n].buffer[i % RingSize] = e

\* In stripe s is a ring where the drain will still find e.
AheadIn(e, s) ==
    LET n == arrays[drain.array][s]
    IN  /\ n # 0
        /\ \E i \in Nat : HeldAt(n, e, i) /\ (drain.pc = "slot" /\ n = drain.ring => i < drain.tail)

\* Unless it has been stopped, the drain has still to come across all that was waiting
\* and is not taken.
StillAhead ==
    drain.pc # "off" /\ ~drain.stopped =>
        \A e \in before : \E s \in drain.stripe..(LenOf(drain.array) - 1) : AheadIn(e, s)

Inv ==
    /\ Types /\ Published /\ Callers /\ DrainSound /\ RingsBounded /\ Window /\ Reserved
    /\ FreshOutside /\ OncePlaced

--------------------------------------------------------------------------------
(* Lemmas about arithmetic, lengths and elements *)

\* Two slots of a ring that are less than its size apart are not the same.
LEMMA ModApart ==
    ASSUME NEW a \in Nat, NEW b \in Nat, NEW R \in Nat \ {0}, b < a, a - b < R
    PROVE  a % R # b % R
<1>1. SUFFICES ASSUME a % R = b % R PROVE FALSE
  OBVIOUS
<1> DEFINE p == a \div R
           q == b \div R
<1>2. p \in Int /\ q \in Int /\ a = R * p + (a % R) /\ b = R * q + (b % R)
  OBVIOUS
<1>3. a - b = R * p - R * q
  BY <1>1, <1>2
<1> HIDE DEF p, q
<1>4. a - b = R * (p - q)
  BY <1>2, <1>3
<1>5. CASE p - q <= 0
  <2>1. R * (p - q) <= 0
    BY <1>5, <1>2
  <2>2. QED
    BY <2>1, <1>4
<1>6. CASE p - q >= 1
  <2>1. R * (p - q) >= R
    BY <1>6, <1>2
  <2>2. QED
    BY <2>1, <1>4
<1>7. QED
  BY <1>2, <1>5, <1>6

\* A remainder is a slot.
LEMMA ModRange == ASSUME NEW a \in Nat, NEW R \in Nat \ {0} PROVE a % R \in 0..(R - 1)
  OBVIOUS

\* The constants, as the proofs use them.
LEMMA Constants ==
    /\ RingSize \in Nat \ {0} /\ MaxLen \in Nat \ {0} /\ Attempts \in Nat \ {0}
    /\ MaxAdds \in [Readers -> Nat] /\ MaxDrains \in Nat /\ FirstIndexes \subseteq Nat
    /\ None \notin Readers /\ None \notin Elements
  BY LossyAssumption

\* Lengths are positive, at most MaxLen, and closed under doubling.
LEMMA LengthsDouble ==
    /\ Lengths \subseteq 1..MaxLen /\ 1 \in Lengths /\ MaxLen \in Lengths
    /\ \A n \in Lengths : n # MaxLen => 2 * n \in Lengths
<1>1. \E S \in SUBSET (1..MaxLen) : Doubling(S)
  BY LossyAssumption DEF Doubling
<1>2. Lengths \in SUBSET (1..MaxLen) /\ Doubling(Lengths)
  BY <1>1 DEF Lengths
<1>3. QED
  BY <1>2 DEF Doubling

\* An array is a function on the stripes below its length.
LEMMA ArrayLength ==
    ASSUME Types, NEW a \in 1..Len(arrays)
    PROVE  /\ LenOf(a) \in Lengths /\ LenOf(a) \in Nat \ {0}
           /\ DOMAIN arrays[a] = 0..(LenOf(a) - 1)
           /\ arrays[a] \in [0..(LenOf(a) - 1) -> Nat]
<1>1. arrays[a] \in Array
  BY DEF Types
<1>2. PICK n \in Lengths : arrays[a] \in [0..(n - 1) -> Nat]
  BY <1>1 DEF Array
<1>3. n \in Nat \ {0}
  BY LengthsDouble, Constants
<1>4. Cardinality(0..(n - 1)) = n
  BY <1>3, FS_Interval
<1>5. LenOf(a) = n
  BY <1>2, <1>4 DEF LenOf
<1>6. QED
  BY <1>2, <1>3, <1>5

\* The stripe of a reader is one of the array.
LEMMA StripeRange ==
    ASSUME Types, NEW a \in 1..Len(arrays), NEW i \in Nat
    PROVE  Stripe(a, i) \in DOMAIN arrays[a]
  BY ArrayLength, ModRange DEF Stripe

\* The elements are the pairs of a reader and a number up to its bound.
LEMMA ElementPairs ==
    /\ \A r \in Readers : \A k \in 1..MaxAdds[r] : <<r, k>> \in Elements
    /\ \A e \in Elements : \E r \in Readers : \E k \in 1..MaxAdds[r] : e = <<r, k>>
  BY DEF Elements

\* The fields of a ring.
LEMMA RingFields ==
    ASSUME Types, NEW n \in 1..Len(rings)
    PROVE  /\ rings[n] \in Ring
           /\ rings[n].head \in Nat /\ rings[n].tail \in Nat
           /\ rings[n].buffer \in [Slots -> Elements \cup {None}]
<1>1. rings[n] \in Ring
  BY DEF Types
<1>2. QED
  BY <1>1 DEF Ring

\* Replacing a ring.
LEMMA Replaced ==
    ASSUME Types, NEW n \in 1..Len(rings), NEW new \in Ring,
           rings' = [rings EXCEPT ![n] = new]
    PROVE  /\ rings' \in Seq(Ring) /\ Len(rings') = Len(rings)
           /\ rings'[n] = new
           /\ \A m \in 1..Len(rings) : m # n => rings'[m] = rings[m]
  BY DEF Types

--------------------------------------------------------------------------------
(* What the actions do *)

\* The other readers are where they were.
OthersStay(r) == \A q \in Readers : q # r => pc'[q] = pc[q] /\ my'[q] = my[q] /\ added'[q] = added[q]

\* The rest of the state, of which a reader changes nothing.
DrainStays == UNCHANGED <<drain, drains, taken, before>>

\* A step of a reader in which no ring and no array changes: it is on its way, has begun
\* to add an element, or has given up.
LocalDoes(r) ==
    /\ OthersStay(r)
    /\ UNCHANGED <<rings, arrays, striped>>
    /\ pc[r] # "store" /\ pc'[r] # "store"
    /\ pc' \in [Readers -> Labels] /\ my' \in [Readers -> Calls]
    /\ \/ Pending(r) /\ Pending(r)' /\ UNCHANGED <<added, refused>>
       \/ /\ pc[r] = "off" /\ Pending(r)' /\ UNCHANGED refused
          /\ added'[r] = added[r] + 1 /\ added'[r] <= MaxAdds[r] /\ added' \in [Readers -> Nat]
       \/ Pending(r) /\ pc'[r] = "off" /\ UNCHANGED added /\ refused' = refused \cup {Element(r)}
       \/ pc[r] = "releaseAndReturn" /\ pc'[r] = "off" /\ UNCHANGED <<added, refused>>
    /\ busy' = busy \/ (busy = None /\ busy' = r) \/ (busy = r /\ busy' = None)
    /\ CallerSound(r)'

\* Going to a label with a record.
LEMMA StepEffect ==
    ASSUME NEW r \in Readers, NEW to \in Labels, NEW rec \in Calls, NEW from, Types,
           Step(r, from, to), Keep(r, rec)
    PROVE  /\ pc[r] = from /\ pc'[r] = to /\ my'[r] = rec
           /\ pc' \in [Readers -> Labels] /\ my' \in [Readers -> Calls]
           /\ \A q \in Readers : q # r => pc'[q] = pc[q] /\ my'[q] = my[q]
  BY DEF Step, Keep, Types

\* The same when the record stays.
LEMMA StepOnly ==
    ASSUME NEW r \in Readers, NEW to \in Labels, NEW from, Types, Step(r, from, to), my' = my
    PROVE  /\ pc[r] = from /\ pc'[r] = to /\ my'[r] = my[r]
           /\ pc' \in [Readers -> Labels] /\ my' \in [Readers -> Calls]
           /\ \A q \in Readers : q # r => pc'[q] = pc[q] /\ my'[q] = my[q]
  BY DEF Step, Types

\* Returning.
LEMMA ReturnEffect ==
    ASSUME NEW r \in Readers, NEW success \in BOOLEAN, NEW from, Types, Return(r, from, success)
    PROVE  /\ pc[r] = from /\ pc'[r] = "off"
           /\ pc' \in [Readers -> Labels] /\ my' \in [Readers -> Calls]
           /\ \A q \in Readers : q # r => pc'[q] = pc[q] /\ my'[q] = my[q]
           /\ refused' = IF success THEN refused ELSE refused \cup {Element(r)}
<1>1. "off" \in Labels /\ NoCall \in Calls
  BY DEF Labels, NoCall, Calls
<1>2. Step(r, from, "off") /\ Keep(r, NoCall) /\ refused' = IF success THEN refused ELSE refused \cup {Element(r)}
  BY DEF Return
<1>3. QED
  BY <1>1, <1>2, StepEffect

\* Going round the loop: the reader gives up, or tries again with any token.
LEMMA NextAttemptEffect ==
    ASSUME NEW r \in Readers, NEW rehash \in BOOLEAN, NEW rec \in Calls, NEW from, Types,
           NextAttempt(r, from, rehash, rec)
    PROVE  /\ pc[r] = from /\ pc'[r] \in {"off", "attempt"}
           /\ pc' \in [Readers -> Labels] /\ my' \in [Readers -> Calls]
           /\ \A q \in Readers : q # r => pc'[q] = pc[q] /\ my'[q] = my[q]
           /\ pc'[r] = "off" => refused' = refused \cup {Element(r)}
           /\ pc'[r] = "attempt" => refused' = refused
<1>1. CASE rec.attempt + 1 = Attempts
  <2>1. Return(r, from, FALSE)
    BY <1>1 DEF NextAttempt
  <2>2. QED
    BY <2>1, ReturnEffect
<1>2. CASE rec.attempt + 1 # Attempts
  <2>1. /\ Step(r, from, "attempt")
        /\ \E i \in IF rehash THEN 0..(MaxLen - 1) ELSE {rec.idx} :
              Keep(r, [rec EXCEPT !.attempt = @ + 1, !.idx = i])
        /\ refused' = refused
    BY <1>2 DEF NextAttempt
  <2>2. PICK i \in IF rehash THEN 0..(MaxLen - 1) ELSE {rec.idx} :
            Keep(r, [rec EXCEPT !.attempt = @ + 1, !.idx = i])
    BY <2>1
  <2>3. i \in Nat /\ rec.attempt + 1 \in Int
    BY Constants DEF Calls
  <2>4. [rec EXCEPT !.attempt = @ + 1, !.idx = i] \in Calls
    BY <2>3 DEF Calls
  <2>5. "attempt" \in Labels
    BY DEF Labels
  <2>6. QED
    BY <2>1, <2>2, <2>4, <2>5, StepEffect
<1>3. QED
  BY <1>1, <1>2

\* The local steps are local.
LEMMA LocalEffect ==
    ASSUME NEW r \in Readers, Types, Published, Callers,
           \/ Add(r) \/ LoadFast(r) \/ LoadHead(r) \/ LoadTail(r) \/ CasFails(r) \/ LoadStriped(r)
           \/ LoadStripe(r) \/ Collision(r) \/ ReleaseBusy(r)
           \/ \E from \in {"attach", "double", "initialise"} : TakeBusy(r, from) \/ TakeBusyFails(r, from)
    PROVE  LocalDoes(r)
<1> USE DEF LocalDoes, OthersStay, shared, Labels, Pending
<1> DEFINE m == my[r]
<1>0. m \in Calls /\ CallerSound(r) /\ striped \in Nat /\ busy \in Readers \cup {None}
  BY DEF Types, Callers
<1>1. CASE Add(r)
  <2>1. PICK i \in 0..(MaxLen - 1) : Keep(r, [NoCall EXCEPT !.idx = i, !.array = striped])
    BY <1>1 DEF Add
  <2>a. NoCall \in Calls
    BY DEF NoCall, Calls
  <2>b. i \in Nat
    BY Constants
  <2>2. /\ [NoCall EXCEPT !.idx = i, !.array = striped] \in Calls
        /\ [NoCall EXCEPT !.idx = i, !.array = striped].array = striped
    BY <1>0, <2>a, <2>b DEF Calls
  <2>3. Step(r, "off", IF striped = 0 THEN "attempt" ELSE "fast")
    BY <1>1 DEF Add
  <2>4. /\ pc[r] = "off" /\ pc'[r] = (IF striped = 0 THEN "attempt" ELSE "fast")
        /\ my'[r].array = striped
        /\ pc' \in [Readers -> Labels] /\ my' \in [Readers -> Calls]
        /\ \A q \in Readers : q # r => pc'[q] = pc[q] /\ my'[q] = my[q]
    <3> DEFINE to == IF striped = 0 THEN "attempt" ELSE "fast"
               new == [NoCall EXCEPT !.idx = i, !.array = striped]
    <3>1. to \in Labels /\ new \in Calls /\ new.array = striped
      BY <2>2
    <3>2. Step(r, "off", to) /\ Keep(r, new)
      BY <2>1, <2>3
    <3> HIDE DEF to, new
    <3>3. /\ pc[r] = "off" /\ pc'[r] = to /\ my'[r] = new
          /\ pc' \in [Readers -> Labels] /\ my' \in [Readers -> Calls]
          /\ \A q \in Readers : q # r => pc'[q] = pc[q] /\ my'[q] = my[q]
      BY <3>1, <3>2, StepEffect
    <3>4. QED
      BY <3>1, <3>3 DEF to
  <2>d. /\ added' = [added EXCEPT ![r] = @ + 1] /\ added[r] < MaxAdds[r]
        /\ added[r] \in Nat /\ MaxAdds[r] \in Nat /\ added \in [Readers -> Nat]
    BY <1>1, Constants DEF Add, Types
  <2>5. /\ added'[r] = added[r] + 1 /\ added'[r] <= MaxAdds[r] /\ added' \in [Readers -> Nat]
        /\ added'[r] \in 1..MaxAdds[r]
        /\ \A q \in Readers : q # r => added'[q] = added[q]
    BY <2>d
  <2>6. UNCHANGED <<rings, arrays, striped, refused>>
    BY <1>1 DEF Add
  <2>7. CallerSound(r)'
    BY <1>0, <2>4, <2>5, <2>6 DEF CallerSound, InArray, Holding, Types
  <2>e. UNCHANGED busy
    BY <1>1 DEF Add
  <2>8. QED
    BY <2>4, <2>5, <2>6, <2>7, <2>e
<1>2. CASE LoadFast(r)
  <2> DEFINE ring == arrays[m.array][Stripe(m.array, m.idx)]
             new == [m EXCEPT !.ring = ring, !.uncontended = FALSE, !.attempt = -1]
  <2>1. pc[r] = "fast" /\ m.array \in 1..Len(arrays) /\ added[r] \in 1..MaxAdds[r]
    BY <1>0, <1>2 DEF LoadFast, CallerSound, InArray
  <2>2. ring \in 0..Len(rings)
    BY <1>0, <2>1, StripeRange DEF Published, Calls
  <2>3. Len(rings) \in Nat
    BY DEF Types
  <2>c. ring \in Nat
    BY <2>2, <2>3
  <2> HIDE DEF ring
  <2>4. new \in Calls
    <3> DEFINE one == -1
    <3>1. one \in Int
      OBVIOUS
    <3> HIDE DEF one
    <3>2. [m EXCEPT !.ring = ring, !.uncontended = FALSE, !.attempt = one] \in Calls
      BY <1>0, <2>c, <3>1 DEF Calls
    <3>3. QED
      BY <3>2 DEF one
  <2> USE DEF ring
  <2>5. UNCHANGED <<shared, added, refused>>
    BY <1>2 DEF LoadFast
  <2>6. CASE ring = 0
    <3>1. Step(r, "fast", "attempt") /\ my' = my
      BY <1>2, <2>6 DEF LoadFast
    <3>2. /\ pc'[r] = "attempt" /\ my'[r] = m
          /\ pc' \in [Readers -> Labels] /\ my' \in [Readers -> Calls]
          /\ \A q \in Readers : q # r => pc'[q] = pc[q] /\ my'[q] = my[q]
      BY <3>1, StepOnly
    <3>3. CallerSound(r)'
      BY <2>1, <2>5, <3>2 DEF CallerSound, InArray, Holding
    <3>4. QED
      BY <2>1, <2>5, <3>2, <3>3
  <2>7. CASE ring # 0
    <3>1. Step(r, "fast", "head") /\ Keep(r, new)
      BY <1>2, <2>7 DEF LoadFast
    <3>2. /\ pc'[r] = "head" /\ my'[r] = new
          /\ pc' \in [Readers -> Labels] /\ my' \in [Readers -> Calls]
          /\ \A q \in Readers : q # r => pc'[q] = pc[q] /\ my'[q] = my[q]
      BY <2>4, <3>1, StepEffect
    <3>3. my'[r].ring = ring /\ my'[r].array = m.array
      BY <1>0, <3>2 DEF Calls
    <3>4. CallerSound(r)'
      BY <2>1, <2>2, <2>3, <2>5, <2>7, <3>2, <3>3 DEF CallerSound, InArray, Holding
    <3>5. QED
      BY <2>1, <2>5, <3>2, <3>4
  <2>8. QED
    BY <2>6, <2>7
<1>3. CASE LoadHead(r)
  <2>1. pc[r] = "head" /\ m.ring \in 1..Len(rings) /\ m.array \in 1..Len(arrays) /\ added[r] \in 1..MaxAdds[r]
    BY <1>0, <1>3 DEF LoadHead, Step, CallerSound, InArray
  <2> DEFINE new == [m EXCEPT !.head = rings[m.ring].head]
  <2>2. new \in Calls
    BY <1>0, <2>1, RingFields DEF Calls
  <2>3. Step(r, "head", "tail") /\ Keep(r, new) /\ UNCHANGED <<shared, added, refused>>
    BY <1>3 DEF LoadHead
  <2>4. /\ pc'[r] = "tail" /\ my'[r] = new
        /\ pc' \in [Readers -> Labels] /\ my' \in [Readers -> Calls]
        /\ \A q \in Readers : q # r => pc'[q] = pc[q] /\ my'[q] = my[q]
    BY <2>2, <2>3, StepEffect
  <2>5. my'[r].ring = m.ring /\ my'[r].array = m.array /\ my'[r].head = rings[m.ring].head
    BY <1>0, <2>4 DEF Calls
  <2>6. CallerSound(r)'
    BY <2>1, <2>3, <2>4, <2>5, RingFields DEF CallerSound, InArray, Holding
  <2>7. QED
    BY <2>1, <2>3, <2>4, <2>6
<1>4. CASE LoadTail(r)
  <2> DEFINE tail == rings[m.ring].tail
             new == [m EXCEPT !.tail = tail]
  <2>1. /\ pc[r] = "tail" /\ m.ring \in 1..Len(rings) /\ m.array \in 1..Len(arrays)
        /\ m.head <= rings[m.ring].head
        /\ added[r] \in 1..MaxAdds[r] /\ UNCHANGED <<shared, added>>
    BY <1>0, <1>4 DEF LoadTail, CallerSound, InArray
  <2>2. tail \in Nat /\ m.head \in Nat
    BY <1>0, <2>1, RingFields DEF Calls
  <2>3. CASE tail - m.head >= RingSize
    <3>1. Return(r, "tail", FALSE)
      BY <1>4, <2>3 DEF LoadTail
    <3>2. /\ pc'[r] = "off"
          /\ pc' \in [Readers -> Labels] /\ my' \in [Readers -> Calls]
          /\ \A q \in Readers : q # r => pc'[q] = pc[q] /\ my'[q] = my[q]
          /\ refused' = refused \cup {Element(r)}
      BY <3>1, ReturnEffect
    <3>3. CallerSound(r)'
      BY <3>2 DEF CallerSound, InArray, Holding
    <3>4. QED
      BY <2>1, <3>2, <3>3
  <2>4. CASE ~(tail - m.head >= RingSize)
    <3>1. Step(r, "tail", "cas") /\ Keep(r, new) /\ UNCHANGED refused
      BY <1>4, <2>4 DEF LoadTail
    <3>2. new \in Calls
      BY <1>0, <2>2 DEF Calls
    <3>3. /\ pc'[r] = "cas" /\ my'[r] = new
          /\ pc' \in [Readers -> Labels] /\ my' \in [Readers -> Calls]
          /\ \A q \in Readers : q # r => pc'[q] = pc[q] /\ my'[q] = my[q]
      BY <3>1, <3>2, StepEffect
    <3>4. /\ my'[r].ring = m.ring /\ my'[r].array = m.array /\ my'[r].head = m.head
          /\ my'[r].tail = tail
      BY <1>0, <3>3 DEF Calls
    <3>5. tail - m.head < RingSize
      BY <2>2, <2>4, Constants
    <3>6. CallerSound(r)'
      BY <2>1, <3>3, <3>4, <3>5 DEF CallerSound, InArray, Holding
    <3>7. QED
      BY <2>1, <3>1, <3>3, <3>6
  <2>5. QED
    BY <2>3, <2>4
<1> DEFINE Retry(from) ==
             /\ pc[r] = from /\ pc'[r] \in {"off", "attempt"}
             /\ pc' \in [Readers -> Labels] /\ my' \in [Readers -> Calls]
             /\ \A q \in Readers : q # r => pc'[q] = pc[q] /\ my'[q] = my[q]
             /\ pc'[r] = "off" => refused' = refused \cup {Element(r)}
             /\ pc'[r] = "attempt" => refused' = refused
<1>5. ASSUME NEW from \in Labels, from \notin {"off", "store", "releaseAndReturn"},
             Retry(from), UNCHANGED <<rings, arrays, striped, added>>,
             busy' = busy \/ (busy = r /\ busy' = None)
      PROVE  LocalDoes(r)
  <2>1. CallerSound(r)'
    BY <1>0, <1>5 DEF CallerSound, InArray, Holding
  <2>2. QED
    BY <1>5, <2>1
<1>6. CASE CasFails(r)
  <2>1. CASE m.attempt = -1
    <3>1. NextAttempt(r, "cas", FALSE, m)
      BY <1>6, <2>1 DEF CasFails
    <3>2. Retry("cas")
      BY <1>0, <3>1, NextAttemptEffect
    <3> HIDE DEF Retry
    <3>3. QED
      BY <1>5, <1>6, <3>2 DEF CasFails
  <2>2. CASE m.attempt # -1
    <3>1. Step(r, "cas", "collision") /\ UNCHANGED <<my, refused, shared, added>>
      BY <1>6, <2>2 DEF CasFails
    <3>2. /\ pc[r] = "cas" /\ pc'[r] = "collision" /\ my'[r] = m
          /\ pc' \in [Readers -> Labels] /\ my' \in [Readers -> Calls]
          /\ \A q \in Readers : q # r => pc'[q] = pc[q] /\ my'[q] = my[q]
      BY <3>1, StepOnly
    <3>3. CallerSound(r)'
      BY <1>0, <3>1, <3>2 DEF CallerSound, InArray, Holding
    <3>4. QED
      BY <3>1, <3>2, <3>3
  <2>3. QED
    BY <2>1, <2>2
<1>7. CASE LoadStriped(r)
  <2> DEFINE new == [m EXCEPT !.array = striped]
  <2>1. /\ Step(r, "attempt", IF striped = 0 THEN "initialise" ELSE "stripe")
        /\ Keep(r, new)
        /\ UNCHANGED <<shared, added, refused>>
    BY <1>7 DEF LoadStriped
  <2>2. new \in Calls
    BY <1>0 DEF Calls
  <2>3. /\ pc[r] = "attempt" /\ pc'[r] = (IF striped = 0 THEN "initialise" ELSE "stripe")
        /\ my'[r] = new
        /\ pc' \in [Readers -> Labels] /\ my' \in [Readers -> Calls]
        /\ \A q \in Readers : q # r => pc'[q] = pc[q] /\ my'[q] = my[q]
    BY <2>1, <2>2, StepEffect
  <2>4. my'[r].array = striped
    BY <1>0, <2>3 DEF Calls
  <2>5. CallerSound(r)'
    BY <1>0, <2>1, <2>3, <2>4 DEF CallerSound, InArray, Holding, Types
  <2>6. QED
    BY <2>1, <2>3, <2>5
<1>8. CASE LoadStripe(r)
  <2> DEFINE ring == arrays[m.array][Stripe(m.array, m.idx)]
             new == [m EXCEPT !.ring = ring]
             again == [m EXCEPT !.uncontended = TRUE]
  <2>1. pc[r] = "stripe" /\ m.array \in 1..Len(arrays) /\ added[r] \in 1..MaxAdds[r] /\ UNCHANGED <<shared, added>>
    BY <1>0, <1>8 DEF LoadStripe, CallerSound, InArray
  <2>2. ring \in 0..Len(rings)
    BY <1>0, <2>1, StripeRange DEF Published, Calls
  <2>3. Len(rings) \in Nat
    BY DEF Types
  <2>c. ring \in Nat
    BY <2>2, <2>3
  <2> HIDE DEF ring
  <2>4. new \in Calls /\ again \in Calls
    BY <1>0, <2>c DEF Calls
  <2> USE DEF ring
  <2>5. CASE Step(r, "stripe", "attach") /\ UNCHANGED <<my, refused>>
    <3>1. /\ pc'[r] = "attach" /\ my'[r] = m
          /\ pc' \in [Readers -> Labels] /\ my' \in [Readers -> Calls]
          /\ \A q \in Readers : q # r => pc'[q] = pc[q] /\ my'[q] = my[q]
      BY <2>5, StepOnly
    <3>2. CallerSound(r)'
      BY <2>1, <3>1 DEF CallerSound, InArray, Holding
    <3>3. QED
      BY <2>1, <2>5, <3>1, <3>2
  <2>6. CASE NextAttempt(r, "stripe", TRUE, again)
    <3>1. Retry("stripe")
      BY <2>4, <2>6, NextAttemptEffect
    <3> HIDE DEF Retry
    <3>2. QED
      BY <1>5, <2>1, <3>1
  <2>7. CASE ring # 0 /\ Step(r, "stripe", "head") /\ Keep(r, new) /\ UNCHANGED refused
    <3>1. /\ pc'[r] = "head" /\ my'[r] = new
          /\ pc' \in [Readers -> Labels] /\ my' \in [Readers -> Calls]
          /\ \A q \in Readers : q # r => pc'[q] = pc[q] /\ my'[q] = my[q]
      BY <2>4, <2>7, StepEffect
    <3>2. my'[r].ring = ring /\ my'[r].array = m.array
      BY <1>0, <3>1 DEF Calls
    <3>3. CallerSound(r)'
      BY <2>1, <2>2, <2>3, <2>7, <3>1, <3>2 DEF CallerSound, InArray, Holding
    <3>4. QED
      BY <2>1, <2>7, <3>1, <3>3
  <2>8. QED
    BY <1>8, <2>5, <2>6, <2>7 DEF LoadStripe
<1>9. CASE Collision(r)
  <2>1. UNCHANGED <<shared, added>> /\ pc[r] = "collision"
    BY <1>9 DEF Collision
  <2>2. ASSUME NEW b \in BOOLEAN, NextAttempt(r, "collision", TRUE, [m EXCEPT !.collide = b])
        PROVE  LocalDoes(r)
    <3>1. [m EXCEPT !.collide = b] \in Calls
      BY <1>0 DEF Calls
    <3>2. Retry("collision")
      BY <2>2, <3>1, NextAttemptEffect
    <3> HIDE DEF Retry
    <3>3. QED
      BY <1>5, <2>1, <3>2
  <2>3. CASE LenOf(m.array) # MaxLen /\ Step(r, "collision", "double") /\ UNCHANGED <<my, refused>>
    <3>0. LenOf(m.array) # MaxLen
      BY <2>3 DEF LenOf
    <3>1. /\ pc[r] = "collision" /\ pc'[r] = "double" /\ my'[r] = m
          /\ pc' \in [Readers -> Labels] /\ my' \in [Readers -> Calls]
          /\ \A q \in Readers : q # r => pc'[q] = pc[q] /\ my'[q] = my[q]
      BY <2>3, StepOnly
    <3>2. CallerSound(r)'
      BY <1>0, <2>1, <3>0, <3>1 DEF CallerSound, InArray, Holding, LenOf
    <3>3. QED
      BY <2>1, <2>3, <3>1, <3>2
  <2>4. CASE LenOf(m.array) < MaxLen /\ Step(r, "collision", "double") /\ UNCHANGED <<my, refused>>
    <3>1. m.array \in 1..Len(arrays)
      BY <1>0, <2>1 DEF CallerSound, InArray
    <3>2. LenOf(m.array) \in Nat
      BY <3>1, ArrayLength
    <3>3. LenOf(m.array) # MaxLen
      BY <2>4, <3>2, Constants
    <3>4. QED
      BY <2>3, <2>4, <3>3
  <2>5. QED
    BY <1>9, <2>2, <2>4 DEF Collision
<1>10. CASE ReleaseBusy(r)
  <2>1. UNCHANGED <<rings, arrays, striped, added>> /\ busy' = None
    BY <1>10 DEF ReleaseBusy
  <2>2. CASE Return(r, "releaseAndReturn", TRUE)
    <3>1. /\ pc[r] = "releaseAndReturn" /\ pc'[r] = "off" /\ refused' = refused
          /\ pc' \in [Readers -> Labels] /\ my' \in [Readers -> Calls]
          /\ \A q \in Readers : q # r => pc'[q] = pc[q] /\ my'[q] = my[q]
      BY <2>2, ReturnEffect
    <3>2. CallerSound(r)'
      BY <3>1 DEF CallerSound, InArray, Holding
    <3>3. busy = r
      BY <1>0, <3>1 DEF CallerSound, Holding
    <3>4. QED
      BY <2>1, <3>1, <3>2, <3>3
  <2>3. CASE NextAttempt(r, "releaseAndRetry", FALSE, m)
    <3>1. Retry("releaseAndRetry")
      BY <1>0, <2>3, NextAttemptEffect
    <3>2. busy = r
      BY <1>0, <3>1 DEF CallerSound, Holding
    <3> HIDE DEF Retry
    <3>3. QED
      BY <1>5, <2>1, <3>1, <3>2
  <2>4. QED
    BY <1>10, <2>2, <2>3 DEF ReleaseBusy
<1>11. ASSUME NEW from \in {"attach", "double", "initialise"}, TakeBusy(r, from) PROVE LocalDoes(r)
  <2>1. Locked(from) \in {"attachLocked", "doubleLocked", "initialiseLocked"}
    BY DEF Locked
  <2>2. /\ Step(r, from, Locked(from)) /\ busy = None /\ busy' = r
        /\ UNCHANGED <<rings, arrays, striped, my, added, refused>>
    BY <1>11 DEF TakeBusy
  <2>3. Locked(from) \in Labels
    BY <2>1
  <2>4. /\ pc[r] = from /\ pc'[r] = Locked(from) /\ my'[r] = m
        /\ pc' \in [Readers -> Labels] /\ my' \in [Readers -> Calls]
        /\ \A q \in Readers : q # r => pc'[q] = pc[q] /\ my'[q] = my[q]
    BY <2>2, <2>3, StepOnly
  <2>5. CallerSound(r)'
    BY <1>0, <2>2, <2>4 DEF CallerSound, InArray, Holding, Locked, LenOf
  <2>6. QED
    BY <2>1, <2>2, <2>4, <2>5
<1>12. ASSUME NEW from \in {"attach", "double", "initialise"}, TakeBusyFails(r, from) PROVE LocalDoes(r)
  <2> DEFINE rec == IF from = "attach" THEN [m EXCEPT !.collide = FALSE] ELSE m
  <2>1. NextAttempt(r, from, (from # "initialise"), rec) /\ UNCHANGED <<shared, added>>
    BY <1>12 DEF TakeBusyFails
  <2>2. rec \in Calls
    BY <1>0 DEF Calls
  <2>3. Retry(from)
    BY <2>1, <2>2, NextAttemptEffect
  <2> HIDE DEF Retry
  <2>4. QED
    BY <1>5, <2>1, <2>3
<1>13. QED
  BY <1>1, <1>2, <1>3, <1>4, <1>6, <1>7, <1>8, <1>9, <1>10, <1>11, <1>12

\* A reader reserves the slot at the tail.
CasTailDoes(r) ==
    LET n == my[r].ring
    IN  /\ OthersStay(r) /\ n \in 1..Len(rings)
        /\ pc[r] = "cas" /\ pc'[r] = "store" /\ pc' \in [Readers -> Labels]
        /\ rings[n].tail = my[r].tail
        /\ rings' \in Seq(Ring) /\ Len(rings') = Len(rings)
        /\ \A m \in 1..Len(rings) : m # n => rings'[m] = rings[m]
        /\ rings'[n].head = rings[n].head
        /\ rings'[n].tail = rings[n].tail + 1
        /\ rings'[n].buffer = rings[n].buffer
        /\ UNCHANGED <<arrays, striped, busy, my, added, refused>>

\* Reserving does that.
LEMMA CasTailEffect ==
    ASSUME NEW r \in Readers, Types, Callers, CasTail(r) PROVE CasTailDoes(r)
<1> DEFINE n == my[r].ring
           new == [rings[n] EXCEPT !.tail = @ + 1]
<1>1. /\ Step(r, "cas", "store") /\ UNCHANGED <<arrays, striped, busy, my, added, refused>>
      /\ rings[n].tail = my[r].tail
      /\ rings' = [rings EXCEPT ![n].tail = @ + 1]
  BY DEF CasTail
<1>2. n \in 1..Len(rings)
  BY <1>1 DEF Callers, CallerSound, Step
<1>3. /\ new \in Ring /\ new.head = rings[n].head /\ new.tail = rings[n].tail + 1
      /\ new.buffer = rings[n].buffer
  BY <1>2, RingFields DEF Ring
<1>4. rings' = [rings EXCEPT ![n] = new]
  BY <1>1
<1> HIDE DEF new
<1>5. /\ rings' \in Seq(Ring) /\ Len(rings') = Len(rings) /\ rings'[n] = new
      /\ \A m \in 1..Len(rings) : m # n => rings'[m] = rings[m]
  BY <1>2, <1>3, <1>4, Replaced
<1>6. /\ pc[r] = "cas" /\ pc'[r] = "store" /\ pc' \in [Readers -> Labels]
      /\ \A q \in Readers : q # r => pc'[q] = pc[q]
  <2>1. "store" \in Labels
    BY DEF Labels
  <2>2. QED
    BY <1>1, <2>1, StepOnly
<1>7. QED
  BY <1>1, <1>2, <1>3, <1>5, <1>6 DEF CasTailDoes, OthersStay

\* A reader fills the slot it has reserved.
StoreDoes(r) ==
    LET n == my[r].ring
        j == my[r].tail % RingSize
    IN  /\ OthersStay(r) /\ n \in 1..Len(rings) /\ j \in Slots
        /\ pc[r] = "store" /\ pc'[r] = "off" /\ Element(r) \in Elements
        /\ pc' \in [Readers -> Labels] /\ my' \in [Readers -> Calls]
        /\ rings' \in Seq(Ring) /\ Len(rings') = Len(rings)
        /\ \A m \in 1..Len(rings) : m # n => rings'[m] = rings[m]
        /\ rings'[n].head = rings[n].head
        /\ rings'[n].tail = rings[n].tail
        /\ \A i \in Slots : rings'[n].buffer[i] = IF i = j THEN Element(r) ELSE rings[n].buffer[i]
        /\ UNCHANGED <<arrays, striped, busy, added, refused>>

\* The element a reader is adding is an element.
LEMMA ElementAdded ==
    ASSUME NEW r \in Readers, Callers, pc[r] # "off" PROVE Element(r) \in Elements
  BY ElementPairs DEF Callers, CallerSound, Element

\* Filling the reserved slot does that.
LEMMA StoreEffect ==
    ASSUME NEW r \in Readers, Types, Callers, StoreElement(r) PROVE StoreDoes(r)
<1> DEFINE n == my[r].ring
           j == my[r].tail % RingSize
           e == Element(r)
           new == [rings[n] EXCEPT !.buffer = [rings[n].buffer EXCEPT ![j] = e]]
<1>1. /\ pc[r] = "store" /\ Return(r, "store", TRUE)
      /\ UNCHANGED <<arrays, striped, busy, added>>
      /\ rings' = [rings EXCEPT ![n].buffer[j] = e]
  BY DEF StoreElement
<1>2. n \in 1..Len(rings)
  BY <1>1 DEF Callers, CallerSound
<1>3. e \in Elements
  BY <1>1, ElementAdded
<1>4. j \in Slots
  <2>1. my[r].tail \in Nat
    BY DEF Types, Calls
  <2>2. QED
    BY <2>1, ModRange, Constants DEF Slots
<1>5. rings' = [rings EXCEPT ![n] = new]
  BY <1>1
<1>6. /\ [rings[n].buffer EXCEPT ![j] = e] \in [Slots -> Elements \cup {None}]
      /\ \A i \in Slots : [rings[n].buffer EXCEPT ![j] = e][i] = IF i = j THEN e ELSE rings[n].buffer[i]
  <2> HIDE DEF e, j
  <2>1. QED
    BY <1>2, <1>3, <1>4, RingFields
<1>7. /\ new \in Ring /\ new.head = rings[n].head /\ new.tail = rings[n].tail
      /\ \A i \in Slots : new.buffer[i] = IF i = j THEN e ELSE rings[n].buffer[i]
  <2> DEFINE b == [rings[n].buffer EXCEPT ![j] = e]
  <2> HIDE DEF b
  <2>1. b \in [Slots -> Elements \cup {None}]
    BY <1>6 DEF b
  <2>2. new = [rings[n] EXCEPT !.buffer = b]
    BY DEF b
  <2> HIDE DEF new
  <2>3. new \in Ring /\ new.head = rings[n].head /\ new.tail = rings[n].tail /\ new.buffer = b
    BY <1>2, <2>1, <2>2, RingFields DEF Ring
  <2>4. QED
    BY <1>6, <2>3 DEF b
<1> HIDE DEF new
<1>8. /\ rings' \in Seq(Ring) /\ Len(rings') = Len(rings) /\ rings'[n] = new
      /\ \A m \in 1..Len(rings) : m # n => rings'[m] = rings[m]
  BY <1>2, <1>5, <1>7, Replaced
<1>9. /\ pc'[r] = "off" /\ refused' = refused
      /\ pc' \in [Readers -> Labels] /\ my' \in [Readers -> Calls]
      /\ \A q \in Readers : q # r => pc'[q] = pc[q] /\ my'[q] = my[q]
  BY <1>1, ReturnEffect
<1>10. QED
  BY <1>1, <1>2, <1>3, <1>4, <1>7, <1>8, <1>9 DEF StoreDoes, OthersStay

\* Arrays are only ever added, and a stripe keeps the ring it has.
ArraysGrow ==
    /\ Len(arrays') >= Len(arrays)
    /\ \A a \in 1..Len(arrays) :
         /\ DOMAIN arrays'[a] = DOMAIN arrays[a]
         /\ \A s \in DOMAIN arrays[a] : arrays[a][s] # 0 => arrays'[a][s] = arrays[a][s]

ArrayTypes == arrays' \in Seq(Array) /\ striped' = Len(arrays')

\* A reader that holds busy has doubled the array, or found nothing to do.
ExpandDoes(r) ==
    /\ OthersStay(r)
    /\ pc[r] \in Holding /\ Pending(r) /\ pc[r] # "store" /\ pc'[r] = "releaseAndRetry"
    /\ pc' \in [Readers -> Labels] /\ my' \in [Readers -> Calls]
    /\ ArraysGrow /\ ArrayTypes /\ Published'
    /\ UNCHANGED <<rings, busy, added, refused>>

\* A reader that holds busy has added a ring with its element.
NewRingDoes(r) ==
    /\ OthersStay(r)
    /\ pc[r] \in Holding /\ Pending(r) /\ pc[r] # "store" /\ pc'[r] = "releaseAndReturn"
    /\ Element(r) \in Elements
    /\ pc' \in [Readers -> Labels]
    /\ rings' \in Seq(Ring) /\ Len(rings') = Len(rings) + 1
    /\ \A n \in 1..Len(rings) : rings'[n] = rings[n]
    /\ rings'[Len(rings) + 1] = NewRing(Element(r))
    /\ ArraysGrow /\ ArrayTypes /\ Published' /\ striped' # 0
    /\ UNCHANGED <<busy, my, added, refused>>

\* An element in a ring of its own.
LEMMA NewRingType ==
    ASSUME NEW e \in Elements
    PROVE  /\ NewRing(e) \in Ring
           /\ NewRing(e).head = 0 /\ NewRing(e).tail = 1
           /\ \A i \in Slots : NewRing(e).buffer[i] = IF i = 0 THEN e ELSE None
  BY DEF NewRing, Ring, Slots

\* Adding a ring.
LEMMA RingAppended ==
    ASSUME Types, NEW e \in Elements, rings' = Append(rings, NewRing(e))
    PROVE  /\ rings' \in Seq(Ring) /\ Len(rings') = Len(rings) + 1
           /\ \A n \in 1..Len(rings) : rings'[n] = rings[n]
           /\ rings'[Len(rings) + 1] = NewRing(e)
  BY NewRingType DEF Types

\* Adding an array.
LEMMA ArrayAppended ==
    ASSUME Types, NEW n \in Lengths, NEW f \in [0..(n - 1) -> Nat], arrays' = Append(arrays, f)
    PROVE  /\ arrays' \in Seq(Array)
           /\ Len(arrays') = Len(arrays) + 1
           /\ \A a \in 1..Len(arrays) : arrays'[a] = arrays[a]
           /\ arrays'[Len(arrays) + 1] = f
<1>1. f \in Array
  BY DEF Array
<1>2. arrays \in Seq(Array)
  BY DEF Types
<1>3. QED
  BY <1>1, <1>2

PutRing(a, s, n) == arrays' = [arrays EXCEPT ![a] = [arrays[a] EXCEPT ![s] = n]]

\* Putting a ring into a stripe.
LEMMA ArrayReplaced ==
    ASSUME Types, NEW a \in 1..Len(arrays), NEW s \in DOMAIN arrays[a], NEW v \in Nat,
           PutRing(a, s, v)
    PROVE  /\ arrays' \in Seq(Array)
           /\ Len(arrays') = Len(arrays)
           /\ \A b \in 1..Len(arrays) :
                /\ DOMAIN arrays'[b] = DOMAIN arrays[b]
                /\ \A t \in DOMAIN arrays[b] :
                     arrays'[b][t] = IF b = a /\ t = s THEN v ELSE arrays[b][t]
<1> DEFINE f == [arrays[a] EXCEPT ![s] = v]
<1>1. arrays' = [arrays EXCEPT ![a] = f]
  BY DEF PutRing
<1>2. PICK n \in Lengths : arrays[a] \in [0..(n - 1) -> Nat]
  BY ArrayLength
<1>3. f \in [0..(n - 1) -> Nat] /\ DOMAIN f = DOMAIN arrays[a]
      /\ \A t \in DOMAIN arrays[a] : f[t] = IF t = s THEN v ELSE arrays[a][t]
  BY <1>2
<1> HIDE DEF f
<1>4. f \in Array
  BY <1>3 DEF Array
<1>5. arrays \in Seq(Array)
  BY DEF Types
<1>6. /\ arrays' \in Seq(Array) /\ Len(arrays') = Len(arrays)
      /\ arrays'[a] = f /\ \A b \in 1..Len(arrays) : b # a => arrays'[b] = arrays[b]
  BY <1>1, <1>4, <1>5
<1>7. QED
  <2> SUFFICES ASSUME NEW b \in 1..Len(arrays)
      PROVE  /\ DOMAIN arrays'[b] = DOMAIN arrays[b]
             /\ \A t \in DOMAIN arrays[b] :
                  arrays'[b][t] = IF b = a /\ t = s THEN v ELSE arrays[b][t]
    BY <1>6
  <2>1. CASE b = a
    BY <1>3, <1>6, <2>1
  <2>2. CASE b # a
    BY <1>6, <2>2
  <2>3. QED
    BY <2>1, <2>2

\* What a reader does that holds busy.
LEMMA AttachEffect ==
    ASSUME NEW r \in Readers, Types, Published, Callers, Attach(r) PROVE ExpandDoes(r) \/ NewRingDoes(r)
<1> DEFINE j == Stripe(striped, my[r].idx)
<1>1. pc[r] = "attachLocked" /\ UNCHANGED <<striped, busy, my, added, refused>>
  BY DEF Attach
<1>2. striped \in 1..Len(arrays) /\ striped = Len(arrays) /\ j \in DOMAIN arrays[striped]
  <2>1. my[r].array \in 1..Len(arrays) /\ my[r].idx \in Nat
    BY <1>1 DEF Callers, CallerSound, InArray, Types, Calls
  <2>2. striped = Len(arrays) /\ striped \in 1..Len(arrays)
    BY <2>1 DEF Types
  <2>3. QED
    BY <2>1, <2>2, StripeRange
<1>3. Len(rings) \in Nat /\ Len(arrays) \in Nat
  BY DEF Types
<1>4. CASE arrays[striped][j] # 0
  <2>1. Release(r, "attachLocked", FALSE) /\ UNCHANGED <<rings, arrays>>
    BY <1>4 DEF Attach
  <2>2. Step(r, "attachLocked", "releaseAndRetry") /\ "releaseAndRetry" \in Labels
    BY <2>1 DEF Release, Labels
  <2>3. /\ pc'[r] = "releaseAndRetry" /\ pc' \in [Readers -> Labels] /\ my' \in [Readers -> Calls]
        /\ \A q \in Readers : q # r => pc'[q] = pc[q] /\ my'[q] = my[q]
    BY <1>1, <2>2, StepOnly
  <2>4. ArraysGrow /\ ArrayTypes /\ Published'
    BY <1>1, <1>3, <2>1 DEF ArraysGrow, ArrayTypes, Types, Published
  <2>5. ExpandDoes(r)
    BY <1>1, <2>1, <2>3, <2>4 DEF ExpandDoes, OthersStay, Pending, Holding
  <2>6. QED
    BY <2>5
<1>5. CASE arrays[striped][j] = 0
  <2> DEFINE e == Element(r)
             last == Len(rings) + 1
  <2>1. /\ rings' = Append(rings, NewRing(e)) /\ arrays' = [arrays EXCEPT ![striped][j] = Len(rings')]
        /\ Release(r, "attachLocked", TRUE)
    BY <1>5 DEF Attach
  <2>2. Step(r, "attachLocked", "releaseAndReturn") /\ "releaseAndReturn" \in Labels
    BY <2>1 DEF Release, Labels
  <2>3. /\ pc'[r] = "releaseAndReturn" /\ pc' \in [Readers -> Labels]
        /\ \A q \in Readers : q # r => pc'[q] = pc[q] /\ my'[q] = my[q]
    BY <1>1, <2>2, StepOnly
  <2>4. e \in Elements
    BY <1>1, ElementAdded
  <2>5. /\ rings' \in Seq(Ring) /\ Len(rings') = last
        /\ \A n \in 1..Len(rings) : rings'[n] = rings[n]
        /\ rings'[last] = NewRing(e)
    <3> HIDE DEF e
    <3>1. QED
      BY <2>1, <2>4, RingAppended
  <2>6. /\ arrays' \in Seq(Array) /\ Len(arrays') = Len(arrays)
        /\ \A b \in 1..Len(arrays) :
             /\ DOMAIN arrays'[b] = DOMAIN arrays[b]
             /\ \A t \in DOMAIN arrays[b] :
                  arrays'[b][t] = IF b = striped /\ t = j THEN last ELSE arrays[b][t]
    <3>1. last \in Nat
      BY <1>3
    <3>2. PutRing(striped, j, last)
      BY <2>1, <2>5 DEF PutRing
    <3> HIDE DEF last, j
    <3>3. QED
      BY <1>2, <3>1, <3>2, ArrayReplaced
  <2>7. ArraysGrow /\ ArrayTypes
    BY <1>1, <1>2, <1>3, <1>5, <2>6 DEF ArraysGrow, ArrayTypes
  <2>8. Published'
    <3>1. striped' # 0 /\ striped' = striped
      BY <1>1, <1>2
    <3>2. ASSUME NEW a \in 1..Len(arrays), NEW t \in DOMAIN arrays[a] PROVE arrays'[a][t] \in 0..last
      BY <1>3, <2>6, <3>2 DEF Published
    <3>3. ASSUME NEW n \in 1..last PROVE \E t \in DOMAIN arrays[striped] : arrays'[striped][t] = n
      <4>1. CASE n = last
        BY <1>2, <2>6, <4>1
      <4>2. CASE n # last
        <5>1. n \in 1..Len(rings)
          BY <1>3, <4>2
        <5>2. PICK t \in DOMAIN arrays[striped] : arrays[striped][t] = n
          BY <1>2, <1>3, <5>1 DEF Published
        <5>3. t # j
          BY <1>5, <5>1, <5>2
        <5>4. arrays'[striped][t] = n
          BY <1>2, <2>6, <5>2, <5>3
        <5>5. QED
          BY <5>4
      <4>3. QED
        BY <4>1, <4>2
    <3>4. DOMAIN arrays'[striped] = DOMAIN arrays[striped]
      BY <1>2, <2>6
    <3>5. QED
      BY <2>5, <2>6, <3>1, <3>2, <3>3, <3>4 DEF Published
  <2>9. NewRingDoes(r)
    BY <1>1, <1>2, <2>3, <2>4, <2>5, <2>7, <2>8 DEF NewRingDoes, OthersStay, Pending, Holding
  <2>10. QED
    BY <2>9
<1>6. QED
  BY <1>4, <1>5

\* Doubling the array copies its stripes.
LEMMA DoubleEffect ==
    ASSUME NEW r \in Readers, Types, Published, Callers, Double(r) PROVE ExpandDoes(r)
<1> DEFINE rec == [my[r] EXCEPT !.collide = FALSE]
<1>1. /\ pc[r] = "doubleLocked" /\ Release(r, "doubleLocked", FALSE) /\ Keep(r, rec)
      /\ UNCHANGED <<rings, busy, added, refused>>
  BY DEF Double
<1>2. rec \in Calls
  BY DEF Types, Calls
<1>3. Step(r, "doubleLocked", "releaseAndRetry") /\ "releaseAndRetry" \in Labels
  BY <1>1 DEF Release, Labels
<1> HIDE DEF rec
<1>4. /\ pc'[r] = "releaseAndRetry" /\ pc' \in [Readers -> Labels] /\ my' \in [Readers -> Calls]
      /\ \A q \in Readers : q # r => pc'[q] = pc[q] /\ my'[q] = my[q]
  BY <1>1, <1>2, <1>3, StepEffect
<1>5. Len(rings) \in Nat /\ Len(arrays) \in Nat
  BY DEF Types
<1>6. ArraysGrow /\ ArrayTypes /\ Published'
  <2>1. CASE UNCHANGED <<arrays, striped>>
    BY <1>1, <1>5, <2>1 DEF ArraysGrow, ArrayTypes, Types, Published
  <2>2. CASE striped = my[r].array
    <3> DEFINE len == LenOf(striped)
               f == [j \in 0..(2 * len - 1) |-> IF j < len THEN arrays[striped][j] ELSE 0]
    <3>1. striped \in 1..Len(arrays) /\ striped = Len(arrays)
      BY <1>1, <2>2 DEF Callers, CallerSound, InArray, Types
    <3>2. len \in Lengths /\ len \in Nat \ {0} /\ DOMAIN arrays[striped] = 0..(len - 1)
          /\ arrays[striped] \in [0..(len - 1) -> Nat]
      BY <3>1, ArrayLength
    <3>3. 2 * len \in Lengths /\ 2 * len \in Nat \ {0}
      BY <1>1, <2>2, <3>2, LengthsDouble DEF Callers, CallerSound
    <3>4. f \in [0..(2 * len - 1) -> Nat] /\ DOMAIN f = 0..(2 * len - 1)
          /\ \A t \in 0..(len - 1) : t \in DOMAIN f /\ f[t] = arrays[striped][t]
          /\ \A x \in DOMAIN f : f[x] = 0 \/ (x \in 0..(len - 1) /\ f[x] = arrays[striped][x])
      BY <3>2
    <3>5. arrays' = Append(arrays, f) /\ striped' = Len(arrays')
      BY <2>2 DEF Double
    <3> HIDE DEF len, f
    <3>6. /\ arrays' \in Seq(Array) /\ Len(arrays') = Len(arrays) + 1
          /\ \A a \in 1..Len(arrays) : arrays'[a] = arrays[a]
          /\ arrays'[Len(arrays) + 1] = f
      BY <3>3, <3>4, <3>5, ArrayAppended
    <3>7. ArraysGrow /\ ArrayTypes
      BY <1>5, <3>5, <3>6 DEF ArraysGrow, ArrayTypes
    <3>8. ASSUME NEW a \in 1..Len(arrays'), NEW t \in DOMAIN arrays'[a] PROVE arrays'[a][t] \in 0..Len(rings)
      <4>1. CASE a \in 1..Len(arrays)
        BY <3>6, <3>8, <4>1 DEF Published
      <4>2. CASE a = Len(arrays) + 1
        <5>1. f[t] = 0 \/ (t \in DOMAIN arrays[striped] /\ f[t] = arrays[striped][t])
          BY SMTT(30), <3>2, <3>4, <3>6, <3>8, <4>2
        <5>2. QED
          BY <1>5, <3>1, <3>6, <4>2, <5>1 DEF Published
      <4>3. QED
        BY <1>5, <3>6, <4>1, <4>2
    <3>9. ASSUME NEW n \in 1..Len(rings) PROVE \E t \in DOMAIN f : f[t] = n
      <4>1. PICK t \in DOMAIN arrays[striped] : arrays[striped][t] = n
        BY <1>5, <3>1 DEF Published
      <4>2. QED
        BY <3>2, <3>4, <4>1
    <3>10. Published'
      BY <1>1, <1>5, <3>5, <3>6, <3>8, <3>9 DEF Published
    <3>11. QED
      BY <3>7, <3>10
  <2>3. QED
    BY <2>1, <2>2 DEF Double
<1>7. QED
  BY <1>1, <1>4, <1>6 DEF ExpandDoes, OthersStay, Pending, Holding

\* Initialising makes the first array, with one ring.
LEMMA InitialiseEffect ==
    ASSUME NEW r \in Readers, Types, Published, Callers, Initialise(r)
    PROVE  ExpandDoes(r) \/ NewRingDoes(r)
<1>1. pc[r] = "initialiseLocked" /\ UNCHANGED <<busy, my, added, refused>> /\ my[r].array = 0
  BY DEF Initialise, Callers, CallerSound
<1>2. Len(rings) \in Nat /\ Len(arrays) \in Nat /\ striped = Len(arrays)
  BY DEF Types
<1>3. CASE striped # 0
  <2>1. Release(r, "initialiseLocked", FALSE) /\ UNCHANGED <<rings, arrays, striped>>
    BY <1>1, <1>3 DEF Initialise
  <2>2. Step(r, "initialiseLocked", "releaseAndRetry") /\ "releaseAndRetry" \in Labels
    BY <2>1 DEF Release, Labels
  <2>3. /\ pc'[r] = "releaseAndRetry" /\ pc' \in [Readers -> Labels] /\ my' \in [Readers -> Calls]
        /\ \A q \in Readers : q # r => pc'[q] = pc[q] /\ my'[q] = my[q]
    BY <1>1, <2>2, StepOnly
  <2>4. ArraysGrow /\ ArrayTypes /\ Published'
    BY <1>2, <2>1 DEF ArraysGrow, ArrayTypes, Types, Published
  <2>5. ExpandDoes(r)
    BY <1>1, <2>1, <2>3, <2>4 DEF ExpandDoes, OthersStay, Pending, Holding
  <2>6. QED
    BY <2>5
<1>4. CASE striped = 0
  <2> DEFINE e == Element(r)
             f == [j \in 0..0 |-> 1]
  <2>1. /\ rings' = Append(rings, NewRing(e)) /\ arrays' = Append(arrays, [j \in 0..0 |-> Len(rings')])
        /\ striped' = Len(arrays') /\ Release(r, "initialiseLocked", TRUE)
    BY <1>1, <1>4 DEF Initialise
  <2>2. Step(r, "initialiseLocked", "releaseAndReturn") /\ "releaseAndReturn" \in Labels
    BY <2>1 DEF Release, Labels
  <2>3. /\ pc'[r] = "releaseAndReturn" /\ pc' \in [Readers -> Labels]
        /\ \A q \in Readers : q # r => pc'[q] = pc[q] /\ my'[q] = my[q]
    BY <1>1, <2>2, StepOnly
  <2>4. e \in Elements
    BY <1>1, ElementAdded
  <2>5. /\ rings' \in Seq(Ring) /\ Len(rings') = Len(rings) + 1
        /\ \A n \in 1..Len(rings) : rings'[n] = rings[n]
        /\ rings'[Len(rings) + 1] = NewRing(e)
    <3> HIDE DEF e
    <3>1. QED
      BY <2>1, <2>4, RingAppended
  <2>6. Len(rings) = 0 /\ Len(arrays) = 0
    BY <1>2, <1>4 DEF Published
  <2>7. arrays' = Append(arrays, f)
    BY <2>1, <2>5, <2>6
  <2>8. /\ arrays' \in Seq(Array) /\ Len(arrays') = 1 /\ arrays'[1] = f
    <3> DEFINE one == 1
    <3>1. f \in [0..(one - 1) -> Nat] /\ one \in Lengths
      BY LengthsDouble
    <3> HIDE DEF f, one
    <3>2. /\ arrays' \in Seq(Array) /\ Len(arrays') = Len(arrays) + 1
          /\ arrays'[Len(arrays) + 1] = f
      BY <2>7, <3>1, ArrayAppended
    <3>3. QED
      BY <2>6, <3>2
  <2>9. ArraysGrow /\ ArrayTypes
    BY <2>1, <2>6, <2>8 DEF ArraysGrow, ArrayTypes
  <2>10. Published' /\ striped' # 0
    BY <2>1, <2>5, <2>6, <2>8 DEF Published
  <2>11. NewRingDoes(r)
    BY <1>1, <2>3, <2>4, <2>5, <2>9, <2>10 DEF NewRingDoes, OthersStay, Pending, Holding
  <2>12. QED
    BY <2>11
<1>5. QED
  BY <1>3, <1>4

\* A step of the drain leaves the readers and the arrays alone.
ReadersStay == UNCHANGED <<pc, my, added, refused, arrays, striped, busy>>

\* The drain goes on in the same array, past some stripes or not.
SameDrain == drain'.array = drain.array /\ drain' \in Drains

\* The drain begins.
BeginDoes ==
    /\ ReadersStay /\ UNCHANGED <<rings, taken>>
    /\ drain.pc = "off" /\ striped # 0
    /\ drain' \in Drains /\ drain'.pc = "stripe"
    /\ drain'.array = striped /\ drain'.stripe = 0 /\ ~drain'.stopped
    /\ before' = Waiting

\* It passes a stripe that has no ring.
SkipDoes ==
    /\ ReadersStay /\ UNCHANGED <<rings, taken, before>>
    /\ SameDrain /\ drain'.stopped = drain.stopped
    /\ drain.pc = "stripe" /\ drain.stripe < LenOf(drain.array)
    /\ arrays[drain.array][drain.stripe] = 0
    /\ drain'.pc = "stripe" /\ drain'.stripe = drain.stripe + 1

\* It comes to a ring.
EnterDoes ==
    /\ ReadersStay /\ UNCHANGED <<rings, taken, before>>
    /\ SameDrain /\ drain'.stopped = drain.stopped
    /\ drain.pc = "stripe" /\ drain.stripe < LenOf(drain.array)
    /\ drain'.pc = "tail" /\ drain'.stripe = drain.stripe
    /\ drain'.ring = arrays[drain.array][drain.stripe]
    /\ drain'.ring \in 1..Len(rings)
    /\ drain'.head = rings[drain'.ring].head

\* The ring it has come to is empty.
EmptyDoes ==
    /\ ReadersStay /\ UNCHANGED <<rings, taken, before>>
    /\ SameDrain /\ drain'.stopped = drain.stopped
    /\ drain.pc = "tail" /\ rings[drain.ring].tail = drain.head
    /\ drain'.pc = "stripe" /\ drain'.stripe = drain.stripe + 1

\* It is not.
TailDoes ==
    /\ ReadersStay /\ UNCHANGED <<rings, taken, before>>
    /\ SameDrain /\ drain'.stopped = drain.stopped
    /\ drain.pc = "tail"
    /\ drain'.pc = "slot" /\ drain'.stripe = drain.stripe
    /\ drain'.ring = drain.ring /\ drain'.head = drain.head
    /\ drain'.tail = rings[drain.ring].tail

\* It meets a slot that is reserved and not filled.
StopDoes ==
    /\ ReadersStay /\ UNCHANGED <<rings, taken, before>>
    /\ SameDrain /\ drain'.stopped
    /\ drain.pc = "slot" /\ drain.head # drain.tail
    /\ drain'.pc = "head" /\ drain'.stripe = drain.stripe
    /\ drain'.ring = drain.ring /\ drain'.head = drain.head /\ drain'.tail = drain.tail

\* It takes an element.
TakeDoes ==
    LET n == drain.ring
        j == drain.head % RingSize
    IN  /\ ReadersStay
        /\ SameDrain /\ drain'.stopped = drain.stopped
        /\ drain.pc = "slot" /\ drain.head # drain.tail
        /\ drain'.pc = "slot" /\ drain'.stripe = drain.stripe
        /\ drain'.ring = n /\ drain'.head = drain.head + 1 /\ drain'.tail = drain.tail
        /\ n \in 1..Len(rings) /\ j \in Slots /\ rings[n].buffer[j] \in Elements
        /\ taken' = taken \cup {rings[n].buffer[j]}
        /\ before' = before \ {rings[n].buffer[j]}
        /\ rings' \in Seq(Ring) /\ Len(rings') = Len(rings)
        /\ \A m \in 1..Len(rings) : m # n => rings'[m] = rings[m]
        /\ rings'[n].head = rings[n].head
        /\ rings'[n].tail = rings[n].tail
        /\ \A i \in Slots : rings'[n].buffer[i] = IF i = j THEN None ELSE rings[n].buffer[i]

\* It stores the head and goes on.
LeaveDoes ==
    LET n == drain.ring
    IN  /\ ReadersStay /\ UNCHANGED <<taken, before>>
        /\ SameDrain /\ drain'.stopped = drain.stopped
        /\ drain.pc = "head" \/ (drain.pc = "slot" /\ drain.head = drain.tail)
        /\ drain'.pc = "stripe" /\ drain'.stripe = drain.stripe + 1
        /\ n \in 1..Len(rings)
        /\ rings' \in Seq(Ring) /\ Len(rings') = Len(rings)
        /\ \A m \in 1..Len(rings) : m # n => rings'[m] = rings[m]
        /\ rings'[n].head = drain.head
        /\ rings'[n].tail = rings[n].tail
        /\ rings'[n].buffer = rings[n].buffer

\* It is through.
EndDoes ==
    /\ ReadersStay /\ UNCHANGED <<rings, taken>>
    /\ drain.pc = "stripe" /\ drain' \in Drains /\ drain'.pc = "off"
    /\ before' = {}

DrainDoes ==
    \/ BeginDoes \/ SkipDoes \/ EnterDoes \/ EmptyDoes \/ TailDoes \/ StopDoes \/ TakeDoes
    \/ LeaveDoes \/ EndDoes

\* These are the steps of the drain.
LEMMA DrainEffect == ASSUME Types, Published, DrainSound, Drain PROVE DrainDoes
<1> USE DEF ReadersStay, SameDrain, shared, Goto
<1>0. drain \in Drains
  BY DEF Types
<1>f. /\ drain.array \in Nat /\ drain.stripe \in Nat /\ drain.ring \in Nat /\ drain.head \in Nat
      /\ drain.tail \in Nat /\ drain.stopped \in BOOLEAN
  BY <1>0 DEF Drains
<1>1. CASE DrainTo
  <2>1. NoDrain \in Drains /\ striped \in Nat /\ NoDrain.stripe = 0 /\ ~NoDrain.stopped
    BY DEF NoDrain, Drains, Types
  <2> DEFINE new == [NoDrain EXCEPT !.pc = "stripe", !.array = striped]
  <2>2. /\ new \in Drains /\ new.pc = "stripe" /\ new.array = striped /\ new.stripe = 0 /\ ~new.stopped
    BY <2>1 DEF Drains
  <2>3. drain' = new
    BY <1>1 DEF DrainTo
  <2> HIDE DEF new
  <2>4. BeginDoes
    BY <1>1, <2>2, <2>3 DEF DrainTo, BeginDoes
  <2>5. QED
    BY <2>4 DEF DrainDoes
<1> DEFINE next == [drain EXCEPT !.pc = "stripe", !.stripe = @ + 1]
<1>n. /\ next \in Drains /\ next.pc = "stripe" /\ next.array = drain.array
      /\ next.stripe = drain.stripe + 1 /\ next.stopped = drain.stopped
  <2>1. drain.stripe + 1 \in Nat
    BY <1>f
  <2>2. QED
    BY <1>0, <2>1 DEF Drains
<1>2. CASE DrainStripe
  <2> DEFINE n == arrays[drain.array][drain.stripe]
  <2>1. /\ drain.pc = "stripe" /\ drain.stripe < LenOf(drain.array)
        /\ UNCHANGED <<shared, taken, before, pc, my, added, refused>>
    BY <1>2 DEF DrainStripe
  <2>2. drain.array \in 1..Len(arrays)
    BY <2>1 DEF DrainSound
  <2>3. drain.stripe \in DOMAIN arrays[drain.array]
    BY <1>f, <2>1, <2>2, ArrayLength
  <2>4. n \in 0..Len(rings) /\ Len(rings) \in Nat
    BY <2>2, <2>3 DEF Published, Types
  <2>5. CASE n = 0
    <3>1. drain' = next
      BY <1>2, <2>5 DEF DrainStripe
    <3> HIDE DEF next
    <3>2. SkipDoes
      BY <1>n, <2>1, <2>5, <3>1 DEF SkipDoes
    <3>3. QED
      BY <3>2 DEF DrainDoes
  <2>6. CASE n # 0
    <3>1. n \in 1..Len(rings) /\ n \in Nat /\ rings[n].head \in Nat
      BY <2>4, <2>6, RingFields
    <3> DEFINE h == rings[n].head
               new == [drain EXCEPT !.pc = "tail", !.ring = n, !.head = h]
    <3>2. drain' = new
      BY <1>2, <2>6 DEF DrainStripe
    <3>3. h \in Nat
      BY <3>1
    <3> HIDE DEF n, h
    <3>4. /\ new \in Drains /\ new.pc = "tail" /\ new.array = drain.array /\ new.stripe = drain.stripe
          /\ new.ring = n /\ new.head = h /\ new.stopped = drain.stopped
      BY <1>0, <3>1, <3>3 DEF Drains
    <3> HIDE DEF new
    <3>5. EnterDoes
      BY <2>1, <3>1, <3>2, <3>4 DEF EnterDoes, n, h
    <3>6. QED
      BY <3>5 DEF DrainDoes
  <2>7. QED
    BY <2>5, <2>6
<1>3. CASE DrainLoadTail
  <2> DEFINE tail == rings[drain.ring].tail
             new == [drain EXCEPT !.pc = "slot", !.tail = tail]
  <2>1. drain.pc = "tail" /\ UNCHANGED <<shared, taken, before, pc, my, added, refused>>
    BY <1>3 DEF DrainLoadTail
  <2>2. drain.ring \in 1..Len(rings)
    BY <2>1 DEF DrainSound, InRing
  <2>3. tail \in Nat
    BY <2>2, RingFields
  <2>4. CASE tail = drain.head
    <3>1. drain' = next
      BY <1>3, <2>4 DEF DrainLoadTail
    <3> HIDE DEF next
    <3>2. EmptyDoes
      BY <1>n, <2>1, <2>4, <3>1 DEF EmptyDoes
    <3>3. QED
      BY <3>2 DEF DrainDoes
  <2>5. CASE tail # drain.head
    <3>1. drain' = new
      BY <1>3, <2>5 DEF DrainLoadTail
    <3> HIDE DEF tail
    <3>2. /\ new \in Drains /\ new.pc = "slot" /\ new.array = drain.array /\ new.stripe = drain.stripe
          /\ new.ring = drain.ring /\ new.head = drain.head /\ new.stopped = drain.stopped
          /\ new.tail = tail
      BY <1>0, <2>3 DEF Drains
    <3> HIDE DEF new
    <3>3. TailDoes
      BY <2>1, <3>1, <3>2 DEF TailDoes, tail
    <3>4. QED
      BY <3>3 DEF DrainDoes
  <2>6. QED
    BY <2>4, <2>5
<1>4. CASE DrainSlot
  <2> DEFINE n == drain.ring
             j == drain.head % RingSize
             e == rings[n].buffer[j]
  <2>1. /\ drain.pc = "slot" /\ drain.head # drain.tail
        /\ UNCHANGED <<pc, my, added, refused, arrays, striped, busy>>
    BY <1>4 DEF DrainSlot
  <2>2. n \in 1..Len(rings)
    BY <2>1 DEF DrainSound, InRing
  <2>3. j \in Slots
    BY <1>f, ModRange, Constants DEF Slots
  <2>4. e \in Elements \cup {None} /\ rings[n].buffer \in [Slots -> Elements \cup {None}]
    BY <2>2, <2>3, RingFields
  <2>5. CASE e = None
    <3> DEFINE new == [drain EXCEPT !.pc = "head", !.stopped = TRUE]
    <3>1. drain' = new /\ UNCHANGED <<rings, taken, before>>
      BY <1>4, <2>5 DEF DrainSlot
    <3>2. /\ new \in Drains /\ new.pc = "head" /\ new.array = drain.array /\ new.stripe = drain.stripe
          /\ new.ring = n /\ new.head = drain.head /\ new.stopped /\ new.tail = drain.tail
      BY <1>0 DEF Drains
    <3> HIDE DEF new
    <3>3. StopDoes
      BY <2>1, <3>1, <3>2 DEF StopDoes
    <3>4. QED
      BY <3>3 DEF DrainDoes
  <2>6. CASE e # None
    <3> DEFINE new == [drain EXCEPT !.head = @ + 1]
               b == [rings[n].buffer EXCEPT ![j] = None]
               ring == [rings[n] EXCEPT !.buffer = b]
    <3>1. /\ drain' = new /\ taken' = taken \cup {e} /\ before' = before \ {e}
          /\ rings' = [rings EXCEPT ![n] = ring]
      BY <1>4, <2>6 DEF DrainSlot
    <3>2. e \in Elements
      BY <2>4, <2>6
    <3>3. drain.head + 1 \in Nat
      BY <1>f
    <3>4. /\ new \in Drains /\ new.pc = "slot" /\ new.array = drain.array /\ new.stripe = drain.stripe
          /\ new.ring = n /\ new.head = drain.head + 1 /\ new.stopped = drain.stopped /\ new.tail = drain.tail
      BY <1>0, <2>1, <3>3 DEF Drains
    <3> HIDE DEF new
    <3>5. /\ b \in [Slots -> Elements \cup {None}]
          /\ \A i \in Slots : b[i] = IF i = j THEN None ELSE rings[n].buffer[i]
      <4> HIDE DEF j
      <4>1. QED
        BY <2>3, <2>4
    <3> HIDE DEF b
    <3>6. ring \in Ring /\ ring.head = rings[n].head /\ ring.tail = rings[n].tail /\ ring.buffer = b
      BY <2>2, <3>5, RingFields DEF Ring
    <3> HIDE DEF ring
    <3>7. /\ rings' \in Seq(Ring) /\ Len(rings') = Len(rings) /\ rings'[n] = ring
          /\ \A m \in 1..Len(rings) : m # n => rings'[m] = rings[m]
      BY <2>2, <3>1, <3>6, Replaced
    <3>8. TakeDoes
      BY <2>1, <2>2, <2>3, <3>1, <3>2, <3>4, <3>5, <3>6, <3>7 DEF TakeDoes
    <3>9. QED
      BY <3>8 DEF DrainDoes
  <2>7. QED
    BY <2>5, <2>6
<1>5. CASE StoreHead
  <2> DEFINE n == drain.ring
             ring == [rings[n] EXCEPT !.head = drain.head]
  <2>1. /\ drain.pc = "head" \/ (drain.pc = "slot" /\ drain.head = drain.tail)
        /\ rings' = [rings EXCEPT ![n] = ring] /\ drain' = next
        /\ UNCHANGED <<pc, my, added, refused, arrays, striped, busy, taken, before>>
    BY <1>5 DEF StoreHead
  <2>2. n \in 1..Len(rings)
    BY <2>1 DEF DrainSound, InRing
  <2>3. /\ ring \in Ring /\ ring.head = drain.head /\ ring.tail = rings[n].tail
        /\ ring.buffer = rings[n].buffer
    BY <1>f, <2>2, RingFields DEF Ring
  <2> HIDE DEF ring, next
  <2>4. /\ rings' \in Seq(Ring) /\ Len(rings') = Len(rings) /\ rings'[n] = ring
        /\ \A m \in 1..Len(rings) : m # n => rings'[m] = rings[m]
    BY <2>1, <2>2, <2>3, Replaced
  <2>5. LeaveDoes
    BY <1>n, <2>1, <2>2, <2>3, <2>4 DEF LeaveDoes
  <2>6. QED
    BY <2>5 DEF DrainDoes
<1>6. CASE DrainEnd
  <2>1. NoDrain \in Drains /\ NoDrain.pc = "off"
    BY DEF NoDrain, Drains
  <2>2. EndDoes
    BY <1>6, <2>1 DEF DrainEnd, EndDoes
  <2>3. QED
    BY <2>2 DEF DrainDoes
<1>7. QED
  BY <1>1, <1>2, <1>3, <1>4, <1>5, <1>6 DEF Drain

\* The callers are where they were.
CallersStay == UNCHANGED <<pc, my, added, refused, busy>>

\* What a step does.
ReaderDoes(r) ==
    /\ DrainStays
    /\ LocalDoes(r) \/ CasTailDoes(r) \/ StoreDoes(r) \/ ExpandDoes(r) \/ NewRingDoes(r)

StepDoes == (\E r \in Readers : ReaderDoes(r)) \/ DrainDoes \/ UNCHANGED vars

\* Every step of the system does one of these.
LEMMA StepEffects ==
    ASSUME Types, Published, Callers, DrainSound, [Next]_vars PROVE StepDoes
<1>1. CASE \E r \in Readers : ReaderStep(r) /\ UNCHANGED <<drain, drains, taken, before>>
  <2>1. PICK r \in Readers : ReaderStep(r) /\ UNCHANGED <<drain, drains, taken, before>>
    BY <1>1
  <2>2. DrainStays
    BY <2>1 DEF DrainStays
  <2>3. CASE CasTail(r)
    BY <2>2, <2>3, CasTailEffect DEF ReaderDoes, StepDoes
  <2>4. CASE StoreElement(r)
    BY <2>2, <2>4, StoreEffect DEF ReaderDoes, StepDoes
  <2>5. CASE Attach(r)
    BY <2>2, <2>5, AttachEffect DEF ReaderDoes, StepDoes
  <2>6. CASE Double(r)
    BY <2>2, <2>6, DoubleEffect DEF ReaderDoes, StepDoes
  <2>7. CASE Initialise(r)
    BY <2>2, <2>7, InitialiseEffect DEF ReaderDoes, StepDoes
  <2>8. CASE \/ Add(r) \/ LoadFast(r) \/ LoadHead(r) \/ LoadTail(r) \/ CasFails(r) \/ LoadStriped(r)
             \/ LoadStripe(r) \/ Collision(r) \/ ReleaseBusy(r)
             \/ \E from \in {"attach", "double", "initialise"} :
                  TakeBusy(r, from) \/ TakeBusyFails(r, from)
    BY <2>2, <2>8, LocalEffect DEF ReaderDoes, StepDoes
  <2>9. QED
    BY <2>1, <2>3, <2>4, <2>5, <2>6, <2>7, <2>8 DEF ReaderStep
<1>2. CASE Drain
  BY <1>2, DrainEffect DEF StepDoes
<1>3. CASE UNCHANGED vars
  BY <1>3 DEF StepDoes
<1>4. QED
  BY <1>1, <1>2, <1>3 DEF Next

\* What is waiting is what the slots of all rings hold.
InSlots ==
    \A e : e \in Waiting <=>
             e # None /\ \E n \in 1..Len(rings) : \E j \in Slots : rings[n].buffer[j] = e

\* So it is: the published array has every ring.
LEMMA WaitingIs == Types /\ Published => InSlots
<1> SUFFICES ASSUME Types, Published PROVE InSlots
  OBVIOUS
<1> USE DEF InSlots
<1>1. ASSUME NEW n \in 1..Len(rings) PROVE Range(rings[n].buffer) = {rings[n].buffer[j] : j \in Slots}
  BY RingFields DEF Range
<1>2. CASE striped = 0
  <2>1. 1..Len(rings) = {}
    BY <1>2 DEF Published
  <2>2. Waiting = {}
    BY <1>2 DEF Waiting
  <2>3. QED
    BY <2>1, <2>2
<1>3. CASE striped # 0
  <2>1. striped \in 1..Len(arrays)
    BY <1>3 DEF Types
  <2>2. Range(arrays[striped]) \ {0} = 1..Len(rings)
    <3>1. ASSUME NEW n \in Range(arrays[striped]), n # 0 PROVE n \in 1..Len(rings)
      BY <2>1, <3>1 DEF Published, Range, Types
    <3>2. ASSUME NEW n \in 1..Len(rings) PROVE n \in Range(arrays[striped]) \ {0}
      BY <1>3, <2>1, <3>2 DEF Published, Range, Types
    <3>3. QED
      BY <3>1, <3>2
  <2>3. Waiting = (UNION {Range(rings[n].buffer) : n \in 1..Len(rings)}) \ {None}
    BY <1>3, <2>2 DEF Waiting
  <2> DEFINE In(n) == Range(rings[n].buffer)
  <2>4. SUFFICES ASSUME NEW e
        PROVE  e \in Waiting <=>
                 e # None /\ \E n \in 1..Len(rings) : \E j \in Slots : rings[n].buffer[j] = e
    OBVIOUS
  <2>5. \A n \in 1..Len(rings) : e \in In(n) <=> \E j \in Slots : rings[n].buffer[j] = e
    <3> TAKE n \in 1..Len(rings)
    <3>1. In(n) = {rings[n].buffer[j] : j \in Slots}
      BY <1>1
    <3>2. QED
      BY <3>1
  <2>6. Waiting = (UNION {In(n) : n \in 1..Len(rings)}) \ {None}
    BY <2>3
  <2> HIDE DEF In
  <2>7. e \in Waiting <=> e # None /\ \E n \in 1..Len(rings) : e \in In(n)
    <3> DEFINE Contents == {In(n) : n \in 1..Len(rings)}
    <3>1. Waiting = (UNION Contents) \ {None}
      BY <2>6
    <3>2. \A T : T \in Contents <=> \E n \in 1..Len(rings) : T = In(n)
      OBVIOUS
    <3> HIDE DEF Contents
    <3>3. e \in Waiting <=> e # None /\ \E T \in Contents : e \in T
      BY <3>1
    <3>4. QED
      BY <3>2, <3>3
  <2>8. QED
    BY <2>5, <2>7
<1>4. QED
  BY <1>2, <1>3

--------------------------------------------------------------------------------
(* Every step keeps the invariant *)

\* Rings and arrays are never lost, and heads and tails only grow.
Monotone ==
    /\ Len(rings') >= Len(rings) /\ ArraysGrow
    /\ \A n \in 1..Len(rings) : rings'[n].head >= rings[n].head /\ rings'[n].tail >= rings[n].tail

\* No step takes anything back.
LEMMA MonotoneStep == ASSUME Types, DrainSound, StepDoes PROVE Monotone
<1>0. /\ Len(rings) \in Nat /\ Len(arrays) \in Nat
      /\ \A n \in 1..Len(rings) : rings[n].head \in Nat /\ rings[n].tail \in Nat
  <2>1. Len(rings) \in Nat /\ Len(arrays) \in Nat
    BY DEF Types
  <2>2. QED
    BY <2>1, RingFields
<1>1. UNCHANGED arrays => Len(arrays') >= Len(arrays) /\ ArraysGrow
  BY <1>0 DEF ArraysGrow
<1>2. ASSUME NEW r \in Readers, ReaderDoes(r) PROVE Monotone
  <2>1. CASE LocalDoes(r)
    BY <1>0, <1>1, <2>1 DEF LocalDoes, Monotone
  <2>2. CASE CasTailDoes(r)
    BY SMTT(30), <1>0, <1>1, <2>2 DEF CasTailDoes, Monotone
  <2>3. CASE StoreDoes(r)
    <3>1. Len(rings') = Len(rings) /\ UNCHANGED arrays
      BY <2>3 DEF StoreDoes
    <3>2. \A n \in 1..Len(rings) : rings'[n].head = rings[n].head /\ rings'[n].tail = rings[n].tail
      BY <2>3 DEF StoreDoes
    <3>3. QED
      BY <1>0, <1>1, <3>1, <3>2 DEF Monotone
  <2>4. CASE ExpandDoes(r)
    BY <1>0, <2>4 DEF ExpandDoes, Monotone
  <2>5. CASE NewRingDoes(r)
    BY <1>0, <2>5 DEF NewRingDoes, Monotone
  <2>6. QED
    BY <1>2, <2>1, <2>2, <2>3, <2>4, <2>5 DEF ReaderDoes
<1>3. CASE DrainDoes
  <2>1. CASE TakeDoes
    BY <1>0, <1>1, <2>1 DEF TakeDoes, Monotone, ReadersStay
  <2>2. CASE LeaveDoes
    <3>1. rings[drain.ring].head <= drain.head
      BY <2>2 DEF LeaveDoes, DrainSound, InRing
    <3>2. drain.head \in Nat
      BY DEF Types, Drains
    <3>3. QED
      BY <1>0, <1>1, <2>2, <3>1, <3>2 DEF LeaveDoes, Monotone, ReadersStay
  <2>3. CASE UNCHANGED <<rings, arrays>>
    BY <1>0, <1>1, <2>3 DEF Monotone
  <2>4. QED
    BY <1>3, <2>1, <2>2, <2>3 DEF DrainDoes, BeginDoes, SkipDoes, EnterDoes, EmptyDoes, TailDoes,
       StopDoes, EndDoes, ReadersStay
<1>4. CASE UNCHANGED vars
  BY <1>0, <1>1, <1>4 DEF Monotone, vars, shared
<1>5. QED
  BY <1>2, <1>3, <1>4 DEF StepDoes

\* The variables stay in their ranges.
LEMMA TypesStep == ASSUME Types, Published, Callers, StepDoes PROVE Types'
<1> USE DEF Types
<1>1. ASSUME NEW r \in Readers, ReaderDoes(r) PROVE Types'
  <2>1. CASE LocalDoes(r)
    <3>1. refused' = refused \/ (pc[r] # "off" /\ refused' = refused \cup {Element(r)})
      BY <2>1 DEF LocalDoes, Pending
    <3>2. refused' \subseteq Elements
      BY <3>1, ElementAdded
    <3>3. added' \in [Readers -> Nat]
      BY <2>1 DEF LocalDoes
    <3>4. QED
      BY <1>1, <2>1, <3>2, <3>3 DEF LocalDoes, ReaderDoes, DrainStays
  <2>2. CASE CasTailDoes(r)
    BY <1>1, <2>2 DEF CasTailDoes, ReaderDoes, DrainStays
  <2>3. CASE StoreDoes(r)
    BY <1>1, <2>3 DEF StoreDoes, ReaderDoes, DrainStays
  <2>4. CASE ExpandDoes(r)
    BY <1>1, <2>4 DEF ExpandDoes, ReaderDoes, DrainStays, ArrayTypes
  <2>5. CASE NewRingDoes(r)
    BY <1>1, <2>5 DEF NewRingDoes, ReaderDoes, DrainStays, ArrayTypes
  <2>6. QED
    BY <1>1, <2>1, <2>2, <2>3, <2>4, <2>5 DEF ReaderDoes
<1>2. CASE DrainDoes
  <2>1. Waiting \subseteq Elements
    BY SMTT(30), WaitingIs, RingFields DEF InSlots
  <2>2. CASE BeginDoes
    BY <2>1, <2>2 DEF BeginDoes, ReadersStay
  <2>3. CASE TakeDoes
    BY <2>3 DEF TakeDoes, ReadersStay, SameDrain
  <2>4. CASE LeaveDoes
    BY <2>4 DEF LeaveDoes, ReadersStay, SameDrain
  <2>5. CASE EndDoes
    BY <2>5 DEF EndDoes, ReadersStay
  <2>6. QED
    BY <1>2, <2>2, <2>3, <2>4, <2>5 DEF DrainDoes, SkipDoes, EnterDoes, EmptyDoes, TailDoes,
       StopDoes, ReadersStay, SameDrain
<1>3. CASE UNCHANGED vars
  BY <1>3 DEF vars, shared
<1>4. QED
  BY <1>1, <1>2, <1>3 DEF StepDoes

\* The arrays name rings; the published one, all of them.
LEMMA PublishedStep == ASSUME Types, Published, StepDoes PROVE Published'
<1>1. CASE UNCHANGED <<arrays, striped>> /\ Len(rings') = Len(rings)
  BY <1>1 DEF Published
<1>2. ASSUME NEW r \in Readers, ReaderDoes(r) PROVE Published'
  BY <1>1, <1>2 DEF ReaderDoes, LocalDoes, CasTailDoes, StoreDoes, ExpandDoes, NewRingDoes
<1>3. CASE DrainDoes
  BY <1>1, <1>3 DEF DrainDoes, BeginDoes, SkipDoes, EnterDoes, EmptyDoes, TailDoes, StopDoes,
     TakeDoes, LeaveDoes, EndDoes, ReadersStay
<1>4. CASE UNCHANGED vars
  BY <1>1, <1>4 DEF vars, shared
<1>5. QED
  BY <1>2, <1>3, <1>4 DEF StepDoes

\* What a reader has read stays as old as it was.
LEMMA CallerKept ==
    ASSUME Types, Types', Callers, Monotone, NEW q \in Readers,
           pc'[q] = pc[q], my'[q] = my[q], added'[q] = added[q],
           busy = q => busy' = q
    PROVE  CallerSound(q)'
<1>1. CallerSound(q) /\ my[q] \in Calls
  BY DEF Callers, Types
<1>2. Len(rings) \in Nat /\ Len(arrays) \in Nat /\ Len(rings') \in Nat /\ Len(arrays') \in Nat
  BY DEF Types
<1>3. ASSUME pc[q] \in {"tail", "cas"} PROVE my[q].head <= rings'[my[q].ring].head
  <2> DEFINE n == my[q].ring
  <2>1. n \in 1..Len(rings) /\ my[q].head <= rings[n].head
    BY <1>1, <1>3 DEF CallerSound
  <2>2. rings'[n].head >= rings[n].head
    BY <2>1 DEF Monotone
  <2>3. rings[n].head \in Nat
    BY <2>1, RingFields
  <2>4. rings'[n] \in Ring
    BY <1>2, <2>1 DEF Types, Monotone
  <2>5. rings'[n].head \in Nat /\ my[q].head \in Nat
    BY <1>1, <2>4 DEF Ring, Calls
  <2>6. QED
    BY SMTT(30), <2>1, <2>2, <2>3, <2>5
<1>4. ASSUME pc[q] \in {"double", "doubleLocked"} PROVE LenOf(my[q].array)' # MaxLen
  <2>1. my[q].array \in 1..Len(arrays) /\ LenOf(my[q].array) # MaxLen
    BY <1>1, <1>4 DEF CallerSound, InArray
  <2>2. DOMAIN arrays'[my[q].array] = DOMAIN arrays[my[q].array]
    BY <2>1 DEF Monotone, ArraysGrow
  <2>3. QED
    BY <2>1, <2>2 DEF LenOf
<1>5. QED
  BY <1>1, <1>2, <1>3, <1>4 DEF CallerSound, Monotone, ArraysGrow, Calls

\* Every step keeps what the readers have read sound.
LEMMA CallersStep == ASSUME Types, Types', Callers, Monotone, StepDoes PROVE Callers'
<1>0. None \notin Readers
  BY Constants
<1>1. ASSUME NEW r \in Readers, ReaderDoes(r) PROVE Callers'
  <2>1. \A q \in Readers : q # r => pc'[q] = pc[q] /\ my'[q] = my[q] /\ added'[q] = added[q]
    BY <1>1 DEF ReaderDoes, LocalDoes, CasTailDoes, StoreDoes, ExpandDoes, NewRingDoes, OthersStay
  <2>2. \A q \in Readers : q # r => (busy = q => busy' = q)
    BY <1>0, <1>1 DEF ReaderDoes, LocalDoes, CasTailDoes, StoreDoes, ExpandDoes, NewRingDoes
  <2>3. \A q \in Readers : q # r => CallerSound(q)'
    BY <2>1, <2>2, CallerKept
  <2>4. CallerSound(r)'
    <3>0. CallerSound(r)
      BY DEF Callers
    <3>1. CASE LocalDoes(r)
      BY <3>1 DEF LocalDoes
    <3>2. CASE CasTailDoes(r)
      BY <3>0, <3>2 DEF CasTailDoes, CallerSound, InArray, Holding
    <3>3. CASE StoreDoes(r)
      BY <3>3 DEF StoreDoes, CallerSound, InArray, Holding
    <3>4. CASE ExpandDoes(r)
      BY <3>0, <3>4 DEF ExpandDoes, CallerSound, InArray, Holding, Pending
    <3>5. CASE NewRingDoes(r)
      BY <3>0, <3>5 DEF NewRingDoes, CallerSound, InArray, Holding, Pending
    <3>6. QED
      BY <1>1, <3>1, <3>2, <3>3, <3>4, <3>5 DEF ReaderDoes
  <2>5. QED
    BY <2>3, <2>4 DEF Callers
<1>2. CASE UNCHANGED <<pc, my, added, busy>>
  BY <1>2, CallerKept DEF Callers
<1>3. QED
  BY <1>1, <1>2 DEF StepDoes, DrainDoes, BeginDoes, SkipDoes, EnterDoes, EmptyDoes, TailDoes, StopDoes,
     TakeDoes, LeaveDoes, EndDoes, ReadersStay, vars, shared

\* The drain stays in a ring of its array, and does not pass its tail.
LEMMA DrainSoundStep == ASSUME Types, Types', Published, DrainSound, RingsBounded, Monotone, StepDoes PROVE DrainSound'
<1>0. /\ Len(rings) \in Nat /\ Len(arrays) \in Nat /\ Len(rings') \in Nat /\ Len(arrays') \in Nat
      /\ \A n \in 1..Len(rings) : rings[n].head \in Nat /\ rings[n].tail \in Nat
      /\ \A n \in 1..Len(rings') : rings'[n].head \in Nat /\ rings'[n].tail \in Nat
  <2>1. /\ Len(rings) \in Nat /\ Len(arrays) \in Nat /\ Len(rings') \in Nat /\ Len(arrays') \in Nat
        /\ \A n \in 1..Len(rings) : rings[n] \in Ring
        /\ \A n \in 1..Len(rings') : rings'[n] \in Ring
    BY DEF Types
  <2>2. QED
    BY <2>1 DEF Ring
<1>f. /\ drain.array \in Nat /\ drain.stripe \in Nat /\ drain.ring \in Nat /\ drain.head \in Nat
      /\ drain.tail \in Nat /\ drain.stopped \in BOOLEAN
  BY DEF Types, Drains
<1>a. \A a \in 1..Len(arrays) : LenOf(a)' = LenOf(a) /\ LenOf(a) \in Nat \ {0}
  <2> TAKE a \in 1..Len(arrays)
  <2>1. DOMAIN arrays'[a] = DOMAIN arrays[a]
    BY DEF Monotone, ArraysGrow
  <2>2. QED
    BY <2>1, ArrayLength DEF LenOf
<1>1. ASSUME NEW r \in Readers, ReaderDoes(r) PROVE DrainSound'
  <2>1. drain' = drain
    BY <1>1 DEF ReaderDoes, DrainStays
  <2>2. drain.pc # "off" => drain.array \in 1..Len(arrays') /\ drain.stripe \in 0..LenOf(drain.array)'
    BY <1>0, <1>f, <1>a, <2>1 DEF DrainSound, Monotone, ArraysGrow
  <2>3. ASSUME drain.pc \in InRing
        PROVE  /\ drain.stripe < LenOf(drain.array)'
               /\ drain.ring = arrays'[drain.array][drain.stripe]
               /\ drain.ring \in 1..Len(rings')
               /\ rings'[drain.ring].head = rings[drain.ring].head
               /\ rings'[drain.ring].tail >= rings[drain.ring].tail
    <3>1. /\ drain.array \in 1..Len(arrays) /\ drain.stripe < LenOf(drain.array)
          /\ drain.ring = arrays[drain.array][drain.stripe]
          /\ drain.ring \in 1..Len(rings)
      BY <2>3 DEF DrainSound, InRing
    <3>2. drain.stripe \in DOMAIN arrays[drain.array]
      BY <1>f, <3>1, ArrayLength
    <3>3. arrays'[drain.array][drain.stripe] = arrays[drain.array][drain.stripe]
      <4>1. drain.ring # 0
        BY <1>0, <3>1
      <4>2. QED
        BY <3>1, <3>2, <4>1 DEF Monotone, ArraysGrow
    <3>4. rings'[drain.ring].head = rings[drain.ring].head
      BY <1>1, <3>1 DEF ReaderDoes, LocalDoes, CasTailDoes, StoreDoes, ExpandDoes, NewRingDoes
    <3>5. drain.ring \in 1..Len(rings') /\ rings'[drain.ring].tail >= rings[drain.ring].tail
      BY SMTT(30), <1>0, <3>1 DEF Monotone
    <3>6. QED
      BY <1>a, <2>1, <3>1, <3>3, <3>4, <3>5
  <2>4. ASSUME drain.pc \in InRing PROVE rings'[drain.ring].tail \in Nat /\ rings[drain.ring].tail \in Nat
    BY <1>0, <2>3, <2>4 DEF DrainSound
  <2>5. QED
    BY SMTT(30), <1>f, <2>1, <2>2, <2>3, <2>4 DEF DrainSound, InRing
<1>2. CASE BeginDoes
  <2>1. striped \in 1..Len(arrays)
    BY <1>2 DEF BeginDoes, Types
  <2>2. QED
    BY <1>0, <1>2, <1>a, <2>1 DEF BeginDoes, DrainSound, ReadersStay, InRing
<1>3. CASE SkipDoes
  BY <1>0, <1>f, <1>a, <1>3 DEF SkipDoes, SameDrain, DrainSound, ReadersStay, InRing
<1>4. CASE EnterDoes
  BY <1>0, <1>f, <1>a, <1>4 DEF EnterDoes, SameDrain, DrainSound, ReadersStay, InRing
<1>5. CASE EmptyDoes
  BY SMTT(30), <1>0, <1>f, <1>a, <1>5 DEF EmptyDoes, SameDrain, DrainSound, ReadersStay, InRing
<1>6. CASE TailDoes
  <2>1. /\ drain.ring \in 1..Len(rings) /\ rings[drain.ring].head = drain.head
    BY <1>6 DEF TailDoes, DrainSound, InRing
  <2>2. drain.head <= rings[drain.ring].tail
    BY <1>6, <2>1 DEF TailDoes, RingsBounded, LowHead, InRing
  <2>3. QED
    BY <1>0, <1>f, <1>a, <1>6, <2>1, <2>2 DEF TailDoes, SameDrain, DrainSound, ReadersStay, InRing
<1>7. CASE StopDoes
  BY SMTT(30), <1>0, <1>f, <1>a, <1>7 DEF StopDoes, SameDrain, DrainSound, ReadersStay, InRing
<1>8. CASE TakeDoes
  <2>1. /\ drain.ring \in 1..Len(rings) /\ rings[drain.ring].head <= drain.head
        /\ drain.head <= drain.tail /\ drain.head # drain.tail
        /\ drain.array \in 1..Len(arrays) /\ drain.stripe \in 0..LenOf(drain.array)
        /\ drain.stripe < LenOf(drain.array)
        /\ drain.ring = arrays[drain.array][drain.stripe]
        /\ drain.tail <= rings[drain.ring].tail
    BY SMTT(30), <1>8 DEF TakeDoes, DrainSound, InRing
  <2>a. /\ rings'[drain.ring].head = rings[drain.ring].head
        /\ rings'[drain.ring].tail = rings[drain.ring].tail
        /\ rings[drain.ring].head \in Nat
    BY <1>0, <1>8, <2>1 DEF TakeDoes
  <2>2. /\ rings'[drain.ring].head <= drain.head + 1 /\ drain.head + 1 <= drain.tail
        /\ drain.tail <= rings'[drain.ring].tail
    BY SMTT(30), <1>f, <2>1, <2>a
  <2>3. QED
    BY <1>0, <1>f, <1>a, <1>8, <2>1, <2>2 DEF TakeDoes, SameDrain, DrainSound, ReadersStay, InRing
<1>9. CASE LeaveDoes
  BY SMTT(30), <1>0, <1>f, <1>a, <1>9 DEF LeaveDoes, SameDrain, DrainSound, ReadersStay, InRing
<1>10. CASE EndDoes
  BY <1>10 DEF EndDoes, DrainSound, InRing
<1>11. CASE UNCHANGED vars
  BY <1>11 DEF DrainSound, vars, shared, LenOf
<1>12. QED
  BY <1>1, <1>2, <1>3, <1>4, <1>5, <1>6, <1>7, <1>8, <1>9, <1>10, <1>11 DEF StepDoes, DrainDoes

\* Heads and tails are numbers, and a ring is emptied from its head on.
LEMMA HeadsTails ==
    ASSUME Types, DrainSound, NEW n \in 1..Len(rings)
    PROVE  /\ rings[n].head \in Nat /\ rings[n].tail \in Nat /\ LowHead(n) \in Nat
           /\ rings[n].head <= LowHead(n)
<1>1. drain.head \in Nat
  BY DEF Types, Drains
<1>2. rings[n].head \in Nat /\ rings[n].tail \in Nat
  BY RingFields
<1>3. QED
  BY <1>1, <1>2 DEF DrainSound, LowHead, InRing

\* Only taking an element changes how far a ring has been emptied.
LEMMA LowHeadStep ==
    ASSUME Types, DrainSound, StepDoes
    PROVE  /\ \A n \in 1..Len(rings) :
                /\ ~(TakeDoes /\ n = drain.ring) => LowHead(n)' = LowHead(n)
                /\ TakeDoes /\ n = drain.ring => LowHead(n)' = LowHead(n) + 1
           /\ Len(rings') # Len(rings) => Len(rings') = Len(rings) + 1 /\ LowHead(Len(rings))' = 0
<1>0. Len(rings) \in Nat /\ drain.head \in Nat
  BY DEF Types, Drains
<1>1. ASSUME NEW r \in Readers, ReaderDoes(r)
      PROVE  /\ \A n \in 1..Len(rings) : LowHead(n)' = LowHead(n)
             /\ Len(rings') # Len(rings) => Len(rings') = Len(rings) + 1 /\ LowHead(Len(rings))' = 0
             /\ ~TakeDoes
  <2>1. drain' = drain
    BY <1>1 DEF ReaderDoes, DrainStays
  <2>2. \A n \in 1..Len(rings) : rings'[n].head = rings[n].head
    BY <1>1 DEF ReaderDoes, LocalDoes, CasTailDoes, StoreDoes, ExpandDoes, NewRingDoes
  <2>3. \A n \in 1..Len(rings) : LowHead(n)' = LowHead(n)
    BY <2>1, <2>2 DEF LowHead
  <2>4. ASSUME Len(rings') # Len(rings)
        PROVE  Len(rings') = Len(rings) + 1 /\ LowHead(Len(rings))' = 0
    <3>1. NewRingDoes(r)
      BY <1>1, <2>4 DEF ReaderDoes, LocalDoes, CasTailDoes, StoreDoes, ExpandDoes
    <3>2. rings'[Len(rings) + 1].head = 0
      BY <3>1, NewRingType DEF NewRingDoes
    <3>3. ~(drain.pc \in InRing /\ drain.ring = Len(rings) + 1)
      BY <1>0 DEF DrainSound
    <3>4. Len(rings)' = Len(rings) + 1
      BY <3>1 DEF NewRingDoes
    <3>5. QED
      BY <2>1, <3>2, <3>3, <3>4 DEF LowHead
  <2>5. ~TakeDoes
    BY <1>0, <2>1 DEF TakeDoes
  <2>6. QED
    BY <2>3, <2>4, <2>5
<1>2. CASE TakeDoes
  BY <1>0, <1>2 DEF TakeDoes, LowHead, InRing
<1>3. CASE LeaveDoes
  BY <1>0, <1>3 DEF LeaveDoes, TakeDoes, LowHead, InRing
<1>4. CASE TailDoes \/ StopDoes \/ EmptyDoes
  BY <1>0, <1>4 DEF TailDoes, StopDoes, EmptyDoes, TakeDoes, LowHead, InRing, DrainSound
<1>5. CASE BeginDoes \/ SkipDoes \/ EnterDoes \/ EndDoes
  BY <1>0, <1>5 DEF BeginDoes, SkipDoes, EnterDoes, EndDoes, TakeDoes, LowHead, InRing
<1>6. CASE UNCHANGED vars
  BY <1>0, <1>6 DEF TakeDoes, LowHead, vars, shared
<1>7. QED
  BY <1>1, <1>2, <1>3, <1>4, <1>5, <1>6 DEF StepDoes, DrainDoes

\* A reader whose CAS on the tail succeeds has seen room in the ring.
LEMMA CasTailRoom ==
    ASSUME Types, Callers, NEW r \in Readers, CasTailDoes(r)
    PROVE  rings[my[r].ring].tail - rings[my[r].ring].head < RingSize
<1>1. /\ my[r].ring \in 1..Len(rings) /\ my[r].head <= rings[my[r].ring].head
      /\ my[r].tail - my[r].head < RingSize /\ rings[my[r].ring].tail = my[r].tail
  BY DEF CasTailDoes, Callers, CallerSound
<1>2. /\ rings[my[r].ring].tail \in Nat /\ rings[my[r].ring].head \in Nat
      /\ my[r].head \in Nat /\ my[r].tail \in Nat
  BY <1>1, RingFields DEF Types, Calls
<1>3. RingSize \in Nat
  BY Constants
<1>4. ASSUME NEW t \in Nat, NEW h \in Nat, NEW g \in Nat, t - g < RingSize, g <= h PROVE t - h < RingSize
  BY <1>3, <1>4
<1>5. QED
  BY <1>1, <1>2, <1>4

\* A ring never has more slots between head and tail than it has.
LEMMA RingsBoundedStep ==
    ASSUME Types, Types', Callers, DrainSound, DrainSound', RingsBounded, StepDoes PROVE RingsBounded'
<1>1. SUFFICES ASSUME NEW n \in 1..Len(rings')
      PROVE  LowHead(n)' <= rings'[n].tail /\ rings'[n].tail <= rings'[n].head + RingSize
  BY DEF RingsBounded
<1>2. RingSize \in Nat \ {0} /\ Len(rings) \in Nat /\ drain.head \in Nat /\ drain.tail \in Nat
  BY Constants DEF Types, Drains
<1>3. CASE n \notin 1..Len(rings)
  <2>1. PICK r \in Readers : NewRingDoes(r)
    BY <1>3 DEF StepDoes, ReaderDoes, LocalDoes, CasTailDoes, StoreDoes, ExpandDoes, DrainDoes,
       BeginDoes, SkipDoes, EnterDoes, EmptyDoes, TailDoes, StopDoes, TakeDoes, LeaveDoes, EndDoes,
       vars, shared
  <2>2. /\ Len(rings') = Len(rings) + 1 /\ n = Len(rings')
        /\ rings'[n].head = 0 /\ rings'[n].tail = 1
    BY <1>2, <1>3, <2>1, NewRingType DEF NewRingDoes
  <2>3. LowHead(n)' = 0
    BY <1>2, <2>2, LowHeadStep
  <2>4. QED
    BY SMTT(30), <1>2, <2>2, <2>3
<1>4. CASE n \in 1..Len(rings)
  <2>1. /\ rings[n].head \in Nat /\ rings[n].tail \in Nat /\ LowHead(n) \in Nat
        /\ LowHead(n) <= rings[n].tail /\ rings[n].tail <= rings[n].head + RingSize
    BY <1>4, HeadsTails DEF RingsBounded
  <2>2. CASE TakeDoes
    <3>1. rings'[n].head = rings[n].head /\ rings'[n].tail = rings[n].tail
      BY <1>4, <2>2 DEF TakeDoes
    <3>2. CASE n = drain.ring
      <4>1. LowHead(n) = drain.head /\ drain.head < rings[n].tail
        BY <1>2, <2>1, <2>2, <3>2 DEF TakeDoes, LowHead, InRing, DrainSound
      <4>2. LowHead(n)' = LowHead(n) + 1
        BY <1>4, <2>2, <3>2, LowHeadStep
      <4>3. QED
        BY <1>2, <2>1, <3>1, <4>1, <4>2
    <3>3. CASE n # drain.ring
      BY <1>4, <2>1, <3>1, <3>3, LowHeadStep
    <3>4. QED
      BY <3>2, <3>3
  <2>3. CASE LeaveDoes
    <3>1. ~TakeDoes
      BY <2>3 DEF LeaveDoes, TakeDoes
    <3>2. LowHead(n)' = LowHead(n) /\ rings'[n].tail = rings[n].tail
      BY <1>4, <2>3, <3>1, LowHeadStep DEF LeaveDoes
    <3>3. rings'[n].head = rings[n].head \/ (rings'[n].head = drain.head /\ rings[n].head <= drain.head)
      BY <1>4, <2>3 DEF LeaveDoes, DrainSound, InRing
    <3>4. QED
      BY <1>2, <2>1, <3>2, <3>3
  <2>4. ASSUME NEW r \in Readers, CasTailDoes(r), ~TakeDoes
        PROVE  LowHead(n)' <= rings'[n].tail /\ rings'[n].tail <= rings'[n].head + RingSize
    <3>1. LowHead(n)' = LowHead(n)
      BY <1>4, <2>4, LowHeadStep
    <3>2. CASE n = my[r].ring
      <4>1. rings[n].tail - rings[n].head < RingSize
        BY <2>4, <3>2, CasTailRoom
      <4>2. rings'[n].head = rings[n].head /\ rings'[n].tail = rings[n].tail + 1
        BY <2>4, <3>2 DEF CasTailDoes
      <4>3. QED
        BY <1>2, <2>1, <3>1, <4>1, <4>2
    <3>3. CASE n # my[r].ring
      BY <1>2, <1>4, <2>1, <2>4, <3>1, <3>3 DEF CasTailDoes
    <3>4. QED
      BY <3>2, <3>3
  <2>5. CASE rings'[n].head = rings[n].head /\ rings'[n].tail = rings[n].tail /\ ~TakeDoes
    BY <1>4, <2>1, <2>5, LowHeadStep
  <2>6. QED
    BY <1>4, <2>2, <2>3, <2>4, <2>5 DEF StepDoes, ReaderDoes, LocalDoes, StoreDoes, ExpandDoes,
       NewRingDoes, DrainDoes, BeginDoes, SkipDoes, EnterDoes, EmptyDoes, TailDoes, StopDoes, EndDoes,
       vars, shared
<1>5. QED
  BY <1>3, <1>4

\* A ring that was not there is the new one.
LEMMA RingAdded ==
    ASSUME Types, StepDoes, NEW n \in 1..Len(rings'), n \notin 1..Len(rings)
    PROVE  \E r \in Readers :
             /\ NewRingDoes(r) /\ DrainStays
             /\ Len(rings') = Len(rings) + 1 /\ n = Len(rings') /\ rings'[n] = NewRing(Element(r))
<1>1. Len(rings') # Len(rings) /\ Len(rings) \in Nat
  BY SMTT(30) DEF Types
<1>2. PICK r \in Readers : NewRingDoes(r) /\ DrainStays
  BY <1>1 DEF StepDoes, ReaderDoes, LocalDoes, CasTailDoes, StoreDoes, ExpandDoes, DrainDoes,
     BeginDoes, SkipDoes, EnterDoes, EmptyDoes, TailDoes, StopDoes, TakeDoes, LeaveDoes, EndDoes,
     ReadersStay, vars, shared
<1>3. Len(rings') = Len(rings) + 1 /\ rings'[Len(rings) + 1] = NewRing(Element(r))
  BY <1>2 DEF NewRingDoes
<1>4. QED
  BY <1>1, <1>2, <1>3

\* How the slots of a ring change: one that was empty is filled, the one at the head is
\* emptied, or nothing.
LEMMA SlotStep ==
    ASSUME Types, StepDoes, NEW n \in 1..Len(rings), NEW j \in Slots
    PROVE  \/ rings'[n].buffer[j] = rings[n].buffer[j]
           \/ \E r \in Readers : /\ StoreDoes(r) /\ DrainStays /\ n = my[r].ring
                                 /\ j = my[r].tail % RingSize /\ rings'[n].buffer[j] = Element(r)
           \/ /\ TakeDoes /\ n = drain.ring /\ j = drain.head % RingSize
              /\ rings'[n].buffer[j] = None
<1>1. ASSUME NEW r \in Readers, ReaderDoes(r)
      PROVE  \/ rings'[n].buffer[j] = rings[n].buffer[j]
             \/ /\ StoreDoes(r) /\ DrainStays /\ n = my[r].ring
                /\ j = my[r].tail % RingSize /\ rings'[n].buffer[j] = Element(r)
  <2>0. DrainStays
    BY <1>1 DEF ReaderDoes
  <2>1. CASE StoreDoes(r)
    <3>1. CASE n = my[r].ring
      BY <2>0, <2>1, <3>1 DEF StoreDoes
    <3>2. CASE n # my[r].ring
      BY <2>1, <3>2 DEF StoreDoes
    <3>3. QED
      BY <3>1, <3>2
  <2>2. CASE CasTailDoes(r)
    <3>1. CASE n = my[r].ring
      BY <2>2, <3>1 DEF CasTailDoes
    <3>2. CASE n # my[r].ring
      BY <2>2, <3>2 DEF CasTailDoes
    <3>3. QED
      BY <3>1, <3>2
  <2>3. CASE LocalDoes(r) \/ ExpandDoes(r) \/ NewRingDoes(r)
    BY <2>3 DEF LocalDoes, ExpandDoes, NewRingDoes
  <2>4. QED
    BY <1>1, <2>1, <2>2, <2>3 DEF ReaderDoes
<1>2. CASE TakeDoes
  <2>1. CASE n = drain.ring
    BY <1>2, <2>1 DEF TakeDoes
  <2>2. CASE n # drain.ring
    BY <1>2, <2>2 DEF TakeDoes
  <2>3. QED
    BY <2>1, <2>2, <1>2
<1>3. CASE LeaveDoes
  <2>1. CASE n = drain.ring
    BY <1>3, <2>1 DEF LeaveDoes
  <2>2. CASE n # drain.ring
    BY <1>3, <2>2 DEF LeaveDoes
  <2>3. QED
    BY <2>1, <2>2
<1>4. CASE UNCHANGED rings
  BY <1>4
<1>5. QED
  BY <1>1, <1>2, <1>3, <1>4 DEF StepDoes, DrainDoes, BeginDoes, SkipDoes, EnterDoes, EmptyDoes,
     TailDoes, StopDoes, EndDoes, vars, shared

\* Two numbers in the window of a ring are less than its size apart.
LEMMA WindowNarrow ==
    ASSUME Types, DrainSound, RingsBounded, NEW n \in 1..Len(rings),
           NEW i, NEW k, InWindow(n, i), InWindow(n, k), i % RingSize = k % RingSize
    PROVE  i = k
<1>1. /\ rings[n].head \in Nat /\ rings[n].tail \in Nat /\ LowHead(n) \in Nat
      /\ rings[n].head <= LowHead(n) /\ rings[n].tail <= rings[n].head + RingSize
  BY HeadsTails DEF RingsBounded
<1>2. i \in Nat /\ k \in Nat /\ RingSize \in Nat \ {0}
  BY Constants DEF InWindow
<1>3. i - k < RingSize /\ k - i < RingSize
  BY <1>1, <1>2 DEF InWindow
<1>4. ~(i < k) /\ ~(k < i)
  BY <1>2, <1>3, ModApart
<1>5. QED
  BY <1>2, <1>4

\* What is in the window stays there, but for what the drain takes.
LEMMA WindowKept ==
    ASSUME Types, Types', DrainSound, Monotone, StepDoes, NEW n \in 1..Len(rings), NEW i, InWindow(n, i)
    PROVE  InWindow(n, i)' \/ (TakeDoes /\ n = drain.ring /\ i = drain.head)
<1>1. /\ i \in Nat /\ LowHead(n) <= i /\ i < rings[n].tail
      /\ rings[n].tail \in Nat /\ LowHead(n) \in Nat /\ rings'[n].tail >= rings[n].tail
  BY HeadsTails DEF InWindow, Monotone
<1>2. rings'[n].tail \in Nat
  <2>1. n \in 1..Len(rings') /\ rings'[n] \in Ring
    BY DEF Monotone, Types
  <2>2. QED
    BY <2>1 DEF Ring
<1>3. CASE TakeDoes /\ n = drain.ring
  <2>1. LowHead(n)' = LowHead(n) + 1 /\ LowHead(n) = drain.head
    BY <1>3, LowHeadStep DEF LowHead, TakeDoes, InRing
  <2>2. QED
    BY <1>1, <1>2, <1>3, <2>1 DEF InWindow
<1>4. CASE ~(TakeDoes /\ n = drain.ring)
  <2>1. LowHead(n)' = LowHead(n)
    BY <1>4, LowHeadStep
  <2>2. QED
    BY <1>1, <1>2, <2>1 DEF InWindow
<1>5. QED
  BY <1>3, <1>4

\* A full slot lies between the head and the tail.
LEMMA WindowStep ==
    ASSUME Types, Types', DrainSound, Monotone, Window, Reserved, StepDoes PROVE Window'
<1>1. SUFFICES ASSUME NEW n \in 1..Len(rings'), NEW j \in Slots, rings'[n].buffer[j] # None
      PROVE  \E i \in Nat : InWindow(n, i)' /\ i % RingSize = j
  BY DEF Window
<1>2. RingSize \in Nat \ {0}
  BY Constants
<1>3. CASE n \notin 1..Len(rings)
  <2>1. PICK r \in Readers : /\ NewRingDoes(r) /\ Len(rings') = Len(rings) + 1 /\ n = Len(rings')
                             /\ rings'[n] = NewRing(Element(r))
    BY <1>3, RingAdded
  <2>2. j = 0 /\ rings'[n].tail = 1
    BY <1>1, <2>1, NewRingType DEF NewRingDoes
  <2>3. LowHead(n)' = 0
    BY <2>1, LowHeadStep DEF Types
  <2>4. InWindow(n, 0)' /\ 0 % RingSize = 0
    BY <1>2, <2>2, <2>3 DEF InWindow
  <2>5. QED
    BY <2>2, <2>4
<1>4. CASE n \in 1..Len(rings)
  <2>1. CASE rings'[n].buffer[j] = rings[n].buffer[j]
    <3>1. PICK i \in Nat : InWindow(n, i) /\ i % RingSize = j
      BY <1>1, <1>4, <2>1 DEF Window
    <3>2. CASE TakeDoes /\ n = drain.ring /\ i = drain.head
      <4>1. rings'[n].buffer[j] = None
        BY <3>1, <3>2 DEF TakeDoes
      <4>2. QED
        BY <1>1, <4>1
    <3>3. QED
      BY <1>4, <3>1, <3>2, WindowKept
  <2>2. ASSUME NEW r \in Readers, StoreDoes(r), n = my[r].ring, j = my[r].tail % RingSize
        PROVE  \E i \in Nat : InWindow(n, i)' /\ i % RingSize = j
    <3>1. PICK i \in Nat : i = my[r].tail
      BY DEF Types, Calls
    <3>2. InWindow(n, i) /\ i % RingSize = j
      BY <2>2, <3>1 DEF StoreDoes, Reserved
    <3>3. ~TakeDoes \/ n # drain.ring \/ i # drain.head
      BY <1>1, <2>2, <3>1 DEF TakeDoes
    <3>4. InWindow(n, i)'
      BY <1>4, <3>2, <3>3, WindowKept
    <3>5. QED
      BY <3>2, <3>4
  <2>3. QED
    BY <1>1, <1>4, <2>1, <2>2, SlotStep
<1>5. QED
  BY <1>3, <1>4

\* A slot that is reserved stays so until its reader fills it.
LEMMA ReservedKept ==
    ASSUME Types, Types', Published, Callers, DrainSound, RingsBounded, Monotone, Reserved, StepDoes,
           NEW q \in Readers, pc[q] = "store", my'[q] = my[q],
           \A r \in Readers : StoreDoes(r) => r # q
    PROVE  /\ InWindow(my[q].ring, my[q].tail)'
           /\ rings'[my[q].ring].buffer[my[q].tail % RingSize] = None
<1> DEFINE n == my[q].ring
           i == my[q].tail
           j == i % RingSize
<1>1. n \in 1..Len(rings) /\ i \in Nat /\ my'[q].ring = n /\ my'[q].tail = i
  BY DEF Callers, CallerSound, Types, Calls
<1>2. InWindow(n, i) /\ rings[n].buffer[j] = None
  BY DEF Reserved
<1>3. j \in Slots
  BY <1>1, ModRange, Constants DEF Slots
<1>4. ~(TakeDoes /\ n = drain.ring /\ i = drain.head)
  BY <1>2, Constants DEF TakeDoes
<1>5. InWindow(n, i)'
  <2>1. InWindow(my[q].ring, my[q].tail)' <=> (i \in Nat /\ LowHead(my[q].ring)' <= i /\ i < rings'[n].tail)
    BY <1>1 DEF InWindow
  <2>2. PICK m \in 1..Len(rings), k \in Nat : m = n /\ k = i
    BY <1>1
  <2>3. InWindow(m, k)'
    BY <1>2, <1>4, <2>2, WindowKept
  <2>4. QED
    BY <1>1, <2>2, <2>3 DEF InWindow, LowHead
<1>6. rings'[n].buffer[j] = None
  <2>1. CASE rings'[n].buffer[j] = rings[n].buffer[j]
    BY <1>2, <2>1
  <2>2. ASSUME NEW r \in Readers, StoreDoes(r), n = my[r].ring, j = my[r].tail % RingSize PROVE FALSE
    <3>1. r # q /\ pc[r] = "store"
      BY <2>2 DEF StoreDoes
    <3>2. InWindow(n, my[r].tail) /\ my[r].tail # i
      BY SMTT(30), <2>2, <3>1 DEF Reserved
    <3>3. QED
      BY <1>1, <1>2, <2>2, <3>2, WindowNarrow
  <2>3. QED
    BY <1>1, <1>2, <1>3, <2>1, <2>2, SlotStep
<1>7. QED
  BY <1>5, <1>6

\* A reserved slot is empty, between the head and the tail, and reserved once.
LEMMA ReservedStep ==
    ASSUME Types, Types', Published, Callers, DrainSound, RingsBounded, Monotone, Window, Reserved, StepDoes
    PROVE  Reserved'
<1>1. ASSUME NEW q \in Readers, pc[q] = "store", pc'[q] = "store", my'[q] = my[q]
      PROVE  /\ InWindow(my[q].ring, my[q].tail)'
             /\ rings'[my'[q].ring].buffer[my'[q].tail % RingSize] = None
  <2>1. \A r \in Readers : StoreDoes(r) => r # q
    BY <1>1 DEF StoreDoes
  <2>2. QED
    BY <1>1, <2>1, ReservedKept
<1>2. CASE \A q \in Readers : pc'[q] = "store" => pc[q] = "store" /\ my'[q] = my[q]
  BY <1>1, <1>2 DEF Reserved
<1>3. ASSUME NEW r \in Readers, CasTailDoes(r) PROVE Reserved'
  <2> DEFINE n == my[r].ring
             t == my[r].tail
  <2>1. /\ n \in 1..Len(rings) /\ rings[n].tail = t /\ t \in Nat
        /\ rings'[n].tail = t + 1 /\ rings'[n].buffer = rings[n].buffer
        /\ UNCHANGED my /\ \A q \in Readers : q # r => pc'[q] = pc[q]
    BY <1>3 DEF CasTailDoes, OthersStay, Types, Calls
  <2>2. rings[n].head \in Nat /\ LowHead(n) \in Nat /\ rings[n].head <= LowHead(n) /\ LowHead(n) <= t
        /\ t - rings[n].head < RingSize
    BY <1>3, <2>1, HeadsTails, CasTailRoom DEF RingsBounded
  <2>3. rings[n].buffer[t % RingSize] = None
    <3>1. SUFFICES ASSUME rings[n].buffer[t % RingSize] # None PROVE FALSE
      OBVIOUS
    <3>2. t % RingSize \in Slots
      BY <2>1, ModRange, Constants DEF Slots
    <3>3. PICK i \in Nat : InWindow(n, i) /\ i % RingSize = t % RingSize
      BY <2>1, <3>1, <3>2 DEF Window
    <3>4. i < t /\ t - i < RingSize
      <4>1. RingSize \in Nat /\ LowHead(n) <= i /\ i < t
        BY <2>1, <3>3, Constants DEF InWindow
      <4> DEFINE h == rings[n].head
                 l == LowHead(n)
      <4>2. h \in Nat /\ l \in Nat /\ h <= l /\ l <= i /\ t - h < RingSize
        BY <2>2, <4>1
      <4> HIDE DEF h, l, t
      <4>3. QED
        BY <2>1, <4>1, <4>2
    <3>5. QED
      BY <2>1, <3>3, <3>4, ModApart, Constants
  <2>4. InWindow(my[r].ring, my[r].tail)'
    <3>1. ~TakeDoes
      BY <1>3 DEF TakeDoes, ReadersStay, CasTailDoes
    <3>2. PICK m \in 1..Len(rings), k \in Nat : m = n /\ k = t
      BY <2>1
    <3>3. LowHead(m)' = LowHead(m)
      BY <3>1, LowHeadStep
    <3>4. InWindow(m, k)'
      BY <2>1, <2>2, <3>2, <3>3 DEF InWindow
    <3>5. QED
      BY <2>1, <3>2, <3>4 DEF InWindow, LowHead
  <2>5. ASSUME NEW q \in Readers, q # r, pc[q] = "store", my[q].ring = n PROVE my[q].tail # t
    BY <2>1, <2>5 DEF Reserved, InWindow
  <2>6. \A q \in Readers : q # r /\ pc'[q] = "store" => pc[q] = "store"
    BY <2>1
  <2>7. QED
    BY <1>1, <2>1, <2>3, <2>4, <2>5, <2>6 DEF Reserved
<1>4. QED
  BY <1>2, <1>3 DEF StepDoes, ReaderDoes, OthersStay, LocalDoes, StoreDoes, ExpandDoes,
     NewRingDoes, DrainDoes, BeginDoes, SkipDoes, EnterDoes, EmptyDoes, TailDoes, StopDoes, TakeDoes,
     LeaveDoes, EndDoes, ReadersStay, vars, shared

\* Slot j of ring n has held e, and has not been emptied.
KeptAt(e, n, j) ==
    /\ n \in 1..Len(rings) /\ rings[n].buffer[j] = e
    /\ ~(TakeDoes /\ n = drain.ring /\ j = drain.head % RingSize)

\* The reader puts e, its element, there.
PlacedBy(r, e, n, j) ==
    /\ e = Element(r) /\ Pending(r) /\ ~Pending(r)' /\ DrainStays /\ UNCHANGED <<added, refused>>
    /\ \/ StoreDoes(r) /\ n = my[r].ring /\ j = my[r].tail % RingSize
       \/ NewRingDoes(r) /\ n = Len(rings) + 1 /\ j = 0

\* An element is where it was, or has just been placed.
LEMMA PlaceStep ==
    ASSUME Types, Callers, StepDoes, NEW e, e # None, NEW n \in 1..Len(rings'), NEW j \in Slots,
           rings'[n].buffer[j] = e
    PROVE  KeptAt(e, n, j) \/ \E r \in Readers : PlacedBy(r, e, n, j)
<1> USE DEF KeptAt, PlacedBy
<1>1. CASE n \notin 1..Len(rings)
  <2>1. PICK r \in Readers :
          /\ NewRingDoes(r) /\ DrainStays
          /\ Len(rings') = Len(rings) + 1 /\ n = Len(rings') /\ rings'[n] = NewRing(Element(r))
    BY <1>1, RingAdded
  <2>2. j = 0 /\ e = Element(r)
    BY <2>1, NewRingType DEF NewRingDoes
  <2>3. QED
    BY <2>1, <2>2 DEF NewRingDoes, Pending
<1>2. CASE n \in 1..Len(rings)
  <2>1. CASE TakeDoes /\ n = drain.ring /\ j = drain.head % RingSize
    BY <2>1 DEF TakeDoes
  <2>2. ASSUME NEW r \in Readers, StoreDoes(r), n = my[r].ring, j = my[r].tail % RingSize,
               rings'[n].buffer[j] = Element(r)
        PROVE  e = Element(r) /\ Pending(r) /\ ~Pending(r)' /\ UNCHANGED <<added, refused>>
    BY <2>2 DEF StoreDoes, Pending
  <2>3. QED
    BY <1>2, <2>1, <2>2, SlotStep
<1>3. QED
  BY <1>1, <1>2

\* An element that has not been added, or not placed, had not been before either.
LEMMA FreshBefore ==
    ASSUME Types, StepDoes, NEW q \in Readers, NEW k \in Nat, Fresh(q, k)' PROVE Fresh(q, k)
<1>1. added[q] \in Nat
  BY DEF Types
<1>2. CASE pc'[q] = pc[q] /\ added'[q] = added[q]
  BY <1>2 DEF Fresh, Pending
<1>3. CASE ReaderDoes(q)
  BY <1>1, <1>3 DEF ReaderDoes, Fresh, Pending, LocalDoes, CasTailDoes, StoreDoes, ExpandDoes, NewRingDoes
<1>4. ASSUME NEW r \in Readers, r # q, ReaderDoes(r) PROVE Fresh(q, k)
  BY <1>2, <1>4 DEF ReaderDoes, OthersStay, LocalDoes, CasTailDoes, StoreDoes, ExpandDoes, NewRingDoes
<1>5. CASE DrainDoes \/ UNCHANGED vars
  BY SMTT(30), <1>2, <1>5 DEF DrainDoes, BeginDoes, SkipDoes, EnterDoes, EmptyDoes, TailDoes, StopDoes, TakeDoes,
     LeaveDoes, EndDoes, ReadersStay, vars, shared
<1>6. QED
  BY <1>3, <1>4, <1>5 DEF StepDoes

\* What is taken was in the slot at the head, and what is refused was not placed.
LEMMA GoneStep ==
    ASSUME StepDoes
    PROVE  \/ UNCHANGED <<taken, refused>>
           \/ TakeDoes /\ UNCHANGED refused
           \/ \E r \in Readers :
                /\ refused' = refused \cup {Element(r)} /\ Pending(r) /\ ~Pending(r)'
                /\ UNCHANGED <<taken, rings, added>>
<1>1. ASSUME NEW r \in Readers, ReaderDoes(r)
      PROVE  \/ UNCHANGED <<taken, refused>>
             \/ /\ refused' = refused \cup {Element(r)} /\ Pending(r) /\ ~Pending(r)'
                /\ UNCHANGED <<taken, rings, added>>
  <2>1. CASE LocalDoes(r)
    BY <1>1, <2>1 DEF ReaderDoes, LocalDoes, DrainStays, Pending
  <2>2. QED
    BY <1>1, <2>1 DEF ReaderDoes, CasTailDoes, StoreDoes, ExpandDoes, NewRingDoes, DrainStays
<1>2. QED
  BY <1>1 DEF StepDoes, DrainDoes, BeginDoes, SkipDoes, EnterDoes, EmptyDoes, TailDoes, StopDoes, TakeDoes,
     LeaveDoes, EndDoes, ReadersStay, vars, shared

\* An element that is not placed yet is nowhere.
LEMMA FreshStep ==
    ASSUME Types, Types', Callers, FreshOutside, StepDoes PROVE FreshOutside'
<1>1. SUFFICES ASSUME NEW q \in Readers, NEW k \in 1..MaxAdds[q], Fresh(q, k)' PROVE Outside(<<q, k>>)'
  BY DEF FreshOutside
<1>2. k \in Nat /\ <<q, k>> # None
  BY Constants, ElementPairs
<1>3. Outside(<<q, k>>)
  BY <1>1, <1>2, FreshBefore DEF FreshOutside
<1>a. ASSUME NEW r \in Readers, ~Pending(r)', added' = added PROVE Element(r) # <<q, k>>
  BY <1>1, <1>2, <1>a DEF Fresh, Element, Types
<1>4. <<q, k>> \notin taken' \cup refused'
  BY <1>3, <1>a, GoneStep DEF Outside, TakeDoes
<1>5. ASSUME NEW n \in 1..Len(rings'), NEW j \in Slots PROVE rings'[n].buffer[j] # <<q, k>>
  <2>1. SUFFICES ASSUME rings'[n].buffer[j] = <<q, k>> PROVE FALSE
    OBVIOUS
  <2>2. \A r \in Readers : added' = added /\ ~Pending(r)' => Element(r) # <<q, k>>
    BY <1>a
  <2>3. QED
    BY <1>2, <1>3, <2>1, <2>2, PlaceStep DEF Outside, KeptAt, PlacedBy
<1>6. QED
  BY <1>4, <1>5 DEF Outside

\* An element is in one place.
LEMMA OnceStep ==
    ASSUME Types, Types', Callers, FreshOutside, OncePlaced, StepDoes PROVE OncePlaced'
<1>a. ASSUME NEW r \in Readers, Pending(r) PROVE Outside(Element(r))
  <2>1. added[r] \in 1..MaxAdds[r]
    BY <1>a DEF Pending, Callers, CallerSound
  <2>2. Fresh(r, added[r])
    BY <1>a DEF Fresh
  <2>3. QED
    BY <2>1, <2>2 DEF FreshOutside, Element
<1>1. taken' \cap refused' = {}
  <2>1. taken \cap refused = {}
    BY DEF OncePlaced
  <2>2. CASE TakeDoes /\ UNCHANGED refused
    BY <2>1, <2>2 DEF TakeDoes, OncePlaced
  <2>3. ASSUME NEW r \in Readers, refused' = refused \cup {Element(r)}, Pending(r), UNCHANGED taken
        PROVE  taken' \cap refused' = {}
    BY <1>a, <2>1, <2>3 DEF Outside
  <2>4. QED
    BY <2>1, <2>2, <2>3, GoneStep
<1>2. ASSUME NEW n \in 1..Len(rings'), NEW j \in Slots PROVE rings'[n].buffer[j] \notin taken' \cup refused'
  <2> DEFINE e == rings'[n].buffer[j]
  <2>1. CASE e = None
    BY <2>1, Constants DEF Types
  <2>2. CASE e # None
    <3>1. CASE KeptAt(e, n, j)
      <4>0. /\ n \in 1..Len(rings) /\ rings[n].buffer[j] = e
            /\ ~(TakeDoes /\ n = drain.ring /\ j = drain.head % RingSize)
        BY <3>1 DEF KeptAt
      <4>1. e \notin taken \cup refused
        BY <4>0 DEF OncePlaced
      <4>2. CASE TakeDoes /\ UNCHANGED refused
        <5>1. rings[drain.ring].buffer[drain.head % RingSize] # e
          BY <2>2, <4>0, <4>2 DEF TakeDoes, OncePlaced
        <5>2. QED
          BY <4>1, <4>2, <5>1 DEF TakeDoes
      <4>3. ASSUME NEW r \in Readers, refused' = refused \cup {Element(r)}, Pending(r), UNCHANGED taken
            PROVE  e \notin taken' \cup refused'
        BY <1>a, <4>0, <4>1, <4>3 DEF Outside
      <4>4. QED
        BY <4>1, <4>2, <4>3, GoneStep
    <3>2. ASSUME NEW r \in Readers, PlacedBy(r, e, n, j) PROVE e \notin taken' \cup refused'
      BY <1>a, <3>2 DEF Outside, DrainStays, PlacedBy
    <3> HIDE DEF e
    <3>3. QED
      BY <2>2, <3>1, <3>2, PlaceStep DEF e
  <2>3. QED
    BY <2>1, <2>2
<1>3. ASSUME NEW n \in 1..Len(rings'), NEW j \in Slots, rings'[n].buffer[j] # None,
             NEW m \in 1..Len(rings'), NEW i \in Slots, rings'[m].buffer[i] = rings'[n].buffer[j]
      PROVE  m = n /\ i = j
  <2> DEFINE e == rings'[n].buffer[j]
  <2>0. e # None /\ rings'[n].buffer[j] = e /\ rings'[m].buffer[i] = e
    BY <1>3
  <2> HIDE DEF e
  <2>1. KeptAt(e, n, j) \/ \E r \in Readers : PlacedBy(r, e, n, j)
    BY <2>0, PlaceStep
  <2>2. KeptAt(e, m, i) \/ \E r \in Readers : PlacedBy(r, e, m, i)
    BY <2>0, PlaceStep
  <2>3. CASE KeptAt(e, n, j) /\ KeptAt(e, m, i)
    BY <2>0, <2>3 DEF OncePlaced, KeptAt
  <2>4. ASSUME NEW r \in Readers, NEW l, NEW h \in Slots, KeptAt(e, l, h),
               PlacedBy(r, e, n, j) \/ PlacedBy(r, e, m, i)
        PROVE  FALSE
    BY <1>a, <2>4 DEF Outside, KeptAt, PlacedBy
  <2>5. ASSUME NEW r \in Readers, NEW q \in Readers, PlacedBy(r, e, n, j), PlacedBy(q, e, m, i)
        PROVE  m = n /\ i = j
    <3>1. r = q
      BY <2>5 DEF Element, PlacedBy
    <3>2. ~(StoreDoes(r) /\ NewRingDoes(r))
      BY DEF StoreDoes, NewRingDoes, Types
    <3>3. QED
      BY <2>5, <3>1, <3>2 DEF PlacedBy
  <2>6. QED
    BY <1>3, <2>1, <2>2, <2>3, <2>4, <2>5
<1>4. QED
  BY <1>1, <1>2, <1>3 DEF OncePlaced

--------------------------------------------------------------------------------
(* The inductive invariant, and the soundness of the rings *)

\* The invariant holds at first, also when a ring has been in use.
LEMMA InitInv == ASSUME Init PROVE Inv
<1>0. /\ RingSize \in Nat \ {0} /\ MaxLen \in Nat \ {0} /\ 0 \in Slots
      /\ None \notin Elements /\ MaxAdds \in [Readers -> Nat]
  BY Constants DEF Slots
<1>1. /\ pc = [r \in Readers |-> "off"] /\ my = [r \in Readers |-> NoCall]
      /\ added = [r \in Readers |-> 0] /\ busy = None /\ drain = NoDrain
      /\ taken = {} /\ refused = {} /\ before = {}
  BY DEF Init
<1>2. /\ rings \in Seq(Ring) /\ arrays \in Seq(Array) /\ striped = Len(arrays)
      /\ Published
      /\ \A n \in 1..Len(rings) :
           rings[n].head = rings[n].tail /\ \A j \in Slots : rings[n].buffer[j] = None
  <2>1. CASE rings = <<>> /\ arrays = <<>> /\ striped = 0
    BY <2>1 DEF Published
  <2>2. ASSUME NEW i \in FirstIndexes, NEW len \in {1, MaxLen},
               rings = <<[head |-> i, tail |-> i, buffer |-> [j \in 0..(RingSize - 1) |-> None]]>>,
               arrays = <<[j \in 0..(len - 1) |-> IF j = 0 THEN 1 ELSE 0]>>, striped = 1
        PROVE  /\ rings \in Seq(Ring) /\ arrays \in Seq(Array) /\ striped = Len(arrays)
               /\ Published
               /\ \A n \in 1..Len(rings) :
                    rings[n].head = rings[n].tail /\ \A j \in Slots : rings[n].buffer[j] = None
    <3> DEFINE b == [j \in 0..(RingSize - 1) |-> None]
               ring == [head |-> i, tail |-> i, buffer |-> b]
               array == [j \in 0..(len - 1) |-> IF j = 0 THEN 1 ELSE 0]
    <3>1. i \in Nat /\ len \in Nat \ {0} /\ len \in Lengths
      BY <1>0, Constants, LengthsDouble
    <3>2. b \in [Slots -> Elements \cup {None}] /\ \A j \in Slots : b[j] = None
      BY DEF Slots
    <3>3. /\ array \in [0..(len - 1) -> Nat] /\ DOMAIN array = 0..(len - 1)
          /\ array[0] = 1 /\ 0 \in DOMAIN array /\ \A s \in DOMAIN array : array[s] \in {0, 1}
      BY <3>1
    <3>4. array \in Array
      BY <3>1, <3>3 DEF Array
    <3>5. rings = <<ring>> /\ arrays = <<array>>
      BY <2>2
    <3> HIDE DEF b, array
    <3>6. ring \in Ring /\ ring.head = ring.tail /\ ring.buffer = b
      BY <3>1, <3>2 DEF Ring
    <3> HIDE DEF ring
    <3>7. rings \in Seq(Ring) /\ Len(rings) = 1 /\ rings[1] = ring
      BY <3>5, <3>6
    <3>8. arrays \in Seq(Array) /\ Len(arrays) = 1 /\ arrays[1] = array
      BY <3>4, <3>5
    <3>9. Published
      BY <2>2, <3>3, <3>7, <3>8 DEF Published
    <3>10. \A n \in 1..Len(rings) :
             rings[n].head = rings[n].tail /\ \A j \in Slots : rings[n].buffer[j] = None
      BY <3>2, <3>6, <3>7
    <3>11. striped = Len(arrays)
      BY <2>2, <3>8
    <3>12. QED
      BY <3>7, <3>8, <3>9, <3>10, <3>11
  <2>3. QED
    BY <2>1, <2>2 DEF Init
<1>3. Types
  <2>1. NoCall \in Calls /\ NoDrain \in Drains /\ "off" \in Labels
    BY DEF NoCall, Calls, NoDrain, Drains, Labels
  <2>2. QED
    BY <1>1, <1>2, <2>1 DEF Types
<1>4. drain.pc = "off"
  BY <1>1 DEF NoDrain
<1>5. \A n \in 1..Len(rings) : LowHead(n) = rings[n].head
  BY <1>4 DEF LowHead, InRing
<1>6. Callers /\ DrainSound /\ Reserved
  BY <1>1, <1>4 DEF Callers, CallerSound, InArray, Holding, DrainSound, InRing, Reserved
<1>7. RingsBounded
  BY <1>0, <1>2, <1>3, <1>5, RingFields DEF RingsBounded
<1>8. Window /\ OncePlaced
  BY <1>1, <1>2 DEF Window, OncePlaced
<1>9. FreshOutside
  <2>1. \A r \in Readers : \A k \in 1..MaxAdds[r] : <<r, k>> # None
    BY <1>0, ElementPairs
  <2>2. QED
    BY <1>1, <1>2, <2>1 DEF FreshOutside, Outside
<1>10. QED
  BY <1>2, <1>3, <1>6, <1>7, <1>8, <1>9 DEF Inv

\* Every step keeps the invariant.
LEMMA NextInv == ASSUME Inv, [Next]_vars PROVE Inv' /\ StepDoes /\ Monotone
<1> USE DEF Inv
<1>1. StepDoes
  BY StepEffects
<1>2. Monotone
  BY <1>1, MonotoneStep
<1>3. Types' /\ Published'
  BY <1>1, TypesStep, PublishedStep
<1>4. Callers'
  BY <1>1, <1>2, <1>3, CallersStep
<1>5. DrainSound'
  BY <1>1, <1>2, <1>3, DrainSoundStep
<1>6. RingsBounded'
  BY <1>1, <1>3, <1>5, RingsBoundedStep
<1>7. Window' /\ Reserved'
  BY <1>1, <1>2, <1>3, WindowStep, ReservedStep
<1>8. FreshOutside' /\ OncePlaced'
  BY <1>1, <1>3, FreshStep, OnceStep
<1>9. QED
  BY <1>1, <1>2, <1>3, <1>4, <1>5, <1>6, <1>7, <1>8

\* The rings are sound where the invariant holds.
LEMMA InvSound == ASSUME Inv PROVE RingsSound
<1> USE DEF Inv
<1>1. TypeOK
  <2>1. ASSUME NEW n \in DOMAIN rings
        PROVE  /\ rings[n].head <= rings[n].tail /\ rings[n].tail <= rings[n].head + RingSize
               /\ rings[n].buffer \in [0..(RingSize - 1) -> Elements \cup {None}]
    <3>1. n \in 1..Len(rings)
      BY DEF Types
    <3>2. QED
      BY <3>1, HeadsTails, RingFields DEF RingsBounded, Slots
  <2>2. ASSUME NEW a \in DOMAIN arrays
        PROVE  LenOf(a) <= MaxLen /\ Range(arrays[a]) \subseteq 0..Len(rings)
    <3>1. a \in 1..Len(arrays)
      BY DEF Types
    <3>2. LenOf(a) <= MaxLen
      BY <3>1, ArrayLength, LengthsDouble, Constants
    <3>3. QED
      BY <3>1, <3>2 DEF Published, Range
  <2>3. QED
    BY <2>1, <2>2 DEF TypeOK, Types
<1>2. SlotsReserved
  <2>1. ASSUME NEW r \in Readers, pc[r] = "store" PROVE rings[my[r].ring].head <= my[r].tail
    <3>1. my[r].ring \in 1..Len(rings) /\ InWindow(my[r].ring, my[r].tail)
      BY <2>1 DEF Callers, CallerSound, Reserved
    <3>2. QED
      BY <3>1, HeadsTails DEF InWindow
  <2>2. QED
    BY <2>1 DEF SlotsReserved, Reserved
<1>3. BusyExclusive
  <2>1. ASSUME striped # 0, NEW n \in DOMAIN rings PROVE n \in Range(arrays[striped])
    <3>1. n \in 1..Len(rings)
      BY DEF Types
    <3>2. QED
      BY <2>1, <3>1 DEF Published, Range
  <2>2. QED
    BY <2>1 DEF BusyExclusive, Callers, CallerSound, Holding
<1>4. QED
  BY <1>1, <1>2, <1>3 DEF RingsSound

\* The inductive invariant holds.
LEMMA Invariance == Spec => []Inv
<1>1. Init => Inv
  BY InitInv
<1>2. Inv /\ [Next]_vars => Inv'
  BY NextInv
<1>3. QED
  BY <1>1, <1>2, PTL DEF Spec

\* A ring never has more slots reserved than it has, a slot that a reader fills is empty
\* and its own, and rings are added one at a time (ring.go, striped.go).
THEOREM ReadBufferSound == Spec => []RingsSound
<1>1. Inv => RingsSound
  BY InvSound
<1>2. QED
  BY <1>1, Invariance, PTL

--------------------------------------------------------------------------------
(* The read buffer is a bag *)

\* The value of the slot the drain is at.
AtHead == rings[drain.ring].buffer[drain.head % RingSize]

\* Also in the next state.
LEMMA WaitingIsNext == Types' /\ Published' => InSlots'
  BY WaitingIs, PTL

\* What is waiting goes on waiting, unless the drain takes it.
LEMMA WaitingKept ==
    ASSUME Inv, Inv', Monotone, StepDoes, NEW e \in Waiting
    PROVE  e \in Waiting' \/ (TakeDoes /\ e = AtHead)
<1> USE DEF Inv, InSlots
<1>1. PICK n \in 1..Len(rings), j \in Slots : rings[n].buffer[j] = e /\ e # None
  BY WaitingIs
<1>2. CASE rings'[n].buffer[j] = rings[n].buffer[j]
  <2>1. n \in 1..Len(rings')
    BY DEF Monotone, Types
  <2>2. QED
    BY <1>1, <1>2, <2>1, WaitingIsNext
<1>3. ASSUME NEW r \in Readers, StoreDoes(r), n = my[r].ring, j = my[r].tail % RingSize PROVE FALSE
  BY <1>1, <1>3 DEF StoreDoes, Reserved
<1>4. QED
  BY <1>1, <1>2, <1>3, SlotStep DEF AtHead

\* What is waiting has waited, or has just been placed.
LEMMA WaitingBefore ==
    ASSUME Inv, Inv', StepDoes, NEW e \in Waiting'
    PROVE  \/ e \in Waiting /\ ~(TakeDoes /\ e = AtHead)
           \/ \E r \in Readers : e = Element(r) /\ DrainStays /\ (StoreDoes(r) \/ NewRingDoes(r))
<1> USE DEF Inv, InSlots
<1>1. PICK n \in 1..Len(rings'), j \in Slots : rings'[n].buffer[j] = e /\ e # None
  BY WaitingIsNext
<1>2. CASE KeptAt(e, n, j)
  <2>1. e \in Waiting
    BY <1>1, <1>2, WaitingIs DEF KeptAt
  <2>2. ASSUME TakeDoes PROVE e # AtHead
    <3>1. /\ drain.ring \in 1..Len(rings) /\ drain.head % RingSize \in Slots
          /\ n \in 1..Len(rings) /\ rings[n].buffer[j] = e
          /\ ~(n = drain.ring /\ j = drain.head % RingSize)
      BY <1>2, <2>2 DEF TakeDoes, KeptAt
    <3>2. QED
      BY <1>1, <3>1 DEF OncePlaced, AtHead
  <2>3. QED
    BY <2>1, <2>2
<1>3. KeptAt(e, n, j) \/ \E r \in Readers : PlacedBy(r, e, n, j)
  BY <1>1, PlaceStep
<1>4. QED
  BY <1>2, <1>3 DEF PlacedBy

\* What is placed is waiting.
LEMMA PlacedWaits ==
    ASSUME Inv, Inv', NEW r \in Readers, StoreDoes(r) \/ NewRingDoes(r)
    PROVE  Element(r) \in Waiting' /\ Element(r) # None
<1> USE DEF Inv, InSlots
<1>1. Element(r) # None
  BY Constants DEF StoreDoes, NewRingDoes
<1>2. CASE StoreDoes(r)
  BY <1>1, <1>2, WaitingIsNext DEF StoreDoes
<1>3. CASE NewRingDoes(r)
  <2>0. 0 \in Slots
    BY Constants DEF Slots
  <2>1. rings'[Len(rings) + 1].buffer[0] = Element(r)
    BY <1>3, <2>0, NewRingType DEF NewRingDoes
  <2>2. Len(rings) + 1 \in 1..Len(rings')
    BY <1>3 DEF NewRingDoes, Types
  <2>3. QED
    BY <1>1, <2>0, <2>1, <2>2, WaitingIsNext
<1>4. QED
  BY <1>2, <1>3

\* Whoever places an element is the one that moves.
LEMMA PlacedMoves ==
    ASSUME NEW r \in Readers, StoreDoes(r) \/ NewRingDoes(r)
    PROVE  pc'[r] # pc[r] /\ OthersStay(r)
<1>1. CASE StoreDoes(r)
  BY <1>1 DEF StoreDoes
<1>2. CASE NewRingDoes(r)
  BY <1>2 DEF NewRingDoes, Pending
<1>3. QED
  BY <1>1, <1>2

\* A step of the read buffer is a step of the bag, or changes nothing there.
LEMMA BagStep ==
    ASSUME Inv, Inv', Monotone, StepDoes
    PROVE  Bag!Next \/ UNCHANGED <<Waiting, taken, refused>>
<1> USE DEF Inv
<1>a. ASSUME NEW r \in Readers, Pending(r)
      PROVE  Outside(Element(r)) /\ Element(r) \notin Waiting /\ Element(r) \in Elements
  <2>1. added[r] \in 1..MaxAdds[r] /\ Fresh(r, added[r])
    BY <1>a DEF Pending, Callers, CallerSound, Fresh
  <2>2. Outside(Element(r))
    BY <2>1 DEF FreshOutside, Element
  <2>3. Element(r) \in Elements
    BY <1>a, ElementAdded DEF Pending
  <2>4. Element(r) \notin Waiting
    BY <2>2, WaitingIs DEF Outside, InSlots
  <2>5. QED
    BY <2>2, <2>3, <2>4
<1>1. ASSUME NEW r \in Readers, StoreDoes(r) \/ NewRingDoes(r), DrainStays PROVE Bag!Next
  <2>1. Pending(r) /\ UNCHANGED <<taken, refused>> /\ ~TakeDoes
    BY <1>1 DEF StoreDoes, NewRingDoes, Pending, DrainStays, TakeDoes, ReadersStay
  <2>2. Waiting' = Waiting \cup {Element(r)}
    <3>1. ASSUME NEW e \in Waiting PROVE e \in Waiting'
      BY <2>1, WaitingKept
    <3>2. Element(r) \in Waiting'
      BY <1>1, PlacedWaits
    <3>3. ASSUME NEW q \in Readers, StoreDoes(q) \/ NewRingDoes(q) PROVE q = r
      BY <1>1, <3>3, PlacedMoves DEF OthersStay
    <3>4. ASSUME NEW e \in Waiting' PROVE e \in Waiting \cup {Element(r)}
      BY <3>3, WaitingBefore
    <3>5. QED
      BY <3>1, <3>2, <3>4
  <2>3. QED
    BY <1>a, <2>1, <2>2 DEF Bag!Next, Bag!Accept, Bag!New, Outside
<1>2. CASE TakeDoes
  <2>1. AtHead \in Waiting
    BY <1>2, WaitingIs, Constants DEF TakeDoes, AtHead, InSlots
  <2>2. Waiting' = Waiting \ {AtHead}
    <3>1. ASSUME NEW e \in Waiting PROVE e \in Waiting' \/ e = AtHead
      BY WaitingKept
    <3>2. ~DrainStays
      BY <1>2 DEF TakeDoes, DrainStays, Types, Drains
    <3>3. ASSUME NEW e \in Waiting' PROVE e \in Waiting \ {AtHead}
      BY <1>2, <3>2, WaitingBefore
    <3>4. QED
      BY <3>1, <3>3
  <2>3. taken' = taken \cup {AtHead} /\ refused' = refused
    BY <1>2 DEF TakeDoes, AtHead, ReadersStay
  <2>4. QED
    BY <2>1, <2>2, <2>3 DEF Bag!Next, Bag!Take
<1>3. ASSUME ~TakeDoes, \A r \in Readers : ~(StoreDoes(r) \/ NewRingDoes(r))
      PROVE  Waiting' = Waiting
  <2>1. ASSUME NEW e \in Waiting PROVE e \in Waiting'
    BY <1>3, WaitingKept
  <2>2. ASSUME NEW e \in Waiting' PROVE e \in Waiting
    BY <1>3, WaitingBefore
  <2>3. QED
    BY <2>1, <2>2
<1>4. ASSUME NEW r \in Readers, LocalDoes(r), DrainStays, Waiting' = Waiting
      PROVE  Bag!Next \/ UNCHANGED <<Waiting, taken, refused>>
  <2>1. CASE UNCHANGED refused
    BY <1>4, <2>1 DEF DrainStays
  <2>2. CASE Pending(r) /\ refused' = refused \cup {Element(r)}
    <3>1. UNCHANGED <<Waiting, taken>>
      BY <1>4 DEF DrainStays
    <3>2. QED
      BY <1>a, <2>2, <3>1 DEF Bag!Next, Bag!Refuse, Bag!New, Outside
  <2>3. QED
    BY <1>4, <2>1, <2>2 DEF LocalDoes
<1>5. CASE \E r \in Readers : ReaderDoes(r) /\ ~(StoreDoes(r) \/ NewRingDoes(r))
  <2>1. PICK r \in Readers : ReaderDoes(r) /\ ~(StoreDoes(r) \/ NewRingDoes(r))
    BY <1>5
  <2>2. ~TakeDoes
    BY <2>1 DEF ReaderDoes, DrainStays, TakeDoes, Types, Drains
  <2>3. CASE \E q \in Readers : StoreDoes(q) \/ NewRingDoes(q)
    BY <1>1, <2>1, <2>3 DEF ReaderDoes
  <2>4. CASE \A q \in Readers : ~(StoreDoes(q) \/ NewRingDoes(q))
    <3>1. Waiting' = Waiting
      BY <1>3, <2>2, <2>4
    <3>2. CASE LocalDoes(r)
      BY <1>4, <2>1, <3>1, <3>2 DEF ReaderDoes
    <3>3. CASE CasTailDoes(r) \/ ExpandDoes(r)
      BY <2>1, <3>1, <3>3 DEF ReaderDoes, DrainStays, CasTailDoes, ExpandDoes
    <3>4. QED
      BY <2>1, <3>2, <3>3 DEF ReaderDoes
  <2>5. QED
    BY <2>3, <2>4
<1>6. CASE (DrainDoes \/ UNCHANGED vars) /\ ~TakeDoes
  <2>1. UNCHANGED <<pc, taken, refused>>
    BY <1>6 DEF DrainDoes, BeginDoes, SkipDoes, EnterDoes, EmptyDoes, TailDoes, StopDoes, LeaveDoes,
       EndDoes, ReadersStay, vars, shared
  <2>2. \A r \in Readers : ~(StoreDoes(r) \/ NewRingDoes(r))
    BY <2>1, PlacedMoves
  <2>3. Waiting' = Waiting
    BY <1>3, <1>6, <2>2
  <2>4. QED
    BY <2>1, <2>3
<1>7. QED
  BY <1>1, <1>2, <1>5, <1>6 DEF StepDoes, ReaderDoes

\* The read buffer implements LossyBag: what Add has accepted is handed to the drain,
\* once, also when the array is doubled meanwhile, and what it has refused never is.
THEOREM ReadBufferIsBag == Spec => ImplementsBag
<1>1. Init => Bag!Init
  <2> SUFFICES ASSUME Init PROVE Bag!Init
    OBVIOUS
  <2>1. Inv /\ taken = {} /\ refused = {}
    BY InitInv DEF Init
  <2>2. Waiting \subseteq Elements
    BY <2>1, WaitingIs, RingFields DEF Inv, InSlots
  <2>3. QED
    BY <2>1, <2>2 DEF Bag!Init
<1>2. Inv /\ Inv' /\ [Next]_vars => [Bag!Next]_(Bag!bagVars)
  BY NextInv, BagStep DEF Bag!bagVars
<1>3. QED
  BY <1>1, <1>2, Invariance, PTL DEF Spec, ImplementsBag, Bag!Spec

--------------------------------------------------------------------------------
(* A drain that was not stopped is complete *)

\* An element stays where it is in its ring, unless the drain takes it.
LEMMA HeldKept ==
    ASSUME Inv, Types', Monotone, StepDoes, NEW n \in 1..Len(rings), NEW i \in Nat, NEW e,
           HeldAt(n, e, i), e # None, ~(TakeDoes /\ e = AtHead)
    PROVE  HeldAt(n, e, i)'
<1> USE DEF Inv
<1>1. InWindow(n, i) /\ rings[n].buffer[i % RingSize] = e
  BY DEF HeldAt
<1>2. InWindow(n, i)'
  BY <1>1, WindowKept DEF AtHead
<1>3. i % RingSize \in Slots
  BY Constants, ModRange DEF Slots
<1>4. ASSUME NEW r \in Readers, StoreDoes(r), n = my[r].ring, i % RingSize = my[r].tail % RingSize
      PROVE  FALSE
  BY <1>1, <1>4 DEF StoreDoes, Reserved
<1>5. rings'[n].buffer[i % RingSize] = rings[n].buffer[i % RingSize]
  BY <1>1, <1>3, <1>4, SlotStep DEF AtHead
<1>6. QED
  BY <1>1, <1>2, <1>5 DEF HeldAt

\* What is waiting when the drain begins is ahead of it.
LEMMA AheadBegins ==
    ASSUME Inv, Types', Monotone, StepDoes, BeginDoes PROVE StillAhead'
<1> USE DEF Inv
<1>1. SUFFICES ASSUME NEW e \in Waiting
      PROVE  \E s \in drain'.stripe..(LenOf(drain.array)' - 1) : AheadIn(e, s)'
  BY DEF StillAhead, BeginDoes
<1>2. PICK n \in 1..Len(rings), j \in Slots : rings[n].buffer[j] = e /\ e # None
  BY WaitingIs DEF InSlots
<1>3. PICK i \in Nat : InWindow(n, i) /\ i % RingSize = j
  BY <1>2 DEF Window
<1>4. HeldAt(n, e, i)'
  BY <1>2, <1>3, HeldKept DEF HeldAt, BeginDoes, TakeDoes
<1>5. PICK s \in DOMAIN arrays[striped] : arrays[striped][s] = n
  BY DEF Published, BeginDoes
<1>6. striped \in 1..Len(arrays) /\ Len(rings) \in Nat
  BY DEF Types, BeginDoes
<1>7. s \in 0..(LenOf(striped) - 1)
  BY <1>6, ArrayLength
<1>8. drain'.array = striped /\ drain'.stripe = 0 /\ arrays' = arrays /\ drain'.pc = "stripe"
  BY DEF BeginDoes, ReadersStay
<1>9. LenOf(drain.array)' = LenOf(striped)
  BY <1>8 DEF LenOf
<1>10. AheadIn(e, s)'
  BY <1>2, <1>4, <1>5, <1>8 DEF AheadIn
<1>11. QED
  BY <1>7, <1>8, <1>9, <1>10

\* The stripe is not behind the drain, nor the slot behind the tail it works up to.
NotPassed(s, n, i) == drain.stripe <= s /\ (drain.pc = "slot" /\ n = drain.ring => i < drain.tail)

\* What is ahead stays ahead, however the drain and the readers go on.
LEMMA NotPassedStep ==
    ASSUME Inv, StepDoes, drain.pc # "off", ~drain.stopped, drain'.pc # "off", ~drain'.stopped,
           NEW n \in 1..Len(rings), NEW i \in Nat, NEW s \in 0..(LenOf(drain.array) - 1),
           arrays[drain.array][s] = n, InWindow(n, i), NotPassed(s, n, i)
    PROVE  drain'.array = drain.array /\ NotPassed(s, n, i)'
<1> USE DEF Inv
<1>1. drain.stripe \in Nat /\ drain.head \in Nat /\ drain.tail \in Nat /\ LenOf(drain.array) \in Nat
  BY ArrayLength DEF Types, Drains, DrainSound
<1>2. /\ rings[n].tail \in Nat /\ LowHead(n) \in Nat
      /\ LowHead(n) <= i /\ i < rings[n].tail /\ drain.stripe <= s
  BY HeadsTails DEF InWindow, NotPassed
<1>3. CASE drain' = drain
  BY <1>3 DEF NotPassed
<1>4. CASE SkipDoes
  <2>1. s # drain.stripe
    BY <1>4 DEF SkipDoes
  <2>2. QED
    BY <1>1, <1>2, <1>4, <2>1 DEF NotPassed, SkipDoes, SameDrain
<1>5. CASE EnterDoes
  BY <1>2, <1>5 DEF NotPassed, EnterDoes, SameDrain
<1>6. CASE EmptyDoes
  <2>1. n # drain.ring
    BY <1>2, <1>6 DEF EmptyDoes, LowHead, InRing
  <2>2. s # drain.stripe
    BY <1>6, <2>1 DEF EmptyDoes, DrainSound, InRing
  <2>3. QED
    BY <1>1, <1>2, <1>6, <2>2 DEF NotPassed, EmptyDoes, SameDrain
<1>7. CASE TailDoes
  BY <1>2, <1>7 DEF NotPassed, TailDoes, SameDrain
<1>8. CASE TakeDoes
  BY <1>2, <1>8 DEF NotPassed, TakeDoes, SameDrain
<1>9. CASE LeaveDoes
  <2>1. drain.pc = "slot" /\ drain.head = drain.tail
    BY <1>9 DEF LeaveDoes, DrainSound
  <2>2. n # drain.ring
    BY <1>1, <1>2, <2>1 DEF NotPassed, LowHead, InRing
  <2>3. s # drain.stripe
    BY <2>1, <2>2 DEF DrainSound, InRing
  <2>4. QED
    BY <1>1, <1>2, <1>9, <2>3 DEF NotPassed, LeaveDoes, SameDrain
<1>10. QED
  BY <1>3, <1>4, <1>5, <1>6, <1>7, <1>8, <1>9 DEF StepDoes, DrainDoes, ReaderDoes, DrainStays,
     BeginDoes, StopDoes, EndDoes, vars, shared

\* Every step keeps StillAhead.
LEMMA AheadStep ==
    ASSUME Inv, Inv', Monotone, StepDoes, StillAhead PROVE StillAhead'
<1> USE DEF Inv
<1>1. CASE BeginDoes
  BY <1>1, AheadBegins
<1>2. CASE ~BeginDoes
  <2>1. SUFFICES ASSUME drain'.pc # "off", ~drain'.stopped, NEW e \in before'
        PROVE  \E s \in drain'.stripe..(LenOf(drain.array)' - 1) : AheadIn(e, s)'
    BY DEF StillAhead
  <2>2. drain.pc # "off" /\ ~drain.stopped
    BY SMTT(30), <1>2, <2>1 DEF StepDoes, DrainDoes, ReaderDoes, DrainStays, SkipDoes, EnterDoes, EmptyDoes,
       TailDoes, StopDoes, TakeDoes, LeaveDoes, EndDoes, vars, shared
  <2>3. e \in before /\ ~(TakeDoes /\ e = AtHead)
    BY <1>2, <2>1 DEF StepDoes, DrainDoes, ReaderDoes, DrainStays, SkipDoes, EnterDoes, EmptyDoes,
       TailDoes, StopDoes, TakeDoes, LeaveDoes, EndDoes, vars, shared, AtHead
  <2>4. e # None
    BY <2>3, Constants DEF Types
  <2>5. /\ drain.array \in 1..Len(arrays) /\ drain.stripe \in Nat /\ drain'.stripe \in Nat
        /\ LenOf(drain.array) \in Nat
        /\ DOMAIN arrays[drain.array] = 0..(LenOf(drain.array) - 1)
    BY <2>2, ArrayLength DEF DrainSound, Types, Drains
  <2>6. PICK s \in drain.stripe..(LenOf(drain.array) - 1) : AheadIn(e, s)
    BY <2>2, <2>3 DEF StillAhead
  <2>7. s \in 0..(LenOf(drain.array) - 1) /\ s \in Nat
    BY <2>5
  <2>8. PICK n \in 1..Len(rings) : n = arrays[drain.array][s]
    BY <2>5, <2>6, <2>7 DEF AheadIn, Published, Types
  <2>9. PICK i \in Nat : HeldAt(n, e, i) /\ NotPassed(s, n, i)
    BY <2>6, <2>8 DEF AheadIn, NotPassed
  <2>10. HeldAt(n, e, i)'
    BY <2>3, <2>4, <2>9, HeldKept
  <2>11. drain'.array = drain.array /\ NotPassed(s, n, i)'
    BY <2>1, <2>2, <2>7, <2>8, <2>9, NotPassedStep DEF HeldAt
  <2>12. /\ arrays'[drain.array][s] = n
         /\ DOMAIN arrays'[drain.array] = DOMAIN arrays[drain.array]
    <3>1. n # 0
      BY DEF Types
    <3>2. ArraysGrow /\ s \in DOMAIN arrays[drain.array]
      BY <2>5, <2>7 DEF Monotone
    <3>3. QED
      BY <2>5, <2>8, <3>1, <3>2 DEF ArraysGrow
  <2>13. LenOf(drain.array)' = LenOf(drain.array)
    BY <2>11, <2>12 DEF LenOf
  <2>14. AheadIn(e, s)'
    BY <2>8, <2>10, <2>11, <2>12 DEF AheadIn, NotPassed
  <2>15. s \in drain'.stripe..(LenOf(drain.array)' - 1)
    BY <2>5, <2>7, <2>11, <2>13 DEF NotPassed
  <2>16. QED
    BY <2>14, <2>15
<1>3. QED
  BY <1>1, <1>2

\* A drain that met no reserved slot has taken all that was waiting when it began, whatever
\* readers place and however often they double the array meanwhile.
THEOREM DrainComplete == Spec => []DrainIsComplete
<1>1. Init => StillAhead
  BY DEF Init, StillAhead, NoDrain
<1>2. Inv /\ Inv' /\ StillAhead /\ [Next]_vars => StillAhead'
  BY NextInv, AheadStep
<1>3. Inv /\ StillAhead => DrainIsComplete
  <2> SUFFICES ASSUME Inv, StillAhead, drain.pc = "stripe", drain.stripe = LenOf(drain.array),
                      ~drain.stopped
               PROVE  before = {}
    BY DEF DrainIsComplete
  <2>1. LenOf(drain.array) \in Nat
    BY ArrayLength DEF Inv, DrainSound
  <2>2. QED
    BY <2>1 DEF StillAhead
<1>4. QED
  BY <1>1, <1>2, <1>3, Invariance, PTL DEF Spec

===============================================================================
