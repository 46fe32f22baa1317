------------------------------- MODULE Sketch -------------------------------
(***************************************************************************)
(* The frequency sketch of the policy (sketch.go): every key has a counter *)
(* in each of four rows, which others may share; an increment counts in    *)
(* all four, and after sampleSize increments all counters are halved.      *)
(* All of it runs under the eviction mutex.                                *)
(***************************************************************************)
EXTENDS Naturals, FiniteSetsExt

CONSTANTS
    Keys,
    Hashes,      \* for each key, its counter in each row
    CounterMax,  \* the largest value of a counter, 15
    SampleSizes, \* those of the tables a sketch may have
    Word         \* 2^64

Rows == 1..4

SketchAssumption ==
    /\ CounterMax \in Nat \ {0} /\ SampleSizes \subseteq Nat \ {0}
    /\ \A h \in Hashes : h \in [Keys -> [Rows -> Nat]]

VARIABLES
    hash,        \* the hash function of the table in use
    table,       \* the counters that are not zero
    sampleSize,
    size,
    aged         \* history: how often each key was counted, halved whenever the counters are

vars == <<hash, table, sampleSize, size, aged>>

Counters(h) == {<<i, h[k][i]>> : i \in Rows, k \in Keys}
Of(k)       == {<<i, hash[k][i]>> : i \in Rows}

\* No table yet: nothing is counted.
Uninitialized == sampleSize = 0

Init ==
    /\ hash \in Hashes
    /\ table = [c \in Counters(hash) |-> 0]
    /\ sampleSize = 0 /\ size = 0
    /\ aged = [k \in Keys |-> 0]

Total == MapThenSumSet(LAMBDA c : table[c], DOMAIN table)

frequency(k) == IF Uninitialized THEN 0 ELSE Min({table[c] : c \in Of(k)})

\* ensureCapacity: a larger table, with a new seed, begins to count again.
ensureCapacity ==
    /\ \E s \in SampleSizes : s > sampleSize /\ sampleSize' = s
    /\ hash' \in Hashes
    /\ table' = [c \in Counters(hash') |-> 0]
    /\ size' = 0
    /\ aged' = [k \in Keys |-> 0]

\* Mutant: added = added || incrementAt(...) stops at the first counter that has room.
IncrementOne(k) ==
    LET room == {c \in Of(k) : table[c] < CounterMax}
        first == CHOOSE c \in room : \A d \in room : c[1] <= d[1]
    IN  [c \in DOMAIN table |-> IF room # {} /\ c = first THEN table[c] + 1 ELSE table[c]]

\* incrementAt, for the four counters: a full one stays.
Increment(k) ==
    [c \in DOMAIN table |-> IF c \in Of(k) /\ table[c] < CounterMax THEN table[c] + 1 ELSE table[c]]

\* Mutant: the odd counters are subtracted from the size, not a quarter of them.
SizeByCounters(n, odd) == ((n + Word - odd) % Word) \div 2

\* The unsigned size after a reset.
ResetSize(n, odd) == ((n + Word - odd \div 4) % Word) \div 2

\* A full counter makes a count only if another of the key is not full.
increment(k) ==
    /\ ~Uninitialized
    /\ LET t     == Increment(k)
           added == t # table
           odd   == Cardinality({c \in DOMAIN t : t[c] % 2 = 1})
           reset == added /\ size + 1 = sampleSize
           count == IF aged[k] < CounterMax THEN aged[k] + 1 ELSE aged[k]
       IN  /\ table' = IF reset THEN [c \in DOMAIN t |-> t[c] \div 2] ELSE t
           /\ size' = IF reset THEN ResetSize(size + 1, odd) ELSE IF added THEN size + 1 ELSE size
           /\ aged' = [j \in Keys |-> LET n == IF j = k THEN count ELSE aged[j]
                                      IN  IF reset THEN n \div 2 ELSE n]
    /\ UNCHANGED <<hash, sampleSize>>

Next == ensureCapacity \/ \E k \in Keys : increment(k)

--------------------------------------------------------------------------------
(* Properties *)

\* The sketch never says less of a key than it has been counted since the last
\* halvings, whatever keys it shares its counters with: a hot key is not turned away
\* for a colder one because of a collision.
NeverUnderestimates ==
    \A k \in Keys : ~Uninitialized => frequency(k) >= aged[k] /\ frequency(k) <= CounterMax

\* The counters hold at most four counts per unit of size, up to a rounding: therefore
\* the quarter of the odd counters that a reset subtracts from the unsigned size is
\* never more than it, and the size, which is compared by equality, never passes the sample size.
SizeCoversCounters ==
    /\ Total <= 4 * size + 3
    /\ Uninitialized \/ size < sampleSize

\* Together: the counters are no less than the counts, the size no less than the counters.
CountsSound == NeverUnderestimates /\ SizeCoversCounters

=============================================================================
