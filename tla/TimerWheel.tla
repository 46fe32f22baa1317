---------------------------------- MODULE TimerWheel ----------------------------------
(***************************************************************************)
(* The timing wheel (internal/expiration/variable.go) as a value: its time *)
(* and, for every node that is scheduled, its bucket.  The last level has  *)
(* one bucket, for whatever is too far away for the others.                *)
(***************************************************************************)
EXTENDS Integers, Sequences, SequencesExt, FiniteSetsExt, Functions

CONSTANTS
    Buckets,   \* how many buckets each level has
    Shift,     \* a tick of level i lasts 2 ^ Shift[i]
    Word       \* the durations are unsigned: they are computed modulo Word

ASSUME TimerWheelAssumption ==
    /\ Buckets \in Seq(Nat \ {0}) /\ Len(Buckets) > 1
    /\ Shift \in [DOMAIN Buckets -> Nat]
    /\ Word \in Nat \ {0}
    /\ \A i \in 1..(Len(Buckets) - 1) : Buckets[i] * 2 ^ Shift[i] = 2 ^ Shift[i + 1]

Levels == DOMAIN Buckets

Ticks(time, i) == time \div 2 ^ Shift[i]

EmptyWheel == [time |-> 0, in |-> <<>>]

\* The first level whose buckets reach as far as the expiration, or the last one.
FindBucket(wheel, expiration) ==
    LET duration == (expiration - wheel.time) % Word
        level    == Min({Len(Buckets)} \cup
                        {i \in 1..(Len(Buckets) - 1) : duration < 2 ^ Shift[i + 1]})
    IN  <<level, Ticks(expiration, level) % Buckets[level]>>

\* Whether a node is in a list; its bucket, and the history of its scheduling.
Scheduled(wheel, n) == n \in DOMAIN wheel.in
InBucket(wheel, b)  == {n \in DOMAIN wheel.in : wheel.in[n].bucket = b}

Schedule(wheel, n, expiration) ==
    LET timer == [bucket |-> FindBucket(wheel, expiration), by |-> expiration,
                  late |-> expiration < wheel.time]
    IN  [wheel EXCEPT !.in = [m \in DOMAIN @ \cup {n} |-> IF m = n THEN timer ELSE @[m]]]

Unschedule(wheel, N) == [wheel EXCEPT !.in = Restrict(@, DOMAIN @ \ N)]

\* Mutant: the last bucket, whose tick is not over yet, is left out.
LevelButLast(from, to, i) ==
    [j \in 1..Min({Ticks(to, i) - Ticks(from, i), Buckets[i]}) |->
        <<i, (Ticks(from, i) + j - 1) % Buckets[i]>>]

\* The buckets of a level whose ticks lie between two times.
LevelToScan(from, to, i) ==
    [j \in 1..Min({Ticks(to, i) - Ticks(from, i) + 1, Buckets[i]}) |->
        <<i, (Ticks(from, i) + j - 1) % Buckets[i]>>]

\* DeleteExpired: level by level, until one that has not advanced.
ToScan(from, to) ==
    LET moved == {i \in Levels : \A l \in 1..i : Ticks(to, l) # Ticks(from, l)}
    IN  FlattenSeq([i \in 1..Cardinality(moved) |-> LevelToScan(from, to, i)])

=============================================================================
