------------------------------ MODULE Counter ------------------------------
(***************************************************************************)
(* The statistics (stats/counter.go, internal/xsync/adder.go): goroutines  *)
(* count hits in the stripes of an adder, by compare-and-swap, and loads   *)
(* in plain atomic counters; others take snapshots, counter by counter.    *)
(* Misses are counted like hits.                                           *)
(***************************************************************************)
EXTENDS Naturals, FiniteSetsExt

CONSTANTS
    Recorders,   \* the goroutines that count
    Stripes,     \* how many stripes an adder has
    LoadTimes,   \* how long the loads take
    MaxRecords   \* bound: how many hits, loads and snapshots there are

CounterAssumption ==
    /\ Stripes \in Nat \ {0} /\ LoadTimes \subseteq Nat /\ MaxRecords \in Nat

VARIABLES
    hits,            \* the stripes
    loads,           \* loadSuccesses and loadFailures
    totalLoadTime,
    recorder,        \* the calls that count
    snapshot,        \* the one that reads
    records,         \* how many calls were made
    recorded, entered  \* history: the hits whose call has returned, and has entered

counters == <<hits, loads, totalLoadTime>>
vars     == <<counters, recorder, snapshot, records, recorded, entered>>

Outcomes == {"success", "failure"}

Idle == [pc |-> "off", stripe |-> 1, seen |-> 0, outcome |-> "success", time |-> 0]
NoSnapshot == [pc |-> "off", next |-> 1, time |-> 0, hits |-> 0, loads |-> 0, atLeast |-> 0]

Init ==
    /\ hits = [i \in 1..Stripes |-> 0]
    /\ loads = [o \in Outcomes |-> 0]
    /\ totalLoadTime = 0
    /\ recorder = [r \in Recorders |-> Idle]
    /\ snapshot = NoSnapshot
    /\ records = 0 /\ recorded = 0 /\ entered = 0

At(r, l) == recorder[r].pc = l

--------------------------------------------------------------------------------
(* RecordHits, that is Adder.Add *)

BeginHit(r) ==
    /\ At(r, "off") /\ records < MaxRecords
    /\ records' = records + 1 /\ entered' = entered + 1
    /\ \E i \in 1..Stripes : recorder' = [recorder EXCEPT ![r] = [Idle EXCEPT !.pc = "load", !.stripe = i]]
    /\ UNCHANGED <<counters, snapshot, recorded>>

Load(r) ==
    /\ At(r, "load")
    /\ recorder' = [recorder EXCEPT ![r].pc = "swap", ![r].seen = hits[recorder[r].stripe]]
    /\ UNCHANGED <<counters, snapshot, records, recorded, entered>>

\* Mutant: the sum is stored, not swapped.
StoreHit(r) ==
    /\ At(r, "swap")
    /\ hits' = [hits EXCEPT ![recorder[r].stripe] = recorder[r].seen + 1]
    /\ recorded' = recorded + 1
    /\ recorder' = [recorder EXCEPT ![r] = Idle]
    /\ UNCHANGED <<loads, totalLoadTime, snapshot, records, entered>>

\* A swap that fails is tried again on another stripe.
Swap(r) ==
    /\ At(r, "swap")
    /\ LET i == recorder[r].stripe
       IN  IF hits[i] = recorder[r].seen
           THEN /\ hits' = [hits EXCEPT ![i] = @ + 1]
                /\ recorded' = recorded + 1
                /\ recorder' = [recorder EXCEPT ![r] = Idle]
           ELSE /\ \E j \in 1..Stripes :
                     recorder' = [recorder EXCEPT ![r].pc = "load", ![r].stripe = j]
                /\ UNCHANGED <<hits, recorded>>
    /\ UNCHANGED <<loads, totalLoadTime, snapshot, records, entered>>

(* RecordLoadSuccess and RecordLoadFailure *)

BeginLoad(r) ==
    /\ At(r, "off") /\ records < MaxRecords
    /\ records' = records + 1
    /\ \E o \in Outcomes, t \in LoadTimes :
         recorder' = [recorder EXCEPT ![r] = [Idle EXCEPT !.pc = "count", !.outcome = o, !.time = t]]
    /\ UNCHANGED <<counters, snapshot, recorded, entered>>

\* Mutant: the time first.
TimeThenCount(r) ==
    \/ /\ At(r, "count")
       /\ totalLoadTime' = totalLoadTime + recorder[r].time
       /\ recorder' = [recorder EXCEPT ![r].pc = "time"]
       /\ UNCHANGED <<hits, loads, snapshot, records, recorded, entered>>
    \/ /\ At(r, "time")
       /\ loads' = [loads EXCEPT ![recorder[r].outcome] = @ + 1]
       /\ recorder' = [recorder EXCEPT ![r] = Idle]
       /\ UNCHANGED <<hits, totalLoadTime, snapshot, records, recorded, entered>>

CountThenTime(r) ==
    \/ /\ At(r, "count")
       /\ loads' = [loads EXCEPT ![recorder[r].outcome] = @ + 1]
       /\ recorder' = [recorder EXCEPT ![r].pc = "time"]
       /\ UNCHANGED <<hits, totalLoadTime, snapshot, records, recorded, entered>>
    \/ /\ At(r, "time")
       /\ totalLoadTime' = totalLoadTime + recorder[r].time
       /\ recorder' = [recorder EXCEPT ![r] = Idle]
       /\ UNCHANGED <<hits, loads, snapshot, records, recorded, entered>>

--------------------------------------------------------------------------------
(* Snapshot *)

SnapshotTime ==
    /\ snapshot.pc = "off" /\ records < MaxRecords
    /\ records' = records + 1
    /\ snapshot' = [NoSnapshot EXCEPT !.pc = "hits", !.time = totalLoadTime, !.atLeast = recorded]
    /\ UNCHANGED <<counters, recorder, recorded, entered>>

\* Mutant: the last stripe is left out.
SnapshotFewerHits ==
    /\ snapshot.pc = "hits"
    /\ snapshot' = [snapshot EXCEPT !.hits = @ + hits[snapshot.next], !.next = @ + 1,
                                    !.pc = IF snapshot.next >= Stripes - 1 THEN "loads" ELSE "hits"]
    /\ UNCHANGED <<counters, recorder, records, recorded, entered>>

\* Adder.Value reads stripe after stripe.
SnapshotHits ==
    /\ snapshot.pc = "hits"
    /\ snapshot' = [snapshot EXCEPT !.hits = @ + hits[snapshot.next], !.next = @ + 1,
                                    !.pc = IF snapshot.next = Stripes THEN "loads" ELSE "hits"]
    /\ UNCHANGED <<counters, recorder, records, recorded, entered>>

SnapshotSuccesses ==
    /\ snapshot.pc = "loads"
    /\ snapshot' = [snapshot EXCEPT !.loads = loads["success"], !.pc = "failures"]
    /\ UNCHANGED <<counters, recorder, records, recorded, entered>>

SnapshotFailures ==
    /\ snapshot.pc = "failures"
    /\ snapshot' = [snapshot EXCEPT !.loads = @ + loads["failure"], !.pc = "taken"]
    /\ UNCHANGED <<counters, recorder, records, recorded, entered>>

--------------------------------------------------------------------------------

Next ==
    \/ \E r \in Recorders : BeginHit(r) \/ Load(r) \/ Swap(r) \/ BeginLoad(r) \/ CountThenTime(r)
    \/ SnapshotTime \/ SnapshotHits \/ SnapshotSuccesses \/ SnapshotFailures

--------------------------------------------------------------------------------
(* Properties *)

\* No hit is lost or counted twice, however many goroutines count on one stripe.
HitsCounted == MapThenSumSet(LAMBDA i : hits[i], 1..Stripes) = recorded

\* A snapshot, although it reads the stripes one after the other, shows at least the
\* hits that were recorded before it began, and at most those that have entered.
SnapshotBounded ==
    snapshot.pc \notin {"off", "hits"} => snapshot.hits \in snapshot.atLeast..entered

\* The load time in a snapshot is that of the loads in it, or less: the recorder counts
\* the load before its time, and the snapshot reads the time before the counts.
TimeHasItsLoads ==
    snapshot.pc = "taken" => snapshot.time <= Max(LoadTimes) * snapshot.loads

\* Together: what is counted and what a snapshot shows of it.
StatsSound == HitsCounted /\ SnapshotBounded /\ TimeHasItsLoads

=============================================================================
