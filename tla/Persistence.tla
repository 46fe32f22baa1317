---------------------------- MODULE Persistence ----------------------------
(***************************************************************************)
(* Saving a cache to a file and loading it into another (persistence.go,   *)
(* with evictionOrder and SetExpiresAfter of cache_impl.go).  The saver    *)
(* truncates the file, then writes the maximum and a record per entry,     *)
(* hottest first; it may crash or fail between two records and in the      *)
(* middle of one.  The loader reads what is there while time passes.       *)
(***************************************************************************)
EXTENDS Naturals, Sequences, FiniteSetsExt

CONSTANTS
    Caches,      \* the caches to save: their entries, hottest first
    Maximums,    \* the maximums of both caches
    Lifetime,    \* what the loading cache's calculator gives
    Never,       \* the deadline of an entry without one
    MaxTime,     \* bound: the clock
    None

PersistenceAssumption ==
    /\ MaxTime \in Nat /\ Lifetime \in Nat \ {0} /\ Maximums \subseteq Nat \ {0}
    /\ \A c \in Caches : \A i \in DOMAIN c : c[i].weight \in Nat /\ c[i].expiresAt \in 0..Never

VARIABLES
    clock,
    entries,     \* what is saved, in the policy's order
    gone,        \* the keys that had been removed, or had expired, when the saver came to them
    maximum,     \* of the cache that is saved
    file,        \* its records, the maximum first
    torn,        \* the last record is cut off in the middle
    saver,
    calculator,  \* of the loading cache: ExpiryWriting or ExpiryAccessing
    own,         \* its maximum
    cache,       \* the deadlines of its entries
    loader,
    loaded,      \* the entries that were loaded: key, the hits they were given, and how long
                 \* after the loader the cache looked at the clock
    outdated     \* the keys whose entry had expired when the loader read it

saving  == <<entries, gone, maximum, saver>>
loading == <<calculator, own, cache, loader, loaded, outdated>>
vars    == <<clock, file, torn, saving, loading>>

Keys == UNION {{c[i].key : i \in DOMAIN c} : c \in Caches}

Init ==
    /\ clock = 0
    /\ entries \in Caches /\ gone = {} /\ maximum \in Maximums
    /\ file = None /\ torn = FALSE
    /\ saver = [pc |-> "create", next |-> 1, size |-> 0]
    /\ calculator \in {"writing", "accessing"} /\ own \in Maximums
    /\ cache = [k \in Keys |-> None]
    /\ loader = [pc |-> "off", next |-> 2, size |-> 0, maximum |-> 0, seen |-> 0, delay |-> 0]
    /\ loaded = <<>> /\ outdated = {}

Tick ==
    /\ clock < MaxTime
    /\ clock' = clock + 1
    /\ UNCHANGED <<file, torn, saving, loading>>

--------------------------------------------------------------------------------
(* SaveCacheToFile *)

Create ==
    /\ saver.pc = "create"
    /\ file' = <<>>
    /\ saver' = [saver EXCEPT !.pc = "maximum"]
    /\ UNCHANGED <<clock, torn, entries, gone, maximum, loading>>

SaveMaximum ==
    /\ saver.pc = "maximum"
    /\ file' = <<maximum>>
    /\ saver' = [saver EXCEPT !.pc = "entries"]
    /\ UNCHANGED <<clock, torn, entries, gone, maximum, loading>>

\* Mutant: only what fits.
SaveMoreIfFits(e) == saver.size + e.weight <= maximum

\* The loop goes on until the maximum is reached; the last entry may exceed it.
SaveMore(e) == saver.size < maximum

\* evictionOrder passes over the nodes that are not alive or have expired.
SaveEntry ==
    /\ saver.pc = "entries"
    /\ IF saver.next > Len(entries)
       THEN saver' = [saver EXCEPT !.pc = "done"] /\ UNCHANGED <<gone, file>>
       ELSE LET e == entries[saver.next]
            IN  \/ /\ gone' = gone \cup {e.key}
                   /\ saver' = [saver EXCEPT !.next = @ + 1]
                   /\ UNCHANGED file
                \/ /\ e.expiresAt > clock
                   /\ SaveMore(e)
                   /\ file' = Append(file, e)
                   /\ saver' = [saver EXCEPT !.next = @ + 1, !.size = @ + e.weight]
                   /\ UNCHANGED gone
                \/ /\ e.expiresAt > clock
                   /\ ~SaveMore(e)
                   /\ saver' = [saver EXCEPT !.pc = "done"]
                   /\ UNCHANGED <<gone, file>>
    /\ UNCHANGED <<clock, torn, entries, maximum, loading>>

\* The process ends, or a write fails and the error is returned: the file stays.
Interrupt ==
    /\ saver.pc \in {"maximum", "entries"}
    /\ saver' = [saver EXCEPT !.pc = "interrupted"]
    /\ torn' \in BOOLEAN
    /\ UNCHANGED <<clock, file, entries, gone, maximum, loading>>

--------------------------------------------------------------------------------
(* LoadCacheFromFile *)

\* Mutant: the file's maximum counts.
MaximumOfFile(saved) == saved

LoadedMaximum(saved) == Min({saved, own})

LoadMaximum ==
    /\ loader.pc = "off" /\ saver.pc \in {"done", "interrupted"}
    /\ loader' = IF file = <<>> THEN [loader EXCEPT !.pc = "error"]
                 ELSE [loader EXCEPT !.pc = "entry", !.maximum = LoadedMaximum(file[1])]
    /\ UNCHANGED <<clock, file, torn, saving, calculator, own, cache, loaded, outdated>>

\* The end of the file is the end of the load, a record that was cut off an error.
LoadEnds ==
    /\ loader.pc = "entry"
    /\ loader.size >= loader.maximum \/ loader.next > Len(file)
    /\ loader' = [loader EXCEPT !.pc = IF loader.size < loader.maximum /\ torn THEN "error" ELSE "ok"]
    /\ UNCHANGED <<clock, file, torn, saving, calculator, own, cache, loaded, outdated>>

LoadEntry ==
    /\ loader.pc = "entry"
    /\ loader.size < loader.maximum /\ loader.next <= Len(file)
    /\ LET e == file[loader.next]
       IN  IF e.expiresAt < clock
           THEN /\ outdated' = outdated \cup {e.key}
                /\ loader' = [loader EXCEPT !.next = @ + 1]
           ELSE /\ loader' = [loader EXCEPT !.pc = "set", !.seen = clock]
                /\ UNCHANGED outdated
    /\ UNCHANGED <<clock, file, torn, saving, calculator, own, cache, loaded>>

Entry == file[loader.next]

Set ==
    /\ loader.pc = "set"
    /\ cache' = [cache EXCEPT ![Entry.key] = clock + Lifetime]
    /\ loader' = [loader EXCEPT !.delay = 0, !.pc = IF Entry.expiresAt = Never THEN "warm" ELSE "expires"]
    /\ UNCHANGED <<clock, file, torn, saving, calculator, own, loaded, outdated>>

\* Mutant: the time left may be zero, which SetExpiresAfter ignores.
LeftUnclamped(e) == e.expiresAt - loader.seen

\* The time left when the loader looked at the clock.
Left(e) == Max({1, e.expiresAt - loader.seen})

\* SetExpiresAfter looks at the clock again.
SetExpiresAfter ==
    /\ loader.pc = "expires"
    /\ cache' = IF cache[Entry.key] = None \/ Left(Entry) = 0 THEN cache
                ELSE [cache EXCEPT ![Entry.key] = clock + Left(Entry)]
    /\ loader' = [loader EXCEPT !.pc = "warm", !.delay = clock - loader.seen]
    /\ UNCHANGED <<clock, file, torn, saving, calculator, own, loaded, outdated>>

\* Mutant: the other way round.
HitsReversed(size) ==
    LET quarter == loader.maximum \div 4
    IN  IF size <= quarter THEN 0 ELSE IF size <= 2 * quarter THEN 1 ELSE 2

\* The hits an entry is given, for the policy.
Hits(size) ==
    LET quarter == loader.maximum \div 4
    IN  IF size <= quarter THEN 2 ELSE IF size <= 2 * quarter THEN 1 ELSE 0

\* GetIfPresent, which an ExpiryAccessing calculator answers with a new deadline.
Warm ==
    /\ loader.pc = "warm"
    /\ LET k    == Entry.key
           size == loader.size + Entry.weight
       IN  /\ loaded' = Append(loaded, [key |-> k, hits |-> Hits(size), delay |-> loader.delay])
           /\ cache' = IF cache[k] = None \/ Hits(size) = 0 \/ calculator = "writing" THEN cache
                       ELSE [cache EXCEPT ![k] = IF @ <= clock THEN @ ELSE clock + Lifetime]
           /\ loader' = [loader EXCEPT !.pc = "entry", !.size = size, !.next = @ + 1]
    /\ UNCHANGED <<clock, file, torn, saving, calculator, own, outdated>>

\* The maintenance of the loading cache removes what has expired.
Expire ==
    /\ \E k \in Keys :
         /\ cache[k] # None
         /\ cache[k] <= clock
         /\ cache' = [cache EXCEPT ![k] = None]
    /\ UNCHANGED <<clock, file, torn, saving, calculator, own, loader, loaded, outdated>>

--------------------------------------------------------------------------------

Next ==
    \/ Tick
    \/ Create \/ SaveMaximum \/ SaveEntry \/ Interrupt
    \/ LoadMaximum \/ LoadEnds \/ LoadEntry \/ Set \/ SetExpiresAfter \/ Warm \/ Expire

--------------------------------------------------------------------------------
(* Properties *)

Index(k)      == CHOOSE i \in DOMAIN entries : entries[i].key = k
LoadedKeys    == {loaded[i].key : i \in DOMAIN loaded}
LoadedHits(k) == loaded[CHOOSE i \in DOMAIN loaded : loaded[i].key = k].hits
Weight(S)     == MapThenSumSet(LAMBDA k : entries[Index(k)].weight, S)

\* An entry is as old after a save and a load as it was before: it does not lose
\* any time, and gains at most what the load took (and the nanosecond of an entry
\* that was about to expire).  A cache whose reads extend the deadline is
\* different: the loader's own reads of the hottest entries count.
DeadlinesKept ==
    \A i \in DOMAIN loaded :
        LET k == loaded[i].key
            d == entries[Index(k)].expiresAt
        IN  cache[k] # None /\ d # Never /\ (calculator = "writing" \/ loaded[i].hits = 0) =>
                cache[k] \in d..d + loaded[i].delay + 1

\* Whatever cuts a save or a load short (an interruption, either maximum), what is
\* kept is hotter than what is lost, and a hotter entry is not given fewer hits.
HottestKept ==
    \A k \in LoadedKeys : \A i \in 1..Index(k) - 1 :
        LET hotter == entries[i].key
        IN  \/ hotter \in gone \cup outdated
            \/ hotter \in LoadedKeys /\ LoadedHits(hotter) >= LoadedHits(k)

\* The load ends with the entry that reaches the smaller maximum.
WithinMaximum ==
    loaded # <<>> =>
        Weight(LoadedKeys \ {loaded[Len(loaded)].key}) < Min({maximum, own})

\* An entry is only lost by a save without interruption and a load without error if
\* it has been removed or has expired, or if the hotter entries fill the cache that
\* was saved or the one that was loaded.
NothingLost ==
    saver.pc = "done" /\ loader.pc = "ok" =>
        \A i \in DOMAIN entries :
            LET hotter == {entries[j].key : j \in 1..i - 1}
            IN  \/ entries[i].key \in LoadedKeys \cup gone \cup outdated
                \/ Weight(hotter \ gone) >= maximum
                \/ Weight(hotter \cap LoadedKeys) >= own

\* Together: what a save and a load keep, and what they may lose.
SavedFaithfully == DeadlinesKept /\ HottestKept /\ WithinMaximum /\ NothingLost

=============================================================================
