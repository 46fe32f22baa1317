------------------------------ MODULE MCParts ------------------------------
(***************************************************************************)
(* The parts of the library that do not depend on each other, for TLC.     *)
(* A behaviour is about one of them, the others stay as they are.  The     *)
(* parts that PartsProofs proves about are extended, the others instances. *)
(***************************************************************************)
EXTENDS Leaderboard, Refresh

CONSTANTS
    a1, a2, m1, m2, m3  \* goroutines; members of the board, and keys

\* The part this behaviour is about.
VARIABLE part

VARIABLES source, now, ticker, tickWg, begun, fake, sleepWg, once, cleaner, cleanedAt, user, nap,
          answers, made

Periodic == INSTANCE PeriodicCleanUp WITH
    Users <- {a1, a2}, Period <- 2, Naps <- {1, 4}, MaxTime <- 6, MaxCalls <- 3

VARIABLES clock, entries, gone, maximum, file, torn, saver, calculator, own, cache, loader, loaded,
          outdated

Never == 99

\* Deadlines that pass during the load, weights of zero, and a last entry that exceeds
\* the maximum.
Caches ==
    {<<[key |-> m1, weight |-> 1, expiresAt |-> Never], [key |-> m2, weight |-> 1, expiresAt |-> 1],
       [key |-> m3, weight |-> 2, expiresAt |-> 3]>>,
     <<[key |-> m1, weight |-> 2, expiresAt |-> 2], [key |-> m2, weight |-> 0, expiresAt |-> 4],
       [key |-> m3, weight |-> 1, expiresAt |-> Never]>>}

Saved == INSTANCE Persistence WITH
    Maximums <- {2, 4, 8}, Lifetime <- 6, MaxTime <- 3

VARIABLES arrays, cached, chatMu, chatter, appended, log, recents, given

Messages == {[id |-> m1, payload |-> "p"], [id |-> m1, payload |-> "q"],
             [id |-> m2, payload |-> "p"], [id |-> m3, payload |-> "p"]}

Store == INSTANCE Chat WITH
    Agents <- {a1, a2}, MessagesPerConversation <- 2, MaxCalls <- 4

VARIABLES hash, table, sampleSize, size, aged

\* Keys that share some of their counters, all or none.
Hashes == {[k \in {m1, m2, m3} |-> IF k = m1 THEN <<0, 0, 0, 0>>
                                   ELSE IF k = m2 THEN <<0, 1, 0, 1>> ELSE <<1, 1, 0, 1>>],
           [k \in {m1, m2, m3} |-> IF k = m3 THEN <<1, 1, 1, 1>> ELSE <<0, 0, 0, 0>>]}

Frequency == INSTANCE Sketch WITH
    Keys <- {m1, m2, m3}, CounterMax <- 15, SampleSizes <- {10, 40}, Word <- 64

VARIABLES hits, loads, totalLoadTime, recorder, snapshot, records, recorded, entered

Stats == INSTANCE Counter WITH
    Recorders <- {a1, a2}, Stripes <- 2, LoadTimes <- {1, 2}, MaxRecords <- 4

\* Two operations under each calculator, the first one a load, and two loads and a write
\* under the calculator that does most.
MCPlans ==
    LET Run(o, p, q) == [a \in Callers |-> IF a = a1 THEN o ELSE IF a = a2 THEN p ELSE q]
    IN  {[ops |-> Run(o, p, "none"), rule |-> r] :
            o \in {"get", "refresh"}, r \in {"creating", "writing", "backoff"},
            p \in {"get", "refresh", "setRefreshableAfter", "set", "invalidate"}}
        \cup {[ops |-> Run("get", "get", "set"), rule |-> "backoff"]}

ASSUME PartsAssumption ==
    /\ Periodic!PeriodicAssumption /\ Saved!PersistenceAssumption
    /\ Store!ChatAssumption /\ Frequency!SketchAssumption /\ Stats!CounterAssumption

--------------------------------------------------------------------------------

clockVars       == <<source, now, ticker, tickWg, begun, fake, sleepWg, once, cleaner, cleanedAt,
                     user, nap, answers, made>>
persistenceVars == <<clock, entries, gone, maximum, file, torn, saver, calculator, own, cache,
                     loader, loaded, outdated>>
chatVars        == <<arrays, cached, chatMu, chatter, appended, log, recents, given>>
sketchVars      == <<hash, table, sampleSize, size, aged>>
statsVars       == <<hits, loads, totalLoadTime, recorder, snapshot, records, recorded, entered>>

partsVars == <<part, clockVars, persistenceVars, boardVars, chatVars, sketchVars, statsVars,
               refreshVars>>

PartsInit ==
    /\ part \in {"clock", "persistence", "leaderboard", "chat", "sketch", "stats", "refresh"}
    /\ Periodic!Init /\ (part # "clock" => source = "real")
    /\ Saved!Init
    /\ (part # "persistence" =>
          entries[1].weight = 1 /\ maximum = 2 /\ own = 2 /\ calculator = "writing")
    /\ BoardInit /\ Store!Init /\ Stats!Init
    /\ Frequency!Init /\ (part # "sketch" => hash[m2] = hash[m1])
    /\ RefreshInit
    /\ (part # "refresh" => shown = None /\ rule = "backoff" /\ caller[m1].op # "none")

Others(p) ==
    /\ part = p /\ part' = part
    /\ p # "clock" => UNCHANGED clockVars
    /\ p # "persistence" => UNCHANGED persistenceVars
    /\ p # "leaderboard" => UNCHANGED boardVars
    /\ p # "chat" => UNCHANGED chatVars
    /\ p # "sketch" => UNCHANGED sketchVars
    /\ p # "stats" => UNCHANGED statsVars
    /\ p # "refresh" => UNCHANGED refreshVars

PartsNext ==
    \/ Others("clock") /\ Periodic!Next
    \/ Others("persistence") /\ Saved!Next
    \/ Others("leaderboard") /\ BoardNext
    \/ Others("chat") /\ Store!Next
    \/ Others("sketch") /\ Frequency!Next
    \/ Others("stats") /\ Stats!Next
    \/ Others("refresh") /\ RefreshNext

PartsSpec == PartsInit /\ [][PartsNext]_partsVars

--------------------------------------------------------------------------------
(* Properties; the parts of each are stated in its module. *)

\* The periodic clean-up goes on until it is stopped, not more than a period behind, and
\* neither StopAllGoroutines nor Sleep hangs.
CleanUpServes == Periodic!CleanUpServes

\* Saving and loading an entry neither ages nor rejuvenates it; of a save or load that is
\* cut short the hottest part is kept.
SavedFaithfully == Saved!SavedFaithfully

\* Slices of messages that share an array do not disturb each other.
SlicesSound == Store!SlicesSound

\* Collisions never lower a frequency, and the sketch halves its counters in time.
CountsSound == Frequency!CountsSound

\* Every hit is counted once, and a snapshot makes sense.
StatsSound == Stats!StatsSound

=============================================================================
