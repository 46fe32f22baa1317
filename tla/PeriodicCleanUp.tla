-------------------------- MODULE PeriodicCleanUp --------------------------
(***************************************************************************)
(* The goroutine of a cache with expiration that cleans up at every tick   *)
(* of the clock (periodicCleanUp, StopAllGoroutines of cache_impl.go), and *)
(* the two clocks of clock.go that tick: the real one, whose ticker drops  *)
(* ticks, and the fake one, a goroutine that moves the time when somebody  *)
(* sleeps and sends every tick the sleep has passed.                       *)
(***************************************************************************)
EXTENDS Integers

CONSTANTS
    Users,       \* goroutines that sleep on the fake clock or stop the cache's goroutine
    Period,      \* the duration given to Tick
    Naps,        \* how long they sleep
    MaxTime,     \* bound: the time
    MaxCalls,    \* bound: how often they sleep or stop
    None

PeriodicAssumption ==
    /\ Period \in Nat \ {0} /\ MaxTime \in Nat /\ MaxCalls \in Nat
    /\ Naps \subseteq Nat \ {0}
    /\ None \notin Int

VARIABLES
    source,      \* the clock: real or fake
    now,
    ticker,      \* the channel of the ticks, which has room for one
    tickWg,      \* the ticks of the fake clock that have not been processed
    begun,       \* when Tick was called
    fake,        \* the goroutine of the fake clock
    sleepWg,
    once,        \* stopOnce: whether it is free, running or done
    cleaner,     \* the periodic goroutine
    cleanedAt,   \* the time its last clean-up has seen
    user,        \* the calls
    nap,
    answers,     \* the answers of StopAllGoroutines
    made         \* how many calls were made

clocks == <<source, now, ticker, tickWg, begun, fake, sleepWg>>
vars   == <<clocks, once, cleaner, cleanedAt, user, nap, answers, made>>

\* fake: where the goroutine is, the period, the time it has slept beyond its last
\* tick, that tick, the nap it is busy with, and whether no tick was sent yet.
Init ==
    /\ source \in {"real", "fake"}
    /\ now = 0 /\ ticker = None /\ tickWg = 0 /\ begun = None
    /\ fake = [pc |-> "select", d |-> 0, dur |-> 0, last |-> 0, nap |-> 0, firstSleep |-> TRUE]
    /\ sleepWg = 0 /\ once = "free"
    /\ cleaner = "tick" /\ cleanedAt = 0
    /\ user = [u \in Users |-> "off"]
    /\ nap = [u \in Users |-> 0]
    /\ answers = {}
    /\ made = 0

Enabled    == fake.d > 0
Is(u, l)   == user[u] = l
Become(u, l) == user' = [user EXCEPT ![u] = l]

--------------------------------------------------------------------------------
(* The clocks *)

\* time.Tick: a tick finds the channel empty or is dropped.
Elapse ==
    /\ source = "real" /\ now < MaxTime
    /\ now' = now + 1
    /\ ticker' = IF ticker = None /\ begun # None /\ (now' - begun) % Period = 0
                 THEN now' ELSE ticker
    /\ UNCHANGED <<source, tickWg, begun, fake, sleepWg, once, cleaner, cleanedAt, user, nap,
                   answers, made>>

FakeStep(l) == source = "fake" /\ fake.pc = l

\* What the fake clock's goroutine does after it has received from a channel: before
\* the first tick, it sends one and waits until it has been processed.
Opening(f, next) == IF f.firstSleep THEN "firstTick" ELSE next

\* Mutant: the ticks that were missed before Tick was called are not made up for.
ForgetMissed(d) == [fake EXCEPT !.d = d, !.dur = 0]

\* enableTick: the sleeps before it count.
EnableTick(d) ==
    LET f == [fake EXCEPT !.d = d]
    IN  [f EXCEPT !.pc = IF d <= f.dur THEN Opening(f, "send") ELSE "select"]

\* Sleep's rendezvous with the goroutine.
ReceiveNap(u) ==
    /\ Is(u, "sleep") /\ FakeStep("select")
    /\ fake' = [fake EXCEPT !.nap = nap[u], !.pc = IF Enabled THEN Opening(fake, "apply") ELSE "apply"]
    /\ Become(u, "wait")
    /\ UNCHANGED <<source, now, ticker, tickWg, begun, sleepWg, once, cleaner, cleanedAt, nap,
                   answers, made>>

\* Sending blocks while the channel is full.
Deliver(tick) ==
    /\ ticker = None
    /\ ticker' = tick
    /\ tickWg' = tickWg + 1

FirstTick ==
    /\ FakeStep("firstTick")
    /\ Deliver(fake.last)
    /\ fake' = [fake EXCEPT !.pc = "firstWait"]
    /\ UNCHANGED <<source, now, begun, sleepWg, once, cleaner, cleanedAt, user, nap, answers, made>>

FirstWait ==
    /\ FakeStep("firstWait")
    /\ tickWg = 0
    /\ fake' = [fake EXCEPT !.firstSleep = FALSE, !.pc = IF fake.nap = 0 THEN "send" ELSE "apply"]
    /\ UNCHANGED <<source, now, ticker, tickWg, begun, sleepWg, once, cleaner, cleanedAt, user,
                   nap, answers, made>>

Apply ==
    /\ FakeStep("apply")
    /\ now' = now + fake.nap
    /\ fake' = [fake EXCEPT !.dur = @ + fake.nap,
                            !.pc = IF Enabled /\ fake.d <= fake.dur + fake.nap THEN "send" ELSE "done"]
    /\ UNCHANGED <<source, ticker, tickWg, begun, sleepWg, once, cleaner, cleanedAt, user, nap,
                   answers, made>>

SendTick ==
    /\ FakeStep("send")
    /\ Deliver(fake.last + fake.d)
    /\ LET rest == fake.dur - fake.d
       IN  fake' = [fake EXCEPT !.last = @ + fake.d, !.dur = rest,
                                !.pc = IF fake.d <= rest THEN "send"
                                       ELSE IF fake.nap = 0 THEN "select" ELSE "done"]
    /\ UNCHANGED <<source, now, begun, sleepWg, once, cleaner, cleanedAt, user, nap, answers, made>>

\* sleepWg.Done, which at zero wakes everybody who waits.
NapDone ==
    /\ FakeStep("done")
    /\ fake' = [fake EXCEPT !.nap = 0, !.pc = "select"]
    /\ sleepWg' = sleepWg - 1
    /\ user' = [u \in Users |-> IF Is(u, "wait") /\ sleepWg' = 0 THEN "off" ELSE user[u]]
    /\ UNCHANGED <<source, now, ticker, tickWg, begun, once, cleaner, cleanedAt, nap, answers, made>>

--------------------------------------------------------------------------------
(* periodicCleanUp *)

BeginTicks ==
    /\ cleaner = "tick"
    /\ begun' = now
    /\ \/ source = "real" /\ UNCHANGED fake
       \/ FakeStep("select") /\ fake' = EnableTick(Period)
    /\ cleaner' = "select"
    /\ UNCHANGED <<source, now, ticker, tickWg, sleepWg, once, cleanedAt, user, nap, answers, made>>

TakeTick ==
    /\ cleaner = "select"
    /\ ticker # None
    /\ ticker' = None
    /\ cleaner' = "cleanUp"
    /\ UNCHANGED <<source, now, tickWg, begun, fake, sleepWg, once, cleanedAt, user, nap, answers, made>>

\* CleanUp.  A listener it calls may stop the cache's goroutines itself.
CleanUp ==
    /\ cleaner = "cleanUp"
    /\ cleanedAt' = now
    /\ \/ cleaner' = "processTick"
       \/ cleaner' = "stop"
    /\ UNCHANGED <<clocks, once, user, nap, answers, made>>

\* The listener's StopAllGoroutines, on this very goroutine: it waits for the call of
\* another goroutine, or sends to itself.
ListenerStops ==
    /\ cleaner = "stop" /\ once = "free"
    /\ once' = "running"
    /\ cleaner' = "sending"
    /\ UNCHANGED <<clocks, cleanedAt, user, nap, answers, made>>

\* Mutant: the real clock's ticks are counted down, too.
ProcessAnyTick ==
    /\ cleaner = "processTick"
    /\ tickWg' = tickWg - 1
    /\ cleaner' = "select"
    /\ UNCHANGED <<source, now, ticker, begun, fake, sleepWg, once, cleanedAt, user, nap, answers, made>>

\* Mutant: nobody tells the fake clock.
ProcessNoTick ==
    /\ cleaner = "processTick"
    /\ cleaner' = "select"
    /\ UNCHANGED <<clocks, once, cleanedAt, user, nap, answers, made>>

ProcessTick ==
    /\ cleaner = "processTick"
    /\ tickWg' = IF source = "fake" THEN tickWg - 1 ELSE tickWg
    /\ cleaner' = "select"
    /\ UNCHANGED <<source, now, ticker, begun, fake, sleepWg, once, cleanedAt, user, nap, answers, made>>

\* doneStop: the rendezvous ends the goroutine, and the call.
TakeStop(u) ==
    /\ cleaner = "select" /\ Is(u, "sending")
    /\ cleaner' = "stopped"
    /\ once' = "done"
    /\ Become(u, "off")
    /\ answers' = answers \cup {<<u, made, TRUE>>}
    /\ UNCHANGED <<clocks, cleanedAt, nap, made>>

--------------------------------------------------------------------------------
(* Calls *)

\* Sleep
BeginSleep(u) ==
    /\ source = "fake" /\ Is(u, "off") /\ made < MaxCalls
    /\ \E s \in Naps :
         /\ now + s <= MaxTime
         /\ nap' = [nap EXCEPT ![u] = s]
    /\ sleepWg' = sleepWg + 1
    /\ made' = made + 1
    /\ Become(u, "sleep")
    /\ UNCHANGED <<source, now, ticker, tickWg, begun, fake, once, cleaner, cleanedAt, answers>>

\* StopAllGoroutines
BeginStop(u) ==
    /\ Is(u, "off") /\ made < MaxCalls
    /\ made' = made + 1
    /\ Become(u, "stop")
    /\ UNCHANGED <<clocks, once, cleaner, cleanedAt, nap, answers>>

\* Mutant: a flag instead of the sync.Once: the second call does not wait for the first.
StopByFlag(u) ==
    /\ Is(u, "stop")
    /\ IF once = "free"
       THEN once' = "running" /\ Become(u, "sending") /\ UNCHANGED answers
       ELSE Become(u, "off") /\ answers' = answers \cup {<<u, made, FALSE>>} /\ UNCHANGED once
    /\ UNCHANGED <<clocks, cleaner, cleanedAt, nap, made>>

\* Mutant: no stopOnce.
StopAlways(u) ==
    /\ Is(u, "stop")
    /\ once' = "running" /\ Become(u, "sending")
    /\ UNCHANGED <<clocks, answers, cleaner, cleanedAt, nap, made>>

\* stopOnce.Do: the first call goes ahead, the others wait for it.
Stop(u) ==
    /\ Is(u, "stop")
    /\ \/ once = "free" /\ once' = "running" /\ Become(u, "sending") /\ UNCHANGED answers
       \/ once = "done" /\ Become(u, "off") /\ answers' = answers \cup {<<u, made, FALSE>>}
          /\ UNCHANGED once
    /\ UNCHANGED <<clocks, cleaner, cleanedAt, nap, made>>

--------------------------------------------------------------------------------

FakeClock == (\E u \in Users : ReceiveNap(u)) \/ FirstTick \/ FirstWait \/ Apply \/ SendTick \/ NapDone

Cleaner == BeginTicks \/ TakeTick \/ CleanUp \/ ListenerStops \/ ProcessTick

Next ==
    \/ Elapse \/ FakeClock \/ Cleaner
    \/ \E u \in Users : BeginSleep(u) \/ BeginStop(u) \/ Stop(u) \/ TakeStop(u)

\* Nobody can go on before time passes or somebody makes a call.
Quiet == ~ENABLED (FakeClock \/ Cleaner \/ \E u \in Users : Stop(u) \/ TakeStop(u))

--------------------------------------------------------------------------------
(* Properties *)

\* The variables stay in their ranges; in particular the wait groups never fall
\* below zero, which would panic.
TypeOK ==
    /\ source \in {"real", "fake"} /\ now \in 0..MaxTime * 2
    /\ ticker \in Int \cup {None}
    /\ tickWg \in 0..2 /\ sleepWg \in 0..MaxCalls
    /\ begun \in 0..MaxTime * 2 \cup {None}
    /\ once \in {"free", "running", "done"}
    /\ cleaner \in {"tick", "select", "cleanUp", "processTick", "stop", "sending", "stopped"}
    /\ user \in [Users -> {"off", "sleep", "wait", "stop", "sending"}]

\* When StopAllGoroutines returns, whatever it answers, the goroutine has ended, and
\* only one call answers that it has stopped it.
StoppedWhenTold ==
    /\ answers # {} => cleaner = "stopped"
    /\ \A a, b \in answers : a[3] /\ b[3] => a = b

\* The listener of a clean-up waits for its own goroutine.
SelfStopped == cleaner \in {"stop", "sending"}

\* StopAllGoroutines does not wait for ever, however many goroutines call it and
\* whatever the ticker and the clean-up do, unless a listener on the goroutine
\* itself has called it.
StopReturns ==
    Quiet => \A u \in Users : user[u] \notin {"stop", "sending"} \/ SelfStopped

\* Sleep on the fake clock does not wait for ever, although its ticks need the clean-up
\* to take them, unless the goroutine that takes them has ended or waits for itself.
SleepReturns ==
    Quiet => \A u \in Users :
        user[u] \notin {"sleep", "wait"} \/ SelfStopped \/ cleaner = "stopped"

\* The clean-up keeps up with the time, but for a period: a ticker drops ticks, and the
\* fake clock may have been slept on before the goroutine asked for ticks.
KeepsUp ==
    Quiet => \/ SelfStopped \/ cleaner = "stopped"
             \/ \A t \in 1..now - Period : (source = "real" => begun <= t) => cleanedAt >= t

\* Together: the goroutine keeps cleaning up until it is stopped, and nobody hangs.
CleanUpServes == TypeOK /\ StoppedWhenTold /\ StopReturns /\ SleepReturns /\ KeepsUp

=============================================================================
