------------------------------- MODULE Refresh -------------------------------
(***************************************************************************)
(* When an entry is reloaded (cache_impl.go, refresh_calculator.go).  A    *)
(* Get that finds an entry due returns it and starts a reload in the       *)
(* background; writes, reloads and SetRefreshableAfter move the deadline,  *)
(* each by the time it has read before it got the key's bucket.            *)
(*                                                                         *)
(* There is one key, in a cache that retires the nodes it replaces.  An    *)
(* agent is one operation together with the goroutine it starts; the       *)
(* version it installs and the call it registers have its name.  The steps *)
(* inside startCall and deleteCall, panics and evictions are the subject   *)
(* of Loading.                                                             *)
(***************************************************************************)
EXTENDS Naturals, NoValue

CONSTANTS
    Callers,
    Plans,     \* bound: what the agents do, one operation each or none, and under which
               \* calculator: RefreshCreating, RefreshWriting, or one like the latter that
               \* retries a failed reload after a backoff
    First,     \* the version that may be cached in the beginning
    Period,    \* what the calculators return
    Backoff,   \* the backoff, and what SetRefreshableAfter is given
    MaxToday   \* bound: how far the clock advances

ReloadOperations == {"get", "refresh", "setRefreshableAfter", "set", "invalidate"}

ASSUME RefreshAssumption ==
    /\ Plans \subseteq [ops: [Callers -> ReloadOperations \cup {"none"}],
                        rule: {"creating", "writing", "backoff"}]
    /\ Period \in Nat \ {0} /\ Backoff \in Nat \ {0} /\ MaxToday \in Nat
    /\ First \notin Callers /\ None \notin Callers \cup {First}

VARIABLES
    today,         \* the clock
    rule,          \* the calculator
    shown,         \* the version in the map
    refreshableAt, \* of each version
    retired,       \* the versions that are not alive any more
    bucket,        \* who has locked the key's bucket
    inFlight,      \* the registered call
    finished,      \* the calls whose wait group is done
    caller,        \* the operations
    \* history
    origin,        \* for each version, when the operation its deadline stems from read the
                   \* clock, and when it took effect
    moved,         \* the deadlines that were set otherwise
    replaced       \* the version that a load has replaced

reloadTables  == <<rule, shown, refreshableAt, retired, bucket, inFlight, finished>>
reloadHistory == <<origin, moved, replaced>>
refreshVars   == <<today, reloadTables, caller, reloadHistory>>

Versions == Callers \cup {First}
NeverDue == MaxToday + Period + Backoff

NoLoad == [pc |-> "off", op |-> "none", since |-> 0, old |-> None, call |-> None,
           isRefresh |-> FALSE, outcome |-> "none", late |-> FALSE]

RefreshInit ==
    /\ today = 0
    /\ \E plan \in Plans :
         /\ rule = plan.rule
         /\ caller = [a \in Callers |-> [NoLoad EXCEPT !.op = plan.ops[a]]]
    /\ shown \in {None, First}
    /\ refreshableAt = [v \in Versions |-> IF v = First THEN Period ELSE NeverDue]
    /\ retired = {} /\ bucket = None /\ inFlight = None /\ finished = {}
    /\ origin = [v \in Versions |-> [from |-> 0, to |-> 0]]
    /\ moved = [v \in Versions |-> {}]
    /\ replaced = [a \in Callers |-> a]

CallerAt(a, l)   == caller[a].pc = l
CallerGoes(a, l) == caller' = [caller EXCEPT ![a].pc = l]
Writes(a)  == caller[a].op \in {"set", "invalidate"}

Advance ==
    /\ today < MaxToday
    /\ today' = today + 1
    /\ UNCHANGED <<reloadTables, caller, reloadHistory>>

--------------------------------------------------------------------------------
(* Finding out whether the entry is due *)

\* Every operation reads the clock first.
BeginCaller(a) ==
    /\ CallerAt(a, "off") /\ caller[a].op # "none"
    /\ caller' = [caller EXCEPT ![a].since = today,
                                ![a].pc = IF Writes(a) THEN "lock" ELSE "lookup"]
    /\ UNCHANGED <<today, reloadTables, reloadHistory>>

\* hashmap.Get.  A Get of an absent key loads it, which is not a refresh.
LookupVersion(a) ==
    /\ CallerAt(a, "lookup")
    /\ caller' = [caller EXCEPT
         ![a].old = shown,
         ![a].isRefresh = caller[a].op = "refresh" \/ shown # None,
         ![a].pc = IF caller[a].op = "setRefreshableAfter"
                   THEN IF shown = None THEN "done" ELSE "setAt"
                   ELSE IF shown = None THEN "start" ELSE "isAlive"]
    /\ UNCHANGED <<today, reloadTables, reloadHistory>>

\* IsAlive: Get takes a retired version for one that is due, Refresh for none.
CheckAlive(a) ==
    /\ CallerAt(a, "isAlive")
    /\ LET dead == caller[a].old \in retired
       IN  caller' = [caller EXCEPT
             ![a].old = IF caller[a].op = "refresh" /\ dead THEN None ELSE @,
             ![a].pc = IF caller[a].op = "refresh" \/ dead THEN "start" ELSE "isFresh"]
    /\ UNCHANGED <<today, reloadTables, reloadHistory>>

CheckFresh(a) ==
    /\ CallerAt(a, "isFresh")
    /\ CallerGoes(a, IF refreshableAt[caller[a].old] > caller[a].since THEN "done" ELSE "start")
    /\ UNCHANGED <<today, reloadTables, reloadHistory>>

\* The deadline of a version is set by somebody who does not replace it.
Move(v, t) ==
    /\ refreshableAt' = [refreshableAt EXCEPT ![v] = t]
    /\ moved' = [moved EXCEPT ![v] = @ \cup {t}]

SetRefreshableAfter(a) ==
    /\ CallerAt(a, "setAt")
    /\ Move(caller[a].old, caller[a].since + Backoff)
    /\ CallerGoes(a, "done")
    /\ UNCHANGED <<today, rule, shown, retired, bucket, inFlight, finished, origin, replaced>>

--------------------------------------------------------------------------------
(* The load, and the changes it makes in the bucket of the key *)

Removes(a) == caller[a].op = "invalidate" \/ caller[a].outcome = "notFound"

\* The version a call is given may already be, or be about to be, replaced by somebody
\* who cannot cancel that call any more.
Late(a) ==
    \/ shown # caller[a].old
    \/ \E b \in Callers : CallerAt(b, "publish") \/ (CallerAt(b, "prepare") /\ ~Writes(b))

\* startCall, in the goroutine the executor has started.
StartCall(a) ==
    /\ CallerAt(a, "start")
    /\ IF inFlight # None
       THEN /\ caller' = [caller EXCEPT ![a].call = inFlight, ![a].pc = "wait"]
            /\ UNCHANGED inFlight
       ELSE /\ caller' = [caller EXCEPT ![a].call = a, ![a].late = Late(a), ![a].pc = "load"]
            /\ inFlight' = a
    /\ UNCHANGED <<today, rule, shown, refreshableAt, retired, bucket, finished, reloadHistory>>

\* Mutant: the waiters are released before the bucket is locked.
LoadAndCancel(a) ==
    /\ CallerAt(a, "load")
    /\ \E o \in {"value", "notFound", "error"} :
         caller' = [caller EXCEPT ![a].outcome = o, ![a].since = today, ![a].pc = "finish"]
    /\ finished' = finished \cup {a}
    /\ UNCHANGED <<today, rule, shown, refreshableAt, retired, bucket, inFlight, reloadHistory>>

\* Load or Reload returns; then afterDeleteCall reads the clock.
LoadVersion(a) ==
    /\ CallerAt(a, "load")
    /\ \E o \in {"value", "notFound", "error"} :
         caller' = [caller EXCEPT ![a].outcome = o, ![a].since = today, ![a].pc = "finish"]
    /\ UNCHANGED <<today, reloadTables, reloadHistory>>

\* In the bucket: deleteCall, which tells whether the call still counts.  A reload that
\* has failed may move the deadline of whichever version is there now.
FinishCall(a) ==
    /\ CallerAt(a, "finish") /\ bucket = None
    /\ LET c == caller[a]
           counts == inFlight = a
       IN  /\ inFlight' = IF counts THEN None ELSE inFlight
           /\ IF counts /\ c.outcome # "error"
              THEN /\ bucket' = a /\ CallerGoes(a, "prepare")
                   /\ UNCHANGED <<refreshableAt, moved>>
              ELSE /\ CallerGoes(a, "cancel")
                   /\ IF c.outcome = "error" /\ c.isRefresh /\ shown # None /\ rule = "backoff"
                      THEN Move(shown, c.since + Backoff)
                      ELSE UNCHANGED <<refreshableAt, moved>>
                   /\ UNCHANGED bucket
    /\ UNCHANGED <<today, rule, shown, retired, finished, origin, replaced>>

LockKey(a) ==
    /\ CallerAt(a, "lock") /\ bucket = None
    /\ bucket' = a
    /\ CallerGoes(a, "prepare")
    /\ UNCHANGED <<today, rule, shown, refreshableAt, retired, inFlight, finished, reloadHistory>>

\* calcRefreshableAt leaves the deadline of the old version to an update or a reload,
\* or starts a new one.
Kept == rule = "creating" /\ shown # None

\* Mutant: a new version starts without a deadline.
CopiedNothing(v) == NeverDue

\* newNode: the deadline of the version it replaces.
Copied(v) == refreshableAt[v]

\* Mutant: an explicit write leaves the load of its key alone.
LoadsGoOn == inFlight

\* singleflight.delete, in an explicit write.
Cancelled == None

\* newNode and calcRefreshableAt, while others may still read and move the old version.
Prepare(a) ==
    /\ CallerAt(a, "prepare")
    /\ inFlight' = IF Writes(a) THEN Cancelled ELSE inFlight
    /\ IF Removes(a)
       THEN UNCHANGED <<refreshableAt, origin, moved>>
       ELSE LET since == caller[a].since
            IN  /\ refreshableAt' = [refreshableAt EXCEPT ![a] =
                                      IF Kept THEN Copied(shown) ELSE since + Period]
                /\ origin' = [origin EXCEPT ![a] =
                               IF Kept THEN origin[shown] ELSE [from |-> since, to |-> NeverDue]]
                /\ moved' = [moved EXCEPT ![a] = IF Kept THEN moved[shown] ELSE {}]
    /\ CallerGoes(a, "publish")
    /\ UNCHANGED <<today, rule, shown, retired, bucket, finished, replaced>>

\* The old version is retired, the new one gets into the map, the bucket is unlocked.
Publish(a) ==
    /\ CallerAt(a, "publish")
    /\ retired' = IF shown = None THEN retired ELSE retired \cup {shown}
    /\ shown' = IF Removes(a) THEN None ELSE a
    /\ origin' = IF Kept THEN origin ELSE [origin EXCEPT ![a].to = today]
    /\ replaced' = [replaced EXCEPT ![a] = shown]
    /\ bucket' = None
    /\ CallerGoes(a, IF Writes(a) THEN "done" ELSE "cancel")
    /\ UNCHANGED <<today, rule, refreshableAt, inFlight, finished, moved>>

\* The wait group of the call is released; its own goroutine does not wait for it.
CancelCall(a) ==
    /\ CallerAt(a, "cancel")
    /\ finished' = finished \cup {a}
    /\ CallerGoes(a, "done")
    /\ UNCHANGED <<today, rule, shown, refreshableAt, retired, bucket, inFlight, reloadHistory>>

WaitForCall(a) ==
    /\ CallerAt(a, "wait") /\ caller[a].call \in finished
    /\ CallerGoes(a, "done")
    /\ UNCHANGED <<today, reloadTables, reloadHistory>>

RefreshNext ==
    \/ Advance
    \/ \E a \in Callers :
         \/ BeginCaller(a) \/ LookupVersion(a) \/ CheckAlive(a) \/ CheckFresh(a) \/ SetRefreshableAfter(a)
         \/ StartCall(a) \/ LoadVersion(a) \/ FinishCall(a) \/ LockKey(a) \/ Prepare(a) \/ Publish(a)
         \/ CancelCall(a) \/ WaitForCall(a)

RefreshSpec == RefreshInit /\ [][RefreshNext]_refreshVars

--------------------------------------------------------------------------------
(* Properties *)

\* A Get that has taken an entry for stale gets it refreshed: when its reload, or the
\* load it has joined, has ended, the entry has been replaced or removed, or the load
\* has failed.
RefreshAnswered ==
    \A a \in Callers :
        LET c == caller[a]
        IN  CallerAt(a, "done") /\ c.op = "get" /\ c.call # None /\ c.old # None =>
                shown # c.old \/ caller[c.call].outcome = "error"

\* The deadline of an entry lies a period after its creation, or after the last
\* replacement of its value, as the calculator has it, through all the versions in between
\* and whichever goroutine was faster, unless SetRefreshableAfter or a failed reload has
\* moved it.
DeadlinesRight ==
    shown # None =>
        \/ refreshableAt[shown] \in moved[shown]
        \/ \E t \in origin[shown].from..origin[shown].to : refreshableAt[shown] = t + Period

\* What a load replaces is what it was given as the old value (nothing, if it was called
\* without one), unless that was replaced before the load was registered.
ReplacesWhatItRead ==
    \A a \in Callers :
        replaced[a] # a /\ ~Writes(a) => caller[a].late \/ replaced[a] = caller[a].old

\* Together: who is refreshed, when, and what the reload replaces.
ReloadsSound == RefreshAnswered /\ DeadlinesRight /\ ReplacesWhatItRead

=============================================================================
