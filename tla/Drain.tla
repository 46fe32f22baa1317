---------------------------------- MODULE Drain ----------------------------------
(***************************************************************************)
(* The maintenance scheduler of the cache (cache_impl.go): the write       *)
(* buffer, the atomic drainStatus word, the eviction mutex, and the token  *)
(* with which a scheduler hands the locked mutex over to the drain it has  *)
(* submitted to the executor.                                              *)
(*                                                                         *)
(* Agents are the goroutines: clients call the public operations, drainers *)
(* are the goroutines (or, for a caller-runs executor, the inlined calls)  *)
(* that execute drainBuffers.  An agent takes one step per access to       *)
(* shared state.  Tasks are named by the client that created them; what a  *)
(* task does to the policy is the subject of module WriteBehind.           *)
(***************************************************************************)
EXTENDS Naturals, Sequences, FiniteSets

CONSTANTS
    Clients,             \* goroutines that call the cache
    Drainers,            \* bound: submitted drains that exist at the same time
    Ops,                 \* the public operations the clients use
    MaxOps,              \* bound: operations per client
    Retries,             \* writeBufferRetries
    WriteCap,            \* maxWriteBufferSize
    CallerRuns,          \* the executor runs its argument in the caller
    HasDefaultExecutor,  \* hasDefaultExecutor
    NoDrainer            \* "no drain submitted"

AllOps == {"write", "read", "cleanUp", "getMaximum", "order", "invalidateAll"}

ASSUME DrainAssumption ==
    /\ Clients \cap Drainers = {}
    /\ NoDrainer \notin Drainers
    /\ Ops \subseteq AllOps
    /\ MaxOps \in Nat
    /\ Retries \in Nat
    /\ WriteCap \in Nat \ {0}
    /\ CallerRuns \in BOOLEAN
    /\ HasDefaultExecutor \in BOOLEAN
    \* the default executor starts a goroutine (options.go, getExecutor)
    /\ CallerRuns => ~HasDefaultExecutor

Agents == Clients \cup Drainers

\* The values of drainStatus.
Idle                 == 0
Required             == 1
ProcessingToIdle     == 2
ProcessingToRequired == 3

VARIABLES
    drainStatus,   \* the atomic word
    locked,        \* evictionMutex
    writeBuffer,   \* the queued tasks, oldest first
    pops,          \* loop counter of drainWriteBuffer (owned by the lock holder)
    pc,            \* where each agent is
    op,            \* the operation an agent is executing
    tries,         \* failed pushes of the afterWriteTask loop an agent is in
    child,         \* the drain an agent has submitted and still holds the token of
    token,         \* the token given to each drain
    started,       \* operations each client has begun
    issued,        \* tasks each client has created
    done           \* tasks of each client that have been run

vars == <<drainStatus, locked, writeBuffer, pops, pc, op, tries, child, token,
          started, issued, done>>

PCs == {"off",
        "afterWriteTask", "scheduleAfterWrite", "casRequired", "casProcessing",
        "scheduleDrainBuffers", "tryLock", "recheck", "storeProcessing",
        "execute", "callerRuns", "token", "unlockScheduler",
        "drainBuffers", "drainToken",
        "lock", "checkRequired", "discard",
        "maintenance", "drainWriteBuffer", "storeOverflow", "runTask",
        "finish", "storeRequired", "unlock", "reschedule"}

--------------------------------------------------------------------------------
(* Control-flow helpers *)

\* Agent a goes to l, executing operation o.
GotoAs(a, l, o) ==
    /\ pc' = [pc EXCEPT ![a] = l]
    /\ op' = [op EXCEPT ![a] = o]

Goto(a, l) == GotoAs(a, l, op[a])

\* The operation (or the drain) of agent a ends.
Leave(a) == GotoAs(a, "off", "none")

\* Where scheduleDrainBuffers returns to: the push loop of afterWriteTask, or
\* the end of the operation (every other call of it is a tail call).
Return(a) == IF tries[a] > 0 THEN Goto(a, "afterWriteTask") ELSE Leave(a)

\* A drain identity may be reused once it has ended and its token is out of scope.
Free(d) == pc[d] = "off" /\ \A a \in Agents : child[a] # d

\* The task an agent carries into performCleanUp(t); nil for the other callers.
Carries(a) == op[a] = "write"

Init ==
    /\ drainStatus = Idle
    /\ locked = FALSE
    /\ writeBuffer = <<>>
    /\ pops = 0
    /\ pc = [a \in Agents |-> "off"]
    /\ op = [a \in Agents |-> "none"]
    /\ tries = [a \in Agents |-> 0]
    /\ child = [a \in Agents |-> NoDrainer]
    /\ token = [d \in Drainers |-> 0]
    /\ started = [c \in Clients |-> 0]
    /\ issued = [c \in Clients |-> 0]
    /\ done = [c \in Clients |-> 0]

--------------------------------------------------------------------------------
(* Public operations *)

Begin(c, o) ==
    /\ pc[c] = "off"
    /\ o \in Ops
    /\ started[c] < MaxOps
    /\ started' = [started EXCEPT ![c] = @ + 1]

\* Set, Compute or Invalidate: the map is updated, then afterWriteTask is
\* called with the task that tells the policies about it.
Write(c) ==
    /\ Begin(c, "write")
    /\ issued' = [issued EXCEPT ![c] = @ + 1]
    /\ GotoAs(c, "afterWriteTask", "write")
    /\ UNCHANGED <<drainStatus, locked, writeBuffer, pops, tries, child, token, done>>

\* A read, by its outcome.  Hit: the node goes to the lossy read buffer, which
\* may be full, and shouldDrainBuffers decides.  Miss: a drain is scheduled when
\* one is required.  Expired entry: always.
Read(c) ==
    /\ Begin(c, "read")
    /\ \E outcome \in {"recorded", "bufferFull", "miss", "expired"} :
         IF \/ outcome = "expired"
            \/ drainStatus = Required
            \/ drainStatus = Idle /\ outcome = "bufferFull"
         THEN GotoAs(c, "scheduleDrainBuffers", "read")
         ELSE UNCHANGED <<pc, op>>
    /\ UNCHANGED <<drainStatus, locked, writeBuffer, pops, tries, child, token,
                   issued, done>>

\* CleanUp and SetMaximum; GetMaximum and WeightedSize; Hottest and Coldest;
\* InvalidateAll.  All of them start by locking the mutex.
LockingOp(c) ==
    /\ \E o \in {"cleanUp", "getMaximum", "order", "invalidateAll"} :
         Begin(c, o) /\ GotoAs(c, "lock", o)
    /\ UNCHANGED <<drainStatus, locked, writeBuffer, pops, tries, child, token,
                   issued, done>>

--------------------------------------------------------------------------------
(* Writes: afterWriteTask and scheduleAfterWrite *)

\* Mutant: a full buffer takes one more task.
TryPushOverfull(a) ==
    /\ pc[a] = "afterWriteTask"
    /\ tries[a] < Retries
    /\ Len(writeBuffer) <= WriteCap
    /\ writeBuffer' = Append(writeBuffer, a)
    /\ tries' = [tries EXCEPT ![a] = 0]
    /\ GotoAs(a, "scheduleAfterWrite", "written")
    /\ UNCHANGED <<drainStatus, locked, pops, child, token, started, issued, done>>

\* An iteration of the push loop that finds room.
TryPush(a) ==
    /\ pc[a] = "afterWriteTask"
    /\ tries[a] < Retries
    /\ Len(writeBuffer) < WriteCap
    /\ writeBuffer' = Append(writeBuffer, a)
    /\ tries' = [tries EXCEPT ![a] = 0]
    /\ GotoAs(a, "scheduleAfterWrite", "written")
    /\ UNCHANGED <<drainStatus, locked, pops, child, token, started, issued, done>>

\* An iteration that finds the buffer full, and schedules a drain.
PushFull(a) ==
    /\ pc[a] = "afterWriteTask"
    /\ tries[a] < Retries
    /\ Len(writeBuffer) = WriteCap
    /\ tries' = [tries EXCEPT ![a] = @ + 1]
    /\ Goto(a, "scheduleDrainBuffers")
    /\ UNCHANGED <<drainStatus, locked, writeBuffer, pops, child, token,
                   started, issued, done>>

\* After the last iteration the writer cleans up itself, carrying its task.
AssistDrain(a) ==
    /\ pc[a] = "afterWriteTask"
    /\ tries[a] = Retries
    /\ tries' = [tries EXCEPT ![a] = 0]
    /\ Goto(a, "lock")
    /\ UNCHANGED <<drainStatus, locked, writeBuffer, pops, child, token,
                   started, issued, done>>

ScheduleAfterWrite(a) ==
    /\ pc[a] = "scheduleAfterWrite"
    /\ \/ drainStatus = Idle                 /\ Goto(a, "casRequired")
       \/ drainStatus = Required             /\ Goto(a, "scheduleDrainBuffers")
       \/ drainStatus = ProcessingToIdle     /\ Goto(a, "casProcessing")
       \/ drainStatus = ProcessingToRequired /\ Leave(a)
    /\ UNCHANGED <<drainStatus, locked, writeBuffer, pops, tries, child, token,
                   started, issued, done>>

\* CompareAndSwap(idle, required), its result ignored.
CasRequired(a) ==
    /\ pc[a] = "casRequired"
    /\ drainStatus' = IF drainStatus = Idle THEN Required ELSE drainStatus
    /\ Goto(a, "scheduleDrainBuffers")
    /\ UNCHANGED <<locked, writeBuffer, pops, tries, child, token, started, issued, done>>

\* CompareAndSwap(processingToIdle, processingToRequired); on failure, reload.
CasProcessing(a) ==
    /\ pc[a] = "casProcessing"
    /\ \/ /\ drainStatus = ProcessingToIdle
          /\ drainStatus' = ProcessingToRequired
          /\ Leave(a)
       \/ /\ drainStatus # ProcessingToIdle
          /\ Goto(a, "scheduleAfterWrite")
          /\ UNCHANGED drainStatus
    /\ UNCHANGED <<locked, writeBuffer, pops, tries, child, token, started, issued, done>>

--------------------------------------------------------------------------------
(* scheduleDrainBuffers *)

ScheduleDrainBuffers(a) ==
    /\ pc[a] = "scheduleDrainBuffers"
    /\ IF drainStatus >= ProcessingToIdle THEN Return(a) ELSE Goto(a, "tryLock")
    /\ UNCHANGED <<drainStatus, locked, writeBuffer, pops, tries, child, token,
                   started, issued, done>>

TryLock(a) ==
    /\ pc[a] = "tryLock"
    /\ IF locked THEN Return(a) ELSE Goto(a, "recheck")
    /\ locked' = TRUE
    /\ UNCHANGED <<drainStatus, writeBuffer, pops, tries, child, token,
                   started, issued, done>>

Recheck(a) ==
    /\ pc[a] = "recheck"
    /\ Goto(a, IF drainStatus >= ProcessingToIdle THEN "unlockScheduler"
                                                  ELSE "storeProcessing")
    /\ UNCHANGED <<drainStatus, locked, writeBuffer, pops, tries, child, token,
                   started, issued, done>>

StoreProcessing(a) ==
    /\ pc[a] = "storeProcessing"
    /\ drainStatus' = ProcessingToIdle
    /\ Goto(a, "execute")
    /\ UNCHANGED <<locked, writeBuffer, pops, tries, child, token, started, issued, done>>

\* c.executor(func() { c.drainBuffers(&token) }) with a fresh token.
Execute(a) ==
    /\ pc[a] = "execute"
    /\ \E d \in Drainers :
         /\ Free(d)
         /\ child' = [child EXCEPT ![a] = d]
         /\ token' = [token EXCEPT ![d] = 0]
         /\ op' = [op EXCEPT ![d] = "drain"]
         /\ pc' = [pc EXCEPT ![a] = IF CallerRuns THEN "callerRuns" ELSE "token",
                             ![d] = "drainBuffers"]
    /\ UNCHANGED <<drainStatus, locked, writeBuffer, pops, tries, started, issued, done>>

\* A caller-runs executor returns when the submitted drain has ended.
CallerRunsReturn(a) ==
    /\ pc[a] = "callerRuns"
    /\ pc[child[a]] = "off"
    /\ Goto(a, "token")
    /\ UNCHANGED <<drainStatus, locked, writeBuffer, pops, tries, child, token,
                   started, issued, done>>

\* Mutant: the scheduler unlocks whoever has won the token.
TokenIgnored(a) ==
    /\ pc[a] = "token"
    /\ Goto(a, "unlockScheduler")
    /\ token' = [token EXCEPT ![child[a]] = 1]
    /\ child' = [child EXCEPT ![a] = NoDrainer]
    /\ UNCHANGED <<drainStatus, locked, writeBuffer, pops, tries, started, issued, done>>

\* The scheduler keeps the mutex, and must unlock it, only if it wins the token.
Token(a) ==
    /\ pc[a] = "token"
    /\ IF token[child[a]] = 0 THEN Goto(a, "unlockScheduler") ELSE Return(a)
    /\ token' = [token EXCEPT ![child[a]] = 1]
    /\ child' = [child EXCEPT ![a] = NoDrainer]
    /\ UNCHANGED <<drainStatus, locked, writeBuffer, pops, tries, started, issued, done>>

UnlockScheduler(a) ==
    /\ pc[a] = "unlockScheduler"
    /\ locked' = FALSE
    /\ Return(a)
    /\ UNCHANGED <<drainStatus, writeBuffer, pops, tries, child, token,
                   started, issued, done>>

--------------------------------------------------------------------------------
(* drainBuffers, performCleanUp and the other users of the mutex *)

DrainBuffers(d) ==
    /\ pc[d] = "drainBuffers"
    /\ Goto(d, IF locked THEN "drainToken" ELSE "maintenance")
    /\ locked' = TRUE
    /\ UNCHANGED <<drainStatus, writeBuffer, pops, tries, child, token,
                   started, issued, done>>

\* Winning the token means taking over the mutex the scheduler has locked.
DrainToken(d) ==
    /\ pc[d] = "drainToken"
    /\ Goto(d, IF token[d] = 0 THEN "maintenance" ELSE "lock")
    /\ token' = [token EXCEPT ![d] = 1]
    /\ UNCHANGED <<drainStatus, locked, writeBuffer, pops, tries, child,
                   started, issued, done>>

Lock(a) ==
    /\ pc[a] = "lock"
    /\ ~locked
    /\ locked' = TRUE
    /\ Goto(a, CASE op[a] = "getMaximum"    -> "checkRequired"
                 [] op[a] = "invalidateAll" -> "discard"
                 [] OTHER                   -> "maintenance")
    /\ UNCHANGED <<drainStatus, writeBuffer, pops, tries, child, token,
                   started, issued, done>>

\* GetMaximum and WeightedSize run the maintenance only when it is required.
CheckRequired(a) ==
    /\ pc[a] = "checkRequired"
    /\ Goto(a, IF drainStatus = Required THEN "maintenance" ELSE "unlock")
    /\ UNCHANGED <<drainStatus, locked, writeBuffer, pops, tries, child, token,
                   started, issued, done>>

\* InvalidateAll runs every queued task without touching drainStatus, then
\* deletes nodes under the mutex (their tasks are run at once, unqueued).
Discard(a) ==
    /\ pc[a] = "discard"
    /\ \/ /\ writeBuffer # <<>>
          /\ done' = [done EXCEPT ![Head(writeBuffer)] = @ + 1]
          /\ writeBuffer' = Tail(writeBuffer)
          /\ UNCHANGED <<pc, op>>
       \/ /\ writeBuffer = <<>>
          /\ Goto(a, "unlock")
          /\ UNCHANGED <<writeBuffer, done>>
    /\ UNCHANGED <<drainStatus, locked, pops, tries, child, token, started, issued>>

--------------------------------------------------------------------------------
(* maintenance *)

Maintenance(a) ==
    /\ pc[a] = "maintenance"
    /\ drainStatus' = ProcessingToIdle
    /\ Goto(a, "drainWriteBuffer")
    /\ UNCHANGED <<locked, writeBuffer, pops, tries, child, token, started, issued, done>>

\* Pops and runs at most WriteCap + 1 tasks.
DrainWriteBuffer(a) ==
    /\ pc[a] = "drainWriteBuffer"
    /\ IF pops > WriteCap
       THEN /\ Goto(a, "storeOverflow")
            /\ pops' = 0
            /\ UNCHANGED <<writeBuffer, done>>
       ELSE IF writeBuffer = <<>>
       THEN /\ Goto(a, "runTask")
            /\ pops' = 0
            /\ UNCHANGED <<writeBuffer, done>>
       ELSE /\ done' = [done EXCEPT ![Head(writeBuffer)] = @ + 1]
            /\ writeBuffer' = Tail(writeBuffer)
            /\ pops' = pops + 1
            /\ UNCHANGED <<pc, op>>
    /\ UNCHANGED <<drainStatus, locked, tries, child, token, started, issued>>

StoreOverflow(a) ==
    /\ pc[a] = "storeOverflow"
    /\ drainStatus' = ProcessingToRequired
    /\ Goto(a, "runTask")
    /\ UNCHANGED <<locked, writeBuffer, pops, tries, child, token, started, issued, done>>

\* Mutant: the task carried by a writer is forgotten, as by maintenance(nil).
RunTaskForgotten(a) ==
    /\ pc[a] = "runTask"
    /\ GotoAs(a, "finish", IF Carries(a) THEN "written" ELSE op[a])
    /\ UNCHANGED <<drainStatus, locked, writeBuffer, pops, tries, child, token,
                   started, issued, done>>

\* The task handed to performCleanUp, then the policies' own work.
RunTask(a) ==
    /\ pc[a] = "runTask"
    /\ \/ /\ Carries(a)
          /\ done' = [done EXCEPT ![a] = @ + 1]
          /\ GotoAs(a, "finish", "written")
       \/ /\ ~Carries(a)
          /\ Goto(a, "finish")
          /\ UNCHANGED done
    /\ UNCHANGED <<drainStatus, locked, writeBuffer, pops, tries, child, token,
                   started, issued>>

\* Mutant: the status is set to idle by a plain store.
FinishByStore(a) ==
    /\ pc[a] = "finish"
    /\ drainStatus' = Idle
    /\ Goto(a, "unlock")
    /\ UNCHANGED <<locked, writeBuffer, pops, tries, child, token, started, issued, done>>

\* Mutant: when the compare-and-swap fails, the status is left as it is.
FinishWithoutStore(a) ==
    /\ pc[a] = "finish"
    /\ drainStatus' = IF drainStatus = ProcessingToIdle THEN Idle ELSE drainStatus
    /\ Goto(a, "unlock")
    /\ UNCHANGED <<locked, writeBuffer, pops, tries, child, token, started, issued, done>>

\* The compare-and-swap that ends the maintenance (the load before it only
\* saves a compare-and-swap that would fail).
Finish(a) ==
    /\ pc[a] = "finish"
    /\ \/ /\ drainStatus = ProcessingToIdle
          /\ drainStatus' = Idle
          /\ Goto(a, "unlock")
       \/ /\ drainStatus # ProcessingToIdle
          /\ Goto(a, "storeRequired")
          /\ UNCHANGED drainStatus
    /\ UNCHANGED <<locked, writeBuffer, pops, tries, child, token, started, issued, done>>

StoreRequired(a) ==
    /\ pc[a] = "storeRequired"
    /\ drainStatus' = Required
    /\ Goto(a, "unlock")
    /\ UNCHANGED <<locked, writeBuffer, pops, tries, child, token, started, issued, done>>

\* evictionOrder walks the queues before it unlocks (which may take any time);
\* it and InvalidateAll do not call rescheduleCleanUpIfIncomplete.
Unlock(a) ==
    /\ pc[a] = "unlock"
    /\ locked' = FALSE
    /\ IF op[a] \in {"order", "invalidateAll"} THEN Leave(a) ELSE Goto(a, "reschedule")
    /\ UNCHANGED <<drainStatus, writeBuffer, pops, tries, child, token,
                   started, issued, done>>

\* InvalidateAll stops deleting under the mutex when the write buffer is half
\* full; the nodes left over are invalidated one by one, as ordinary writes,
\* after the unlock (bound: one of them).
InvalidateRest(a) ==
    /\ pc[a] = "unlock"
    /\ op[a] = "invalidateAll"
    /\ Len(writeBuffer) >= WriteCap \div 2
    /\ locked' = FALSE
    /\ issued' = [issued EXCEPT ![a] = @ + 1]
    /\ GotoAs(a, "afterWriteTask", "write")
    /\ UNCHANGED <<drainStatus, writeBuffer, pops, tries, child, token, started, done>>

\* Mutant: nobody looks at the status after the unlock.
NoReschedule(a) ==
    /\ pc[a] = "reschedule"
    /\ Leave(a)
    /\ UNCHANGED <<drainStatus, locked, writeBuffer, pops, tries, child, token,
                   started, issued, done>>

RescheduleCleanUpIfIncomplete(a) ==
    /\ pc[a] = "reschedule"
    /\ IF drainStatus = Required /\ HasDefaultExecutor
       THEN Goto(a, "scheduleDrainBuffers") ELSE Leave(a)
    /\ UNCHANGED <<drainStatus, locked, writeBuffer, pops, tries, child, token,
                   started, issued, done>>

--------------------------------------------------------------------------------

Quiescent == \A a \in Agents : pc[a] = "off"

\* All the clients have made their last call and every goroutine has ended.
Terminating ==
    /\ Quiescent
    /\ \A c \in Clients : started[c] = MaxOps
    /\ UNCHANGED vars

ClientStep(c) == Write(c) \/ Read(c) \/ LockingOp(c)

WriterStep(a) ==
    \/ TryPush(a) \/ PushFull(a) \/ AssistDrain(a)
    \/ ScheduleAfterWrite(a) \/ CasRequired(a) \/ CasProcessing(a)

SchedulerStep(a) ==
    \/ ScheduleDrainBuffers(a) \/ TryLock(a) \/ Recheck(a) \/ StoreProcessing(a)
    \/ Execute(a) \/ CallerRunsReturn(a) \/ Token(a) \/ UnlockScheduler(a)

LockStep(a) ==
    \/ DrainBuffers(a) \/ DrainToken(a) \/ Lock(a) \/ CheckRequired(a) \/ Discard(a)
    \/ Unlock(a) \/ InvalidateRest(a) \/ RescheduleCleanUpIfIncomplete(a)

MaintenanceStep(a) ==
    \/ Maintenance(a) \/ DrainWriteBuffer(a) \/ StoreOverflow(a) \/ RunTask(a)
    \/ Finish(a) \/ StoreRequired(a)

AgentStep(a) ==
    WriterStep(a) \/ SchedulerStep(a) \/ LockStep(a) \/ MaintenanceStep(a)

Next ==
    \/ \E c \in Clients : ClientStep(c)
    \/ \E a \in Agents : AgentStep(a)
    \/ Terminating

Spec == Init /\ [][Next]_vars

\* Goroutines are scheduled preemptively, so an agent inside an operation keeps
\* taking steps; clients are free to stop calling.  Weak fairness is enough for
\* Lock: the operations are finitely many, so the mutex is not taken forever.
FairSpec == Spec /\ \A a \in Agents : WF_vars(AgentStep(a))

--------------------------------------------------------------------------------
(* Properties *)

OpNames == AllOps \cup {"none", "drain", "written"}

\* The state variables stay in their ranges; the write buffer never exceeds
\* its capacity and a drain pass never pops more than WriteCap + 1 tasks.
TypeOK ==
    /\ drainStatus \in Idle..ProcessingToRequired
    /\ locked \in BOOLEAN
    /\ writeBuffer \in Seq(Clients)
    /\ Len(writeBuffer) <= WriteCap
    /\ pops \in 0..(WriteCap + 1)
    /\ pc \in [Agents -> PCs]
    /\ op \in [Agents -> OpNames]
    /\ tries \in [Agents -> 0..Retries]
    /\ child \in [Agents -> Drainers \cup {NoDrainer}]
    /\ token \in [Drainers -> {0, 1}]
    /\ started \in [Clients -> 0..MaxOps]
    /\ issued \in [Clients -> Nat]
    /\ done \in [Clients -> Nat]

\* The agents that own the locked mutex.  A scheduler that has submitted a
\* drain owns it as long as nobody has taken the token.
Holds(a) ==
    \/ pc[a] \in {"recheck", "storeProcessing", "execute", "unlockScheduler",
                  "checkRequired", "discard", "maintenance", "drainWriteBuffer",
                  "storeOverflow", "runTask", "finish", "storeRequired",
                  "unlock"}
    \/ /\ pc[a] \in {"callerRuns", "token"}
       /\ child[a] \in Drainers
       /\ token[child[a]] = 0

\* The mutex always has exactly one owner when it is locked, and none when it
\* is not: the token hand-over between scheduleDrainBuffers and drainBuffers
\* never leaves two goroutines in the policies, never unlocks an unlocked mutex
\* (a fatal error in Go) and never leaves the mutex locked for ever.
MutexHandOver ==
    /\ \A a, b \in Agents : Holds(a) /\ Holds(b) => a = b
    /\ locked <=> \E a \in Agents : Holds(a)

\* An agent that is certain to run the pop loop of maintenance.
BoundToDrain(a) ==
    \/ pc[a] \in {"execute", "drainBuffers", "drainToken", "maintenance",
                  "drainWriteBuffer", "storeOverflow"}
    \/ pc[a] = "lock" /\ op[a] \notin {"getMaximum", "invalidateAll"}

\* A writer that has queued its task and not yet told anybody.
Announcing(a) == pc[a] \in {"scheduleAfterWrite", "casRequired", "casProcessing"}

\* A queued task is never forgotten by drainStatus: whenever the buffer is not
\* empty, either the status says that a drain is required (now, or after the
\* one in progress), or its writer is still about to say so, or an agent is
\* certain to come to the pop loop.  This is what lets scheduleAfterWrite and
\* scheduleDrainBuffers return early.
PendingAnnounced ==
    writeBuffer # <<>> =>
        \/ drainStatus \in {Required, ProcessingToRequired}
        \/ \E a \in Agents : Announcing(a)
        \/ drainStatus = ProcessingToIdle /\ \E a \in Agents : BoundToDrain(a)

\* A processing status is never orphaned: somebody is inside the maintenance or
\* certain to start it.  Otherwise every later writer would return early in the
\* belief that a drain is in progress, and the buffers would never drain again.
ProcessingAttended ==
    drainStatus >= ProcessingToIdle =>
        \E a \in Agents :
            \/ BoundToDrain(a)
            \/ pc[a] \in {"runTask", "finish", "storeRequired"}

\* When all the goroutines have come to rest no task is left in the write
\* buffer, so that every policy update and every OnDeletion call has been made.
QuiescentDrained == Quiescent => writeBuffer = <<>>

\* Every task runs exactly once, whether it was pushed or carried into
\* performCleanUp after the retries: none is lost and none runs twice.
TasksConserved ==
    \A c \in Clients :
        issued[c] = done[c]
                    + Cardinality({i \in DOMAIN writeBuffer : writeBuffer[i] = c})
                    + (IF op[c] = "write" /\ pc[c] # "off" THEN 1 ELSE 0)

\* Every write is followed up: the n-th task of a client is eventually run.
EveryTaskRuns ==
    \A c \in Clients : \A n \in 1..(MaxOps + 1) :
        (issued[c] >= n) ~> (done[c] >= n)


=============================================================================
