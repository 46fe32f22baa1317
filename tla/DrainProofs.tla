------------------------------- MODULE DrainProofs -------------------------------
(***************************************************************************)
(* Proofs about module Drain, for any sets of clients and drainers, any    *)
(* capacity of the write buffer and any number of retries and operations.  *)
(*                                                                         *)
(* The inductive invariant is the conjunction IInv of the parts below.     *)
(* Each part has a lemma saying that a step preserves it, with one step of *)
(* the proof per group of actions; its hypotheses name the parts it needs. *)
(***************************************************************************)
EXTENDS Drain, SequenceTheorems, FiniteSetTheorems, TLAPS

\* The types of the shared words.
Words == drainStatus \in Idle..ProcessingToRequired /\ locked \in BOOLEAN

\* The types of the control state.
Control ==
    /\ pc \in [Agents -> PCs]
    /\ op \in [Agents -> OpNames]
    /\ tries \in [Agents -> 0..Retries]
    /\ child \in [Agents -> Drainers \cup {NoDrainer}]
    /\ token \in [Drainers -> {0, 1}]

\* The types of the buffer and of the counters.
Buffer ==
    /\ writeBuffer \in Seq(Clients)
    /\ Len(writeBuffer) <= WriteCap
    /\ pops \in 0..(WriteCap + 1)

Counters ==
    /\ started \in [Clients -> 0..MaxOps]
    /\ issued \in [Clients -> Nat]
    /\ done \in [Clients -> Nat]

\* Only clients write, and a drain is only ever a drain.
WritersAreClients ==
    \A a \in Agents :
        pc[a] \in {"afterWriteTask", "scheduleAfterWrite", "casRequired", "casProcessing"}
            => a \in Clients

DrainersOnlyDrain == \A d \in Drainers : op[d] \in {"none", "drain"} /\ tries[d] = 0

DrainsAreDrainers ==
    \A a \in Agents : pc[a] \in {"drainBuffers", "drainToken"} => a \in Drainers

\* A scheduler knows its drain exactly while the token is still to be decided,
\* and no two schedulers know the same drain.
ChildWhileWaiting ==
    \A a \in Agents : child[a] # NoDrainer <=> pc[a] \in {"callerRuns", "token"}

ChildUnique == \A a, b \in Agents : child[a] = child[b] /\ child[a] # NoDrainer => a = b

\* An undecided token of a starting drain belongs to a scheduler that waits, so
\* the drain that wins it takes over a mutex that somebody holds.
UndecidedHasScheduler ==
    \A d \in Drainers :
        pc[d] \in {"drainBuffers", "drainToken"} /\ token[d] = 0 =>
            \E a \in Agents : child[a] = d

\* The drain of an undecided token has not got past the token yet.
UndecidedIsStarting ==
    \A a \in Agents : \A d \in Drainers :
        child[a] = d /\ token[d] = 0 => pc[d] \in {"drainBuffers", "drainToken"}

\* The two halves of MutexHandOver.
OneOwner == \A a, b \in Agents : Holds(a) /\ Holds(b) => a = b

LockedIsOwned == locked <=> \E a \in Agents : Holds(a)

\* Agents in the maintenance whose pop loop has ended.
PastPops(a) == pc[a] \in {"runTask", "finish", "storeRequired"}

\* PendingAnnounced made inductive: while a maintenance that has ended its pop
\* loop may still store idle, a task queued since then has a writer that will
\* find the status processing (one at casRequired would not mark it).
Announced ==
    writeBuffer # <<>> =>
        \/ drainStatus \in {Required, ProcessingToRequired}
        \/ drainStatus = Idle /\ \E a \in Agents : Announcing(a)
        \/ /\ drainStatus = ProcessingToIdle
           /\ \E a \in Agents : pc[a] \in {"scheduleAfterWrite", "casProcessing"}
        \/ /\ drainStatus = ProcessingToIdle
           /\ \E a \in Agents : BoundToDrain(a)
           /\ \A a \in Agents : ~PastPops(a)

\* A scheduler that is about to give the mutex back leaves a drain behind.
UnlockLeavesDrain ==
    \A a \in Agents :
        pc[a] = "unlockScheduler" => \E b \in Agents : BoundToDrain(b)

\* No operation that skips rescheduleCleanUpIfIncomplete is running.
NoSilentUnlock ==
    \A a \in Agents : op[a] \notin {"order", "invalidateAll"} /\ pc[a] # "discard"

\* Somebody will look at a required status again.
Attending(a) ==
    \/ BoundToDrain(a)
    \/ pc[a] \in {"scheduleDrainBuffers", "tryLock", "recheck", "storeProcessing",
                  "checkRequired", "runTask", "finish", "storeRequired", "unlock",
                  "reschedule"}

RequiredAttended == drainStatus = Required => \E a \in Agents : Attending(a)

\* What the pop loops take from a buffer that is not empty.
LEMMA QueuedTask ==
    ASSUME Buffer, writeBuffer # <<>>
    PROVE  /\ Head(writeBuffer) \in Clients
           /\ Tail(writeBuffer) \in Seq(Clients)
           /\ Len(Tail(writeBuffer)) = Len(writeBuffer) - 1
BY HeadTailProperties DEF Buffer

USE DrainAssumption
    DEF Goto, GotoAs, Leave, Return, Begin,
        Idle, Required, ProcessingToIdle, ProcessingToRequired

--------------------------------------------------------------------------------
\* A step preserves Words.
LEMMA WordsStep ==
    ASSUME Words, [Next]_vars PROVE Words'
<1>1. ASSUME NEW c \in Clients, ClientStep(c) PROVE Words'
  BY <1>1 DEF ClientStep, Write, Read, LockingOp, Words, Idle
<1>2. ASSUME NEW a \in Agents, WriterStep(a) PROVE Words'
  BY <1>2 DEF WriterStep, TryPush, PushFull, AssistDrain, ScheduleAfterWrite,
     CasRequired, CasProcessing, Words, Idle
<1>3. ASSUME NEW a \in Agents, SchedulerStep(a) PROVE Words'
  <2>1. CASE ScheduleDrainBuffers(a)
    BY <2>1 DEF ScheduleDrainBuffers, Words, Idle
  <2>2. CASE TryLock(a)
    BY <2>2 DEF TryLock, Words, Idle
  <2>3. CASE Recheck(a)
    BY <2>3 DEF Recheck, Words, Idle
  <2>4. CASE StoreProcessing(a)
    BY <2>4 DEF StoreProcessing, Words, Idle
  <2>5. CASE Execute(a) \/ CallerRunsReturn(a) \/ Token(a) \/ UnlockScheduler(a)
    BY <2>5 DEF Execute, CallerRunsReturn, Token, UnlockScheduler, Words, Idle
  <2>6. QED
    BY <1>3, <2>1, <2>2, <2>3, <2>4, <2>5 DEF SchedulerStep
<1>4. ASSUME NEW a \in Agents, LockStep(a) PROVE Words'
  BY <1>4 DEF LockStep, DrainBuffers, DrainToken, Lock, CheckRequired, Discard, Unlock,
     InvalidateRest, RescheduleCleanUpIfIncomplete, Words, Idle
<1>5. ASSUME NEW a \in Agents, MaintenanceStep(a) PROVE Words'
  BY <1>5 DEF MaintenanceStep, Maintenance, DrainWriteBuffer, StoreOverflow, RunTask,
     Carries, Finish, StoreRequired, Words, Idle
<1>6. CASE Terminating \/ UNCHANGED vars
  BY <1>6 DEF Terminating, vars, Words, Idle
<1>7. QED
  BY <1>1, <1>2, <1>3, <1>4, <1>5, <1>6 DEF Next, AgentStep

\* A step preserves Control.
LEMMA ControlStep ==
    ASSUME Control, ChildWhileWaiting, WritersAreClients, DrainersOnlyDrain, [Next]_vars
           PROVE Control'
<1>1. ASSUME NEW c \in Clients, ClientStep(c) PROVE Control'
  BY <1>1 DEF ClientStep, Write, Read, LockingOp, Control, ChildWhileWaiting,
     WritersAreClients, DrainersOnlyDrain, Agents, PCs, OpNames, AllOps
<1>2. ASSUME NEW a \in Agents, WriterStep(a) PROVE Control'
  <2>1. CASE TryPush(a)
    BY <2>1 DEF TryPush, Control, ChildWhileWaiting, WritersAreClients,
       DrainersOnlyDrain, Agents, PCs, OpNames, AllOps
  <2>2. CASE PushFull(a)
    BY <2>2 DEF PushFull, Control, ChildWhileWaiting, WritersAreClients,
       DrainersOnlyDrain, Agents, PCs, OpNames, AllOps
  <2>3. CASE AssistDrain(a)
    BY <2>3 DEF AssistDrain, Control, ChildWhileWaiting, WritersAreClients,
       DrainersOnlyDrain, Agents, PCs, OpNames, AllOps
  <2>4. CASE ScheduleAfterWrite(a)
    BY <2>4 DEF ScheduleAfterWrite, Control, ChildWhileWaiting, WritersAreClients,
       DrainersOnlyDrain, Agents, PCs, OpNames, AllOps
  <2>5. CASE CasRequired(a) \/ CasProcessing(a)
    BY <2>5 DEF CasRequired, CasProcessing, Control, ChildWhileWaiting,
       WritersAreClients, DrainersOnlyDrain, Agents, PCs, OpNames, AllOps
  <2>6. QED
    BY <1>2, <2>1, <2>2, <2>3, <2>4, <2>5 DEF WriterStep
<1>3. ASSUME NEW a \in Agents, SchedulerStep(a) PROVE Control'
  <2>1. CASE ScheduleDrainBuffers(a) \/ TryLock(a) \/ Recheck(a) \/ StoreProcessing(a)
    BY <2>1 DEF ScheduleDrainBuffers, TryLock, Recheck, StoreProcessing, Control,
       ChildWhileWaiting, WritersAreClients, DrainersOnlyDrain, Agents, PCs, OpNames,
       AllOps
  <2>2. CASE Execute(a) \/ CallerRunsReturn(a) \/ Token(a) \/ UnlockScheduler(a)
    BY <2>2 DEF Execute, CallerRunsReturn, Token, UnlockScheduler, Control,
       ChildWhileWaiting, WritersAreClients, DrainersOnlyDrain, Agents, PCs, OpNames,
       AllOps
  <2>3. QED
    BY <1>3, <2>1, <2>2 DEF SchedulerStep
<1>4. ASSUME NEW a \in Agents, LockStep(a) PROVE Control'
  <2>1. CASE DrainBuffers(a) \/ DrainToken(a) \/ Lock(a) \/ CheckRequired(a)
    BY <2>1 DEF DrainBuffers, DrainToken, Lock, CheckRequired, Control,
       ChildWhileWaiting, WritersAreClients, DrainersOnlyDrain, Agents, PCs, OpNames,
       AllOps
  <2>2. CASE Discard(a)
    BY <2>2 DEF Discard, Control, ChildWhileWaiting, WritersAreClients,
       DrainersOnlyDrain, Agents, PCs, OpNames, AllOps
  <2>3. CASE Unlock(a)
    BY <2>3 DEF Unlock, Control, ChildWhileWaiting, WritersAreClients,
       DrainersOnlyDrain, Agents, PCs, OpNames, AllOps
  <2>4. CASE InvalidateRest(a)
    BY <2>4 DEF InvalidateRest, Control, ChildWhileWaiting, WritersAreClients,
       DrainersOnlyDrain, Agents, PCs, OpNames, AllOps
  <2>5. CASE RescheduleCleanUpIfIncomplete(a)
    BY <2>5 DEF RescheduleCleanUpIfIncomplete, Control, ChildWhileWaiting,
       WritersAreClients, DrainersOnlyDrain, Agents, PCs, OpNames, AllOps
  <2>6. QED
    BY <1>4, <2>1, <2>2, <2>3, <2>4, <2>5 DEF LockStep
<1>5. ASSUME NEW a \in Agents, MaintenanceStep(a) PROVE Control'
  <2>1. CASE Maintenance(a)
    BY <2>1 DEF Maintenance, Control, ChildWhileWaiting, WritersAreClients,
       DrainersOnlyDrain, Agents, PCs, OpNames, AllOps
  <2>2. CASE DrainWriteBuffer(a)
    BY SMTT(30), <2>2 DEF DrainWriteBuffer, Control, ChildWhileWaiting, WritersAreClients,
       DrainersOnlyDrain, Agents, PCs, OpNames, AllOps
  <2>3. CASE StoreOverflow(a)
    BY <2>3 DEF StoreOverflow, Control, ChildWhileWaiting, WritersAreClients,
       DrainersOnlyDrain, Agents, PCs, OpNames, AllOps
  <2>4. CASE RunTask(a)
    BY <2>4 DEF RunTask, Carries, Control, ChildWhileWaiting, WritersAreClients,
       DrainersOnlyDrain, Agents, PCs, OpNames, AllOps
  <2>5. CASE Finish(a) \/ StoreRequired(a)
    BY <2>5 DEF Finish, StoreRequired, Control, ChildWhileWaiting, WritersAreClients,
       DrainersOnlyDrain, Agents, PCs, OpNames, AllOps
  <2>6. QED
    BY <1>5, <2>1, <2>2, <2>3, <2>4, <2>5 DEF MaintenanceStep
<1>6. CASE Terminating \/ UNCHANGED vars
  BY <1>6 DEF Terminating, vars, Control, ChildWhileWaiting, WritersAreClients,
     DrainersOnlyDrain, Agents, PCs, OpNames, AllOps
<1>7. QED
  BY <1>1, <1>2, <1>3, <1>4, <1>5, <1>6 DEF Next, AgentStep

\* A step preserves WritersAreClients.
LEMMA WritersAreClientsStep ==
    ASSUME Control, WritersAreClients, DrainersOnlyDrain, [Next]_vars PROVE
           WritersAreClients'
<1>1. ASSUME NEW c \in Clients, ClientStep(c) PROVE WritersAreClients'
  BY <1>1 DEF ClientStep, Write, Read, LockingOp, Control, WritersAreClients,
     DrainersOnlyDrain, Agents
<1>2. ASSUME NEW a \in Agents, WriterStep(a) PROVE WritersAreClients'
  BY <1>2 DEF WriterStep, TryPush, PushFull, AssistDrain, ScheduleAfterWrite,
     CasRequired, CasProcessing, Control, WritersAreClients, DrainersOnlyDrain, Agents
<1>3. ASSUME NEW a \in Agents, SchedulerStep(a) PROVE WritersAreClients'
  BY <1>3 DEF SchedulerStep, ScheduleDrainBuffers, TryLock, Recheck, StoreProcessing,
     Execute, CallerRunsReturn, Token, UnlockScheduler, Control, WritersAreClients,
     DrainersOnlyDrain, Agents
<1>4. ASSUME NEW a \in Agents, LockStep(a) PROVE WritersAreClients'
  BY <1>4 DEF LockStep, DrainBuffers, DrainToken, Lock, CheckRequired, Discard, Unlock,
     InvalidateRest, RescheduleCleanUpIfIncomplete, Control, WritersAreClients,
     DrainersOnlyDrain, Agents
<1>5. ASSUME NEW a \in Agents, MaintenanceStep(a) PROVE WritersAreClients'
  BY <1>5 DEF MaintenanceStep, Maintenance, DrainWriteBuffer, StoreOverflow, RunTask,
     Carries, Finish, StoreRequired, Control, WritersAreClients, DrainersOnlyDrain,
     Agents
<1>6. CASE Terminating \/ UNCHANGED vars
  BY <1>6 DEF Terminating, vars, Control, WritersAreClients, DrainersOnlyDrain, Agents
<1>7. QED
  BY <1>1, <1>2, <1>3, <1>4, <1>5, <1>6 DEF Next, AgentStep

\* A step preserves DrainersOnlyDrain.
LEMMA DrainersOnlyDrainStep ==
    ASSUME Control, WritersAreClients, DrainersOnlyDrain, [Next]_vars PROVE
           DrainersOnlyDrain'
<1>1. ASSUME NEW c \in Clients, ClientStep(c) PROVE DrainersOnlyDrain'
  BY <1>1 DEF ClientStep, Write, Read, LockingOp, Control, WritersAreClients,
     DrainersOnlyDrain, Agents
<1>2. ASSUME NEW a \in Agents, WriterStep(a) PROVE DrainersOnlyDrain'
  BY <1>2 DEF WriterStep, TryPush, PushFull, AssistDrain, ScheduleAfterWrite,
     CasRequired, CasProcessing, Control, WritersAreClients, DrainersOnlyDrain, Agents
<1>3. ASSUME NEW a \in Agents, SchedulerStep(a) PROVE DrainersOnlyDrain'
  BY <1>3 DEF SchedulerStep, ScheduleDrainBuffers, TryLock, Recheck, StoreProcessing,
     Execute, CallerRunsReturn, Token, UnlockScheduler, Control, WritersAreClients,
     DrainersOnlyDrain, Agents
<1>4. ASSUME NEW a \in Agents, LockStep(a) PROVE DrainersOnlyDrain'
  BY <1>4 DEF LockStep, DrainBuffers, DrainToken, Lock, CheckRequired, Discard, Unlock,
     InvalidateRest, RescheduleCleanUpIfIncomplete, Control, WritersAreClients,
     DrainersOnlyDrain, Agents
<1>5. ASSUME NEW a \in Agents, MaintenanceStep(a) PROVE DrainersOnlyDrain'
  BY <1>5 DEF MaintenanceStep, Maintenance, DrainWriteBuffer, StoreOverflow, RunTask,
     Carries, Finish, StoreRequired, Control, WritersAreClients, DrainersOnlyDrain,
     Agents
<1>6. CASE Terminating \/ UNCHANGED vars
  BY <1>6 DEF Terminating, vars, Control, WritersAreClients, DrainersOnlyDrain, Agents
<1>7. QED
  BY <1>1, <1>2, <1>3, <1>4, <1>5, <1>6 DEF Next, AgentStep

\* A step preserves DrainsAreDrainers.
LEMMA DrainsAreDrainersStep ==
    ASSUME Control, DrainsAreDrainers, [Next]_vars PROVE DrainsAreDrainers'
<1>1. ASSUME NEW c \in Clients, ClientStep(c) PROVE DrainsAreDrainers'
  BY <1>1 DEF ClientStep, Write, Read, LockingOp, Control, DrainsAreDrainers, Agents
<1>2. ASSUME NEW a \in Agents, WriterStep(a) PROVE DrainsAreDrainers'
  BY <1>2 DEF WriterStep, TryPush, PushFull, AssistDrain, ScheduleAfterWrite,
     CasRequired, CasProcessing, Control, DrainsAreDrainers, Agents
<1>3. ASSUME NEW a \in Agents, SchedulerStep(a) PROVE DrainsAreDrainers'
  BY <1>3 DEF SchedulerStep, ScheduleDrainBuffers, TryLock, Recheck, StoreProcessing,
     Execute, CallerRunsReturn, Token, UnlockScheduler, Control, DrainsAreDrainers,
     Agents
<1>4. ASSUME NEW a \in Agents, LockStep(a) PROVE DrainsAreDrainers'
  BY <1>4 DEF LockStep, DrainBuffers, DrainToken, Lock, CheckRequired, Discard, Unlock,
     InvalidateRest, RescheduleCleanUpIfIncomplete, Control, DrainsAreDrainers, Agents
<1>5. ASSUME NEW a \in Agents, MaintenanceStep(a) PROVE DrainsAreDrainers'
  BY <1>5 DEF MaintenanceStep, Maintenance, DrainWriteBuffer, StoreOverflow, RunTask,
     Carries, Finish, StoreRequired, Control, DrainsAreDrainers, Agents
<1>6. CASE Terminating \/ UNCHANGED vars
  BY <1>6 DEF Terminating, vars, Control, DrainsAreDrainers, Agents
<1>7. QED
  BY <1>1, <1>2, <1>3, <1>4, <1>5, <1>6 DEF Next, AgentStep

\* A step preserves ChildWhileWaiting.
LEMMA ChildWhileWaitingStep ==
    ASSUME Control, ChildWhileWaiting, [Next]_vars PROVE ChildWhileWaiting'
<1>1. ASSUME NEW c \in Clients, ClientStep(c) PROVE ChildWhileWaiting'
  BY <1>1 DEF ClientStep, Write, Read, LockingOp, Control, ChildWhileWaiting, Agents,
     Free
<1>2. ASSUME NEW a \in Agents, WriterStep(a) PROVE ChildWhileWaiting'
  BY <1>2 DEF WriterStep, TryPush, PushFull, AssistDrain, ScheduleAfterWrite,
     CasRequired, CasProcessing, Control, ChildWhileWaiting, Agents, Free
<1>3. ASSUME NEW a \in Agents, SchedulerStep(a) PROVE ChildWhileWaiting'
  BY <1>3 DEF SchedulerStep, ScheduleDrainBuffers, TryLock, Recheck, StoreProcessing,
     Execute, CallerRunsReturn, Token, UnlockScheduler, Control, ChildWhileWaiting,
     Agents, Free
<1>4. ASSUME NEW a \in Agents, LockStep(a) PROVE ChildWhileWaiting'
  BY ZenonT(40), <1>4 DEF LockStep, DrainBuffers, DrainToken, Lock, CheckRequired, Discard, Unlock,
     InvalidateRest, RescheduleCleanUpIfIncomplete, Control, ChildWhileWaiting, Agents,
     Free
<1>5. ASSUME NEW a \in Agents, MaintenanceStep(a) PROVE ChildWhileWaiting'
  BY <1>5 DEF MaintenanceStep, Maintenance, DrainWriteBuffer, StoreOverflow, RunTask,
     Carries, Finish, StoreRequired, Control, ChildWhileWaiting, Agents, Free
<1>6. CASE Terminating \/ UNCHANGED vars
  BY <1>6 DEF Terminating, vars, Control, ChildWhileWaiting, Agents, Free
<1>7. QED
  BY <1>1, <1>2, <1>3, <1>4, <1>5, <1>6 DEF Next, AgentStep

\* A step preserves ChildUnique.
LEMMA ChildUniqueStep ==
    ASSUME Control, ChildWhileWaiting, ChildUnique, [Next]_vars PROVE ChildUnique'
<1>1. ASSUME NEW c \in Clients, ClientStep(c) PROVE ChildUnique'
  BY <1>1 DEF ClientStep, Write, Read, LockingOp, Control, ChildWhileWaiting,
     ChildUnique, Agents, Free
<1>2. ASSUME NEW a \in Agents, WriterStep(a) PROVE ChildUnique'
  BY <1>2 DEF WriterStep, TryPush, PushFull, AssistDrain, ScheduleAfterWrite,
     CasRequired, CasProcessing, Control, ChildWhileWaiting, ChildUnique, Agents, Free
<1>3. ASSUME NEW a \in Agents, SchedulerStep(a) PROVE ChildUnique'
  BY <1>3 DEF SchedulerStep, ScheduleDrainBuffers, TryLock, Recheck, StoreProcessing,
     Execute, CallerRunsReturn, Token, UnlockScheduler, Control, ChildWhileWaiting,
     ChildUnique, Agents, Free
<1>4. ASSUME NEW a \in Agents, LockStep(a) PROVE ChildUnique'
  BY <1>4 DEF LockStep, DrainBuffers, DrainToken, Lock, CheckRequired, Discard, Unlock,
     InvalidateRest, RescheduleCleanUpIfIncomplete, Control, ChildWhileWaiting,
     ChildUnique, Agents, Free
<1>5. ASSUME NEW a \in Agents, MaintenanceStep(a) PROVE ChildUnique'
  BY <1>5 DEF MaintenanceStep, Maintenance, DrainWriteBuffer, StoreOverflow, RunTask,
     Carries, Finish, StoreRequired, Control, ChildWhileWaiting, ChildUnique, Agents,
     Free
<1>6. CASE Terminating \/ UNCHANGED vars
  BY <1>6 DEF Terminating, vars, Control, ChildWhileWaiting, ChildUnique, Agents, Free
<1>7. QED
  BY <1>1, <1>2, <1>3, <1>4, <1>5, <1>6 DEF Next, AgentStep

\* A step preserves UndecidedHasScheduler.
LEMMA UndecidedHasSchedulerStep ==
    ASSUME Control, ChildWhileWaiting, UndecidedHasScheduler, [Next]_vars PROVE
           UndecidedHasScheduler'
<1>1. ASSUME NEW c \in Clients, ClientStep(c) PROVE UndecidedHasScheduler'
  BY <1>1 DEF ClientStep, Write, Read, LockingOp, Control, ChildWhileWaiting,
     UndecidedHasScheduler, Agents, Free
<1>2. ASSUME NEW a \in Agents, WriterStep(a) PROVE UndecidedHasScheduler'
  BY SMTT(30), <1>2 DEF WriterStep, TryPush, PushFull, AssistDrain, ScheduleAfterWrite,
     CasRequired, CasProcessing, Control, ChildWhileWaiting, UndecidedHasScheduler,
     Agents, Free
<1>3. ASSUME NEW a \in Agents, SchedulerStep(a) PROVE UndecidedHasScheduler'
  BY <1>3 DEF SchedulerStep, ScheduleDrainBuffers, TryLock, Recheck, StoreProcessing,
     Execute, CallerRunsReturn, Token, UnlockScheduler, Control, ChildWhileWaiting,
     UndecidedHasScheduler, Agents, Free
<1>4. ASSUME NEW a \in Agents, LockStep(a) PROVE UndecidedHasScheduler'
  BY <1>4 DEF LockStep, DrainBuffers, DrainToken, Lock, CheckRequired, Discard, Unlock,
     InvalidateRest, RescheduleCleanUpIfIncomplete, Control, ChildWhileWaiting,
     UndecidedHasScheduler, Agents, Free
<1>5. ASSUME NEW a \in Agents, MaintenanceStep(a) PROVE UndecidedHasScheduler'
  <2>1. CASE Maintenance(a) \/ DrainWriteBuffer(a) \/ StoreOverflow(a) \/ RunTask(a)
    BY <2>1 DEF Maintenance, DrainWriteBuffer, StoreOverflow, RunTask, Carries, Control,
       ChildWhileWaiting, UndecidedHasScheduler, Agents, Free
  <2>2. CASE Finish(a) \/ StoreRequired(a)
    BY <2>2 DEF Finish, StoreRequired, Control, ChildWhileWaiting,
       UndecidedHasScheduler, Agents, Free
  <2>3. QED
    BY <1>5, <2>1, <2>2 DEF MaintenanceStep
<1>6. CASE Terminating \/ UNCHANGED vars
  BY <1>6 DEF Terminating, vars, Control, ChildWhileWaiting, UndecidedHasScheduler,
     Agents, Free
<1>7. QED
  BY <1>1, <1>2, <1>3, <1>4, <1>5, <1>6 DEF Next, AgentStep

\* A step preserves UndecidedIsStarting.
LEMMA UndecidedIsStartingStep ==
    ASSUME Control, ChildWhileWaiting, ChildUnique, LockedIsOwned, UndecidedIsStarting,
           [Next]_vars PROVE UndecidedIsStarting'
<1>1. ASSUME NEW c \in Clients, ClientStep(c) PROVE UndecidedIsStarting'
  BY <1>1 DEF ClientStep, Write, Read, LockingOp, Control, ChildWhileWaiting,
     ChildUnique, LockedIsOwned, UndecidedIsStarting, Agents, Free, Holds
<1>2. ASSUME NEW a \in Agents, WriterStep(a) PROVE UndecidedIsStarting'
  BY ZenonT(40), <1>2 DEF WriterStep, TryPush, PushFull, AssistDrain, ScheduleAfterWrite,
     CasRequired, CasProcessing, Control, ChildWhileWaiting, ChildUnique, LockedIsOwned,
     UndecidedIsStarting, Agents, Free, Holds
<1>3. ASSUME NEW a \in Agents, SchedulerStep(a) PROVE UndecidedIsStarting'
  BY <1>3 DEF SchedulerStep, ScheduleDrainBuffers, TryLock, Recheck, StoreProcessing,
     Execute, CallerRunsReturn, Token, UnlockScheduler, Control, ChildWhileWaiting,
     ChildUnique, LockedIsOwned, UndecidedIsStarting, Agents, Free, Holds
<1>4. ASSUME NEW a \in Agents, LockStep(a) PROVE UndecidedIsStarting'
  <2>1. CASE DrainBuffers(a) \/ DrainToken(a) \/ Lock(a) \/ CheckRequired(a)
    BY <2>1 DEF DrainBuffers, DrainToken, Lock, CheckRequired, Control,
       ChildWhileWaiting, ChildUnique, LockedIsOwned, UndecidedIsStarting, Agents, Free,
       Holds
  <2>2. CASE Discard(a)
    BY <2>2 DEF Discard, Control, ChildWhileWaiting, ChildUnique, LockedIsOwned,
       UndecidedIsStarting, Agents, Free, Holds
  <2>3. CASE Unlock(a)
    BY <2>3 DEF Unlock, Control, ChildWhileWaiting, ChildUnique, LockedIsOwned,
       UndecidedIsStarting, Agents, Free, Holds
  <2>4. CASE InvalidateRest(a)
    BY <2>4 DEF InvalidateRest, Control, ChildWhileWaiting, ChildUnique, LockedIsOwned,
       UndecidedIsStarting, Agents, Free, Holds
  <2>5. CASE RescheduleCleanUpIfIncomplete(a)
    BY <2>5 DEF RescheduleCleanUpIfIncomplete, Control, ChildWhileWaiting, ChildUnique,
       LockedIsOwned, UndecidedIsStarting, Agents, Free, Holds
  <2>6. QED
    BY <1>4, <2>1, <2>2, <2>3, <2>4, <2>5 DEF LockStep
<1>5. ASSUME NEW a \in Agents, MaintenanceStep(a) PROVE UndecidedIsStarting'
  BY SMTT(30), <1>5 DEF MaintenanceStep, Maintenance, DrainWriteBuffer, StoreOverflow, RunTask,
     Carries, Finish, StoreRequired, Control, ChildWhileWaiting, ChildUnique,
     LockedIsOwned, UndecidedIsStarting, Agents, Free, Holds
<1>6. CASE Terminating \/ UNCHANGED vars
  BY <1>6 DEF Terminating, vars, Control, ChildWhileWaiting, ChildUnique, LockedIsOwned,
     UndecidedIsStarting, Agents, Free, Holds
<1>7. QED
  BY <1>1, <1>2, <1>3, <1>4, <1>5, <1>6 DEF Next, AgentStep

\* A step preserves OneOwner.
LEMMA OneOwnerStep ==
    ASSUME Control, OneOwner, LockedIsOwned, ChildWhileWaiting, ChildUnique,
           DrainsAreDrainers, UndecidedHasScheduler, [Next]_vars PROVE OneOwner'
<1>1. ASSUME NEW c \in Clients, ClientStep(c) PROVE OneOwner'
  BY <1>1 DEF ClientStep, Write, Read, LockingOp, Control, OneOwner, LockedIsOwned,
     ChildWhileWaiting, ChildUnique, DrainsAreDrainers, UndecidedHasScheduler, Holds,
     Agents, Free
<1>2. ASSUME NEW a \in Agents, WriterStep(a) PROVE OneOwner'
  <2>1. CASE TryPush(a) \/ PushFull(a) \/ AssistDrain(a) \/ ScheduleAfterWrite(a)
    BY SMTT(30), <2>1 DEF TryPush, PushFull, AssistDrain, ScheduleAfterWrite, Control, OneOwner,
       LockedIsOwned, ChildWhileWaiting, ChildUnique, DrainsAreDrainers,
       UndecidedHasScheduler, Holds, Agents, Free
  <2>2. CASE CasRequired(a) \/ CasProcessing(a)
    BY <2>2 DEF CasRequired, CasProcessing, Control, OneOwner, LockedIsOwned,
       ChildWhileWaiting, ChildUnique, DrainsAreDrainers, UndecidedHasScheduler, Holds,
       Agents, Free
  <2>3. QED
    BY <1>2, <2>1, <2>2 DEF WriterStep
<1>3. ASSUME NEW a \in Agents, SchedulerStep(a) PROVE OneOwner'
  BY <1>3 DEF SchedulerStep, ScheduleDrainBuffers, TryLock, Recheck, StoreProcessing,
     Execute, CallerRunsReturn, Token, UnlockScheduler, Control, OneOwner,
     LockedIsOwned, ChildWhileWaiting, ChildUnique, DrainsAreDrainers,
     UndecidedHasScheduler, Holds, Agents, Free
<1>4. ASSUME NEW a \in Agents, LockStep(a) PROVE OneOwner'
  <2>1. CASE DrainBuffers(a) \/ DrainToken(a) \/ Lock(a) \/ CheckRequired(a)
    BY <2>1 DEF DrainBuffers, DrainToken, Lock, CheckRequired, Control, OneOwner,
       LockedIsOwned, ChildWhileWaiting, ChildUnique, DrainsAreDrainers,
       UndecidedHasScheduler, Holds, Agents, Free
  <2>2. CASE Discard(a) \/ Unlock(a) \/ InvalidateRest(a) \/
           RescheduleCleanUpIfIncomplete(a)
    BY <2>2 DEF Discard, Unlock, InvalidateRest, RescheduleCleanUpIfIncomplete, Control,
       OneOwner, LockedIsOwned, ChildWhileWaiting, ChildUnique, DrainsAreDrainers,
       UndecidedHasScheduler, Holds, Agents, Free
  <2>3. QED
    BY <1>4, <2>1, <2>2 DEF LockStep
<1>5. ASSUME NEW a \in Agents, MaintenanceStep(a) PROVE OneOwner'
  <2>1. CASE Maintenance(a)
    BY <2>1 DEF Maintenance, Control, OneOwner, LockedIsOwned, ChildWhileWaiting,
       ChildUnique, DrainsAreDrainers, UndecidedHasScheduler, Holds, Agents, Free
  <2>2. CASE DrainWriteBuffer(a)
    <3>1. /\ UNCHANGED <<child, token>>
          /\ Holds(a)
          /\ \E l \in PCs \ {"callerRuns", "token"} : pc' = [pc EXCEPT ![a] = l]
      BY <2>2 DEF DrainWriteBuffer, Holds, Control, PCs
    <3>2. QED
      BY <3>1 DEF Control, OneOwner, Holds
  <2>3. CASE StoreOverflow(a) \/ RunTask(a) \/ Finish(a) \/ StoreRequired(a)
    BY <2>3 DEF StoreOverflow, RunTask, Carries, Finish, StoreRequired, Control,
       OneOwner, LockedIsOwned, ChildWhileWaiting, ChildUnique, DrainsAreDrainers,
       UndecidedHasScheduler, Holds, Agents, Free
  <2>4. QED
    BY <1>5, <2>1, <2>2, <2>3 DEF MaintenanceStep
<1>6. CASE Terminating \/ UNCHANGED vars
  BY <1>6 DEF Terminating, vars, Control, OneOwner, LockedIsOwned, ChildWhileWaiting,
     ChildUnique, DrainsAreDrainers, UndecidedHasScheduler, Holds, Agents, Free
<1>7. QED
  BY <1>1, <1>2, <1>3, <1>4, <1>5, <1>6 DEF Next, AgentStep

\* A step preserves LockedIsOwned.
LEMMA LockedIsOwnedStep ==
    ASSUME Control, OneOwner, LockedIsOwned, ChildWhileWaiting, ChildUnique,
           DrainsAreDrainers, UndecidedHasScheduler, [Next]_vars PROVE LockedIsOwned'
<1>1. ASSUME NEW c \in Clients, ClientStep(c) PROVE LockedIsOwned'
  BY <1>1 DEF ClientStep, Write, Read, LockingOp, Control, OneOwner, LockedIsOwned,
     ChildWhileWaiting, ChildUnique, DrainsAreDrainers, UndecidedHasScheduler, Holds,
     Agents, Free
<1>2. ASSUME NEW a \in Agents, WriterStep(a) PROVE LockedIsOwned'
  <2>1. CASE TryPush(a) \/ PushFull(a) \/ AssistDrain(a) \/ ScheduleAfterWrite(a)
    BY <2>1 DEF TryPush, PushFull, AssistDrain, ScheduleAfterWrite, Control, OneOwner,
       LockedIsOwned, ChildWhileWaiting, ChildUnique, DrainsAreDrainers,
       UndecidedHasScheduler, Holds, Agents, Free
  <2>2. CASE CasRequired(a) \/ CasProcessing(a)
    BY <2>2 DEF CasRequired, CasProcessing, Control, OneOwner, LockedIsOwned,
       ChildWhileWaiting, ChildUnique, DrainsAreDrainers, UndecidedHasScheduler, Holds,
       Agents, Free
  <2>3. QED
    BY <1>2, <2>1, <2>2 DEF WriterStep
<1>3. ASSUME NEW a \in Agents, SchedulerStep(a) PROVE LockedIsOwned'
  BY <1>3 DEF SchedulerStep, ScheduleDrainBuffers, TryLock, Recheck, StoreProcessing,
     Execute, CallerRunsReturn, Token, UnlockScheduler, Control, OneOwner,
     LockedIsOwned, ChildWhileWaiting, ChildUnique, DrainsAreDrainers,
     UndecidedHasScheduler, Holds, Agents, Free
<1>4. ASSUME NEW a \in Agents, LockStep(a) PROVE LockedIsOwned'
  <2>1. CASE DrainBuffers(a) \/ DrainToken(a) \/ Lock(a) \/ CheckRequired(a)
    BY <2>1 DEF DrainBuffers, DrainToken, Lock, CheckRequired, Control, OneOwner,
       LockedIsOwned, ChildWhileWaiting, ChildUnique, DrainsAreDrainers,
       UndecidedHasScheduler, Holds, Agents, Free
  <2>2. CASE Discard(a) \/ Unlock(a) \/ InvalidateRest(a) \/
           RescheduleCleanUpIfIncomplete(a)
    BY <2>2 DEF Discard, Unlock, InvalidateRest, RescheduleCleanUpIfIncomplete, Control,
       OneOwner, LockedIsOwned, ChildWhileWaiting, ChildUnique, DrainsAreDrainers,
       UndecidedHasScheduler, Holds, Agents, Free
  <2>3. QED
    BY <1>4, <2>1, <2>2 DEF LockStep
<1>5. ASSUME NEW a \in Agents, MaintenanceStep(a) PROVE LockedIsOwned'
  BY <1>5 DEF MaintenanceStep, Maintenance, DrainWriteBuffer, StoreOverflow, RunTask,
     Carries, Finish, StoreRequired, Control, OneOwner, LockedIsOwned,
     ChildWhileWaiting, ChildUnique, DrainsAreDrainers, UndecidedHasScheduler, Holds,
     Agents, Free
<1>6. CASE Terminating \/ UNCHANGED vars
  BY <1>6 DEF Terminating, vars, Control, OneOwner, LockedIsOwned, ChildWhileWaiting,
     ChildUnique, DrainsAreDrainers, UndecidedHasScheduler, Holds, Agents, Free
<1>7. QED
  BY <1>1, <1>2, <1>3, <1>4, <1>5, <1>6 DEF Next, AgentStep

\* A step preserves ProcessingAttended.
LEMMA ProcessingAttendedStep ==
    ASSUME Words, Control, ProcessingAttended, DrainsAreDrainers, DrainersOnlyDrain,
           [Next]_vars PROVE ProcessingAttended'
<1>1. ASSUME NEW c \in Clients, ClientStep(c) PROVE ProcessingAttended'
  BY <1>1 DEF ClientStep, Write, Read, LockingOp, Words, Control, ProcessingAttended,
     DrainsAreDrainers, DrainersOnlyDrain, BoundToDrain, Agents, Free
<1>2. ASSUME NEW a \in Agents, WriterStep(a) PROVE ProcessingAttended'
  <2>1. CASE TryPush(a) \/ PushFull(a) \/ AssistDrain(a) \/ ScheduleAfterWrite(a)
    BY <2>1 DEF TryPush, PushFull, AssistDrain, ScheduleAfterWrite, Words, Control,
       ProcessingAttended, DrainsAreDrainers, DrainersOnlyDrain, BoundToDrain, Agents,
       Free
  <2>2. CASE CasRequired(a) \/ CasProcessing(a)
    BY <2>2 DEF CasRequired, CasProcessing, Words, Control, ProcessingAttended,
       DrainsAreDrainers, DrainersOnlyDrain, BoundToDrain, Agents, Free
  <2>3. QED
    BY <1>2, <2>1, <2>2 DEF WriterStep
<1>3. ASSUME NEW a \in Agents, SchedulerStep(a) PROVE ProcessingAttended'
  BY <1>3 DEF SchedulerStep, ScheduleDrainBuffers, TryLock, Recheck, StoreProcessing,
     Execute, CallerRunsReturn, Token, UnlockScheduler, Words, Control,
     ProcessingAttended, DrainsAreDrainers, DrainersOnlyDrain, BoundToDrain, Agents,
     Free
<1>4. ASSUME NEW a \in Agents, LockStep(a) PROVE ProcessingAttended'
  <2>1. CASE DrainBuffers(a) \/ DrainToken(a) \/ Lock(a) \/ CheckRequired(a)
    BY <2>1 DEF DrainBuffers, DrainToken, Lock, CheckRequired, Words, Control,
       ProcessingAttended, DrainsAreDrainers, DrainersOnlyDrain, BoundToDrain, Agents,
       Free
  <2>2. CASE Discard(a) \/ Unlock(a) \/ InvalidateRest(a) \/
           RescheduleCleanUpIfIncomplete(a)
    BY <2>2 DEF Discard, Unlock, InvalidateRest, RescheduleCleanUpIfIncomplete, Words,
       Control, ProcessingAttended, DrainsAreDrainers, DrainersOnlyDrain, BoundToDrain,
       Agents, Free
  <2>3. QED
    BY <1>4, <2>1, <2>2 DEF LockStep
<1>5. ASSUME NEW a \in Agents, MaintenanceStep(a) PROVE ProcessingAttended'
  BY <1>5 DEF MaintenanceStep, Maintenance, DrainWriteBuffer, StoreOverflow, RunTask,
     Carries, Finish, StoreRequired, Words, Control, ProcessingAttended,
     DrainsAreDrainers, DrainersOnlyDrain, BoundToDrain, Agents, Free
<1>6. CASE Terminating \/ UNCHANGED vars
  BY <1>6 DEF Terminating, vars, Words, Control, ProcessingAttended, DrainsAreDrainers,
     DrainersOnlyDrain, BoundToDrain, Agents, Free
<1>7. QED
  BY <1>1, <1>2, <1>3, <1>4, <1>5, <1>6 DEF Next, AgentStep

\* A step preserves Announced.
LEMMA AnnouncedStep ==
    ASSUME Words, Control, Announced, OneOwner, DrainsAreDrainers, DrainersOnlyDrain,
           [Next]_vars PROVE Announced'
<1>1. ASSUME NEW c \in Clients, ClientStep(c) PROVE Announced'
  <2>1. CASE Write(c)
    BY <2>1 DEF Write, Words, Control, Announced, OneOwner, DrainsAreDrainers,
       DrainersOnlyDrain, Holds, BoundToDrain, PastPops, Announcing, Agents, Free
  <2>2. CASE Read(c)
    <3>1. /\ UNCHANGED <<drainStatus, writeBuffer>>
          /\ pc[c] = "off"
          /\ \/ UNCHANGED <<pc, op>>
             \/ /\ pc' = [pc EXCEPT ![c] = "scheduleDrainBuffers"]
                /\ op' = [op EXCEPT ![c] = "read"]
      BY <2>2 DEF Read
    <3>2. QED
      BY <3>1 DEF Control, Announced, BoundToDrain, PastPops, Announcing, Agents
  <2>3. CASE LockingOp(c)
    BY <2>3 DEF LockingOp, Words, Control, Announced, OneOwner, DrainsAreDrainers,
       DrainersOnlyDrain, Holds, BoundToDrain, PastPops, Announcing, Agents, Free
  <2>4. QED
    BY <1>1, <2>1, <2>2, <2>3 DEF ClientStep
<1>2. ASSUME NEW a \in Agents, WriterStep(a) PROVE Announced'
  <2>1. CASE TryPush(a)
    BY <2>1 DEF TryPush, Words, Control, Announced, OneOwner, DrainsAreDrainers,
       DrainersOnlyDrain, Holds, BoundToDrain, PastPops, Announcing, Agents, Free
  <2>2. CASE PushFull(a)
    BY <2>2 DEF PushFull, Words, Control, Announced, OneOwner, DrainsAreDrainers,
       DrainersOnlyDrain, Holds, BoundToDrain, PastPops, Announcing, Agents, Free
  <2>3. CASE AssistDrain(a)
    BY <2>3 DEF AssistDrain, Words, Control, Announced, OneOwner, DrainsAreDrainers,
       DrainersOnlyDrain, Holds, BoundToDrain, PastPops, Announcing, Agents, Free
  <2>4. CASE ScheduleAfterWrite(a)
    BY <2>4 DEF ScheduleAfterWrite, Words, Control, Announced, OneOwner,
       DrainsAreDrainers, DrainersOnlyDrain, Holds, BoundToDrain, PastPops, Announcing,
       Agents, Free
  <2>5. CASE CasRequired(a) \/ CasProcessing(a)
    BY <2>5 DEF CasRequired, CasProcessing, Words, Control, Announced, OneOwner,
       DrainsAreDrainers, DrainersOnlyDrain, Holds, BoundToDrain, PastPops, Announcing,
       Agents, Free
  <2>6. QED
    BY <1>2, <2>1, <2>2, <2>3, <2>4, <2>5 DEF WriterStep
<1>3. ASSUME NEW a \in Agents, SchedulerStep(a) PROVE Announced'
  <2>1. CASE ScheduleDrainBuffers(a)
    BY <2>1 DEF ScheduleDrainBuffers, Words, Control, Announced, OneOwner,
       DrainsAreDrainers, DrainersOnlyDrain, Holds, BoundToDrain, PastPops, Announcing,
       Agents, Free
  <2>2. CASE TryLock(a)
    <3>1. /\ UNCHANGED <<drainStatus, writeBuffer>>
          /\ pc[a] = "tryLock"
          /\ UNCHANGED op \/ op' = [op EXCEPT ![a] = "none"]
          /\ \E l \in {"off", "afterWriteTask", "recheck"} : pc' = [pc EXCEPT ![a] = l]
      BY <2>2 DEF TryLock, Control
    <3>2. QED
      BY <3>1 DEF Control, Announced, BoundToDrain, PastPops, Announcing
  <2>3. CASE Recheck(a)
    BY <2>3 DEF Recheck, Words, Control, Announced, OneOwner, DrainsAreDrainers,
       DrainersOnlyDrain, Holds, BoundToDrain, PastPops, Announcing, Agents, Free
  <2>4. CASE StoreProcessing(a)
    BY <2>4 DEF StoreProcessing, Words, Control, Announced, OneOwner, DrainsAreDrainers,
       DrainersOnlyDrain, Holds, BoundToDrain, PastPops, Announcing, Agents, Free
  <2>5. CASE Execute(a)
    BY ZenonT(40), <2>5 DEF Execute, Words, Control, Announced, OneOwner, DrainsAreDrainers,
       DrainersOnlyDrain, Holds, BoundToDrain, PastPops, Announcing, Agents, Free
  <2>6. CASE CallerRunsReturn(a)
    BY <2>6 DEF CallerRunsReturn, Words, Control, Announced, OneOwner,
       DrainsAreDrainers, DrainersOnlyDrain, Holds, BoundToDrain, PastPops, Announcing,
       Agents, Free
  <2>7. CASE Token(a) \/ UnlockScheduler(a)
    BY <2>7 DEF Token, UnlockScheduler, Words, Control, Announced, OneOwner,
       DrainsAreDrainers, DrainersOnlyDrain, Holds, BoundToDrain, PastPops, Announcing,
       Agents, Free
  <2>8. QED
    BY <1>3, <2>1, <2>2, <2>3, <2>4, <2>5, <2>6, <2>7 DEF SchedulerStep
<1>4. ASSUME NEW a \in Agents, LockStep(a) PROVE Announced'
  <2>1. CASE DrainBuffers(a) \/ DrainToken(a) \/ Lock(a) \/ CheckRequired(a)
    BY <2>1 DEF DrainBuffers, DrainToken, Lock, CheckRequired, Words, Control,
       Announced, OneOwner, DrainsAreDrainers, DrainersOnlyDrain, Holds, BoundToDrain,
       PastPops, Announcing, Agents, Free
  <2>2. CASE Discard(a) \/ Unlock(a) \/ InvalidateRest(a) \/
           RescheduleCleanUpIfIncomplete(a)
    BY <2>2 DEF Discard, Unlock, InvalidateRest, RescheduleCleanUpIfIncomplete, Words,
       Control, Announced, OneOwner, DrainsAreDrainers, DrainersOnlyDrain, Holds,
       BoundToDrain, PastPops, Announcing, Agents, Free
  <2>3. QED
    BY <1>4, <2>1, <2>2 DEF LockStep
<1>5. ASSUME NEW a \in Agents, MaintenanceStep(a) PROVE Announced'
  <2>1. CASE Maintenance(a) \/ DrainWriteBuffer(a) \/ StoreOverflow(a) \/ RunTask(a)
    BY <2>1 DEF Maintenance, DrainWriteBuffer, StoreOverflow, RunTask, Carries, Words,
       Control, Announced, OneOwner, DrainsAreDrainers, DrainersOnlyDrain, Holds,
       BoundToDrain, PastPops, Announcing, Agents, Free
  <2>2. CASE Finish(a) \/ StoreRequired(a)
    BY <2>2 DEF Finish, StoreRequired, Words, Control, Announced, OneOwner,
       DrainsAreDrainers, DrainersOnlyDrain, Holds, BoundToDrain, PastPops, Announcing,
       Agents, Free
  <2>3. QED
    BY <1>5, <2>1, <2>2 DEF MaintenanceStep
<1>6. CASE Terminating \/ UNCHANGED vars
  BY <1>6 DEF Terminating, vars, Words, Control, Announced, OneOwner, DrainsAreDrainers,
     DrainersOnlyDrain, Holds, BoundToDrain, PastPops, Announcing, Agents, Free
<1>7. QED
  BY <1>1, <1>2, <1>3, <1>4, <1>5, <1>6 DEF Next, AgentStep

\* A step preserves UnlockLeavesDrain.
LEMMA UnlockLeavesDrainStep ==
    ASSUME Words, Control, UnlockLeavesDrain, OneOwner, ProcessingAttended,
           DrainsAreDrainers, DrainersOnlyDrain, UndecidedIsStarting, ChildWhileWaiting,
           [Next]_vars PROVE UnlockLeavesDrain'
<1>1. ASSUME NEW c \in Clients, ClientStep(c) PROVE UnlockLeavesDrain'
  BY <1>1 DEF ClientStep, Write, Read, LockingOp, Words, Control, UnlockLeavesDrain,
     OneOwner, ProcessingAttended, DrainsAreDrainers, DrainersOnlyDrain,
     UndecidedIsStarting, ChildWhileWaiting, Holds, BoundToDrain, Agents, Free
<1>2. ASSUME NEW a \in Agents, WriterStep(a) PROVE UnlockLeavesDrain'
  <2>1. CASE TryPush(a) \/ PushFull(a) \/ AssistDrain(a) \/ ScheduleAfterWrite(a)
    BY SMTT(30), <2>1 DEF TryPush, PushFull, AssistDrain, ScheduleAfterWrite, Words, Control,
       UnlockLeavesDrain, OneOwner, ProcessingAttended, DrainsAreDrainers,
       DrainersOnlyDrain, UndecidedIsStarting, ChildWhileWaiting, Holds, BoundToDrain,
       Agents, Free
  <2>2. CASE CasRequired(a) \/ CasProcessing(a)
    BY <2>2 DEF CasRequired, CasProcessing, Words, Control, UnlockLeavesDrain, OneOwner,
       ProcessingAttended, DrainsAreDrainers, DrainersOnlyDrain, UndecidedIsStarting,
       ChildWhileWaiting, Holds, BoundToDrain, Agents, Free
  <2>3. QED
    BY <1>2, <2>1, <2>2 DEF WriterStep
<1>3. ASSUME NEW a \in Agents, SchedulerStep(a) PROVE UnlockLeavesDrain'
  <2>1. CASE ScheduleDrainBuffers(a) \/ TryLock(a) \/ Recheck(a) \/ StoreProcessing(a)
    BY <2>1 DEF ScheduleDrainBuffers, TryLock, Recheck, StoreProcessing, Words, Control,
       UnlockLeavesDrain, OneOwner, ProcessingAttended, DrainsAreDrainers,
       DrainersOnlyDrain, UndecidedIsStarting, ChildWhileWaiting, Holds, BoundToDrain,
       Agents, Free
  <2>2. CASE Execute(a) \/ CallerRunsReturn(a) \/ Token(a) \/ UnlockScheduler(a)
    BY <2>2 DEF Execute, CallerRunsReturn, Token, UnlockScheduler, Words, Control,
       UnlockLeavesDrain, OneOwner, ProcessingAttended, DrainsAreDrainers,
       DrainersOnlyDrain, UndecidedIsStarting, ChildWhileWaiting, Holds, BoundToDrain,
       Agents, Free
  <2>3. QED
    BY <1>3, <2>1, <2>2 DEF SchedulerStep
<1>4. ASSUME NEW a \in Agents, LockStep(a) PROVE UnlockLeavesDrain'
  <2>1. CASE DrainBuffers(a) \/ DrainToken(a) \/ Lock(a) \/ CheckRequired(a)
    BY <2>1 DEF DrainBuffers, DrainToken, Lock, CheckRequired, Words, Control,
       UnlockLeavesDrain, OneOwner, ProcessingAttended, DrainsAreDrainers,
       DrainersOnlyDrain, UndecidedIsStarting, ChildWhileWaiting, Holds, BoundToDrain,
       Agents, Free
  <2>2. CASE Discard(a)
    BY <2>2 DEF Discard, Words, Control, UnlockLeavesDrain, OneOwner,
       ProcessingAttended, DrainsAreDrainers, DrainersOnlyDrain, UndecidedIsStarting,
       ChildWhileWaiting, Holds, BoundToDrain, Agents, Free
  <2>3. CASE Unlock(a)
    BY <2>3 DEF Unlock, Words, Control, UnlockLeavesDrain, OneOwner, ProcessingAttended,
       DrainsAreDrainers, DrainersOnlyDrain, UndecidedIsStarting, ChildWhileWaiting,
       Holds, BoundToDrain, Agents, Free
  <2>4. CASE InvalidateRest(a)
    BY <2>4 DEF InvalidateRest, Words, Control, UnlockLeavesDrain, OneOwner,
       ProcessingAttended, DrainsAreDrainers, DrainersOnlyDrain, UndecidedIsStarting,
       ChildWhileWaiting, Holds, BoundToDrain, Agents, Free
  <2>5. CASE RescheduleCleanUpIfIncomplete(a)
    BY <2>5 DEF RescheduleCleanUpIfIncomplete, Words, Control, UnlockLeavesDrain,
       OneOwner, ProcessingAttended, DrainsAreDrainers, DrainersOnlyDrain,
       UndecidedIsStarting, ChildWhileWaiting, Holds, BoundToDrain, Agents, Free
  <2>6. QED
    BY <1>4, <2>1, <2>2, <2>3, <2>4, <2>5 DEF LockStep
<1>5. ASSUME NEW a \in Agents, MaintenanceStep(a) PROVE UnlockLeavesDrain'
  BY <1>5 DEF MaintenanceStep, Maintenance, DrainWriteBuffer, StoreOverflow, RunTask,
     Carries, Finish, StoreRequired, Words, Control, UnlockLeavesDrain, OneOwner,
     ProcessingAttended, DrainsAreDrainers, DrainersOnlyDrain, UndecidedIsStarting,
     ChildWhileWaiting, Holds, BoundToDrain, Agents, Free
<1>6. CASE Terminating \/ UNCHANGED vars
  BY <1>6 DEF Terminating, vars, Words, Control, UnlockLeavesDrain, OneOwner,
     ProcessingAttended, DrainsAreDrainers, DrainersOnlyDrain, UndecidedIsStarting,
     ChildWhileWaiting, Holds, BoundToDrain, Agents, Free
<1>7. QED
  BY <1>1, <1>2, <1>3, <1>4, <1>5, <1>6 DEF Next, AgentStep

\* A step preserves Buffer.
LEMMA BufferStep ==
    ASSUME Buffer, WritersAreClients, [Next]_vars PROVE Buffer'
<1>1. ASSUME NEW c \in Clients, ClientStep(c) PROVE Buffer'
  BY <1>1 DEF ClientStep, Write, Read, LockingOp, Buffer, WritersAreClients, Agents
<1>2. ASSUME NEW a \in Agents, WriterStep(a) PROVE Buffer'
  <2>1. CASE TryPush(a) \/ PushFull(a) \/ AssistDrain(a) \/ ScheduleAfterWrite(a)
    BY <2>1 DEF TryPush, PushFull, AssistDrain, ScheduleAfterWrite, Buffer,
       WritersAreClients, Agents
  <2>2. CASE CasRequired(a) \/ CasProcessing(a)
    BY <2>2 DEF CasRequired, CasProcessing, Buffer, WritersAreClients, Agents
  <2>3. QED
    BY <1>2, <2>1, <2>2 DEF WriterStep
<1>3. ASSUME NEW a \in Agents, SchedulerStep(a) PROVE Buffer'
  BY <1>3 DEF SchedulerStep, ScheduleDrainBuffers, TryLock, Recheck, StoreProcessing,
     Execute, CallerRunsReturn, Token, UnlockScheduler, Buffer, WritersAreClients,
     Agents
<1>4. ASSUME NEW a \in Agents, LockStep(a) PROVE Buffer'
  <2>1. CASE DrainBuffers(a) \/ DrainToken(a) \/ Lock(a) \/ CheckRequired(a)
    BY SMTT(30), <2>1 DEF DrainBuffers, DrainToken, Lock, CheckRequired, Buffer,
       WritersAreClients, Agents
  <2>2. CASE Discard(a)
    <3>1. CASE writeBuffer # <<>>
      <4>1. /\ writeBuffer' \in Seq(Clients)
            /\ Len(writeBuffer') = Len(writeBuffer) - 1
            /\ pops' = pops
        BY <2>2, <3>1, QueuedTask DEF Discard
      <4>2. QED
        BY <4>1 DEF Buffer
    <3>2. CASE writeBuffer = <<>>
      BY <2>2, <3>2 DEF Discard, Buffer
    <3>3. QED
      BY <3>1, <3>2
  <2>3. CASE Unlock(a) \/ InvalidateRest(a) \/ RescheduleCleanUpIfIncomplete(a)
    BY <2>3 DEF Unlock, InvalidateRest, RescheduleCleanUpIfIncomplete, Buffer,
       WritersAreClients, Agents
  <2>4. QED
    BY <1>4, <2>1, <2>2, <2>3 DEF LockStep
<1>5. ASSUME NEW a \in Agents, MaintenanceStep(a) PROVE Buffer'
  <2>1. CASE Maintenance(a)
    BY <2>1 DEF Maintenance, Buffer, WritersAreClients, Agents
  <2>2. CASE DrainWriteBuffer(a)
    <3>1. CASE pops <= WriteCap /\ writeBuffer # <<>>
      <4>1. writeBuffer' = Tail(writeBuffer) /\ pops' = pops + 1
        BY <2>2, <3>1 DEF DrainWriteBuffer, Buffer
      <4>2. writeBuffer' \in Seq(Clients) /\ Len(writeBuffer') = Len(writeBuffer) - 1
        BY <3>1, <4>1, QueuedTask
      <4>3. QED
        BY <3>1, <4>1, <4>2 DEF Buffer
    <3>2. CASE ~(pops <= WriteCap /\ writeBuffer # <<>>)
      <4>1. pops' = 0 /\ writeBuffer' = writeBuffer
        BY <2>2, <3>2 DEF DrainWriteBuffer, Buffer
      <4>2. QED
        BY <4>1 DEF Buffer
    <3>3. QED
      BY <3>1, <3>2
  <2>3. CASE StoreOverflow(a) \/ RunTask(a) \/ Finish(a) \/ StoreRequired(a)
    BY <2>3 DEF StoreOverflow, RunTask, Carries, Finish, StoreRequired, Buffer,
       WritersAreClients, Agents
  <2>4. QED
    BY <1>5, <2>1, <2>2, <2>3 DEF MaintenanceStep
<1>6. CASE Terminating \/ UNCHANGED vars
  BY <1>6 DEF Terminating, vars, Buffer, WritersAreClients, Agents
<1>7. QED
  BY <1>1, <1>2, <1>3, <1>4, <1>5, <1>6 DEF Next, AgentStep

\* A step preserves Counters.
LEMMA CountersStep ==
    ASSUME Counters, Buffer, Control, DrainersOnlyDrain, [Next]_vars PROVE Counters'
<1>1. ASSUME NEW c \in Clients, ClientStep(c) PROVE Counters'
  <2>1. CASE Write(c)
    BY SMTT(30), <2>1 DEF Write, Counters, Buffer, Control, DrainersOnlyDrain, Agents
  <2>2. CASE Read(c)
    BY <2>2 DEF Read, Counters, Buffer, Control, DrainersOnlyDrain, Agents
  <2>3. CASE LockingOp(c)
    BY <2>3 DEF LockingOp, Counters, Buffer, Control, DrainersOnlyDrain, Agents
  <2>4. QED
    BY <1>1, <2>1, <2>2, <2>3 DEF ClientStep
<1>2. ASSUME NEW a \in Agents, WriterStep(a) PROVE Counters'
  <2>1. CASE TryPush(a) \/ PushFull(a) \/ AssistDrain(a) \/ ScheduleAfterWrite(a)
    BY <2>1 DEF TryPush, PushFull, AssistDrain, ScheduleAfterWrite, Counters, Buffer,
       Control, DrainersOnlyDrain, Agents
  <2>2. CASE CasRequired(a) \/ CasProcessing(a)
    BY <2>2 DEF CasRequired, CasProcessing, Counters, Buffer, Control,
       DrainersOnlyDrain, Agents
  <2>3. QED
    BY <1>2, <2>1, <2>2 DEF WriterStep
<1>3. ASSUME NEW a \in Agents, SchedulerStep(a) PROVE Counters'
  BY <1>3 DEF SchedulerStep, ScheduleDrainBuffers, TryLock, Recheck, StoreProcessing,
     Execute, CallerRunsReturn, Token, UnlockScheduler, Counters, Buffer, Control,
     DrainersOnlyDrain, Agents
<1>4. ASSUME NEW a \in Agents, LockStep(a) PROVE Counters'
  <2>1. CASE DrainBuffers(a) \/ DrainToken(a) \/ Lock(a) \/ CheckRequired(a)
    BY <2>1 DEF DrainBuffers, DrainToken, Lock, CheckRequired, Counters, Buffer,
       Control, DrainersOnlyDrain, Agents
  <2>2. CASE Discard(a)
    <3>1. UNCHANGED <<started, issued>>
      BY <2>2 DEF Discard
    <3>2. \/ UNCHANGED done
          \/ writeBuffer # <<>> /\ done' = [done EXCEPT ![Head(writeBuffer)] = @ + 1]
      BY <2>2 DEF Discard
    <3>3. writeBuffer # <<>> => Head(writeBuffer) \in Clients
      BY QueuedTask
    <3>4. QED
      BY <3>1, <3>2, <3>3 DEF Counters
  <2>3. CASE Unlock(a)
    BY <2>3 DEF Unlock, Counters, Buffer, Control, DrainersOnlyDrain, Agents
  <2>4. CASE InvalidateRest(a)
    <3>1. a \in Clients
      BY <2>4 DEF InvalidateRest, Agents, DrainersOnlyDrain
    <3>2. QED
      BY <2>4, <3>1 DEF InvalidateRest, Counters
  <2>5. CASE RescheduleCleanUpIfIncomplete(a)
    BY <2>5 DEF RescheduleCleanUpIfIncomplete, Counters, Buffer, Control,
       DrainersOnlyDrain, Agents
  <2>6. QED
    BY <1>4, <2>1, <2>2, <2>3, <2>4, <2>5 DEF LockStep
<1>5. ASSUME NEW a \in Agents, MaintenanceStep(a) PROVE Counters'
  <2>1. CASE Maintenance(a)
    BY <2>1 DEF Maintenance, Counters, Buffer, Control, DrainersOnlyDrain, Agents
  <2>2. CASE DrainWriteBuffer(a)
    <3>1. UNCHANGED <<started, issued>>
      BY <2>2 DEF DrainWriteBuffer
    <3>2. \/ UNCHANGED done
          \/ writeBuffer # <<>> /\ done' = [done EXCEPT ![Head(writeBuffer)] = @ + 1]
      BY <2>2 DEF DrainWriteBuffer
    <3>3. writeBuffer # <<>> => Head(writeBuffer) \in Clients
      BY QueuedTask
    <3>4. QED
      BY <3>1, <3>2, <3>3 DEF Counters
  <2>3. CASE StoreOverflow(a) \/ RunTask(a) \/ Finish(a) \/ StoreRequired(a)
    BY SMTT(30), <2>3 DEF StoreOverflow, RunTask, Carries, Finish, StoreRequired, Counters,
       Buffer, Control, DrainersOnlyDrain, Agents
  <2>4. QED
    BY <1>5, <2>1, <2>2, <2>3 DEF MaintenanceStep
<1>6. CASE Terminating \/ UNCHANGED vars
  BY <1>6 DEF Terminating, vars, Counters, Buffer, Control, DrainersOnlyDrain, Agents
<1>7. QED
  BY <1>1, <1>2, <1>3, <1>4, <1>5, <1>6 DEF Next, AgentStep

\* A step preserves NoSilentUnlock.
LEMMA NoSilentUnlockStep ==
    ASSUME Ops \cap {"order", "invalidateAll"} = {}, Control, NoSilentUnlock,
           [Next]_vars PROVE NoSilentUnlock'
<1>1. ASSUME NEW c \in Clients, ClientStep(c) PROVE NoSilentUnlock'
  BY <1>1 DEF ClientStep, Write, Read, LockingOp, Control, NoSilentUnlock, Agents
<1>2. ASSUME NEW a \in Agents, WriterStep(a) PROVE NoSilentUnlock'
  BY <1>2 DEF WriterStep, TryPush, PushFull, AssistDrain, ScheduleAfterWrite,
     CasRequired, CasProcessing, Control, NoSilentUnlock, Agents
<1>3. ASSUME NEW a \in Agents, SchedulerStep(a) PROVE NoSilentUnlock'
  BY <1>3 DEF SchedulerStep, ScheduleDrainBuffers, TryLock, Recheck, StoreProcessing,
     Execute, CallerRunsReturn, Token, UnlockScheduler, Control, NoSilentUnlock, Agents
<1>4. ASSUME NEW a \in Agents, LockStep(a) PROVE NoSilentUnlock'
  BY <1>4 DEF LockStep, DrainBuffers, DrainToken, Lock, CheckRequired, Discard, Unlock,
     InvalidateRest, RescheduleCleanUpIfIncomplete, Control, NoSilentUnlock, Agents
<1>5. ASSUME NEW a \in Agents, MaintenanceStep(a) PROVE NoSilentUnlock'
  BY <1>5 DEF MaintenanceStep, Maintenance, DrainWriteBuffer, StoreOverflow, RunTask,
     Carries, Finish, StoreRequired, Control, NoSilentUnlock, Agents
<1>6. CASE Terminating \/ UNCHANGED vars
  BY <1>6 DEF Terminating, vars, Control, NoSilentUnlock, Agents
<1>7. QED
  BY <1>1, <1>2, <1>3, <1>4, <1>5, <1>6 DEF Next, AgentStep

\* A step preserves RequiredAttended.
LEMMA RequiredAttendedStep ==
    ASSUME HasDefaultExecutor, Words, Control, RequiredAttended, NoSilentUnlock,
           LockedIsOwned, UnlockLeavesDrain, UndecidedIsStarting, ChildWhileWaiting,
           DrainsAreDrainers, DrainersOnlyDrain, [Next]_vars PROVE RequiredAttended'
<1>1. ASSUME NEW c \in Clients, ClientStep(c) PROVE RequiredAttended'
  BY <1>1 DEF ClientStep, Write, Read, LockingOp, Words, Control, RequiredAttended,
     NoSilentUnlock, LockedIsOwned, UnlockLeavesDrain, UndecidedIsStarting,
     ChildWhileWaiting, DrainsAreDrainers, DrainersOnlyDrain, Attending, Holds,
     BoundToDrain, Agents, Free
<1>2. ASSUME NEW a \in Agents, WriterStep(a) PROVE RequiredAttended'
  <2>1. CASE TryPush(a) \/ PushFull(a) \/ AssistDrain(a) \/ ScheduleAfterWrite(a)
    BY <2>1 DEF TryPush, PushFull, AssistDrain, ScheduleAfterWrite, Words, Control,
       RequiredAttended, NoSilentUnlock, LockedIsOwned, UnlockLeavesDrain,
       UndecidedIsStarting, ChildWhileWaiting, DrainsAreDrainers, DrainersOnlyDrain,
       Attending, Holds, BoundToDrain, Agents, Free
  <2>2. CASE CasRequired(a) \/ CasProcessing(a)
    BY <2>2 DEF CasRequired, CasProcessing, Words, Control, RequiredAttended,
       NoSilentUnlock, LockedIsOwned, UnlockLeavesDrain, UndecidedIsStarting,
       ChildWhileWaiting, DrainsAreDrainers, DrainersOnlyDrain, Attending, Holds,
       BoundToDrain, Agents, Free
  <2>3. QED
    BY <1>2, <2>1, <2>2 DEF WriterStep
<1>3. ASSUME NEW a \in Agents, SchedulerStep(a) PROVE RequiredAttended'
  <2>1. CASE ScheduleDrainBuffers(a) \/ TryLock(a) \/ Recheck(a) \/ StoreProcessing(a)
    BY <2>1 DEF ScheduleDrainBuffers, TryLock, Recheck, StoreProcessing, Words, Control,
       RequiredAttended, NoSilentUnlock, LockedIsOwned, UnlockLeavesDrain,
       UndecidedIsStarting, ChildWhileWaiting, DrainsAreDrainers, DrainersOnlyDrain,
       Attending, Holds, BoundToDrain, Agents, Free
  <2>2. CASE Execute(a) \/ CallerRunsReturn(a) \/ Token(a) \/ UnlockScheduler(a)
    BY <2>2 DEF Execute, CallerRunsReturn, Token, UnlockScheduler, Words, Control,
       RequiredAttended, NoSilentUnlock, LockedIsOwned, UnlockLeavesDrain,
       UndecidedIsStarting, ChildWhileWaiting, DrainsAreDrainers, DrainersOnlyDrain,
       Attending, Holds, BoundToDrain, Agents, Free
  <2>3. QED
    BY <1>3, <2>1, <2>2 DEF SchedulerStep
<1>4. ASSUME NEW a \in Agents, LockStep(a) PROVE RequiredAttended'
  <2>1. CASE DrainBuffers(a) \/ DrainToken(a) \/ Lock(a) \/ CheckRequired(a)
    BY <2>1 DEF DrainBuffers, DrainToken, Lock, CheckRequired, Words, Control,
       RequiredAttended, NoSilentUnlock, LockedIsOwned, UnlockLeavesDrain,
       UndecidedIsStarting, ChildWhileWaiting, DrainsAreDrainers, DrainersOnlyDrain,
       Attending, Holds, BoundToDrain, Agents, Free
  <2>2. CASE Discard(a) \/ Unlock(a) \/ InvalidateRest(a) \/
           RescheduleCleanUpIfIncomplete(a)
    BY <2>2 DEF Discard, Unlock, InvalidateRest, RescheduleCleanUpIfIncomplete, Words,
       Control, RequiredAttended, NoSilentUnlock, LockedIsOwned, UnlockLeavesDrain,
       UndecidedIsStarting, ChildWhileWaiting, DrainsAreDrainers, DrainersOnlyDrain,
       Attending, Holds, BoundToDrain, Agents, Free
  <2>3. QED
    BY <1>4, <2>1, <2>2 DEF LockStep
<1>5. ASSUME NEW a \in Agents, MaintenanceStep(a) PROVE RequiredAttended'
  BY <1>5 DEF MaintenanceStep, Maintenance, DrainWriteBuffer, StoreOverflow, RunTask,
     Carries, Finish, StoreRequired, Words, Control, RequiredAttended, NoSilentUnlock,
     LockedIsOwned, UnlockLeavesDrain, UndecidedIsStarting, ChildWhileWaiting,
     DrainsAreDrainers, DrainersOnlyDrain, Attending, Holds, BoundToDrain, Agents, Free
<1>6. CASE Terminating \/ UNCHANGED vars
  BY <1>6 DEF Terminating, vars, Words, Control, RequiredAttended, NoSilentUnlock,
     LockedIsOwned, UnlockLeavesDrain, UndecidedIsStarting, ChildWhileWaiting,
     DrainsAreDrainers, DrainersOnlyDrain, Attending, Holds, BoundToDrain, Agents, Free
<1>7. QED
  BY <1>1, <1>2, <1>3, <1>4, <1>5, <1>6 DEF Next, AgentStep

--------------------------------------------------------------------------------
(* The theorems *)

IInv ==
    /\ Words
    /\ Control
    /\ Buffer
    /\ Counters
    /\ WritersAreClients
    /\ DrainersOnlyDrain
    /\ DrainsAreDrainers
    /\ ChildWhileWaiting
    /\ ChildUnique
    /\ UndecidedHasScheduler
    /\ UndecidedIsStarting
    /\ OneOwner
    /\ LockedIsOwned
    /\ ProcessingAttended
    /\ Announced
    /\ UnlockLeavesDrain

\* The two parts that need the default executor and no silent unlock.
WakeupInv == IInv /\ NoSilentUnlock /\ RequiredAttended

\* The invariant holds initially.
LEMMA InitIInv == Init => IInv
<1> SUFFICES ASSUME Init PROVE IInv
  OBVIOUS
<1>1. Words /\ Control /\ Buffer /\ Counters
  <2>1. Words
    <3>1. drainStatus \in Idle..ProcessingToRequired
      BY DEF Init
    <3>2. locked \in BOOLEAN
      BY DEF Init
    <3>3. QED
      BY <3>1, <3>2 DEF Words
  <2>2. Control
    BY DEF Init, Control, Agents, PCs, OpNames
  <2>3. Buffer
    BY DEF Init, Buffer
  <2>4. Counters
    BY DEF Init, Counters
  <2>5. QED
    BY <2>1, <2>2, <2>3, <2>4
<1>2. WritersAreClients /\ DrainersOnlyDrain /\ DrainsAreDrainers /\ UnlockLeavesDrain
  BY DEF Init, WritersAreClients, DrainersOnlyDrain, DrainsAreDrainers, UnlockLeavesDrain,
         Agents
<1>3. ChildWhileWaiting /\ ChildUnique /\ UndecidedHasScheduler /\ UndecidedIsStarting
  BY DEF Init, ChildWhileWaiting, ChildUnique, UndecidedHasScheduler, UndecidedIsStarting,
         Agents
<1>4. OneOwner /\ LockedIsOwned
  BY DEF Init, OneOwner, LockedIsOwned, Holds
<1>5. ProcessingAttended /\ Announced
  BY DEF Init, ProcessingAttended, Announced
<1>6. QED
  BY <1>1, <1>2, <1>3, <1>4, <1>5 DEF IInv

\* Every step preserves it.
LEMMA StepIInv == IInv /\ [Next]_vars => IInv'
BY WordsStep, ControlStep, BufferStep, CountersStep, WritersAreClientsStep,
   DrainersOnlyDrainStep, DrainsAreDrainersStep, ChildWhileWaitingStep, ChildUniqueStep,
   UndecidedHasSchedulerStep, UndecidedIsStartingStep, OneOwnerStep, LockedIsOwnedStep,
   ProcessingAttendedStep, AnnouncedStep, UnlockLeavesDrainStep DEF IInv

\* So it always holds.
LEMMA InductiveIInv == Spec => []IInv
BY InitIInv, StepIInv, PTL DEF Spec

\* Every variable stays in its range: the write buffer within its capacity, the
\* pop loop of drainWriteBuffer within WriteCap + 1 iterations.
THEOREM TypeCorrect == Spec => []TypeOK
<1>1. IInv => TypeOK
  BY DEF IInv, Words, Control, Buffer, Counters, TypeOK
<1>2. QED
  BY <1>1, InductiveIInv, PTL

\* The eviction mutex always has exactly one owner while it is locked, across
\* the token hand-over of scheduleDrainBuffers and drainBuffers.
THEOREM MutualExclusion == Spec => []MutexHandOver
<1>1. IInv => MutexHandOver
  BY DEF IInv, OneOwner, LockedIsOwned, MutexHandOver
<1>2. QED
  BY <1>1, InductiveIInv, PTL

\* A processing status always has an agent that will end it.
THEOREM NeverOrphaned == Spec => []ProcessingAttended
<1>1. IInv => ProcessingAttended
  BY DEF IInv
<1>2. QED
  BY <1>1, InductiveIInv, PTL

\* A queued task is always announced, with any executor and any operations.
THEOREM AlwaysAnnounced == Spec => []PendingAnnounced
<1>1. IInv => PendingAnnounced
  BY DEF IInv, Announced, PendingAnnounced, Announcing
<1>2. QED
  BY <1>1, InductiveIInv, PTL

\* The same for the parts with their own assumptions.
LEMMA InductiveWakeup ==
    ASSUME HasDefaultExecutor, Ops \cap {"order", "invalidateAll"} = {}
    PROVE  Spec => []WakeupInv
<1>1. Init => WakeupInv
  <2>1. Init => NoSilentUnlock /\ RequiredAttended
    BY DEF Init, NoSilentUnlock, RequiredAttended
  <2>2. QED
    BY <2>1, InitIInv DEF WakeupInv
<1>2. WakeupInv /\ [Next]_vars => WakeupInv'
  BY StepIInv, NoSilentUnlockStep, RequiredAttendedStep DEF WakeupInv, IInv
<1>3. QED
  BY <1>1, <1>2, PTL DEF Spec

\* No wake-up is lost: with the default executor, as long as neither Hottest,
\* Coldest nor InvalidateAll is called, the write buffer is empty whenever all
\* the goroutines have come to rest.
THEOREM NoLostWakeup ==
    ASSUME HasDefaultExecutor, Ops \cap {"order", "invalidateAll"} = {}
    PROVE  Spec => []QuiescentDrained
<1>1. WakeupInv => QuiescentDrained
  <2> SUFFICES ASSUME WakeupInv, Quiescent PROVE writeBuffer = <<>>
    BY DEF QuiescentDrained
  <2>1. drainStatus # Required
    BY DEF WakeupInv, RequiredAttended, Attending, BoundToDrain, Quiescent
  <2>2. drainStatus = Idle
    BY <2>1 DEF WakeupInv, IInv, Words, ProcessingAttended, BoundToDrain, Quiescent
  <2>3. QED
    BY <2>2 DEF WakeupInv, IInv, Announced, Announcing, Quiescent
<1>2. QED
  BY <1>1, InductiveWakeup, PTL

--------------------------------------------------------------------------------
(* Every task runs once *)

\* In these places an agent carries its task.
Carrying == {"afterWriteTask", "lock", "maintenance", "drainWriteBuffer", "storeOverflow", "runTask"}

\* In these it does so if it will return to the push loop.
Scheduling == {"scheduleDrainBuffers", "tryLock", "recheck", "storeProcessing", "execute",
               "callerRuns", "token", "unlockScheduler"}

\* Whoever has failed to push still has its task, and goes back to pushing it, or runs it.
TaskCarried ==
    \A a \in Agents :
        /\ pc[a] = "afterWriteTask" => op[a] = "write"
        /\ tries[a] > 0 => op[a] = "write" /\ pc[a] \in Scheduling \cup {"afterWriteTask"}
        /\ op[a] = "write" => pc[a] \in Carrying \/ (pc[a] \in Scheduling /\ tries[a] > 0)

\* A step preserves TaskCarried.
LEMMA TaskCarriedStep ==
    ASSUME Control, DrainersOnlyDrain, WritersAreClients, TaskCarried, [Next]_vars PROVE TaskCarried'
<1> USE DEF Carrying, Scheduling, TaskCarried
<1>1. ASSUME NEW c \in Clients, ClientStep(c) PROVE TaskCarried'
  <2>1. CASE Write(c)
    BY <2>1 DEF Write, Control, Agents
  <2>2. CASE Read(c)
    BY <2>2 DEF Read, Control, Agents
  <2>3. CASE LockingOp(c)
    BY <2>3 DEF LockingOp, Control, Agents
  <2>4. QED
    BY <1>1, <2>1, <2>2, <2>3 DEF ClientStep
<1>2. ASSUME NEW a \in Agents, WriterStep(a) PROVE TaskCarried'
  <2>1. CASE TryPush(a)
    BY <2>1 DEF TryPush, Control
  <2>2. CASE PushFull(a)
    BY <2>2 DEF PushFull, Control
  <2>3. CASE AssistDrain(a)
    BY <2>3 DEF AssistDrain, Control
  <2>4. CASE ScheduleAfterWrite(a) \/ CasRequired(a) \/ CasProcessing(a)
    BY <2>4 DEF ScheduleAfterWrite, CasRequired, CasProcessing, Control
  <2>5. QED
    BY <1>2, <2>1, <2>2, <2>3, <2>4 DEF WriterStep
<1>3. ASSUME NEW a \in Agents, SchedulerStep(a) PROVE TaskCarried'
  <2>1. CASE ScheduleDrainBuffers(a)
    BY <2>1 DEF ScheduleDrainBuffers, Control
  <2>2. CASE TryLock(a)
    BY <2>2 DEF TryLock, Control
  <2>3. CASE Recheck(a) \/ StoreProcessing(a) \/ CallerRunsReturn(a)
    BY <2>3 DEF Recheck, StoreProcessing, CallerRunsReturn, Control
  <2>4. CASE Execute(a)
    <3>1. PICK d \in Drainers :
             /\ Free(d)
             /\ op' = [op EXCEPT ![d] = "drain"]
             /\ pc' = [pc EXCEPT ![a] = IF CallerRuns THEN "callerRuns" ELSE "token",
                                 ![d] = "drainBuffers"]
      BY <2>4 DEF Execute
    <3>2. /\ pc[d] = "off" /\ pc[a] = "execute" /\ d # a /\ tries' = tries
          /\ tries[d] = 0 /\ d \in Agents
      BY <2>4, <3>1 DEF Execute, Free, DrainersOnlyDrain, Agents
    <3>3. /\ pc'[d] = "drainBuffers" /\ pc'[a] \in {"callerRuns", "token"}
          /\ op'[d] = "drain" /\ op'[a] = op[a]
          /\ \A b \in Agents : b # a /\ b # d => pc'[b] = pc[b] /\ op'[b] = op[b]
      BY <3>1, <3>2 DEF Control
    <3>4. QED
      BY <3>2, <3>3
  <2>5. CASE Token(a)
    BY <2>5 DEF Token, Control
  <2>6. CASE UnlockScheduler(a)
    BY <2>6 DEF UnlockScheduler, Control
  <2>7. QED
    BY <1>3, <2>1, <2>2, <2>3, <2>4, <2>5, <2>6 DEF SchedulerStep
<1>4. ASSUME NEW a \in Agents, LockStep(a) PROVE TaskCarried'
  <2>1. CASE DrainBuffers(a) \/ DrainToken(a) \/ CheckRequired(a)
    BY <2>1 DEF DrainBuffers, DrainToken, CheckRequired, Control
  <2>2. CASE Lock(a)
    BY <2>2 DEF Lock, Control
  <2>3. CASE Discard(a)
    BY <2>3 DEF Discard, Control
  <2>4. CASE Unlock(a) \/ RescheduleCleanUpIfIncomplete(a)
    BY <2>4 DEF Unlock, RescheduleCleanUpIfIncomplete, Control
  <2>5. CASE InvalidateRest(a)
    BY <2>5 DEF InvalidateRest, Control
  <2>6. QED
    BY <1>4, <2>1, <2>2, <2>3, <2>4, <2>5 DEF LockStep
<1>5. ASSUME NEW a \in Agents, MaintenanceStep(a) PROVE TaskCarried'
  <2>1. CASE Maintenance(a) \/ StoreOverflow(a) \/ Finish(a) \/ StoreRequired(a)
    BY <2>1 DEF Maintenance, StoreOverflow, Finish, StoreRequired, Control
  <2>2. CASE DrainWriteBuffer(a)
    BY <2>2 DEF DrainWriteBuffer, Control
  <2>3. CASE RunTask(a)
    BY <2>3 DEF RunTask, Carries, Control
  <2>4. QED
    BY <1>5, <2>1, <2>2, <2>3 DEF MaintenanceStep
<1>6. CASE Terminating \/ UNCHANGED vars
  BY <1>6 DEF Terminating, vars
<1>7. QED
  BY <1>1, <1>2, <1>3, <1>4, <1>5, <1>6 DEF Next, AgentStep

\* How often a client's name is in a buffer.
Places(s, c) == {i \in DOMAIN s : s[i] = c}

Queued(s, c) == Cardinality(Places(s, c))

\* The places of a sequence are finitely many.
LEMMA PlacesFinite ==
    ASSUME NEW s \in Seq(Clients), NEW c
    PROVE  IsFiniteSet(Places(s, c)) /\ Queued(s, c) \in Nat
<1>1. IsFiniteSet(1..Len(s)) /\ Places(s, c) \subseteq 1..Len(s)
  BY FS_Interval DEF Places
<1>2. QED
  BY <1>1, FS_Subset, FS_CardinalityType DEF Queued

\* Pushing a task queues one more of its client.
LEMMA QueuedAppend ==
    ASSUME NEW s \in Seq(Clients), NEW a \in Clients, NEW c \in Clients
    PROVE  Queued(Append(s, a), c) = Queued(s, c) + (IF a = c THEN 1 ELSE 0)
<1>1. /\ Len(s) \in Nat /\ DOMAIN Append(s, a) = 1..(Len(s) + 1) /\ DOMAIN s = 1..Len(s)
      /\ \A i \in 1..Len(s) : Append(s, a)[i] = s[i]
      /\ Append(s, a)[Len(s) + 1] = a
  OBVIOUS
<1>2. Len(s) + 1 \notin Places(s, c)
  BY <1>1 DEF Places
<1>3. CASE a = c
  <2>1. Places(Append(s, a), c) = Places(s, c) \cup {Len(s) + 1}
    BY <1>1, <1>3 DEF Places
  <2>2. QED
    BY <1>2, <1>3, <2>1, PlacesFinite, FS_AddElement DEF Queued
<1>4. CASE a # c
  <2>1. Places(Append(s, a), c) = Places(s, c)
    BY <1>1, <1>4 DEF Places
  <2>2. QED
    BY <1>4, <2>1, PlacesFinite DEF Queued
<1>5. QED
  BY <1>3, <1>4

\* Popping one takes it off.
LEMMA QueuedTail ==
    ASSUME NEW s \in Seq(Clients), s # <<>>, NEW c \in Clients
    PROVE  Queued(s, c) = Queued(Tail(s), c) + (IF Head(s) = c THEN 1 ELSE 0)
<1> DEFINE t == Tail(s)
           Shifted == {i \in 2..Len(s) : s[i] = c}
           f == [i \in Places(t, c) |-> i + 1]
<1>1. /\ t \in Seq(Clients) /\ Len(s) \in Nat \ {0} /\ Len(t) = Len(s) - 1
      /\ DOMAIN t = 1..Len(t) /\ DOMAIN s = 1..Len(s)
      /\ \A i \in 1..Len(t) : t[i] = s[i + 1]
      /\ Head(s) = s[1]
  BY HeadTailProperties
<1>2. f \in Bijection(Places(t, c), Shifted)
  <2>1. \A i \in Places(t, c) : i \in Int /\ i + 1 \in Shifted
    BY <1>1 DEF Places
  <2>2. f \in Injection(Places(t, c), Shifted)
    <3>1. f \in [Places(t, c) -> Shifted]
      BY <2>1
    <3>2. \A i, j \in Places(t, c) : f[i] = f[j] => i = j
      BY <2>1
    <3>3. QED
      BY <3>1, <3>2 DEF Injection, IsInjective
  <2>3. ASSUME NEW j \in Shifted PROVE \E i \in Places(t, c) : f[i] = j
    <3>1. j - 1 \in Places(t, c) /\ j \in Int
      BY <1>1 DEF Places
    <3>2. QED
      BY <3>1
  <2>4. QED
    BY <2>1, <2>2, <2>3 DEF Bijection, Surjection, Injection
<1> HIDE DEF f
<1>3. IsFiniteSet(Shifted) /\ Cardinality(Shifted) = Queued(t, c) /\ Queued(t, c) \in Nat
  <2>1. IsFiniteSet(Places(t, c)) /\ Queued(t, c) \in Nat
    BY <1>1, PlacesFinite
  <2>2. ExistsBijection(Places(t, c), Shifted)
    BY <1>2 DEF ExistsBijection
  <2>3. QED
    BY <2>1, <2>2, FS_Bijection DEF Queued
<1>4. CASE Head(s) = c
  <2>1. Places(s, c) = Shifted \cup {1} /\ 1 \notin Shifted
    BY <1>1, <1>4 DEF Places
  <2>2. QED
    <3> HIDE DEF Shifted, t
    <3>1. Cardinality(Shifted \cup {1}) = Cardinality(Shifted) + 1
      BY <1>3, <2>1, FS_AddElement
    <3>2. QED
      BY <1>3, <1>4, <2>1, <3>1 DEF Queued, t
<1>5. CASE Head(s) # c
  <2>1. Places(s, c) = Shifted
    BY <1>1, <1>5 DEF Places
  <2>2. QED
    BY <1>3, <1>5, <2>1 DEF Queued
<1>6. QED
  BY <1>4, <1>5

\* The task a client has in its hands, as a number.
InHand(c) == IF op[c] = "write" /\ pc[c] # "off" THEN 1 ELSE 0

\* A client makes a task, and has it in its hands.
Makes(a) ==
    /\ a \in Clients /\ InHand(a) = 0 /\ InHand(a)' = 1
    /\ \A c \in Clients : c # a => InHand(c)' = InHand(c)
    /\ issued' = [issued EXCEPT ![a] = @ + 1]
    /\ UNCHANGED <<writeBuffer, done>>

\* It pushes the task.
Pushes(a) ==
    /\ a \in Clients /\ InHand(a) = 1 /\ InHand(a)' = 0
    /\ \A c \in Clients : c # a => InHand(c)' = InHand(c)
    /\ writeBuffer' = Append(writeBuffer, a)
    /\ UNCHANGED <<issued, done>>

\* It runs the task.
Runs(a) ==
    /\ a \in Clients /\ InHand(a) = 1 /\ InHand(a)' = 0
    /\ \A c \in Clients : c # a => InHand(c)' = InHand(c)
    /\ done' = [done EXCEPT ![a] = @ + 1]
    /\ UNCHANGED <<issued, writeBuffer>>

\* Somebody pops the oldest task and runs it.
Pops ==
    /\ \A c \in Clients : InHand(c)' = InHand(c)
    /\ writeBuffer # <<>>
    /\ done' = [done EXCEPT ![Head(writeBuffer)] = @ + 1]
    /\ writeBuffer' = Tail(writeBuffer)
    /\ UNCHANGED issued

\* All tasks stay where they are.
TasksStay ==
    /\ \A c \in Clients : InHand(c)' = InHand(c)
    /\ UNCHANGED <<issued, writeBuffer, done>>

TaskStep == TasksStay \/ Pops \/ \E a \in Clients : Makes(a) \/ Pushes(a) \/ Runs(a)

\* Every step does one of these.
LEMMA TaskEffect ==
    ASSUME Control, DrainersOnlyDrain, WritersAreClients, TaskCarried, [Next]_vars PROVE TaskStep
<1> USE DEF TaskStep, InHand, Agents
<1>1. ASSUME NEW c \in Clients, ClientStep(c) PROVE TaskStep
  <2>1. CASE Write(c)
    <3>1. Makes(c)
      BY <2>1 DEF Write, Makes, Control
    <3>2. QED
      BY <3>1
  <2>2. CASE Read(c) \/ LockingOp(c)
    <3>1. pc[c] = "off" /\ UNCHANGED <<issued, writeBuffer, done>>
      BY <2>2 DEF Read, LockingOp
    <3>2. \A b \in Clients : InHand(b)' = InHand(b)
      BY <2>2, <3>1 DEF Read, LockingOp, Control
    <3>3. QED
      BY <3>1, <3>2 DEF TasksStay
  <2>3. QED
    BY <1>1, <2>1, <2>2 DEF ClientStep
<1>2. ASSUME NEW a \in Agents, WriterStep(a) PROVE TaskStep
  <2>1. CASE TryPush(a)
    <3>1. a \in Clients /\ op[a] = "write" /\ pc[a] = "afterWriteTask"
      BY <2>1 DEF TryPush, WritersAreClients, TaskCarried
    <3>2. Pushes(a)
      BY <2>1, <3>1 DEF TryPush, Pushes, Control
    <3>3. QED
      BY <3>1, <3>2
  <2>2. CASE PushFull(a) \/ AssistDrain(a) \/ CasRequired(a)
    <3>1. TasksStay
      BY <2>2 DEF PushFull, AssistDrain, CasRequired, TasksStay, Control
    <3>2. QED
      BY <3>1
  <2>3. CASE ScheduleAfterWrite(a) \/ CasProcessing(a)
    <3>1. op[a] # "write"
      BY <2>3 DEF ScheduleAfterWrite, CasProcessing, TaskCarried, Carrying, Scheduling
    <3>2. TasksStay
      BY <2>3, <3>1 DEF ScheduleAfterWrite, CasProcessing, TasksStay, Control
    <3>3. QED
      BY <3>2
  <2>4. QED
    BY <1>2, <2>1, <2>2, <2>3 DEF WriterStep
<1>3. ASSUME NEW a \in Agents, SchedulerStep(a) PROVE TaskStep
  <2>0. tries[a] \in Nat
    BY DEF Control
  <2>1. ASSUME pc[a] \in Scheduling, Return(a), UNCHANGED <<issued, writeBuffer, done>> PROVE TasksStay
    <3>1. tries[a] = 0 => op[a] # "write"
      BY <2>1 DEF TaskCarried, Carrying, Scheduling
    <3>2. QED
      BY <2>0, <2>1, <3>1 DEF TasksStay, Scheduling, Control
  <2>2. CASE ScheduleDrainBuffers(a) \/ TryLock(a)
    <3>1. pc[a] \in Scheduling /\ UNCHANGED <<issued, writeBuffer, done>>
      BY <2>2 DEF ScheduleDrainBuffers, TryLock, Scheduling
    <3>2. Return(a) \/ Goto(a, "tryLock") \/ Goto(a, "recheck")
      BY <2>2 DEF ScheduleDrainBuffers, TryLock
    <3>3. QED
      BY <2>1, <3>1, <3>2 DEF TasksStay, Scheduling, Control
  <2>3. CASE Recheck(a) \/ StoreProcessing(a) \/ CallerRunsReturn(a)
    <3>1. TasksStay
      BY <2>3 DEF Recheck, StoreProcessing, CallerRunsReturn, TasksStay, Control
    <3>2. QED
      BY <3>1
  <2>4. CASE Execute(a)
    <3>1. PICK d \in Drainers :
             /\ op' = [op EXCEPT ![d] = "drain"]
             /\ pc' = [pc EXCEPT ![a] = IF CallerRuns THEN "callerRuns" ELSE "token",
                                 ![d] = "drainBuffers"]
      BY <2>4 DEF Execute
    <3>2. pc[a] = "execute" /\ UNCHANGED <<issued, writeBuffer, done>>
      BY <2>4 DEF Execute
    <3>3. ASSUME NEW c \in Clients PROVE InHand(c)' = InHand(c)
      <4>1. c # d
        OBVIOUS
      <4>2. op'[c] = op[c] /\ (pc'[c] = "off" <=> pc[c] = "off")
        BY <3>1, <3>2, <4>1 DEF Control
      <4>3. QED
        BY <4>2
    <3>4. QED
      BY <3>2, <3>3 DEF TasksStay
  <2>5. CASE Token(a) \/ UnlockScheduler(a)
    <3>1. pc[a] \in Scheduling /\ UNCHANGED <<issued, writeBuffer, done>>
      BY <2>5 DEF Token, UnlockScheduler, Scheduling
    <3>2. Return(a) \/ Goto(a, "unlockScheduler")
      BY <2>5 DEF Token, UnlockScheduler
    <3>3. QED
      BY <2>1, <3>1, <3>2 DEF TasksStay, Scheduling, Control
  <2>6. QED
    BY <1>3, <2>2, <2>3, <2>4, <2>5 DEF SchedulerStep
<1>4. ASSUME NEW a \in Agents, LockStep(a) PROVE TaskStep
  <2>1. CASE DrainBuffers(a) \/ DrainToken(a) \/ CheckRequired(a) \/ Lock(a)
    <3>1. TasksStay
      BY <2>1 DEF DrainBuffers, DrainToken, CheckRequired, Lock, TasksStay, Control
    <3>2. QED
      BY <3>1
  <2>2. CASE Discard(a)
    <3>1. CASE writeBuffer # <<>>
      BY <2>2, <3>1 DEF Discard, Pops
    <3>2. CASE writeBuffer = <<>>
      BY <2>2, <3>2 DEF Discard, TasksStay, Control
    <3>3. QED
      BY <3>1, <3>2
  <2>3. CASE Unlock(a) \/ RescheduleCleanUpIfIncomplete(a)
    <3>1. op[a] # "write"
      BY <2>3 DEF Unlock, RescheduleCleanUpIfIncomplete, TaskCarried, Carrying, Scheduling
    <3>2. TasksStay
      BY <2>3, <3>1 DEF Unlock, RescheduleCleanUpIfIncomplete, TasksStay, Control
    <3>3. QED
      BY <3>2
  <2>4. CASE InvalidateRest(a)
    <3>1. a \in Clients
      BY <2>4 DEF InvalidateRest, DrainersOnlyDrain
    <3>2. Makes(a)
      BY <2>4, <3>1 DEF InvalidateRest, Makes, Control
    <3>3. QED
      BY <3>1, <3>2
  <2>5. QED
    BY <1>4, <2>1, <2>2, <2>3, <2>4 DEF LockStep
<1>5. ASSUME NEW a \in Agents, MaintenanceStep(a) PROVE TaskStep
  <2>1. CASE Maintenance(a) \/ StoreOverflow(a) \/ Finish(a) \/ StoreRequired(a)
    <3>1. TasksStay
      BY <2>1 DEF Maintenance, StoreOverflow, Finish, StoreRequired, TasksStay, Control
    <3>2. QED
      BY <3>1
  <2>2. CASE DrainWriteBuffer(a)
    <3>1. CASE pops > WriteCap \/ writeBuffer = <<>>
      BY <2>2, <3>1 DEF DrainWriteBuffer, TasksStay, Control
    <3>2. CASE ~(pops > WriteCap) /\ writeBuffer # <<>>
      BY <2>2, <3>2 DEF DrainWriteBuffer, Pops
    <3>3. QED
      BY <3>1, <3>2
  <2>3. CASE RunTask(a)
    <3>1. CASE Carries(a)
      <4>1. a \in Clients
        BY <3>1 DEF Carries, DrainersOnlyDrain
      <4>2. Runs(a)
        BY <2>3, <3>1, <4>1 DEF RunTask, Carries, Runs, Control
      <4>3. QED
        BY <4>1, <4>2
    <3>2. CASE ~Carries(a)
      BY <2>3, <3>2 DEF RunTask, TasksStay, Control
    <3>3. QED
      BY <3>1, <3>2
  <2>4. QED
    BY <1>5, <2>1, <2>2, <2>3 DEF MaintenanceStep
<1>6. CASE Terminating \/ UNCHANGED vars
  BY <1>6 DEF Terminating, vars, TasksStay
<1>7. QED
  BY <1>1, <1>2, <1>3, <1>4, <1>5, <1>6 DEF Next, AgentStep

\* A step preserves TasksConserved.
LEMMA TasksConservedStep ==
    ASSUME Buffer, Counters, TasksConserved, TaskStep PROVE TasksConserved'
<1> DEFINE Balanced(c) == issued[c] = done[c] + Queued(writeBuffer, c) + InHand(c)
<1>1. TasksConserved <=> \A c \in Clients : Balanced(c)
  BY DEF TasksConserved, Queued, Places, InHand
<1>2. TasksConserved' <=> \A c \in Clients : Balanced(c)'
  BY DEF TasksConserved, Queued, Places, InHand
<1>3. SUFFICES ASSUME NEW c \in Clients PROVE Balanced(c)'
  BY <1>2
<1>4. /\ issued[c] = done[c] + Queued(writeBuffer, c) + InHand(c)
      /\ issued[c] \in Nat /\ done[c] \in Nat /\ Queued(writeBuffer, c) \in Nat /\ InHand(c) \in Nat
      /\ writeBuffer \in Seq(Clients)
  BY <1>1, PlacesFinite DEF Buffer, Counters, InHand
<1>5. CASE TasksStay
  BY <1>4, <1>5 DEF TasksStay
<1>6. CASE Pops
  <2>1. Queued(writeBuffer, c) = Queued(writeBuffer', c) + (IF Head(writeBuffer) = c THEN 1 ELSE 0)
    BY <1>4, <1>6, QueuedTail DEF Pops
  <2>2. Queued(writeBuffer', c) \in Nat
    BY <1>6, PlacesFinite, QueuedTask DEF Pops
  <2>3. done'[c] = done[c] + (IF Head(writeBuffer) = c THEN 1 ELSE 0)
    BY <1>6, QueuedTask DEF Pops, Counters
  <2>4. QED
    BY SMTT(30), <1>4, <1>6, <2>1, <2>2, <2>3 DEF Pops
<1>7. ASSUME NEW a \in Clients, Makes(a) PROVE Balanced(c)'
  BY <1>4, <1>7 DEF Makes, Counters
<1>8. ASSUME NEW a \in Clients, Pushes(a) PROVE Balanced(c)'
  <2>1. Queued(writeBuffer', c) = Queued(writeBuffer, c) + (IF a = c THEN 1 ELSE 0)
    BY <1>4, <1>8, QueuedAppend DEF Pushes
  <2>2. issued'[c] = issued[c] /\ done'[c] = done[c] /\ InHand(c) = InHand(c)' + (IF a = c THEN 1 ELSE 0)
    BY <1>4, <1>8 DEF Pushes
  <2>3. InHand(c)' \in Nat
    BY DEF InHand
  <2>4. Queued(writeBuffer', c) \in Nat
    BY <1>4, <2>1
  <2>5. QED
    BY SMTT(30), <1>4, <2>1, <2>2, <2>3, <2>4
<1>9. ASSUME NEW a \in Clients, Runs(a) PROVE Balanced(c)'
  <2>1. /\ issued'[c] = issued[c] /\ writeBuffer' = writeBuffer
        /\ done'[c] = done[c] + (IF a = c THEN 1 ELSE 0)
        /\ InHand(c) = InHand(c)' + (IF a = c THEN 1 ELSE 0)
    BY SMTT(30), <1>4, <1>9 DEF Runs, Counters
  <2>2. InHand(c)' \in Nat
    BY DEF InHand
  <2>3. QED
    BY SMTT(30), <1>4, <2>1, <2>2
<1>10. QED
  BY <1>5, <1>6, <1>7, <1>8, <1>9 DEF TaskStep

\* Every task a client has made is run once, is queued once, or is in the client's hands:
\* none is lost and none runs twice, with any executor and any operations.
THEOREM EveryTaskOnce == Spec => []TasksConserved
<1>1. Init => TaskCarried /\ TasksConserved
  <2> SUFFICES ASSUME Init PROVE TaskCarried /\ TasksConserved
    OBVIOUS
  <2>1. TaskCarried
    BY DEF Init, TaskCarried, Agents
  <2>2. \A c \in Clients : {i \in DOMAIN writeBuffer : writeBuffer[i] = c} = {}
    BY DEF Init
  <2>3. TasksConserved
    BY <2>2, FS_EmptySet DEF Init, TasksConserved, Agents
  <2>4. QED
    BY <2>1, <2>3
<1>2. IInv /\ TaskCarried /\ TasksConserved /\ [Next]_vars => TaskCarried' /\ TasksConserved'
  BY TaskCarriedStep, TaskEffect, TasksConservedStep DEF IInv
<1>3. QED
  BY <1>1, <1>2, InductiveIInv, PTL DEF Spec

=============================================================================
