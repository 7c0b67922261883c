---------------------------- MODULE SchedulerStepProofs ----------------------------
(***************************************************************************)
(* What every step of the scheduler does to its accounts, its sleepers and *)
(* its queue, under every usage of the library.                            *)
(*                                                                         *)
(* The callers of doContextSwitch change states, flags and sleepers, never *)
(* a count; the switch charges the thread it runs; nothing else counts.    *)
(* For the order of the queue the steps are those of TurnQueue: there, a   *)
(* thread that has a turn keeps its place in the line or moves up.         *)
(***************************************************************************)
EXTENDS TurnQueueProofs

(* The methods of Thread other than incrementQuantumCount do not count.    *)
LEMMA ThreadCounts ==
  ASSUME NEW thread \in ThreadObject
  PROVE  /\ thread.quantumCount \in Nat
         /\ \A site : SaveEnv(thread, site).quantumCount = thread.quantumCount
         /\ \A state : SetState(thread, state).quantumCount = thread.quantumCount
         /\ \A flag : SetBlockFlag(thread, flag).quantumCount = thread.quantumCount
         /\ IncrementQuantumCount(thread).quantumCount = thread.quantumCount + 1
BY DEF ThreadObject, SaveEnv, SetState, SetBlockFlag, IncrementQuantumCount

(* A step charges the thread that starts the quantum, if one starts.       *)
ChargedOnce ==
  /\ totalQuantums' - totalQuantums \in 0 .. 1
  /\ \A t \in DOMAIN threads \cap DOMAIN threads' :
       threads'[t].quantumCount - threads[t].quantumCount =
         IF t = currentTid' THEN totalQuantums' - totalQuantums ELSE 0

(* A thread table in which nobody has been charged yet.                    *)
SameCounts(table) ==
  \A t \in DOMAIN table \cap DOMAIN threads :
    table[t].quantumCount = threads[t].quantumCount

LEMMA SwitchCharges ==
  ASSUME TypeOK, NEW table, TableOK(table), currentTid \in DOMAIN table, SameCounts(table),
         NEW queue, NEW sleepers, NEW pending,
         NEW site \in {"timer", "terminate", "block", "sleep"},
         DoContextSwitch(table, queue, sleepers, pending, site), status' = "running"
  PROVE  ChargedOnce
<1> DEFINE saved  == Saved(table, pending, site)
           ready  == Requeued(table, pending, queue)
           next   == NextThread(ready)
           starts == With(saved, next, Dispatched(saved[next], ready))
<1>1. ~SwitchFaults(saved, pending, next)
  BY DEF DoContextSwitch, Crash
<1>2. /\ currentTid' = next
      /\ totalQuantums' = totalQuantums + 1
      /\ threads' = IF IsResumed(saved[next]) THEN Without(starts, pending) ELSE starts
      /\ next \in DOMAIN saved
  BY <1>1 DEF DoContextSwitch, SwitchFaults
<1>3. /\ DOMAIN saved = DOMAIN table
      /\ \A t \in DOMAIN table : /\ saved[t] \in ThreadObject
                                 /\ saved[t].quantumCount = table[t].quantumCount
  <2>1. table[currentTid] \in ThreadObject
    BY DEF TableOK
  <2>2. SaveEnv(table[currentTid], site) \in ThreadObject
    BY <2>1, ThreadMethods DEF Context
  <2>3. SetState(SaveEnv(table[currentTid], site), "READY") \in ThreadObject
    BY <2>2, ThreadMethods DEF ThreadState
  <2> QED BY <2>1, <2>2, <2>3, ThreadCounts DEF Saved, TableOK
<1> HIDE DEF saved, ready, next
<1>4. Dispatched(saved[next], ready).quantumCount = saved[next].quantumCount + 1
  <2>1. saved[next] \in ThreadObject /\ SetState(saved[next], "RUNNING") \in ThreadObject
    BY <1>2, <1>3, ThreadMethods DEF ThreadState
  <2> QED BY <2>1, ThreadCounts DEF Dispatched
<1>5. \A t \in DOMAIN threads' :
        /\ t \in DOMAIN table
        /\ threads'[t].quantumCount = table[t].quantumCount + (IF t = next THEN 1 ELSE 0)
  <2>1. \A t \in DOMAIN threads' :
          /\ t \in DOMAIN table
          /\ threads'[t] = IF t = next THEN Dispatched(saved[next], ready) ELSE saved[t]
    BY <1>2, <1>3 DEF With, Without
  <2>2. \A t \in DOMAIN table : table[t].quantumCount \in Nat
    BY ThreadCounts DEF TableOK
  <2> QED BY <1>2, <1>3, <1>4, <2>1, <2>2
<1>6. \A t \in DOMAIN threads : threads[t].quantumCount \in Nat
  BY ThreadCounts DEF TypeOK
<1>7. totalQuantums \in Nat
  BY DEF TypeOK
<1> QED BY <1>2, <1>5, <1>6, <1>7 DEF ChargedOnce, SameCounts

LEMMA StepCharges ==
  ASSUME SchedulerAssumption, TypeOK, SchedulingInv, [Next]_vars, Running, Running'
  PROVE  ChargedOnce
<1> USE SchedulerAssumption
<1>1. /\ TableOK(threads)
      /\ \A t \in DOMAIN threads : threads[t] \in ThreadObject /\ threads[t].quantumCount \in Nat
      /\ totalQuantums \in Nat
      /\ currentTid \in DOMAIN threads
      /\ 0 \in DOMAIN threads
  BY ThreadCounts DEF TypeOK, TableOK, SchedulingInv, CurrentRuns, MainReady
<1>2. status = "running" /\ status' = "running"
  BY DEF Running
\* No quantum starts, and no thread counts.
<1>3. ASSUME totalQuantums' = totalQuantums,
             \A t \in DOMAIN threads \cap DOMAIN threads' :
               threads'[t].quantumCount = threads[t].quantumCount
      PROVE  ChargedOnce
  BY <1>1, <1>3 DEF ChargedOnce
<1>4. ASSUME UNCHANGED <<threads, totalQuantums>> PROVE ChargedOnce
  BY <1>3, <1>4
\* The running thread gives up the processor.
<1>5. ASSUME NEW thread \in ThreadObject,
             thread.quantumCount = threads[currentTid].quantumCount,
             NEW queue, NEW sleepers, NEW pending,
             NEW site \in {"timer", "terminate", "block", "sleep"},
             DoContextSwitch([threads EXCEPT ![currentTid] = thread], queue,
                             sleepers, pending, site)
      PROVE  ChargedOnce
  <2> DEFINE table == [threads EXCEPT ![currentTid] = thread]
  <2>1. TableOK(table) /\ DOMAIN table = DOMAIN threads /\ SameCounts(table)
    BY <1>1, <1>5, TableUpdates DEF SameCounts
  <2>2. DoContextSwitch(table, queue, sleepers, pending, site)
    BY <1>5
  <2> HIDE DEF table
  <2> QED BY <1>1, <1>2, <2>1, <2>2, SwitchCharges
<1>6. SetState(threads[currentTid], "READY") \in ThreadObject
      /\ SetState(threads[currentTid], "BLOCKED") \in ThreadObject
      /\ SetBlockFlag(SetState(threads[currentTid], "BLOCKED"), TRUE) \in ThreadObject
  <2>1. SetState(threads[currentTid], "READY") \in ThreadObject
        /\ SetState(threads[currentTid], "BLOCKED") \in ThreadObject
    BY <1>1, ThreadMethods DEF ThreadState
  <2> QED BY <2>1, ThreadMethods
<1>7. ASSUME NEW usecs \in InitArgs, UthreadInit(usecs) PROVE ChargedOnce
  BY <1>2, <1>7 DEF UthreadInit
<1>8. ASSUME TimerHandler PROVE ChargedOnce
  <2>1. Due \subseteq DOMAIN threads
    BY <1>2, <1>8 DEF TimerHandler, Crash
  <2>2. PICK order \in SetToSeqs(Woken) :
          DoContextSwitch(Awakened, readyQueue \o order, StillAsleep, pendingDeletionTid, "timer")
    BY <1>8, <2>1 DEF TimerHandler
  <2>3. TableOK(Awakened) /\ DOMAIN Awakened = DOMAIN threads /\ SameCounts(Awakened)
    <3>1. \A t \in DOMAIN threads :
            /\ SetState(threads[t], "READY") \in ThreadObject
            /\ SetState(threads[t], "READY").quantumCount = threads[t].quantumCount
      BY <1>1, ThreadMethods, ThreadCounts DEF ThreadState
    <3>2. \A t \in DOMAIN threads :
            Awakened[t] \in ThreadObject /\ Awakened[t].quantumCount = threads[t].quantumCount
      BY <1>1, <3>1 DEF Awakened
    <3> QED BY <1>1, <3>2 DEF Awakened, TableOK, SameCounts
  <2> QED BY <1>1, <1>2, <2>2, <2>3, SwitchCharges
<1>9. ASSUME NEW hasEntryPoint \in BOOLEAN, UthreadSpawn(hasEntryPoint) PROVE ChargedOnce
  <2>1. CASE ReturnsAtOnce("spawn", currentTid, -1)
    BY <1>4, <2>1 DEF ReturnsAtOnce
  <2>2. CASE NextAvailableTid # NoTid /\ SpawnAs(NextAvailableTid)
    <3>1. NextAvailableTid \notin DOMAIN threads
      BY <2>2, AvailableTid
    <3> QED BY <1>3, <2>2, <3>1 DEF SpawnAs, With
  <2> QED BY <1>9, <2>1, <2>2 DEF UthreadSpawn, Spawn
<1>10. ASSUME NEW tid \in TidArgs, UthreadTerminate(tid) PROVE ChargedOnce
  <2>1. CASE ReturnsAtOnce("terminate", tid, -1)
    BY <1>4, <2>1 DEF ReturnsAtOnce
  <2>2. CASE TerminateMain
    BY <1>2, <2>2 DEF TerminateMain
  <2>3. CASE TerminateSelf
    <3>1. CASE Purged(currentTid) = <<>>
      BY <1>4, <2>3, <3>1 DEF TerminateSelf
    <3>2. CASE Purged(currentTid) # <<>>
      BY <1>1, <1>5, <1>6, <2>3, <3>2, ThreadCounts DEF TerminateSelf
    <3> QED BY <3>1, <3>2
  <2>4. CASE TerminateOther(tid)
    BY <1>3, <2>4 DEF TerminateOther, Deleted, Without
  <2> QED BY <1>10, <2>1, <2>2, <2>3, <2>4 DEF UthreadTerminate
<1>11. ASSUME NEW tid \in TidArgs, UthreadBlock(tid) PROVE ChargedOnce
  <2>1. CASE ReturnsAtOnce("block", tid, -1) \/ ReturnsAtOnce("block", tid, 0)
    BY <1>4, <2>1 DEF ReturnsAtOnce
  <2>2. CASE tid \in DOMAIN threads /\ BlockWaiting(tid)
    <3>1. SetBlockFlag(SetState(threads[tid], "BLOCKED"), TRUE).quantumCount
            = threads[tid].quantumCount
      <4>1. SetState(threads[tid], "BLOCKED") \in ThreadObject
        BY <1>1, <2>2, ThreadMethods DEF ThreadState
      <4>2. SetState(threads[tid], "BLOCKED").quantumCount = threads[tid].quantumCount
        BY <1>1, <2>2, ThreadCounts
      <4> QED BY <4>1, <4>2, ThreadCounts
    <3> QED BY <1>3, <2>2, <3>1 DEF BlockWaiting
  <2>3. CASE BlockSelf
    <3>1. SetBlockFlag(SetState(threads[currentTid], "BLOCKED"), TRUE).quantumCount
            = threads[currentTid].quantumCount
      <4>1. SetState(threads[currentTid], "BLOCKED").quantumCount = threads[currentTid].quantumCount
        BY <1>1, ThreadCounts
      <4> QED BY <1>6, <4>1, ThreadCounts
    <3>2. CASE readyQueue = <<>>
      BY <1>4, <2>3, <3>2 DEF BlockSelf
    <3>3. CASE readyQueue # <<>>
      BY <1>5, <1>6, <2>3, <3>1, <3>3 DEF BlockSelf
    <3> QED BY <3>2, <3>3
  <2> QED BY <1>11, <2>1, <2>2, <2>3 DEF UthreadBlock, Block
<1>12. ASSUME NEW tid \in TidArgs, UthreadResume(tid) PROVE ChargedOnce
  <2>1. CASE ReturnsAtOnce("resume", tid, -1) \/ ReturnsAtOnce("resume", tid, 0)
    BY <1>4, <2>1 DEF ReturnsAtOnce
  <2>2. CASE tid \in DOMAIN threads /\ ResumeBlocked(tid)
    <3>1. /\ SetBlockFlag(threads[tid], FALSE).quantumCount = threads[tid].quantumCount
          /\ SetState(threads[tid], "READY").quantumCount = threads[tid].quantumCount
      BY <1>1, <2>2, ThreadCounts
    <3> QED BY <1>3, <2>2, <3>1 DEF ResumeBlocked
  <2> QED BY <1>12, <2>1, <2>2 DEF UthreadResume, Resume
<1>13. ASSUME NEW n \in SleepArgs, UthreadSleep(n) PROVE ChargedOnce
  <2>1. CASE ReturnsAtOnce("sleep", currentTid, -1)
    BY <1>4, <2>1 DEF ReturnsAtOnce
  <2>2. CASE Sleep(n)
    <3>1. CASE readyQueue = <<>>
      <4>1. SetState(threads[currentTid], "RUNNING").quantumCount = threads[currentTid].quantumCount
        BY <1>1, ThreadCounts
      <4> QED BY <1>3, <2>2, <3>1, <4>1 DEF Sleep
    <3>2. CASE readyQueue # <<>>
      BY <1>1, <1>5, <1>6, <2>2, <3>2, ThreadCounts DEF Sleep
    <3> QED BY <3>1, <3>2
  <2> QED BY <1>13, <2>1, <2>2 DEF UthreadSleep
<1>14. ASSUME NEW tid \in TidArgs, UthreadGetQuantums(tid) PROVE ChargedOnce
  BY <1>4, <1>14 DEF UthreadGetQuantums
<1>15. CASE UNCHANGED vars
  BY <1>4, <1>15 DEF vars
<1> QED
  BY <1>7, <1>8, <1>9, <1>10, <1>11, <1>12, <1>13, <1>14, <1>15 DEF Next

(* Every quantum is counted once in total and once for the thread that     *)
(* starts it, whichever way led to the switch.                             *)
THEOREM EveryQuantumIsCharged == Spec => QuantumIsCharged
<1>1. TypeOK /\ SchedulingInv /\ [Next]_vars =>
        [Running /\ Running' =>
           /\ totalQuantums' - totalQuantums \in 0 .. 1
           /\ \A t \in DOMAIN threads \cap DOMAIN threads' :
                threads'[t].quantumCount - threads[t].quantumCount =
                  IF t = currentTid' THEN totalQuantums' - totalQuantums ELSE 0]_vars
  BY SchedulerAssumption, StepCharges DEF ChargedOnce
<1> QED BY <1>1, SchedulingInvariant, PTL DEF Spec, QuantumIsCharged

-----------------------------------------------------------------------------
(* A tick leaves no sleeper overdue.                                       *)
LEMMA TickWakes ==
  ASSUME SchedulerAssumption, TypeOK, TimerHandler, Running'
  PROVE  /\ \A t \in DOMAIN sleepingThreads' : sleepingThreads'[t] >= totalQuantums'
         /\ \A t \in DOMAIN sleepingThreads \ DOMAIN sleepingThreads' :
              t \in Queued' \cup {currentTid'} \/ threads[t].didUserBlock
<1>1. status' = "running" /\ status = "running"
  BY DEF Running, TimerHandler
<1>2. Due \subseteq DOMAIN threads
  BY <1>1 DEF TimerHandler, Crash
<1>3. PICK order \in SetToSeqs(Woken) :
        DoContextSwitch(Awakened, readyQueue \o order, StillAsleep, pendingDeletionTid, "timer")
  BY <1>2 DEF TimerHandler
<1> DEFINE saved == Saved(Awakened, pendingDeletionTid, "timer")
           queue == readyQueue \o order
           ready == Requeued(Awakened, pendingDeletionTid, queue)
<1>4. /\ currentTid' = NextThread(ready)
      /\ readyQueue' = IF ready = <<>> THEN <<>> ELSE Tail(ready)
      /\ sleepingThreads' = StillAsleep
      /\ totalQuantums' = totalQuantums + 1
  BY <1>1, <1>3 DEF DoContextSwitch, Crash
<1>5. \A t \in DOMAIN sleepingThreads' : sleepingThreads'[t] >= totalQuantums'
  <2>1. totalQuantums \in Int /\ \A t \in DOMAIN sleepingThreads : sleepingThreads[t] \in Int
    BY DEF TypeOK
  <2> QED BY <1>4, <2>1 DEF StillAsleep, Due
<1>6. order \in Seq(ThreadIds) /\ ToSet(order) = Woken
  <2>1. Woken \subseteq ThreadIds
    BY DEF Woken, TypeOK
  <2> QED BY <2>1, WakingOrder
<1>7. queue \in Seq(ThreadIds) /\ Woken \subseteq ToSet(queue)
  BY <1>6, Joined DEF TypeOK
<1> HIDE DEF queue
<1>8. ready \in Seq(ThreadIds) /\ Woken \subseteq ToSet(ready)
  BY <1>7, Pushed DEF Requeued, TypeOK
<1> HIDE DEF ready
<1>9. Woken \subseteq ToSet(readyQueue') \cup {currentTid'}
  <2>1. CASE ready = <<>>
    BY <1>8, <2>1 DEF ToSet
  <2>2. CASE ready # <<>>
    BY <1>4, <1>8, <2>2, Popped DEF NextThread
  <2> QED BY <2>1, <2>2
<1>10. ASSUME NEW t \in DOMAIN sleepingThreads \ DOMAIN sleepingThreads'
       PROVE  t \in Queued' \cup {currentTid'} \/ threads[t].didUserBlock
  <2>1. t \in Due
    BY <1>4 DEF StillAsleep
  <2>2. t \in Woken \/ threads[t].didUserBlock
    BY <1>2, <2>1 DEF Woken
  <2> QED BY <1>9, <2>2 DEF Queued
<1> QED BY <1>5, <1>10

(* Whoever a tick finds due is awake and queued, or blocked by the user,   *)
(* and every deadline left lies ahead.                                     *)
THEOREM NoSleeperIsForgotten == Spec => TickWakesSleepers
<1> DEFINE Wakes == TimerHandler /\ Running' =>
        /\ \A t \in DOMAIN sleepingThreads' : sleepingThreads'[t] >= totalQuantums'
        /\ \A t \in DOMAIN sleepingThreads \ DOMAIN sleepingThreads' :
             t \in Queued' \cup {currentTid'} \/ threads[t].didUserBlock
<1>1. TypeOK /\ SchedulingInv /\ [Next]_vars => [Wakes]_vars
  BY SchedulerAssumption, TickWakes
<1> QED BY <1>1, SchedulingInvariant, PTL DEF Spec, TickWakesSleepers

-----------------------------------------------------------------------------
(* A block lasts until the thread is resumed.                              *)

(* A switch does nothing to a thread that neither runs nor is queued.      *)
LEMMA SwitchPassesBy ==
  ASSUME currentTid \in ThreadIds, NEW table, currentTid \in DOMAIN table,
         NEW queue \in Seq(ThreadIds), NEW sleepers, NEW pending, NEW site,
         DoContextSwitch(table, queue, sleepers, pending, site), status' = "running",
         NEW t \in DOMAIN threads', t # currentTid, t \notin ToSet(queue)
  PROVE  t \in DOMAIN table /\ threads'[t] = table[t]
<1> DEFINE saved  == Saved(table, pending, site)
           ready  == Requeued(table, pending, queue)
           next   == NextThread(ready)
           starts == With(saved, next, Dispatched(saved[next], ready))
<1>1. ~SwitchFaults(saved, pending, next)
  BY DEF DoContextSwitch, Crash
<1>2. /\ threads' = IF IsResumed(saved[next]) THEN Without(starts, pending) ELSE starts
      /\ next \in DOMAIN saved
  BY <1>1 DEF DoContextSwitch, SwitchFaults
<1>3. DOMAIN saved = DOMAIN table /\ \A s \in DOMAIN table \ {currentTid} : saved[s] = table[s]
  BY DEF Saved
<1>4. ready \in Seq(ThreadIds) /\ t \notin ToSet(ready)
  BY Pushed DEF Requeued
<1> HIDE DEF saved, ready, next
<1>5. t # next
  <2>1. CASE ready = <<>>
    BY <2>1 DEF NextThread, next
  <2>2. CASE ready # <<>>
    BY <1>4, <2>2, Popped DEF NextThread, next
  <2> QED BY <2>1, <2>2
<1> QED BY <1>2, <1>3, <1>5 DEF With, Without

LEMMA BlockHolds ==
  ASSUME SchedulerAssumption, TypeOK, SchedulingInv, [Next]_vars, Running, Running',
         NEW t \in DOMAIN threads \cap DOMAIN threads',
         threads[t].state = "BLOCKED", threads[t].didUserBlock
  PROVE  threads'[t].state = "BLOCKED" \/ reply' = Reply("resume", t, 0)
<1> USE SchedulerAssumption
<1> DEFINE Holds == threads'[t].state = "BLOCKED" \/ reply' = Reply("resume", t, 0)
<1>1. /\ status = "running" /\ status' = "running"
      /\ readyQueue \in Seq(ThreadIds)
      /\ t \in ThreadIds /\ t \in DOMAIN threads /\ t \in DOMAIN threads'
      /\ currentTid \in ThreadIds /\ currentTid \in DOMAIN threads
      /\ \A tid \in DOMAIN threads : tid \in ThreadIds /\ threads[tid] \in ThreadObject
      /\ t # currentTid /\ t \notin ToSet(readyQueue)
  BY DEF Running, TypeOK, SchedulingInv, CurrentRuns, OthersWait
\* The thread is not touched.
<1>2. ASSUME threads'[t] = threads[t] PROVE Holds
  BY <1>2
\* The running thread gives up the processor.
<1>3. ASSUME NEW thread, NEW sleepers, NEW pending, NEW site,
             DoContextSwitch([threads EXCEPT ![currentTid] = thread], readyQueue,
                             sleepers, pending, site)
      PROVE  Holds
  <2> DEFINE table == [threads EXCEPT ![currentTid] = thread]
  <2>1. DOMAIN table = DOMAIN threads /\ table[t] = threads[t]
    BY <1>1
  <2>2. DoContextSwitch(table, readyQueue, sleepers, pending, site)
    BY <1>3
  <2> HIDE DEF table, Holds
  <2>3. threads'[t] = table[t]
    BY <1>1, <2>1, <2>2, SwitchPassesBy
  <2> QED BY <1>2, <2>1, <2>3
<1> HIDE DEF Holds
<1>4. ASSUME NEW usecs \in InitArgs, UthreadInit(usecs) PROVE Holds
  BY <1>1, <1>4 DEF UthreadInit
\* Not even a sleep that is over wakes it.
<1>5. ASSUME TimerHandler PROVE Holds
  <2>1. Due \subseteq DOMAIN threads
    BY <1>1, <1>5 DEF TimerHandler, Crash
  <2>2. PICK order \in SetToSeqs(Woken) :
          DoContextSwitch(Awakened, readyQueue \o order, StillAsleep, pendingDeletionTid, "timer")
    BY <1>5, <2>1 DEF TimerHandler
  <2>3. t \notin Woken /\ Woken \subseteq ThreadIds
    BY <1>1 DEF Woken
  <2>4. DOMAIN Awakened = DOMAIN threads /\ Awakened[t] = threads[t]
    BY <1>1, <2>3 DEF Awakened
  <2>5. readyQueue \o order \in Seq(ThreadIds) /\ t \notin ToSet(readyQueue \o order)
    BY <1>1, <2>3, WakingOrder, Joined
  <2>6. threads'[t] = Awakened[t]
    BY <1>1, <2>2, <2>4, <2>5, SwitchPassesBy
  <2> QED BY <1>2, <2>4, <2>6
<1>6. ASSUME NEW hasEntryPoint \in BOOLEAN, UthreadSpawn(hasEntryPoint) PROVE Holds
  <2>1. CASE ReturnsAtOnce("spawn", currentTid, -1)
    BY <1>2, <2>1 DEF ReturnsAtOnce
  <2>2. CASE NextAvailableTid # NoTid /\ SpawnAs(NextAvailableTid)
    <3>1. NextAvailableTid \notin DOMAIN threads
      BY <2>2, AvailableTid
    <3> QED BY <1>1, <1>2, <2>2, <3>1 DEF SpawnAs, With
  <2> QED BY <1>6, <2>1, <2>2 DEF UthreadSpawn, Spawn
<1>7. ASSUME NEW tid \in TidArgs, UthreadTerminate(tid) PROVE Holds
  <2>1. CASE ReturnsAtOnce("terminate", tid, -1)
    BY <1>2, <2>1 DEF ReturnsAtOnce
  <2>2. CASE TerminateMain
    BY <1>1, <2>2 DEF TerminateMain
  <2>3. CASE TerminateSelf
    <3>1. Purged(currentTid) = readyQueue
      BY <1>1 DEF Purged, SchedulingInv, CurrentRuns
    <3>2. CASE readyQueue = <<>>
      BY <1>2, <2>3, <3>1, <3>2 DEF TerminateSelf
    <3>3. CASE readyQueue # <<>>
      BY <1>3, <2>3, <3>1, <3>3 DEF TerminateSelf
    <3> QED BY <3>2, <3>3
  <2>4. CASE TerminateOther(tid)
    BY <1>1, <1>2, <2>4 DEF TerminateOther, Deleted, Without
  <2> QED BY <1>7, <2>1, <2>2, <2>3, <2>4 DEF UthreadTerminate
<1>8. ASSUME NEW tid \in TidArgs, UthreadBlock(tid) PROVE Holds
  <2>1. CASE ReturnsAtOnce("block", tid, -1) \/ ReturnsAtOnce("block", tid, 0)
    BY <1>2, <2>1 DEF ReturnsAtOnce
  <2>2. CASE ~threads[tid].didUserBlock /\ BlockWaiting(tid)
    BY <1>1, <1>2, <2>2 DEF BlockWaiting
  <2>3. CASE BlockSelf
    <3>1. CASE readyQueue = <<>>
      BY <1>2, <2>3, <3>1 DEF BlockSelf
    <3>2. CASE readyQueue # <<>>
      BY <1>3, <2>3, <3>2 DEF BlockSelf
    <3> QED BY <3>1, <3>2
  <2> QED BY <1>8, <2>1, <2>2, <2>3 DEF UthreadBlock, Block
<1>9. ASSUME NEW tid \in TidArgs, UthreadResume(tid) PROVE Holds
  <2>1. CASE ReturnsAtOnce("resume", tid, -1) \/ ReturnsAtOnce("resume", tid, 0)
    BY <1>2, <2>1 DEF ReturnsAtOnce
  <2>2. CASE ResumeBlocked(tid)
    <3>1. CASE t = tid
      BY <2>2, <3>1 DEF ResumeBlocked, Returns, Holds
    <3>2. CASE t # tid
      BY <1>1, <1>2, <2>2, <3>2 DEF ResumeBlocked
    <3> QED BY <3>1, <3>2
  <2> QED BY <1>9, <2>1, <2>2 DEF UthreadResume, Resume
<1>10. ASSUME NEW n \in SleepArgs, UthreadSleep(n) PROVE Holds
  <2>1. CASE ReturnsAtOnce("sleep", currentTid, -1)
    BY <1>2, <2>1 DEF ReturnsAtOnce
  <2>2. CASE Sleep(n)
    <3>1. CASE readyQueue = <<>>
      BY <1>1, <1>2, <2>2, <3>1 DEF Sleep
    <3>2. CASE readyQueue # <<>>
      BY <1>3, <2>2, <3>2 DEF Sleep
    <3> QED BY <3>1, <3>2
  <2> QED BY <1>10, <2>1, <2>2 DEF UthreadSleep
<1>11. ASSUME NEW tid \in TidArgs, UthreadGetQuantums(tid) PROVE Holds
  BY <1>2, <1>11 DEF UthreadGetQuantums
<1>12. CASE UNCHANGED vars
  BY <1>2, <1>12 DEF vars
<1> QED
  BY <1>4, <1>5, <1>6, <1>7, <1>8, <1>9, <1>10, <1>11, <1>12 DEF Next, Holds

(* A thread that uthread_block has left BLOCKED stays so until it is       *)
(* resumed or ended, whoever calls what and whichever sleep ends.          *)
THEOREM BlocksLast == Spec => BlockLasts
<1> DEFINE Lasts == Running /\ Running' =>
        \A t \in DOMAIN threads \cap DOMAIN threads' :
          threads[t].state = "BLOCKED" /\ threads[t].didUserBlock =>
            threads'[t].state = "BLOCKED" \/ reply' = Reply("resume", t, 0)
<1>1. TypeOK /\ SchedulingInv /\ [Next]_vars => [Lasts]_vars
  BY SchedulerAssumption, BlockHolds
<1> QED BY <1>1, SchedulingInvariant, PTL DEF Spec, BlockLasts

-----------------------------------------------------------------------------
(* Position is where the first entry of a tid is.                          *)
LEMMA PositionIsFirst ==
  ASSUME NEW S, NEW queue \in Seq(S), NEW t \in ToSet(queue)
  PROVE  /\ Position(queue, t) \in 1 .. Len(queue)
         /\ queue[Position(queue, t)] = t
         /\ \A i \in 1 .. Len(queue) : queue[i] = t => Position(queue, t) <= i
<1> DEFINE places == {i \in DOMAIN queue : queue[i] = t}
<1>1. DOMAIN queue = 1 .. Len(queue) /\ Len(queue) \in Nat
  OBVIOUS
<1>2. places # {} /\ places \subseteq Nat
  BY <1>1 DEF ToSet
<1>3. \E i \in places : \A j \in places : i <= j
  <2> HIDE DEF places
  <2> QED BY <1>2, LeastNatural
<1>4. Position(queue, t) \in places /\ \A j \in places : Position(queue, t) <= j
  BY <1>3 DEF Position, Min
<1> QED BY <1>1, <1>4

(* A tid that is found d places further up has moved up d places at least. *)
LEMMA MovedUp ==
  ASSUME NEW S, NEW queue \in Seq(S), NEW t \in ToSet(queue),
         NEW later \in Seq(S), NEW d \in Nat, NEW i \in 1 .. Len(later),
         later[i] = t, i <= Position(queue, t) - d
  PROVE  t \in ToSet(later) /\ Position(later, t) <= Position(queue, t) - d
<1>1. t \in ToSet(later)
  BY DEF ToSet
<1>2. Position(later, t) \in Nat /\ Position(later, t) <= i
  BY <1>1, PositionIsFirst
<1>3. Position(queue, t) \in Nat
  BY PositionIsFirst
<1> QED BY <1>1, <1>2, <1>3

(* What keeps its order in a shorter line does not move back.              *)
LEMMA NotBack ==
  ASSUME NEW n \in Nat, NEW place \in [1 .. n -> Nat \ {0}],
         \A i, j \in 1 .. n : i < j => place[i] < place[j]
  PROVE  \A i \in 1 .. n : i <= place[i]
<1> DEFINE T == {i \in Nat : i \in 1 .. n => i <= place[i]}
<1>1. 0 \in T
  OBVIOUS
<1>2. ASSUME NEW i \in Nat, i \in T PROVE i + 1 \in T
  <2> SUFFICES ASSUME i + 1 \in 1 .. n PROVE i + 1 <= place[i + 1]
    OBVIOUS
  <2>1. place[i + 1] \in Nat \ {0}
    OBVIOUS
  <2>2. CASE i = 0
    BY <2>1, <2>2
  <2>3. CASE i # 0
    <3>1. i \in 1 .. n /\ i < i + 1
      BY <2>3
    <3>2. i <= place[i] /\ place[i] < place[i + 1] /\ place[i] \in Nat
      BY <1>2, <3>1
    <3> QED BY <2>1, <3>2
  <2> QED BY <2>2, <2>3
<1> HIDE DEF T
<1>3. Nat \subseteq T
  BY <1>1, <1>2, NatSetInduction
<1> QED BY <1>3 DEF T

(* A thread in the line moves up with every turn and never back, or leaves *)
(* without a turn being taken.                                             *)
LEMMA TurnsKeepPlace ==
  ASSUME TypeOK, TypeOK', Running, Running', NEW t \in Queued,
         Turns!TurnNext \/ UNCHANGED Turns!turnVars
  PROVE  \/ t = currentTid'
         \/ t \notin Queued' /\ totalQuantums' = totalQuantums
         \/ /\ t \in Queued'
            /\ Position(readyQueue', t) <= Position(readyQueue, t) - (totalQuantums' - totalQuantums)
<1> DEFINE p == Position(readyQueue, t)
           Up == /\ t \in Queued'
                 /\ Position(readyQueue', t) <= p - (totalQuantums' - totalQuantums)
<1>1. /\ readyQueue \in Seq(ThreadIds) /\ readyQueue' \in Seq(ThreadIds)
      /\ currentTid' \in ThreadIds /\ totalQuantums \in Nat
      /\ t \in ToSet(readyQueue)
      /\ Len(readyQueue) \in Nat /\ Len(readyQueue') \in Nat
  BY DEF TypeOK, Queued
<1>2. p \in 1 .. Len(readyQueue) /\ readyQueue[p] = t
  BY <1>1, PositionIsFirst
<1> HIDE DEF p
<1>3. ASSUME NEW i \in 1 .. Len(readyQueue'), readyQueue'[i] = t,
             NEW d \in Nat, totalQuantums' = totalQuantums + d, i <= p - d
      PROVE  Up
  <2>1. t \in ToSet(readyQueue') /\ Position(readyQueue', t) <= p - d
    BY <1>1, <1>3, MovedUp DEF p
  <2> QED BY <1>1, <1>3, <2>1 DEF Queued
<1> HIDE DEF Up
<1>4. Phase = "on" /\ Phase' = "on"
  BY DEF Phase, Running
<1>5. ASSUME UNCHANGED Turns!turnVars PROVE Up
  <2>1. readyQueue' = readyQueue /\ totalQuantums' = totalQuantums + 0
    BY <1>1, <1>5 DEF Turns!turnVars
  <2> QED BY <1>2, <1>3, <2>1
<1>6. ASSUME Turns!Arrive PROVE Up
  <2>1. totalQuantums' = totalQuantums + 0 /\ Turns!Joined(readyQueue', Len(readyQueue'), readyQueue)
    BY <1>1, <1>6 DEF Turns!Arrive
  <2>2. p \in 1 .. Len(readyQueue') /\ readyQueue'[p] = t
    BY <1>1, <1>2, <2>1 DEF Turns!Joined
  <2> QED BY <1>2, <1>3, <2>1, <2>2
<1>7. ASSUME NEW departs \in BOOLEAN, Turns!TakeTurn(departs) PROVE t = currentTid' \/ Up
  <2> DEFINE line == <<currentTid'>> \o readyQueue'
  <2>1. /\ Len(line) = Len(readyQueue') + 1
        /\ line[1] = currentTid'
        /\ \A i \in 2 .. Len(line) : line[i] = readyQueue'[i - 1]
    BY <1>1
  <2>2. totalQuantums' = totalQuantums + 1
    BY <1>7 DEF Turns!TakeTurn
  <2>3. Turns!Joined(line, Len(line), readyQueue) \/ Turns!Joined(line, Len(line) - 1, readyQueue)
    BY <1>7 DEF Turns!TakeTurn
  <2> HIDE DEF line
  <2>4. Len(readyQueue) <= Len(line) /\ line[p] = t
    BY <1>1, <1>2, <2>1, <2>3 DEF Turns!Joined
  <2>5. CASE p = 1
    BY <2>1, <2>4, <2>5
  <2>6. CASE p # 1
    <3>1. p - 1 \in 1 .. Len(readyQueue') /\ readyQueue'[p - 1] = t
      BY <1>1, <1>2, <2>1, <2>4, <2>6
    <3> QED BY <1>2, <1>3, <2>2, <3>1
  <2> QED BY <2>5, <2>6
<1>8. ASSUME NEW tid \in ThreadIds \ {0}, Turns!Leave(tid)
      PROVE  Up \/ (t \notin Queued' /\ totalQuantums' = totalQuantums)
  <2>1. totalQuantums' = totalQuantums /\ Turns!IsWithout(readyQueue', readyQueue, tid)
    BY <1>8 DEF Turns!Leave
  <2> DEFINE kept == {i \in DOMAIN readyQueue : readyQueue[i] # tid}
  <2>2. PICK place \in [DOMAIN readyQueue' -> kept] :
          /\ \A i, j \in DOMAIN readyQueue' : i < j => place[i] < place[j]
          /\ \A k \in kept : \E i \in DOMAIN readyQueue' : place[i] = k
          /\ \A i \in DOMAIN readyQueue' : readyQueue'[i] = readyQueue[place[i]]
    BY <2>1 DEF Turns!IsWithout
  <2>3. DOMAIN readyQueue' = 1 .. Len(readyQueue') /\ DOMAIN readyQueue = 1 .. Len(readyQueue)
    BY <1>1
  <2>4. CASE t = tid
    <3>1. t \notin Queued'
      BY <2>2, <2>4 DEF Queued, ToSet
    <3> QED BY <2>1, <3>1
  <2>5. CASE t # tid
    <3>1. PICK i \in 1 .. Len(readyQueue') : place[i] = p
      BY <1>2, <2>2, <2>3, <2>5
    <3>2. place \in [1 .. Len(readyQueue') -> Nat \ {0}]
      BY <1>1, <2>2, <2>3
    <3>3. i <= p
      BY <1>1, <2>2, <2>3, <3>1, <3>2, NotBack
    <3>4. readyQueue'[i] = t
      BY <1>2, <2>2, <2>3, <3>1
    <3> QED BY <1>1, <1>2, <1>3, <2>1, <3>3, <3>4
  <2> QED BY <2>4, <2>5
<1> QED
  BY <1>4, <1>5, <1>6, <1>7, <1>8
  DEF Turns!TurnNext, Turns!Begin, Turns!Stop, Up, p

(* A thread that leaves the queue other than to run is BLOCKED or deleted. *)
LEMMA LeavesToWait ==
  ASSUME SchedulerAssumption, TypeOK, SchedulingInv, [Next]_vars, Running, Running',
         totalQuantums' = totalQuantums, NEW t \in Queued \ Queued'
  PROVE  t \notin DOMAIN threads' \/ threads'[t].state = "BLOCKED"
<1> USE SchedulerAssumption
<1> DEFINE Waits == t \notin DOMAIN threads' \/ threads'[t].state = "BLOCKED"
<1>1. /\ t \in ToSet(readyQueue) /\ t \notin ToSet(readyQueue')
      /\ status = "running" /\ status' = "running"
      /\ readyQueue \in Seq(ThreadIds) /\ totalQuantums \in Nat
      /\ \A tid \in DOMAIN threads : tid \in ThreadIds /\ threads[tid] \in ThreadObject
      /\ CurrentRuns
  BY DEF Queued, Running, TypeOK, SchedulingInv
<1> HIDE DEF Waits
<1>2. ASSUME UNCHANGED readyQueue PROVE FALSE
  BY <1>1, <1>2
<1>3. ASSUME NEW tid \in ThreadIds, readyQueue' = Append(readyQueue, tid) PROVE FALSE
  BY <1>1, <1>3, Pushed
<1>4. ASSUME NEW table, NEW queue, NEW sleepers, NEW pending, NEW site,
             DoContextSwitch(table, queue, sleepers, pending, site)
      PROVE  FALSE
  BY <1>1, <1>4 DEF DoContextSwitch, Crash
<1>5. ASSUME NEW tid \in DOMAIN threads, readyQueue' = Purged(tid) PROVE t = tid
  <2>1. CASE threads[tid].state = "READY"
    <3>1. t \in ThreadIds
      BY <1>1 DEF ToSet
    <3>2. \A s \in ThreadIds : s \in ToSet(RemoveFromReadyQueue(readyQueue, tid))
                                <=> s # tid /\ s \in ToSet(readyQueue)
      BY <1>1, RemovedFromReadyQueue
    <3> QED BY <1>1, <1>5, <2>1, <3>1, <3>2 DEF Purged
  <2>2. CASE threads[tid].state # "READY"
    BY <1>2, <1>5, <2>2 DEF Purged
  <2> QED BY <2>1, <2>2
<1>6. ASSUME NEW usecs \in InitArgs, UthreadInit(usecs) PROVE Waits
  BY <1>1, <1>6 DEF UthreadInit
<1>7. ASSUME TimerHandler PROVE Waits
  BY <1>1, <1>4, <1>7 DEF TimerHandler, Crash
<1>8. ASSUME NEW hasEntryPoint \in BOOLEAN, UthreadSpawn(hasEntryPoint) PROVE Waits
  <2>1. CASE NextAvailableTid # NoTid /\ SpawnAs(NextAvailableTid)
    <3>1. NextAvailableTid \in ThreadIds
      BY <2>1, AvailableTid
    <3> QED BY <1>3, <2>1, <3>1 DEF SpawnAs
  <2> QED BY <1>2, <1>8, <2>1 DEF UthreadSpawn, Spawn, ReturnsAtOnce
<1>9. ASSUME NEW tid \in TidArgs, UthreadTerminate(tid) PROVE Waits
  <2>1. CASE ReturnsAtOnce("terminate", tid, -1)
    BY <1>2, <2>1 DEF ReturnsAtOnce
  <2>2. CASE TerminateMain
    BY <1>1, <2>2 DEF TerminateMain
  <2>3. CASE TerminateSelf
    <3>1. Purged(currentTid) = readyQueue
      BY <1>1 DEF Purged, CurrentRuns
    <3> QED BY <1>2, <1>4, <2>3, <3>1 DEF TerminateSelf
  <2>4. CASE tid \in DOMAIN threads /\ TerminateOther(tid)
    <3>1. t = tid
      BY <1>5, <2>4 DEF TerminateOther
    <3>2. t \notin DOMAIN threads'
      BY <2>4, <3>1 DEF TerminateOther, Deleted, Without
    <3> QED BY <3>2 DEF Waits
  <2> QED BY <1>9, <2>1, <2>2, <2>3, <2>4 DEF UthreadTerminate
<1>10. ASSUME NEW tid \in TidArgs, UthreadBlock(tid) PROVE Waits
  <2>1. CASE ReturnsAtOnce("block", tid, -1) \/ ReturnsAtOnce("block", tid, 0)
    BY <1>2, <2>1 DEF ReturnsAtOnce
  <2>2. CASE tid \in DOMAIN threads /\ BlockWaiting(tid)
    <3>1. t = tid
      BY <1>5, <2>2 DEF BlockWaiting
    <3>2. SetState(threads[tid], "BLOCKED") \in ThreadObject
      BY <1>1, <2>2, ThreadMethods DEF ThreadState
    <3>3. SetBlockFlag(SetState(threads[tid], "BLOCKED"), TRUE).state = "BLOCKED"
      <4>1. SetState(threads[tid], "BLOCKED").state = "BLOCKED"
        BY <1>1, <2>2, ThreadFields
      <4> QED BY <3>2, <4>1, ThreadFields
    <3>4. threads'[tid].state = "BLOCKED"
      BY <2>2, <3>3 DEF BlockWaiting
    <3> QED BY <3>1, <3>4 DEF Waits
  <2>3. CASE BlockSelf
    BY <1>2, <1>4, <2>3 DEF BlockSelf
  <2> QED BY <1>10, <2>1, <2>2, <2>3 DEF UthreadBlock, Block
<1>11. ASSUME NEW tid \in TidArgs, UthreadResume(tid) PROVE Waits
  <2>1. CASE tid \in DOMAIN threads /\ ResumeBlocked(tid)
    <3>1. tid \in ThreadIds
      BY <1>1, <2>1
    <3> QED BY <1>2, <1>3, <2>1, <3>1 DEF ResumeBlocked
  <2> QED BY <1>2, <1>11, <2>1 DEF UthreadResume, Resume, ReturnsAtOnce
<1>12. ASSUME NEW n \in SleepArgs, UthreadSleep(n) PROVE Waits
  BY <1>2, <1>4, <1>12 DEF UthreadSleep, Sleep, ReturnsAtOnce
<1>13. ASSUME NEW tid \in TidArgs, UthreadGetQuantums(tid) PROVE Waits
  BY <1>2, <1>13 DEF UthreadGetQuantums
<1>14. CASE UNCHANGED vars
  BY <1>2, <1>14 DEF vars
<1> QED
  BY <1>6, <1>7, <1>8, <1>9, <1>10, <1>11, <1>12, <1>13, <1>14 DEF Next, Waits

(* A queued thread moves up with every quantum and never back.             *)
LEMMA KeepsPlace ==
  ASSUME SchedulerAssumption, TypeOK, SchedulingInv, [Next]_vars, Running, Running',
         NEW t \in Queued
  PROVE  \/ t = currentTid'
         \/ t \notin DOMAIN threads'
         \/ threads'[t].state = "BLOCKED"
         \/ /\ t \in Queued'
            /\ Position(readyQueue', t) <= Position(readyQueue, t) - (totalQuantums' - totalQuantums)
<1>1. TypeOK'
  BY TypeNext
<1>2. Turns!TurnNext \/ UNCHANGED Turns!turnVars
  BY TurnsStep
<1> QED BY <1>1, <1>2, TurnsKeepPlace, LeavesToWait

(* Round robin: with every quantum a queued thread moves up one place, and *)
(* it leaves the queue only to run, to be BLOCKED or to be deleted.        *)
THEOREM TurnsComeRound == Spec => RoundRobin
<1> DEFINE Moves == Running /\ Running' =>
        \A t \in Queued :
          \/ t = currentTid'
          \/ t \notin DOMAIN threads'
          \/ threads'[t].state = "BLOCKED"
          \/ /\ t \in Queued'
             /\ Position(readyQueue', t) <= Position(readyQueue, t) - (totalQuantums' - totalQuantums)
<1>1. TypeOK /\ SchedulingInv /\ [Next]_vars => [Moves]_vars
  BY SchedulerAssumption, KeepsPlace
<1> QED BY <1>1, SchedulingInvariant, PTL DEF Spec, RoundRobin

-----------------------------------------------------------------------------
(* Clients in which threads end themselves or others do it, but not both.  *)
(*                                                                         *)
(* doContextSwitch deletes whatever has the pending tid.  That is still    *)
(* the thread that ended itself, unless another call has deleted it first  *)
(* and spawn has given the tid away.                                       *)

EndsOneWay == ~({"terminate_self", "terminate_other"} \subseteq Usage)

PendingIsKnown ==
  Running => /\ "terminate_self" \notin Usage => pendingDeletionTid = NoTid
             /\ PendingHasEnded(threads, pendingDeletionTid)

(* Whoever a step removes has ended itself before, or does so in this      *)
(* step, or is named in the call of terminate that returns.                *)
OnlyEndedGoes ==
  \A t \in DOMAIN threads \ DOMAIN threads' :
    t \in Zombies \cup {currentTid} \/ reply' = Reply("terminate", t, 0)

(* A switch deletes the pending thread or nobody.                          *)
LEMMA SwitchDeletes ==
  ASSUME currentTid \in ThreadIds, NEW table, TableOK(table), currentTid \in DOMAIN table,
         NEW queue, NEW sleepers, NEW pending,
         NEW site \in {"timer", "terminate", "block", "sleep"},
         DoContextSwitch(table, queue, sleepers, pending, site), status' = "running"
  PROVE  /\ DOMAIN table \ {pending} \subseteq DOMAIN threads'
         /\ \A t \in DOMAIN threads' :
              t \in DOMAIN table /\ threads'[t].env = IF t = currentTid THEN site ELSE table[t].env
         /\ \/ pendingDeletionTid' = NoTid
            \/ pendingDeletionTid' = pending /\ DOMAIN threads' = DOMAIN table
<1> DEFINE saved  == Saved(table, pending, site)
           ready  == Requeued(table, pending, queue)
           next   == NextThread(ready)
           starts == With(saved, next, Dispatched(saved[next], ready))
<1>1. ~SwitchFaults(saved, pending, next)
  BY DEF DoContextSwitch, Crash
<1>2. /\ threads' = IF IsResumed(saved[next]) THEN Without(starts, pending) ELSE starts
      /\ pendingDeletionTid' = PendingAfter(saved[next], pending)
      /\ next \in DOMAIN saved
  BY <1>1 DEF DoContextSwitch, SwitchFaults
<1>3. /\ DOMAIN saved = DOMAIN table
      /\ \A t \in DOMAIN table : /\ saved[t] \in ThreadObject
                                 /\ saved[t].env = IF t = currentTid THEN site ELSE table[t].env
  <2>1. table[currentTid] \in ThreadObject
    BY DEF TableOK
  <2>2. SaveEnv(table[currentTid], site) \in ThreadObject /\ SaveEnv(table[currentTid], site).env = site
    BY <2>1, ThreadMethods, ThreadFields DEF Context
  <2>3. /\ SetState(SaveEnv(table[currentTid], site), "READY") \in ThreadObject
        /\ SetState(SaveEnv(table[currentTid], site), "READY").env = site
    BY <2>2, ThreadMethods, ThreadFields DEF ThreadState
  <2> QED BY <2>1, <2>2, <2>3 DEF Saved, TableOK
<1> HIDE DEF saved, ready, next
<1>4. Dispatched(saved[next], ready).env = saved[next].env
  <2>1. saved[next] \in ThreadObject /\ SetState(saved[next], "RUNNING") \in ThreadObject
    BY <1>2, <1>3, ThreadMethods DEF ThreadState
  <2> QED BY <2>1, ThreadFields DEF Dispatched
<1>5. /\ DOMAIN starts = DOMAIN table
      /\ \A t \in DOMAIN table : starts[t].env = IF t = currentTid THEN site ELSE table[t].env
  BY <1>2, <1>3, <1>4 DEF With
<1> HIDE DEF starts
<1>6. CASE IsResumed(saved[next])
  BY <1>2, <1>5, <1>6 DEF Without, PendingAfter
<1>7. CASE ~IsResumed(saved[next])
  BY <1>2, <1>5, <1>7 DEF PendingAfter
<1> QED BY <1>6, <1>7

LEMMA OnlyEndedGo ==
  ASSUME SchedulerAssumption, EndsOneWay, TypeOK, SchedulingInv, PendingIsKnown, [Next]_vars
  PROVE  PendingIsKnown' /\ (Running /\ Running' => OnlyEndedGoes)
<1> DEFINE Goal == PendingIsKnown' /\ (Running /\ Running' => OnlyEndedGoes)
<1>1. /\ TableOK(threads) /\ currentTid \in ThreadIds /\ NoTid \notin ThreadIds
      /\ \A t \in DOMAIN threads : threads[t] \in ThreadObject
  BY DEF TypeOK, TableOK, ThreadIds, NoTid
<1>2. status = "running" =>
        /\ Running
        /\ currentTid \in DOMAIN threads /\ threads[currentTid].state = "RUNNING"
        /\ currentTid # pendingDeletionTid
        /\ "terminate_self" \notin Usage => pendingDeletionTid = NoTid
        /\ PendingHasEnded(threads, pendingDeletionTid)
  BY DEF SchedulingInv, CurrentRuns, PendingIsKnown, Running
\* No thread is removed, and none changes its context.
<1>3. ASSUME status = "running", UNCHANGED <<pendingDeletionTid, status>>,
             DOMAIN threads \subseteq DOMAIN threads',
             \A t \in DOMAIN threads : threads'[t].env = threads[t].env
      PROVE  Goal
  BY <1>2, <1>3 DEF PendingIsKnown, PendingHasEnded, OnlyEndedGoes
<1>4. ASSUME UNCHANGED <<threads, pendingDeletionTid, status>> PROVE Goal
  BY <1>4 DEF PendingIsKnown, PendingHasEnded, OnlyEndedGoes, Running
<1>5. ASSUME NEW tid \in DOMAIN threads, NEW thread, thread.env = threads[tid].env,
             threads' = [threads EXCEPT ![tid] = thread], status = "running",
             UNCHANGED <<pendingDeletionTid, status>>
      PROVE  Goal
  BY <1>1, <1>3, <1>5
\* Whoever the switch deletes had ended, or is ending itself.
<1>6. ASSUME status = "running",
             NEW table, TableOK(table), DOMAIN table = DOMAIN threads,
             \A t \in DOMAIN threads \ {currentTid} : table[t].env = threads[t].env,
             NEW queue, NEW sleepers, NEW pending,
             NEW site \in {"timer", "terminate", "block", "sleep"},
             \/ pending = pendingDeletionTid
             \/ pending = currentTid /\ site = "terminate" /\ "terminate_self" \in Usage,
             DoContextSwitch(table, queue, sleepers, pending, site)
      PROVE  Goal
  <2>1. CASE status' = "crashed"
    BY <2>1 DEF PendingIsKnown, Running
  <2>2. CASE status' = "running"
    <3>1. /\ DOMAIN threads \ {pending} \subseteq DOMAIN threads'
          /\ \A t \in DOMAIN threads' :
               threads'[t].env = IF t = currentTid THEN site ELSE table[t].env
          /\ \/ pendingDeletionTid' = NoTid
             \/ pendingDeletionTid' = pending /\ DOMAIN threads' = DOMAIN threads
      BY <1>1, <1>2, <1>6, <2>2, SwitchDeletes
    <3>2. PendingIsKnown'
      BY <1>1, <1>2, <1>6, <3>1 DEF PendingIsKnown, PendingHasEnded
    <3>3. OnlyEndedGoes
      <4> SUFFICES ASSUME NEW t \in DOMAIN threads \ DOMAIN threads', t # currentTid
                   PROVE  threads[t].env = "terminate"
        BY DEF OnlyEndedGoes, Zombies
      <4>1. t = pendingDeletionTid /\ t # NoTid
        BY <1>1, <1>6, <3>1 DEF TableOK
      <4> QED BY <1>2, <1>6, <4>1 DEF PendingHasEnded
    <3> QED BY <3>2, <3>3
  <2>3. status' \in {"running", "crashed"}
    BY <1>6 DEF DoContextSwitch, Crash
  <2> QED BY <2>1, <2>2, <2>3
\* The running thread gives up the processor.
<1>7. ASSUME status = "running", NEW thread \in ThreadObject, NEW queue, NEW sleepers, NEW pending,
             NEW site \in {"timer", "terminate", "block", "sleep"},
             \/ pending = pendingDeletionTid
             \/ pending = currentTid /\ site = "terminate" /\ "terminate_self" \in Usage,
             DoContextSwitch([threads EXCEPT ![currentTid] = thread], queue, sleepers, pending, site)
      PROVE  Goal
  <2> DEFINE table == [threads EXCEPT ![currentTid] = thread]
  <2>1. /\ TableOK(table) /\ DOMAIN table = DOMAIN threads
        /\ \A t \in DOMAIN threads \ {currentTid} : table[t].env = threads[t].env
    BY <1>1, <1>7, TableUpdates
  <2>2. DoContextSwitch(table, queue, sleepers, pending, site)
    BY <1>7
  <2> HIDE DEF table
  <2> QED BY <1>6, <1>7, <2>1, <2>2
<1>8. \A t \in DOMAIN threads :
        /\ \A state \in ThreadState : /\ SetState(threads[t], state) \in ThreadObject
                                      /\ SetState(threads[t], state).env = threads[t].env
        /\ SetBlockFlag(threads[t], FALSE).env = threads[t].env
        /\ SetBlockFlag(SetState(threads[t], "BLOCKED"), TRUE) \in ThreadObject
        /\ SetBlockFlag(SetState(threads[t], "BLOCKED"), TRUE).env = threads[t].env
  <2> SUFFICES ASSUME NEW t \in DOMAIN threads
               PROVE  /\ \A state \in ThreadState : /\ SetState(threads[t], state) \in ThreadObject
                                                    /\ SetState(threads[t], state).env = threads[t].env
                      /\ SetBlockFlag(threads[t], FALSE).env = threads[t].env
                      /\ SetBlockFlag(SetState(threads[t], "BLOCKED"), TRUE) \in ThreadObject
                      /\ SetBlockFlag(SetState(threads[t], "BLOCKED"), TRUE).env = threads[t].env
    OBVIOUS
  <2>1. \A state \in ThreadState : /\ SetState(threads[t], state) \in ThreadObject
                                   /\ SetState(threads[t], state).env = threads[t].env
    BY <1>1, ThreadMethods, ThreadFields
  <2>2. "BLOCKED" \in ThreadState /\ threads[t] \in ThreadObject
    BY <1>1 DEF ThreadState
  <2>3. /\ SetBlockFlag(SetState(threads[t], "BLOCKED"), TRUE) \in ThreadObject
        /\ SetBlockFlag(SetState(threads[t], "BLOCKED"), TRUE).env = threads[t].env
    <3>1. /\ SetState(threads[t], "BLOCKED") \in ThreadObject
          /\ SetState(threads[t], "BLOCKED").env = threads[t].env
      BY <2>1, <2>2
    <3> QED BY <3>1, ThreadMethods, ThreadFields
  <2>4. SetBlockFlag(threads[t], FALSE).env = threads[t].env
    BY <2>2, ThreadFields
  <2> QED BY <2>1, <2>3, <2>4
<1>9. "READY" \in ThreadState /\ "BLOCKED" \in ThreadState /\ "RUNNING" \in ThreadState
  BY DEF ThreadState
<1>10. ASSUME NEW usecs \in InitArgs, UthreadInit(usecs) PROVE Goal
  <2>1. CASE usecs <= 0
    BY <1>4, <1>10, <2>1 DEF UthreadInit, ReturnsAtOnce
  <2>2. CASE ~(usecs <= 0)
    BY <1>10, <2>2 DEF UthreadInit, SchedulerInit, SchedulingInv, NotStarted, PendingIsKnown,
                       PendingHasEnded, Running
  <2> QED BY <2>1, <2>2
<1>11. ASSUME TimerHandler PROVE Goal
  <2>1. status = "running"
    BY <1>11 DEF TimerHandler
  <2>2. CASE Due \subseteq DOMAIN threads
    <3>1. PICK order \in SetToSeqs(Woken) :
            DoContextSwitch(Awakened, readyQueue \o order, StillAsleep, pendingDeletionTid, "timer")
      BY <1>11, <2>2 DEF TimerHandler
    <3>2. TableOK(Awakened) /\ DOMAIN Awakened = DOMAIN threads
          /\ \A t \in DOMAIN threads : Awakened[t].env = threads[t].env
      <4>1. \A t \in DOMAIN threads :
              Awakened[t] \in ThreadObject /\ Awakened[t].env = threads[t].env
        BY <1>1, <1>8, <1>9 DEF Awakened
      <4> QED BY <1>1, <4>1 DEF Awakened, TableOK
    <3> QED BY <1>6, <2>1, <3>1, <3>2
  <2>3. CASE ~(Due \subseteq DOMAIN threads)
    <3>1. Crash
      BY <1>11, <2>3 DEF TimerHandler
    <3> QED BY <3>1 DEF Crash, PendingIsKnown, Running
  <2> QED BY <2>2, <2>3
<1>12. ASSUME NEW hasEntryPoint \in BOOLEAN, UthreadSpawn(hasEntryPoint) PROVE Goal
  <2>1. CASE ReturnsAtOnce("spawn", currentTid, -1)
    BY <1>4, <2>1 DEF ReturnsAtOnce
  <2>2. CASE NextAvailableTid # NoTid /\ SpawnAs(NextAvailableTid)
    <3>1. NextAvailableTid \notin DOMAIN threads
      BY <2>2, AvailableTid
    <3>2. status = "running"
      BY <1>12 DEF UthreadSpawn, MayCall
    <3> QED BY <1>3, <2>2, <3>1, <3>2 DEF SpawnAs, With
  <2> QED BY <1>12, <2>1, <2>2 DEF UthreadSpawn, Spawn
<1>13. ASSUME NEW tid \in TidArgs, UthreadTerminate(tid) PROVE Goal
  <2>1. status = "running"
    BY <1>13 DEF UthreadTerminate, MayCall
  <2>2. CASE ReturnsAtOnce("terminate", tid, -1)
    BY <1>4, <2>2 DEF ReturnsAtOnce
  <2>3. CASE TerminateMain
    <3>1. status' \in {"exited", "crashed"}
      BY <2>3 DEF TerminateMain
    <3> QED BY <3>1 DEF PendingIsKnown, Running
  <2>4. CASE TerminateSelf /\ "terminate_self" \in Usage
    <3>1. CASE Purged(currentTid) = <<>>
      BY <1>4, <2>4, <3>1 DEF TerminateSelf
    <3>2. CASE Purged(currentTid) # <<>>
      <4>1. DoContextSwitch([threads EXCEPT ![currentTid] = SetState(threads[currentTid], "READY")],
                            Purged(currentTid), sleepingThreads, currentTid, "terminate")
        BY <2>4, <3>2 DEF TerminateSelf
      <4>2. SetState(threads[currentTid], "READY") \in ThreadObject
        BY <1>2, <1>8, <1>9, <2>1
      <4> QED BY <1>7, <2>1, <2>4, <4>1, <4>2
    <3> QED BY <3>1, <3>2
  <2>5. CASE TerminateOther(tid) /\ "terminate_other" \in Usage
    <3>1. pendingDeletionTid = NoTid
      BY <1>2, <2>1, <2>5 DEF EndsOneWay
    <3> QED BY <2>5, <3>1 DEF TerminateOther, Deleted, Without, Returns, PendingIsKnown,
                              PendingHasEnded, OnlyEndedGoes
  <2> QED BY <1>13, <2>2, <2>3, <2>4, <2>5 DEF UthreadTerminate, MayCall
<1>14. ASSUME NEW tid \in TidArgs, UthreadBlock(tid) PROVE Goal
  <2>1. status = "running"
    BY <1>14 DEF UthreadBlock, MayCall
  <2>2. CASE ReturnsAtOnce("block", tid, -1) \/ ReturnsAtOnce("block", tid, 0)
    BY <1>4, <2>2 DEF ReturnsAtOnce
  <2>3. CASE tid \in DOMAIN threads /\ BlockWaiting(tid)
    BY <1>5, <1>8, <2>1, <2>3 DEF BlockWaiting
  <2>4. CASE BlockSelf
    <3>1. CASE readyQueue = <<>>
      BY <1>4, <2>4, <3>1 DEF BlockSelf
    <3>2. CASE readyQueue # <<>>
      <4>1. DoContextSwitch([threads EXCEPT ![currentTid] =
                               SetBlockFlag(SetState(threads[currentTid], "BLOCKED"), TRUE)],
                            readyQueue, sleepingThreads, pendingDeletionTid, "block")
        BY <2>4, <3>2 DEF BlockSelf
      <4>2. SetBlockFlag(SetState(threads[currentTid], "BLOCKED"), TRUE) \in ThreadObject
        BY <1>2, <1>8, <2>1
      <4> QED BY <1>7, <2>1, <4>1, <4>2
    <3> QED BY <3>1, <3>2
  <2> QED BY <1>14, <2>2, <2>3, <2>4 DEF UthreadBlock, Block
<1>15. ASSUME NEW tid \in TidArgs, UthreadResume(tid) PROVE Goal
  <2>1. status = "running"
    BY <1>15 DEF UthreadResume, MayCall
  <2>2. CASE ReturnsAtOnce("resume", tid, -1) \/ ReturnsAtOnce("resume", tid, 0)
    BY <1>4, <2>2 DEF ReturnsAtOnce
  <2>3. CASE tid \in DOMAIN threads /\ ResumeBlocked(tid)
    <3>1. \/ threads' = [threads EXCEPT ![tid] = SetBlockFlag(threads[tid], FALSE)]
          \/ threads' = [threads EXCEPT ![tid] = SetState(threads[tid], "READY")]
      BY <2>3 DEF ResumeBlocked
    <3>2. UNCHANGED <<pendingDeletionTid, status>>
      BY <2>3 DEF ResumeBlocked
    <3> QED BY <1>5, <1>8, <1>9, <2>1, <2>3, <3>1, <3>2
  <2> QED BY <1>15, <2>2, <2>3 DEF UthreadResume, Resume
<1>16. ASSUME NEW n \in SleepArgs, UthreadSleep(n) PROVE Goal
  <2>1. status = "running"
    BY <1>16 DEF UthreadSleep, MayCall
  <2>2. CASE ReturnsAtOnce("sleep", currentTid, -1)
    BY <1>4, <2>2 DEF ReturnsAtOnce
  <2>3. CASE Sleep(n)
    <3>1. CASE readyQueue = <<>>
      BY <1>2, <1>5, <1>8, <1>9, <2>1, <2>3, <3>1 DEF Sleep
    <3>2. CASE readyQueue # <<>>
      <4>1. DoContextSwitch([threads EXCEPT ![currentTid] = SetState(threads[currentTid], "BLOCKED")],
                            readyQueue, With(sleepingThreads, currentTid, IntAdd(totalQuantums, n)),
                            pendingDeletionTid, "sleep")
        BY <2>3, <3>2 DEF Sleep
      <4>2. SetState(threads[currentTid], "BLOCKED") \in ThreadObject
        BY <1>2, <1>8, <1>9, <2>1
      <4> QED BY <1>7, <2>1, <4>1, <4>2
    <3> QED BY <3>1, <3>2
  <2> QED BY <1>16, <2>2, <2>3 DEF UthreadSleep
<1>17. ASSUME NEW tid \in TidArgs, UthreadGetQuantums(tid) PROVE Goal
  BY <1>4, <1>17 DEF UthreadGetQuantums
<1>18. CASE UNCHANGED vars
  BY <1>4, <1>18 DEF vars
<1> QED
  BY <1>10, <1>11, <1>12, <1>13, <1>14, <1>15, <1>16, <1>17, <1>18 DEF Next

(* Only a thread that has ended itself, or that a call of terminate names, *)
(* ever disappears, as long as no client ends threads in both ways.        *)
THEOREM OnlyTerminatedGo == ASSUME EndsOneWay PROVE Spec => OnlyTerminatedDisappear
<1>1. Init => PendingIsKnown
  BY DEF Init, PendingIsKnown, Running
<1>2. TypeOK /\ SchedulingInv /\ PendingIsKnown /\ [Next]_vars => PendingIsKnown'
  BY SchedulerAssumption, OnlyEndedGo
<1>3. TypeOK /\ SchedulingInv /\ PendingIsKnown /\ [Next]_vars =>
        [Running /\ Running' =>
           \A t \in DOMAIN threads \ DOMAIN threads' :
             t \in Zombies \cup {currentTid} \/ reply' = Reply("terminate", t, 0)]_vars
  BY SchedulerAssumption, OnlyEndedGo DEF OnlyEndedGoes
<1> QED BY <1>1, <1>2, <1>3, SchedulingInvariant, PTL DEF Spec, OnlyTerminatedDisappear

================================================================================
