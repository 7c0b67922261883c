------------------------- MODULE SchedulerSafetyProofs -------------------------
(***************************************************************************)
(* The scheduling invariant of module Scheduler and what follows from it   *)
(* under every usage of the library.                                       *)
(*                                                                         *)
(* None of the properties is inductive.  That a thread other than the one  *)
(* named by pendingDeletionTid runs next, for one, hangs on main: main has *)
(* run before, so it deletes the pending thread as soon as it runs again,  *)
(* and it is in the ready queue ahead of any newer thread that was given   *)
(* the pending tid.  That in turn needs main never to be BLOCKED, deleted, *)
(* asleep or queued twice.                                                 *)
(***************************************************************************)
EXTENDS SchedulerTypeProofs

(* The parts of the invariant are stated of a thread table, a queue and a  *)
(* pending tid, because the callers of doContextSwitch prepare these for   *)
(* it, and of the thread that runs (or is about to stop).                  *)

(* Main can be scheduled: it runs or it is READY, and has one entry.       *)
MainReady(table, queue, sleepers, pending) ==
  /\ 0 \in DOMAIN table
  /\ IsResumed(table[0])
  /\ table[0].state = IF currentTid = 0 THEN "RUNNING" ELSE "READY"
  /\ 0 \notin DOMAIN sleepers
  /\ pending # 0
  /\ currentTid = 0 <=> 0 \notin ToSet(queue)
  /\ AtMostOnce(queue, 0)

(* A thread that would start, not resume, under the pending tid waits      *)
(* behind main.                                                            *)
PendingBehindMain(table, queue, pending) ==
  pending # NoTid =>
    /\ currentTid # 0
    /\ \/ pending = currentTid
       \/ pending \in DOMAIN table /\ IsResumed(table[pending])
       \/ Precedes(queue, 0, pending)

(* Every other thread is in the queue, BLOCKED, or ended; not two of them. *)
OthersWait(table, queue) ==
  \A t \in DOMAIN table \ {currentTid} :
    /\ table[t].state # "RUNNING"
    /\ table[t].state = "BLOCKED" => t \notin ToSet(queue)
    /\ t \in ToSet(queue) \/ table[t].state = "BLOCKED" \/ table[t].env = "terminate"

CurrentRuns ==
  /\ currentTid \in DOMAIN threads
  /\ threads[currentTid].state = "RUNNING"
  /\ currentTid # pendingDeletionTid

NotStarted ==
  /\ readyQueue = <<>>
  /\ DOMAIN sleepingThreads = {}
  /\ pendingDeletionTid = NoTid
  /\ currentTid = 0

SchedulingInv ==
  /\ status = "new" => NotStarted
  /\ Running =>
       /\ MainReady(threads, readyQueue, sleepingThreads, pendingDeletionTid)
       /\ PendingBehindMain(threads, readyQueue, pendingDeletionTid)
       /\ OthersWait(threads, readyQueue)
       /\ CurrentRuns

(* What the methods of Thread change, and what they do not.                *)
LEMMA ThreadFields ==
  ASSUME NEW thread \in ThreadObject
  PROVE  /\ \A site : /\ SaveEnv(thread, site).state = thread.state
                      /\ SaveEnv(thread, site).env = site
         /\ \A state : /\ SetState(thread, state).state = state
                       /\ SetState(thread, state).env = thread.env
         /\ \A flag : /\ SetBlockFlag(thread, flag).state = thread.state
                      /\ SetBlockFlag(thread, flag).env = thread.env
         /\ IncrementQuantumCount(thread).state = thread.state
         /\ IncrementQuantumCount(thread).env = thread.env
BY DEF ThreadObject, SaveEnv, SetState, SetBlockFlag, IncrementQuantumCount

(* The switch as the rest of the system sees it: who waits and runs after  *)
(* it, what is left in the table, and what becomes of the pending tid.     *)
SwitchedFrom(table, queue, pending, site) ==
  /\ {currentTid'} \cup ToSet(readyQueue') =
       ToSet(queue) \cup (IF pending = currentTid THEN {} ELSE {currentTid})
  /\ currentTid # 0 => \A b : Precedes(queue, 0, b) => Precedes(readyQueue', 0, b)
  /\ DOMAIN threads' \subseteq DOMAIN table
  /\ DOMAIN table \ {pending} \subseteq DOMAIN threads'
  /\ \A t \in DOMAIN threads' :
       /\ threads'[t].state = IF t = currentTid' THEN "RUNNING"
                              ELSE IF t = currentTid THEN "READY" ELSE table[t].state
       /\ threads'[t].env = IF t = currentTid THEN site ELSE table[t].env
  /\ \/ /\ pendingDeletionTid' = NoTid
        /\ pending \notin DOMAIN threads'
     \/ /\ pendingDeletionTid' = pending
        /\ DOMAIN threads' = DOMAIN table
        /\ currentTid' # currentTid
        /\ ~IsResumed(table[currentTid'])

(* doContextSwitch, from what its caller prepared, leaves main and the     *)
(* pending thread as they should be.                                       *)
LEMMA SwitchOutcome ==
  ASSUME SchedulerAssumption, currentTid \in ThreadIds,
         NEW table, TableOK(table), currentTid \in DOMAIN table,
         NEW queue \in Seq(ThreadIds), NEW sleepers,
         NEW pending \in ThreadIds \cup {NoTid},
         NEW site \in {"timer", "terminate", "block", "sleep"},
         MainReady(table, queue, sleepers, pending),
         PendingBehindMain(table, queue, pending),
         \A t \in DOMAIN table \ {currentTid} : table[t].state # "RUNNING",
         pending = currentTid => table[currentTid].state = "READY",
         DoContextSwitch(table, queue, sleepers, pending, site),
         status' = "running"
  PROVE  /\ MainReady(threads, readyQueue, sleepingThreads, pendingDeletionTid)'
         /\ PendingBehindMain(threads, readyQueue, pendingDeletionTid)'
         /\ CurrentRuns'
         /\ SwitchedFrom(table, queue, pending, site)
<1> DEFINE saved  == Saved(table, pending, site)
           ready  == Requeued(table, pending, queue)
           next   == NextThread(ready)
           starts == With(saved, next, Dispatched(saved[next], ready))
<1>1. ~SwitchFaults(saved, pending, next)
  BY DEF DoContextSwitch, Crash
<1>2. /\ currentTid' = next
      /\ readyQueue' = IF ready = <<>> THEN <<>> ELSE Tail(ready)
      /\ sleepingThreads' = sleepers
      /\ threads' = IF IsResumed(saved[next]) THEN Without(starts, pending) ELSE starts
      /\ pendingDeletionTid' = PendingAfter(saved[next], pending)
  BY <1>1 DEF DoContextSwitch
<1>3. next \in DOMAIN saved /\ ~(IsResumed(saved[next]) /\ next = pending)
  BY <1>1 DEF SwitchFaults
<1>4. /\ DOMAIN saved = DOMAIN table
      /\ \A t \in DOMAIN table \ {currentTid} : saved[t] = table[t]
      /\ saved[currentTid].env = site
      /\ saved[currentTid].state = IF Requeues(table, pending) THEN "READY"
                                   ELSE table[currentTid].state
      /\ \A t \in DOMAIN table : saved[t] \in ThreadObject
  <2>1. table[currentTid] \in ThreadObject
    BY DEF TableOK
  <2>2. SaveEnv(table[currentTid], site) \in ThreadObject
    BY <2>1, ThreadMethods DEF Context
  <2>3. SetState(SaveEnv(table[currentTid], site), "READY") \in ThreadObject
    BY <2>2, ThreadMethods DEF ThreadState
  <2> QED BY <2>1, <2>2, <2>3, ThreadFields DEF Saved, TableOK
<1> HIDE DEF saved, ready
<1>5. IsResumed(saved[currentTid])
  BY <1>4 DEF IsResumed
<1>6. /\ Dispatched(saved[next], ready).env = saved[next].env
      /\ Dispatched(saved[next], ready).state =
           IF ready = <<>> THEN saved[next].state ELSE "RUNNING"
  <2>1. saved[next] \in ThreadObject /\ SetState(saved[next], "RUNNING") \in ThreadObject
    BY <1>3, <1>4, ThreadMethods DEF ThreadState
  <2> QED BY <2>1, ThreadFields DEF Dispatched
<1>7. /\ next \in DOMAIN threads'
      /\ threads'[next] = Dispatched(saved[next], ready)
      /\ DOMAIN threads' \subseteq DOMAIN saved
      /\ DOMAIN saved \ {pending} \subseteq DOMAIN threads'
      /\ ~IsResumed(saved[next]) => DOMAIN threads' = DOMAIN saved
      /\ IsResumed(saved[next]) => pending \notin DOMAIN threads'
      /\ \A t \in DOMAIN threads' \ {next} : threads'[t] = saved[t]
  <2> HIDE DEF next
  <2> QED BY <1>2, <1>3 DEF With, Without
<1>8. \A t \in DOMAIN threads' : threads'[t].env = IF t = currentTid THEN site ELSE table[t].env
  BY <1>4, <1>6, <1>7
<1>9. \/ pendingDeletionTid' = NoTid /\ pending \notin DOMAIN threads'
      \/ /\ pendingDeletionTid' = pending
         /\ DOMAIN threads' = DOMAIN table
         /\ currentTid' # currentTid
         /\ ~IsResumed(table[currentTid'])
  <2>1. CASE IsResumed(saved[next])
    BY <1>2, <1>7, <2>1 DEF PendingAfter
  <2>2. CASE ~IsResumed(saved[next])
    <3>1. next # currentTid
      BY <1>5, <2>2
    <3> QED BY <1>2, <1>3, <1>4, <1>7, <2>2, <3>1 DEF PendingAfter
  <2> QED BY <2>1, <2>2
<1>10. CASE ready = <<>>
  \* Only main is left, and it goes on.
  <2>1. queue = <<>> /\ ~Requeues(table, pending)
    BY <1>10, Pushed DEF ready, Requeued
  <2>2. currentTid = 0 /\ pending = NoTid
    BY <2>1 DEF MainReady, PendingBehindMain, ToSet
  <2>3. \A t \in DOMAIN table : t = 0
    <3>1. ~(Cardinality(DOMAIN table) > 1)
      BY <2>1, <2>2 DEF Requeues, NoTid
    <3> QED BY <2>2, <3>1, TwoThreads DEF TableOK
  <2>4. next = 0
    BY <1>3, <1>4, <2>3
  <2>5. /\ 0 \in DOMAIN threads' /\ DOMAIN threads' = {0}
        /\ threads'[0].state = "RUNNING" /\ IsResumed(threads'[0])
    <3>1. 0 \in DOMAIN threads' /\ threads'[0] = Dispatched(saved[0], ready)
      BY <1>7, <2>4
    <3>2. DOMAIN threads' = {0}
      BY <1>4, <1>7, <2>3, <3>1
    <3>3. saved[0].state = "RUNNING"
      <4>1. table[0].state = "RUNNING"
        BY <2>2 DEF MainReady
      <4> QED BY <1>4, <2>1, <2>2, <4>1
    <3> QED BY <1>5, <1>6, <1>10, <2>2, <2>4, <3>1, <3>2, <3>3 DEF IsResumed
  <2>6. readyQueue' = <<>> /\ currentTid' = 0 /\ pendingDeletionTid' = NoTid
    BY <1>2, <1>10, <2>2, <2>4 DEF PendingAfter
  <2>7. ToSet(<<>>) = {} /\ AtMostOnce(<<>>, 0)
    BY DEF ToSet, AtMostOnce
  <2>8. MainReady(threads, readyQueue, sleepingThreads, pendingDeletionTid)'
    <3>1. 0 \notin DOMAIN sleepingThreads' /\ pendingDeletionTid' # 0
      BY <1>2, <2>6 DEF MainReady, NoTid
    <3>2. 0 \notin ToSet(readyQueue') /\ AtMostOnce(readyQueue', 0)
      BY <2>6, <2>7
    <3> QED BY <2>5, <2>6, <3>1, <3>2 DEF MainReady
  <2>9. PendingBehindMain(threads, readyQueue, pendingDeletionTid)' /\ CurrentRuns'
    BY <2>5, <2>6 DEF PendingBehindMain, CurrentRuns, NoTid
  <2>10. SwitchedFrom(table, queue, pending, site)
    <3>1. {currentTid'} \cup ToSet(readyQueue') =
            ToSet(queue) \cup (IF pending = currentTid THEN {} ELSE {currentTid})
      <4>1. ToSet(readyQueue') = {} /\ ToSet(queue) = {}
        BY <2>1, <2>6, <2>7
      <4> QED BY <2>2, <2>6, <4>1 DEF NoTid
    <3>2. DOMAIN threads' \subseteq DOMAIN table /\ DOMAIN table \ {pending} \subseteq DOMAIN threads'
      BY <1>4, <1>7
    <3>3. \A t \in DOMAIN threads' : t = 0
      BY <2>5
    <3> QED BY <1>8, <1>9, <2>2, <2>5, <2>6, <3>1, <3>2, <3>3 DEF SwitchedFrom
  <2> QED BY <2>8, <2>9, <2>10
<1>11. CASE ready # <<>>
  <2>1. Requeues(table, pending) \/ pending = currentTid
    <3> SUFFICES ASSUME ~Requeues(table, pending), pending # currentTid PROVE FALSE
      OBVIOUS
    <3>1. ~(Cardinality(DOMAIN table) > 1)
      BY DEF Requeues
    <3>2. currentTid = 0 /\ \A t \in DOMAIN table : t = 0
      BY <3>1, TwoThreads DEF TableOK, MainReady
    <3>3. ready = queue
      BY DEF ready, Requeued
    <3>4. next \in ToSet(queue)
      BY <1>11, <3>3, Popped DEF NextThread
    <3> QED BY <1>3, <1>4, <3>2, <3>4 DEF MainReady
  \* The queue with the running thread in it, unless that has ended.
  <2>2. /\ ready \in Seq(ThreadIds)
        /\ 0 \in ToSet(ready)
        /\ AtMostOnce(ready, 0)
        /\ ToSet(ready) = ToSet(queue) \cup (IF pending = currentTid THEN {} ELSE {currentTid})
    <3>1. CASE Requeues(table, pending)
      <4>1. ready = Append(queue, currentTid) /\ pending # currentTid
        BY <3>1 DEF ready, Requeued, Requeues
      <4> QED BY <4>1, Pushed DEF MainReady
    <3>2. CASE ~Requeues(table, pending)
      <4>1. ready = queue /\ pending = currentTid
        BY <2>1, <3>2 DEF ready, Requeued
      <4> QED BY <4>1 DEF MainReady
    <3> QED BY <3>1, <3>2
  <2>3. saved[currentTid].state = "READY"
    BY <1>4, <2>1
  <2>4. 0 \in DOMAIN saved /\ saved[0].state = "READY" /\ IsResumed(saved[0])
    BY <1>4, <1>5, <2>3 DEF MainReady
  <2>5. ASSUME currentTid # 0, NEW b, Precedes(queue, 0, b) PROVE Precedes(ready, 0, b)
    <3>1. Precedes(Append(queue, currentTid), 0, b)
      BY <2>5, Pushed
    <3>2. ready = queue \/ ready = Append(queue, currentTid)
      BY DEF ready, Requeued
    <3> QED BY <2>5, <3>1, <3>2
  <2>6. pending # NoTid =>
          \/ pending \in DOMAIN saved /\ IsResumed(saved[pending])
          \/ Precedes(ready, 0, pending)
    <3> SUFFICES ASSUME pending # NoTid, pending # currentTid,
                        ~(pending \in DOMAIN saved /\ IsResumed(saved[pending]))
                 PROVE  Precedes(ready, 0, pending)
      BY <1>4, <1>5
    <3>1. currentTid # 0 /\ Precedes(queue, 0, pending)
      BY <1>4 DEF PendingBehindMain
    <3> QED BY <2>5, <3>1
  \* The thread at the head starts a quantum.
  <2>7. /\ next = Head(ready)
        /\ readyQueue' = Tail(ready)
        /\ currentTid' = next
        /\ threads'[next].state = "RUNNING"
        /\ threads'[next].env = saved[next].env
    BY <1>2, <1>6, <1>7, <1>11 DEF NextThread
  <2>8. /\ ToSet(ready) = {next} \cup ToSet(Tail(ready))
        /\ AtMostOnce(Tail(ready), 0)
        /\ next = 0 => 0 \notin ToSet(Tail(ready))
        /\ \A b : Precedes(ready, 0, b) => Precedes(Tail(ready), 0, b) /\ b # next
    BY <1>11, <2>2, <2>7, Popped
  <2>9. next = pending => pending = NoTid
    BY <1>3, <2>6, <2>8
  <2>10. MainReady(threads, readyQueue, sleepingThreads, pendingDeletionTid)'
    <3>1. 0 \in DOMAIN threads'
      BY <1>7, <2>4 DEF MainReady
    <3>2. IsResumed(threads'[0])
      BY <1>7, <2>4, <2>7, <3>1 DEF IsResumed
    <3>3. threads'[0].state = IF next = 0 THEN "RUNNING" ELSE "READY"
      BY <1>7, <2>4, <2>7, <3>1
    <3>4. pendingDeletionTid' # 0
      BY <1>2 DEF MainReady, PendingAfter, NoTid
    <3>5. next = 0 <=> 0 \notin ToSet(Tail(ready))
      BY <2>2, <2>8
    <3> QED BY <1>2, <2>7, <2>8, <3>1, <3>2, <3>3, <3>4, <3>5 DEF MainReady
  <2>11. PendingBehindMain(threads, readyQueue, pendingDeletionTid)'
    <3>1. CASE IsResumed(saved[next])
      BY <1>2, <3>1 DEF PendingBehindMain, PendingAfter
    <3>2. CASE ~IsResumed(saved[next])
      <4>1. pendingDeletionTid' = pending /\ next # 0 /\ DOMAIN threads' = DOMAIN saved
        BY <1>2, <1>7, <2>4, <3>2 DEF PendingAfter
      <4>2. ASSUME pending # NoTid, pending \in DOMAIN saved, IsResumed(saved[pending])
            PROVE  IsResumed(threads'[pending])
        BY <1>7, <2>7, <4>1, <4>2 DEF IsResumed
      <4> QED BY <2>6, <2>7, <2>8, <4>1, <4>2 DEF PendingBehindMain
    <3> QED BY <3>1, <3>2
  <2>12. CurrentRuns'
    <3>1. next # NoTid
      BY <1>11, <2>2, <2>7, Popped DEF ThreadIds, NoTid, SchedulerAssumption
    <3> QED BY <1>2, <1>7, <2>7, <2>9, <3>1 DEF CurrentRuns, PendingAfter
  <2>13. SwitchedFrom(table, queue, pending, site)
    <3>1. {currentTid'} \cup ToSet(readyQueue') =
            ToSet(queue) \cup (IF pending = currentTid THEN {} ELSE {currentTid})
      BY <2>2, <2>7, <2>8
    <3>2. currentTid # 0 => \A b : Precedes(queue, 0, b) => Precedes(readyQueue', 0, b)
      BY <2>5, <2>7, <2>8
    <3>3. DOMAIN threads' \subseteq DOMAIN table /\ DOMAIN table \ {pending} \subseteq DOMAIN threads'
      BY <1>4, <1>7
    <3>4. \A t \in DOMAIN threads' :
            threads'[t].state = IF t = currentTid' THEN "RUNNING"
                                ELSE IF t = currentTid THEN "READY" ELSE table[t].state
      BY <1>4, <1>7, <2>3, <2>7
    <3> QED BY <1>8, <1>9, <3>1, <3>2, <3>3, <3>4 DEF SwitchedFrom
  <2> QED BY <2>10, <2>11, <2>12, <2>13
<1> QED BY <1>10, <1>11

(* So it establishes the invariant for the thread it switches to.          *)
LEMMA SwitchKeepsInv ==
  ASSUME SchedulerAssumption, status = "running", currentTid \in ThreadIds,
         NEW table, TableOK(table), currentTid \in DOMAIN table,
         NEW queue \in Seq(ThreadIds), NEW sleepers,
         NEW pending \in ThreadIds \cup {NoTid},
         NEW site \in {"timer", "terminate", "block", "sleep"},
         MainReady(table, queue, sleepers, pending),
         PendingBehindMain(table, queue, pending),
         OthersWait(table, queue),
         pending = currentTid => site = "terminate" /\ table[currentTid].state = "READY",
         DoContextSwitch(table, queue, sleepers, pending, site)
  PROVE  SchedulingInv'
<1>1. CASE status' = "crashed"
  BY <1>1 DEF SchedulingInv, Running
<1>2. CASE status' = "running"
  <2>1. /\ MainReady(threads, readyQueue, sleepingThreads, pendingDeletionTid)'
        /\ PendingBehindMain(threads, readyQueue, pendingDeletionTid)'
        /\ CurrentRuns'
        /\ SwitchedFrom(table, queue, pending, site)
    BY <1>2, SwitchOutcome DEF OthersWait
  <2>2. OthersWait(threads, readyQueue)'
    BY <2>1 DEF OthersWait, SwitchedFrom
  <2> QED BY <1>2, <2>1, <2>2 DEF SchedulingInv
<1>3. status' \in {"running", "crashed"}
  BY DEF DoContextSwitch, Crash
<1> QED BY <1>1, <1>2, <1>3

LEMMA SchedulingInit == Init => SchedulingInv
BY DEF Init, SchedulingInv, NotStarted, Running

LEMMA SchedulingNext ==
  ASSUME SchedulerAssumption, TypeOK, SchedulingInv, [Next]_vars
  PROVE  SchedulingInv'
<1> USE SchedulerAssumption
<1> DEFINE Parts == /\ MainReady(threads, readyQueue, sleepingThreads, pendingDeletionTid)
                    /\ PendingBehindMain(threads, readyQueue, pendingDeletionTid)
                    /\ OthersWait(threads, readyQueue)
                    /\ CurrentRuns
<1>1. /\ TableOK(threads)
      /\ \A t \in DOMAIN threads : t \in ThreadIds /\ threads[t] \in ThreadObject
      /\ readyQueue \in Seq(ThreadIds)
      /\ currentTid \in ThreadIds
      /\ pendingDeletionTid \in ThreadIds \cup {NoTid}
      /\ 0 \in ThreadIds
  BY DEF TypeOK, TableOK, ThreadIds, SchedulerAssumption
<1>2. status = "running" => Parts
  BY DEF SchedulingInv, Running
<1>3. ASSUME UNCHANGED <<threads, readyQueue, sleepingThreads, currentTid,
                         pendingDeletionTid, status>>
      PROVE  SchedulingInv'
  BY <1>3 DEF SchedulingInv, NotStarted, Running, MainReady, PendingBehindMain,
              OthersWait, CurrentRuns
<1>4. ASSUME NEW usecs \in InitArgs, UthreadInit(usecs) PROVE SchedulingInv'
  <2>1. CASE usecs <= 0
    BY <1>3, <1>4, <2>1 DEF UthreadInit, ReturnsAtOnce
  <2>2. CASE ~(usecs <= 0)
    <3>1. SchedulerInit /\ NotStarted
      BY <1>4, <2>2 DEF UthreadInit, SchedulingInv
    <3>2. /\ DOMAIN threads' = {0}
          /\ threads'[0].state = "RUNNING"
          /\ threads'[0].env = "unset"
      <4>1. NewThread(0) \in ThreadObject /\ SetState(NewThread(0), "RUNNING") \in ThreadObject
        BY ThreadMethods DEF ThreadState
      <4>2. threads'[0] = IncrementQuantumCount(SetState(NewThread(0), "RUNNING"))
        BY <3>1 DEF SchedulerInit
      <4>3. NewThread(0).env = "unset"
        BY DEF NewThread
      <4> QED BY <3>1, <4>1, <4>2, <4>3, ThreadFields DEF SchedulerInit
    <3>3. 0 \notin ToSet(<<>>) /\ AtMostOnce(<<>>, 0)
      BY DEF ToSet, AtMostOnce
    <3>4. /\ readyQueue' = <<>> /\ currentTid' = 0 /\ pendingDeletionTid' = NoTid
          /\ DOMAIN sleepingThreads' = {} /\ status' = "running"
      BY <3>1 DEF SchedulerInit, NotStarted
    <3>5. MainReady(threads, readyQueue, sleepingThreads, pendingDeletionTid)'
      <4>1. 0 \notin ToSet(readyQueue') /\ AtMostOnce(readyQueue', 0)
        BY <3>3, <3>4
      <4>2. 0 \notin DOMAIN sleepingThreads' /\ pendingDeletionTid' # 0
        BY <3>4 DEF NoTid
      <4> QED BY <3>2, <3>4, <4>1, <4>2 DEF MainReady, IsResumed
    <3>6. /\ PendingBehindMain(threads, readyQueue, pendingDeletionTid)'
          /\ OthersWait(threads, readyQueue)'
          /\ CurrentRuns'
      BY <3>2, <3>4 DEF PendingBehindMain, OthersWait, CurrentRuns, NoTid
    <3> QED BY <3>4, <3>5, <3>6 DEF SchedulingInv
  <2> QED BY <2>1, <2>2
<1>5. ASSUME TimerHandler PROVE SchedulingInv'
  <2>1. status = "running" /\ Parts
    BY <1>2, <1>5 DEF TimerHandler
  <2>2. CASE Due \subseteq DOMAIN threads
    <3> DEFINE awake == [t \in DOMAIN threads |-> IF t \in Woken THEN SetState(threads[t], "READY")
                                                 ELSE threads[t]]
               asleep == [t \in DOMAIN sleepingThreads \ Due |-> sleepingThreads[t]]
    <3>1. PICK order \in SetToSeqs(Woken) :
            DoContextSwitch(awake, readyQueue \o order, asleep, pendingDeletionTid, "timer")
      BY <1>5, <2>2 DEF TimerHandler, Awakened, StillAsleep
    <3>2. order \in Seq(ThreadIds) /\ ToSet(order) = Woken
      <4>1. Woken \subseteq ThreadIds
        BY <1>1 DEF Woken
      <4> QED BY <4>1, WakingOrder
    <3>3. 0 \notin Woken /\ DOMAIN asleep \subseteq DOMAIN sleepingThreads
      BY <2>1 DEF Woken, Due, MainReady
    <3>4. /\ DOMAIN awake = DOMAIN threads
          /\ \A t \in DOMAIN threads : /\ awake[t] \in ThreadObject
                                       /\ awake[t].env = threads[t].env
                                       /\ awake[t].state = IF t \in Woken THEN "READY"
                                                           ELSE threads[t].state
      <4>1. \A t \in DOMAIN threads : SetState(threads[t], "READY") \in ThreadObject
        BY <1>1, ThreadMethods DEF ThreadState
      <4> QED BY <1>1, <4>1, ThreadFields
    <3> DEFINE queue == readyQueue \o order
    <3>5. /\ queue \in Seq(ThreadIds)
          /\ ToSet(queue) = ToSet(readyQueue) \cup Woken
          /\ AtMostOnce(readyQueue, 0) => AtMostOnce(queue, 0)
          /\ \A b : Precedes(readyQueue, 0, b) => Precedes(queue, 0, b)
      BY <1>1, <3>2, <3>3, Joined
    <3> HIDE DEF awake, asleep, queue
    <3>6. TableOK(awake)
      <4>1. awake = [t \in DOMAIN awake |-> awake[t]]
        BY DEF awake
      <4> QED BY <1>1, <3>4, <4>1 DEF TableOK
    <3>7. MainReady(awake, queue, asleep, pendingDeletionTid)
      BY <2>1, <3>3, <3>4, <3>5 DEF MainReady, IsResumed
    <3>8. PendingBehindMain(awake, queue, pendingDeletionTid)
      BY <2>1, <3>4, <3>5 DEF PendingBehindMain, IsResumed
    <3>9. OthersWait(awake, queue)
      BY <2>1, <3>4, <3>5 DEF OthersWait
    <3>10. currentTid \in DOMAIN awake /\ pendingDeletionTid # currentTid
      BY <2>1, <3>4 DEF CurrentRuns
    <3>11. DoContextSwitch(awake, queue, asleep, pendingDeletionTid, "timer")
      BY <3>1 DEF queue
    <3> QED BY <1>1, <2>1, <3>5, <3>6, <3>7, <3>8, <3>9, <3>10, <3>11, SwitchKeepsInv
  <2>3. CASE ~(Due \subseteq DOMAIN threads)
    BY <1>5, <2>3 DEF TimerHandler, Crash, SchedulingInv, Running
  <2> QED BY <2>2, <2>3
<1>6. ASSUME NEW hasEntryPoint \in BOOLEAN, UthreadSpawn(hasEntryPoint) PROVE SchedulingInv'
  <2>1. status = "running" /\ Parts
    BY <1>2, <1>6 DEF UthreadSpawn, MayCall
  <2>2. CASE ReturnsAtOnce("spawn", currentTid, -1)
    BY <1>3, <2>2 DEF ReturnsAtOnce
  <2>3. CASE NextAvailableTid # NoTid /\ SpawnAs(NextAvailableTid)
    <3> DEFINE tid == NextAvailableTid
    <3>1. SpawnAs(tid)
      BY <2>3
    <3>2. tid \in ThreadIds /\ tid \notin DOMAIN threads
      BY <2>3, AvailableTid
    <3> HIDE DEF tid
    <3>3. /\ DOMAIN threads' = DOMAIN threads \cup {tid}
          /\ threads'[tid].state = "READY"
          /\ \A t \in DOMAIN threads : threads'[t] = threads[t]
      BY <3>1, <3>2 DEF SpawnAs, With, NewThread
    <3>4. tid # 0 /\ tid # currentTid
      BY <2>1, <3>2 DEF MainReady, CurrentRuns
    <3>5. /\ ToSet(readyQueue') = ToSet(readyQueue) \cup {tid}
          /\ AtMostOnce(readyQueue, 0) => AtMostOnce(readyQueue', 0)
          /\ \A b : Precedes(readyQueue, 0, b) => Precedes(readyQueue', 0, b)
      <4>1. readyQueue' = Append(readyQueue, tid)
        BY <3>1 DEF SpawnAs
      <4> QED BY <1>1, <3>2, <3>4, <4>1, Pushed
    <3>6. UNCHANGED <<sleepingThreads, currentTid, pendingDeletionTid, status>>
      BY <3>1 DEF SpawnAs
    <3>7. MainReady(threads, readyQueue, sleepingThreads, pendingDeletionTid)'
      BY <2>1, <3>3, <3>4, <3>5, <3>6 DEF MainReady
    <3>8. PendingBehindMain(threads, readyQueue, pendingDeletionTid)'
      BY <2>1, <3>3, <3>4, <3>5, <3>6 DEF PendingBehindMain
    <3>9. OthersWait(threads, readyQueue)'
      BY <2>1, <3>3, <3>5, <3>6 DEF OthersWait
    <3>10. CurrentRuns'
      BY <2>1, <3>3, <3>6 DEF CurrentRuns
    <3> QED BY <2>1, <3>6, <3>7, <3>8, <3>9, <3>10 DEF SchedulingInv
  <2> QED BY <1>6, <2>2, <2>3 DEF UthreadSpawn, Spawn
<1>7. ASSUME NEW tid \in TidArgs, UthreadTerminate(tid) PROVE SchedulingInv'
  <2>1. status = "running" /\ Parts
    BY <1>2, <1>7 DEF UthreadTerminate, MayCall
  <2>2. CASE tid \notin DOMAIN threads
    BY <1>3, <1>7, <2>2 DEF UthreadTerminate, ReturnsAtOnce
  <2>3. CASE TerminateMain
    BY <2>3 DEF TerminateMain, SchedulingInv, Running
  <2>4. CASE tid # 0 /\ tid = currentTid /\ TerminateSelf
    <3> DEFINE table == [threads EXCEPT ![currentTid] = SetState(threads[currentTid], "READY")]
    <3>1. Purged(currentTid) = readyQueue
      BY <2>1 DEF Purged, CurrentRuns
    <3>2. readyQueue # <<>>
      BY <2>1, <2>4 DEF MainReady, ToSet
    <3>3. DoContextSwitch(table, readyQueue, sleepingThreads, currentTid, "terminate")
      BY <2>4, <3>1, <3>2 DEF TerminateSelf
    <3>4. /\ DOMAIN table = DOMAIN threads
          /\ \A t \in DOMAIN threads \ {currentTid} : table[t] = threads[t]
          /\ TableOK(table)
          /\ table[currentTid].state = "READY"
      <4>1. threads[currentTid] \in ThreadObject
        BY <1>1, <2>1 DEF CurrentRuns
      <4>2. SetState(threads[currentTid], "READY") \in ThreadObject
        BY <4>1, ThreadMethods DEF ThreadState
      <4> QED BY <1>1, <2>1, <4>1, <4>2, TableUpdates, ThreadFields DEF CurrentRuns
    <3> HIDE DEF table
    <3>5. MainReady(table, readyQueue, sleepingThreads, currentTid)
      BY <2>1, <2>4, <3>4 DEF MainReady
    <3>6. PendingBehindMain(table, readyQueue, currentTid)
      BY <2>4 DEF PendingBehindMain
    <3>7. OthersWait(table, readyQueue)
      BY <2>1, <3>4 DEF OthersWait
    <3> QED BY <1>1, <2>1, <3>3, <3>4, <3>5, <3>6, <3>7, SwitchKeepsInv DEF CurrentRuns
  <2>5. CASE tid # 0 /\ tid # currentTid /\ tid \in DOMAIN threads /\ TerminateOther(tid)
    <3>1. /\ DOMAIN threads' = DOMAIN threads \ {tid}
          /\ \A t \in DOMAIN threads' : threads'[t] = threads[t]
          /\ DOMAIN sleepingThreads' \subseteq DOMAIN sleepingThreads
          /\ UNCHANGED <<currentTid, pendingDeletionTid, status>>
      BY <2>5 DEF TerminateOther, Deleted, Without
    <3>2. /\ \A t \in ThreadIds \ {tid} : t \in ToSet(readyQueue') <=> t \in ToSet(readyQueue)
          /\ AtMostOnce(readyQueue, 0) => AtMostOnce(readyQueue', 0)
          /\ \A b \in ThreadIds : Precedes(readyQueue, 0, b) => Precedes(readyQueue', 0, b)
          /\ threads[tid].state = "READY" => tid \notin ToSet(readyQueue')
      <4>1. readyQueue' = IF threads[tid].state = "READY" THEN RemoveFromReadyQueue(readyQueue, tid)
                          ELSE readyQueue
        BY <2>5 DEF TerminateOther, Deleted, Purged
      <4> QED BY <1>1, <2>5, <4>1, RemovedFromReadyQueue
    <3>3. tid \notin ToSet(readyQueue')
      <4>1. threads[tid].state \in {"READY", "BLOCKED"}
        BY <1>1, <2>1, <2>5 DEF OthersWait, ThreadObject, ThreadState
      <4>2. CASE threads[tid].state = "BLOCKED"
        <5>1. readyQueue' = readyQueue
          BY <2>5, <4>2 DEF TerminateOther, Deleted, Purged
        <5> QED BY <2>1, <2>5, <4>2, <5>1 DEF OthersWait
      <4> QED BY <3>2, <4>1, <4>2
    <3>4. Precedes(readyQueue', 0, tid)
      BY <3>3 DEF Precedes, ToSet
    <3>5. MainReady(threads, readyQueue, sleepingThreads, pendingDeletionTid)'
      BY <1>1, <2>1, <2>5, <3>1, <3>2 DEF MainReady
    <3>6. PendingBehindMain(threads, readyQueue, pendingDeletionTid)'
      BY <1>1, <2>1, <3>1, <3>2, <3>4 DEF PendingBehindMain
    <3>7. OthersWait(threads, readyQueue)'
      BY <1>1, <2>1, <3>1, <3>2 DEF OthersWait
    <3>8. CurrentRuns'
      BY <2>1, <2>5, <3>1 DEF CurrentRuns
    <3> QED BY <2>1, <3>1, <3>5, <3>6, <3>7, <3>8 DEF SchedulingInv
  <2> QED BY <1>7, <2>2, <2>3, <2>4, <2>5 DEF UthreadTerminate
<1>8. ASSUME NEW tid \in TidArgs, UthreadBlock(tid) PROVE SchedulingInv'
  <2>1. status = "running" /\ Parts
    BY <1>2, <1>8 DEF UthreadBlock, MayCall
  <2>2. CASE tid = 0 \/ tid \notin DOMAIN threads
    BY <1>3, <1>8, <2>2 DEF UthreadBlock, ReturnsAtOnce
  <2>3. CASE ~(tid = 0 \/ tid \notin DOMAIN threads)
    <3> DEFINE blocked == SetBlockFlag(SetState(threads[tid], "BLOCKED"), TRUE)
               table   == [threads EXCEPT ![tid] = blocked]
    <3>1. Block(tid) /\ tid # 0 /\ tid \in DOMAIN threads
      BY <1>8, <2>3 DEF UthreadBlock
    <3>2. blocked \in ThreadObject /\ blocked.state = "BLOCKED" /\ blocked.env = threads[tid].env
      <4>1. SetState(threads[tid], "BLOCKED") \in ThreadObject
        BY <1>1, <3>1, ThreadMethods DEF ThreadState
      <4>2. /\ SetState(threads[tid], "BLOCKED").state = "BLOCKED"
            /\ SetState(threads[tid], "BLOCKED").env = threads[tid].env
        BY <1>1, <3>1, ThreadFields
      <4>3. blocked \in ThreadObject
        BY <4>1, ThreadMethods
      <4>4. /\ blocked.state = SetState(threads[tid], "BLOCKED").state
            /\ blocked.env = SetState(threads[tid], "BLOCKED").env
        BY <4>1, ThreadFields
      <4> QED BY <4>2, <4>3, <4>4
    <3>3. /\ DOMAIN table = DOMAIN threads
          /\ table[tid].state = "BLOCKED" /\ table[tid].env = threads[tid].env
          /\ \A t \in DOMAIN threads \ {tid} : table[t] = threads[t]
          /\ TableOK(table)
      <4> HIDE DEF blocked
      <4> QED BY <1>1, <3>1, <3>2, TableUpdates
    <3>4. CASE threads[tid].state \in {"READY", "BLOCKED"} /\ BlockWaiting(tid)
      <4>1. /\ threads' = table
            /\ UNCHANGED <<sleepingThreads, currentTid, pendingDeletionTid, status>>
        BY <3>4 DEF BlockWaiting
      <4> HIDE DEF table
      <4>2. tid # currentTid
        BY <2>1, <3>4 DEF CurrentRuns
      <4>3. /\ \A t \in ThreadIds \ {tid} : t \in ToSet(readyQueue') <=> t \in ToSet(readyQueue)
            /\ AtMostOnce(readyQueue, 0) => AtMostOnce(readyQueue', 0)
            /\ \A b \in ThreadIds : Precedes(readyQueue, 0, b) => Precedes(readyQueue', 0, b)
            /\ tid \notin ToSet(readyQueue')
        <5>1. readyQueue' = IF threads[tid].state = "READY" THEN RemoveFromReadyQueue(readyQueue, tid)
                            ELSE readyQueue
          BY <3>4 DEF BlockWaiting, Purged
        <5>2. CASE threads[tid].state = "READY"
          BY <1>1, <3>1, <5>1, <5>2, RemovedFromReadyQueue
        <5>3. CASE threads[tid].state = "BLOCKED"
          BY <2>1, <3>1, <4>2, <5>1, <5>3 DEF OthersWait
        <5> QED BY <3>4, <5>2, <5>3
      <4>4. MainReady(threads, readyQueue, sleepingThreads, pendingDeletionTid)'
        BY <1>1, <2>1, <3>1, <3>3, <4>1, <4>3 DEF MainReady
      <4>5. PendingBehindMain(threads, readyQueue, pendingDeletionTid)'
        BY <1>1, <2>1, <3>1, <3>3, <4>1, <4>3 DEF PendingBehindMain, IsResumed
      <4>6. OthersWait(threads, readyQueue)'
        BY <1>1, <2>1, <3>3, <4>1, <4>3 DEF OthersWait
      <4>7. CurrentRuns'
        BY <2>1, <3>3, <4>1, <4>2 DEF CurrentRuns
      <4> QED BY <2>1, <4>1, <4>4, <4>5, <4>6, <4>7 DEF SchedulingInv
    <3>5. CASE tid = currentTid /\ BlockSelf
      <4>1. readyQueue # <<>>
        BY <2>1, <3>1, <3>5 DEF MainReady, ToSet
      <4>2. DoContextSwitch(table, readyQueue, sleepingThreads, pendingDeletionTid, "block")
        BY <3>5, <4>1 DEF BlockSelf
      <4> HIDE DEF table
      <4>3. MainReady(table, readyQueue, sleepingThreads, pendingDeletionTid)
        BY <2>1, <3>1, <3>3 DEF MainReady
      <4>4. PendingBehindMain(table, readyQueue, pendingDeletionTid)
        BY <2>1, <3>1, <3>3 DEF PendingBehindMain, IsResumed
      <4>5. OthersWait(table, readyQueue)
        BY <2>1, <3>3, <3>5 DEF OthersWait
      <4> QED BY <1>1, <2>1, <3>3, <4>2, <4>3, <4>4, <4>5, SwitchKeepsInv DEF CurrentRuns
    <3>6. CASE ReturnsAtOnce("block", tid, 0)
      BY <1>3, <3>6 DEF ReturnsAtOnce
    <3> QED BY <3>1, <3>4, <3>5, <3>6 DEF Block
  <2> QED BY <2>2, <2>3
<1>9. ASSUME NEW tid \in TidArgs, UthreadResume(tid) PROVE SchedulingInv'
  <2>1. status = "running" /\ Parts
    BY <1>2, <1>9 DEF UthreadResume, MayCall
  <2>2. CASE ReturnsAtOnce("resume", tid, -1) \/ ReturnsAtOnce("resume", tid, 0)
    BY <1>3, <2>2 DEF ReturnsAtOnce
  <2>3. CASE tid \in DOMAIN threads /\ threads[tid].state = "BLOCKED" /\ ResumeBlocked(tid)
    <3>1. tid # 0 /\ tid # currentTid
      BY <2>1, <2>3 DEF MainReady, CurrentRuns
    <3>2. UNCHANGED <<sleepingThreads, currentTid, pendingDeletionTid, status>>
      BY <2>3 DEF ResumeBlocked
    <3>3. /\ DOMAIN threads' = DOMAIN threads
          /\ threads'[tid].env = threads[tid].env
          /\ \A t \in DOMAIN threads \ {tid} : threads'[t] = threads[t]
          /\ \/ readyQueue' = readyQueue /\ threads'[tid].state = "BLOCKED"
             \/ readyQueue' = Append(readyQueue, tid) /\ threads'[tid].state = "READY"
      <4>1. CASE tid \in DOMAIN sleepingThreads
        <5>1. readyQueue' = readyQueue
              /\ threads' = [threads EXCEPT ![tid] = SetBlockFlag(threads[tid], FALSE)]
          BY <2>3, <4>1 DEF ResumeBlocked
        <5>2. threads[tid] \in ThreadObject
          BY <1>1, <2>3
        <5>3. /\ SetBlockFlag(threads[tid], FALSE).state = "BLOCKED"
              /\ SetBlockFlag(threads[tid], FALSE).env = threads[tid].env
          BY <2>3, <5>2, ThreadFields
        <5>4. /\ DOMAIN threads' = DOMAIN threads
              /\ threads'[tid] = SetBlockFlag(threads[tid], FALSE)
              /\ \A t \in DOMAIN threads \ {tid} : threads'[t] = threads[t]
          BY <2>3, <5>1
        <5> QED BY <5>1, <5>3, <5>4
      <4>2. CASE tid \notin DOMAIN sleepingThreads
        <5>1. readyQueue' = Append(readyQueue, tid)
              /\ threads' = [threads EXCEPT ![tid] = SetState(threads[tid], "READY")]
          BY <2>3, <4>2 DEF ResumeBlocked
        <5>2. threads[tid] \in ThreadObject
          BY <1>1, <2>3
        <5>3. /\ SetState(threads[tid], "READY").state = "READY"
              /\ SetState(threads[tid], "READY").env = threads[tid].env
          BY <5>2, ThreadFields
        <5>4. /\ DOMAIN threads' = DOMAIN threads
              /\ threads'[tid] = SetState(threads[tid], "READY")
              /\ \A t \in DOMAIN threads \ {tid} : threads'[t] = threads[t]
          BY <2>3, <5>1
        <5> QED BY <5>1, <5>3, <5>4
      <4> QED BY <4>1, <4>2
    <3>4. /\ AtMostOnce(readyQueue, 0) => AtMostOnce(readyQueue', 0)
          /\ \A b : Precedes(readyQueue, 0, b) => Precedes(readyQueue', 0, b)
          /\ threads'[tid].state = "READY" => ToSet(readyQueue') = ToSet(readyQueue) \cup {tid}
          /\ threads'[tid].state = "BLOCKED" => readyQueue' = readyQueue
          /\ threads'[tid].state \in {"READY", "BLOCKED"}
      <4>1. CASE readyQueue' = readyQueue /\ threads'[tid].state = "BLOCKED"
        BY <4>1
      <4>2. CASE readyQueue' = Append(readyQueue, tid) /\ threads'[tid].state = "READY"
        BY <1>1, <2>3, <3>1, <4>2, Pushed
      <4> QED BY <3>3, <4>1, <4>2
    <3>5. MainReady(threads, readyQueue, sleepingThreads, pendingDeletionTid)'
      BY <2>1, <3>1, <3>2, <3>3, <3>4 DEF MainReady
    <3>6. PendingBehindMain(threads, readyQueue, pendingDeletionTid)'
      BY <2>1, <3>2, <3>3, <3>4 DEF PendingBehindMain, IsResumed
    <3>7. OthersWait(threads, readyQueue)'
      BY <2>1, <2>3, <3>2, <3>3, <3>4 DEF OthersWait
    <3>8. CurrentRuns'
      BY <2>1, <3>1, <3>2, <3>3 DEF CurrentRuns
    <3> QED BY <2>1, <3>2, <3>5, <3>6, <3>7, <3>8 DEF SchedulingInv
  <2> QED BY <1>9, <2>2, <2>3 DEF UthreadResume, Resume
<1>10. ASSUME NEW n \in SleepArgs, UthreadSleep(n) PROVE SchedulingInv'
  <2>1. status = "running" /\ Parts
    BY <1>2, <1>10 DEF UthreadSleep, MayCall
  <2>2. CASE ReturnsAtOnce("sleep", currentTid, -1)
    BY <1>3, <2>2 DEF ReturnsAtOnce
  <2>3. CASE currentTid # 0 /\ Sleep(n)
    <3> DEFINE table == [threads EXCEPT ![currentTid] = SetState(threads[currentTid], "BLOCKED")]
               sleepers == With(sleepingThreads, currentTid, IntAdd(totalQuantums, n))
    <3>1. readyQueue # <<>>
      BY <2>1, <2>3 DEF MainReady, ToSet
    <3>2. DoContextSwitch(table, readyQueue, sleepers, pendingDeletionTid, "sleep")
      BY <2>3, <3>1 DEF Sleep
    <3>3. 0 \notin DOMAIN sleepers
      BY <2>1, <2>3 DEF With, MainReady
    <3>4. /\ DOMAIN table = DOMAIN threads
          /\ table[currentTid].env = threads[currentTid].env
          /\ \A t \in DOMAIN threads \ {currentTid} : table[t] = threads[t]
          /\ TableOK(table)
      <4>1. threads[currentTid] \in ThreadObject
        BY <1>1, <2>1 DEF CurrentRuns
      <4>2. SetState(threads[currentTid], "BLOCKED") \in ThreadObject
        BY <4>1, ThreadMethods DEF ThreadState
      <4> QED BY <1>1, <2>1, <4>1, <4>2, TableUpdates, ThreadFields DEF CurrentRuns
    <3> HIDE DEF table, sleepers
    <3>5. MainReady(table, readyQueue, sleepers, pendingDeletionTid)
      BY <2>1, <2>3, <3>3, <3>4 DEF MainReady
    <3>6. PendingBehindMain(table, readyQueue, pendingDeletionTid)
      BY <2>1, <3>4 DEF PendingBehindMain, IsResumed
    <3>7. OthersWait(table, readyQueue)
      BY <2>1, <3>4 DEF OthersWait
    <3> QED BY <1>1, <2>1, <3>2, <3>4, <3>5, <3>6, <3>7, SwitchKeepsInv DEF CurrentRuns
  <2> QED BY <1>10, <2>2, <2>3 DEF UthreadSleep
<1>11. ASSUME NEW tid \in TidArgs, UthreadGetQuantums(tid) PROVE SchedulingInv'
  BY <1>3, <1>11 DEF UthreadGetQuantums
<1>12. CASE UNCHANGED vars
  BY <1>3, <1>12 DEF vars
<1> QED
  BY <1>4, <1>5, <1>6, <1>7, <1>8, <1>9, <1>10, <1>11, <1>12 DEF Next

LEMMA SchedulingInvariant == Spec => [](TypeOK /\ SchedulingInv)
<1>1. Init => TypeOK /\ SchedulingInv
  BY SchedulerAssumption, TypeInit, SchedulingInit
<1>2. TypeOK /\ SchedulingInv /\ [Next]_vars => (TypeOK /\ SchedulingInv)'
  BY SchedulerAssumption, TypeNext, SchedulingNext
<1> QED BY <1>1, <1>2, PTL DEF Spec

-----------------------------------------------------------------------------
(* Main is running or has its one entry in the ready queue, whatever the   *)
(* client calls: terminate, block and sleep always find a thread to run.   *)
THEOREM MainIsNeverLost == Spec => []MainNeverLost
<1>1. SchedulingInv => MainNeverLost
  BY DEF SchedulingInv, MainReady, MainNeverLost, Queued
<1> QED BY <1>1, SchedulingInvariant, PTL

(* Exactly the current thread is in state RUNNING between two calls.       *)
THEOREM OneThreadRuns == Spec => []OneRunning
<1>1. SchedulingInv => OneRunning
  BY DEF SchedulingInv, OthersWait, CurrentRuns, OneRunning
<1> QED BY <1>1, SchedulingInvariant, PTL

(* A BLOCKED thread has no entry in the ready queue, duplicates included.  *)
THEOREM BlockedIsNeverQueued == Spec => []BlockedIsNotQueued
<1>1. SchedulingInv => BlockedIsNotQueued
  BY DEF SchedulingInv, OthersWait, CurrentRuns, BlockedIsNotQueued, Queued
<1> QED BY <1>1, SchedulingInvariant, PTL

(* Every thread runs, is in the ready queue, is BLOCKED or has ended.      *)
THEOREM NoThreadIsLost == Spec => []NoThreadLost
<1>1. SchedulingInv => NoThreadLost
  BY DEF SchedulingInv, OthersWait, NoThreadLost, Zombies, Queued
<1> QED BY <1>1, SchedulingInvariant, PTL

(* The thread pending deletion is never the one running, even when its tid *)
(* has been given to a newer thread: main deletes that one first.          *)
THEOREM PendingThreadNeverRuns == Spec => []PendingNeverRuns
<1>1. SchedulingInv => PendingNeverRuns
  BY DEF SchedulingInv, CurrentRuns, PendingNeverRuns
<1> QED BY <1>1, SchedulingInvariant, PTL

-----------------------------------------------------------------------------
(* Clients in which no thread ends itself and none ends main.              *)
(*                                                                         *)
(* No thread is ever pending deletion, so whatever the queue and the       *)
(* sleepers name is in the table and a switch has nothing to fault on.     *)

NoneEndsItself == Usage \cap {"terminate_self", "terminate_main"} = {}

InTable(table, queue, sleepers) ==
  /\ ToSet(queue) \cup DOMAIN sleepers \subseteq DOMAIN table
  /\ \A t \in DOMAIN table : table[t].env # "terminate"

AllInTable ==
  /\ status \in {"new", "running"}
  /\ Running => pendingDeletionTid = NoTid /\ InTable(threads, readyQueue, sleepingThreads)

LEMMA SwitchInTable ==
  ASSUME SchedulerAssumption, status = "running", currentTid \in ThreadIds,
         NEW table, TableOK(table), currentTid \in DOMAIN table,
         NEW queue \in Seq(ThreadIds), NEW sleepers,
         NEW site \in {"timer", "block", "sleep"},
         MainReady(table, queue, sleepers, NoTid),
         \A t \in DOMAIN table \ {currentTid} : table[t].state # "RUNNING",
         InTable(table, queue, sleepers),
         DoContextSwitch(table, queue, sleepers, NoTid, site)
  PROVE  AllInTable'
<1> DEFINE saved == Saved(table, NoTid, site)
           ready == Requeued(table, NoTid, queue)
           next  == NextThread(ready)
<1>1. currentTid # NoTid
  BY DEF ThreadIds, NoTid
<1>2. DOMAIN saved = DOMAIN table
  BY DEF Saved
<1>3. ready \in Seq(ThreadIds) /\ ToSet(ready) \subseteq DOMAIN table
  <2>1. CASE ready = queue
    BY <2>1 DEF InTable
  <2>2. CASE ready = Append(queue, currentTid)
    BY <2>2, Pushed DEF InTable
  <2> QED BY <2>1, <2>2 DEF Requeued
<1>4. next \in DOMAIN table
  <2>1. ready # <<>> => Head(ready) \in ToSet(ready)
    BY <1>3, Popped
  <2> QED BY <1>3, <2>1 DEF NextThread
<1>5. next # NoTid
  BY <1>4 DEF TableOK, ThreadIds, NoTid
<1> HIDE DEF saved, ready, next
<1>6. ~SwitchFaults(saved, NoTid, next)
  BY <1>2, <1>4, <1>5 DEF SwitchFaults
<1>7. status' = "running" /\ sleepingThreads' = sleepers
  BY <1>6 DEF DoContextSwitch, saved, ready, next
<1>8. SwitchedFrom(table, queue, NoTid, site)
  <2>1. PendingBehindMain(table, queue, NoTid)
    BY DEF PendingBehindMain
  <2>2. NoTid \in ThreadIds \cup {NoTid}
    OBVIOUS
  <2> QED BY <1>1, <1>7, <2>1, <2>2, SwitchOutcome
<1>9. /\ pendingDeletionTid' = NoTid
      /\ DOMAIN threads' = DOMAIN table
      /\ ToSet(readyQueue') \subseteq DOMAIN table
      /\ \A t \in DOMAIN threads' : threads'[t].env # "terminate"
  <2>1. NoTid \notin DOMAIN table
    BY DEF TableOK, ThreadIds, NoTid
  <2> QED BY <1>8, <2>1 DEF SwitchedFrom, InTable
<1> QED BY <1>7, <1>9 DEF AllInTable, InTable

LEMMA AllInTableNext ==
  ASSUME SchedulerAssumption, NoneEndsItself, TypeOK, SchedulingInv, AllInTable, [Next]_vars
  PROVE  AllInTable'
<1> DEFINE Known == InTable(threads, readyQueue, sleepingThreads)
<1>1. /\ TableOK(threads)
      /\ \A t \in DOMAIN threads : t \in ThreadIds /\ threads[t] \in ThreadObject
      /\ readyQueue \in Seq(ThreadIds)
      /\ currentTid \in ThreadIds
  BY DEF TypeOK, TableOK
<1>2. status = "running" =>
        /\ MainReady(threads, readyQueue, sleepingThreads, NoTid)
        /\ currentTid \in DOMAIN threads
        /\ \A t \in DOMAIN threads \ {currentTid} : threads[t].state # "RUNNING"
        /\ pendingDeletionTid = NoTid
        /\ Known
  BY DEF SchedulingInv, AllInTable, Running, OthersWait, CurrentRuns
<1>3. ASSUME UNCHANGED <<threads, readyQueue, sleepingThreads, pendingDeletionTid, status>>
      PROVE  AllInTable'
  BY <1>3 DEF AllInTable, Running, InTable
\* A step without a switch keeps the entries of the table or takes one out of everything.
<1>4. ASSUME Known', UNCHANGED <<pendingDeletionTid, status>> PROVE AllInTable'
  BY <1>4 DEF AllInTable, Running
\* A call by which the running thread gives up the processor.
<1>5. ASSUME status = "running", currentTid # 0,
             NEW thread \in ThreadObject, thread.env = threads[currentTid].env,
             NEW sleepers, DOMAIN sleepers \subseteq DOMAIN sleepingThreads \cup {currentTid},
             NEW site \in {"block", "sleep"},
             DoContextSwitch([threads EXCEPT ![currentTid] = thread], readyQueue, sleepers,
                             NoTid, site)
      PROVE  AllInTable'
  <2> DEFINE table == [threads EXCEPT ![currentTid] = thread]
  <2>1. /\ TableOK(table) /\ DOMAIN table = DOMAIN threads
        /\ table[currentTid] = thread
        /\ \A t \in DOMAIN threads \ {currentTid} : table[t] = threads[t]
    BY <1>1, <1>2, <1>5, TableUpdates
  <2>2. DoContextSwitch(table, readyQueue, sleepers, NoTid, site)
    BY <1>5
  <2> HIDE DEF table
  <2>3. MainReady(table, readyQueue, sleepers, NoTid)
    BY <1>2, <1>5, <2>1 DEF MainReady
  <2>4. InTable(table, readyQueue, sleepers)
    BY <1>2, <1>5, <2>1 DEF InTable
  <2>5. currentTid \in DOMAIN table /\ \A t \in DOMAIN table \ {currentTid} : table[t].state # "RUNNING"
    BY <1>2, <1>5, <2>1
  <2> QED BY <1>1, <1>5, <2>1, <2>2, <2>3, <2>4, <2>5, SwitchInTable
<1>6. ASSUME NEW usecs \in InitArgs, UthreadInit(usecs) PROVE AllInTable'
  <2>1. CASE usecs <= 0
    BY <1>3, <1>6, <2>1 DEF UthreadInit, ReturnsAtOnce
  <2>2. CASE ~(usecs <= 0)
    <3>1. SchedulerInit /\ NotStarted
      BY <1>6, <2>2 DEF UthreadInit, SchedulingInv
    <3>2. DOMAIN threads' = {0} /\ threads'[0].env = "unset"
      <4>1. /\ NewThread(0) \in ThreadObject /\ SetState(NewThread(0), "RUNNING") \in ThreadObject
            /\ NewThread(0).env = "unset"
        BY ThreadMethods DEF ThreadState, NewThread
      <4>2. DOMAIN threads' = {0}
            /\ threads'[0] = IncrementQuantumCount(SetState(NewThread(0), "RUNNING"))
        BY <3>1 DEF SchedulerInit
      <4> QED BY <4>1, <4>2, ThreadFields
    <3>3. ToSet(<<>>) = {}
      BY DEF ToSet
    <3> QED BY <3>1, <3>2, <3>3 DEF SchedulerInit, NotStarted, AllInTable, InTable
  <2> QED BY <2>1, <2>2
<1>7. ASSUME TimerHandler PROVE AllInTable'
  <2>1. status = "running"
    BY <1>7 DEF TimerHandler
  <2>2. Due \subseteq DOMAIN threads
    BY <1>2, <2>1 DEF Due, InTable
  <2>3. PICK order \in SetToSeqs(Woken) :
          DoContextSwitch(Awakened, readyQueue \o order, StillAsleep, NoTid, "timer")
    BY <1>2, <1>7, <2>1, <2>2 DEF TimerHandler
  <2> DEFINE queue == readyQueue \o order
  <2>4. Woken \subseteq DOMAIN threads /\ 0 \notin Woken
    BY <1>2, <2>1 DEF Woken, Due, MainReady
  <2>5. order \in Seq(ThreadIds) /\ ToSet(order) = Woken
    <3>1. Woken \subseteq ThreadIds
      BY <1>1, <2>4
    <3> QED BY <3>1, WakingOrder
  <2>6. /\ queue \in Seq(ThreadIds)
        /\ ToSet(queue) = ToSet(readyQueue) \cup Woken
        /\ AtMostOnce(readyQueue, 0) => AtMostOnce(queue, 0)
    BY <1>1, <2>4, <2>5, Joined
  <2>7. /\ DOMAIN Awakened = DOMAIN threads
        /\ \A t \in DOMAIN threads :
             /\ Awakened[t] \in ThreadObject
             /\ Awakened[t].env = threads[t].env
             /\ Awakened[t].state = IF t \in Woken THEN "READY" ELSE threads[t].state
    <3>1. \A t \in DOMAIN threads : SetState(threads[t], "READY") \in ThreadObject
      BY <1>1, ThreadMethods DEF ThreadState
    <3> QED BY <1>1, <3>1, ThreadFields DEF Awakened
  <2>8. TableOK(Awakened)
    <3>1. Awakened = [t \in DOMAIN Awakened |-> Awakened[t]]
      BY DEF Awakened
    <3> QED BY <1>1, <2>7, <3>1 DEF TableOK
  <2>9. DOMAIN StillAsleep \subseteq DOMAIN sleepingThreads
    BY DEF StillAsleep
  <2> HIDE DEF queue
  <2>10. MainReady(Awakened, queue, StillAsleep, NoTid)
    BY <1>2, <2>1, <2>4, <2>6, <2>7, <2>9 DEF MainReady, IsResumed
  <2>11. InTable(Awakened, queue, StillAsleep)
    BY <1>2, <2>1, <2>4, <2>6, <2>7, <2>9 DEF InTable
  <2>12. /\ currentTid \in DOMAIN Awakened
         /\ \A t \in DOMAIN Awakened \ {currentTid} : Awakened[t].state # "RUNNING"
    BY <1>2, <2>1, <2>7
  <2>13. DoContextSwitch(Awakened, queue, StillAsleep, NoTid, "timer")
    BY <2>3 DEF queue
  <2> QED BY <1>1, <2>1, <2>6, <2>8, <2>10, <2>11, <2>12, <2>13, SwitchInTable
<1>8. ASSUME NEW hasEntryPoint \in BOOLEAN, UthreadSpawn(hasEntryPoint) PROVE AllInTable'
  <2>1. status = "running"
    BY <1>8 DEF UthreadSpawn, MayCall
  <2>2. CASE ReturnsAtOnce("spawn", currentTid, -1)
    BY <1>3, <2>2 DEF ReturnsAtOnce
  <2>3. CASE NextAvailableTid # NoTid /\ SpawnAs(NextAvailableTid)
    <3> DEFINE tid == NextAvailableTid
    <3>1. SpawnAs(tid) /\ tid \in ThreadIds
      BY <2>3, AvailableTid
    <3> HIDE DEF tid
    <3>2. /\ DOMAIN threads' = DOMAIN threads \cup {tid}
          /\ threads'[tid].env # "terminate"
          /\ \A t \in DOMAIN threads \ {tid} : threads'[t] = threads[t]
          /\ UNCHANGED <<sleepingThreads, pendingDeletionTid, status>>
      BY <3>1 DEF SpawnAs, With, NewThread
    <3>3. ToSet(readyQueue') = ToSet(readyQueue) \cup {tid}
      BY <1>1, <3>1, Pushed DEF SpawnAs
    <3>4. Known'
      BY <1>2, <2>1, <3>2, <3>3 DEF InTable
    <3> QED BY <1>4, <3>2, <3>4
  <2> QED BY <1>8, <2>2, <2>3 DEF UthreadSpawn, Spawn
<1>9. ASSUME NEW tid \in TidArgs, UthreadTerminate(tid) PROVE AllInTable'
  <2>1. status = "running"
    BY <1>9 DEF UthreadTerminate, MayCall
  <2>2. CASE tid \notin DOMAIN threads
    BY <1>3, <1>9, <2>2 DEF UthreadTerminate, ReturnsAtOnce
  <2>3. CASE tid \in DOMAIN threads
    <3>1. tid # 0 /\ tid # currentTid /\ TerminateOther(tid)
      BY <1>9, <2>3 DEF UthreadTerminate, MayCall, NoneEndsItself
    <3>2. /\ DOMAIN threads' = DOMAIN threads \ {tid}
          /\ \A t \in DOMAIN threads' : threads'[t] = threads[t]
          /\ DOMAIN sleepingThreads' = DOMAIN sleepingThreads \ {tid}
          /\ UNCHANGED <<pendingDeletionTid, status>>
      BY <3>1 DEF TerminateOther, Deleted, Without
    <3>3. ToSet(readyQueue') \subseteq ToSet(readyQueue) \ {tid}
      <4>1. readyQueue' = IF threads[tid].state = "READY" THEN RemoveFromReadyQueue(readyQueue, tid)
                          ELSE readyQueue
        BY <3>1 DEF TerminateOther, Purged
      <4>2. CASE threads[tid].state = "READY"
        <5>1. readyQueue' \in Seq(ThreadIds) /\
              \A t \in ThreadIds : t \in ToSet(readyQueue') <=> t # tid /\ t \in ToSet(readyQueue)
          BY <1>1, <4>1, <4>2, RemovedFromReadyQueue
        <5>2. ToSet(readyQueue') \subseteq ThreadIds
          BY <5>1 DEF ToSet
        <5> QED BY <5>1, <5>2
      <4>3. CASE threads[tid].state # "READY"
        <5>1. threads[tid].state = "BLOCKED"
          BY <1>1, <1>2, <2>1, <2>3, <3>1, <4>3 DEF ThreadObject, ThreadState
        <5>2. tid \notin ToSet(readyQueue)
          BY <2>1, <2>3, <3>1, <5>1 DEF SchedulingInv, Running, OthersWait
        <5> QED BY <4>1, <4>3, <5>2
      <4> QED BY <4>2, <4>3
    <3>4. Known'
      BY <1>2, <2>1, <3>2, <3>3 DEF InTable
    <3> QED BY <1>4, <3>2, <3>4
  <2> QED BY <2>2, <2>3
<1>10. ASSUME NEW tid \in TidArgs, UthreadBlock(tid) PROVE AllInTable'
  <2>1. status = "running"
    BY <1>10 DEF UthreadBlock, MayCall
  <2>2. CASE ReturnsAtOnce("block", tid, -1) \/ ReturnsAtOnce("block", tid, 0)
    BY <1>3, <2>2 DEF ReturnsAtOnce
  <2>3. CASE tid # 0 /\ tid \in DOMAIN threads /\ ~(ReturnsAtOnce("block", tid, -1) \/ ReturnsAtOnce("block", tid, 0))
    <3> DEFINE blocked == SetBlockFlag(SetState(threads[tid], "BLOCKED"), TRUE)
    <3>1. BlockWaiting(tid) \/ (tid = currentTid /\ BlockSelf)
      BY <1>10, <2>3 DEF UthreadBlock, Block
    <3>2. blocked \in ThreadObject /\ blocked.env = threads[tid].env
      <4>1. /\ SetState(threads[tid], "BLOCKED") \in ThreadObject
            /\ SetState(threads[tid], "BLOCKED").env = threads[tid].env
        BY <1>1, <2>3, ThreadMethods, ThreadFields DEF ThreadState
      <4> QED BY <4>1, ThreadMethods, ThreadFields
    <3>3. CASE BlockWaiting(tid)
      <4>1. /\ threads' = [threads EXCEPT ![tid] = blocked]
            /\ readyQueue' = Purged(tid)
            /\ UNCHANGED <<sleepingThreads, pendingDeletionTid, status>>
        BY <3>3 DEF BlockWaiting
      <4> HIDE DEF blocked
      <4>2. /\ DOMAIN threads' = DOMAIN threads
            /\ \A t \in DOMAIN threads : threads'[t].env = threads[t].env
        BY <1>1, <2>3, <3>2, <4>1
      <4>3. ToSet(readyQueue') \subseteq ToSet(readyQueue)
        <5>1. CASE readyQueue' = RemoveFromReadyQueue(readyQueue, tid)
          <6>1. readyQueue' \in Seq(ThreadIds) /\
                \A t \in ThreadIds : t \in ToSet(readyQueue') => t \in ToSet(readyQueue)
            BY <1>1, <5>1, RemovedFromReadyQueue
          <6>2. ToSet(readyQueue') \subseteq ThreadIds
            BY <6>1 DEF ToSet
          <6> QED BY <6>1, <6>2
        <5> QED BY <4>1, <5>1 DEF Purged
      <4>4. Known'
        BY <1>2, <2>1, <4>1, <4>2, <4>3 DEF InTable
      <4> QED BY <1>4, <4>1, <4>4
    <3>4. CASE tid = currentTid /\ BlockSelf
      <4>1. readyQueue # <<>>
        BY <1>2, <2>1, <2>3, <3>4 DEF MainReady, ToSet
      <4>2. DoContextSwitch([threads EXCEPT ![currentTid] = blocked], readyQueue,
                            sleepingThreads, NoTid, "block")
        BY <1>2, <2>1, <3>4, <4>1 DEF BlockSelf
      <4> HIDE DEF blocked
      <4> QED BY <1>5, <2>1, <2>3, <3>2, <3>4, <4>2
    <3> QED BY <3>1, <3>3, <3>4
  <2> QED BY <1>10, <2>2, <2>3 DEF UthreadBlock
<1>11. ASSUME NEW tid \in TidArgs, UthreadResume(tid) PROVE AllInTable'
  <2>1. status = "running"
    BY <1>11 DEF UthreadResume, MayCall
  <2>2. CASE ReturnsAtOnce("resume", tid, -1) \/ ReturnsAtOnce("resume", tid, 0)
    BY <1>3, <2>2 DEF ReturnsAtOnce
  <2>3. CASE tid \in DOMAIN threads /\ ResumeBlocked(tid)
    <3>1. PICK thread \in ThreadObject :
            threads' = [threads EXCEPT ![tid] = thread] /\ thread.env = threads[tid].env
      <4>1. \A state \in ThreadState, flag \in BOOLEAN :
              /\ SetState(threads[tid], state) \in ThreadObject
              /\ SetState(threads[tid], state).env = threads[tid].env
              /\ SetBlockFlag(threads[tid], flag) \in ThreadObject
              /\ SetBlockFlag(threads[tid], flag).env = threads[tid].env
        BY <1>1, <2>3, ThreadMethods, ThreadFields
      <4>2. "READY" \in ThreadState /\ FALSE \in BOOLEAN
        BY DEF ThreadState
      <4> QED BY <2>3, <4>1, <4>2 DEF ResumeBlocked
    <3>2. UNCHANGED <<sleepingThreads, pendingDeletionTid, status>>
          /\ (readyQueue' = readyQueue \/ readyQueue' = Append(readyQueue, tid))
      BY <2>3 DEF ResumeBlocked
    <3>3. ToSet(readyQueue') \subseteq ToSet(readyQueue) \cup {tid}
      <4>1. CASE readyQueue' = Append(readyQueue, tid)
        BY <1>1, <2>3, <4>1, Pushed
      <4> QED BY <3>2, <4>1
    <3>4. /\ DOMAIN threads' = DOMAIN threads
          /\ \A t \in DOMAIN threads : threads'[t].env = threads[t].env
      BY <1>1, <2>3, <3>1
    <3>5. Known'
      BY <1>2, <2>1, <2>3, <3>2, <3>3, <3>4 DEF InTable
    <3> QED BY <1>4, <3>2, <3>5
  <2> QED BY <1>11, <2>2, <2>3 DEF UthreadResume, Resume
<1>12. ASSUME NEW n \in SleepArgs, UthreadSleep(n) PROVE AllInTable'
  <2>1. status = "running"
    BY <1>12 DEF UthreadSleep, MayCall
  <2>2. CASE ReturnsAtOnce("sleep", currentTid, -1)
    BY <1>3, <2>2 DEF ReturnsAtOnce
  <2>3. CASE currentTid # 0 /\ Sleep(n)
    <3> DEFINE thread   == SetState(threads[currentTid], "BLOCKED")
               sleepers == With(sleepingThreads, currentTid, IntAdd(totalQuantums, n))
    <3>1. readyQueue # <<>>
      BY <1>2, <2>1, <2>3 DEF MainReady, ToSet
    <3>2. DoContextSwitch([threads EXCEPT ![currentTid] = thread], readyQueue, sleepers,
                          NoTid, "sleep")
      BY <1>2, <2>1, <2>3, <3>1 DEF Sleep
    <3>3. DOMAIN sleepers \subseteq DOMAIN sleepingThreads \cup {currentTid}
      BY DEF With
    <3>4. thread \in ThreadObject /\ thread.env = threads[currentTid].env
      BY <1>1, <1>2, <2>1, ThreadMethods, ThreadFields DEF ThreadState
    <3> HIDE DEF thread, sleepers
    <3> QED BY <1>5, <2>1, <2>3, <3>2, <3>3, <3>4
  <2> QED BY <1>12, <2>2, <2>3 DEF UthreadSleep
<1>13. ASSUME NEW tid \in TidArgs, UthreadGetQuantums(tid) PROVE AllInTable'
  BY <1>3, <1>13 DEF UthreadGetQuantums
<1>14. CASE UNCHANGED vars
  BY <1>3, <1>14 DEF vars
<1> QED
  BY <1>6, <1>7, <1>8, <1>9, <1>10, <1>11, <1>12, <1>13, <1>14 DEF Next

LEMMA AllInTableInvariant ==
  ASSUME NoneEndsItself PROVE Spec => [](SchedulingInv /\ AllInTable)
<1>1. Init => AllInTable
  BY DEF Init, AllInTable, Running
<1>2. TypeOK /\ SchedulingInv /\ AllInTable /\ [Next]_vars => AllInTable'
  BY SchedulerAssumption, AllInTableNext
<1> QED BY <1>1, <1>2, SchedulingInvariant, PTL DEF Spec

(* As long as no thread ends itself and none ends main, no step            *)
(* dereferences a Thread that is not there.                                *)
THEOREM NoCrashUnlessSelfEnded ==
  ASSUME NoneEndsItself PROVE Spec => []NeverCrashes
<1>1. AllInTable => NeverCrashes
  BY DEF AllInTable, NeverCrashes
<1> QED BY <1>1, AllInTableInvariant, PTL

(* With such clients a terminated thread is gone from the queue and the    *)
(* sleepers as well.                                                       *)
THEOREM DeletedIsForgottenUnlessSelfEnded ==
  ASSUME NoneEndsItself PROVE Spec => []DeletedIsForgotten
<1>1. AllInTable => DeletedIsForgotten
  BY DEF AllInTable, InTable, DeletedIsForgotten, Queued
<1> QED BY <1>1, AllInTableInvariant, PTL

(* With such clients the ready queue names the READY threads and no other. *)
THEOREM QueueIsExactUnlessSelfEnded ==
  ASSUME NoneEndsItself PROVE Spec => []QueueNamesReady
<1>1. TypeOK /\ SchedulingInv /\ AllInTable => QueueNamesReady
  <2> SUFFICES ASSUME TypeOK, SchedulingInv, AllInTable, Running PROVE Queued \ {currentTid} = {t \in DOMAIN threads : threads[t].state = "READY"}
    BY DEF QueueNamesReady
  <2>1. \A t \in DOMAIN threads : threads[t].state \in {"READY", "RUNNING", "BLOCKED"}
    BY DEF TypeOK, ThreadObject, ThreadState
  <2>2. /\ OthersWait(threads, readyQueue) /\ threads[currentTid].state = "RUNNING"
        /\ InTable(threads, readyQueue, sleepingThreads)
    BY DEF SchedulingInv, CurrentRuns, AllInTable
  <2> QED BY <2>1, <2>2 DEF OthersWait, InTable, Queued
<1> QED BY <1>1, AllInTableInvariant, SchedulingInvariant, PTL

-----------------------------------------------------------------------------
(* Clients in which threads end themselves, but none ends another or       *)
(* sleeps.                                                                 *)
(*                                                                         *)
(* A thread that waits has one entry, since only a sleep leaves two, and   *)
(* one that has ended has none: it ended while it was running, when it had *)
(* none, and what could bring it back is a block and a resume of it        *)
(* before it is deleted.  So no client makes both: without block_other no  *)
(* thread is ever BLOCKED between two calls, and nothing is resumed.       *)

EndsOnlyItself ==
  /\ Usage \cap {"terminate_other", "terminate_main", "sleep"} = {}
  /\ ~({"block_other", "resume"} \subseteq Usage)

(* Who runs or waits has not ended, and waits once.                        *)
LiveWaitOnce(table, queue, running) ==
  /\ ToSet(queue) \subseteq DOMAIN table
  /\ \A t \in ThreadIds : AtMostOnce(queue, t)
  /\ running \notin ToSet(queue)
  /\ \A t \in ToSet(queue) \cup {running} : table[t].env # "terminate"

(* The pending tid still stands for the thread that ended under it.        *)
PendingHasEnded(table, pending) ==
  pending # NoTid => pending \in DOMAIN table /\ table[pending].env = "terminate"

EndsOnlyItselfInv ==
  /\ status \in {"new", "running"}
  /\ TerminateNeverReturns
  /\ Running =>
       /\ DOMAIN sleepingThreads = {}
       /\ LiveWaitOnce(threads, readyQueue, currentTid)
       /\ PendingHasEnded(threads, pendingDeletionTid)
       /\ "resume" \in Usage => \A t \in DOMAIN threads : threads[t].state # "BLOCKED"

(* From a line in which each waits once the switch takes one of those that *)
(* wait, or the running thread goes on.                                    *)
LEMMA SwitchTakesOne ==
  ASSUME currentTid \in ThreadIds, NEW table, currentTid \in DOMAIN table,
         table[currentTid] \in ThreadObject,
         NEW queue \in Seq(ThreadIds), \A t \in ThreadIds : AtMostOnce(queue, t),
         currentTid \notin ToSet(queue),
         NEW sleepers, NEW pending, NEW site \in {"timer", "terminate", "block", "sleep"},
         ToSet(queue) \subseteq DOMAIN table, pending \notin ToSet(queue),
         pending = currentTid => queue # <<>>,
         pending = currentTid <=> site = "terminate",
         \A t \in ToSet(queue) : table[t].env # "terminate",
         DoContextSwitch(table, queue, sleepers, pending, site), status = "running"
  PROVE  /\ status' = "running"
         /\ sleepingThreads' = sleepers
         /\ \A t \in ThreadIds : AtMostOnce(readyQueue', t)
         /\ currentTid' \notin ToSet(readyQueue')
         /\ \A tid, value : reply' # Reply("terminate", tid, value)
<1> DEFINE saved == Saved(table, pending, site)
           ready == Requeued(table, pending, queue)
           next  == NextThread(ready)
<1>1. /\ DOMAIN saved = DOMAIN table
      /\ \A t \in DOMAIN table \ {currentTid} : saved[t] = table[t]
      /\ saved[currentTid].env = site
  <2>1. SaveEnv(table[currentTid], site) \in ThreadObject
    BY ThreadMethods DEF Context
  <2>2. SetState(SaveEnv(table[currentTid], site), "READY").env = site
        /\ SaveEnv(table[currentTid], site).env = site
    BY <2>1, ThreadFields
  <2> QED BY <2>2 DEF Saved
<1>2. \/ ready = queue
      \/ ready = Append(queue, currentTid) /\ pending # currentTid
  BY DEF Requeued, Requeues
<1>3. /\ ready \in Seq(ThreadIds)
      /\ \A t \in ThreadIds : AtMostOnce(ready, t)
      /\ ToSet(ready) \subseteq ToSet(queue) \cup {currentTid}
      /\ pending = currentTid => ready = queue
  <2>1. Append(queue, currentTid) \in Seq(ThreadIds)
        /\ ToSet(Append(queue, currentTid)) = ToSet(queue) \cup {currentTid}
        /\ \A t \in ThreadIds : AtMostOnce(Append(queue, currentTid), t)
    BY Pushed
  <2> QED BY <1>2, <2>1
<1> HIDE DEF saved, ready
<1>4. \/ ready = <<>> /\ next = currentTid
      \/ ready # <<>> /\ next = Head(ready) /\ next \in ToSet(ready)
  <2>1. ready # <<>> => Head(ready) \in ToSet(ready)
    BY <1>3, Popped
  <2> QED BY <2>1 DEF NextThread
<1>5. next \in ToSet(queue) \/ (next = currentTid /\ pending # currentTid)
  <2>1. CASE pending = currentTid
    BY <1>3, <1>4, <2>1
  <2>2. CASE pending # currentTid
    BY <1>3, <1>4, <2>2
  <2> QED BY <2>1, <2>2
<1>6. \/ ready = <<>> /\ next = currentTid
      \/ next \notin ToSet(Tail(ready)) /\ \A t \in ThreadIds : AtMostOnce(Tail(ready), t)
  <2>1. ASSUME ready # <<>>
        PROVE  /\ \A t \in ThreadIds : AtMostOnce(Tail(ready), t)
               /\ Head(ready) \in ThreadIds
               /\ Head(ready) \notin ToSet(Tail(ready))
    BY <1>3, <2>1, Popped
  <2> QED BY <1>4, <2>1
<1>7. DoContextSwitch(table, queue, sleepers, pending, site)
      <=> /\ totalQuantums < MaxQuantums
          /\ IF SwitchFaults(saved, pending, next)
             THEN Crash
             ELSE LET starts == With(saved, next, Dispatched(saved[next], ready))
                  IN  /\ currentTid' = next
                      /\ readyQueue' = IF ready = <<>> THEN <<>> ELSE Tail(ready)
                      /\ sleepingThreads' = sleepers
                      /\ totalQuantums' = totalQuantums + 1
                      /\ timerMasked' = FALSE
                      /\ reply' = ReplyTo(saved[next], next)
                      /\ threads' = IF IsResumed(saved[next]) THEN Without(starts, pending)
                                    ELSE starts
                      /\ pendingDeletionTid' = PendingAfter(saved[next], pending)
                      /\ UNCHANGED status
  BY DEF DoContextSwitch, saved, ready
<1> HIDE DEF next
<1>8. next \in DOMAIN saved /\ next # pending /\ saved[next].env # "terminate"
  BY <1>1, <1>5
<1>9. /\ currentTid' = next /\ status' = status /\ sleepingThreads' = sleepers
      /\ readyQueue' = IF ready = <<>> THEN <<>> ELSE Tail(ready)
      /\ reply' = ReplyTo(saved[next], next)
  BY <1>7, <1>8 DEF SwitchFaults
<1>10. ToSet(<<>>) = {} /\ \A t : AtMostOnce(<<>>, t)
  BY DEF ToSet, AtMostOnce
<1>11. \A tid, value : reply' # Reply("terminate", tid, value)
  BY <1>8, <1>9 DEF ReplyTo, Reply, NoReply
<1>12. currentTid' \notin ToSet(readyQueue') /\ \A t \in ThreadIds : AtMostOnce(readyQueue', t)
  <2>1. CASE ready = <<>>
    <3>1. readyQueue' = <<>>
      BY <1>9, <2>1
    <3> QED BY <1>10, <3>1
  <2>2. CASE ready # <<>>
    <3>1. readyQueue' = Tail(ready)
      BY <1>9, <2>2
    <3> QED BY <1>6, <1>9, <2>2, <3>1
  <2> QED BY <2>1, <2>2
<1> QED BY <1>9, <1>11, <1>12

(* The switch of the timer, of block_self and of terminate_self.           *)
LEMMA EndsOnlyItselfSwitch ==
  ASSUME SchedulerAssumption, TypeOK, SchedulingInv, EndsOnlyItselfInv, Running,
         NEW thread \in ThreadObject, thread.env = threads[currentTid].env,
         currentTid = 0 => thread.state = "RUNNING",
         NEW sleepers, DOMAIN sleepers = {},
         NEW pending, NEW site \in {"timer", "terminate", "block"},
         IF site = "terminate" THEN pending = currentTid /\ currentTid # 0 /\ thread.state = "READY"
         ELSE pending = pendingDeletionTid,
         DoContextSwitch([threads EXCEPT ![currentTid] = thread], readyQueue, sleepers,
                         pending, site)
  PROVE  EndsOnlyItselfInv'
<1> DEFINE table == [threads EXCEPT ![currentTid] = thread]
<1>1. /\ status = "running" /\ currentTid \in ThreadIds /\ currentTid \in DOMAIN threads
      /\ readyQueue \in Seq(ThreadIds)
      /\ TableOK(threads)
      /\ NoTid \notin ThreadIds
      /\ pendingDeletionTid \in ThreadIds \cup {NoTid}
      /\ currentTid # pendingDeletionTid
      /\ MainReady(threads, readyQueue, sleepingThreads, pendingDeletionTid)
      /\ PendingBehindMain(threads, readyQueue, pendingDeletionTid)
      /\ \A t \in DOMAIN threads \ {currentTid} : threads[t].state # "RUNNING"
  BY DEF Running, TypeOK, TableOK, SchedulingInv, OthersWait, CurrentRuns, ThreadIds, NoTid
<1>2. /\ ToSet(readyQueue) \subseteq DOMAIN threads
      /\ \A t \in ThreadIds : AtMostOnce(readyQueue, t)
      /\ currentTid \notin ToSet(readyQueue)
      /\ \A t \in ToSet(readyQueue) : threads[t].env # "terminate"
      /\ threads[currentTid].env # "terminate"
      /\ PendingHasEnded(threads, pendingDeletionTid)
      /\ "resume" \in Usage => \A t \in DOMAIN threads : threads[t].state # "BLOCKED"
  BY DEF EndsOnlyItselfInv, LiveWaitOnce
<1>3. /\ DOMAIN table = DOMAIN threads /\ TableOK(table)
      /\ table[currentTid] = thread
      /\ \A t \in DOMAIN threads \ {currentTid} : table[t] = threads[t]
      /\ DoContextSwitch(table, readyQueue, sleepers, pending, site)
  BY <1>1, TableUpdates
<1> HIDE DEF table
<1>4. /\ pending \in ThreadIds \cup {NoTid}
      /\ pending = currentTid <=> site = "terminate"
      /\ \/ pending = pendingDeletionTid
         \/ pending = currentTid /\ currentTid # 0 /\ thread.state = "READY" /\ site = "terminate"
  BY <1>1
<1>5. pending \notin ToSet(readyQueue)
  BY <1>1, <1>2, <1>4 DEF PendingHasEnded, TableOK
<1>6. pending = currentTid => readyQueue # <<>>
  BY <1>1, <1>4 DEF MainReady, ToSet
<1>7. /\ status' = "running"
      /\ sleepingThreads' = sleepers
      /\ \A t \in ThreadIds : AtMostOnce(readyQueue', t)
      /\ currentTid' \notin ToSet(readyQueue')
      /\ \A tid, value : reply' # Reply("terminate", tid, value)
  <2>1. \A t \in ToSet(readyQueue) : table[t].env # "terminate"
    BY <1>2, <1>3
  <2>2. table[currentTid] \in ThreadObject /\ currentTid \in DOMAIN table
        /\ ToSet(readyQueue) \subseteq DOMAIN table
    BY <1>1, <1>2, <1>3
  <2> QED BY <1>1, <1>2, <1>3, <1>4, <1>5, <1>6, <2>1, <2>2, SwitchTakesOne
<1>8. SwitchedFrom(table, readyQueue, pending, site)
  <2>1. MainReady(table, readyQueue, sleepers, pending)
    BY <1>1, <1>3, <1>4 DEF MainReady, IsResumed
  <2>2. PendingBehindMain(table, readyQueue, pending)
    BY <1>1, <1>3, <1>4 DEF PendingBehindMain, IsResumed
  <2>3. pending = currentTid => table[currentTid].state = "READY"
    BY <1>1, <1>3, <1>4
  <2>4. currentTid \in DOMAIN table /\ \A t \in DOMAIN table \ {currentTid} : table[t].state # "RUNNING"
    BY <1>1, <1>3
  <2> QED BY <1>1, <1>3, <1>4, <1>7, <2>1, <2>2, <2>3, <2>4, SwitchOutcome
<1>9. /\ {currentTid'} \cup ToSet(readyQueue') =
           ToSet(readyQueue) \cup (IF pending = currentTid THEN {} ELSE {currentTid})
      /\ DOMAIN threads' \subseteq DOMAIN threads
      /\ DOMAIN threads \ {pending} \subseteq DOMAIN threads'
      /\ \A t \in DOMAIN threads' :
           /\ threads'[t].env = IF t = currentTid THEN site ELSE threads[t].env
           /\ threads'[t].state = IF t = currentTid' THEN "RUNNING"
                                  ELSE IF t = currentTid THEN "READY" ELSE threads[t].state
      /\ \/ pendingDeletionTid' = NoTid
         \/ /\ pendingDeletionTid' = pending
            /\ DOMAIN threads' = DOMAIN threads
  BY <1>3, <1>8 DEF SwitchedFrom
<1>10. LiveWaitOnce(threads', readyQueue', currentTid')
  <2>1. ToSet(readyQueue') \cup {currentTid'} \subseteq DOMAIN threads'
    BY <1>1, <1>2, <1>5, <1>9
  <2>2. \A t \in ToSet(readyQueue') \cup {currentTid'} : threads'[t].env # "terminate"
    BY <1>2, <1>4, <1>9, <2>1
  <2> QED BY <1>7, <2>1, <2>2 DEF LiveWaitOnce
<1>11. PendingHasEnded(threads', pendingDeletionTid')
  BY <1>1, <1>2, <1>4, <1>9 DEF PendingHasEnded
<1>12. "resume" \in Usage => \A t \in DOMAIN threads' : threads'[t].state # "BLOCKED"
  BY <1>2, <1>9
<1>13. TerminateNeverReturns'
  BY <1>7 DEF TerminateNeverReturns
<1> QED BY <1>7, <1>10, <1>11, <1>12, <1>13 DEF EndsOnlyItselfInv

LEMMA EndsOnlyItselfNext ==
  ASSUME SchedulerAssumption, EndsOnlyItself, TypeOK, SchedulingInv, EndsOnlyItselfInv, [Next]_vars
  PROVE  EndsOnlyItselfInv'
<1>1. /\ TableOK(threads)
      /\ \A t \in DOMAIN threads : t \in ThreadIds /\ threads[t] \in ThreadObject
      /\ readyQueue \in Seq(ThreadIds)
      /\ currentTid \in ThreadIds
  BY DEF TypeOK, TableOK
<1>2. status = "running" =>
        /\ Running
        /\ currentTid \in DOMAIN threads /\ threads[currentTid].state = "RUNNING"
        /\ currentTid # 0 => readyQueue # <<>>
        /\ DOMAIN sleepingThreads = {}
        /\ LiveWaitOnce(threads, readyQueue, currentTid)
        /\ PendingHasEnded(threads, pendingDeletionTid)
        /\ "resume" \in Usage => \A t \in DOMAIN threads : threads[t].state # "BLOCKED"
  BY DEF SchedulingInv, EndsOnlyItselfInv, Running, CurrentRuns, MainReady, ToSet
<1>3. status \in {"new", "running"} /\ TerminateNeverReturns
  BY DEF EndsOnlyItselfInv
\* A step without a switch: who waits may change, who runs and who has ended may not.
<1>4. ASSUME status = "running",
             UNCHANGED <<sleepingThreads, currentTid, pendingDeletionTid, status>>,
             DOMAIN threads \subseteq DOMAIN threads',
             \A t \in DOMAIN threads : threads'[t].env = threads[t].env,
             \A t \in DOMAIN threads' \ DOMAIN threads : threads'[t].env # "terminate",
             ToSet(readyQueue') \subseteq ToSet(readyQueue) \cup (DOMAIN threads' \ DOMAIN threads),
             \A t \in ThreadIds : AtMostOnce(readyQueue', t),
             "resume" \in Usage => \A t \in DOMAIN threads' : threads'[t].state # "BLOCKED",
             reply' # Reply("terminate", currentTid, 0)
      PROVE  EndsOnlyItselfInv'
  <2>1. LiveWaitOnce(threads', readyQueue', currentTid')
    BY <1>2, <1>4 DEF LiveWaitOnce
  <2>2. PendingHasEnded(threads', pendingDeletionTid')
    BY <1>2, <1>4 DEF PendingHasEnded
  <2> QED BY <1>2, <1>4, <2>1, <2>2 DEF EndsOnlyItselfInv, TerminateNeverReturns
<1>5. ASSUME UNCHANGED <<threads, readyQueue, sleepingThreads, currentTid, pendingDeletionTid, status>>,
             reply' = reply \/ \A tid : reply' # Reply("terminate", tid, 0)
      PROVE  EndsOnlyItselfInv'
  BY <1>5 DEF EndsOnlyItselfInv, Running, LiveWaitOnce, PendingHasEnded, TerminateNeverReturns
<1>6. \A tid, other, value :
        /\ \A call \in {"init", "spawn", "block", "resume", "sleep", "get_quantums"} :
             Reply(call, tid, value) # Reply("terminate", other, 0)
        /\ Reply("terminate", tid, -1) # Reply("terminate", other, 0)
  BY DEF Reply
<1>7. ASSUME NEW usecs \in InitArgs, UthreadInit(usecs) PROVE EndsOnlyItselfInv'
  <2>1. CASE usecs <= 0
    BY <1>5, <1>6, <1>7, <2>1 DEF UthreadInit, ReturnsAtOnce, Returns
  <2>2. CASE ~(usecs <= 0)
    <3>1. SchedulerInit /\ NotStarted /\ reply' = Reply("init", NoTid, 0)
      BY <1>7, <2>2 DEF UthreadInit, SchedulingInv, Returns
    <3>2. DOMAIN threads' = {0} /\ threads'[0].env = "unset" /\ threads'[0].state = "RUNNING"
      <4>1. /\ NewThread(0) \in ThreadObject /\ SetState(NewThread(0), "RUNNING") \in ThreadObject
            /\ NewThread(0).env = "unset"
        BY ThreadMethods DEF ThreadState, NewThread
      <4>2. DOMAIN threads' = {0}
            /\ threads'[0] = IncrementQuantumCount(SetState(NewThread(0), "RUNNING"))
        BY <3>1 DEF SchedulerInit
      <4> QED BY <4>1, <4>2, ThreadFields
    <3>3. ToSet(<<>>) = {} /\ \A t : AtMostOnce(<<>>, t)
      BY DEF ToSet, AtMostOnce
    <3>4. /\ status' = "running" /\ currentTid' = 0 /\ readyQueue' = <<>>
          /\ DOMAIN sleepingThreads' = {} /\ pendingDeletionTid' = NoTid
      BY <3>1 DEF SchedulerInit, NotStarted
    <3>5. LiveWaitOnce(threads', readyQueue', currentTid') /\ PendingHasEnded(threads', pendingDeletionTid')
      BY <3>2, <3>3, <3>4 DEF LiveWaitOnce, PendingHasEnded
    <3>6. TerminateNeverReturns'
      BY <1>6, <3>1 DEF TerminateNeverReturns
    <3> QED BY <3>2, <3>4, <3>5, <3>6 DEF EndsOnlyItselfInv
  <2> QED BY <2>1, <2>2
<1>8. ASSUME TimerHandler PROVE EndsOnlyItselfInv'
  <2>1. status = "running"
    BY <1>8 DEF TimerHandler
  <2>2. Due = {} /\ Woken = {} /\ DOMAIN StillAsleep = {}
    BY <1>2, <2>1 DEF Due, Woken, StillAsleep
  <2>3. PICK order \in SetToSeqs(Woken) :
          DoContextSwitch(Awakened, readyQueue \o order, StillAsleep, pendingDeletionTid, "timer")
    BY <1>8, <2>2 DEF TimerHandler
  <2>4. order = <<>>
    <3>1. Woken \subseteq ThreadIds
      BY <2>2
    <3>2. order \in Seq(ThreadIds) /\ ToSet(order) = {}
      BY <2>2, <3>1, WakingOrder
    <3>3. order # <<>> => Head(order) \in ToSet(order)
      BY <3>2, Popped
    <3> QED BY <3>2, <3>3
  <2>5. readyQueue \o order = readyQueue
    BY <1>1, <2>4
  <2>6. Awakened = [threads EXCEPT ![currentTid] = threads[currentTid]]
    BY <1>1, <2>2 DEF Awakened, TableOK
  <2>7. DoContextSwitch([threads EXCEPT ![currentTid] = threads[currentTid]], readyQueue,
                        StillAsleep, pendingDeletionTid, "timer")
    BY <2>3, <2>5, <2>6
  <2>8. threads[currentTid] \in ThreadObject
    BY <1>1, <1>2, <2>1
  <2> QED BY <1>2, <2>1, <2>2, <2>7, <2>8, EndsOnlyItselfSwitch
<1>9. ASSUME NEW hasEntryPoint \in BOOLEAN, UthreadSpawn(hasEntryPoint) PROVE EndsOnlyItselfInv'
  <2>1. status = "running"
    BY <1>9 DEF UthreadSpawn, MayCall
  <2>2. CASE ReturnsAtOnce("spawn", currentTid, -1)
    BY <1>5, <1>6, <2>2 DEF ReturnsAtOnce, Returns
  <2>3. CASE NextAvailableTid # NoTid /\ SpawnAs(NextAvailableTid)
    <3> DEFINE tid == NextAvailableTid
    <3>1. SpawnAs(tid) /\ tid \in ThreadIds \ DOMAIN threads
      BY <2>3, AvailableTid
    <3> HIDE DEF tid
    <3>2. /\ DOMAIN threads' = DOMAIN threads \cup {tid}
          /\ threads'[tid].env # "terminate" /\ threads'[tid].state # "BLOCKED"
          /\ \A t \in DOMAIN threads : threads'[t] = threads[t]
          /\ UNCHANGED <<sleepingThreads, currentTid, pendingDeletionTid, status>>
          /\ reply' = Reply("spawn", currentTid, tid)
      BY <3>1 DEF SpawnAs, With, NewThread, Returns
    <3>3. /\ ToSet(readyQueue') = ToSet(readyQueue) \cup {tid}
          /\ \A t \in ThreadIds : AtMostOnce(readyQueue', t)
      <4>1. tid \notin ToSet(readyQueue) /\ \A t \in ThreadIds : AtMostOnce(readyQueue, t)
        BY <1>2, <2>1, <3>1 DEF LiveWaitOnce
      <4>2. readyQueue' = Append(readyQueue, tid)
        BY <3>1 DEF SpawnAs
      <4> QED BY <1>1, <3>1, <4>1, <4>2, Pushed
    <3>4. "resume" \in Usage => \A t \in DOMAIN threads' : threads'[t].state # "BLOCKED"
      BY <1>2, <2>1, <3>2
    <3> QED BY <1>4, <1>6, <2>1, <3>1, <3>2, <3>3, <3>4
  <2> QED BY <1>9, <2>2, <2>3 DEF UthreadSpawn, Spawn
<1>10. ASSUME NEW tid \in TidArgs, UthreadTerminate(tid) PROVE EndsOnlyItselfInv'
  <2>1. status = "running"
    BY <1>10 DEF UthreadTerminate, MayCall
  <2>2. tid = currentTid /\ tid # 0 /\ TerminateSelf
    BY <1>10 DEF UthreadTerminate, MayCall, EndsOnlyItself
  <2>3. Purged(currentTid) = readyQueue /\ readyQueue # <<>>
    BY <1>2, <2>1, <2>2 DEF Purged
  <2> DEFINE thread == SetState(threads[currentTid], "READY")
  <2>4. DoContextSwitch([threads EXCEPT ![currentTid] = thread], readyQueue, sleepingThreads,
                        currentTid, "terminate")
    BY <2>2, <2>3 DEF TerminateSelf
  <2>5. thread \in ThreadObject /\ thread.env = threads[currentTid].env /\ thread.state = "READY"
    BY <1>1, <1>2, <2>1, ThreadMethods, ThreadFields DEF ThreadState
  <2> HIDE DEF thread
  <2> QED BY <1>2, <2>1, <2>2, <2>4, <2>5, EndsOnlyItselfSwitch
<1>11. ASSUME NEW tid \in TidArgs, UthreadBlock(tid) PROVE EndsOnlyItselfInv'
  <2>1. status = "running"
    BY <1>11 DEF UthreadBlock, MayCall
  <2>2. CASE ReturnsAtOnce("block", tid, -1) \/ ReturnsAtOnce("block", tid, 0)
    BY <1>5, <1>6, <2>2 DEF ReturnsAtOnce, Returns
  <2>3. CASE tid # 0 /\ tid \in DOMAIN threads /\ ~(ReturnsAtOnce("block", tid, -1) \/ ReturnsAtOnce("block", tid, 0))
    <3> DEFINE blocked == SetBlockFlag(SetState(threads[tid], "BLOCKED"), TRUE)
    <3>1. \/ BlockWaiting(tid) /\ tid # currentTid /\ "block_other" \in Usage
          \/ BlockSelf /\ tid = currentTid
      BY <1>2, <1>11, <2>1, <2>3 DEF UthreadBlock, Block, MayCall
    <3>2. blocked \in ThreadObject /\ blocked.env = threads[tid].env
      <4>1. /\ SetState(threads[tid], "BLOCKED") \in ThreadObject
            /\ SetState(threads[tid], "BLOCKED").env = threads[tid].env
        BY <1>1, <2>3, ThreadMethods, ThreadFields DEF ThreadState
      <4> QED BY <4>1, ThreadMethods, ThreadFields
    <3>3. CASE BlockWaiting(tid) /\ tid # currentTid /\ "block_other" \in Usage
      <4>1. /\ threads' = [threads EXCEPT ![tid] = blocked]
            /\ readyQueue' = Purged(tid)
            /\ UNCHANGED <<sleepingThreads, currentTid, pendingDeletionTid, status>>
            /\ reply' = Reply("block", tid, 0)
        BY <3>3 DEF BlockWaiting, Returns
      <4> HIDE DEF blocked
      <4>2. /\ DOMAIN threads' = DOMAIN threads
            /\ \A t \in DOMAIN threads : threads'[t].env = threads[t].env
        BY <1>1, <2>3, <3>2, <4>1
      <4>3. /\ ToSet(readyQueue') \subseteq ToSet(readyQueue)
            /\ \A t \in ThreadIds : AtMostOnce(readyQueue', t)
        <5>1. \A t \in ThreadIds : AtMostOnce(readyQueue, t)
          BY <1>2, <2>1 DEF LiveWaitOnce
        <5>2. CASE readyQueue' = RemoveFromReadyQueue(readyQueue, tid)
          <6>1. /\ readyQueue' \in Seq(ThreadIds)
                /\ \A t \in ThreadIds : t \in ToSet(readyQueue') => t \in ToSet(readyQueue)
                /\ \A t \in ThreadIds : AtMostOnce(readyQueue', t)
            BY <1>1, <5>1, <5>2, RemovedFromReadyQueue
          <6>2. ToSet(readyQueue') \subseteq ThreadIds
            BY <6>1 DEF ToSet
          <6> QED BY <6>1, <6>2
        <5> QED BY <4>1, <5>1, <5>2 DEF Purged
      <4>4. "resume" \notin Usage
        BY <3>3 DEF EndsOnlyItself
      <4> QED BY <1>4, <1>6, <2>1, <4>1, <4>2, <4>3, <4>4
    <3>4. CASE BlockSelf /\ tid = currentTid
      <4>1. DoContextSwitch([threads EXCEPT ![currentTid] = blocked], readyQueue,
                            sleepingThreads, pendingDeletionTid, "block")
        BY <1>2, <2>1, <2>3, <3>4 DEF BlockSelf
      <4> HIDE DEF blocked
      <4> QED BY <1>2, <2>1, <2>3, <3>2, <3>4, <4>1, EndsOnlyItselfSwitch
    <3> QED BY <3>1, <3>3, <3>4
  <2> QED BY <1>11, <2>2, <2>3 DEF UthreadBlock
<1>12. ASSUME NEW tid \in TidArgs, UthreadResume(tid) PROVE EndsOnlyItselfInv'
  <2>1. status = "running" /\ "resume" \in Usage
    BY <1>12 DEF UthreadResume, MayCall
  <2>2. ReturnsAtOnce("resume", tid, -1) \/ ReturnsAtOnce("resume", tid, 0)
    BY <1>2, <1>12, <2>1 DEF UthreadResume, Resume
  <2> QED BY <1>5, <1>6, <2>2 DEF ReturnsAtOnce, Returns
<1>13. ASSUME NEW n \in SleepArgs, UthreadSleep(n) PROVE EndsOnlyItselfInv'
  BY <1>13 DEF UthreadSleep, MayCall, EndsOnlyItself
<1>14. ASSUME NEW tid \in TidArgs, UthreadGetQuantums(tid) PROVE EndsOnlyItselfInv'
  <2>1. \E value : reply' = Reply("get_quantums", tid, value)
    BY <1>14 DEF UthreadGetQuantums, Returns
  <2> QED BY <1>5, <1>6, <1>14, <2>1 DEF UthreadGetQuantums
<1>15. CASE UNCHANGED vars
  BY <1>5, <1>15 DEF vars
<1> QED
  BY <1>7, <1>8, <1>9, <1>10, <1>11, <1>12, <1>13, <1>14, <1>15 DEF Next

LEMMA EndsOnlyItselfInvariant ==
  ASSUME EndsOnlyItself PROVE Spec => []EndsOnlyItselfInv
<1>1. Init => EndsOnlyItselfInv
  BY DEF Init, EndsOnlyItselfInv, Running, TerminateNeverReturns
<1>2. TypeOK /\ SchedulingInv /\ EndsOnlyItselfInv /\ [Next]_vars => EndsOnlyItselfInv'
  BY SchedulerAssumption, EndsOnlyItselfNext
<1> QED BY <1>1, <1>2, SchedulingInvariant, PTL DEF Spec

(* Threads may end themselves without any step meeting a Thread that is    *)
(* not there, as long as none sleeps or is ended by another, and none is   *)
(* resumed that another thread has blocked.                                *)
THEOREM NoCrashWhenSelfEnded == ASSUME EndsOnlyItself PROVE Spec => []NeverCrashes
<1>1. EndsOnlyItselfInv => NeverCrashes
  BY DEF EndsOnlyItselfInv, NeverCrashes
<1> QED BY <1>1, EndsOnlyItselfInvariant, PTL

(* With such clients uthread_terminate does not return to its caller.      *)
THEOREM NoReturnWhenSelfEnded == ASSUME EndsOnlyItself PROVE Spec => []TerminateNeverReturns
<1>1. EndsOnlyItselfInv => TerminateNeverReturns
  BY DEF EndsOnlyItselfInv
<1> QED BY <1>1, EndsOnlyItselfInvariant, PTL

(* With such clients the ready queue names existing threads only.          *)
THEOREM DeletedIsForgottenWhenSelfEnded == ASSUME EndsOnlyItself PROVE Spec => []DeletedIsForgotten
<1>1. EndsOnlyItselfInv => DeletedIsForgotten
  BY DEF EndsOnlyItselfInv, LiveWaitOnce, DeletedIsForgotten, Queued
<1> QED BY <1>1, EndsOnlyItselfInvariant, PTL

================================================================================
