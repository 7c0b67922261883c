------------------------------ MODULE Scheduler ------------------------------
(***************************************************************************)
(* The uthreads library: uthreads.cpp on top of scheduler.cpp, with the    *)
(* Thread objects of module Thread.                                        *)
(*                                                                         *)
(* Grain.  One step is one library call, from the user code that makes it  *)
(* to the user code that runs next (the caller's, or that of the thread    *)
(* the call switched to), or one delivery of SIGVTALRM between two calls.  *)
(* A signal that arrives inside a call is not in this module.              *)
(*                                                                         *)
(* Undefined behaviour.  A call that uses a null Thread pointer, or frees  *)
(* the stack it is running on and returns to it, takes the process to      *)
(* status "crashed", where nothing more is said about it.                  *)
(***************************************************************************)
EXTENDS Thread, Sequences, FiniteSets, SequencesExt

CONSTANTS
  MaxThreadNum,  \* MAX_THREAD_NUM
  Usage,         \* the kinds of library calls the client program makes
  InitArgs,      \* the arguments it passes to uthread_init
  SleepArgs,     \* the arguments it passes to uthread_sleep
  IntMax,        \* INT_MAX, scaled down
  MaxQuantums    \* bound of the exploration: no quantum starts after this one

CallKinds == {"spawn", "terminate_main", "terminate_self", "terminate_other",
              "block_self", "block_other", "resume", "sleep",
              "get_quantums", "get_quantums_unknown"}

ASSUME SchedulerAssumption ==
  /\ MaxThreadNum \in Nat \ {0}
  /\ Usage \subseteq CallKinds
  /\ InitArgs \subseteq Int
  /\ SleepArgs \subseteq Int
  /\ IntMax \in Nat
  /\ MaxQuantums \in 1 .. IntMax

VARIABLES
  threads,             \* Scheduler::threads, a function on the tids in use
  readyQueue,          \* Scheduler::readyQueue
  sleepingThreads,     \* Scheduler::sleepingThreads, tid -> wake-up quantum
  currentTid,          \* Scheduler::currentTid
  pendingDeletionTid,  \* Scheduler::pendingDeletionTid
  totalQuantums,       \* Scheduler::totalQuantums
  timerMasked,         \* SIGVTALRM is in the signal mask of the user code
  status,              \* of the process
  reply                \* what the last step returned: the call, the tid it is
                       \* about (its argument or its caller) and the value

vars == <<threads, readyQueue, sleepingThreads, currentTid,
          pendingDeletionTid, totalQuantums, timerMasked, status, reply>>

ThreadIds == 0 .. MaxThreadNum - 1

NoTid == -1

(* Every tid a client can pass: the valid ones and one beyond either end.  *)
TidArgs == -1 .. MaxThreadNum

Without(f, tid) == [t \in DOMAIN f \ {tid} |-> f[t]]

With(f, tid, value) == [t \in DOMAIN f \cup {tid} |-> IF t = tid THEN value ELSE f[t]]

Reply(call, tid, value) == [call |-> call, tid |-> tid, value |-> value]

NoReply == Reply("none", NoTid, 0)

Returns(call, tid, value) == reply' = Reply(call, tid, value)

(* int + int as the build computes it: two's complement, no trap.          *)
IntAdd(a, b) == IF a + b > IntMax THEN a + b - 2 * (IntMax + 1) ELSE a + b

-----------------------------------------------------------------------------
(* The private functions of scheduler.cpp.                                 *)

(* Seeded fault: the loop breaks at the first match.                       *)
RemoveFromReadyQueue_Breaks(queue, tid) ==
  LET found == {i \in DOMAIN queue : queue[i] = tid}
  IN  IF found = {} THEN queue ELSE SubSeq(queue, 1, Min(found) - 1)

(* Seeded fault: only the first entry of tid is dropped.                   *)
RemoveFromReadyQueue_Once(queue, tid) == RemoveFirst(queue, tid)

(* removeFromReadyQueue: the loop, temp[i] being tempQueue after i turns.  *)
RemoveFromReadyQueue(queue, tid) ==
  LET temp[i \in 0 .. Len(queue)] ==
        IF i = 0 THEN <<>>
        ELSE IF queue[i] = tid THEN temp[i - 1]
        ELSE Append(temp[i - 1], queue[i])
  IN  temp[Len(queue)]

(* Seeded fault: the bound of the loop is off by one.                      *)
NextAvailableTid_OffByOne ==
  LET unused == (0 .. MaxThreadNum) \ DOMAIN threads
  IN  IF unused = {} THEN NoTid ELSE Min(unused)

(* nextAvailableTid: the smallest unused tid, or -1.                       *)
NextAvailableTid ==
  LET unused == ThreadIds \ DOMAIN threads
  IN  IF unused = {} THEN NoTid
      ELSE CHOOSE tid \in unused : \A other \in unused : tid <= other

(* Seeded fault: a sleeper is due one tick late.                           *)
Due_Late == {tid \in DOMAIN sleepingThreads : totalQuantums > sleepingThreads[tid]}

(* The entries wakeSleepingThreads erases, and those it makes READY.       *)
Due == {tid \in DOMAIN sleepingThreads : totalQuantums >= sleepingThreads[tid]}

(* Seeded fault: the user's block is not asked for.                        *)
Woken_Blocked == Due \cap DOMAIN threads

Woken == {tid \in Due \cap DOMAIN threads : ~threads[tid].didUserBlock}

(* The thread table and the sleepers once wakeSleepingThreads returns.     *)
Awakened ==
  [t \in DOMAIN threads |-> IF t \in Woken THEN SetState(threads[t], "READY")
                            ELSE threads[t]]

StillAsleep == [t \in DOMAIN sleepingThreads \ Due |-> sleepingThreads[t]]

(***************************************************************************)
(* doContextSwitch, entered on behalf of `site` with the thread table,     *)
(* ready queue and pendingDeletionTid its caller has already updated.      *)
(***************************************************************************)

(* Seeded fault: the test for a lone thread is off by one.                 *)
Requeues_OffByOne(table, pending) ==
  currentTid # pending /\ Cardinality(DOMAIN table) > 2

(* Seeded fault: a thread that ended itself is queued like any other.      *)
Requeues_Pending(table, pending) == Cardinality(DOMAIN table) > 1

(* The running thread goes to the back of the queue, whatever it was doing *)
(* before, unless it is the one to delete or there is no other thread.     *)
Requeues(table, pending) ==
  currentTid # pending /\ Cardinality(DOMAIN table) > 1

(* Seeded fault: the thread that loses the processor keeps its state.      *)
Saved_KeepsState(table, pending, site) ==
  [table EXCEPT ![currentTid] = SaveEnv(@, site)]

(* The thread table once the running thread is saved.                      *)
Saved(table, pending, site) ==
  LET self == SaveEnv(table[currentTid], site)
  IN  [table EXCEPT ![currentTid] =
         IF Requeues(table, pending) THEN SetState(self, "READY") ELSE self]

(* Seeded fault: the running thread goes to the front.                     *)
Requeued_Front(table, pending, queue) ==
  IF Requeues(table, pending) THEN <<currentTid>> \o queue ELSE queue

(* The ready queue once the running thread is in it, if it goes there.     *)
Requeued(table, pending, queue) ==
  IF Requeues(table, pending) THEN Append(queue, currentTid) ELSE queue

(* The thread that runs next, and its start of a quantum.                  *)
NextThread(queue) == IF queue = <<>> THEN currentTid ELSE Head(queue)

(* Seeded fault: only a thread taken from the queue is charged.            *)
Dispatched_ChargesSwitches(thread, queue) ==
  IF queue = <<>> THEN thread
  ELSE IncrementQuantumCount(SetState(thread, "RUNNING"))

Dispatched(thread, queue) ==
  IncrementQuantumCount(
    IF queue = <<>> THEN thread ELSE SetState(thread, "RUNNING"))

(* siglongjmp into `thread`, which resumes behind its sigsetjmp unless it  *)
(* has never run: only a resumed thread deletes the pending one.           *)
IsResumed(thread) == thread.env # "entry"

(* Seeded fault: pendingDeletionTid is not reset.                          *)
PendingAfter_Stale(thread, pending) == pending

PendingAfter(thread, pending) == IF IsResumed(thread) THEN NoTid ELSE pending

ReplyTo(thread, tid) ==
  IF thread.env \in {"terminate", "block", "sleep"}
  THEN Reply(thread.env, tid, 0)
  ELSE NoReply

(* The process meets undefined behaviour; what it leaves is not looked at. *)
Crash ==
  /\ status' = "crashed"
  /\ UNCHANGED <<threads, readyQueue, sleepingThreads, currentTid,
                 pendingDeletionTid, totalQuantums, timerMasked, reply>>

(* Dispatching a tid that has no Thread dereferences a null pointer; a     *)
(* thread resumed only to delete itself goes on running on a freed stack.  *)
SwitchFaults(table, pending, tid) ==
  \/ tid \notin DOMAIN table
  \/ IsResumed(table[tid]) /\ tid = pending

DoContextSwitch(table, queue, sleepers, pending, site) ==
  LET saved  == Saved(table, pending, site)
      ready  == Requeued(table, pending, queue)
      next   == NextThread(ready)
      starts == With(saved, next, Dispatched(saved[next], ready))
  IN  /\ totalQuantums < MaxQuantums
      /\ IF SwitchFaults(saved, pending, next)
         THEN Crash
         ELSE /\ currentTid' = next
              /\ readyQueue' = IF ready = <<>> THEN <<>> ELSE Tail(ready)
              /\ sleepingThreads' = sleepers
              /\ totalQuantums' = totalQuantums + 1
              /\ timerMasked' = FALSE
              /\ reply' = ReplyTo(saved[next], next)
              /\ threads' = IF IsResumed(saved[next]) THEN Without(starts, pending)
                            ELSE starts
              /\ pendingDeletionTid' = PendingAfter(saved[next], pending)
              /\ UNCHANGED status

-----------------------------------------------------------------------------
(* The timer.                                                              *)

(* timerHandler: wakes the sleepers that are due, in the unspecified order *)
(* of the hash map, then switches.  A sleeper whose Thread is gone is a    *)
(* null dereference.                                                       *)
TimerHandler ==
  /\ status = "running"
  /\ ~timerMasked
  /\ IF Due \subseteq DOMAIN threads
     THEN \E order \in SetToSeqs(Woken) :
            DoContextSwitch(Awakened, readyQueue \o order, StillAsleep,
                            pendingDeletionTid, "timer")
     ELSE Crash

-----------------------------------------------------------------------------
(* The library calls.  Each is made by the running thread.                 *)

MayCall(kind) == status = "running" /\ kind \in Usage

(* A call that returns without having changed anything.                    *)
ReturnsAtOnce(call, tid, value) ==
  /\ Returns(call, tid, value)
  /\ UNCHANGED <<threads, readyQueue, sleepingThreads, currentTid,
                 pendingDeletionTid, totalQuantums, timerMasked, status>>

(* Scheduler::init *)
SchedulerInit ==
  /\ threads' = [t \in {0} |->
                   IncrementQuantumCount(SetState(NewThread(0), "RUNNING"))]
  /\ currentTid' = 0
  /\ totalQuantums' = 1
  /\ status' = "running"
  /\ UNCHANGED <<readyQueue, sleepingThreads, pendingDeletionTid, timerMasked>>

UthreadInit(quantumUsecs) ==
  /\ status = "new"
  /\ IF quantumUsecs <= 0
     THEN ReturnsAtOnce("init", NoTid, -1)
     ELSE SchedulerInit /\ Returns("init", NoTid, 0)

(* Scheduler::spawn, once it has found a tid.                              *)
SpawnAs(tid) ==
  /\ threads' = With(threads, tid, NewThread(tid))
  /\ readyQueue' = Append(readyQueue, tid)
  /\ timerMasked' = FALSE
  /\ Returns("spawn", currentTid, tid)
  /\ UNCHANGED <<sleepingThreads, currentTid, pendingDeletionTid,
                 totalQuantums, status>>

(* Scheduler::spawn *)
Spawn ==
  IF NextAvailableTid = NoTid
  THEN ReturnsAtOnce("spawn", currentTid, -1)
  ELSE SpawnAs(NextAvailableTid)

(* uthread_spawn, with an entry point or with nullptr.                     *)
UthreadSpawn(hasEntryPoint) ==
  /\ MayCall("spawn")
  /\ IF hasEntryPoint THEN Spawn ELSE ReturnsAtOnce("spawn", currentTid, -1)

(* Scheduler::terminate(0): every Thread is deleted, then exit(0).  Called *)
(* by another thread it runs on a stack it has freed, and may not get far. *)
TerminateMain ==
  /\ status' \in IF currentTid = 0 THEN {"exited"} ELSE {"exited", "crashed"}
  /\ threads' = [t \in {} |-> NewThread(t)]
  /\ reply' = NoReply
  /\ timerMasked' = FALSE
  /\ UNCHANGED <<readyQueue, sleepingThreads, currentTid, pendingDeletionTid,
                 totalQuantums>>

(* Seeded fault: the queue is left as it is.                               *)
Purged_Not(tid) == readyQueue

(* The part of Scheduler::terminate and of Scheduler::block that takes a   *)
(* READY thread off the queue.                                             *)
Purged(tid) ==
  IF threads[tid].state = "READY" THEN RemoveFromReadyQueue(readyQueue, tid)
  ELSE readyQueue

(* Seeded fault: the sleeping entry is left behind.                        *)
Deleted_LeavesSleeper(tid) ==
  /\ threads' = Without(threads, tid)
  /\ timerMasked' = FALSE
  /\ Returns("terminate", tid, 0)
  /\ UNCHANGED <<sleepingThreads, currentTid, pendingDeletionTid,
                 totalQuantums, status>>

(* The part of Scheduler::terminate that deletes another thread.           *)
Deleted(tid) ==
  /\ sleepingThreads' = Without(sleepingThreads, tid)
  /\ threads' = Without(threads, tid)
  /\ timerMasked' = FALSE
  /\ Returns("terminate", tid, 0)
  /\ UNCHANGED <<currentTid, pendingDeletionTid, totalQuantums, status>>

(* Scheduler::terminate of another thread.                                 *)
TerminateOther(tid) == readyQueue' = Purged(tid) /\ Deleted(tid)

(* Scheduler::terminate of the running thread.                             *)
TerminateSelf ==
  IF Purged(currentTid) = <<>>
  THEN /\ readyQueue' = <<>>
       /\ timerMasked' = FALSE
       /\ Returns("terminate", currentTid, -1)
       /\ UNCHANGED <<threads, sleepingThreads, currentTid,
                      pendingDeletionTid, totalQuantums, status>>
  ELSE DoContextSwitch(
         [threads EXCEPT ![currentTid] = SetState(@, "READY")],
         Purged(currentTid), sleepingThreads, currentTid, "terminate")

(* uthread_terminate *)
UthreadTerminate(tid) ==
  IF tid \notin DOMAIN threads
  THEN MayCall("terminate_other") /\ ReturnsAtOnce("terminate", tid, -1)
  ELSE \/ MayCall("terminate_main") /\ tid = 0 /\ TerminateMain
       \/ MayCall("terminate_self") /\ tid # 0 /\ tid = currentTid /\ TerminateSelf
       \/ MayCall("terminate_other") /\ tid # 0 /\ tid # currentTid /\ TerminateOther(tid)

(* Scheduler::block of a thread that waits: in the queue, or for its       *)
(* sleep to end.                                                           *)
BlockWaiting(tid) ==
  /\ readyQueue' = Purged(tid)
  /\ threads' = [threads EXCEPT ![tid] = SetBlockFlag(SetState(@, "BLOCKED"), TRUE)]
  /\ timerMasked' = FALSE
  /\ Returns("block", tid, 0)
  /\ UNCHANGED <<sleepingThreads, currentTid, pendingDeletionTid,
                 totalQuantums, status>>

(* Scheduler::block of the running thread.                                 *)
BlockSelf ==
  IF readyQueue = <<>>
  THEN /\ timerMasked' = FALSE
       /\ Returns("block", currentTid, -1)
       /\ UNCHANGED <<threads, readyQueue, sleepingThreads, currentTid,
                      pendingDeletionTid, totalQuantums, status>>
  ELSE DoContextSwitch(
         [threads EXCEPT ![currentTid] = SetBlockFlag(SetState(@, "BLOCKED"), TRUE)],
         readyQueue, sleepingThreads, pendingDeletionTid, "block")

(* Scheduler::block *)
Block(tid) ==
  IF threads[tid].didUserBlock
  THEN ReturnsAtOnce("block", tid, 0)
  ELSE IF threads[tid].state \in {"READY", "BLOCKED"}
  THEN BlockWaiting(tid)
  ELSE IF tid = currentTid
  THEN BlockSelf
  ELSE ReturnsAtOnce("block", tid, 0)

(* uthread_block *)
UthreadBlock(tid) ==
  /\ MayCall(IF tid = currentTid THEN "block_self" ELSE "block_other")
  /\ IF tid = 0 \/ tid \notin DOMAIN threads
     THEN ReturnsAtOnce("block", tid, -1)
     ELSE Block(tid)

(* Scheduler::resume of a BLOCKED thread: one that still sleeps only loses *)
(* its flag, any other goes to the back of the queue and keeps it.         *)
ResumeBlocked(tid) ==
  /\ IF tid \in DOMAIN sleepingThreads
     THEN /\ threads' = [threads EXCEPT ![tid] = SetBlockFlag(@, FALSE)]
          /\ UNCHANGED readyQueue
     ELSE /\ threads' = [threads EXCEPT ![tid] = SetState(@, "READY")]
          /\ readyQueue' = Append(readyQueue, tid)
  /\ timerMasked' = FALSE
  /\ Returns("resume", tid, 0)
  /\ UNCHANGED <<sleepingThreads, currentTid, pendingDeletionTid,
                 totalQuantums, status>>

(* Scheduler::resume *)
Resume(tid) ==
  IF threads[tid].state = "BLOCKED" THEN ResumeBlocked(tid)
  ELSE ReturnsAtOnce("resume", tid, 0)

(* uthread_resume *)
UthreadResume(tid) ==
  /\ MayCall("resume")
  /\ IF tid \in DOMAIN threads THEN Resume(tid) ELSE ReturnsAtOnce("resume", tid, -1)

(* Scheduler::sleep *)
Sleep(numQuantums) ==
  IF readyQueue = <<>>
  THEN /\ sleepingThreads' = Without(sleepingThreads, currentTid)
       /\ threads' = [threads EXCEPT ![currentTid] = SetState(@, "RUNNING")]
       /\ timerMasked' = FALSE
       /\ Returns("sleep", currentTid, -1)
       /\ UNCHANGED <<readyQueue, currentTid, pendingDeletionTid,
                      totalQuantums, status>>
  ELSE DoContextSwitch(
         [threads EXCEPT ![currentTid] = SetState(@, "BLOCKED")],
         readyQueue,
         With(sleepingThreads, currentTid, IntAdd(totalQuantums, numQuantums)),
         pendingDeletionTid, "sleep")

(* uthread_sleep *)
UthreadSleep(numQuantums) ==
  /\ MayCall("sleep")
  /\ IF numQuantums <= 0 \/ currentTid = 0
     THEN ReturnsAtOnce("sleep", currentTid, -1)
     ELSE Sleep(numQuantums)

(* uthread_get_quantums: the error return leaves SIGVTALRM masked.         *)
UthreadGetQuantums(tid) ==
  /\ IF tid \in DOMAIN threads
     THEN /\ MayCall("get_quantums")
          /\ timerMasked' = FALSE
          /\ Returns("get_quantums", tid, threads[tid].quantumCount)
     ELSE /\ MayCall("get_quantums_unknown")
          /\ timerMasked' = TRUE
          /\ Returns("get_quantums", tid, -1)
  /\ UNCHANGED <<threads, readyQueue, sleepingThreads, currentTid,
                 pendingDeletionTid, totalQuantums, status>>

-----------------------------------------------------------------------------
Init ==
  /\ threads = [t \in {} |-> NewThread(t)]
  /\ readyQueue = <<>>
  /\ sleepingThreads = [t \in {} |-> 0]
  /\ currentTid = 0
  /\ pendingDeletionTid = NoTid
  /\ totalQuantums = 0
  /\ timerMasked = FALSE
  /\ status = "new"
  /\ reply = NoReply

Next ==
  \/ \E usecs \in InitArgs : UthreadInit(usecs)
  \/ TimerHandler
  \/ \E hasEntryPoint \in BOOLEAN : UthreadSpawn(hasEntryPoint)
  \/ \E tid \in TidArgs : UthreadTerminate(tid)
  \/ \E tid \in TidArgs : UthreadBlock(tid)
  \/ \E tid \in TidArgs : UthreadResume(tid)
  \/ \E n \in SleepArgs : UthreadSleep(n)
  \/ \E tid \in TidArgs : UthreadGetQuantums(tid)

Spec == Init /\ [][Next]_vars

(* The interval timer counts down whenever the process runs, so an         *)
(* unmasked SIGVTALRM is delivered sooner or later.  Nothing obliges the   *)
(* client to make a call.                                                  *)
FairSpec == Spec /\ WF_vars(TimerHandler)

=============================================================================
