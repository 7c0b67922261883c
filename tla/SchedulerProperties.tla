------------------------- MODULE SchedulerProperties -------------------------
(***************************************************************************)
(* What the scheduler guarantees, what uthreads.h promises, and the        *)
(* vocabulary both are stated in.                                          *)
(***************************************************************************)
EXTENDS Scheduler

Running == status = "running"

Queued == ToSet(readyQueue)

(* Threads that ended themselves and whose Thread object still exists.     *)
Zombies == {t \in DOMAIN threads \ {currentTid} : threads[t].env = "terminate"}

Calls == {"init", "spawn", "terminate", "block", "resume", "sleep", "get_quantums"}

Replies == [call : Calls \cup {"none"}, tid : TidArgs, value : Int]

(* The number of quantum starts after which a queued tid runs.             *)
Position(queue, tid) == Min({i \in DOMAIN queue : queue[i] = tid})

(* A tid has at most one entry in the queue.                               *)
AtMostOnce(queue, tid) ==
  \A i, j \in DOMAIN queue : queue[i] = tid /\ queue[j] = tid => i = j

-----------------------------------------------------------------------------
(* Guarantees under every usage of the library.                            *)

(* Type correctness of every variable of the scheduler.                    *)
TypeOK ==
  /\ DOMAIN threads \subseteq ThreadIds
  /\ threads \in [DOMAIN threads -> ThreadObject]
  /\ readyQueue \in Seq(ThreadIds)
  /\ DOMAIN sleepingThreads \subseteq ThreadIds
  /\ sleepingThreads \in [DOMAIN sleepingThreads -> Int]
  /\ currentTid \in ThreadIds
  /\ pendingDeletionTid \in ThreadIds \cup {NoTid}
  /\ totalQuantums \in 0 .. MaxQuantums
  /\ timerMasked \in BOOLEAN
  /\ status \in {"new", "running", "exited", "crashed"}
  /\ reply \in Replies

(* The main thread cannot be lost: it is running, or it waits in the ready *)
(* queue exactly once.  So a call that gives up the processor always finds *)
(* a thread to switch to, and the "no threads left to run" branches of     *)
(* terminate, block and sleep are never taken.                             *)
MainNeverLost ==
  Running =>
    /\ 0 \in DOMAIN threads
    /\ currentTid = 0 <=> 0 \notin Queued
    /\ AtMostOnce(readyQueue, 0)

(* Exactly one thread is in state RUNNING, the one currentTid names, even  *)
(* after doContextSwitch put back a thread that blocked, slept or woke.    *)
OneRunning ==
  Running => {t \in DOMAIN threads : threads[t].state = "RUNNING"} = {currentTid}

(* A BLOCKED thread has no entry left in the ready queue, not even one of  *)
(* the duplicates a sleep leaves: nothing but resume or waking runs it.    *)
BlockedIsNotQueued ==
  Running => \A t \in DOMAIN threads : threads[t].state = "BLOCKED" => t \notin Queued

(* No live thread falls out of the scheduler: one that neither runs nor is *)
(* BLOCKED nor has ended itself is in the ready queue.                     *)
NoThreadLost ==
  Running => \A t \in DOMAIN threads :
    t = currentTid \/ t \in Queued \/ threads[t].state = "BLOCKED" \/ t \in Zombies

(* The thread doContextSwitch will delete on its next return is never the  *)
(* running one, although its tid may by then belong to a newer thread.     *)
PendingNeverRuns == Running => currentTid # pendingDeletionTid

(* Round robin: with every quantum that starts a queued thread moves up by *)
(* one place, and no call moves it back.  It leaves the queue only to run, *)
(* to be BLOCKED or to be deleted, so position k runs within k quanta.     *)
RoundRobin ==
  [][ Running /\ Running' =>
        \A t \in Queued :
          \/ t = currentTid'
          \/ t \notin DOMAIN threads'
          \/ threads'[t].state = "BLOCKED"
          \/ /\ t \in Queued'
             /\ Position(readyQueue', t) <= Position(readyQueue, t) - (totalQuantums' - totalQuantums)
    ]_vars

(* A tick of the timer leaves no sleeper overdue: every deadline left lies *)
(* in the quantum the tick starts or later, and whoever it woke will run   *)
(* unless it is user-blocked.                                              *)
TickWakesSleepers ==
  [][ TimerHandler /\ Running' =>
        /\ \A t \in DOMAIN sleepingThreads' : sleepingThreads'[t] >= totalQuantums'
        /\ \A t \in DOMAIN sleepingThreads \ DOMAIN sleepingThreads' :
             t \in Queued' \cup {currentTid'} \/ threads[t].didUserBlock
    ]_vars

(* A thread that uthread_block has left BLOCKED stays so until it is        *)
(* resumed or ended: not even the end of a sleep that the block cut into   *)
(* makes it READY, and no switch requeues it.                              *)
BlockLasts ==
  [][ Running /\ Running' =>
        \A t \in DOMAIN threads \cap DOMAIN threads' :
          threads[t].state = "BLOCKED" /\ threads[t].didUserBlock =>
            threads'[t].state = "BLOCKED" \/ reply' = Reply("resume", t, 0)
    ]_vars

(* Every quantum is charged once, to the thread that starts it: no thread  *)
(* that a step leaves in the table under the same tid counts differently   *)
(* unless it starts the quantum by which the total grew.  Neither waking   *)
(* nor deletion, and none of the four ways to a switch, is an exception.   *)
QuantumIsCharged ==
  [][ Running /\ Running' =>
        /\ totalQuantums' - totalQuantums \in 0 .. 1
        /\ \A t \in DOMAIN threads \cap DOMAIN threads' :
             threads'[t].quantumCount - threads[t].quantumCount =
               IF t = currentTid' THEN totalQuantums' - totalQuantums ELSE 0
    ]_vars

(* Seen from outside the scheduler is a line of tids that take turns: it   *)
(* implements TurnQueue.                                                   *)
Phase ==
  IF status = "new" THEN "off" ELSE IF status = "running" THEN "on" ELSE "over"

Turns == INSTANCE TurnQueue WITH
  Tids <- ThreadIds, Main <- 0, running <- currentTid, turns <- readyQueue,
  quanta <- totalQuantums, phase <- Phase

TurnsAreTaken == Turns!TurnSpec

-----------------------------------------------------------------------------
(* Guarantees that depend on how the client uses the library.              *)

(* No call meets a null or deleted Thread.                                 *)
NeverCrashes == status # "crashed"

(* Away from the running thread, the ready queue names the READY threads   *)
(* and no other: a thread that waits, or is gone, has no entry.  A sleep   *)
(* may have left duplicates.                                               *)
QueueNamesReady ==
  Running =>
    Queued \ {currentTid} = {t \in DOMAIN threads : threads[t].state = "READY"}

(* uthread_terminate does not return to a thread that ended itself.        *)
TerminateNeverReturns ==
  Running => reply # Reply("terminate", currentTid, 0)

(* uthread_terminate "deletes it from all relevant control structures":    *)
(* the ready queue and the sleepers name existing threads only.            *)
DeletedIsForgotten == Running => Queued \cup DOMAIN sleepingThreads \subseteq DOMAIN threads

(* Scheduling never stops: as long as the process runs, and the bound of   *)
(* the exploration is not reached, a new quantum starts.                   *)
QuantaProgress ==
  \A n \in 1 .. MaxQuantums - 1 :
    Running /\ totalQuantums = n ~> totalQuantums > n \/ ~Running

-----------------------------------------------------------------------------
(* A promise of uthreads.h that the code does not keep.                    *)

(* Only uthread_terminate removes a thread: one that has not ended itself  *)
(* disappears in a step only when it makes, or is named in, that call.     *)
OnlyTerminatedDisappear ==
  [][ Running /\ Running' =>
        \A t \in DOMAIN threads \ DOMAIN threads' :
          t \in Zombies \cup {currentTid} \/ reply' = Reply("terminate", t, 0)
    ]_vars

=============================================================================
