-------------------------- MODULE SchedulerPreempt --------------------------
(***************************************************************************)
(* The scheduler with SIGVTALRM delivered inside the library calls.        *)
(*                                                                         *)
(* Module Scheduler makes every call in one step.  Here a call is cut at   *)
(* the points where the signal is not masked and something it has read or  *)
(* done matters to what it does next; what stands between two such points  *)
(* is one step, made of the operators of Scheduler.  timerHandler is cut   *)
(* in two as well, since it unmasks the signal before it switches.         *)
(*                                                                         *)
(* frames[t] is where thread t is inside the library:                      *)
(*   "user"         outside every call;                                    *)
(*   "spawn"        spawn has chosen the tid it will use;                  *)
(*   "terminate"    uthread_terminate has seen that tid exists;            *)
(*   "purged"       terminate has taken tid off the ready queue;           *)
(*   "block"        uthread_block has seen that tid exists;                *)
(*   "blocking"     block has read the Thread pointer, the state and flag; *)
(*   "unqueued", "marked"                                                  *)
(*                  block has taken tid off the queue, has set its state;  *)
(*   "resume"       resume has seen that tid exists;                       *)
(*   "resuming"     resume has read the pointer and a BLOCKED state;       *)
(*   "get_quantums" getQuantums has seen that tid exists.                  *)
(* frames[t].object says where the pointer it holds points: to the Thread  *)
(* in the table, to one a later spawn has "replaced" there, or to one that *)
(* is "freed".  frames[t].handlers counts the timerHandler activations on  *)
(* t's stack that have still to switch.                                    *)
(***************************************************************************)
EXTENDS SchedulerProperties

CONSTANTS
  Clients,      \* client programs: which threads make each kind of call
  MaxHandlers   \* bound of the exploration: nested handlers on one stack

ASSUME PreemptAssumption ==
  /\ Clients \subseteq [CallKinds -> SUBSET ThreadIds]
  /\ MaxHandlers \in Nat

VARIABLES
  callers,      \* the client program of this run, one of Clients
  frames

preemptVars == <<vars, callers, frames>>

Places == {"user", "spawn", "terminate", "purged", "block", "blocking",
           "unqueued", "marked", "resume", "resuming", "get_quantums"}

Frame == [at : Places, tid : ThreadIds \cup {NoTid}, seen : ThreadState,
          object : {"table", "replaced", "freed"}, handlers : 0 .. MaxHandlers]

FrameAt(place, tid, seen) ==
  [at |-> place, tid |-> tid, seen |-> seen, object |-> "table", handlers |-> 0]

UserFrame == FrameAt("user", NoTid, "READY")

frame == frames[currentTid]

HoldsPointer(f) == f.at \in {"blocking", "unqueued", "marked", "resuming"}

(* What a step makes of the other threads' frames: whoever holds a pointer *)
(* to a Thread that is deleted or replaced holds a stale one, and the tids *)
(* without a Thread, or with a new one, have no frame.                     *)
Aged(f, replaced) ==
  IF ~HoldsPointer(f) \/ f.object # "table" THEN f
  ELSE IF f.tid \notin DOMAIN threads' THEN [f EXCEPT !.object = "freed"]
  ELSE IF f.tid \in replaced THEN [f EXCEPT !.object = "replaced"]
  ELSE f

FramesBecome(own, replaced) ==
  /\ frames' = [t \in ThreadIds |->
                  IF t \notin DOMAIN threads' \/ t \in replaced THEN UserFrame
                  ELSE Aged(IF t = currentTid THEN own ELSE frames[t], replaced)]
  /\ UNCHANGED callers

(* The call goes on to an unmasked point...                                *)
GoesOnTo(place, tid, seen) == FramesBecome(FrameAt(place, tid, seen), {})

(* ... or ends, or gives up the processor for the last time.               *)
Ends == FramesBecome(UserFrame, {})

(* A step that only reads.                                                 *)
Looks ==
  /\ reply' = NoReply
  /\ UNCHANGED <<threads, readyQueue, sleepingThreads, currentTid,
                 pendingDeletionTid, totalQuantums, timerMasked, status>>

(* The running thread executes its own code, or a call at `place`.         *)
RunsAt(place) == Running /\ frame.at = place /\ frame.handlers = 0

Enters(kind) == MayCall(kind) /\ RunsAt("user") /\ currentTid \in callers[kind]

-----------------------------------------------------------------------------
(* timerHandler.                                                           *)

(* The signal arrives: the handler wakes the sleepers that are due and     *)
(* unmasks the signal.                                                     *)
SignalArrives ==
  /\ Running
  /\ ~timerMasked
  /\ frame.handlers < MaxHandlers
  /\ IF Due \subseteq DOMAIN threads
     THEN /\ threads' = Awakened
          /\ sleepingThreads' = StillAsleep
          /\ \E order \in SetToSeqs(Woken) : readyQueue' = readyQueue \o order
          /\ reply' = NoReply
          /\ UNCHANGED <<currentTid, pendingDeletionTid, totalQuantums,
                         timerMasked, status>>
     ELSE Crash
  /\ FramesBecome([frame EXCEPT !.handlers = @ + 1], {})

(* The handler switches; when its thread runs again the handler returns to *)
(* what it had interrupted, another handler maybe.                         *)
HandlerSwitches ==
  /\ Running
  /\ frame.handlers > 0
  /\ DoContextSwitch(threads, readyQueue, sleepingThreads, pendingDeletionTid, "timer")
  /\ FramesBecome([frame EXCEPT !.handlers = @ - 1], {})

-----------------------------------------------------------------------------
(* The calls, step by step.                                                *)

SpawnChooses ==
  /\ Enters("spawn")
  /\ IF NextAvailableTid = NoTid
     THEN ReturnsAtOnce("spawn", currentTid, -1) /\ Ends
     ELSE Looks /\ GoesOnTo("spawn", NextAvailableTid, "READY")

SpawnCreates ==
  /\ RunsAt("spawn")
  /\ SpawnAs(frame.tid)
  /\ FramesBecome(UserFrame, {frame.tid})

TerminateKind(tid) ==
  IF tid = 0 THEN "terminate_main"
  ELSE IF tid = currentTid THEN "terminate_self" ELSE "terminate_other"

TerminateFinds(tid) ==
  /\ Enters(TerminateKind(tid))
  /\ IF tid \in DOMAIN threads
     THEN Looks /\ GoesOnTo("terminate", tid, "READY")
     ELSE ReturnsAtOnce("terminate", tid, -1) /\ Ends

(* Seeded fault: the queue is left as it is.                               *)
Unqueues_Not(tid) ==
  /\ timerMasked' = FALSE
  /\ reply' = NoReply
  /\ UNCHANGED <<threads, readyQueue, sleepingThreads, currentTid,
                 pendingDeletionTid, totalQuantums, status>>

(* removeFromReadyQueue unmasks the signal for its caller.                 *)
Unqueues(tid) ==
  /\ readyQueue' = RemoveFromReadyQueue(readyQueue, tid)
  /\ timerMasked' = FALSE
  /\ reply' = NoReply
  /\ UNCHANGED <<threads, sleepingThreads, currentTid, pendingDeletionTid,
                 totalQuantums, status>>

(* Scheduler::terminate up to the removal, or to its end when the thread   *)
(* is not READY.                                                           *)
TerminateActs ==
  LET tid == frame.tid IN
  /\ RunsAt("terminate")
  /\ \/ tid = 0 /\ TerminateMain /\ Ends
     \/ tid \notin DOMAIN threads /\ tid # 0 /\ Crash /\ Ends
     \/ /\ tid \in DOMAIN threads \ {0}
        /\ IF threads[tid].state = "READY"
           THEN Unqueues(tid) /\ GoesOnTo("purged", tid, "READY")
           ELSE (IF tid = currentTid THEN TerminateSelf ELSE TerminateOther(tid)) /\ Ends

TerminateDeletes ==
  /\ RunsAt("purged")
  /\ IF frame.tid = currentTid THEN TerminateSelf ELSE readyQueue' = readyQueue /\ Deleted(frame.tid)
  /\ Ends

BlockFinds(tid) ==
  /\ Enters(IF tid = currentTid THEN "block_self" ELSE "block_other")
  /\ IF tid # 0 /\ tid \in DOMAIN threads
     THEN Looks /\ GoesOnTo("block", tid, "READY")
     ELSE ReturnsAtOnce("block", tid, -1) /\ Ends

(* Lines 207 to 213, unmasked, in one step.                                *)
BlockReads ==
  LET tid == frame.tid IN
  /\ RunsAt("block")
  /\ IF tid \notin DOMAIN threads THEN Crash /\ Ends
     ELSE IF threads[tid].didUserBlock THEN ReturnsAtOnce("block", tid, 0) /\ Ends
     ELSE Looks /\ GoesOnTo("blocking", tid, threads[tid].state)

(* Stores through the pointer the running thread holds.                    *)
Stores(tid, thread) ==
  /\ threads' = IF frame.object = "table" THEN [threads EXCEPT ![tid] = thread]
                ELSE threads
  /\ UNCHANGED <<readyQueue, sleepingThreads, currentTid, pendingDeletionTid,
                 totalQuantums, status>>

BlockActs ==
  LET tid == frame.tid IN
  /\ RunsAt("blocking")
  /\ \/ /\ frame.seen = "READY"
        /\ Unqueues(tid)
        /\ FramesBecome([frame EXCEPT !.at = "unqueued"], {})
     \/ /\ frame.seen = "BLOCKED"
        /\ IF frame.object = "freed" THEN Crash
           ELSE /\ Stores(tid, SetBlockFlag(SetState(threads[tid], "BLOCKED"), TRUE))
                /\ timerMasked' = FALSE
                /\ Returns("block", tid, 0)
        /\ Ends
     \/ /\ frame.seen = "RUNNING"
        /\ IF tid = currentTid THEN BlockSelf ELSE ReturnsAtOnce("block", tid, 0)
        /\ Ends

BlockMarks ==
  /\ RunsAt("unqueued")
  /\ IF frame.object = "freed" THEN Crash
     ELSE /\ Stores(frame.tid, SetState(threads[frame.tid], "BLOCKED"))
          /\ reply' = NoReply
          /\ UNCHANGED timerMasked
  /\ FramesBecome([frame EXCEPT !.at = "marked"], {})

BlockFlags ==
  /\ RunsAt("marked")
  /\ IF frame.object = "freed" THEN Crash
     ELSE /\ Stores(frame.tid, SetBlockFlag(threads[frame.tid], TRUE))
          /\ timerMasked' = FALSE
          /\ Returns("block", frame.tid, 0)
  /\ Ends

ResumeFinds(tid) ==
  /\ Enters("resume")
  /\ IF tid \in DOMAIN threads
     THEN Looks /\ GoesOnTo("resume", tid, "READY")
     ELSE ReturnsAtOnce("resume", tid, -1) /\ Ends

(* Lines 250 to 255.                                                       *)
ResumeReads ==
  LET tid == frame.tid IN
  /\ RunsAt("resume")
  /\ IF tid \notin DOMAIN threads THEN Crash /\ Ends
     ELSE IF threads[tid].state = "BLOCKED" THEN Looks /\ GoesOnTo("resuming", tid, "BLOCKED")
     ELSE ReturnsAtOnce("resume", tid, 0) /\ Ends

(* Lines 257 to 270, on the pointer read before.                           *)
ResumeActs ==
  LET tid == frame.tid IN
  /\ RunsAt("resuming")
  /\ IF frame.object = "freed" THEN Crash
     ELSE IF frame.object = "table" THEN ResumeBlocked(tid)
     ELSE /\ readyQueue' = IF tid \in DOMAIN sleepingThreads THEN readyQueue
                           ELSE Append(readyQueue, tid)
          /\ timerMasked' = FALSE
          /\ Returns("resume", tid, 0)
          /\ UNCHANGED <<threads, sleepingThreads, currentTid,
                         pendingDeletionTid, totalQuantums, status>>
  /\ Ends

SleepCall(n) ==
  Enters("sleep") /\ UthreadSleep(n) /\ Ends

(* Seeded fault: both returns leave SIGVTALRM masked.                      *)
GetQuantumsFinds_LeavesMasked(tid) ==
  /\ Enters(IF tid \in DOMAIN threads THEN "get_quantums" ELSE "get_quantums_unknown")
  /\ timerMasked' = TRUE
  /\ UNCHANGED <<threads, readyQueue, sleepingThreads, currentTid,
                 pendingDeletionTid, totalQuantums, status>>
  /\ IF tid \in DOMAIN threads
     THEN reply' = NoReply /\ GoesOnTo("get_quantums", tid, "READY")
     ELSE Returns("get_quantums", tid, -1) /\ Ends

(* Lines 341 to 346: the error return leaves the signal masked.            *)
GetQuantumsFinds(tid) ==
  /\ Enters(IF tid \in DOMAIN threads THEN "get_quantums" ELSE "get_quantums_unknown")
  /\ timerMasked' = (tid \notin DOMAIN threads)
  /\ UNCHANGED <<threads, readyQueue, sleepingThreads, currentTid,
                 pendingDeletionTid, totalQuantums, status>>
  /\ IF tid \in DOMAIN threads
     THEN reply' = NoReply /\ GoesOnTo("get_quantums", tid, "READY")
     ELSE Returns("get_quantums", tid, -1) /\ Ends

GetQuantumsReads ==
  /\ RunsAt("get_quantums")
  /\ IF frame.tid \in DOMAIN threads
     THEN ReturnsAtOnce("get_quantums", frame.tid, threads[frame.tid].quantumCount)
     ELSE Crash
  /\ Ends

-----------------------------------------------------------------------------
PreemptInit ==
  /\ Init
  /\ callers \in Clients
  /\ frames = [t \in ThreadIds |-> UserFrame]

InitCall(usecs) == UthreadInit(usecs) /\ UNCHANGED <<callers, frames>>

Tick == SignalArrives \/ HandlerSwitches

PreemptNext ==
  \/ \E usecs \in InitArgs : InitCall(usecs)
  \/ SignalArrives
  \/ HandlerSwitches
  \/ SpawnChooses
  \/ SpawnCreates
  \/ \E tid \in TidArgs : TerminateFinds(tid)
  \/ TerminateActs
  \/ TerminateDeletes
  \/ \E tid \in TidArgs : BlockFinds(tid)
  \/ BlockReads
  \/ BlockActs
  \/ BlockMarks
  \/ BlockFlags
  \/ \E tid \in TidArgs : ResumeFinds(tid)
  \/ ResumeReads
  \/ ResumeActs
  \/ \E n \in SleepArgs : SleepCall(n)
  \/ \E tid \in TidArgs : GetQuantumsFinds(tid)
  \/ GetQuantumsReads

PreemptSpec == PreemptInit /\ [][PreemptNext]_preemptVars

(* The kernel delivers a signal that is not masked, and the handler it     *)
(* starts runs on.                                                         *)
PreemptFairSpec == PreemptSpec /\ WF_preemptVars(Tick)

-----------------------------------------------------------------------------
(* Guarantees under every client.                                          *)

(* Type correctness, the interrupted calls included.                       *)
PreemptTypeOK ==
  /\ TypeOK
  /\ callers \in Clients
  /\ frames \in [ThreadIds -> Frame]

(* A signal at any unmasked point leaves one thread RUNNING, the current   *)
(* one, except between the waking and the switch of a handler, which may   *)
(* wake the very thread it runs on.                                        *)
OneRunningOutsideHandlers == frame.handlers = 0 => OneRunning

-----------------------------------------------------------------------------
(* Guarantees that need some discipline of the client: see MCPreempt.      *)

(* The threads that some call has taken off the queue and not yet deleted  *)
(* or blocked.                                                             *)
Purging ==
  {frames[t].tid : t \in {u \in ThreadIds : frames[u].at \in {"purged", "unqueued"}}}

(* Between the removal from the ready queue and the deletion or blocking   *)
(* that is to follow, with the signal unmasked, nothing queues or runs the *)
(* thread again.                                                           *)
PurgedStaysOut == Running => Purging \cap (Queued \cup {currentTid}) = {}

(* Wherever a call is interrupted, a thread that neither runs nor is       *)
(* BLOCKED nor has ended itself is in the ready queue, or some call that   *)
(* has yet to finish holds it.                                             *)
NoThreadMislaid ==
  Running => \A t \in DOMAIN threads :
    t = currentTid \/ t \in Queued \/ threads[t].state = "BLOCKED" \/ t \in Zombies \cup Purging

(* Round robin with interrupted calls: a queued thread loses no place, and *)
(* leaves the queue only to run, to be BLOCKED or deleted, or in the hands *)
(* of a call that is about to do one of these.                             *)
RoundRobinPreempted ==
  [][ Running /\ Running' =>
        \A t \in Queued :
          \/ t = currentTid' \/ t \in Purging' \/ t \notin DOMAIN threads'
          \/ threads'[t].state = "BLOCKED"
          \/ /\ t \in Queued'
             /\ Position(readyQueue', t) <= Position(readyQueue, t) - (totalQuantums' - totalQuantums)
    ]_vars

(* uthread_spawn creates a new thread: the tid it returns belonged to no   *)
(* other thread just before.  Scheduler::spawn chooses the tid before it   *)
(* masks the signal, so that another thread may spawn in between.          *)
SpawnIsFresh ==
  [][ Running' /\ reply'.call = "spawn" /\ reply'.value # -1
        => reply'.value \notin DOMAIN threads ]_vars

=============================================================================
