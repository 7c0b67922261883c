----------------------------- MODULE PreemptProofs -----------------------------
(***************************************************************************)
(* The scheduler with signals inside its calls, for every client, every    *)
(* number of threads and any depth of nested handlers.                     *)
(*                                                                         *)
(* Calls of several threads are in progress at once, with tids, states and *)
(* pointers that may be long out of date, and a handler can have woken the *)
(* thread it runs on.  So SchedulingInv is too strong: a thread may be     *)
(* RUNNING nowhere, BLOCKED in the queue, or queued nowhere.  What is left *)
(* of it (SchedulingCore) rests on main and on two facts about the time in *)
(* which a thread is pending deletion: only threads that have never run    *)
(* are started in it, and these hold no stale tid, for they have been      *)
(* making their calls without a switch in between (PendingUntouched).      *)
(*                                                                         *)
(* The actions are first reduced to the few things they do to the tables   *)
(* (Effects); the theorems are proved of those.                            *)
(***************************************************************************)
EXTENDS SchedulerPreempt, SchedulerStepProofs

(* A call is at a place with a tid it can have there.  Past the places     *)
(* that single out the running thread, a call is about another one.        *)
FrameFits(t, f) ==
  /\ f.at # "user" => f.tid \in ThreadIds
  /\ f.at \in {"spawn", "purged", "unqueued", "marked", "resuming"} => f.tid \notin {0, t}
  /\ f.at \in {"block", "blocking"} => f.tid # 0
  /\ f.at = "blocking" /\ f.seen # "RUNNING" => f.tid # t

(* What the call will do to its thread supposes that it is not queued.     *)
OffTheQueue(f) ==
  f.at \in {"purged", "unqueued"} \/ (f.at = "blocking" /\ f.seen = "BLOCKED")

SchedulingCore ==
  /\ MainReady(threads, readyQueue, sleepingThreads, pendingDeletionTid)
  /\ PendingBehindMain(threads, readyQueue, pendingDeletionTid)
  /\ currentTid \in DOMAIN threads
  /\ currentTid # pendingDeletionTid
  /\ \A t \in DOMAIN threads \ {currentTid} : threads[t].state # "RUNNING"
  /\ pendingDeletionTid \in DOMAIN threads /\ threads[pendingDeletionTid].state = "BLOCKED"
       => Precedes(readyQueue, 0, pendingDeletionTid)

(* As long as a thread is pending deletion, the running thread's call has  *)
(* chosen its tid, or found its thread BLOCKED or taken it off the queue,  *)
(* in this very quantum.                                                   *)
PendingUntouched(f) ==
  pendingDeletionTid # NoTid =>
    /\ f.at = "spawn" => f.tid \notin DOMAIN threads
    /\ OffTheQueue(f) /\ f.tid = pendingDeletionTid
         => Precedes(readyQueue, 0, pendingDeletionTid)

FramesCore ==
  /\ frame.handlers = 0 => threads[currentTid].state = "RUNNING"
  /\ \A t \in DOMAIN threads \ {currentTid} : ~IsResumed(threads[t]) => frames[t] = UserFrame
  /\ \A t \in DOMAIN threads : FrameFits(t, frames[t])
  /\ PendingUntouched(frame)

PreemptInv ==
  /\ status = "new" => NotStarted /\ frames = [t \in ThreadIds |-> UserFrame]
  /\ Running => SchedulingCore /\ FramesCore

-----------------------------------------------------------------------------
(* Frames.                                                                 *)

(* The same place in the same call, whatever has become of its pointer.    *)
SameCall(f, g) ==
  f.at = g.at /\ f.tid = g.tid /\ f.seen = g.seen /\ f.handlers = g.handlers

LEMMA FrameTypes ==
  /\ UserFrame \in Frame /\ UserFrame.at = "user" /\ UserFrame.handlers = 0
  /\ \A place \in Places, tid \in ThreadIds \cup {NoTid}, seen \in ThreadState :
       FrameAt(place, tid, seen) \in Frame
  /\ \A place, tid, seen :
       /\ FrameAt(place, tid, seen).at = place
       /\ FrameAt(place, tid, seen).tid = tid
       /\ FrameAt(place, tid, seen).seen = seen
       /\ FrameAt(place, tid, seen).handlers = 0
<1>1. MaxHandlers \in Nat
  BY PreemptAssumption
<1> QED BY <1>1 DEF Frame, FrameAt, UserFrame, Places, ThreadState

LEMMA FrameUpdates ==
  ASSUME NEW f \in Frame
  PROVE  /\ f.handlers \in 0 .. MaxHandlers
         /\ \A n \in 0 .. MaxHandlers :
              LET g == [f EXCEPT !.handlers = n]
              IN  /\ g \in Frame /\ g.handlers = n
                  /\ g.at = f.at /\ g.tid = f.tid /\ g.seen = f.seen
         /\ \A place \in Places :
              LET g == [f EXCEPT !.at = place]
              IN  /\ g \in Frame /\ g.at = place
                  /\ g.handlers = f.handlers /\ g.tid = f.tid /\ g.seen = f.seen
         /\ \A object \in {"table", "replaced", "freed"} :
              LET g == [f EXCEPT !.object = object]
              IN  g \in Frame /\ SameCall(g, f)
BY DEF Frame, SameCall

LEMMA AgedFrame ==
  ASSUME NEW f \in Frame, NEW replaced
  PROVE  /\ Aged(f, replaced) \in Frame
         /\ SameCall(Aged(f, replaced), f)
         /\ f = UserFrame => Aged(f, replaced) = UserFrame
<1>1. f = UserFrame => Aged(f, replaced) = UserFrame
  BY FrameTypes DEF Aged, HoldsPointer
<1>2. Aged(f, replaced) \in {f, [f EXCEPT !.object = "freed"], [f EXCEPT !.object = "replaced"]}
  BY DEF Aged
<1> QED BY <1>1, <1>2, FrameUpdates DEF SameCall

(* Everyone but the running thread stays where it was.                     *)
LEMMA FramesAfter ==
  ASSUME PreemptTypeOK, NEW own \in Frame, NEW replaced, FramesBecome(own, replaced)
  PROVE  /\ callers' = callers
         /\ frames' \in [ThreadIds -> Frame]
         /\ \A t \in ThreadIds :
              IF t \notin DOMAIN threads' \/ t \in replaced THEN frames'[t] = UserFrame
              ELSE LET before == IF t = currentTid THEN own ELSE frames[t]
                   IN  /\ SameCall(frames'[t], before)
                       /\ before = UserFrame => frames'[t] = UserFrame
<1>1. /\ callers' = callers
      /\ frames' = [t \in ThreadIds |->
                      IF t \notin DOMAIN threads' \/ t \in replaced THEN UserFrame
                      ELSE Aged(IF t = currentTid THEN own ELSE frames[t], replaced)]
  BY DEF FramesBecome
<1>2. \A t \in ThreadIds : frames[t] \in Frame
  BY DEF PreemptTypeOK
<1>3. UserFrame \in Frame
  BY FrameTypes
<1> QED BY <1>1, <1>2, <1>3, AgedFrame

-----------------------------------------------------------------------------
(* What the actions do to the tables.                                      *)

(* The process ends.                                                       *)
Stops ==
  /\ status' \in {"exited", "crashed"}
  /\ threads' = threads \/ threads' = [t \in {} |-> NewThread(t)]
  /\ UNCHANGED <<readyQueue, sleepingThreads, currentTid, pendingDeletionTid, totalQuantums>>

(* The running thread goes on.                                             *)
GoesOn == UNCHANGED <<currentTid, pendingDeletionTid, totalQuantums, status>>

Rests == GoesOn /\ UNCHANGED <<threads, readyQueue, sleepingThreads>>

Wakes ==
  /\ GoesOn
  /\ threads' = Awakened
  /\ sleepingThreads' = StillAsleep
  /\ \E order \in SetToSeqs(Woken) : readyQueue' = readyQueue \o order

Creates(tid) ==
  /\ GoesOn
  /\ threads' = With(threads, tid, NewThread(tid))
  /\ readyQueue' = Append(readyQueue, tid)
  /\ UNCHANGED sleepingThreads
  /\ pendingDeletionTid # NoTid => tid \notin DOMAIN threads

TakesOff(tid) ==
  /\ GoesOn
  /\ readyQueue' = RemoveFromReadyQueue(readyQueue, tid)
  /\ UNCHANGED <<threads, sleepingThreads>>

(* Only terminate does it, to the thread its call is about.                *)
Deletes(tid) ==
  /\ GoesOn
  /\ frame.at \in {"terminate", "purged"} /\ frame.tid = tid
  /\ threads' = Without(threads, tid)
  /\ sleepingThreads' = Without(sleepingThreads, tid)
  /\ UNCHANGED readyQueue
  /\ tid = pendingDeletionTid => Precedes(readyQueue, 0, tid)

(* At most the state and the flag of tid are set, and it may be queued; it *)
(* is if it was BLOCKED and no longer is.                                  *)
Sets(tid) ==
  /\ GoesOn
  /\ readyQueue' = readyQueue \/ readyQueue' = Append(readyQueue, tid)
  /\ UNCHANGED sleepingThreads
  /\ DOMAIN threads' = DOMAIN threads
  /\ threads' \in [DOMAIN threads -> ThreadObject]
  /\ \A t \in DOMAIN threads \ {tid} : threads'[t] = threads[t]
  /\ tid \in DOMAIN threads =>
       /\ threads'[tid].state # "RUNNING"
       /\ \/ threads'[tid].state \in {threads[tid].state, "BLOCKED"}
          \/ readyQueue' = Append(readyQueue, tid)
       /\ threads'[tid].env = threads[tid].env
       /\ threads'[tid].quantumCount = threads[tid].quantumCount
       /\ tid = pendingDeletionTid /\ threads'[tid].state = "BLOCKED"
            => Precedes(readyQueue, 0, tid)

(* The running thread gives up the processor, as `thread`.                 *)
GivesUp(thread, sleepers, pending, site) ==
  /\ status' = "running"
  /\ currentTid = 0 => thread.state = "RUNNING"
  /\ thread.env = threads[currentTid].env
  /\ thread.quantumCount = threads[currentTid].quantumCount
  /\ SleepersOK(sleepers)
  /\ 0 \notin DOMAIN sleepers
  /\ \/ pending = pendingDeletionTid
     \/ pending = currentTid /\ currentTid # 0 /\ thread.state = "READY" /\ site = "terminate"
  /\ DoContextSwitch([threads EXCEPT ![currentTid] = thread], readyQueue,
                     sleepers, pending, site)

Switches ==
  \E sleepers :
    \E thread \in ThreadObject, pending \in ThreadIds \cup {NoTid},
       site \in {"timer", "terminate", "block", "sleep"} :
      GivesUp(thread, sleepers, pending, site)

(* Who goes on does so where a handler has not just woken it, and with a   *)
(* call that touches no pending thread before main has run.                *)
GoesOnAs(own) ==
  /\ FramesBecome(own, {})
  /\ own.handlers = 0 => frame.handlers = 0
  /\ PendingUntouched(own)

(* Whoever is about to create a thread has chosen its tid as spawn does.   *)
TidIsChosen(own) ==
  own.at = "spawn" =>
    \/ frame.at = "spawn" /\ frame.tid = own.tid
    \/ currentTid \in callers["spawn"] /\ own.tid \notin DOMAIN threads

Effects ==
  \E own \in Frame :
    /\ FrameFits(currentTid, own)
    /\ TidIsChosen(own)
    /\ \/ FramesBecome(own, {}) /\ (Stops \/ Switches)
       \/ GoesOnAs(own) /\ (Rests \/ (Wakes /\ own.handlers # 0))
       \/ \E tid \in ThreadIds \ {0, currentTid} :
            \/ GoesOnAs(own) /\ (Deletes(tid) \/ Sets(tid))
            \/ /\ FramesBecome(own, {}) /\ TakesOff(tid)
               /\ own.tid = tid /\ own.at \in {"purged", "unqueued"} /\ frame.handlers = 0
            \/ /\ FramesBecome(UserFrame, {tid}) /\ Creates(tid)
               /\ frame.at = "spawn" /\ frame.tid = tid /\ frame.handlers = 0

(* A switch that faults stops the process.                                 *)
LEMMA SwitchesOrStops ==
  ASSUME status = "running",
         NEW thread \in ThreadObject, NEW sleepers, SleepersOK(sleepers), 0 \notin DOMAIN sleepers,
         NEW pending \in ThreadIds \cup {NoTid},
         NEW site \in {"timer", "terminate", "block", "sleep"},
         currentTid = 0 => thread.state = "RUNNING",
         thread.env = threads[currentTid].env,
         thread.quantumCount = threads[currentTid].quantumCount,
         \/ pending = pendingDeletionTid
         \/ pending = currentTid /\ currentTid # 0 /\ thread.state = "READY" /\ site = "terminate",
         DoContextSwitch([threads EXCEPT ![currentTid] = thread], readyQueue,
                         sleepers, pending, site)
  PROVE  Stops \/ Switches
<1> DEFINE table == [threads EXCEPT ![currentTid] = thread]
<1>1. CASE status' = "running"
  <2>1. GivesUp(thread, sleepers, pending, site)
    BY <1>1 DEF GivesUp
  <2> QED BY <2>1 DEF Switches
<1>2. CASE status' # "running"
  <2>1. DoContextSwitch(table, readyQueue, sleepers, pending, site)
    OBVIOUS
  <2> HIDE DEF table
  <2>2. Crash
    BY <1>2, <2>1 DEF DoContextSwitch
  <2> QED BY <2>2 DEF Crash, Stops
<1> QED BY <1>1, <1>2

LEMMA EveryStepHasEffects ==
  ASSUME PreemptTypeOK, PreemptInv, PreemptNext, Running
  PROVE  Effects
<1>1. /\ status = "running"
      /\ TypeOK
      /\ TableOK(threads) /\ SleepersOK(sleepingThreads)
      /\ \A t \in DOMAIN threads : t \in ThreadIds /\ threads[t] \in ThreadObject
      /\ readyQueue \in Seq(ThreadIds)
      /\ currentTid \in ThreadIds
      /\ pendingDeletionTid \in ThreadIds \cup {NoTid}
      /\ frame \in Frame
  BY DEF Running, PreemptTypeOK, TypeOK, TableOK, SleepersOK, frame
<1>2. /\ MainReady(threads, readyQueue, sleepingThreads, pendingDeletionTid)
      /\ currentTid \in DOMAIN threads
      /\ \A t \in DOMAIN threads \ {currentTid} : threads[t].state # "RUNNING"
      /\ pendingDeletionTid \in DOMAIN threads /\ threads[pendingDeletionTid].state = "BLOCKED"
           => Precedes(readyQueue, 0, pendingDeletionTid)
      /\ frame.handlers = 0 => threads[currentTid].state = "RUNNING"
      /\ FrameFits(currentTid, frame)
      /\ PendingUntouched(frame)
  BY <1>1 DEF PreemptInv, SchedulingCore, FramesCore, frame
<1>3. /\ 0 \in DOMAIN threads /\ 0 \notin DOMAIN sleepingThreads
      /\ threads[0].state # "BLOCKED"
      /\ currentTid = 0 => threads[0].state = "RUNNING"
      /\ currentTid # 0 => readyQueue # <<>> /\ threads[0].state = "READY"
  BY <1>2 DEF MainReady, ToSet
<1>4. SchedulerAssumption /\ {"READY", "RUNNING", "BLOCKED"} = ThreadState /\ 0 \in ThreadIds
  BY SchedulerAssumption DEF ThreadState, ThreadIds, SchedulerAssumption
<1>5. frame.handlers \in 0 .. MaxHandlers /\ MaxHandlers \in Nat
  <2>1. MaxHandlers \in Nat
    BY PreemptAssumption
  <2> QED BY <1>1, <2>1 DEF Frame
\* The ways a step can leave the frame of the running thread.
<1>6. /\ UserFrame \in Frame /\ FrameFits(currentTid, UserFrame)
      /\ TidIsChosen(UserFrame) /\ PendingUntouched(UserFrame)
  BY FrameTypes DEF FrameFits, TidIsChosen, PendingUntouched, OffTheQueue
<1>7. ASSUME Ends, Stops \/ Switches PROVE Effects
  BY <1>6, <1>7 DEF Effects, Ends
<1>8. ASSUME Ends, frame.handlers = 0,
             \/ Rests
             \/ \E tid \in ThreadIds \ {0, currentTid} : Deletes(tid) \/ Sets(tid)
      PROVE  Effects
  <2>1. GoesOnAs(UserFrame)
    BY <1>6, <1>8 DEF GoesOnAs, Ends
  <2> QED BY <1>6, <1>8, <2>1 DEF Effects
<1>9. ASSUME NEW own \in Frame, FramesBecome(own, {}), frame.handlers = 0,
             FrameFits(currentTid, own), TidIsChosen(own), PendingUntouched(own), Rests
      PROVE  Effects
  <2>1. GoesOnAs(own)
    BY <1>9 DEF GoesOnAs
  <2> QED BY <1>9, <2>1 DEF Effects
<1>10. ASSUME NEW place \in Places, NEW tid \in ThreadIds \cup {NoTid}, NEW seen \in ThreadState,
             GoesOnTo(place, tid, seen), frame.handlers = 0, Rests,
             FrameFits(currentTid, FrameAt(place, tid, seen)),
             TidIsChosen(FrameAt(place, tid, seen)),
             PendingUntouched(FrameAt(place, tid, seen))
      PROVE  Effects
  <2> DEFINE own == FrameAt(place, tid, seen)
  <2>1. own \in Frame
    BY FrameTypes
  <2>2. FramesBecome(own, {})
    BY <1>10 DEF GoesOnTo
  <2> QED BY <1>9, <1>10, <2>1, <2>2
<1>11. Looks => Rests
  BY DEF Looks, Rests, GoesOn
<1>12. ASSUME NEW call, NEW tid, NEW value, ReturnsAtOnce(call, tid, value) PROVE Rests
  BY <1>12 DEF ReturnsAtOnce, Rests, GoesOn
<1>13. Crash => Stops
  BY DEF Crash, Stops
\* A tid the client passes, once it has been found in the table.
<1>14. ASSUME NEW place \in {"terminate", "resume", "get_quantums"}, NEW tid \in DOMAIN threads,
              GoesOnTo(place, tid, "READY"), frame.handlers = 0, Rests
       PROVE  Effects
  <2>1. /\ FrameFits(currentTid, FrameAt(place, tid, "READY"))
        /\ TidIsChosen(FrameAt(place, tid, "READY"))
        /\ PendingUntouched(FrameAt(place, tid, "READY"))
    BY <1>1, FrameTypes DEF FrameFits, TidIsChosen, PendingUntouched, OffTheQueue
  <2> QED BY <1>1, <1>4, <1>10, <1>14, <2>1 DEF Places
\* The fields of threads[t] behind its methods.
<1>15. ASSUME NEW t \in DOMAIN threads, NEW state \in ThreadState, NEW flag \in BOOLEAN
       PROVE  LET set     == SetState(threads[t], state)
                  flagged == SetBlockFlag(threads[t], flag)
                  both    == SetBlockFlag(set, flag)
              IN  /\ set \in ThreadObject /\ flagged \in ThreadObject /\ both \in ThreadObject
                  /\ set.state = state /\ both.state = state /\ flagged.state = threads[t].state
                  /\ set.env = threads[t].env /\ flagged.env = threads[t].env
                  /\ both.env = threads[t].env
                  /\ set.quantumCount = threads[t].quantumCount
                  /\ flagged.quantumCount = threads[t].quantumCount
                  /\ both.quantumCount = threads[t].quantumCount
  <2>1. threads[t] \in ThreadObject
    BY <1>1
  <2>2. SetState(threads[t], state) \in ThreadObject
    BY <2>1, ThreadMethods
  <2> QED BY <2>1, <2>2, ThreadMethods, ThreadFields, ThreadCounts
\* The running thread stores through a pointer that is good, or is not.
<1>16. ASSUME NEW tid \in ThreadIds \ {0, currentTid}, NEW thread,
              tid \in DOMAIN threads =>
                /\ thread \in ThreadObject
                /\ thread.state # "RUNNING"
                /\ \/ thread.state \in {threads[tid].state, "BLOCKED"}
                   \/ readyQueue' = Append(readyQueue, tid)
                /\ thread.env = threads[tid].env
                /\ thread.quantumCount = threads[tid].quantumCount
                /\ tid = pendingDeletionTid /\ thread.state = "BLOCKED"
                     => Precedes(readyQueue, 0, tid),
              threads' = threads \/ threads' = [threads EXCEPT ![tid] = thread],
              readyQueue' = readyQueue \/ readyQueue' = Append(readyQueue, tid),
              GoesOn, UNCHANGED sleepingThreads
       PROVE  Sets(tid)
  <2>1. CASE tid \notin DOMAIN threads
    <3>1. threads' = threads
      BY <1>1, <1>16, <2>1 DEF TableOK
    <3> QED BY <1>1, <1>16, <2>1, <3>1 DEF Sets, TableOK
  <2>2. CASE tid \in DOMAIN threads /\ threads' = [threads EXCEPT ![tid] = thread]
    <3>1. /\ threads' \in [DOMAIN threads -> ThreadObject] /\ DOMAIN threads' = DOMAIN threads
          /\ threads'[tid] = thread
          /\ \A t \in DOMAIN threads \ {tid} : threads'[t] = threads[t]
      BY <1>1, <1>16, <2>2 DEF TableOK
    <3> QED BY <1>16, <2>2, <3>1 DEF Sets
  <2>3. CASE tid \in DOMAIN threads /\ threads' = threads
    BY <1>1, <1>2, <1>16, <2>3 DEF Sets, TableOK
  <2> QED BY <1>16, <2>1, <2>2, <2>3
<1>17. ASSUME SignalArrives PROVE Effects
  <2> DEFINE own == [frame EXCEPT !.handlers = frame.handlers + 1]
  <2>1. frame.handlers < MaxHandlers /\ FramesBecome(own, {})
    BY <1>17 DEF SignalArrives
  <2>2. own \in Frame /\ own.handlers # 0 /\ own.at = frame.at /\ own.tid = frame.tid
        /\ own.seen = frame.seen
    <3>1. frame.handlers + 1 \in 0 .. MaxHandlers /\ frame.handlers + 1 # 0
      BY <1>5, <2>1
    <3> QED BY <1>1, <3>1, FrameUpdates
  <2> HIDE DEF own
  <2>3. FrameFits(currentTid, own) /\ TidIsChosen(own) /\ PendingUntouched(own)
    BY <1>2, <2>2 DEF FrameFits, TidIsChosen, PendingUntouched, OffTheQueue
  <2>4. CASE Due \subseteq DOMAIN threads
    <3>1. Wakes
      BY <1>17, <2>4 DEF SignalArrives, Wakes, GoesOn
    <3>2. GoesOnAs(own)
      BY <2>1, <2>2, <2>3 DEF GoesOnAs
    <3> QED BY <2>2, <2>3, <3>1, <3>2 DEF Effects
  <2>5. CASE ~(Due \subseteq DOMAIN threads)
    <3>1. Stops
      BY <1>13, <1>17, <2>5 DEF SignalArrives
    <3> QED BY <2>1, <2>2, <2>3, <3>1 DEF Effects
  <2> QED BY <2>4, <2>5
<1>18. ASSUME HandlerSwitches PROVE Effects
  <2> DEFINE own == [frame EXCEPT !.handlers = frame.handlers - 1]
  <2>1. /\ frame.handlers > 0 /\ FramesBecome(own, {})
        /\ DoContextSwitch(threads, readyQueue, sleepingThreads, pendingDeletionTid, "timer")
    BY <1>18 DEF HandlerSwitches
  <2>2. own \in Frame /\ own.at = frame.at /\ own.tid = frame.tid /\ own.seen = frame.seen
    <3>1. frame.handlers - 1 \in 0 .. MaxHandlers
      BY <1>5, <2>1
    <3> QED BY <1>1, <3>1, FrameUpdates
  <2> HIDE DEF own
  <2>3. FrameFits(currentTid, own) /\ TidIsChosen(own)
    BY <1>2, <2>2 DEF FrameFits, TidIsChosen
  <2>4. [threads EXCEPT ![currentTid] = threads[currentTid]] = threads
    BY <1>1 DEF TableOK
  <2>5. Stops \/ Switches
    <3>1. threads[currentTid] \in ThreadObject
      BY <1>1, <1>2
    <3>2. DoContextSwitch([threads EXCEPT ![currentTid] = threads[currentTid]], readyQueue,
                          sleepingThreads, pendingDeletionTid, "timer")
      BY <2>1, <2>4
    <3> QED BY <1>1, <1>3, <3>1, <3>2, SwitchesOrStops
  <2> QED BY <2>1, <2>2, <2>3, <2>5 DEF Effects
<1>19. ASSUME SpawnChooses PROVE Effects
  <2>1. frame.handlers = 0
    BY <1>19 DEF SpawnChooses, Enters, RunsAt
  <2>2. CASE NextAvailableTid = NoTid
    BY <1>8, <1>12, <1>19, <2>1, <2>2 DEF SpawnChooses
  <2>3. CASE NextAvailableTid # NoTid
    <3> DEFINE tid == NextAvailableTid
    <3>1. Looks /\ GoesOnTo("spawn", tid, "READY")
      BY <1>19, <2>3 DEF SpawnChooses
    <3>2. tid \in ThreadIds \ DOMAIN threads
      BY <1>4, <2>3, AvailableTid
    <3> HIDE DEF tid
    <3>3. /\ FrameFits(currentTid, FrameAt("spawn", tid, "READY"))
          /\ PendingUntouched(FrameAt("spawn", tid, "READY"))
      BY <1>2, <1>3, <3>2, FrameTypes DEF FrameFits, PendingUntouched, OffTheQueue
    <3>4. TidIsChosen(FrameAt("spawn", tid, "READY"))
      BY <1>19, <3>2, FrameTypes DEF TidIsChosen, SpawnChooses, Enters
    <3> QED BY <1>4, <1>10, <1>11, <2>1, <3>1, <3>2, <3>3, <3>4 DEF Places
  <2> QED BY <2>2, <2>3
<1>20. ASSUME SpawnCreates PROVE Effects
  <2> DEFINE tid == frame.tid
  <2>1. frame.at = "spawn" /\ frame.handlers = 0 /\ SpawnAs(tid) /\ FramesBecome(UserFrame, {tid})
    BY <1>20 DEF SpawnCreates, RunsAt
  <2>2. tid \in ThreadIds \ {0, currentTid}
    BY <1>2, <2>1 DEF FrameFits
  <2>3. pendingDeletionTid # NoTid => tid \notin DOMAIN threads
    BY <1>2, <2>1 DEF PendingUntouched
  <2> HIDE DEF tid
  <2>4. Creates(tid)
    BY <2>1, <2>3 DEF SpawnAs, Creates, GoesOn
  <2> QED BY <1>6, <2>1, <2>2, <2>4 DEF Effects, tid
<1>21. ASSUME NEW tid \in TidArgs, TerminateFinds(tid) PROVE Effects
  <2>1. frame.handlers = 0
    BY <1>21 DEF TerminateFinds, Enters, RunsAt
  <2> QED BY <1>8, <1>11, <1>12, <1>14, <1>21, <2>1 DEF TerminateFinds
<1>22. ASSUME TerminateActs PROVE Effects
  <2> DEFINE tid == frame.tid
  <2>1. frame.at = "terminate" /\ frame.handlers = 0 /\ tid \in ThreadIds
        /\ threads[currentTid].state = "RUNNING"
    BY <1>2, <1>22 DEF TerminateActs, RunsAt, FrameFits
  <2>2. \/ TerminateMain /\ Ends
        \/ Crash /\ Ends
        \/ /\ tid \in DOMAIN threads \ {0}
           /\ IF threads[tid].state = "READY"
              THEN Unqueues(tid) /\ GoesOnTo("purged", tid, "READY")
              ELSE (IF tid = currentTid THEN TerminateSelf ELSE TerminateOther(tid)) /\ Ends
    BY <1>22 DEF TerminateActs
  <2> HIDE DEF tid
  <2>3. ASSUME TerminateMain, Ends PROVE Effects
    <3>1. Stops
      BY <2>3 DEF TerminateMain, Stops
    <3> QED BY <1>7, <2>3, <3>1
  <2>4. ASSUME tid \in DOMAIN threads \ {0}, threads[tid].state = "READY",
               Unqueues(tid), GoesOnTo("purged", tid, "READY")
        PROVE  Effects
    <3> DEFINE own == FrameAt("purged", tid, "READY")
    <3>1. tid \in ThreadIds \ {0, currentTid}
      BY <2>1, <2>4
    <3>2. own \in Frame /\ own.tid = tid /\ own.at = "purged" /\ FramesBecome(own, {})
      BY <1>4, <2>1, <2>4, FrameTypes DEF Places, GoesOnTo
    <3> HIDE DEF own
    <3>3. FrameFits(currentTid, own) /\ TidIsChosen(own)
      BY <3>1, <3>2 DEF FrameFits, TidIsChosen
    <3>4. TakesOff(tid)
      BY <2>4 DEF Unqueues, TakesOff, GoesOn
    <3> QED BY <2>1, <3>1, <3>2, <3>3, <3>4 DEF Effects
  <2>5. ASSUME tid # 0, tid = currentTid, TerminateSelf, Ends PROVE Effects
    <3>1. Purged(currentTid) = readyQueue /\ readyQueue # <<>>
      BY <1>3, <2>1, <2>5 DEF Purged
    <3>2. DoContextSwitch([threads EXCEPT ![currentTid] = SetState(threads[currentTid], "READY")],
                          readyQueue, sleepingThreads, currentTid, "terminate")
      BY <2>5, <3>1 DEF TerminateSelf
    <3> DEFINE thread == SetState(threads[currentTid], "READY")
    <3>3. /\ thread \in ThreadObject /\ thread.state = "READY"
          /\ thread.env = threads[currentTid].env
          /\ thread.quantumCount = threads[currentTid].quantumCount
      BY <1>2, <1>4, <1>15
    <3>4. /\ SleepersOK(sleepingThreads) /\ 0 \notin DOMAIN sleepingThreads
          /\ status = "running" /\ currentTid \in ThreadIds \ {0}
      BY <1>1, <1>3, <2>5
    <3> HIDE DEF thread
    <3>5. DoContextSwitch([threads EXCEPT ![currentTid] = thread],
                          readyQueue, sleepingThreads, currentTid, "terminate")
      BY <3>2 DEF thread
    <3>6. Stops \/ Switches
      BY <3>3, <3>4, <3>5, SwitchesOrStops
    <3> QED BY <1>7, <2>5, <3>6
  <2>6. ASSUME tid \in DOMAIN threads \ {0, currentTid}, threads[tid].state # "READY",
               TerminateOther(tid), Ends
        PROVE  Effects
    <3>1. threads[tid].state = "BLOCKED"
      BY <1>1, <1>2, <2>6 DEF ThreadObject, ThreadState
    <3>2. frame.at = "terminate" /\ frame.tid = tid
      BY <2>1 DEF tid
    <3>3. Deletes(tid)
      BY <1>2, <2>6, <3>1, <3>2 DEF TerminateOther, Purged, Deleted, Deletes, GoesOn
    <3> QED BY <1>1, <1>8, <2>1, <2>6, <3>3
  <2> QED BY <1>7, <1>13, <2>2, <2>3, <2>4, <2>5, <2>6
<1>23. ASSUME TerminateDeletes PROVE Effects
  <2> DEFINE tid == frame.tid
  <2>1. frame.at = "purged" /\ frame.handlers = 0 /\ Ends
    BY <1>23 DEF TerminateDeletes, RunsAt
  <2>2. tid \in ThreadIds \ {0, currentTid}
    BY <1>2, <2>1 DEF FrameFits
  <2>3. readyQueue' = readyQueue /\ Deleted(tid)
    BY <1>23, <2>2 DEF TerminateDeletes
  <2>4. tid = pendingDeletionTid => Precedes(readyQueue, 0, tid)
    BY <1>2, <2>1, <2>2, TidTypes DEF PendingUntouched, OffTheQueue, ThreadIds, NoTid
  <2>5. frame.at = "purged" /\ frame.tid = tid
    BY <2>1
  <2> HIDE DEF tid
  <2>6. Deletes(tid)
    BY <2>3, <2>4, <2>5 DEF Deleted, Deletes, GoesOn
  <2> QED BY <1>8, <2>1, <2>2, <2>6
<1>24. ASSUME NEW tid \in TidArgs, BlockFinds(tid) PROVE Effects
  <2>1. frame.handlers = 0
    BY <1>24 DEF BlockFinds, Enters, RunsAt
  <2>2. CASE tid # 0 /\ tid \in DOMAIN threads
    <3>1. Looks /\ GoesOnTo("block", tid, "READY")
      BY <1>24, <2>2 DEF BlockFinds
    <3>2. /\ FrameFits(currentTid, FrameAt("block", tid, "READY"))
          /\ TidIsChosen(FrameAt("block", tid, "READY"))
          /\ PendingUntouched(FrameAt("block", tid, "READY"))
      BY <1>1, <2>2, FrameTypes DEF FrameFits, TidIsChosen, PendingUntouched, OffTheQueue
    <3> QED BY <1>1, <1>4, <1>10, <1>11, <2>1, <2>2, <3>1, <3>2 DEF Places
  <2>3. CASE ~(tid # 0 /\ tid \in DOMAIN threads)
    BY <1>8, <1>12, <1>24, <2>1, <2>3 DEF BlockFinds
  <2> QED BY <2>2, <2>3
<1>25. ASSUME BlockReads PROVE Effects
  <2> DEFINE tid == frame.tid
             own == FrameAt("blocking", tid, threads[tid].state)
  <2>1. frame.at = "block" /\ frame.handlers = 0
    BY <1>25 DEF BlockReads, RunsAt
  <2>2. \/ Crash /\ Ends
        \/ ReturnsAtOnce("block", tid, 0) /\ Ends
        \/ tid \in DOMAIN threads /\ Looks /\ GoesOnTo("blocking", tid, threads[tid].state)
    BY <1>25 DEF BlockReads
  <2>3. ASSUME tid \in DOMAIN threads, Looks, GoesOnTo("blocking", tid, threads[tid].state)
        PROVE  Effects
    <3>1. threads[tid].state \in ThreadState /\ tid \in ThreadIds /\ tid # 0
      BY <1>1, <1>2, <2>1, <2>3 DEF ThreadObject, FrameFits
    <3>2. FrameFits(currentTid, own) /\ TidIsChosen(own)
      BY <1>2, <2>1, <3>1, FrameTypes DEF FrameFits, TidIsChosen
    <3>3. PendingUntouched(own)
      BY <1>2, <2>3, FrameTypes DEF PendingUntouched, OffTheQueue
    <3> QED BY <1>10, <1>11, <2>1, <2>3, <3>1, <3>2, <3>3 DEF Places
  <2> QED BY <1>7, <1>8, <1>12, <1>13, <2>1, <2>2, <2>3
<1>26. ASSUME BlockActs PROVE Effects
  <2> DEFINE tid == frame.tid
             own == [frame EXCEPT !.at = "unqueued"]
             thread == SetBlockFlag(SetState(threads[tid], "BLOCKED"), TRUE)
  <2>1. frame.at = "blocking" /\ frame.handlers = 0 /\ tid \in ThreadIds \ {0}
        /\ threads[currentTid].state = "RUNNING"
    BY <1>2, <1>26 DEF BlockActs, RunsAt, FrameFits
  <2>2. \/ frame.seen = "READY" /\ Unqueues(tid) /\ FramesBecome(own, {})
        \/ frame.seen = "BLOCKED" /\ Crash /\ Ends
        \/ /\ frame.seen = "BLOCKED" /\ Stores(tid, thread) /\ Returns("block", tid, 0) /\ Ends
        \/ tid = currentTid /\ BlockSelf /\ Ends
        \/ ReturnsAtOnce("block", tid, 0) /\ Ends
    BY <1>26 DEF BlockActs
  <2>3. ASSUME frame.seen = "READY", Unqueues(tid), FramesBecome(own, {}) PROVE Effects
    <3>1. tid \in ThreadIds \ {0, currentTid}
      BY <1>2, <2>1, <2>3 DEF FrameFits
    <3>2. own \in Frame /\ own.tid = tid /\ own.at = "unqueued"
      BY <1>1, FrameUpdates DEF Places
    <3> HIDE DEF own, tid
    <3>3. FrameFits(currentTid, own) /\ TidIsChosen(own)
      BY <3>1, <3>2 DEF FrameFits, TidIsChosen
    <3>4. TakesOff(tid)
      BY <2>3 DEF Unqueues, TakesOff, GoesOn
    <3> QED BY <2>1, <2>3, <3>1, <3>2, <3>3, <3>4 DEF Effects
  <2>4. ASSUME frame.seen = "BLOCKED", Stores(tid, thread), Ends PROVE Effects
    <3>1. tid \in ThreadIds \ {0, currentTid}
      BY <1>2, <2>1, <2>4 DEF FrameFits
    <3>2. tid = pendingDeletionTid => Precedes(readyQueue, 0, tid)
      BY <1>2, <2>1, <2>4, TidTypes DEF PendingUntouched, OffTheQueue, ThreadIds, NoTid
    <3> HIDE DEF tid
    <3>3. tid \in DOMAIN threads => thread \in ThreadObject /\ thread.state = "BLOCKED"
            /\ thread.env = threads[tid].env /\ thread.quantumCount = threads[tid].quantumCount
      BY <1>4, <1>15
    <3> HIDE DEF thread
    <3>4. Sets(tid)
      BY <1>16, <2>4, <3>1, <3>2, <3>3 DEF Stores, GoesOn
    <3> QED BY <1>8, <2>1, <2>4, <3>1, <3>4
  <2>5. ASSUME tid = currentTid, BlockSelf, Ends PROVE Effects
    <3>1. readyQueue # <<>> /\ currentTid # 0
      BY <1>3, <2>1, <2>5
    <3>2. DoContextSwitch(
            [threads EXCEPT ![currentTid] = SetBlockFlag(SetState(threads[currentTid], "BLOCKED"), TRUE)],
            readyQueue, sleepingThreads, pendingDeletionTid, "block")
      BY <2>5, <3>1 DEF BlockSelf
    <3>3. Stops \/ Switches
      BY <1>1, <1>2, <1>3, <1>4, <1>15, <3>1, <3>2, SwitchesOrStops
    <3> QED BY <1>7, <2>5, <3>3
  <2> QED BY <1>7, <1>8, <1>12, <1>13, <2>1, <2>2, <2>3, <2>4, <2>5
<1>27. ASSUME BlockMarks PROVE Effects
  <2> DEFINE tid == frame.tid
             own == [frame EXCEPT !.at = "marked"]
             thread == SetState(threads[tid], "BLOCKED")
  <2>1. frame.at = "unqueued" /\ frame.handlers = 0 /\ FramesBecome(own, {})
        /\ tid \in ThreadIds \ {0, currentTid}
    BY <1>2, <1>27 DEF BlockMarks, RunsAt, FrameFits
  <2>2. own \in Frame /\ own.tid = tid /\ own.at = "marked" /\ own.handlers = 0
    BY <1>1, <2>1, FrameUpdates DEF Places
  <2>3. Crash \/ Stores(tid, thread)
    BY <1>27 DEF BlockMarks
  <2>4. tid = pendingDeletionTid => Precedes(readyQueue, 0, tid)
    BY <1>2, <2>1, TidTypes DEF PendingUntouched, OffTheQueue, ThreadIds, NoTid
  <2> HIDE DEF own, tid
  <2>5. FrameFits(currentTid, own) /\ TidIsChosen(own) /\ PendingUntouched(own)
    BY <2>1, <2>2 DEF FrameFits, TidIsChosen, PendingUntouched, OffTheQueue
  <2>6. ASSUME Stores(tid, thread) PROVE Sets(tid)
    <3>1. tid \in DOMAIN threads => thread \in ThreadObject /\ thread.state = "BLOCKED"
            /\ thread.env = threads[tid].env /\ thread.quantumCount = threads[tid].quantumCount
      BY <1>4, <1>15
    <3> HIDE DEF thread
    <3> QED BY <1>16, <2>1, <2>4, <2>6, <3>1 DEF Stores, GoesOn
  <2>7. GoesOnAs(own)
    BY <2>1, <2>5 DEF GoesOnAs
  <2> QED BY <1>13, <2>1, <2>2, <2>3, <2>5, <2>6, <2>7 DEF Effects
<1>28. ASSUME BlockFlags PROVE Effects
  <2> DEFINE tid == frame.tid
             thread == SetBlockFlag(threads[tid], TRUE)
  <2>1. frame.at = "marked" /\ frame.handlers = 0 /\ Ends /\ tid \in ThreadIds \ {0, currentTid}
    BY <1>2, <1>28 DEF BlockFlags, RunsAt, FrameFits
  <2>2. Crash \/ Stores(tid, thread)
    BY <1>28 DEF BlockFlags
  <2> HIDE DEF tid
  <2>3. ASSUME Stores(tid, thread) PROVE Sets(tid)
    <3>1. tid \in DOMAIN threads => thread \in ThreadObject /\ thread.state = threads[tid].state
            /\ thread.env = threads[tid].env /\ thread.quantumCount = threads[tid].quantumCount
      BY <1>4, <1>15
    <3> HIDE DEF thread
    <3> QED BY <1>2, <1>16, <2>1, <2>3, <3>1 DEF Stores, GoesOn
  <2> QED BY <1>7, <1>8, <1>13, <2>1, <2>2, <2>3
<1>29. ASSUME NEW tid \in TidArgs, ResumeFinds(tid) PROVE Effects
  <2>1. frame.handlers = 0
    BY <1>29 DEF ResumeFinds, Enters, RunsAt
  <2> QED BY <1>8, <1>11, <1>12, <1>14, <1>29, <2>1 DEF ResumeFinds
<1>30. ASSUME ResumeReads PROVE Effects
  <2> DEFINE tid == frame.tid
             own == FrameAt("resuming", tid, "BLOCKED")
  <2>1. frame.at = "resume" /\ frame.handlers = 0
    BY <1>30 DEF ResumeReads, RunsAt
  <2>2. \/ Crash /\ Ends
        \/ ReturnsAtOnce("resume", tid, 0) /\ Ends
        \/ tid \in DOMAIN threads /\ threads[tid].state = "BLOCKED"
           /\ Looks /\ GoesOnTo("resuming", tid, "BLOCKED")
    BY <1>30 DEF ResumeReads
  <2>3. ASSUME tid \in DOMAIN threads, threads[tid].state = "BLOCKED",
               Looks, GoesOnTo("resuming", tid, "BLOCKED")
        PROVE  Effects
    <3>1. tid \in ThreadIds /\ tid \notin {0, currentTid}
      BY <1>1, <1>2, <1>3, <2>1, <2>3
    <3>2. FrameFits(currentTid, own) /\ TidIsChosen(own) /\ PendingUntouched(own)
      BY <3>1, FrameTypes DEF FrameFits, TidIsChosen, PendingUntouched, OffTheQueue
    <3> QED BY <1>4, <1>10, <1>11, <2>1, <2>3, <3>1, <3>2 DEF Places
  <2> QED BY <1>7, <1>8, <1>12, <1>13, <2>1, <2>2, <2>3
<1>31. ASSUME ResumeActs PROVE Effects
  <2> DEFINE tid == frame.tid
  <2>1. frame.at = "resuming" /\ frame.handlers = 0 /\ Ends /\ tid \in ThreadIds \ {0, currentTid}
    BY <1>2, <1>31 DEF ResumeActs, RunsAt, FrameFits
  <2>2. \/ Crash
        \/ ResumeBlocked(tid)
        \/ /\ readyQueue' = readyQueue \/ readyQueue' = Append(readyQueue, tid)
           /\ UNCHANGED <<threads, sleepingThreads, currentTid,
                          pendingDeletionTid, totalQuantums, status>>
    BY <1>31 DEF ResumeActs
  <2> HIDE DEF tid
  <2>3. ASSUME ResumeBlocked(tid) PROVE Sets(tid)
    <3>1. CASE tid \in DOMAIN sleepingThreads
      <4> DEFINE thread == SetBlockFlag(threads[tid], FALSE)
      <4>1. threads' = [threads EXCEPT ![tid] = thread] /\ readyQueue' = readyQueue
            /\ GoesOn /\ UNCHANGED sleepingThreads
        BY <2>3, <3>1 DEF ResumeBlocked, GoesOn
      <4>2. tid \in DOMAIN threads => thread \in ThreadObject /\ thread.state = threads[tid].state
              /\ thread.env = threads[tid].env /\ thread.quantumCount = threads[tid].quantumCount
        BY <1>4, <1>15
      <4> HIDE DEF thread
      <4> QED BY <1>2, <1>16, <2>1, <4>1, <4>2
    <3>2. CASE tid \notin DOMAIN sleepingThreads
      <4> DEFINE thread == SetState(threads[tid], "READY")
      <4>1. threads' = [threads EXCEPT ![tid] = thread] /\ readyQueue' = Append(readyQueue, tid)
            /\ GoesOn /\ UNCHANGED sleepingThreads
        BY <2>3, <3>2 DEF ResumeBlocked, GoesOn
      <4>2. tid \in DOMAIN threads => thread \in ThreadObject /\ thread.state = "READY"
              /\ thread.env = threads[tid].env /\ thread.quantumCount = threads[tid].quantumCount
        BY <1>4, <1>15
      <4> HIDE DEF thread
      <4> QED BY <1>16, <2>1, <4>1, <4>2
    <3> QED BY <3>1, <3>2
  <2>4. ASSUME readyQueue' = readyQueue \/ readyQueue' = Append(readyQueue, tid),
               UNCHANGED <<threads, sleepingThreads, currentTid,
                           pendingDeletionTid, totalQuantums, status>>
        PROVE  Sets(tid)
    BY <1>1, <1>2, <2>1, <2>4 DEF Sets, GoesOn, TableOK
  <2> QED BY <1>7, <1>8, <1>13, <2>1, <2>2, <2>3, <2>4
<1>32. ASSUME NEW n \in SleepArgs, SleepCall(n) PROVE Effects
  <2>1. frame.handlers = 0 /\ UthreadSleep(n) /\ Ends
    BY <1>32 DEF SleepCall, Enters, RunsAt
  <2>2. CASE ReturnsAtOnce("sleep", currentTid, -1)
    BY <1>8, <1>12, <2>1, <2>2
  <2>3. CASE currentTid # 0 /\ Sleep(n)
    <3> DEFINE sleepers == With(sleepingThreads, currentTid, IntAdd(totalQuantums, n))
    <3>1. SleepersOK(sleepers) /\ 0 \notin DOMAIN sleepers
      <4>1. IntAdd(totalQuantums, n) \in Int
        BY <1>1, <1>4 DEF IntAdd, TypeOK, SchedulerAssumption
      <4> QED BY <1>1, <1>3, <2>3, <4>1 DEF SleepersOK, With
    <3>2. DoContextSwitch([threads EXCEPT ![currentTid] = SetState(threads[currentTid], "BLOCKED")],
                          readyQueue, sleepers, pendingDeletionTid, "sleep")
      BY <1>3, <2>3 DEF Sleep
    <3> HIDE DEF sleepers
    <3>3. Stops \/ Switches
      BY <1>1, <1>2, <1>4, <1>15, <2>3, <3>1, <3>2, SwitchesOrStops
    <3> QED BY <1>7, <2>1, <3>3
  <2> QED BY <2>1, <2>2, <2>3 DEF UthreadSleep
<1>33. ASSUME NEW tid \in TidArgs, GetQuantumsFinds(tid) PROVE Effects
  <2>1. frame.handlers = 0 /\ Rests
    BY <1>1, <1>33 DEF GetQuantumsFinds, Enters, RunsAt, Rests, GoesOn
  <2> QED BY <1>8, <1>14, <1>33, <2>1 DEF GetQuantumsFinds
<1>34. ASSUME GetQuantumsReads PROVE Effects
  <2>1. frame.handlers = 0
    BY <1>34 DEF GetQuantumsReads, RunsAt
  <2> QED BY <1>7, <1>8, <1>12, <1>13, <1>34, <2>1 DEF GetQuantumsReads
<1> QED
  BY <1>1, <1>17, <1>18, <1>19, <1>20, <1>21, <1>22, <1>23, <1>24, <1>25, <1>26, <1>27, <1>28,
     <1>29, <1>30, <1>31, <1>32, <1>33, <1>34
  DEF PreemptNext, InitCall, UthreadInit

-----------------------------------------------------------------------------
(* What the effects preserve.                                              *)

(* A step of the running thread that leaves main where it is, and behind   *)
(* it whoever was.                                                         *)
LEMMA CoreGoesOn ==
  ASSUME TypeOK, SchedulingCore, GoesOn,
         {0, currentTid} \subseteq DOMAIN threads',
         threads'[0].state = threads[0].state,
         threads'[0].env = threads[0].env,
         \A t \in DOMAIN threads' \ {currentTid} : threads'[t].state # "RUNNING",
         0 \notin DOMAIN sleepingThreads',
         0 \in ToSet(readyQueue') <=> 0 \in ToSet(readyQueue),
         AtMostOnce(readyQueue', 0),
         \A b \in ThreadIds : Precedes(readyQueue, 0, b) => Precedes(readyQueue', 0, b),
         pendingDeletionTid \in DOMAIN threads /\ IsResumed(threads[pendingDeletionTid]) =>
           \/ Precedes(readyQueue', 0, pendingDeletionTid)
           \/ /\ pendingDeletionTid \in DOMAIN threads'
              /\ IsResumed(threads'[pendingDeletionTid]),
         pendingDeletionTid \in DOMAIN threads' /\ threads'[pendingDeletionTid].state = "BLOCKED"
           => Precedes(readyQueue', 0, pendingDeletionTid)
  PROVE  SchedulingCore'
<1>1. currentTid' = currentTid /\ pendingDeletionTid' = pendingDeletionTid
  BY DEF GoesOn
<1>2. MainReady(threads, readyQueue, sleepingThreads, pendingDeletionTid)'
  BY <1>1 DEF SchedulingCore, MainReady, IsResumed
<1>3. PendingBehindMain(threads, readyQueue, pendingDeletionTid)'
  BY <1>1 DEF SchedulingCore, PendingBehindMain, TypeOK
<1> QED BY <1>1, <1>2, <1>3 DEF SchedulingCore

(* Everybody's frame after such a step.                                    *)
LEMMA FramesGoOn ==
  ASSUME PreemptTypeOK, SchedulingCore, FramesCore, GoesOn,
         NEW own \in Frame, NEW replaced, FramesBecome(own, replaced),
         FrameFits(currentTid, own),
         currentTid \in DOMAIN threads' \ replaced,
         DOMAIN threads' \subseteq ThreadIds,
         own.handlers = 0 => threads'[currentTid].state = "RUNNING",
         \A t \in DOMAIN threads' \ replaced :
           t \in DOMAIN threads /\ threads'[t].env = threads[t].env,
         pendingDeletionTid # NoTid =>
           /\ own.at = "spawn" => own.tid \notin DOMAIN threads'
           /\ OffTheQueue(own) /\ own.tid = pendingDeletionTid
                => Precedes(readyQueue', 0, pendingDeletionTid)
  PROVE  FramesCore'
<1>1. currentTid' = currentTid /\ pendingDeletionTid' = pendingDeletionTid
      /\ currentTid \in ThreadIds
  BY DEF GoesOn, PreemptTypeOK, TypeOK
<1>2. \A t \in ThreadIds :
        IF t \notin DOMAIN threads' \/ t \in replaced THEN frames'[t] = UserFrame
        ELSE LET before == IF t = currentTid THEN own ELSE frames[t]
             IN  SameCall(frames'[t], before) /\ (before = UserFrame => frames'[t] = UserFrame)
  BY FramesAfter
<1>3. SameCall(frames'[currentTid], own)
  BY <1>1, <1>2
<1>4. \A t \in DOMAIN threads' \ {currentTid} :
        ~IsResumed(threads'[t]) => frames'[t] = UserFrame
  BY <1>2 DEF FramesCore, IsResumed
<1>5. ASSUME NEW t \in DOMAIN threads' PROVE FrameFits(t, frames'[t])
  <2>1. CASE t \in replaced
    BY <1>2, <2>1, FrameTypes DEF FrameFits
  <2>2. CASE t \notin replaced /\ t = currentTid
    BY <1>3, <2>2 DEF FrameFits, SameCall
  <2>3. CASE t \notin replaced /\ t # currentTid
    <3>1. SameCall(frames'[t], frames[t]) /\ FrameFits(t, frames[t])
      BY <1>2, <2>3 DEF FramesCore
    <3> QED BY <3>1 DEF FrameFits, SameCall
  <2> QED BY <2>1, <2>2, <2>3
<1>6. PendingUntouched(frame)'
  BY <1>1, <1>3 DEF PendingUntouched, OffTheQueue, SameCall, frame
<1> QED BY <1>1, <1>3, <1>4, <1>5, <1>6 DEF FramesCore, SameCall, frame

(* What a call or the handler prepares for the switch.                     *)
LEMMA PreparedSwitch ==
  ASSUME TypeOK, SchedulingCore,
         NEW thread \in ThreadObject, NEW sleepers, NEW pending, NEW site,
         GivesUp(thread, sleepers, pending, site)
  PROVE  LET table == [threads EXCEPT ![currentTid] = thread]
         IN  /\ TableOK(table)
             /\ DOMAIN table = DOMAIN threads
             /\ table[currentTid] = thread
             /\ \A t \in DOMAIN threads \ {currentTid} : table[t] = threads[t]
             /\ MainReady(table, readyQueue, sleepers, pending)
             /\ PendingBehindMain(table, readyQueue, pending)
             /\ DoContextSwitch(table, readyQueue, sleepers, pending, site)
<1> DEFINE table == [threads EXCEPT ![currentTid] = thread]
<1>1. TableOK(threads) /\ currentTid \in DOMAIN threads
  BY DEF TypeOK, TableOK, SchedulingCore
<1>2. /\ DOMAIN table = DOMAIN threads
      /\ table[currentTid] = thread
      /\ \A t \in DOMAIN threads \ {currentTid} : table[t] = threads[t]
      /\ TableOK(table)
      /\ DoContextSwitch(table, readyQueue, sleepers, pending, site)
  BY <1>1, TableUpdates DEF TableOK, GivesUp
<1> HIDE DEF table
<1>3. /\ currentTid = 0 => thread.state = "RUNNING"
      /\ thread.env = threads[currentTid].env
      /\ 0 \notin DOMAIN sleepers
      /\ pending = pendingDeletionTid \/ (pending = currentTid /\ currentTid # 0)
  BY DEF GivesUp
<1>4. MainReady(table, readyQueue, sleepers, pending)
  BY <1>2, <1>3 DEF SchedulingCore, MainReady, IsResumed
<1>5. PendingBehindMain(table, readyQueue, pending)
  BY <1>2, <1>3 DEF SchedulingCore, PendingBehindMain, IsResumed
<1> QED BY <1>2, <1>4, <1>5 DEF table

(* The switch, from what a call or the handler prepares.                   *)
LEMMA SwitchKeepsCore ==
  ASSUME SchedulerAssumption, PreemptTypeOK, SchedulingCore, FramesCore,
         NEW own \in Frame, FramesBecome(own, {}), FrameFits(currentTid, own),
         NEW thread \in ThreadObject, NEW sleepers,
         NEW pending \in ThreadIds \cup {NoTid},
         NEW site \in {"timer", "terminate", "block", "sleep"},
         GivesUp(thread, sleepers, pending, site)
  PROVE  SchedulingCore' /\ FramesCore'
<1> DEFINE table == [threads EXCEPT ![currentTid] = thread]
<1>1. /\ currentTid \in ThreadIds /\ currentTid \in DOMAIN threads
      /\ readyQueue \in Seq(ThreadIds)
      /\ TableOK(threads)
      /\ currentTid # pendingDeletionTid
  BY DEF PreemptTypeOK, TypeOK, TableOK, SchedulingCore
<1>2. /\ DOMAIN table = DOMAIN threads
      /\ table[currentTid] = thread
      /\ \A t \in DOMAIN threads \ {currentTid} : table[t] = threads[t]
      /\ TableOK(table)
      /\ MainReady(table, readyQueue, sleepers, pending)
      /\ PendingBehindMain(table, readyQueue, pending)
      /\ DoContextSwitch(table, readyQueue, sleepers, pending, site)
  BY <1>1, PreparedSwitch DEF PreemptTypeOK
<1> HIDE DEF table
<1>3. /\ status' = "running"
      /\ \/ pending = pendingDeletionTid
         \/ pending = currentTid /\ currentTid # 0 /\ thread.state = "READY"
  BY DEF GivesUp
<1>4. \A t \in DOMAIN table \ {currentTid} : table[t].state # "RUNNING"
  BY <1>2 DEF SchedulingCore
<1>5. pending = currentTid => table[currentTid].state = "READY"
  BY <1>1, <1>2, <1>3
<1>6. /\ MainReady(threads, readyQueue, sleepingThreads, pendingDeletionTid)'
      /\ PendingBehindMain(threads, readyQueue, pendingDeletionTid)'
      /\ CurrentRuns'
      /\ SwitchedFrom(table, readyQueue, pending, site)
  BY <1>1, <1>2, <1>3, <1>4, <1>5, SwitchOutcome
<1>7. /\ DOMAIN threads' \subseteq DOMAIN threads
      /\ \A t \in DOMAIN threads' :
           /\ threads'[t].state = IF t = currentTid' THEN "RUNNING"
                                  ELSE IF t = currentTid THEN "READY" ELSE threads[t].state
           /\ threads'[t].env = IF t = currentTid THEN site ELSE threads[t].env
  BY <1>2, <1>6 DEF SwitchedFrom
<1>8. pendingDeletionTid' # NoTid =>
         /\ pendingDeletionTid' = pending
         /\ currentTid' # currentTid
         /\ currentTid' \in DOMAIN threads
         /\ ~IsResumed(threads[currentTid'])
  BY <1>2, <1>6, <1>7 DEF SwitchedFrom, CurrentRuns
<1>9. SchedulingCore'
  <2>1. \A t \in DOMAIN threads' \ {currentTid'} : threads'[t].state # "RUNNING"
    BY <1>7 DEF SchedulingCore
  <2>2. ASSUME pendingDeletionTid' \in DOMAIN threads',
               threads'[pendingDeletionTid'].state = "BLOCKED"
        PROVE  Precedes(readyQueue', 0, pendingDeletionTid')
    <3>1. pendingDeletionTid' # NoTid
      BY <1>7, <2>2 DEF TypeOK, PreemptTypeOK, ThreadIds, NoTid
    <3>2. /\ pendingDeletionTid' = pending /\ pending # currentTid
          /\ pending \in DOMAIN threads /\ threads[pending].state = "BLOCKED"
      BY <1>6, <1>7, <1>8, <2>2, <3>1 DEF CurrentRuns
    <3>3. pending = pendingDeletionTid
      BY <1>3, <3>2
    <3>4. currentTid # 0 /\ Precedes(readyQueue, 0, pending)
      BY <3>1, <3>2, <3>3 DEF SchedulingCore, PendingBehindMain
    <3> QED BY <1>6, <3>2, <3>4 DEF SwitchedFrom
  <2> QED BY <1>6, <2>1, <2>2 DEF SchedulingCore, CurrentRuns
<1>10. \A t \in DOMAIN threads' :
         LET before == IF t = currentTid THEN own ELSE frames[t]
         IN  SameCall(frames'[t], before) /\ (before = UserFrame => frames'[t] = UserFrame)
  BY <1>1, <1>7, FramesAfter DEF TableOK
<1>11. \A t \in DOMAIN threads' \ {currentTid'} :
         ~IsResumed(threads'[t]) => frames'[t] = UserFrame
  <2>1. site # "entry"
    OBVIOUS
  <2> QED BY <1>7, <1>10, <2>1 DEF FramesCore, IsResumed
<1>12. ASSUME NEW t \in DOMAIN threads' PROVE FrameFits(t, frames'[t])
  <2>1. CASE t = currentTid
    BY <1>10, <2>1 DEF FrameFits, SameCall
  <2>2. CASE t # currentTid
    <3>1. SameCall(frames'[t], frames[t]) /\ FrameFits(t, frames[t])
      BY <1>7, <1>10, <2>2 DEF FramesCore
    <3> QED BY <3>1 DEF FrameFits, SameCall
  <2> QED BY <2>1, <2>2
<1>13. ASSUME pendingDeletionTid' # NoTid PROVE frames'[currentTid'] = UserFrame
  <2>1. currentTid' \in DOMAIN threads'
    BY <1>6 DEF CurrentRuns
  <2>2. frames[currentTid'] = UserFrame
    BY <1>8, <1>13 DEF FramesCore
  <2> QED BY <1>8, <1>10, <1>13, <2>1, <2>2
<1>14. PendingUntouched(frame)'
  BY <1>13, FrameTypes DEF PendingUntouched, OffTheQueue, frame
<1>15. threads'[currentTid'].state = "RUNNING"
  BY <1>6 DEF CurrentRuns
<1>16. FramesCore'
  BY <1>11, <1>12, <1>14, <1>15 DEF FramesCore
<1> QED BY <1>9, <1>16

(* Whatever a step does to the tables, it keeps the invariant.             *)
LEMMA EffectsKeepCore ==
  ASSUME SchedulerAssumption, PreemptTypeOK, SchedulingCore, FramesCore,
         status = "running", status' = "running", Effects
  PROVE  SchedulingCore' /\ FramesCore'
<1>1. /\ TypeOK
      /\ readyQueue \in Seq(ThreadIds)
      /\ currentTid \in ThreadIds /\ currentTid \in DOMAIN threads
      /\ 0 \in DOMAIN threads
      /\ DOMAIN threads \subseteq ThreadIds
      /\ \A t \in DOMAIN threads : threads[t] \in ThreadObject
      /\ 0 \notin DOMAIN sleepingThreads
      /\ AtMostOnce(readyQueue, 0)
      /\ currentTid # pendingDeletionTid
  BY DEF PreemptTypeOK, TypeOK, SchedulingCore, MainReady
<1>2. /\ \A t \in DOMAIN threads \ {currentTid} : threads[t].state # "RUNNING"
      /\ currentTid = 0 => threads[0].state = "RUNNING"
      /\ pendingDeletionTid \in DOMAIN threads /\ threads[pendingDeletionTid].state = "BLOCKED"
           => Precedes(readyQueue, 0, pendingDeletionTid)
      /\ frame.handlers = 0 => threads[currentTid].state = "RUNNING"
  BY <1>1 DEF SchedulingCore, FramesCore, MainReady
<1>3. PICK own \in Frame :
        /\ FrameFits(currentTid, own)
        /\ \/ FramesBecome(own, {}) /\ (Stops \/ Switches)
           \/ GoesOnAs(own) /\ (Rests \/ (Wakes /\ own.handlers # 0))
           \/ \E tid \in ThreadIds \ {0, currentTid} :
                \/ GoesOnAs(own) /\ (Deletes(tid) \/ Sets(tid))
                \/ /\ FramesBecome(own, {}) /\ TakesOff(tid)
                   /\ own.tid = tid /\ own.at \in {"purged", "unqueued"} /\ frame.handlers = 0
                \/ FramesBecome(UserFrame, {tid}) /\ Creates(tid) /\ frame.handlers = 0
  BY DEF Effects
\* The frames of a step that only changes what it has to in the table.
<1>4. ASSUME GoesOnAs(own), GoesOn, SchedulingCore,
             currentTid \in DOMAIN threads', DOMAIN threads' \subseteq DOMAIN threads,
             own.handlers = 0 => threads'[currentTid].state = threads[currentTid].state,
             \A t \in DOMAIN threads' : threads'[t].env = threads[t].env,
             \A b \in ThreadIds : Precedes(readyQueue, 0, b) => Precedes(readyQueue', 0, b)
      PROVE  FramesCore'
  <2>1. FramesBecome(own, {}) /\ PendingUntouched(own)
        /\ (own.handlers = 0 => threads'[currentTid].state = "RUNNING")
    BY <1>2, <1>4 DEF GoesOnAs
  <2>2. pendingDeletionTid # NoTid =>
          /\ own.at = "spawn" => own.tid \notin DOMAIN threads'
          /\ OffTheQueue(own) /\ own.tid = pendingDeletionTid
               => Precedes(readyQueue', 0, pendingDeletionTid)
    BY <1>1, <1>4, <2>1 DEF PendingUntouched, PreemptTypeOK, TypeOK
  <2>3. DOMAIN threads' \subseteq ThreadIds
    BY <1>1, <1>4
  <2> QED BY <1>3, <1>4, <2>1, <2>2, <2>3, FramesGoOn
<1>5. ASSUME Stops PROVE FALSE
  BY <1>5 DEF Stops
<1>6. ASSUME FramesBecome(own, {}), Switches PROVE SchedulingCore' /\ FramesCore'
  <2>1. PICK sleepers :
          \E thread \in ThreadObject, pending \in ThreadIds \cup {NoTid},
             site \in {"timer", "terminate", "block", "sleep"} :
            GivesUp(thread, sleepers, pending, site)
    BY <1>6 DEF Switches
  <2> QED BY <1>3, <1>6, <2>1, SwitchKeepsCore
<1>7. ASSUME GoesOnAs(own), Rests PROVE SchedulingCore' /\ FramesCore'
  <2>1. GoesOn /\ UNCHANGED <<threads, readyQueue, sleepingThreads, currentTid, pendingDeletionTid>>
    BY <1>7 DEF Rests, GoesOn
  <2>2. SchedulingCore'
    BY <2>1 DEF SchedulingCore, MainReady, PendingBehindMain
  <2> QED BY <1>1, <1>4, <1>7, <2>1, <2>2
<1>8. ASSUME GoesOnAs(own), Wakes, own.handlers # 0 PROVE SchedulingCore' /\ FramesCore'
  <2>1. /\ GoesOn /\ threads' = Awakened /\ sleepingThreads' = StillAsleep
        /\ DOMAIN threads' = DOMAIN threads
    BY <1>8 DEF Wakes, Awakened
  <2>2. PICK order \in SetToSeqs(Woken) : readyQueue' = readyQueue \o order
    BY <1>8 DEF Wakes
  <2>3. Woken \subseteq ThreadIds \ {0}
    BY <1>1 DEF Woken, Due
  <2>4. order \in Seq(ThreadIds) /\ ToSet(order) = Woken
    BY <2>3, WakingOrder
  <2>5. /\ ToSet(readyQueue') = ToSet(readyQueue) \cup Woken
        /\ AtMostOnce(readyQueue', 0)
        /\ \A b \in ThreadIds : Precedes(readyQueue, 0, b) => Precedes(readyQueue', 0, b)
    BY <1>1, <2>2, <2>3, <2>4, Joined
  <2>6. \A t \in DOMAIN threads :
          /\ threads'[t].state = IF t \in Woken THEN "READY" ELSE threads[t].state
          /\ threads'[t].env = threads[t].env
    BY <1>1, <2>1, ThreadFields DEF Awakened
  <2>7. 0 \notin DOMAIN sleepingThreads'
    BY <1>1, <2>1 DEF StillAsleep
  <2>8. SchedulingCore'
    <3>1. 0 \in ToSet(readyQueue') <=> 0 \in ToSet(readyQueue)
      BY <2>3, <2>5
    <3>2. \A t \in DOMAIN threads' \ {currentTid} : threads'[t].state # "RUNNING"
      BY <1>2, <2>1, <2>6
    <3>3. threads'[0].state = threads[0].state /\ threads'[0].env = threads[0].env
      BY <1>1, <2>3, <2>6
    <3>4. pendingDeletionTid \in DOMAIN threads =>
            /\ pendingDeletionTid \in DOMAIN threads'
            /\ IsResumed(threads[pendingDeletionTid]) => IsResumed(threads'[pendingDeletionTid])
            /\ threads'[pendingDeletionTid].state = "BLOCKED"
                 => Precedes(readyQueue', 0, pendingDeletionTid)
      BY <1>1, <1>2, <2>1, <2>5, <2>6 DEF IsResumed
    <3> QED BY <1>1, <2>1, <2>5, <2>7, <3>1, <3>2, <3>3, <3>4, CoreGoesOn
  <2> QED BY <1>1, <1>4, <1>8, <2>1, <2>5, <2>6, <2>8
<1>9. ASSUME NEW tid \in ThreadIds \ {0, currentTid}, GoesOnAs(own), Deletes(tid)
      PROVE  SchedulingCore' /\ FramesCore'
  <2>1. /\ GoesOn /\ readyQueue' = readyQueue
        /\ DOMAIN threads' = DOMAIN threads \ {tid}
        /\ \A t \in DOMAIN threads' : threads'[t] = threads[t]
        /\ 0 \notin DOMAIN sleepingThreads'
        /\ tid = pendingDeletionTid => Precedes(readyQueue, 0, tid)
    BY <1>1, <1>9 DEF Deletes, Without
  <2>2. SchedulingCore'
    <3>1. /\ \A t \in DOMAIN threads' \ {currentTid} : threads'[t].state # "RUNNING"
          /\ {0, currentTid} \subseteq DOMAIN threads'
      BY <1>1, <1>2, <2>1
    <3>2. pendingDeletionTid \in DOMAIN threads =>
            \/ Precedes(readyQueue', 0, pendingDeletionTid)
            \/ pendingDeletionTid \in DOMAIN threads'
      BY <2>1
    <3>3. pendingDeletionTid \in DOMAIN threads'
            => threads'[pendingDeletionTid] = threads[pendingDeletionTid]
               /\ pendingDeletionTid \in DOMAIN threads
      BY <2>1
    <3> QED BY <1>1, <1>2, <2>1, <3>1, <3>2, <3>3, CoreGoesOn
  <2> QED BY <1>1, <1>4, <1>9, <2>1, <2>2
<1>10. ASSUME NEW tid \in ThreadIds \ {0, currentTid}, GoesOnAs(own), Sets(tid)
       PROVE  SchedulingCore' /\ FramesCore'
  <2>1. /\ GoesOn /\ UNCHANGED sleepingThreads
        /\ DOMAIN threads' = DOMAIN threads
        /\ \A t \in DOMAIN threads \ {tid} : threads'[t] = threads[t]
        /\ tid \in DOMAIN threads =>
             /\ threads'[tid].state # "RUNNING"
             /\ threads'[tid].env = threads[tid].env
             /\ tid = pendingDeletionTid /\ threads'[tid].state = "BLOCKED"
                  => Precedes(readyQueue, 0, tid)
    BY <1>10 DEF Sets
  <2>2. /\ 0 \in ToSet(readyQueue') <=> 0 \in ToSet(readyQueue)
        /\ AtMostOnce(readyQueue', 0)
        /\ \A b \in ThreadIds : Precedes(readyQueue, 0, b) => Precedes(readyQueue', 0, b)
    <3>1. readyQueue' = readyQueue \/ readyQueue' = Append(readyQueue, tid)
      BY <1>10 DEF Sets
    <3>2. CASE readyQueue' = Append(readyQueue, tid)
      BY <1>1, <1>10, <3>2, Pushed
    <3> QED BY <1>1, <3>1, <3>2
  <2>3. SchedulingCore'
    <3>1. \A t \in DOMAIN threads' \ {currentTid} : threads'[t].state # "RUNNING"
      BY <1>2, <2>1
    <3>2. threads'[0] = threads[0] /\ {0, currentTid} \subseteq DOMAIN threads'
      BY <1>1, <1>10, <2>1
    <3>3. pendingDeletionTid \in DOMAIN threads =>
            threads'[pendingDeletionTid].env = threads[pendingDeletionTid].env
      BY <2>1
    <3>4. pendingDeletionTid \in DOMAIN threads' /\ threads'[pendingDeletionTid].state = "BLOCKED"
            => Precedes(readyQueue', 0, pendingDeletionTid)
      BY <1>1, <1>2, <2>1, <2>2
    <3> QED BY <1>1, <2>1, <2>2, <3>1, <3>2, <3>3, <3>4, CoreGoesOn DEF IsResumed
  <2> QED BY <1>1, <1>4, <1>10, <2>1, <2>2, <2>3
<1>11. ASSUME NEW tid \in ThreadIds \ {0, currentTid}, FramesBecome(own, {}), TakesOff(tid),
              own.tid = tid, own.at \in {"purged", "unqueued"}, frame.handlers = 0
       PROVE  SchedulingCore' /\ FramesCore'
  <2>1. /\ GoesOn /\ UNCHANGED <<threads, sleepingThreads>>
        /\ readyQueue' = RemoveFromReadyQueue(readyQueue, tid)
    BY <1>11 DEF TakesOff
  <2>2. /\ \A t \in ThreadIds : t \in ToSet(readyQueue') <=> t # tid /\ t \in ToSet(readyQueue)
        /\ AtMostOnce(readyQueue', 0)
        /\ \A b \in ThreadIds : Precedes(readyQueue, 0, b) => Precedes(readyQueue', 0, b)
    BY <1>1, <2>1, RemovedFromReadyQueue
  <2>3. SchedulingCore'
    BY <1>1, <1>2, <1>11, <2>1, <2>2, CoreGoesOn
  <2>4. Precedes(readyQueue', 0, tid)
    BY <2>2 DEF Precedes, ToSet
  <2>5. FramesCore'
    <3>1. /\ FrameFits(currentTid, own) /\ own.at # "spawn"
          /\ threads[currentTid].state = "RUNNING"
      BY <1>2, <1>3, <1>11
    <3>2. currentTid \in DOMAIN threads' /\ DOMAIN threads' \subseteq ThreadIds /\ threads' = threads
      BY <1>1, <2>1
    <3> QED BY <1>11, <2>1, <2>4, <3>1, <3>2, FramesGoOn
  <2> QED BY <2>3, <2>5
<1>12. ASSUME NEW tid \in ThreadIds \ {0, currentTid},
              FramesBecome(UserFrame, {tid}), Creates(tid), frame.handlers = 0
       PROVE  SchedulingCore' /\ FramesCore'
  <2>1. /\ GoesOn /\ UNCHANGED sleepingThreads
        /\ DOMAIN threads' = DOMAIN threads \cup {tid}
        /\ \A t \in DOMAIN threads' \ {tid} : threads'[t] = threads[t]
        /\ threads'[tid].state = "READY"
        /\ readyQueue' = Append(readyQueue, tid)
        /\ pendingDeletionTid # NoTid => tid \notin DOMAIN threads
    BY <1>12 DEF Creates, With, NewThread
  <2>2. /\ 0 \in ToSet(readyQueue') <=> 0 \in ToSet(readyQueue)
        /\ AtMostOnce(readyQueue', 0)
        /\ \A b \in ThreadIds : Precedes(readyQueue, 0, b) => Precedes(readyQueue', 0, b)
    BY <1>1, <1>12, <2>1, Pushed
  <2>3. SchedulingCore'
    <3>1. \A t \in DOMAIN threads' \ {currentTid} : threads'[t].state # "RUNNING"
      BY <1>2, <2>1
    <3>2. threads'[0] = threads[0] /\ {0, currentTid} \subseteq DOMAIN threads'
      BY <1>1, <1>12, <2>1
    <3>3. pendingDeletionTid \in DOMAIN threads =>
            /\ pendingDeletionTid # tid
            /\ pendingDeletionTid \in DOMAIN threads'
            /\ threads'[pendingDeletionTid] = threads[pendingDeletionTid]
      BY <1>1, <2>1 DEF ThreadIds, NoTid
    <3>4. pendingDeletionTid \in DOMAIN threads' /\ threads'[pendingDeletionTid].state = "BLOCKED"
            => Precedes(readyQueue', 0, pendingDeletionTid)
      BY <1>1, <1>2, <2>1, <2>2
    <3> QED BY <1>1, <2>1, <2>2, <3>1, <3>2, <3>3, <3>4, CoreGoesOn
  <2>4. FrameFits(currentTid, UserFrame) /\ UserFrame \in Frame /\ UserFrame.at = "user"
    BY FrameTypes DEF FrameFits
  <2>5. DOMAIN threads' \subseteq ThreadIds /\ currentTid \in DOMAIN threads' \ {tid}
        /\ threads'[currentTid].state = "RUNNING"
    BY <1>1, <1>2, <1>12, <2>1
  <2>6. ~OffTheQueue(UserFrame)
    BY <2>4 DEF OffTheQueue
  <2> QED BY <1>12, <2>1, <2>3, <2>4, <2>5, <2>6, FramesGoOn
<1> QED BY <1>3, <1>5, <1>6, <1>7, <1>8, <1>9, <1>10, <1>11, <1>12

-----------------------------------------------------------------------------
(* Types.                                                                  *)

(* Whatever its caller prepared, the switch leaves a reply to a valid tid. *)
LEMMA SwitchReplies ==
  ASSUME SchedulerAssumption, TypeOK, NEW table, NEW queue \in Seq(ThreadIds), NEW sleepers,
         NEW pending, NEW site, DoContextSwitch(table, queue, sleepers, pending, site)
  PROVE  reply' \in Replies /\ timerMasked' \in BOOLEAN
<1> DEFINE saved == Saved(table, pending, site)
           ready == Requeued(table, pending, queue)
           next  == NextThread(ready)
<1>1. CASE SwitchFaults(saved, pending, next)
  BY <1>1 DEF DoContextSwitch, Crash, TypeOK
<1>2. CASE ~SwitchFaults(saved, pending, next)
  <2>1. timerMasked' = FALSE /\ reply' = ReplyTo(saved[next], next)
    BY <1>2 DEF DoContextSwitch
  <2>2. ready \in Seq(ThreadIds) /\ currentTid \in ThreadIds
    BY Pushed DEF TypeOK, Requeued
  <2> HIDE DEF ready, saved
  <2>3. next \in TidArgs
    BY <2>2, Popped, TidTypes DEF NextThread
  <2> HIDE DEF next
  <2>4. ReplyTo(saved[next], next) \in Replies
    BY <2>3, TidTypes DEF ReplyTo, Reply, NoReply, Replies, Calls, NoTid
  <2> QED BY <2>1, <2>4
<1> QED BY <1>1, <1>2

LEMMA RepliesNext ==
  ASSUME SchedulerAssumption, PreemptTypeOK, PreemptNext
  PROVE  reply' \in Replies /\ timerMasked' \in BOOLEAN
<1> DEFINE Fine == reply' \in Replies /\ timerMasked' \in BOOLEAN
<1>1. /\ TypeOK
      /\ currentTid \in TidArgs /\ NoTid \in TidArgs
      /\ frame.tid \in TidArgs
      /\ readyQueue \in Seq(ThreadIds)
      /\ \A t \in DOMAIN threads : threads[t].quantumCount \in Int
      /\ NoReply \in Replies
  <2>1. currentTid \in ThreadIds /\ frame \in Frame
    BY DEF PreemptTypeOK, TypeOK, frame
  <2>2. \A t \in DOMAIN threads : threads[t] \in ThreadObject
    BY DEF PreemptTypeOK, TypeOK
  <2> QED BY <2>1, <2>2, TidTypes DEF PreemptTypeOK, TypeOK, Frame, ThreadObject,
                                     NoReply, Reply, Replies, NoTid
<1>2. ASSUME NEW call \in Calls, NEW tid \in TidArgs, NEW value \in Int, ReturnsAtOnce(call, tid, value)
      PROVE  Fine
  BY <1>1, <1>2, RepliesType DEF ReturnsAtOnce, Returns, TypeOK
<1>3. ASSUME Looks PROVE Fine
  BY <1>1, <1>3 DEF Looks, TypeOK
<1>4. ASSUME Crash PROVE Fine
  BY <1>1, <1>4 DEF Crash, TypeOK
<1>5. ASSUME NEW tid, Unqueues(tid) PROVE Fine
  BY <1>1, <1>5 DEF Unqueues
<1>6. ASSUME NEW call \in Calls, NEW tid \in TidArgs, NEW value \in Int,
             Returns(call, tid, value), timerMasked' \in BOOLEAN
      PROVE  Fine
  BY <1>6, RepliesType DEF Returns
<1>7. ASSUME NEW table, NEW queue \in Seq(ThreadIds), NEW sleepers, NEW pending, NEW site,
             DoContextSwitch(table, queue, sleepers, pending, site)
      PROVE  Fine
  BY <1>1, <1>7, SwitchReplies
<1>8. {"init", "spawn", "terminate", "block", "resume", "sleep", "get_quantums"} = Calls
      /\ {-1, 0} \subseteq Int
  BY DEF Calls
<1> HIDE DEF Fine
<1>9. ASSUME NEW usecs \in InitArgs, InitCall(usecs) PROVE Fine
  <2>1. ReturnsAtOnce("init", NoTid, -1) \/ (Returns("init", NoTid, 0) /\ SchedulerInit)
    BY <1>9 DEF InitCall, UthreadInit
  <2> QED BY <1>1, <1>2, <1>6, <1>8, <2>1 DEF SchedulerInit, TypeOK
<1>10. ASSUME SignalArrives PROVE Fine
  <2>1. Crash \/ (reply' = NoReply /\ UNCHANGED timerMasked)
    BY <1>10 DEF SignalArrives
  <2> QED BY <1>1, <1>4, <2>1 DEF TypeOK, Fine
<1>11. ASSUME HandlerSwitches PROVE Fine
  BY <1>1, <1>7, <1>11 DEF HandlerSwitches
<1>12. ASSUME SpawnChooses PROVE Fine
  <2>1. ReturnsAtOnce("spawn", currentTid, -1) \/ Looks
    BY <1>12 DEF SpawnChooses
  <2>2. "spawn" \in Calls /\ currentTid \in TidArgs /\ -1 \in Int
    BY <1>1, <1>8
  <2> QED BY <1>2, <1>3, <2>1, <2>2
<1>13. ASSUME SpawnCreates PROVE Fine
  BY <1>1, <1>6, <1>8, <1>13, TidTypes DEF SpawnCreates, SpawnAs
<1>14. ASSUME NEW tid \in TidArgs, TerminateFinds(tid) PROVE Fine
  BY <1>2, <1>3, <1>8, <1>14 DEF TerminateFinds
<1>15. ASSUME TerminateSelf PROVE Fine
  <2>1. Purged(currentTid) \in Seq(ThreadIds)
    BY <1>1, RemovedFromReadyQueue DEF Purged
  <2>2. CASE Purged(currentTid) = <<>>
    BY <1>1, <1>6, <1>8, <1>15, <2>2 DEF TerminateSelf
  <2>3. CASE Purged(currentTid) # <<>>
    BY <1>7, <1>15, <2>1, <2>3 DEF TerminateSelf
  <2> QED BY <2>2, <2>3
<1>16. ASSUME NEW tid \in TidArgs, Deleted(tid) PROVE Fine
  BY <1>6, <1>8, <1>16 DEF Deleted
<1>17. ASSUME TerminateActs PROVE Fine
  <2>1. CASE TerminateMain
    BY <1>1, <2>1 DEF TerminateMain, Fine
  <2> QED BY <1>1, <1>4, <1>5, <1>15, <1>16, <1>17, <2>1 DEF TerminateActs, TerminateOther
<1>18. ASSUME TerminateDeletes PROVE Fine
  BY <1>1, <1>15, <1>16, <1>18 DEF TerminateDeletes
<1>19. ASSUME NEW tid \in TidArgs, BlockFinds(tid) PROVE Fine
  BY <1>2, <1>3, <1>8, <1>19 DEF BlockFinds
<1>20. ASSUME BlockReads PROVE Fine
  BY <1>1, <1>2, <1>3, <1>4, <1>8, <1>20 DEF BlockReads
<1>21. ASSUME BlockSelf PROVE Fine
  <2>1. CASE readyQueue = <<>>
    BY <1>1, <1>6, <1>8, <1>21, <2>1 DEF BlockSelf
  <2>2. CASE readyQueue # <<>>
    BY <1>1, <1>7, <1>21, <2>2 DEF BlockSelf
  <2> QED BY <2>1, <2>2
<1>22. ASSUME BlockActs PROVE Fine
  <2>1. \/ Unqueues(frame.tid) \/ Crash \/ BlockSelf \/ ReturnsAtOnce("block", frame.tid, 0)
        \/ Returns("block", frame.tid, 0) /\ timerMasked' = FALSE
    BY <1>22 DEF BlockActs
  <2> QED BY <1>1, <1>2, <1>4, <1>5, <1>6, <1>8, <1>21, <2>1
<1>23. ASSUME BlockMarks PROVE Fine
  <2>1. Crash \/ (reply' = NoReply /\ UNCHANGED timerMasked)
    BY <1>23 DEF BlockMarks
  <2> QED BY <1>1, <1>4, <2>1 DEF TypeOK, Fine
<1>24. ASSUME BlockFlags PROVE Fine
  BY <1>1, <1>4, <1>6, <1>8, <1>24 DEF BlockFlags
<1>25. ASSUME NEW tid \in TidArgs, ResumeFinds(tid) PROVE Fine
  BY <1>2, <1>3, <1>8, <1>25 DEF ResumeFinds
<1>26. ASSUME ResumeReads PROVE Fine
  BY <1>1, <1>2, <1>3, <1>4, <1>8, <1>26 DEF ResumeReads
<1>27. ASSUME ResumeActs PROVE Fine
  BY <1>1, <1>4, <1>6, <1>8, <1>27 DEF ResumeActs, ResumeBlocked
<1>28. ASSUME NEW n \in SleepArgs, SleepCall(n) PROVE Fine
  <2>1. CASE readyQueue = <<>>
    BY <1>1, <1>2, <1>6, <1>8, <1>28, <2>1 DEF SleepCall, UthreadSleep, Sleep
  <2>2. CASE readyQueue # <<>>
    BY <1>1, <1>2, <1>7, <1>8, <1>28, <2>2 DEF SleepCall, UthreadSleep, Sleep
  <2> QED BY <2>1, <2>2
<1>29. ASSUME NEW tid \in TidArgs, GetQuantumsFinds(tid) PROVE Fine
  <2>1. timerMasked' \in BOOLEAN /\ (reply' = NoReply \/ Returns("get_quantums", tid, -1))
    BY <1>29 DEF GetQuantumsFinds
  <2> QED BY <1>1, <1>6, <1>8, <2>1 DEF Fine
<1>30. ASSUME GetQuantumsReads PROVE Fine
  BY <1>1, <1>2, <1>4, <1>8, <1>30 DEF GetQuantumsReads
<1> QED
  BY <1>9, <1>10, <1>11, <1>12, <1>13, <1>14, <1>17, <1>18, <1>19, <1>20, <1>22, <1>23, <1>24,
     <1>25, <1>26, <1>27, <1>28, <1>29, <1>30
  DEF PreemptNext, Fine

(* Whatever a step does to the tables, they keep their types.              *)
LEMMA EffectsKeepTypes ==
  ASSUME SchedulerAssumption, PreemptTypeOK, PreemptInv, Running, Effects,
         reply' \in Replies, timerMasked' \in BOOLEAN
  PROVE  PreemptTypeOK'
<1>1. /\ TypeOK /\ status = "running"
      /\ TableOK(threads) /\ SleepersOK(sleepingThreads)
      /\ readyQueue \in Seq(ThreadIds)
      /\ currentTid \in DOMAIN threads
  BY DEF PreemptTypeOK, TypeOK, TableOK, SleepersOK, Running, PreemptInv, SchedulingCore
<1>2. PICK own \in Frame :
        /\ \E some, replaced : some \in Frame /\ FramesBecome(some, replaced)
        /\ \/ Stops \/ Switches \/ Rests \/ Wakes
           \/ \E tid \in ThreadIds \ {0, currentTid} :
                Deletes(tid) \/ Sets(tid) \/ TakesOff(tid) \/ Creates(tid)
  <2>1. UserFrame \in Frame
    BY FrameTypes
  <2> QED BY <2>1 DEF Effects, GoesOnAs
<1>3. callers' \in Clients /\ frames' \in [ThreadIds -> Frame]
  BY <1>2, FramesAfter DEF PreemptTypeOK
<1>4. ASSUME TableOK(threads'), SleepersOK(sleepingThreads'), readyQueue' \in Seq(ThreadIds),
             UNCHANGED <<currentTid, pendingDeletionTid, totalQuantums>>,
             status' \in {"running", "exited", "crashed"}
      PROVE  TypeOK'
  BY <1>1, <1>4 DEF TypeOK, TableOK, SleepersOK
<1>5. ASSUME GoesOn PROVE UNCHANGED <<currentTid, pendingDeletionTid, totalQuantums>>
                          /\ status' \in {"running", "exited", "crashed"}
  BY <1>1, <1>5 DEF GoesOn
<1>6. CASE Stops
  <2>1. TableOK(threads')
    BY <1>1, <1>6 DEF Stops, TableOK
  <2> QED BY <1>1, <1>3, <1>4, <1>6, <2>1 DEF Stops, PreemptTypeOK
<1>7. CASE Switches
  <2>1. PICK sleepers :
          \E thread \in ThreadObject, pending \in ThreadIds \cup {NoTid},
             site \in {"timer", "terminate", "block", "sleep"} :
            GivesUp(thread, sleepers, pending, site)
    BY <1>7 DEF Switches
  <2>2. PICK thread \in ThreadObject, pending \in ThreadIds \cup {NoTid},
             site \in {"timer", "terminate", "block", "sleep"} :
          GivesUp(thread, sleepers, pending, site)
    BY <2>1
  <2> DEFINE table == [threads EXCEPT ![currentTid] = thread]
  <2>3. TableOK(table) /\ SleepersOK(sleepers)
        /\ DoContextSwitch(table, readyQueue, sleepers, pending, site)
    BY <1>1, <2>2, TableUpdates DEF GivesUp
  <2> HIDE DEF table
  <2>4. TypeOK'
    BY <1>1, <2>3, SwitchType
  <2> QED BY <1>3, <2>4 DEF PreemptTypeOK
<1>8. CASE Rests
  BY <1>1, <1>3, <1>4, <1>5, <1>8 DEF Rests, PreemptTypeOK
<1>9. CASE Wakes
  <2>1. PICK order \in SetToSeqs(Woken) : readyQueue' = readyQueue \o order
    BY <1>9 DEF Wakes
  <2>2. readyQueue' \in Seq(ThreadIds)
    <3>1. Woken \subseteq ThreadIds
      BY <1>1 DEF Woken, TableOK
    <3> QED BY <1>1, <2>1, <3>1, WakingOrder, Joined
  <2>3. TableOK(threads')
    <3>1. \A t \in DOMAIN threads : threads[t] \in ThreadObject /\ SetState(threads[t], "READY") \in ThreadObject
      BY <1>1, ThreadMethods DEF TableOK, ThreadState
    <3> QED BY <1>1, <1>9, <3>1 DEF Wakes, Awakened, TableOK
  <2>4. SleepersOK(sleepingThreads')
    BY <1>1, <1>9 DEF Wakes, StillAsleep, SleepersOK
  <2> QED BY <1>3, <1>4, <1>5, <1>9, <2>2, <2>3, <2>4 DEF Wakes, PreemptTypeOK
<1>10. ASSUME NEW tid \in ThreadIds, Deletes(tid) PROVE PreemptTypeOK'
  <2>1. TableOK(threads') /\ SleepersOK(sleepingThreads')
    BY <1>1, <1>10 DEF Deletes, Without, TableOK, SleepersOK
  <2> QED BY <1>1, <1>3, <1>4, <1>5, <1>10, <2>1 DEF Deletes, PreemptTypeOK
<1>11. ASSUME NEW tid \in ThreadIds, Sets(tid) PROVE PreemptTypeOK'
  <2>1. TableOK(threads')
    BY <1>1, <1>11 DEF Sets, TableOK
  <2>2. readyQueue' \in Seq(ThreadIds)
    BY <1>1, <1>11, Pushed DEF Sets
  <2> QED BY <1>1, <1>3, <1>4, <1>5, <1>11, <2>1, <2>2 DEF Sets, PreemptTypeOK
<1>12. ASSUME NEW tid \in ThreadIds, TakesOff(tid) PROVE PreemptTypeOK'
  <2>1. readyQueue' \in Seq(ThreadIds)
    BY <1>1, <1>12, RemovedFromReadyQueue DEF TakesOff
  <2> QED BY <1>1, <1>3, <1>4, <1>5, <1>12, <2>1 DEF TakesOff, PreemptTypeOK
<1>13. ASSUME NEW tid \in ThreadIds, Creates(tid) PROVE PreemptTypeOK'
  <2>1. TableOK(threads') /\ readyQueue' \in Seq(ThreadIds)
    BY <1>1, <1>13, ThreadMethods, TableUpdates, Pushed DEF Creates
  <2> QED BY <1>1, <1>3, <1>4, <1>5, <1>13, <2>1 DEF Creates, PreemptTypeOK
<1> QED BY <1>2, <1>6, <1>7, <1>8, <1>9, <1>10, <1>11, <1>12, <1>13

-----------------------------------------------------------------------------
(* The invariant.                                                          *)
LEMMA PreemptInitially == ASSUME SchedulerAssumption, PreemptInit PROVE PreemptTypeOK /\ PreemptInv
<1>1. Init /\ callers \in Clients /\ frames = [t \in ThreadIds |-> UserFrame]
  BY DEF PreemptInit
<1>2. TypeOK
  BY <1>1, TypeInit
<1>3. frames \in [ThreadIds -> Frame]
  BY <1>1, FrameTypes
<1>4. status = "new" /\ NotStarted
  BY <1>1 DEF Init, NotStarted
<1> QED BY <1>1, <1>2, <1>3, <1>4 DEF PreemptTypeOK, PreemptInv, Running

LEMMA PreemptKept ==
  ASSUME SchedulerAssumption, PreemptTypeOK, PreemptInv, [PreemptNext]_preemptVars
  PROVE  PreemptTypeOK' /\ PreemptInv'
<1>1. CASE Running /\ PreemptNext
  <2>1. Effects
    BY <1>1, EveryStepHasEffects
  <2>2. PreemptTypeOK'
    BY <1>1, <2>1, RepliesNext, EffectsKeepTypes
  <2>3. status' # "new"
    BY <1>1, <2>1
    DEF Effects, GoesOnAs, Running, Stops, Switches, GivesUp, GoesOn, Rests, Wakes,
        Creates, TakesOff, Deletes, Sets
  <2>4. status' = "running" => SchedulingCore' /\ FramesCore'
    BY <1>1, <2>1, EffectsKeepCore DEF PreemptInv, Running
  <2> QED BY <2>2, <2>3, <2>4 DEF PreemptInv, Running
<1>2. ASSUME NEW usecs \in InitArgs, InitCall(usecs) PROVE PreemptTypeOK' /\ PreemptInv'
  <2>1. /\ status = "new" /\ NotStarted /\ frames = [t \in ThreadIds |-> UserFrame]
        /\ UNCHANGED <<callers, frames>>
        /\ UthreadInit(usecs)
    BY <1>2 DEF InitCall, UthreadInit, PreemptInv
  <2>2. TypeOK'
    <3>1. [Next]_vars
      BY <2>1 DEF Next
    <3> QED BY <3>1, TypeNext DEF PreemptTypeOK
  <2>3. PreemptTypeOK'
    BY <2>1, <2>2 DEF PreemptTypeOK
  <2>4. CASE usecs <= 0
    <3>1. status' = "new" /\ NotStarted'
      BY <2>1, <2>4 DEF UthreadInit, ReturnsAtOnce, NotStarted
    <3> QED BY <2>1, <2>3, <3>1 DEF PreemptInv, Running
  <2>5. CASE ~(usecs <= 0)
    <3>1. SchedulerInit
      BY <2>1, <2>5 DEF UthreadInit
    <3>2. /\ DOMAIN threads' = {0} /\ currentTid' = 0 /\ pendingDeletionTid' = NoTid
          /\ readyQueue' = <<>> /\ DOMAIN sleepingThreads' = {}
          /\ status' = "running"
      BY <2>1, <3>1 DEF SchedulerInit, NotStarted
    <3>3. threads'[0].state = "RUNNING" /\ IsResumed(threads'[0])
      <4>1. SetState(NewThread(0), "RUNNING") \in ThreadObject /\ NewThread(0) \in ThreadObject
        BY ThreadMethods DEF ThreadState
      <4>2. threads'[0] = IncrementQuantumCount(SetState(NewThread(0), "RUNNING"))
        BY <3>1 DEF SchedulerInit
      <4> QED BY <4>1, <4>2, ThreadFields DEF IsResumed, NewThread
    <3>4. SchedulingCore'
      <4>1. ToSet(<<>>) = {} /\ AtMostOnce(<<>>, 0)
        BY DEF ToSet, AtMostOnce
      <4>2. MainReady(threads, readyQueue, sleepingThreads, pendingDeletionTid)'
        BY <3>2, <3>3, <4>1 DEF MainReady, NoTid
      <4>3. PendingBehindMain(threads, readyQueue, pendingDeletionTid)'
        BY <3>2 DEF PendingBehindMain
      <4> QED BY <3>2, <4>2, <4>3 DEF SchedulingCore, NoTid
    <3>5. FramesCore'
      <4>1. \A t \in DOMAIN threads' : frames'[t] = UserFrame
        BY <2>1, <3>2, TypeInit DEF ThreadIds, SchedulerAssumption
      <4> QED BY <3>2, <3>3, <4>1, FrameTypes
          DEF FramesCore, FrameFits, PendingUntouched, frame
    <3> QED BY <2>3, <3>2, <3>4, <3>5 DEF PreemptInv, Running
  <2> QED BY <2>4, <2>5
<1>3. CASE UNCHANGED preemptVars
  <2>1. UNCHANGED vars /\ UNCHANGED <<callers, frames>>
    BY <1>3 DEF preemptVars
  <2>2. TypeOK'
    BY <2>1, TypeNext DEF PreemptTypeOK
  <2>3. UNCHANGED <<threads, readyQueue, sleepingThreads, currentTid, pendingDeletionTid, status>>
    BY <2>1 DEF vars
  <2>4. PreemptInv'
    BY <2>1, <2>3
    DEF PreemptInv, Running, NotStarted, SchedulingCore, MainReady, PendingBehindMain,
        FramesCore, PendingUntouched, frame
  <2> QED BY <2>1, <2>2, <2>4 DEF PreemptTypeOK
<1>4. ASSUME PreemptNext, ~Running PROVE \E usecs \in InitArgs : InitCall(usecs)
  BY <1>4
  DEF PreemptNext, SignalArrives, HandlerSwitches, SpawnChooses, SpawnCreates, TerminateFinds,
      TerminateActs, TerminateDeletes, BlockFinds, BlockReads, BlockActs, BlockMarks, BlockFlags,
      ResumeFinds, ResumeReads, ResumeActs, SleepCall, GetQuantumsFinds, GetQuantumsReads,
      Enters, RunsAt
<1> QED BY <1>1, <1>2, <1>3, <1>4

THEOREM PreemptInvariant == PreemptSpec => [](PreemptTypeOK /\ PreemptInv)
<1>1. PreemptInit => PreemptTypeOK /\ PreemptInv
  BY SchedulerAssumption, PreemptInitially
<1>2. PreemptTypeOK /\ PreemptInv /\ [PreemptNext]_preemptVars => (PreemptTypeOK /\ PreemptInv)'
  BY SchedulerAssumption, PreemptKept
<1> QED BY <1>1, <1>2, PTL DEF PreemptSpec


(* The types of every variable, the interrupted calls' included.           *)
THEOREM PreemptTypeCorrect == PreemptSpec => []PreemptTypeOK
BY PreemptInvariant, PTL

(* No signal at any point of any call loses the main thread.               *)
THEOREM MainSurvivesSignals == PreemptSpec => []MainNeverLost
<1>1. PreemptInv => MainNeverLost
  BY DEF PreemptInv, SchedulingCore, MainReady, MainNeverLost, Queued
<1> QED BY <1>1, PreemptInvariant, PTL

(* One thread is RUNNING, except where a handler has yet to switch.        *)
THEOREM OneRunsOutsideHandlers == PreemptSpec => []OneRunningOutsideHandlers
<1>1. PreemptInv => OneRunningOutsideHandlers
  BY DEF PreemptInv, SchedulingCore, FramesCore, OneRunningOutsideHandlers, OneRunning, Running
<1> QED BY <1>1, PreemptInvariant, PTL

(* The thread pending deletion does not run, whatever was interrupted.     *)
THEOREM PendingNeverRunsPreempted == PreemptSpec => []PendingNeverRuns
<1>1. PreemptInv => PendingNeverRuns
  BY DEF PreemptInv, SchedulingCore, PendingNeverRuns
<1> QED BY <1>1, PreemptInvariant, PTL

=============================================================================
