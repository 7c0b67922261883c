--------------------------- MODULE PreemptStepProofs ---------------------------
(***************************************************************************)
(* What no step of the scheduler with interrupted calls does.  For every   *)
(* client: it implements the line of turns, and a queued thread keeps its  *)
(* place unless a call has taken it off.  The rest of what the calls promise *)
(* fails for some clients, as the runs show, and is proved for these:      *)
(*   OneSpawner     a single thread spawns;                                *)
(*   MainManages    the other threads only block themselves;               *)
(*   EachForItself  one thread spawns, each ends or blocks only itself and *)
(*                  makes no other call;                                   *)
(*   NobodyTakenOff a thread ends or blocks none but itself;               *)
(*   NoneEndsAnother  one thread spawns and a thread ends none but itself. *)
(***************************************************************************)
EXTENDS PreemptProofs

(* Whatever a step does to the tables, the ready queue stays a line.       *)
LEMMA EffectsTakeTurns ==
  ASSUME SchedulerAssumption, PreemptTypeOK, SchedulingCore, status = "running", Effects
  PROVE  Turns!TurnNext \/ UNCHANGED Turns!turnVars
<1>1. /\ TypeOK
      /\ readyQueue \in Seq(ThreadIds)
      /\ currentTid \in ThreadIds
  BY DEF PreemptTypeOK, TypeOK
<1>2. Phase = "on"
  BY DEF Phase
\* The running thread goes on and at most lets others join.
<1>3. ASSUME GoesOn, Turns!Joined(readyQueue', Len(readyQueue'), readyQueue) PROVE Turns!TurnNext
  <2>1. Turns!Arrive
    BY <1>2, <1>3 DEF GoesOn, Turns!Arrive, Phase
  <2> QED BY <2>1 DEF Turns!TurnNext
<1>4. ASSUME GoesOn, readyQueue' = readyQueue PROVE UNCHANGED Turns!turnVars
  BY <1>4 DEF GoesOn, Turns!turnVars, Phase
<1>5. ASSUME Stops PROVE Turns!TurnNext
  <2>1. Turns!Stop
    BY <1>2, <1>5 DEF Stops, Turns!Stop, Phase
  <2> QED BY <2>1 DEF Turns!TurnNext
<1>6. ASSUME Switches PROVE Turns!TurnNext
  <2>1. PICK sleepers :
          \E thread \in ThreadObject, pending \in ThreadIds \cup {NoTid},
             site \in {"timer", "terminate", "block", "sleep"} :
            GivesUp(thread, sleepers, pending, site)
    BY <1>6 DEF Switches
  <2>2. PICK thread \in ThreadObject, pending \in ThreadIds \cup {NoTid},
             site \in {"timer", "terminate", "block", "sleep"} :
          GivesUp(thread, sleepers, pending, site)
    BY <2>1
  <2> DEFINE table == [threads EXCEPT ![currentTid] = thread]
  <2>3. /\ TableOK(table) /\ DOMAIN table = DOMAIN threads
        /\ MainReady(table, readyQueue, sleepers, pending)
        /\ DoContextSwitch(table, readyQueue, sleepers, pending, site)
    BY <1>1, <2>2, PreparedSwitch
  <2>4. currentTid \in DOMAIN table
    BY <2>3 DEF SchedulingCore
  <2>5. Turns!Joined(readyQueue, Len(readyQueue), readyQueue)
    BY <1>1, FewJoin
  <2> HIDE DEF table
  <2> QED BY <1>1, <2>2, <2>3, <2>4, <2>5, SwitchTakesTurn
<1>7. ASSUME Wakes PROVE Turns!TurnNext
  <2>1. PICK order \in SetToSeqs(Woken) : readyQueue' = readyQueue \o order
    BY <1>7 DEF Wakes
  <2>2. Woken \subseteq ThreadIds \ {0}
    BY <1>1 DEF Woken, Due, SchedulingCore, MainReady, TypeOK
  <2>3. Turns!Joined(readyQueue', Len(readyQueue'), readyQueue)
    BY <1>1, <2>1, <2>2, WokenJoin
  <2> QED BY <1>3, <1>7, <2>3 DEF Wakes
<1>8. ASSUME NEW tid \in ThreadIds \ {0, currentTid}, GoesOn,
             readyQueue' = readyQueue \/ readyQueue' = Append(readyQueue, tid)
      PROVE  Turns!TurnNext \/ UNCHANGED Turns!turnVars
  <2>1. CASE readyQueue' = Append(readyQueue, tid)
    <3>1. Turns!Joined(readyQueue', Len(readyQueue'), readyQueue)
      BY <1>1, <1>8, <2>1, FewJoin
    <3> QED BY <1>3, <1>8, <3>1
  <2> QED BY <1>4, <1>8, <2>1
<1>9. ASSUME NEW tid \in ThreadIds \ {0, currentTid}, TakesOff(tid) PROVE Turns!TurnNext
  <2>1. Turns!IsWithout(readyQueue', readyQueue, tid)
    BY <1>1, <1>9, RemovedIsWithout DEF TakesOff
  <2>2. Turns!Leave(tid)
    BY <1>2, <1>9, <2>1 DEF TakesOff, GoesOn, Turns!Leave, Phase
  <2> QED BY <1>9, <2>2 DEF Turns!TurnNext
<1>10. \/ Stops \/ Switches \/ Rests \/ Wakes
       \/ \E tid \in ThreadIds \ {0, currentTid} :
            Deletes(tid) \/ Sets(tid) \/ TakesOff(tid) \/ Creates(tid)
  BY DEF Effects
<1>11. Rests => UNCHANGED Turns!turnVars
  BY <1>4 DEF Rests
<1>12. ASSUME NEW tid \in ThreadIds \ {0, currentTid}, Deletes(tid) \/ Sets(tid) \/ Creates(tid)
       PROVE  Turns!TurnNext \/ UNCHANGED Turns!turnVars
  <2>1. GoesOn /\ (readyQueue' = readyQueue \/ readyQueue' = Append(readyQueue, tid))
    BY <1>12 DEF Deletes, Sets, Creates
  <2> QED BY <1>8, <2>1
<1> QED BY <1>5, <1>6, <1>7, <1>9, <1>10, <1>11, <1>12

LEMMA PreemptTurnsStep ==
  ASSUME SchedulerAssumption, PreemptTypeOK, PreemptInv, [PreemptNext]_preemptVars
  PROVE  [Turns!TurnNext]_(Turns!turnVars)
<1>1. CASE Running /\ PreemptNext
  <2>1. Effects
    BY <1>1, EveryStepHasEffects
  <2> QED BY <1>1, <2>1, EffectsTakeTurns DEF PreemptInv, Running
<1>2. CASE ~Running /\ PreemptNext
  <2>1. PICK usecs \in InitArgs : UthreadInit(usecs)
    BY <1>2
    DEF PreemptNext, SignalArrives, HandlerSwitches, SpawnChooses, SpawnCreates, TerminateFinds,
        TerminateActs, TerminateDeletes, BlockFinds, BlockReads, BlockActs, BlockMarks,
        BlockFlags, ResumeFinds, ResumeReads, ResumeActs, SleepCall, GetQuantumsFinds,
        GetQuantumsReads, Enters, RunsAt, InitCall
  <2>2. status = "new" /\ NotStarted
    BY <2>1 DEF UthreadInit, PreemptInv
  <2>3. \/ ReturnsAtOnce("init", NoTid, -1)
        \/ SchedulerInit
    BY <2>1 DEF UthreadInit
  <2>4. ReturnsAtOnce("init", NoTid, -1) => UNCHANGED Turns!turnVars
    BY DEF ReturnsAtOnce, Turns!turnVars, Phase
  <2>5. ASSUME SchedulerInit PROVE Turns!TurnNext
    <3>1. Turns!Begin
      BY <2>2, <2>5 DEF SchedulerInit, NotStarted, Turns!Begin, Phase
    <3> QED BY <3>1 DEF Turns!TurnNext
  <2> QED BY <2>3, <2>4, <2>5
<1>3. CASE UNCHANGED preemptVars
  BY <1>3 DEF preemptVars, vars, Turns!turnVars, Phase
<1> QED BY <1>1, <1>2, <1>3

(* Whatever the signal interrupts, threads take turns: the scheduler       *)
(* implements TurnQueue for every client.                                  *)
THEOREM PreemptedTurnsAreTaken == PreemptSpec => TurnsAreTaken
<1>1. PreemptInit => Turns!TurnInit
  BY DEF PreemptInit, Init, Turns!TurnInit, Phase
<1>2. PreemptTypeOK /\ PreemptInv /\ [PreemptNext]_preemptVars => [Turns!TurnNext]_(Turns!turnVars)
  BY SchedulerAssumption, PreemptTurnsStep
<1> QED BY <1>1, <1>2, PreemptInvariant, PTL DEF PreemptSpec, TurnsAreTaken, Turns!TurnSpec

-----------------------------------------------------------------------------
(* Round robin.                                                            *)

(* Within a quantum a thread leaves the queue only in the hands of a call. *)
LEMMA LeavesInACall ==
  ASSUME SchedulerAssumption, PreemptTypeOK, SchedulingCore, Effects, status' = "running",
         NEW t \in Queued, t \notin Queued', totalQuantums' = totalQuantums
  PROVE  t \in Purging'
<1>1. /\ readyQueue \in Seq(ThreadIds) /\ t \in ThreadIds
      /\ totalQuantums \in Int
      /\ currentTid \in ThreadIds
  BY DEF PreemptTypeOK, TypeOK, Queued, ToSet
<1>2. PICK own \in Frame :
        \/ Stops \/ Switches \/ Rests \/ Wakes
        \/ \E tid \in ThreadIds \ {0, currentTid} :
             \/ Deletes(tid) \/ Sets(tid) \/ Creates(tid)
             \/ /\ FramesBecome(own, {}) /\ TakesOff(tid)
                /\ own.tid = tid /\ own.at \in {"purged", "unqueued"}
  BY DEF Effects
<1>3. ~Stops
  BY DEF Stops
<1>4. ~Switches
  <2>1. ASSUME NEW table, NEW sleepers, NEW pending, NEW site,
               DoContextSwitch(table, readyQueue, sleepers, pending, site)
        PROVE  FALSE
    BY <1>1, <2>1 DEF DoContextSwitch, Crash
  <2> QED BY <2>1 DEF Switches, GivesUp
<1>5. readyQueue' # readyQueue
  BY DEF Queued
<1>6. ~Rests
  BY <1>5 DEF Rests
<1>7. ~Wakes
  <2>1. ASSUME NEW order \in SetToSeqs(Woken), readyQueue' = readyQueue \o order PROVE FALSE
    <3>1. Woken \subseteq ThreadIds
      BY DEF Woken, Due, PreemptTypeOK, TypeOK
    <3>2. order \in Seq(ThreadIds)
      BY <3>1, WakingOrder
    <3>3. ToSet(readyQueue) \subseteq ToSet(readyQueue')
      BY <1>1, <2>1, <3>2, Joined
    <3> QED BY <3>3 DEF Queued
  <2> QED BY <2>1 DEF Wakes
<1>8. ASSUME NEW tid \in ThreadIds PROVE readyQueue' # Append(readyQueue, tid)
  <2>1. readyQueue' = Append(readyQueue, tid) => ToSet(readyQueue') = ToSet(readyQueue) \cup {tid}
    BY <1>1, Pushed
  <2> QED BY <2>1 DEF Queued
<1>9. PICK tid \in ThreadIds \ {0, currentTid} :
        /\ FramesBecome(own, {}) /\ TakesOff(tid)
        /\ own.tid = tid /\ own.at \in {"purged", "unqueued"}
  BY <1>2, <1>3, <1>4, <1>5, <1>6, <1>7, <1>8 DEF Deletes, Sets, Creates
<1>10. t = tid
  <2>1. t # tid => t \in ToSet(readyQueue')
    BY <1>1, <1>9, RemovedFromReadyQueue DEF TakesOff, Queued
  <2> QED BY <2>1 DEF Queued
<1>11. SameCall(frames'[currentTid], own)
  <2>1. currentTid \in DOMAIN threads'
    BY <1>9 DEF TakesOff, SchedulingCore
  <2> QED BY <1>1, <1>9, <2>1, FramesAfter
<1> QED BY <1>1, <1>9, <1>10, <1>11 DEF SameCall, Purging

LEMMA PreemptedKeepPlace ==
  ASSUME SchedulerAssumption, PreemptTypeOK, PreemptTypeOK', PreemptInv,
         [PreemptNext]_preemptVars, Running, Running', NEW t \in Queued
  PROVE  \/ t = currentTid' \/ t \in Purging'
         \/ /\ t \in Queued'
            /\ Position(readyQueue', t) <= Position(readyQueue, t) - (totalQuantums' - totalQuantums)
<1>1. Turns!TurnNext \/ UNCHANGED Turns!turnVars
  BY PreemptTurnsStep
<1>2. TypeOK /\ TypeOK'
  BY DEF PreemptTypeOK
<1>3. ASSUME t \notin Queued', totalQuantums' = totalQuantums PROVE t \in Purging'
  <2>1. PreemptNext
    BY <1>3 DEF preemptVars, vars, Queued
  <2>2. Effects
    BY <2>1, EveryStepHasEffects
  <2> QED BY <1>3, <2>2, LeavesInACall DEF PreemptInv, Running
<1> QED BY <1>1, <1>2, <1>3, TurnsKeepPlace

(* Round robin with interrupted calls, for every client: a queued thread   *)
(* loses no place to any signal, and leaves the queue only to run, to be   *)
(* BLOCKED or deleted, or in the hands of a call.                          *)
THEOREM PreemptedTurnsComeRound == PreemptSpec => RoundRobinPreempted
<1> DEFINE Moves == Running /\ Running' =>
        \A t \in Queued :
          \/ t = currentTid' \/ t \in Purging' \/ t \notin DOMAIN threads'
          \/ threads'[t].state = "BLOCKED"
          \/ /\ t \in Queued'
             /\ Position(readyQueue', t) <= Position(readyQueue, t) - (totalQuantums' - totalQuantums)
<1>1. PreemptTypeOK /\ PreemptTypeOK' /\ PreemptInv /\ [PreemptNext]_preemptVars => [Moves]_vars
  BY SchedulerAssumption, PreemptedKeepPlace
<1> QED BY <1>1, PreemptInvariant, PTL DEF PreemptSpec, RoundRobinPreempted

-----------------------------------------------------------------------------
(* Clients in which at most one thread spawns.                             *)
(*                                                                         *)
(* spawn chooses a tid before it masks the signal.  Nobody else takes that *)
(* tid before the thread that chose it goes on.                            *)

OneSpawner == \A s, t \in callers["spawn"] : s = t

SpawnersInv ==
  Running =>
    \A t \in DOMAIN threads :
      frames[t].at = "spawn" => t \in callers["spawn"] /\ frames[t].tid \notin DOMAIN threads

(* Only spawn adds a thread to the table; any other step charges at most   *)
(* the quantum it starts.                                                  *)
LEMMA AddsOrCharges ==
  ASSUME SchedulerAssumption, PreemptTypeOK, SchedulingCore, Effects, status' = "running"
  PROVE  \/ \E own \in Frame :
              /\ TidIsChosen(own) /\ FramesBecome(own, {})
              /\ DOMAIN threads' \subseteq DOMAIN threads /\ ChargedOnce
         \/ \E tid \in ThreadIds :
              /\ FramesBecome(UserFrame, {tid}) /\ Creates(tid)
              /\ frame.at = "spawn" /\ frame.tid = tid
<1> DEFINE Charges == DOMAIN threads' \subseteq DOMAIN threads /\ ChargedOnce
<1>1. /\ TypeOK /\ TableOK(threads) /\ currentTid \in DOMAIN threads
      /\ totalQuantums \in Int
      /\ \A t \in DOMAIN threads : threads[t] \in ThreadObject /\ threads[t].quantumCount \in Nat
  BY ThreadCounts DEF PreemptTypeOK, TypeOK, TableOK, SchedulingCore
<1>2. PICK own \in Frame :
        /\ TidIsChosen(own)
        /\ \/ /\ FramesBecome(own, {})
              /\ \/ Stops \/ Switches \/ Rests \/ Wakes
                 \/ \E tid \in ThreadIds \ {0, currentTid} :
                      Deletes(tid) \/ Sets(tid) \/ TakesOff(tid)
           \/ \E tid \in ThreadIds :
                /\ FramesBecome(UserFrame, {tid}) /\ Creates(tid)
                /\ frame.at = "spawn" /\ frame.tid = tid
  BY DEF Effects, GoesOnAs
<1>3. ASSUME GoesOn, DOMAIN threads' \subseteq DOMAIN threads,
             \A t \in DOMAIN threads' : threads'[t].quantumCount = threads[t].quantumCount
      PROVE  Charges
  BY <1>1, <1>3 DEF GoesOn, ChargedOnce
<1>4. ~Stops
  BY DEF Stops
<1>5. ASSUME Switches PROVE Charges
  <2>1. PICK sleepers :
          \E thread \in ThreadObject, pending \in ThreadIds \cup {NoTid},
             site \in {"timer", "terminate", "block", "sleep"} :
            GivesUp(thread, sleepers, pending, site)
    BY <1>5 DEF Switches
  <2>2. PICK thread \in ThreadObject, pending \in ThreadIds \cup {NoTid},
             site \in {"timer", "terminate", "block", "sleep"} :
          GivesUp(thread, sleepers, pending, site)
    BY <2>1
  <2> DEFINE table == [threads EXCEPT ![currentTid] = thread]
  <2>3. TableOK(table) /\ DOMAIN table = DOMAIN threads /\ SameCounts(table)
    BY <1>1, <2>2, TableUpdates DEF SameCounts, GivesUp
  <2>4. DoContextSwitch(table, readyQueue, sleepers, pending, site)
    BY <2>2 DEF GivesUp
  <2> HIDE DEF table
  <2>5. ChargedOnce
    BY <1>1, <2>3, <2>4, SwitchCharges
  <2>6. DOMAIN Saved(table, pending, site) = DOMAIN table
    BY DEF Saved
  <2>7. DOMAIN threads' \subseteq DOMAIN table
    BY <2>4, <2>6 DEF DoContextSwitch, SwitchFaults, Crash, With, Without
  <2> QED BY <2>3, <2>5, <2>7
<1>6. ASSUME Rests PROVE Charges
  BY <1>3, <1>6 DEF Rests
<1>7. ASSUME Wakes PROVE Charges
  <2>1. \A t \in DOMAIN threads : SetState(threads[t], "READY").quantumCount = threads[t].quantumCount
    BY <1>1, ThreadCounts
  <2>2. DOMAIN threads' = DOMAIN threads
        /\ \A t \in DOMAIN threads : threads'[t].quantumCount = threads[t].quantumCount
    BY <1>7, <2>1 DEF Wakes, Awakened
  <2> QED BY <1>3, <1>7, <2>2 DEF Wakes
<1>8. ASSUME NEW tid \in ThreadIds, Deletes(tid) PROVE Charges
  BY <1>3, <1>8 DEF Deletes, Without
<1>9. ASSUME NEW tid \in ThreadIds, Sets(tid) PROVE Charges
  BY <1>3, <1>9 DEF Sets
<1>10. ASSUME NEW tid \in ThreadIds, TakesOff(tid) PROVE Charges
  BY <1>3, <1>10 DEF TakesOff
<1> HIDE DEF Charges
<1>11. FramesBecome(own, {}) => Charges \/ \E tid \in ThreadIds :
                /\ FramesBecome(UserFrame, {tid}) /\ Creates(tid)
                /\ frame.at = "spawn" /\ frame.tid = tid
  BY <1>2, <1>4, <1>5, <1>6, <1>7, <1>8, <1>9, <1>10
<1> QED BY <1>2, <1>11 DEF Charges

LEMMA SpawnersGoOn ==
  ASSUME SchedulerAssumption, PreemptTypeOK, PreemptInv, SpawnersInv, OneSpawner, Running, PreemptNext
  PROVE  SpawnersInv' /\ (Running' => ChargedOnce)
<1>1. /\ SchedulingCore /\ currentTid \in DOMAIN threads /\ DOMAIN threads \subseteq ThreadIds
      /\ \A t \in DOMAIN threads :
           frames[t].at = "spawn" => t \in callers["spawn"] /\ frames[t].tid \notin DOMAIN threads
  BY DEF PreemptTypeOK, TypeOK, PreemptInv, SchedulingCore, SpawnersInv
<1> SUFFICES ASSUME Running' PROVE SpawnersInv' /\ ChargedOnce
  BY DEF SpawnersInv
<1>2. status' = "running" /\ Effects
  BY EveryStepHasEffects DEF Running
<1>3. ASSUME NEW own \in Frame, TidIsChosen(own), FramesBecome(own, {}),
             DOMAIN threads' \subseteq DOMAIN threads
      PROVE  SpawnersInv'
  <2>1. callers' = callers
        /\ \A t \in DOMAIN threads' : SameCall(frames'[t], IF t = currentTid THEN own ELSE frames[t])
    BY <1>1, <1>3, FramesAfter
  <2>2. own.at = "spawn" => currentTid \in callers["spawn"] /\ own.tid \notin DOMAIN threads
    BY <1>1, <1>3 DEF TidIsChosen, frame
  <2> QED BY <1>1, <1>3, <2>1, <2>2 DEF SpawnersInv, SameCall
<1>4. ASSUME NEW tid \in ThreadIds, FramesBecome(UserFrame, {tid}), Creates(tid),
             frame.at = "spawn", frame.tid = tid
      PROVE  SpawnersInv' /\ ChargedOnce
  <2>1. UserFrame.at = "user" /\ UserFrame \in Frame
    BY FrameTypes
  <2>2. DOMAIN threads' = DOMAIN threads \cup {tid}
        /\ \A t \in DOMAIN threads \ {tid} : threads'[t] = threads[t]
    BY <1>4 DEF Creates, With
  <2>3. tid \notin DOMAIN threads /\ currentTid \in callers["spawn"]
    BY <1>1, <1>4 DEF frame
  <2>4. \A t \in DOMAIN threads' :
          frames'[t].at = "user" \/ (t \in DOMAIN threads \ {currentTid} /\ SameCall(frames'[t], frames[t]))
    BY <1>1, <1>4, <2>1, <2>2, FramesAfter DEF SameCall
  <2>5. \A t \in DOMAIN threads' : frames'[t].at # "spawn"
    BY <1>1, <2>3, <2>4 DEF OneSpawner, SameCall
  <2>6. ChargedOnce
    <3>1. totalQuantums' = totalQuantums /\ totalQuantums \in Int
      BY <1>4 DEF Creates, GoesOn, PreemptTypeOK, TypeOK
    <3>2. \A t \in DOMAIN threads : threads[t].quantumCount \in Nat
      BY ThreadCounts DEF PreemptTypeOK, TypeOK
    <3> QED BY <2>2, <2>3, <3>1, <3>2 DEF ChargedOnce
  <2> QED BY <2>5, <2>6 DEF SpawnersInv
<1> QED BY <1>2, <1>3, <1>4, <1>1, AddsOrCharges

LEMMA SpawnersKept ==
  ASSUME SchedulerAssumption, PreemptTypeOK, PreemptInv, SpawnersInv, OneSpawner,
         [PreemptNext]_preemptVars
  PROVE  SpawnersInv' /\ OneSpawner'
<1>1. CASE Running /\ PreemptNext
  <2>1. Effects
    BY <1>1, EveryStepHasEffects
  <2>2. callers' = callers
    BY <2>1 DEF Effects, GoesOnAs, FramesBecome
  <2> QED BY <1>1, <2>2, SpawnersGoOn DEF OneSpawner
<1>2. CASE ~Running /\ PreemptNext
  <2>1. PICK usecs \in InitArgs : InitCall(usecs)
    BY <1>2
    DEF PreemptNext, SignalArrives, HandlerSwitches, SpawnChooses, SpawnCreates, TerminateFinds,
        TerminateActs, TerminateDeletes, BlockFinds, BlockReads, BlockActs, BlockMarks,
        BlockFlags, ResumeFinds, ResumeReads, ResumeActs, SleepCall, GetQuantumsFinds,
        GetQuantumsReads, Enters, RunsAt
  <2>2. status = "new" /\ UNCHANGED <<callers, frames>>
    BY <2>1 DEF InitCall, UthreadInit
  <2>3. \A t \in ThreadIds : frames'[t] = UserFrame
    BY <2>2 DEF PreemptInv
  <2>4. PreemptTypeOK'
    BY PreemptKept
  <2>5. \A t \in DOMAIN threads' : frames'[t].at = "user"
    BY <2>3, <2>4, FrameTypes DEF PreemptTypeOK, TypeOK
  <2> QED BY <2>2, <2>5 DEF SpawnersInv, OneSpawner
<1>3. CASE UNCHANGED preemptVars
  BY <1>3 DEF preemptVars, vars, SpawnersInv, OneSpawner, Running
<1> QED BY <1>1, <1>2, <1>3

LEMMA SpawnersInvariant ==
  PreemptSpec /\ OneSpawner => [](PreemptTypeOK /\ PreemptInv /\ SpawnersInv /\ OneSpawner)
<1>1. PreemptInit /\ OneSpawner => SpawnersInv
  BY DEF PreemptInit, Init, SpawnersInv, Running
<1>2. PreemptTypeOK /\ PreemptInv /\ SpawnersInv /\ OneSpawner /\ [PreemptNext]_preemptVars
        => (SpawnersInv /\ OneSpawner)'
  BY SchedulerAssumption, SpawnersKept
<1> QED BY <1>1, <1>2, PreemptInvariant, PTL DEF PreemptSpec

(* As long as one thread does all the spawning, every quantum is counted   *)
(* once in total and once for the thread that starts it, whatever the      *)
(* signals interrupt: no spawn replaces a thread and its count.            *)
THEOREM PreemptedQuantaAreCharged == PreemptSpec /\ OneSpawner => QuantumIsCharged
<1> DEFINE Charges == Running /\ Running' =>
        /\ totalQuantums' - totalQuantums \in 0 .. 1
        /\ \A t \in DOMAIN threads \cap DOMAIN threads' :
             threads'[t].quantumCount - threads[t].quantumCount =
               IF t = currentTid' THEN totalQuantums' - totalQuantums ELSE 0
<1>1. PreemptTypeOK /\ PreemptInv /\ SpawnersInv /\ OneSpawner /\ [PreemptNext]_preemptVars
        => [Charges]_vars
  <2> SUFFICES ASSUME PreemptTypeOK, PreemptInv, SpawnersInv, OneSpawner, [PreemptNext]_preemptVars,
                      Running, Running', vars' # vars
               PROVE  ChargedOnce
    BY DEF ChargedOnce
  <2>1. PreemptNext
    BY DEF preemptVars
  <2> QED BY <2>1, SchedulerAssumption, SpawnersGoOn
<1> QED BY <1>1, SpawnersInvariant, PTL DEF PreemptSpec, QuantumIsCharged

-----------------------------------------------------------------------------
(* Clients in which main manages the others, and these only block          *)
(* themselves.                                                             *)
(*                                                                         *)
(* What main's call has found out before it masks the signal is still so   *)
(* when it acts: nobody but main creates, resumes, deletes or blocks       *)
(* another thread in between, and one that blocks itself is READY and      *)
(* queued when it gives up the processor, as after a tick.  No thread      *)
(* sleeps, and none is ever pending deletion.                              *)

MainManages == \A kind \in CallKinds \ {"block_self"} : callers[kind] \subseteq {0}

(* Thread t is outside every call, or inside a block of itself.            *)
BlocksItself(t, f) ==
  /\ f.at \in {"user", "block", "blocking"}
  /\ f.at # "user" => f.tid = t
  /\ f.at = "blocking" => f.seen = "RUNNING"

(* Main's call, in frame f, is about to block or delete t.                 *)
InMainsHands(f, t) == f.at \in {"purged", "unqueued"} /\ f.tid = t

(* Everyone but the thread `running` is queued, BLOCKED or in main's       *)
(* hands, and only one of them...                                          *)
AllAccountedFor(table, queue, running, f) ==
  /\ table[running].state = "RUNNING"
  /\ ToSet(queue) \subseteq DOMAIN table
  /\ \A t \in DOMAIN table \ {running} :
       /\ table[t].state = "BLOCKED" => t \notin ToSet(queue)
       /\ t \in ToSet(queue) \/ table[t].state = "BLOCKED" \/ InMainsHands(f, t)

(* ... and what main's call knows is true.                                 *)
KnowsRight(table, queue, running, f) ==
  /\ f.object = "table"
  /\ f.at = "spawn" => f.tid \notin DOMAIN table
  /\ f.at \notin {"user", "spawn"} => f.tid \in DOMAIN table
  /\ f.at \in {"purged", "unqueued"} =>
       f.tid \notin ToSet(queue) \cup {running} /\ table[f.tid].state = "READY"
  /\ f.at \in {"marked", "resuming"} => table[f.tid].state = "BLOCKED"
  /\ f.at = "blocking" =>
       f.seen # "RUNNING" /\ (f.seen = "BLOCKED" <=> table[f.tid].state = "BLOCKED")

ManagedInv ==
  /\ MainManages
  /\ status # "crashed"
  /\ Running =>
       /\ pendingDeletionTid = NoTid
       /\ DOMAIN sleepingThreads = {}
       /\ \A t \in ThreadIds \ {0} : BlocksItself(t, frames[t])
       /\ \A t \in DOMAIN threads : threads[t].env # "terminate"
       /\ AllAccountedFor(threads, readyQueue, currentTid, frames[0])
       /\ KnowsRight(threads, readyQueue, currentTid, frames[0])

(* Whoever but main acts is inside a block of itself.                      *)
LEMMA MainActs ==
  ASSUME PreemptTypeOK, ManagedInv, PreemptNext, Running
  PROVE  \/ SignalArrives \/ HandlerSwitches
         \/ currentTid = 0 /\ frame.handlers = 0
         \/ currentTid # 0 /\ (BlockFinds(currentTid) \/ BlockReads \/ BlockActs)
<1>1. status = "running" /\ currentTid \in ThreadIds
  BY DEF Running, PreemptTypeOK, TypeOK
<1>2. ASSUME NEW kind \in CallKinds \ {"block_self"}, Enters(kind)
      PROVE  currentTid = 0 /\ frame.handlers = 0
  BY <1>2 DEF Enters, RunsAt, ManagedInv, MainManages
<1>3. ASSUME NEW place, place \notin {"user", "block", "blocking"}, RunsAt(place)
      PROVE  currentTid = 0 /\ frame.handlers = 0
  BY <1>1, <1>3 DEF RunsAt, ManagedInv, BlocksItself, frame
<1>4. \A tid : {"spawn", "sleep", "resume", "get_quantums", "get_quantums_unknown",
                "block_other", TerminateKind(tid)} \subseteq CallKinds \ {"block_self"}
  BY DEF CallKinds, TerminateKind
<1>5. ASSUME \/ SpawnChooses
             \/ \E tid \in TidArgs : TerminateFinds(tid) \/ ResumeFinds(tid) \/ GetQuantumsFinds(tid)
             \/ \E tid \in TidArgs \ {currentTid} : BlockFinds(tid)
             \/ \E n \in SleepArgs : SleepCall(n)
      PROVE  currentTid = 0 /\ frame.handlers = 0
  BY <1>2, <1>4, <1>5
  DEF SpawnChooses, TerminateFinds, BlockFinds, ResumeFinds, GetQuantumsFinds, SleepCall
<1>6. ASSUME SpawnCreates \/ TerminateActs \/ TerminateDeletes \/ BlockMarks \/ BlockFlags
             \/ ResumeReads \/ ResumeActs \/ GetQuantumsReads
      PROVE  currentTid = 0 /\ frame.handlers = 0
  BY <1>3, <1>6
  DEF SpawnCreates, TerminateActs, TerminateDeletes, BlockMarks, BlockFlags, ResumeReads,
      ResumeActs, GetQuantumsReads
<1>7. ASSUME BlockFinds(currentTid) \/ BlockReads \/ BlockActs PROVE frame.handlers = 0
  BY <1>7 DEF BlockFinds, BlockReads, BlockActs, Enters, RunsAt
<1> QED BY <1>1, <1>5, <1>6, <1>7 DEF PreemptNext, InitCall, UthreadInit

(* Main's frame after a step of its own or of another thread.              *)
LEMMA MainsFrameAfter ==
  ASSUME PreemptTypeOK, NEW own \in Frame, NEW replaced, FramesBecome(own, replaced),
         0 \in ThreadIds, 0 \in DOMAIN threads' \ replaced,
         \A t \in ThreadIds \ {0} : BlocksItself(t, frames[t]),
         currentTid # 0 => BlocksItself(currentTid, own)
  PROVE  /\ callers' = callers
         /\ \A t \in ThreadIds \ {0} : BlocksItself(t, frames'[t])
         /\ LET before == IF currentTid = 0 THEN own ELSE frames[0]
            IN  /\ SameCall(frames'[0], before)
                /\ before.object = "table"
                   /\ (before.at \notin {"user", "spawn"} => before.tid \in DOMAIN threads' \ replaced)
                     => frames'[0].object = "table"
<1> DEFINE before == IF currentTid = 0 THEN own ELSE frames[0]
<1>1. /\ callers' = callers
      /\ SameCall(frames'[0], before)
  BY FramesAfter
<1>2. ASSUME NEW t \in ThreadIds \ {0} PROVE BlocksItself(t, frames'[t])
  <2>1. \/ frames'[t] = UserFrame
        \/ SameCall(frames'[t], own) /\ t = currentTid
        \/ SameCall(frames'[t], frames[t])
    BY FramesAfter
  <2> QED BY <1>2, <2>1, FrameTypes DEF SameCall, BlocksItself
<1>3. frames'[0] = Aged(before, replaced)
  BY DEF FramesBecome
<1>4. ASSUME before.object = "table",
             before.at \notin {"user", "spawn"} => before.tid \in DOMAIN threads' \ replaced
      PROVE  frames'[0].object = "table"
  <2> HIDE DEF before
  <2> QED BY <1>3, <1>4 DEF Aged, HoldsPointer
<1> QED BY <1>1, <1>2, <1>4

(* A step without a switch, once its call is known to know right.          *)
LEMMA ManagedGoesOn ==
  ASSUME PreemptTypeOK, ManagedInv, Running, GoesOn, 0 \in ThreadIds,
         NEW own \in Frame, NEW replaced, FramesBecome(own, replaced),
         0 \in DOMAIN threads' \ replaced,
         currentTid # 0 => BlocksItself(currentTid, own),
         DOMAIN sleepingThreads' = {},
         \A t \in DOMAIN threads' : threads'[t].env # "terminate",
         NEW f, f = (IF currentTid = 0 THEN own ELSE frames[0]),
         f.at \notin {"user", "spawn"} => f.tid \notin replaced,
         AllAccountedFor(threads', readyQueue', currentTid, f),
         KnowsRight(threads', readyQueue', currentTid, f)
  PROVE  ManagedInv'
<1>1. /\ status = "running" /\ pendingDeletionTid = NoTid /\ MainManages
      /\ \A t \in ThreadIds \ {0} : BlocksItself(t, frames[t])
  BY DEF Running, ManagedInv
<1>2. /\ currentTid' = currentTid /\ pendingDeletionTid' = pendingDeletionTid
      /\ status' = "running"
  BY <1>1 DEF GoesOn
<1>3. f.object = "table" /\ (f.at \notin {"user", "spawn"} => f.tid \in DOMAIN threads' \ replaced)
  BY DEF KnowsRight
<1>4. /\ callers' = callers
      /\ \A t \in ThreadIds \ {0} : BlocksItself(t, frames'[t])
      /\ SameCall(frames'[0], f) /\ frames'[0].object = "table"
  BY <1>1, <1>3, MainsFrameAfter
<1>5. AllAccountedFor(threads, readyQueue, currentTid, frames[0])'
  BY <1>2, <1>4 DEF AllAccountedFor, InMainsHands, SameCall
<1>6. KnowsRight(threads, readyQueue, currentTid, frames[0])'
  BY <1>2, <1>4 DEF KnowsRight, SameCall
<1>7. MainManages'
  BY <1>1, <1>4 DEF MainManages
<1> QED BY <1>1, <1>2, <1>4, <1>5, <1>6, <1>7 DEF ManagedInv

(* The tick of any thread: nobody sleeps, so it wakes nobody.              *)
LEMMA ManagedSignal ==
  ASSUME SchedulerAssumption, PreemptTypeOK, PreemptInv, ManagedInv, Running, SignalArrives
  PROVE  ManagedInv'
<1>1. /\ status = "running" /\ 0 \in DOMAIN threads
      /\ TypeOK /\ 0 \in ThreadIds /\ currentTid \in ThreadIds
      /\ readyQueue \in Seq(ThreadIds)
      /\ frame \in Frame
  BY DEF Running, PreemptTypeOK, PreemptInv, SchedulingCore, MainReady, TypeOK, frame
<1>2. /\ DOMAIN sleepingThreads = {}
      /\ \A t \in ThreadIds \ {0} : BlocksItself(t, frames[t])
      /\ \A t \in DOMAIN threads : threads[t].env # "terminate"
      /\ AllAccountedFor(threads, readyQueue, currentTid, frames[0])
      /\ KnowsRight(threads, readyQueue, currentTid, frames[0])
  BY <1>1 DEF ManagedInv, Running
<1>3. Due = {} /\ Woken = {}
  BY <1>2 DEF Due, Woken
<1>4. /\ threads' = threads /\ DOMAIN sleepingThreads' = {} /\ GoesOn
  <2>1. Due \subseteq DOMAIN threads
    BY <1>3
  <2>2. /\ threads' = Awakened /\ sleepingThreads' = StillAsleep
        /\ UNCHANGED <<currentTid, pendingDeletionTid, totalQuantums, status>>
    BY <2>1 DEF SignalArrives
  <2>3. Awakened = threads
    BY <1>1, <1>3 DEF Awakened, TypeOK
  <2>4. DOMAIN StillAsleep = {}
    BY <1>2 DEF StillAsleep
  <2>5. threads' = threads
    BY <2>2, <2>3
  <2>6. DOMAIN sleepingThreads' = {}
    BY <2>2, <2>4
  <2>7. GoesOn
    BY <2>2 DEF GoesOn
  <2> QED BY <2>5, <2>6, <2>7
<1>5. ToSet(readyQueue') = ToSet(readyQueue)
  <2>1. Due \subseteq DOMAIN threads
    BY <1>3
  <2>2. PICK order \in SetToSeqs(Woken) : readyQueue' = readyQueue \o order
    BY <2>1 DEF SignalArrives
  <2>3. order \in Seq(ThreadIds) /\ ToSet(order) = {}
    BY <1>3, WakingOrder
  <2>4. ToSet(readyQueue \o order) = ToSet(readyQueue) \cup ToSet(order)
    BY <1>1, <2>3, Joined
  <2> QED BY <2>2, <2>3, <2>4
<1>6. PICK own \in Frame : FramesBecome(own, {}) /\ own.at = frame.at /\ own.tid = frame.tid
                           /\ own.seen = frame.seen /\ own.object = frame.object
  <2> DEFINE own == [frame EXCEPT !.handlers = frame.handlers + 1]
  <2>1. frame.handlers < MaxHandlers /\ FramesBecome(own, {})
    BY DEF SignalArrives
  <2>2. frame.handlers + 1 \in 0 .. MaxHandlers
    <3>1. MaxHandlers \in Nat
      BY PreemptAssumption
    <3> QED BY <1>1, <2>1, <3>1 DEF Frame
  <2>3. own \in Frame /\ own.object = frame.object
    BY <1>1, <2>2 DEF Frame
  <2> QED BY <1>1, <2>1, <2>2, <2>3, FrameUpdates
<1> DEFINE f == IF currentTid = 0 THEN own ELSE frames[0]
<1>7. f.at = frames[0].at /\ f.tid = frames[0].tid /\ f.seen = frames[0].seen
      /\ f.object = frames[0].object
  BY <1>6 DEF frame
<1>8. currentTid # 0 => BlocksItself(currentTid, own)
  BY <1>1, <1>2, <1>6 DEF frame, BlocksItself
<1> HIDE DEF f
<1>9. AllAccountedFor(threads', readyQueue', currentTid, f)
  BY <1>2, <1>4, <1>5, <1>7 DEF AllAccountedFor, InMainsHands
<1>10. KnowsRight(threads', readyQueue', currentTid, f)
  BY <1>2, <1>4, <1>5, <1>7 DEF KnowsRight
<1>11. 0 \in DOMAIN threads' \ {} /\ \A t \in DOMAIN threads' : threads'[t].env # "terminate"
  BY <1>1, <1>2, <1>4
<1>12. f = IF currentTid = 0 THEN own ELSE frames[0]
  BY DEF f
<1> QED BY <1>1, <1>4, <1>6, <1>8, <1>9, <1>10, <1>11, <1>12, ManagedGoesOn

(* The switch of the handler and of block_self finds the Thread it         *)
(* dispatches, and starts nobody whom main is about to block or delete.    *)
LEMMA ManagedSwitch ==
  ASSUME SchedulerAssumption, PreemptTypeOK, PreemptInv, ManagedInv, Running,
         NEW thread \in ThreadObject, thread.env = threads[currentTid].env,
         currentTid = 0 => thread.state = "RUNNING",
         NEW site \in {"timer", "block"},
         DoContextSwitch([threads EXCEPT ![currentTid] = thread], readyQueue, sleepingThreads,
                         pendingDeletionTid, site),
         NEW own \in Frame, FramesBecome(own, {}),
         currentTid # 0 => BlocksItself(currentTid, own),
         currentTid = 0 => /\ own.at = frame.at /\ own.tid = frame.tid
                           /\ own.seen = frame.seen /\ own.object = frame.object
  PROVE  ManagedInv'
<1> DEFINE table == [threads EXCEPT ![currentTid] = thread]
<1>1. /\ status = "running" /\ 0 \in DOMAIN threads
      /\ TableOK(threads) /\ 0 \in ThreadIds
      /\ currentTid \in ThreadIds /\ currentTid \in DOMAIN threads
      /\ DOMAIN threads \subseteq ThreadIds
      /\ readyQueue \in Seq(ThreadIds)
      /\ frame \in Frame
      /\ \A t \in DOMAIN threads \ {currentTid} : threads[t].state # "RUNNING"
  BY DEF Running, PreemptTypeOK, PreemptInv, SchedulingCore, MainReady, TypeOK, TableOK, frame
<1>2. /\ MainManages
      /\ pendingDeletionTid = NoTid
      /\ DOMAIN sleepingThreads = {}
      /\ \A t \in ThreadIds \ {0} : BlocksItself(t, frames[t])
      /\ \A t \in DOMAIN threads : threads[t].env # "terminate"
      /\ AllAccountedFor(threads, readyQueue, currentTid, frames[0])
      /\ KnowsRight(threads, readyQueue, currentTid, frames[0])
  BY <1>1 DEF ManagedInv, Running
<1>3. /\ DOMAIN table = DOMAIN threads /\ TableOK(table)
      /\ table[currentTid] = thread
      /\ \A t \in DOMAIN threads \ {currentTid} : table[t] = threads[t]
      /\ DoContextSwitch(table, readyQueue, sleepingThreads, NoTid, site)
  BY <1>1, <1>2, TableUpdates
<1> HIDE DEF table
<1>4. /\ MainReady(table, readyQueue, sleepingThreads, NoTid)
      /\ NoTid \notin DOMAIN threads /\ currentTid # NoTid
  BY <1>1, <1>2, <1>3 DEF PreemptInv, SchedulingCore, Running, MainReady, IsResumed, ThreadIds, NoTid
\* The switch finds its thread.
<1>5. AllInTable' /\ SwitchedFrom(table, readyQueue, NoTid, site) /\ status' = "running"
  <2>1. InTable(table, readyQueue, sleepingThreads)
    BY <1>1, <1>2, <1>3 DEF InTable, AllAccountedFor
  <2>2. currentTid \in DOMAIN table /\ \A t \in DOMAIN table \ {currentTid} : table[t].state # "RUNNING"
    BY <1>1, <1>3
  <2>3. AllInTable'
    BY <1>1, <1>3, <1>4, <2>1, <2>2, SwitchInTable
  <2>4. status' = "running"
    BY <1>1, <1>3, <2>3 DEF AllInTable, DoContextSwitch, Crash
  <2>5. PendingBehindMain(table, readyQueue, NoTid)
    BY DEF PendingBehindMain
  <2>6. SwitchedFrom(table, readyQueue, NoTid, site)
    BY <1>1, <1>3, <1>4, <2>2, <2>4, <2>5, SwitchOutcome
  <2> QED BY <2>3, <2>4, <2>6
<1>6. /\ pendingDeletionTid' = NoTid
      /\ DOMAIN threads' = DOMAIN threads
      /\ {currentTid'} \cup ToSet(readyQueue') = ToSet(readyQueue) \cup {currentTid}
      /\ \A t \in DOMAIN threads :
           /\ threads'[t].state = IF t = currentTid' THEN "RUNNING"
                                  ELSE IF t = currentTid THEN "READY" ELSE threads[t].state
           /\ threads'[t].env # "terminate"
  <2>1. DOMAIN threads' \subseteq DOMAIN table /\ DOMAIN table \ {NoTid} \subseteq DOMAIN threads'
    BY <1>5 DEF SwitchedFrom
  <2>2. DOMAIN threads' = DOMAIN threads
    BY <1>3, <1>4, <2>1
  <2>3. pendingDeletionTid' = NoTid
    BY <1>5 DEF SwitchedFrom
  <2>4. {currentTid'} \cup ToSet(readyQueue') = ToSet(readyQueue) \cup {currentTid}
    BY <1>4, <1>5 DEF SwitchedFrom
  <2>5. \A t \in DOMAIN threads' :
          /\ threads'[t].state = IF t = currentTid' THEN "RUNNING"
                                 ELSE IF t = currentTid THEN "READY" ELSE table[t].state
          /\ threads'[t].env = IF t = currentTid THEN site ELSE table[t].env
    BY <1>5 DEF SwitchedFrom
  <2> QED BY <1>2, <1>3, <2>2, <2>3, <2>4, <2>5
<1>7. DOMAIN sleepingThreads' = {}
  BY <1>1, <1>2, <1>3, <1>5 DEF AllInTable, DoContextSwitch, Crash
<1> DEFINE f == IF currentTid = 0 THEN own ELSE frames[0]
<1>8. f.at = frames[0].at /\ f.tid = frames[0].tid /\ f.seen = frames[0].seen
      /\ f.object = frames[0].object
  BY DEF frame
<1>9. /\ callers' = callers
      /\ \A t \in ThreadIds \ {0} : BlocksItself(t, frames'[t])
      /\ SameCall(frames'[0], f) /\ frames'[0].object = "table"
  <2>1. f.object = "table" /\ (f.at \notin {"user", "spawn"} => f.tid \in DOMAIN threads' \ {})
    BY <1>2, <1>6, <1>8 DEF KnowsRight
  <2>2. 0 \in DOMAIN threads' \ {}
    BY <1>1, <1>6
  <2> QED BY <1>1, <1>2, <2>1, <2>2, MainsFrameAfter
<1> HIDE DEF f
<1>10. frames'[0].at = frames[0].at /\ frames'[0].tid = frames[0].tid
       /\ frames'[0].seen = frames[0].seen
  BY <1>8, <1>9 DEF SameCall
<1>11. AllAccountedFor(threads', readyQueue', currentTid', frames'[0])
  <2>1. ToSet(readyQueue') \subseteq DOMAIN threads'
    BY <1>1, <1>2, <1>6 DEF AllAccountedFor
  <2>2. ASSUME NEW t \in DOMAIN threads' \ {currentTid'}
        PROVE  /\ threads'[t].state = "BLOCKED" => t \notin ToSet(readyQueue')
               /\ \/ t \in ToSet(readyQueue') \/ threads'[t].state = "BLOCKED"
                  \/ InMainsHands(frames'[0], t)
    BY <1>2, <1>6, <1>10, <2>2 DEF AllAccountedFor, InMainsHands
  <2>3. threads'[currentTid'].state = "RUNNING"
    BY <1>1, <1>2, <1>6 DEF AllAccountedFor
  <2> QED BY <2>1, <2>2, <2>3 DEF AllAccountedFor
<1>12. KnowsRight(threads', readyQueue', currentTid', frames'[0])
  <2> DEFINE g == frames'[0]
  <2>1. currentTid' \in ToSet(readyQueue) \cup {currentTid}
    BY <1>6
  <2>2. currentTid' # currentTid => threads[currentTid'].state # "BLOCKED"
    BY <1>1, <1>2, <2>1 DEF AllAccountedFor
  <2>3. g.at = "spawn" => g.tid \notin DOMAIN threads'
    BY <1>2, <1>6, <1>10 DEF KnowsRight
  <2>4. g.at \notin {"user", "spawn"} => g.tid \in DOMAIN threads'
    BY <1>2, <1>6, <1>10 DEF KnowsRight
  <2>5. g.at \in {"purged", "unqueued"} =>
          g.tid \notin ToSet(readyQueue') \cup {currentTid'} /\ threads'[g.tid].state = "READY"
    BY <1>2, <1>6, <1>10 DEF KnowsRight
  <2>6. \A t \in DOMAIN threads : threads'[t].state = "BLOCKED" <=> threads[t].state = "BLOCKED"
    BY <1>2, <1>6, <2>2 DEF AllAccountedFor
  <2>7. g.object = "table"
    BY <1>9
  <2>8. g.at \in {"marked", "resuming"} => threads'[g.tid].state = "BLOCKED"
    BY <1>2, <1>6, <1>10, <2>6 DEF KnowsRight
  <2>9. g.at = "blocking" =>
          g.seen # "RUNNING" /\ (g.seen = "BLOCKED" <=> threads'[g.tid].state = "BLOCKED")
    BY <1>2, <1>6, <1>10, <2>6 DEF KnowsRight
  <2> QED BY <2>3, <2>4, <2>5, <2>7, <2>8, <2>9 DEF KnowsRight
<1>13. MainManages'
  BY <1>2, <1>9 DEF MainManages
<1> QED BY <1>5, <1>6, <1>7, <1>9, <1>11, <1>12, <1>13 DEF ManagedInv, Running

(* A block of itself by another thread than main.                          *)
LEMMA ManagedOthers ==
  ASSUME SchedulerAssumption, PreemptTypeOK, PreemptInv, ManagedInv, Running, currentTid # 0,
         BlockFinds(currentTid) \/ BlockReads \/ BlockActs
  PROVE  ManagedInv'
<1>1. /\ status = "running" /\ 0 \in DOMAIN threads /\ 0 \in ThreadIds
      /\ currentTid \in ThreadIds /\ currentTid \in DOMAIN threads
      /\ threads[currentTid] \in ThreadObject
      /\ readyQueue # <<>>
  BY DEF Running, PreemptTypeOK, PreemptInv, SchedulingCore, MainReady, TypeOK, ToSet
<1>2. /\ DOMAIN sleepingThreads = {}
      /\ \A t \in DOMAIN threads : threads[t].env # "terminate"
      /\ AllAccountedFor(threads, readyQueue, currentTid, frames[0])
      /\ KnowsRight(threads, readyQueue, currentTid, frames[0])
      /\ BlocksItself(currentTid, frame)
      /\ threads[currentTid].state = "RUNNING"
  BY <1>1 DEF ManagedInv, Running, AllAccountedFor, frame
\* A step that changes nothing but the frame.
<1>3. ASSUME Rests, NEW own \in Frame, FramesBecome(own, {}), BlocksItself(currentTid, own)
      PROVE  ManagedInv'
  <2> DEFINE f == frames[0]
  <2>1. f = (IF currentTid = 0 THEN own ELSE frames[0])
    OBVIOUS
  <2>2. GoesOn /\ UNCHANGED <<threads, readyQueue, sleepingThreads>>
    BY <1>3 DEF Rests
  <2> HIDE DEF f
  <2>3. /\ AllAccountedFor(threads', readyQueue', currentTid, f)
        /\ KnowsRight(threads', readyQueue', currentTid, f)
    BY <1>2, <2>1, <2>2
  <2> QED BY <1>1, <1>2, <1>3, <2>1, <2>2, <2>3, ManagedGoesOn
<1>4. UserFrame \in Frame /\ BlocksItself(currentTid, UserFrame)
  BY FrameTypes DEF BlocksItself
<1>5. ASSUME NEW value, ReturnsAtOnce("block", currentTid, value), Ends PROVE ManagedInv'
  BY <1>3, <1>4, <1>5 DEF ReturnsAtOnce, Rests, GoesOn, Ends
<1>6. ASSUME NEW place \in {"block", "blocking"}, NEW seen \in ThreadState,
             place = "blocking" => seen = "RUNNING",
             Looks, GoesOnTo(place, currentTid, seen)
      PROVE  ManagedInv'
  <2>1. place \in Places
    BY DEF Places
  <2>2. FrameAt(place, currentTid, seen) \in Frame
        /\ BlocksItself(currentTid, FrameAt(place, currentTid, seen))
    BY <1>1, <1>6, <2>1, FrameTypes DEF BlocksItself
  <2> QED BY <1>3, <1>6, <2>2 DEF Looks, Rests, GoesOn, GoesOnTo
<1>7. "READY" \in ThreadState /\ "RUNNING" \in ThreadState
  BY DEF ThreadState
<1>8. CASE BlockFinds(currentTid)
  <2>1. Looks /\ GoesOnTo("block", currentTid, "READY")
    BY <1>1, <1>8 DEF BlockFinds
  <2> QED BY <1>6, <1>7, <2>1
<1>9. CASE BlockReads
  <2>1. frame.tid = currentTid
    BY <1>2, <1>9 DEF BlockReads, RunsAt, BlocksItself
  <2>2. \/ ReturnsAtOnce("block", currentTid, 0) /\ Ends
        \/ Looks /\ GoesOnTo("blocking", currentTid, "RUNNING")
    BY <1>1, <1>2, <1>9, <2>1 DEF BlockReads
  <2> QED BY <1>5, <1>6, <1>7, <2>2
<1>10. CASE BlockActs
  <2> DEFINE thread == SetBlockFlag(SetState(threads[currentTid], "BLOCKED"), TRUE)
  <2>1. frame.tid = currentTid /\ frame.seen = "RUNNING"
    BY <1>2, <1>10 DEF BlockActs, RunsAt, BlocksItself
  <2>2. BlockSelf /\ Ends
    BY <1>10, <2>1 DEF BlockActs
  <2>3. DoContextSwitch([threads EXCEPT ![currentTid] = thread], readyQueue, sleepingThreads,
                        pendingDeletionTid, "block")
    BY <1>1, <2>2 DEF BlockSelf
  <2>4. thread \in ThreadObject /\ thread.env = threads[currentTid].env
    <3>1. /\ SetState(threads[currentTid], "BLOCKED") \in ThreadObject
          /\ SetState(threads[currentTid], "BLOCKED").env = threads[currentTid].env
      BY <1>1, ThreadMethods, ThreadFields DEF ThreadState
    <3> QED BY <3>1, ThreadMethods, ThreadFields
  <2> HIDE DEF thread
  <2>5. FramesBecome(UserFrame, {})
    BY <2>2 DEF Ends
  <2> QED BY <1>4, <2>3, <2>4, <2>5, ManagedSwitch
<1> QED BY <1>8, <1>9, <1>10

(* Each step of main's calls.                                              *)
LEMMA ManagedCalls ==
  ASSUME SchedulerAssumption, PreemptTypeOK, PreemptInv, ManagedInv, Running, PreemptNext,
         ~SignalArrives, currentTid = 0, frame.handlers = 0
  PROVE  ManagedInv'
<1>1. /\ status = "running" /\ 0 \in DOMAIN threads /\ 0 \in ThreadIds
      /\ \A t \in DOMAIN threads : t \in ThreadIds /\ threads[t] \in ThreadObject
      /\ TableOK(threads)
      /\ readyQueue \in Seq(ThreadIds)
      /\ frame \in Frame /\ frame = frames[0]
      /\ threads[0].state = "RUNNING"
      /\ \A t \in DOMAIN threads \ {0} : threads[t].state \in {"READY", "BLOCKED"}
      /\ FrameFits(0, frame)
  <2>1. /\ \A t \in DOMAIN threads : threads[t].state \in {"READY", "RUNNING", "BLOCKED"}
        /\ 0 \in DOMAIN threads
    BY DEF Running, PreemptTypeOK, PreemptInv, SchedulingCore, TypeOK, ThreadObject, ThreadState
  <2> QED BY <2>1 DEF Running, PreemptTypeOK, PreemptInv, SchedulingCore, MainReady, FramesCore,
                      TypeOK, TableOK, frame
<1>2. /\ DOMAIN sleepingThreads = {}
      /\ \A t \in DOMAIN threads : threads[t].env # "terminate"
      /\ AllAccountedFor(threads, readyQueue, 0, frame)
      /\ KnowsRight(threads, readyQueue, 0, frame)
      /\ MainManages
  BY <1>1 DEF ManagedInv, Running
<1>3. ASSUME NEW own \in Frame, NEW replaced, FramesBecome(own, replaced), GoesOn,
             DOMAIN sleepingThreads' = {}, 0 \in DOMAIN threads' \ replaced,
             \A t \in DOMAIN threads' : threads'[t].env # "terminate",
             own.at \notin {"user", "spawn"} => own.tid \notin replaced,
             AllAccountedFor(threads', readyQueue', 0, own),
             KnowsRight(threads', readyQueue', 0, own)
      PROVE  ManagedInv'
  BY <1>1, <1>3, ManagedGoesOn
\* A step after which main is outside every call, or inside one.
<1>4. UserFrame \in Frame /\ UserFrame.at = "user"
      /\ \A table, queue : KnowsRight(table, queue, 0, UserFrame)
  <2>1. UserFrame.object = "table"
    BY DEF UserFrame, FrameAt
  <2> QED BY <2>1, FrameTypes DEF KnowsRight
<1>5. ASSUME frame.at \notin {"purged", "unqueued"}, Rests, NEW own \in Frame, FramesBecome(own, {}),
             KnowsRight(threads, readyQueue, 0, own)
      PROVE  ManagedInv'
  <2>1. GoesOn /\ UNCHANGED <<threads, readyQueue, sleepingThreads>>
    BY <1>5 DEF Rests
  <2>2. AllAccountedFor(threads, readyQueue, 0, own)
    BY <1>2, <1>5 DEF AllAccountedFor, InMainsHands
  <2> QED BY <1>1, <1>2, <1>3, <1>5, <2>1, <2>2
<1>6. ASSUME frame.at \notin {"purged", "unqueued"}, Rests, Ends PROVE ManagedInv'
  BY <1>4, <1>5, <1>6 DEF Ends
<1>7. ASSUME frame.at \notin {"purged", "unqueued"}, Rests,
             NEW place \in Places, NEW tid \in ThreadIds, NEW seen \in ThreadState,
             GoesOnTo(place, tid, seen),
             KnowsRight(threads, readyQueue, 0, FrameAt(place, tid, seen))
      PROVE  ManagedInv'
  BY <1>5, <1>7, FrameTypes DEF GoesOnTo
<1>8. Looks => Rests
  BY DEF Looks, Rests, GoesOn
<1>9. ASSUME NEW call, NEW tid, NEW value, ReturnsAtOnce(call, tid, value)
      PROVE  Rests
  BY <1>9 DEF ReturnsAtOnce, Rests, GoesOn
\* A step that sets the state or the flag of another thread, or queues it.
<1>10. ASSUME NEW tid \in DOMAIN threads \ {0}, GoesOn, UNCHANGED sleepingThreads,
              NEW thread \in ThreadObject, threads' = [threads EXCEPT ![tid] = thread],
              thread.env = threads[tid].env,
              \/ /\ readyQueue' = readyQueue /\ tid \notin ToSet(readyQueue)
                 /\ thread.state = "BLOCKED"
              \/ readyQueue' = Append(readyQueue, tid) /\ thread.state = "READY",
              NEW own \in Frame, FramesBecome(own, {}),
              frame.at \in {"purged", "unqueued"} => frame.tid = tid,
              own.at = "marked" => frame.tid = tid /\ thread.state = "BLOCKED",
              own.at \in {"user", "marked"}, own.tid = frame.tid \/ own.at = "user",
              own.object = "table"
       PROVE  ManagedInv'
  <2>1. /\ DOMAIN threads' = DOMAIN threads /\ threads'[tid] = thread
        /\ \A t \in DOMAIN threads \ {tid} : threads'[t] = threads[t]
    BY <1>1, <1>10 DEF TableOK
  <2>2. IF thread.state = "BLOCKED" THEN ToSet(readyQueue') = ToSet(readyQueue)
        ELSE ToSet(readyQueue') = ToSet(readyQueue) \cup {tid}
    <3>1. CASE readyQueue' = Append(readyQueue, tid)
      BY <1>1, <1>10, <3>1, Pushed
    <3> QED BY <1>10, <3>1
  <2>3. thread.state = "READY" \/ (thread.state = "BLOCKED" /\ tid \notin ToSet(readyQueue))
    BY <1>10
  <2>4. AllAccountedFor(threads', readyQueue', 0, own)
    <3>1. \A t \in DOMAIN threads \ {0, tid} :
            t \in ToSet(readyQueue) \/ threads[t].state = "BLOCKED"
      BY <1>2, <1>10 DEF AllAccountedFor, InMainsHands
    <3> QED BY <1>1, <1>2, <1>10, <2>1, <2>2, <2>3, <3>1 DEF AllAccountedFor
  <2>5. KnowsRight(threads', readyQueue', 0, own)
    BY <1>10, <2>1 DEF KnowsRight
  <2>6. 0 \in DOMAIN threads' \ {} /\ \A t \in DOMAIN threads' : threads'[t].env # "terminate"
    BY <1>1, <1>2, <1>10, <2>1
  <2> QED BY <1>2, <1>3, <1>10, <2>4, <2>5, <2>6
\* A step that takes another READY thread off the queue.
<1>11. ASSUME NEW tid \in DOMAIN threads \ {0}, threads[tid].state = "READY", Unqueues(tid),
              frame.at \notin {"purged", "unqueued"},
              NEW own \in Frame, FramesBecome(own, {}), own.at \in {"purged", "unqueued"},
              own.tid = tid, own.object = "table"
       PROVE  ManagedInv'
  <2>1. GoesOn /\ UNCHANGED <<threads, sleepingThreads>>
        /\ readyQueue' = RemoveFromReadyQueue(readyQueue, tid)
    BY <1>11 DEF Unqueues, GoesOn
  <2>2. ToSet(readyQueue') = ToSet(readyQueue) \ {tid}
    <3>1. /\ readyQueue' \in Seq(ThreadIds)
          /\ \A t \in ThreadIds : t \in ToSet(readyQueue') <=> t # tid /\ t \in ToSet(readyQueue)
      BY <1>1, <2>1, RemovedFromReadyQueue
    <3>2. ToSet(readyQueue') \subseteq ThreadIds /\ ToSet(readyQueue) \subseteq ThreadIds
      BY <1>1, <3>1 DEF ToSet
    <3> QED BY <3>1, <3>2
  <2>3. AllAccountedFor(threads', readyQueue', 0, own)
    BY <1>2, <1>11, <2>1, <2>2 DEF AllAccountedFor, InMainsHands
  <2>4. KnowsRight(threads', readyQueue', 0, own)
    BY <1>11, <2>1, <2>2 DEF KnowsRight
  <2> QED BY <1>1, <1>2, <1>3, <1>11, <2>1, <2>3, <2>4
\* A step that deletes another thread.
<1>12. ASSUME NEW tid \in DOMAIN threads \ {0}, tid \notin ToSet(readyQueue), Deleted(tid),
              readyQueue' = readyQueue, Ends,
              frame.at \in {"purged", "unqueued"} => frame.tid = tid
       PROVE  ManagedInv'
  <2>1. /\ GoesOn /\ DOMAIN sleepingThreads' = {}
        /\ DOMAIN threads' = DOMAIN threads \ {tid}
        /\ \A t \in DOMAIN threads' : threads'[t] = threads[t]
    BY <1>2, <1>12 DEF Deleted, GoesOn, Without
  <2>2. AllAccountedFor(threads', readyQueue', 0, UserFrame)
    BY <1>1, <1>2, <1>12, <2>1 DEF AllAccountedFor, InMainsHands
  <2>3. 0 \in DOMAIN threads' \ {} /\ \A t \in DOMAIN threads' : threads'[t].env # "terminate"
    BY <1>1, <1>2, <1>12, <2>1
  <2> QED BY <1>3, <1>4, <1>12, <2>1, <2>2, <2>3 DEF Ends
\* The fields of threads[t] behind its methods.
<1>13. ASSUME NEW t \in DOMAIN threads, NEW state \in {"READY", "BLOCKED"}, NEW flag \in BOOLEAN
       PROVE  LET set     == SetState(threads[t], state)
                  flagged == SetBlockFlag(threads[t], flag)
                  both    == SetBlockFlag(set, flag)
              IN  /\ set \in ThreadObject /\ flagged \in ThreadObject /\ both \in ThreadObject
                  /\ set.state = state /\ both.state = state /\ flagged.state = threads[t].state
                  /\ set.env = threads[t].env /\ flagged.env = threads[t].env
                  /\ both.env = threads[t].env
  <2>1. threads[t] \in ThreadObject /\ state \in ThreadState
    BY <1>1 DEF ThreadState
  <2>2. SetState(threads[t], state) \in ThreadObject
    BY <2>1, ThreadMethods
  <2> QED BY <2>1, <2>2, ThreadMethods, ThreadFields
<1> DEFINE f == frame
<1>14. {"READY", "BLOCKED"} \subseteq ThreadState
       /\ {"spawn", "terminate", "purged", "block", "blocking", "resume", "resuming",
           "get_quantums"} \subseteq Places
  BY DEF ThreadState, Places
<1>15. ASSUME frame.at \notin {"purged", "unqueued"}, Ends,
              NEW call, NEW tid, NEW value, ReturnsAtOnce(call, tid, value)
       PROVE  ManagedInv'
  BY <1>6, <1>9, <1>15
<1>16. ASSUME frame.at \notin {"purged", "unqueued"}, Looks,
              NEW place \in Places, NEW tid \in ThreadIds, NEW seen \in ThreadState,
              GoesOnTo(place, tid, seen),
              KnowsRight(threads, readyQueue, 0, FrameAt(place, tid, seen))
       PROVE  ManagedInv'
  BY <1>7, <1>8, <1>16
<1> HIDE DEF f
\* A tid that main passes, once it has been found in the table.
<1>17. ASSUME NEW place \in {"terminate", "block", "resume", "get_quantums"},
              NEW tid \in DOMAIN threads
       PROVE  KnowsRight(threads, readyQueue, 0, FrameAt(place, tid, "READY"))
  <2>1. /\ FrameAt(place, tid, "READY").object = "table"
        /\ FrameAt(place, tid, "READY").at = place
        /\ FrameAt(place, tid, "READY").tid = tid
    BY DEF FrameAt
  <2> QED BY <1>17, <2>1 DEF KnowsRight
<1>18. ASSUME SpawnChooses PROVE ManagedInv'
  <2>1. f.at = "user"
    BY <1>18 DEF SpawnChooses, Enters, RunsAt, f
  <2>2. CASE NextAvailableTid = NoTid
    BY <1>15, <1>18, <2>1, <2>2 DEF SpawnChooses, f
  <2>3. CASE NextAvailableTid # NoTid
    <3> DEFINE tid == NextAvailableTid
    <3>1. Looks /\ GoesOnTo("spawn", tid, "READY")
      BY <1>18, <2>3 DEF SpawnChooses
    <3>2. tid \in ThreadIds \ DOMAIN threads
      BY <2>3, AvailableTid
    <3> HIDE DEF tid
    <3>3. KnowsRight(threads, readyQueue, 0, FrameAt("spawn", tid, "READY"))
      BY <3>2 DEF KnowsRight, FrameAt
    <3> QED BY <1>14, <1>16, <2>1, <3>1, <3>2, <3>3 DEF f
  <2> QED BY <2>2, <2>3
<1>19. ASSUME SpawnCreates PROVE ManagedInv'
  <2> DEFINE tid == frame.tid
  <2>1. frame.at = "spawn" /\ SpawnAs(tid) /\ FramesBecome(UserFrame, {tid})
    BY <1>19 DEF SpawnCreates, RunsAt
  <2>2. tid \in ThreadIds \ DOMAIN threads
    BY <1>1, <1>2, <2>1 DEF KnowsRight, FrameFits
  <2> HIDE DEF tid
  <2>3. /\ GoesOn /\ DOMAIN sleepingThreads' = {}
        /\ DOMAIN threads' = DOMAIN threads \cup {tid}
        /\ \A t \in DOMAIN threads : threads'[t] = threads[t]
        /\ threads'[tid] = NewThread(tid)
        /\ readyQueue' = Append(readyQueue, tid)
    BY <1>2, <2>1, <2>2 DEF SpawnAs, GoesOn, With
  <2>4. NewThread(tid).state = "READY" /\ NewThread(tid).env # "terminate"
    BY DEF NewThread
  <2>5. ToSet(readyQueue') = ToSet(readyQueue) \cup {tid}
    BY <1>1, <2>2, <2>3, Pushed
  <2>6. AllAccountedFor(threads', readyQueue', 0, UserFrame)
    <3>1. ToSet(readyQueue) \subseteq DOMAIN threads
          /\ \A t \in DOMAIN threads \ {0} :
               (t \in ToSet(readyQueue) \/ threads[t].state = "BLOCKED")
               /\ (threads[t].state = "BLOCKED" => t \notin ToSet(readyQueue))
      BY <1>2, <2>1 DEF AllAccountedFor, InMainsHands
    <3> QED BY <1>1, <2>2, <2>3, <2>4, <2>5, <3>1 DEF AllAccountedFor
  <2>7. 0 \in DOMAIN threads' \ {tid} /\ \A t \in DOMAIN threads' : threads'[t].env # "terminate"
    BY <1>1, <1>2, <2>2, <2>3, <2>4
  <2> QED BY <1>3, <1>4, <2>1, <2>3, <2>6, <2>7
<1>20. ASSUME NEW tid \in TidArgs, TerminateFinds(tid) PROVE ManagedInv'
  <2>1. f.at = "user"
    BY <1>20 DEF TerminateFinds, Enters, RunsAt, f
  <2> QED BY <1>1, <1>14, <1>15, <1>16, <1>17, <1>20, <2>1 DEF TerminateFinds, f
<1>21. ASSUME TerminateActs PROVE ManagedInv'
  <2> DEFINE tid == frame.tid
  <2>1. frame.at = "terminate" /\ tid \in DOMAIN threads
    BY <1>2, <1>21 DEF TerminateActs, RunsAt, KnowsRight
  <2>2. \/ TerminateMain /\ Ends
        \/ /\ tid # 0
           /\ IF threads[tid].state = "READY"
              THEN Unqueues(tid) /\ GoesOnTo("purged", tid, "READY")
              ELSE TerminateOther(tid) /\ Ends
    BY <1>21, <2>1 DEF TerminateActs
  <2> HIDE DEF tid
  <2>3. ASSUME TerminateMain, Ends PROVE ManagedInv'
    <3>1. status' = "exited"
      BY <2>3 DEF TerminateMain
    <3>2. MainManages'
      BY <1>2, <2>3 DEF Ends, FramesBecome, MainManages
    <3> QED BY <3>1, <3>2 DEF ManagedInv, Running
  <2>4. ASSUME tid # 0, threads[tid].state = "READY", Unqueues(tid),
               GoesOnTo("purged", tid, "READY")
        PROVE  ManagedInv'
    <3> DEFINE own == FrameAt("purged", tid, "READY")
    <3>1. own \in Frame /\ own.at = "purged" /\ own.tid = tid /\ FramesBecome(own, {})
      BY <1>1, <1>14, <2>1, <2>4, FrameTypes DEF GoesOnTo
    <3>2. own.object = "table"
      BY DEF FrameAt
    <3> HIDE DEF own
    <3> QED BY <1>11, <2>1, <2>4, <3>1, <3>2
  <2>5. ASSUME tid # 0, threads[tid].state # "READY", TerminateOther(tid), Ends PROVE ManagedInv'
    <3>1. tid \notin ToSet(readyQueue)
      BY <1>1, <1>2, <2>1, <2>5 DEF AllAccountedFor
    <3>2. readyQueue' = readyQueue /\ Deleted(tid)
      BY <2>5 DEF TerminateOther, Purged
    <3> QED BY <1>12, <2>1, <2>5, <3>1, <3>2
  <2> QED BY <2>2, <2>3, <2>4, <2>5
<1>22. ASSUME TerminateDeletes PROVE ManagedInv'
  <2> DEFINE tid == frame.tid
  <2>1. frame.at = "purged" /\ Ends /\ tid \in DOMAIN threads \ {0} /\ tid \notin ToSet(readyQueue)
    BY <1>1, <1>2, <1>22 DEF TerminateDeletes, RunsAt, KnowsRight, FrameFits
  <2>2. readyQueue' = readyQueue /\ Deleted(tid)
    BY <1>22, <2>1 DEF TerminateDeletes
  <2> HIDE DEF tid
  <2> QED BY <1>12, <2>1, <2>2 DEF tid
<1>23. ASSUME NEW tid \in TidArgs, BlockFinds(tid) PROVE ManagedInv'
  <2>1. f.at = "user"
    BY <1>23 DEF BlockFinds, Enters, RunsAt, f
  <2> QED BY <1>1, <1>14, <1>15, <1>16, <1>17, <1>23, <2>1 DEF BlockFinds, f
<1>24. ASSUME BlockReads PROVE ManagedInv'
  <2> DEFINE tid == frame.tid
  <2>1. f.at = "block" /\ tid \in DOMAIN threads \ {0}
    BY <1>1, <1>2, <1>24 DEF BlockReads, RunsAt, KnowsRight, FrameFits, f
  <2>2. \/ ReturnsAtOnce("block", tid, 0) /\ Ends
        \/ Looks /\ GoesOnTo("blocking", tid, threads[tid].state)
    BY <1>24, <2>1 DEF BlockReads
  <2> HIDE DEF tid
  <2>3. ASSUME Looks, GoesOnTo("blocking", tid, threads[tid].state) PROVE ManagedInv'
    <3>1. threads[tid].state \in {"READY", "BLOCKED"} /\ tid \in ThreadIds
      BY <1>1, <2>1
    <3>2. PICK seen \in ThreadState : seen = threads[tid].state
      BY <1>14, <3>1
    <3>3. KnowsRight(threads, readyQueue, 0, FrameAt("blocking", tid, seen))
      BY <2>1, <3>1, <3>2 DEF KnowsRight, FrameAt
    <3> QED BY <1>14, <1>16, <2>1, <2>3, <3>1, <3>2, <3>3 DEF f
  <2> QED BY <1>15, <2>1, <2>2, <2>3 DEF f
<1>25. ASSUME BlockActs PROVE ManagedInv'
  <2> DEFINE tid == frame.tid
             both == SetBlockFlag(SetState(threads[tid], "BLOCKED"), TRUE)
  <2>1. frame.at = "blocking" /\ frame.seen # "RUNNING" /\ tid \in DOMAIN threads \ {0}
        /\ (frame.seen = "BLOCKED" <=> threads[tid].state = "BLOCKED") /\ frame.object = "table"
    BY <1>1, <1>2, <1>25 DEF BlockActs, RunsAt, KnowsRight, FrameFits
  <2>2. \/ /\ frame.seen = "READY" /\ Unqueues(tid)
           /\ FramesBecome([frame EXCEPT !.at = "unqueued"], {})
        \/ /\ frame.seen = "BLOCKED" /\ Stores(tid, both) /\ Returns("block", tid, 0) /\ Ends
    BY <1>25, <2>1 DEF BlockActs
  <2>3. ASSUME frame.seen = "READY", Unqueues(tid),
               FramesBecome([frame EXCEPT !.at = "unqueued"], {})
        PROVE  ManagedInv'
    <3> DEFINE own == [frame EXCEPT !.at = "unqueued"]
    <3>1. own \in Frame /\ own.at = "unqueued" /\ own.tid = tid /\ own.object = "table"
      BY <1>1, <2>1 DEF Frame, Places
    <3>2. FramesBecome(own, {})
      BY <2>3
    <3>3. threads[tid].state = "READY"
      BY <1>1, <2>1, <2>3
    <3> HIDE DEF own, tid
    <3> QED BY <1>11, <2>1, <2>3, <3>1, <3>2, <3>3
  <2>4. ASSUME frame.seen = "BLOCKED", Stores(tid, both), Returns("block", tid, 0), Ends
        PROVE  ManagedInv'
    <3>1. tid \notin ToSet(readyQueue)
      BY <1>2, <2>1, <2>4 DEF AllAccountedFor
    <3>2. PICK thread \in ThreadObject :
            thread = both /\ thread.state = "BLOCKED" /\ thread.env = threads[tid].env
      BY <1>13, <2>1
    <3>3. /\ threads' = [threads EXCEPT ![tid] = thread]
          /\ GoesOn /\ UNCHANGED <<readyQueue, sleepingThreads>>
      BY <2>1, <2>4, <3>2 DEF Stores, GoesOn
    <3>4. UserFrame.at = "user" /\ UserFrame.object = "table" /\ UserFrame \in Frame
          /\ FramesBecome(UserFrame, {})
      BY <1>4, <2>4 DEF UserFrame, FrameAt, Ends
    <3> HIDE DEF tid
    <3> QED BY <1>10, <2>1, <3>1, <3>2, <3>3, <3>4
  <2> QED BY <2>2, <2>3, <2>4
<1>26. ASSUME BlockMarks PROVE ManagedInv'
  <2> DEFINE tid == frame.tid
             own == [frame EXCEPT !.at = "marked"]
  <2>1. frame.at = "unqueued" /\ tid \in DOMAIN threads \ {0} /\ tid \notin ToSet(readyQueue)
        /\ frame.object = "table" /\ FramesBecome(own, {})
    BY <1>1, <1>2, <1>26 DEF BlockMarks, RunsAt, KnowsRight, FrameFits
  <2>2. PICK thread \in ThreadObject :
          thread = SetState(threads[tid], "BLOCKED") /\ thread.state = "BLOCKED"
          /\ thread.env = threads[tid].env
    <3>1. FALSE \in BOOLEAN
      OBVIOUS
    <3> QED BY <1>13, <2>1, <3>1
  <2>3. /\ threads' = [threads EXCEPT ![tid] = thread]
        /\ GoesOn /\ UNCHANGED <<readyQueue, sleepingThreads>>
    BY <1>26, <2>1, <2>2 DEF BlockMarks, Stores, GoesOn
  <2>4. own \in Frame /\ own.at = "marked" /\ own.tid = tid /\ own.object = "table"
    BY <1>1, <2>1 DEF Frame, Places
  <2> HIDE DEF own
  <2> QED BY <1>10, <2>1, <2>2, <2>3, <2>4
<1>27. ASSUME BlockFlags PROVE ManagedInv'
  <2> DEFINE tid == frame.tid
  <2>1. frame.at = "marked" /\ Ends /\ tid \in DOMAIN threads \ {0} /\ frame.object = "table"
        /\ threads[tid].state = "BLOCKED" /\ tid \notin ToSet(readyQueue)
    BY <1>1, <1>2, <1>27 DEF BlockFlags, RunsAt, KnowsRight, FrameFits, AllAccountedFor
  <2>2. PICK thread \in ThreadObject :
          thread = SetBlockFlag(threads[tid], TRUE) /\ thread.state = "BLOCKED"
          /\ thread.env = threads[tid].env
    <3>1. threads[tid] \in ThreadObject
      BY <1>1, <2>1
    <3>2. /\ SetBlockFlag(threads[tid], TRUE) \in ThreadObject
          /\ SetBlockFlag(threads[tid], TRUE).state = threads[tid].state
          /\ SetBlockFlag(threads[tid], TRUE).env = threads[tid].env
      BY <3>1, ThreadMethods, ThreadFields
    <3> QED BY <2>1, <3>2
  <2>3. /\ threads' = [threads EXCEPT ![tid] = thread]
        /\ GoesOn /\ UNCHANGED <<readyQueue, sleepingThreads>>
    BY <1>27, <2>1, <2>2 DEF BlockFlags, Stores, GoesOn, Returns
  <2>4. UserFrame.at = "user" /\ UserFrame.object = "table" /\ UserFrame \in Frame
        /\ FramesBecome(UserFrame, {})
    BY <1>4, <2>1 DEF UserFrame, FrameAt, Ends
  <2> HIDE DEF tid
  <2> QED BY <1>10, <2>1, <2>2, <2>3, <2>4
<1>28. ASSUME NEW tid \in TidArgs, ResumeFinds(tid) PROVE ManagedInv'
  <2>1. f.at = "user"
    BY <1>28 DEF ResumeFinds, Enters, RunsAt, f
  <2> QED BY <1>1, <1>14, <1>15, <1>16, <1>17, <1>28, <2>1 DEF ResumeFinds, f
<1>29. ASSUME ResumeReads PROVE ManagedInv'
  <2> DEFINE tid == frame.tid
  <2>1. f.at = "resume" /\ tid \in DOMAIN threads
    BY <1>1, <1>2, <1>29 DEF ResumeReads, RunsAt, KnowsRight, f
  <2>2. \/ ReturnsAtOnce("resume", tid, 0) /\ Ends
        \/ threads[tid].state = "BLOCKED" /\ Looks /\ GoesOnTo("resuming", tid, "BLOCKED")
    BY <1>29, <2>1 DEF ResumeReads
  <2> HIDE DEF tid
  <2>3. ASSUME threads[tid].state = "BLOCKED", Looks, GoesOnTo("resuming", tid, "BLOCKED")
        PROVE  ManagedInv'
    <3>1. KnowsRight(threads, readyQueue, 0, FrameAt("resuming", tid, "BLOCKED"))
      BY <2>1, <2>3 DEF KnowsRight, FrameAt
    <3> QED BY <1>1, <1>14, <1>16, <2>1, <2>3, <3>1 DEF f
  <2> QED BY <1>15, <2>1, <2>2, <2>3 DEF f
<1>30. ASSUME ResumeActs PROVE ManagedInv'
  <2> DEFINE tid == frame.tid
  <2>1. frame.at = "resuming" /\ Ends /\ tid \in DOMAIN threads \ {0} /\ frame.object = "table"
    BY <1>1, <1>2, <1>30 DEF ResumeActs, RunsAt, KnowsRight, FrameFits
  <2>2. PICK thread \in ThreadObject :
          thread = SetState(threads[tid], "READY") /\ thread.state = "READY"
          /\ thread.env = threads[tid].env
    <3>1. FALSE \in BOOLEAN
      OBVIOUS
    <3> QED BY <1>13, <2>1, <3>1
  <2>3. /\ threads' = [threads EXCEPT ![tid] = thread]
        /\ readyQueue' = Append(readyQueue, tid)
        /\ GoesOn /\ UNCHANGED sleepingThreads
    BY <1>2, <1>30, <2>1, <2>2 DEF ResumeActs, ResumeBlocked, GoesOn, Returns
  <2>4. UserFrame.at = "user" /\ UserFrame.object = "table" /\ UserFrame \in Frame
        /\ FramesBecome(UserFrame, {})
    BY <1>4, <2>1 DEF UserFrame, FrameAt, Ends
  <2> HIDE DEF tid
  <2> QED BY <1>10, <2>1, <2>2, <2>3, <2>4
<1>31. ASSUME NEW n \in SleepArgs, SleepCall(n) PROVE ManagedInv'
  <2>1. f.at = "user" /\ ReturnsAtOnce("sleep", 0, -1) /\ Ends
    BY <1>31 DEF SleepCall, UthreadSleep, Enters, RunsAt, f
  <2> QED BY <1>15, <2>1 DEF f
<1>32. ASSUME NEW tid \in TidArgs, GetQuantumsFinds(tid) PROVE ManagedInv'
  <2>1. f.at = "user" /\ Rests
    BY <1>1, <1>32 DEF GetQuantumsFinds, Enters, RunsAt, Rests, GoesOn, f
  <2>2. CASE tid \in DOMAIN threads
    <3>1. GoesOnTo("get_quantums", tid, "READY")
      BY <1>32, <2>2 DEF GetQuantumsFinds
    <3> QED BY <1>1, <1>7, <1>14, <1>17, <2>1, <2>2, <3>1 DEF f
  <2>3. CASE tid \notin DOMAIN threads
    <3>1. Ends
      BY <1>32, <2>3 DEF GetQuantumsFinds
    <3> QED BY <1>6, <2>1, <3>1 DEF f
  <2> QED BY <2>2, <2>3
<1>33. ASSUME GetQuantumsReads PROVE ManagedInv'
  <2>1. f.at = "get_quantums" /\ frame.tid \in DOMAIN threads /\ Ends
    BY <1>2, <1>33 DEF GetQuantumsReads, RunsAt, KnowsRight, f
  <2>2. PICK value : ReturnsAtOnce("get_quantums", frame.tid, value)
    BY <1>33, <2>1 DEF GetQuantumsReads
  <2> QED BY <1>15, <2>1, <2>2 DEF f
<1>34. ~HandlerSwitches
  BY <1>1 DEF HandlerSwitches
<1> QED BY <1>1, <1>18, <1>19, <1>20, <1>21, <1>22, <1>23, <1>24, <1>25, <1>26, <1>27, <1>28,
             <1>29, <1>30, <1>31, <1>32, <1>33, <1>34
       DEF PreemptNext, InitCall, UthreadInit

LEMMA ManagedKept ==
  ASSUME SchedulerAssumption, PreemptTypeOK, PreemptInv, ManagedInv, [PreemptNext]_preemptVars
  PROVE  ManagedInv'
<1>1. ASSUME PreemptNext, Running PROVE ManagedInv'
  <2>1. CASE SignalArrives
    BY <1>1, <2>1, ManagedSignal
  <2>2. CASE HandlerSwitches
    <3> DEFINE own == [frame EXCEPT !.handlers = frame.handlers - 1]
    <3>1. /\ frame \in Frame /\ frame = frames[currentTid]
          /\ currentTid \in DOMAIN threads /\ threads[currentTid] \in ThreadObject
          /\ threads = [threads EXCEPT ![currentTid] = threads[currentTid]]
          /\ currentTid = 0 => threads[0].state = "RUNNING"
      BY <1>1 DEF Running, PreemptTypeOK, PreemptInv, SchedulingCore, MainReady, TypeOK, frame
    <3>2. frame.handlers > 0 /\ FramesBecome(own, {})
          /\ DoContextSwitch(threads, readyQueue, sleepingThreads, pendingDeletionTid, "timer")
      BY <2>2 DEF HandlerSwitches
    <3>3. frame.handlers - 1 \in 0 .. MaxHandlers
      <4>1. MaxHandlers \in Nat
        BY PreemptAssumption
      <4> QED BY <3>1, <3>2, <4>1 DEF Frame
    <3>4. own.object = frame.object
      BY <3>1 DEF Frame
    <3>5. /\ own \in Frame /\ own.at = frame.at /\ own.tid = frame.tid /\ own.seen = frame.seen
      <4>1. frame \in Frame
        BY <3>1
      <4> QED BY <3>3, <4>1, FrameUpdates
    <3> HIDE DEF own
    <3>6. currentTid # 0 => BlocksItself(currentTid, own)
      BY <1>1, <3>1, <3>5 DEF ManagedInv, BlocksItself, PreemptTypeOK, TypeOK
    <3> QED BY <1>1, <3>1, <3>2, <3>4, <3>5, <3>6, ManagedSwitch
  <2>3. CASE ~SignalArrives /\ currentTid = 0 /\ frame.handlers = 0
    BY <1>1, <2>3, ManagedCalls
  <2>4. CASE currentTid # 0 /\ (BlockFinds(currentTid) \/ BlockReads \/ BlockActs)
    BY <1>1, <2>4, ManagedOthers
  <2> QED BY <1>1, <2>1, <2>2, <2>3, <2>4, MainActs
<1>2. ASSUME PreemptNext, ~Running PROVE ManagedInv'
  <2>1. PICK usecs \in InitArgs : InitCall(usecs)
    BY <1>2
    DEF PreemptNext, SignalArrives, HandlerSwitches, SpawnChooses, SpawnCreates, TerminateFinds,
        TerminateActs, TerminateDeletes, BlockFinds, BlockReads, BlockActs, BlockMarks, BlockFlags,
        ResumeFinds, ResumeReads, ResumeActs, SleepCall, GetQuantumsFinds, GetQuantumsReads,
        Enters, RunsAt
  <2>2. /\ NotStarted /\ frames = [t \in ThreadIds |-> UserFrame] /\ UNCHANGED <<callers, frames>>
        /\ UthreadInit(usecs) /\ MainManages'
    BY <2>1 DEF InitCall, UthreadInit, PreemptInv, ManagedInv, MainManages
  <2>3. CASE usecs <= 0
    <3>1. status' # "running" /\ status' # "crashed"
      BY <1>2, <2>2, <2>3 DEF UthreadInit, ReturnsAtOnce, Running, ManagedInv
    <3> QED BY <2>2, <3>1 DEF ManagedInv, Running
  <2>4. CASE ~(usecs <= 0)
    <3>1. SchedulerInit
      BY <2>2, <2>4 DEF UthreadInit
    <3>2. /\ DOMAIN threads' = {0} /\ currentTid' = 0 /\ pendingDeletionTid' = NoTid
          /\ readyQueue' = <<>> /\ DOMAIN sleepingThreads' = {} /\ status' = "running"
      BY <2>2, <3>1 DEF SchedulerInit, NotStarted
    <3>3. threads'[0].state = "RUNNING" /\ threads'[0].env # "terminate"
      <4>1. NewThread(0) \in ThreadObject /\ SetState(NewThread(0), "RUNNING") \in ThreadObject
        BY ThreadMethods DEF ThreadState
      <4>2. threads'[0] = IncrementQuantumCount(SetState(NewThread(0), "RUNNING"))
        BY <3>1 DEF SchedulerInit
      <4> QED BY <4>1, <4>2, ThreadFields DEF NewThread
    <3>4. /\ \A t \in ThreadIds : frames'[t] = UserFrame
          /\ 0 \in ThreadIds
          /\ UserFrame.at = "user" /\ UserFrame.object = "table"
      BY <2>2, FrameTypes DEF ThreadIds, SchedulerAssumption, UserFrame, FrameAt
    <3>5. ToSet(readyQueue') = {}
      BY <3>2 DEF ToSet
    <3>6. AllAccountedFor(threads, readyQueue, currentTid, frames[0])'
      BY <3>2, <3>3, <3>5 DEF AllAccountedFor
    <3>7. KnowsRight(threads, readyQueue, currentTid, frames[0])'
      BY <3>4 DEF KnowsRight
    <3> QED BY <2>2, <3>1, <3>2, <3>3, <3>4, <3>6, <3>7
            DEF ManagedInv, Running, BlocksItself
  <2> QED BY <2>3, <2>4
<1>3. ASSUME UNCHANGED preemptVars PROVE ManagedInv'
  <2>1. UNCHANGED <<threads, readyQueue, sleepingThreads, currentTid, pendingDeletionTid, status,
                    reply, callers, frames>>
    BY <1>3 DEF preemptVars, vars
  <2> QED BY <2>1 DEF ManagedInv, Running, MainManages, AllAccountedFor,
                      KnowsRight
<1> QED BY <1>1, <1>2, <1>3

LEMMA ManagedInvariant ==
  PreemptSpec /\ MainManages => [](PreemptTypeOK /\ ManagedInv)
<1>1. PreemptInit /\ MainManages => ManagedInv
  BY DEF PreemptInit, Init, ManagedInv, Running
<1>2. PreemptTypeOK /\ PreemptInv /\ ManagedInv /\ [PreemptNext]_preemptVars
        => ManagedInv'
  BY SchedulerAssumption, ManagedKept
<1> QED BY <1>1, <1>2, PreemptInvariant, PTL DEF PreemptSpec

(* As long as main manages the others, no signal at any point of them makes  *)
(* the library use a Thread that is gone.                                  *)
THEOREM NoCrashUnderMain == PreemptSpec /\ MainManages => []NeverCrashes
<1>1. ManagedInv => NeverCrashes
  BY DEF ManagedInv, NeverCrashes
<1> QED BY <1>1, ManagedInvariant, PTL

(* With such clients a thread that terminate or block has taken off the    *)
(* queue is neither queued nor run before it is deleted or BLOCKED.        *)
THEOREM PurgedStaysOutUnderMain == PreemptSpec /\ MainManages => []PurgedStaysOut
<1>1. PreemptTypeOK /\ ManagedInv => PurgedStaysOut
  <2> SUFFICES ASSUME PreemptTypeOK, ManagedInv, Running, NEW t \in ThreadIds,
                      frames[t].at \in {"purged", "unqueued"}
               PROVE  frames[t].tid \notin Queued \cup {currentTid}
    BY DEF PurgedStaysOut, Purging
  <2>1. t = 0
    BY DEF ManagedInv, BlocksItself
  <2> QED BY <2>1 DEF ManagedInv, KnowsRight, Queued
<1> QED BY <1>1, ManagedInvariant, PTL

(* With such clients every thread is running, queued, BLOCKED, or in the   *)
(* hands of a call that is about to block or delete it.                    *)
THEOREM NobodyMislaidUnderMain == PreemptSpec /\ MainManages => []NoThreadMislaid
<1>1. ManagedInv => NoThreadMislaid
  <2> SUFFICES ASSUME ManagedInv, Running, NEW t \in DOMAIN threads, t # currentTid,
                      t \notin Queued, threads[t].state # "BLOCKED"
               PROVE  t \in Purging
    BY DEF NoThreadMislaid
  <2>1. InMainsHands(frames[0], t)
    BY DEF ManagedInv, AllAccountedFor, Queued
  <2>2. 0 \in ThreadIds
    BY SchedulerAssumption DEF SchedulerAssumption, ThreadIds
  <2> QED BY <2>1, <2>2 DEF InMainsHands, Purging
<1> QED BY <1>1, ManagedInvariant, PTL

-----------------------------------------------------------------------------
(* Clients in which one thread spawns, each blocks and ends only itself,   *)
(* and none sleeps, is resumed or ends main.                               *)
(*                                                                         *)
(* A call about the running thread cannot be overtaken: whoever else runs  *)
(* in the middle of it does nothing to that thread.  So the queue holds    *)
(* each thread that waits exactly once, and nobody that has ended.  The    *)
(* tid that is pending deletion stands for the thread that ended under it, *)
(* as long as it stands for anyone; one that ends before the last one is   *)
(* deleted leaves that one in the table for good.                          *)

EachForItself ==
  /\ OneSpawner
  /\ \A kind \in CallKinds \ {"spawn", "terminate_self", "block_self"} : callers[kind] = {}

(* Everyone but the running thread waits exactly once, unless it has ended.*)
EachWaitsOnce(table, queue, running) ==
  /\ ToSet(queue) \subseteq DOMAIN table
  /\ \A t \in ThreadIds : AtMostOnce(queue, t)
  /\ running \notin ToSet(queue)
  /\ table[running].env # "terminate"
  /\ \A t \in DOMAIN table \ {running} : t \in ToSet(queue) <=> table[t].env # "terminate"

(* The call that thread t is in is about t, or it is spawn.                *)
AboutItself(t, f) ==
  /\ f.at \in {"user", "spawn", "terminate", "block", "blocking"}
  /\ f.at \in {"terminate", "block", "blocking"} => f.tid = t /\ t # 0
  /\ f.at = "blocking" => f.seen = "RUNNING"

ItselfInv ==
  /\ EachForItself
  /\ SpawnersInv
  /\ status # "crashed"
  /\ Running =>
       /\ DOMAIN sleepingThreads = {}
       /\ EachWaitsOnce(threads, readyQueue, currentTid)
       /\ PendingHasEnded(threads, pendingDeletionTid)
       /\ \A t \in ThreadIds : AboutItself(t, frames[t])

LEMMA FramesAboutItself ==
  ASSUME PreemptTypeOK, \A t \in ThreadIds : AboutItself(t, frames[t]),
         NEW own \in Frame, NEW replaced, FramesBecome(own, replaced), AboutItself(currentTid, own)
  PROVE  callers' = callers /\ \A t \in ThreadIds : AboutItself(t, frames'[t])
<1>1. UserFrame.at = "user"
  BY FrameTypes
<1>2. \A t \in ThreadIds :
        \/ frames'[t] = UserFrame
        \/ SameCall(frames'[t], frames[t])
        \/ t = currentTid /\ SameCall(frames'[t], own)
  BY FramesAfter
<1> QED BY <1>1, <1>2 DEF AboutItself, SameCall, FramesBecome

(* The switch of the handler, of block_self and of terminate_self.         *)
LEMMA ItselfSwitch ==
  ASSUME SchedulerAssumption, PreemptTypeOK, PreemptInv, ItselfInv, Running,
         NEW thread \in ThreadObject, thread.env = threads[currentTid].env,
         thread.quantumCount = threads[currentTid].quantumCount,
         currentTid = 0 => thread.state = "RUNNING",
         NEW pending, NEW site \in {"timer", "terminate", "block"},
         IF site = "terminate" THEN pending = currentTid /\ currentTid # 0 /\ thread.state = "READY"
         ELSE pending = pendingDeletionTid,
         NEW own \in Frame, FramesBecome(own, {}), AboutItself(currentTid, own),
         DoContextSwitch([threads EXCEPT ![currentTid] = thread], readyQueue, sleepingThreads,
                         pending, site)
  PROVE  /\ status' = "running"
         /\ DOMAIN sleepingThreads' = {}
         /\ EachWaitsOnce(threads, readyQueue, currentTid)'
         /\ PendingHasEnded(threads, pendingDeletionTid)'
         /\ \A t \in ThreadIds : AboutItself(t, frames'[t])
         /\ TerminateNeverReturns'
<1> DEFINE table == [threads EXCEPT ![currentTid] = thread]
<1>1. /\ status = "running" /\ currentTid \in ThreadIds /\ currentTid \in DOMAIN threads
      /\ readyQueue \in Seq(ThreadIds)
      /\ TypeOK /\ TableOK(threads) /\ SleepersOK(sleepingThreads)
      /\ \A t \in DOMAIN threads \ {currentTid} : threads[t].state # "RUNNING"
      /\ currentTid # pendingDeletionTid
      /\ currentTid # 0 => readyQueue # <<>>
      /\ 0 \notin DOMAIN sleepingThreads
      /\ NoTid \notin ThreadIds
      /\ pendingDeletionTid \in ThreadIds \cup {NoTid}
      /\ SchedulingCore
  <2>1. SchedulingCore
    BY DEF Running, PreemptInv
  <2>2. currentTid # 0 => readyQueue # <<>>
    BY <2>1 DEF SchedulingCore, MainReady, ToSet
  <2> QED BY <2>1, <2>2 DEF Running, PreemptTypeOK, TypeOK, TableOK, SleepersOK, SchedulingCore,
                            MainReady, ThreadIds, NoTid
<1>2. /\ DOMAIN sleepingThreads = {}
      /\ EachWaitsOnce(threads, readyQueue, currentTid)
      /\ PendingHasEnded(threads, pendingDeletionTid)
      /\ \A t \in ThreadIds : AboutItself(t, frames[t])
  BY DEF ItselfInv
<1>3. /\ DOMAIN table = DOMAIN threads /\ TableOK(table)
      /\ table[currentTid] = thread
      /\ \A t \in DOMAIN threads \ {currentTid} : table[t] = threads[t]
      /\ DoContextSwitch(table, readyQueue, sleepingThreads, pending, site)
  BY <1>1, TableUpdates DEF TableOK
<1>4. /\ pending \in ThreadIds \cup {NoTid}
      /\ pending = currentTid <=> site = "terminate"
      /\ pending # currentTid => pending = pendingDeletionTid
      /\ \/ pending = pendingDeletionTid
         \/ pending = currentTid /\ currentTid # 0 /\ thread.state = "READY" /\ site = "terminate"
  BY <1>1
<1>5. /\ ToSet(readyQueue) \subseteq DOMAIN threads
      /\ \A t \in ThreadIds : AtMostOnce(readyQueue, t)
      /\ currentTid \notin ToSet(readyQueue)
      /\ \A t \in DOMAIN threads \ {currentTid} : t \in ToSet(readyQueue) <=> threads[t].env # "terminate"
  BY <1>2 DEF EachWaitsOnce
<1>6. pending \notin ToSet(readyQueue)
  BY <1>1, <1>2, <1>4, <1>5 DEF PendingHasEnded, TableOK
<1>7. /\ status' = "running"
      /\ sleepingThreads' = sleepingThreads
      /\ \A t \in ThreadIds : AtMostOnce(readyQueue', t)
      /\ currentTid' \notin ToSet(readyQueue')
      /\ \A tid, value : reply' # Reply("terminate", tid, value)
  <2> HIDE DEF table
  <2>1. \A t \in ToSet(readyQueue) : table[t].env # "terminate"
    BY <1>3, <1>5
  <2>2. table[currentTid] \in ThreadObject /\ currentTid \in DOMAIN table
        /\ ToSet(readyQueue) \subseteq DOMAIN table
    BY <1>1, <1>3, <1>5
  <2>3. pending = currentTid => readyQueue # <<>>
    BY <1>1, <1>4
  <2>4. currentTid \in ThreadIds /\ readyQueue \in Seq(ThreadIds) /\ status = "running"
        /\ (pending = currentTid <=> site = "terminate")
    BY <1>1, <1>4
  <2>5. (\A t \in ThreadIds : AtMostOnce(readyQueue, t)) /\ currentTid \notin ToSet(readyQueue)
    BY <1>5
  <2>6. DoContextSwitch(table, readyQueue, sleepingThreads, pending, site)
    BY <1>3
  <2> QED BY <1>6, <2>1, <2>2, <2>3, <2>4, <2>5, <2>6, SwitchTakesOne
<1>8. SwitchedFrom(table, readyQueue, pending, site)
  <2>1. GivesUp(thread, sleepingThreads, pending, site)
    <3>1. 0 \notin DOMAIN sleepingThreads /\ SleepersOK(sleepingThreads) /\ status' = "running"
          /\ thread.quantumCount = threads[currentTid].quantumCount
      BY <1>1, <1>7
    <3> QED BY <1>4, <3>1 DEF GivesUp
  <2>2. /\ MainReady(table, readyQueue, sleepingThreads, pending)
        /\ PendingBehindMain(table, readyQueue, pending)
    BY <1>1, <2>1, PreparedSwitch
  <2>3. pending = currentTid => table[currentTid].state = "READY"
    BY <1>3, <1>4
  <2> HIDE DEF table
  <2>4. currentTid \in DOMAIN table /\ \A t \in DOMAIN table \ {currentTid} : table[t].state # "RUNNING"
    BY <1>1, <1>3
  <2> QED BY <1>1, <1>3, <1>4, <1>7, <2>2, <2>3, <2>4, SwitchOutcome
<1> HIDE DEF table
<1>9. /\ {currentTid'} \cup ToSet(readyQueue') =
           ToSet(readyQueue) \cup (IF pending = currentTid THEN {} ELSE {currentTid})
      /\ DOMAIN threads' \subseteq DOMAIN threads
      /\ DOMAIN threads \ {pending} \subseteq DOMAIN threads'
      /\ \A t \in DOMAIN threads' : threads'[t].env = IF t = currentTid THEN site ELSE threads[t].env
      /\ \/ pendingDeletionTid' = NoTid
         \/ /\ pendingDeletionTid' = pending
            /\ DOMAIN threads' = DOMAIN threads
  BY <1>3, <1>8 DEF SwitchedFrom
<1>10. EachWaitsOnce(threads', readyQueue', currentTid')
  <2>1. ToSet(readyQueue') \cup {currentTid'} \subseteq DOMAIN threads'
    BY <1>1, <1>5, <1>6, <1>9
  <2>2. threads'[currentTid'].env # "terminate"
    BY <1>4, <1>5, <1>9, <2>1
  <2>3. ASSUME NEW t \in DOMAIN threads' \ {currentTid'}
        PROVE  t \in ToSet(readyQueue') <=> threads'[t].env # "terminate"
    <3>1. CASE t = currentTid
      BY <1>4, <1>5, <1>9, <2>3, <3>1
    <3>2. CASE t # currentTid
      BY <1>5, <1>9, <2>3, <3>2
    <3> QED BY <3>1, <3>2
  <2> QED BY <1>7, <2>1, <2>2, <2>3 DEF EachWaitsOnce
<1>11. PendingHasEnded(threads', pendingDeletionTid')
  <2>1. CASE pending = currentTid
    BY <1>1, <1>4, <1>9, <2>1 DEF PendingHasEnded
  <2>2. CASE pending # currentTid
    BY <1>2, <1>4, <1>9, <2>2 DEF PendingHasEnded
  <2> QED BY <2>1, <2>2
<1>12. \A t \in ThreadIds : AboutItself(t, frames'[t])
  BY <1>2, FramesAboutItself
<1>13. TerminateNeverReturns'
  BY <1>7 DEF TerminateNeverReturns
<1> QED BY <1>2, <1>7, <1>10, <1>11, <1>12, <1>13

LEMMA ItselfCalls ==
  ASSUME SchedulerAssumption, PreemptTypeOK, PreemptInv, ItselfInv, Running, PreemptNext
  PROVE  ItselfInv' /\ TerminateNeverReturns'
<1> DEFINE Fine == /\ status' = "running"
                   /\ DOMAIN sleepingThreads' = {}
                   /\ EachWaitsOnce(threads', readyQueue', currentTid')
                   /\ PendingHasEnded(threads', pendingDeletionTid')
                   /\ \A t \in ThreadIds : AboutItself(t, frames'[t])
                   /\ TerminateNeverReturns'
<1>1. /\ status = "running" /\ currentTid \in ThreadIds /\ currentTid \in DOMAIN threads
      /\ \A t \in DOMAIN threads : t \in ThreadIds /\ threads[t] \in ThreadObject
      /\ readyQueue \in Seq(ThreadIds)
      /\ frame \in Frame
      /\ frame = frames[currentTid]
      /\ currentTid # 0 => readyQueue # <<>>
      /\ currentTid = 0 => threads[0].state = "RUNNING"
      /\ FrameFits(currentTid, frame)
      /\ frame.handlers = 0 => threads[currentTid].state = "RUNNING"
  <2>1. /\ MainReady(threads, readyQueue, sleepingThreads, pendingDeletionTid)
        /\ currentTid \in DOMAIN threads
        /\ frame.handlers = 0 => threads[currentTid].state = "RUNNING"
        /\ FrameFits(currentTid, frame)
    BY DEF Running, PreemptInv, SchedulingCore, FramesCore, frame
  <2>2. currentTid # 0 => readyQueue # <<>>
    BY <2>1 DEF MainReady, ToSet
  <2> QED BY <2>1, <2>2 DEF Running, PreemptTypeOK, TypeOK, MainReady, frame
<1>2. /\ DOMAIN sleepingThreads = {}
      /\ EachWaitsOnce(threads, readyQueue, currentTid)
      /\ PendingHasEnded(threads, pendingDeletionTid)
      /\ \A t \in ThreadIds : AboutItself(t, frames[t])
      /\ AboutItself(currentTid, frame)
      /\ EachForItself
      /\ SpawnersInv
  BY <1>1 DEF ItselfInv
<1>3. ASSUME Fine PROVE ItselfInv' /\ TerminateNeverReturns'
  <2>1. SpawnersInv' /\ OneSpawner'
    BY <1>2, SpawnersKept DEF EachForItself
  <2>2. callers' = callers
    <3>1. Effects
      BY EveryStepHasEffects
    <3> QED BY <3>1 DEF Effects, GoesOnAs, FramesBecome
  <2> QED BY <1>2, <1>3, <2>1, <2>2 DEF ItselfInv, EachForItself
\* A step that changes nothing but the frame.
<1>4. ASSUME UNCHANGED <<threads, readyQueue, sleepingThreads, currentTid, pendingDeletionTid, status>>,
             NEW own \in Frame, FramesBecome(own, {}), AboutItself(currentTid, own),
             \A tid : reply' # Reply("terminate", tid, 0)
      PROVE  Fine
  <2>1. \A t \in ThreadIds : AboutItself(t, frames'[t])
    BY <1>2, <1>4, FramesAboutItself
  <2> QED BY <1>1, <1>2, <1>4, <2>1 DEF TerminateNeverReturns
<1>5. UserFrame \in Frame /\ AboutItself(currentTid, UserFrame)
  BY FrameTypes DEF AboutItself
<1>6. \A call \in {"spawn", "block"} : \A tid, value :
        \A other : /\ Reply(call, tid, value) # Reply("terminate", other, 0)
                   /\ NoReply # Reply("terminate", other, 0)
  BY DEF Reply, NoReply
<1>7. ASSUME NEW call \in {"spawn", "block"}, NEW tid, NEW value,
             ReturnsAtOnce(call, tid, value), Ends
      PROVE  Fine
  BY <1>4, <1>5, <1>6, <1>7 DEF ReturnsAtOnce, Returns, Ends
<1>8. ASSUME Looks, NEW place \in {"spawn", "terminate", "block"}, NEW tid \in ThreadIds,
             GoesOnTo(place, tid, "READY"),
             place = "spawn" \/ (tid = currentTid /\ tid # 0)
      PROVE  Fine
  <2>1. place \in Places /\ "READY" \in ThreadState
    BY <1>8 DEF Places, ThreadState
  <2>2. FrameAt(place, tid, "READY") \in Frame /\ AboutItself(currentTid, FrameAt(place, tid, "READY"))
    BY <1>8, <2>1, FrameTypes DEF AboutItself
  <2> QED BY <1>4, <1>6, <1>8, <2>2 DEF Looks, GoesOnTo
\* The running thread gives up the processor.
<1>9. ASSUME NEW thread \in ThreadObject, thread.env = threads[currentTid].env,
             thread.quantumCount = threads[currentTid].quantumCount,
             currentTid = 0 => thread.state = "RUNNING",
             NEW pending, NEW site \in {"timer", "terminate", "block"},
             IF site = "terminate" THEN pending = currentTid /\ currentTid # 0 /\ thread.state = "READY"
             ELSE pending = pendingDeletionTid,
             NEW own \in Frame, FramesBecome(own, {}), AboutItself(currentTid, own),
             DoContextSwitch([threads EXCEPT ![currentTid] = thread], readyQueue, sleepingThreads,
                             pending, site)
      PROVE  Fine
  BY <1>9, ItselfSwitch
<1> HIDE DEF Fine
<1>10. ASSUME SignalArrives PROVE Fine
  <2> DEFINE own == [frame EXCEPT !.handlers = @ + 1]
  <2>1. Due = {} /\ Woken = {}
    BY <1>2 DEF Due, Woken
  <2>2. PICK order \in SetToSeqs(Woken) :
          /\ threads' = Awakened
          /\ sleepingThreads' = StillAsleep
          /\ readyQueue' = readyQueue \o order
          /\ reply' = NoReply
          /\ UNCHANGED <<currentTid, pendingDeletionTid, totalQuantums, timerMasked, status>>
    BY <1>10, <2>1 DEF SignalArrives
  <2>3. threads' = threads
    BY <2>1, <2>2 DEF Awakened, PreemptTypeOK, TypeOK
  <2>4. sleepingThreads' = sleepingThreads
    BY <2>1, <2>2 DEF StillAsleep, PreemptTypeOK, TypeOK
  <2>5. readyQueue' = readyQueue
    <3>1. order \in Seq(ThreadIds) /\ ToSet(order) = {}
      BY <2>1, WakingOrder
    <3>2. order = <<>>
      <4>1. ASSUME order # <<>> PROVE FALSE
        <5>1. order \in Seq(ThreadIds)
          BY <3>1
        <5>2. ToSet(order) = {Head(order)} \cup ToSet(Tail(order))
          BY <4>1, <5>1, Popped
        <5> QED BY <3>1, <5>2
      <4> QED BY <4>1
    <3> QED BY <1>1, <2>2, <3>2
  <2>6. own \in Frame /\ AboutItself(currentTid, own) /\ FramesBecome(own, {})
    <3>1. frame.handlers + 1 \in 0 .. MaxHandlers
      <4>1. frame.handlers \in 0 .. MaxHandlers /\ frame.handlers < MaxHandlers
        BY <1>1, <1>10, FrameUpdates DEF SignalArrives
      <4>2. MaxHandlers \in Nat
        BY PreemptAssumption
      <4> QED BY <4>1, <4>2
    <3>2. own = [frame EXCEPT !.handlers = frame.handlers + 1]
      OBVIOUS
    <3>0. frame \in Frame
      BY <1>1
    <3>3. own \in Frame /\ own.at = frame.at /\ own.tid = frame.tid
      BY <3>0, <3>1, <3>2, FrameUpdates
    <3>4. own.seen = frame.seen
      BY <1>1, <3>2 DEF Frame
    <3>5. FramesBecome(own, {})
      BY <1>10 DEF SignalArrives
    <3> HIDE DEF own
    <3> QED BY <1>2, <3>3, <3>4, <3>5 DEF AboutItself
  <2> HIDE DEF own
  <2> QED BY <1>4, <1>6, <2>2, <2>3, <2>4, <2>5, <2>6
<1>11. ASSUME HandlerSwitches PROVE Fine
  <2> DEFINE own == [frame EXCEPT !.handlers = @ - 1]
  <2>1. own \in Frame /\ AboutItself(currentTid, own) /\ FramesBecome(own, {})
    <3>1. frame.handlers - 1 \in 0 .. MaxHandlers
      <4>1. frame.handlers \in 0 .. MaxHandlers /\ frame.handlers > 0
        BY <1>1, <1>11, FrameUpdates DEF HandlerSwitches
      <4>2. MaxHandlers \in Nat
        BY PreemptAssumption
      <4> QED BY <4>1, <4>2
    <3>2. own = [frame EXCEPT !.handlers = frame.handlers - 1]
      OBVIOUS
    <3>0. frame \in Frame
      BY <1>1
    <3>3. own \in Frame /\ own.at = frame.at /\ own.tid = frame.tid
      BY <3>0, <3>1, <3>2, FrameUpdates
    <3>4. own.seen = frame.seen
      BY <1>1, <3>2 DEF Frame
    <3>5. FramesBecome(own, {})
      BY <1>11 DEF HandlerSwitches
    <3> HIDE DEF own
    <3> QED BY <1>2, <3>3, <3>4, <3>5 DEF AboutItself
  <2> HIDE DEF own
  <2>2. [threads EXCEPT ![currentTid] = threads[currentTid]] = threads
    BY DEF PreemptTypeOK, TypeOK
  <2>3. DoContextSwitch([threads EXCEPT ![currentTid] = threads[currentTid]], readyQueue,
                        sleepingThreads, pendingDeletionTid, "timer")
    BY <1>11, <2>2 DEF HandlerSwitches
  <2>4. threads[currentTid] \in ThreadObject
    BY <1>1
  <2> QED BY <1>1, <1>9, <2>1, <2>3, <2>4
<1>12. ASSUME SpawnChooses PROVE Fine
  <2>1. CASE NextAvailableTid = NoTid
    BY <1>7, <1>12, <2>1 DEF SpawnChooses
  <2>2. CASE NextAvailableTid # NoTid
    <3>1. NextAvailableTid \in ThreadIds
      BY <2>2, AvailableTid
    <3> QED BY <1>8, <1>12, <2>2, <3>1 DEF SpawnChooses
  <2> QED BY <2>1, <2>2
<1>13. ASSUME SpawnCreates PROVE Fine
  <2> DEFINE tid == frame.tid
  <2>1. /\ tid \in ThreadIds
        /\ threads' = With(threads, tid, NewThread(tid))
        /\ readyQueue' = Append(readyQueue, tid)
        /\ reply' = Reply("spawn", currentTid, tid)
        /\ UNCHANGED <<sleepingThreads, currentTid, pendingDeletionTid, status>>
        /\ FramesBecome(UserFrame, {tid})
    BY <1>1, <1>13 DEF SpawnCreates, SpawnAs, Returns, RunsAt, FrameFits
  <2>2. tid \notin DOMAIN threads
    BY <1>1, <1>2, <1>13 DEF SpawnersInv, SpawnCreates, RunsAt
  <2> HIDE DEF tid
  <2>3. /\ DOMAIN threads' = DOMAIN threads \cup {tid}
        /\ \A t \in DOMAIN threads : threads'[t] = threads[t]
        /\ threads'[tid].env # "terminate"
    <3>1. NewThread(tid).env # "terminate"
      BY DEF NewThread
    <3> QED BY <2>1, <2>2, <3>1 DEF With
  <2>4. tid \notin ToSet(readyQueue)
    BY <1>2, <2>2 DEF EachWaitsOnce
  <2>5. /\ ToSet(readyQueue') = ToSet(readyQueue) \cup {tid}
        /\ \A t \in ThreadIds : AtMostOnce(readyQueue', t)
    <3>1. /\ ToSet(readyQueue') = ToSet(readyQueue) \cup {tid}
          /\ \A t : AtMostOnce(readyQueue', t)
                      <=> AtMostOnce(readyQueue, t) /\ (t = tid => t \notin ToSet(readyQueue))
      BY <1>1, <2>1, Pushed
    <3> QED BY <1>2, <2>4, <3>1 DEF EachWaitsOnce
  <2>6. EachWaitsOnce(threads', readyQueue', currentTid')
    BY <1>1, <1>2, <2>1, <2>2, <2>3, <2>5 DEF EachWaitsOnce
  <2>7. PendingHasEnded(threads', pendingDeletionTid')
    BY <1>2, <2>1, <2>3 DEF PendingHasEnded
  <2>8. \A t \in ThreadIds : AboutItself(t, frames'[t])
    BY <1>2, <1>5, <2>1, FramesAboutItself
  <2>9. TerminateNeverReturns'
    BY <1>6, <2>1 DEF TerminateNeverReturns
  <2> QED BY <1>1, <1>2, <2>1, <2>6, <2>7, <2>8, <2>9 DEF Fine
<1>14. ASSUME NEW kind \in CallKinds, Enters(kind)
       PROVE  kind \in {"spawn", "terminate_self", "block_self"}
  BY <1>2, <1>14 DEF Enters, EachForItself
<1>15. ASSUME NEW tid \in TidArgs, TerminateFinds(tid) PROVE Fine
  <2>1. tid = currentTid /\ tid # 0
    <3>1. TerminateKind(tid) \in CallKinds
      BY DEF TerminateKind, CallKinds
    <3>2. TerminateKind(tid) \in {"spawn", "terminate_self", "block_self"}
      BY <1>14, <1>15, <3>1 DEF TerminateFinds
    <3> QED BY <3>2 DEF TerminateKind
  <2>2. Looks /\ GoesOnTo("terminate", tid, "READY")
    BY <1>1, <1>15, <2>1 DEF TerminateFinds
  <2>3. tid \in ThreadIds
    BY <1>1, <2>1
  <2> QED BY <1>8, <2>1, <2>2, <2>3
<1>16. ASSUME TerminateActs PROVE Fine
  <2>1. frame.at = "terminate" /\ frame.handlers = 0 /\ frame.tid = currentTid
    BY <1>2, <1>16 DEF TerminateActs, RunsAt, AboutItself
  <2>2. /\ currentTid # 0 /\ threads[currentTid].state = "RUNNING" /\ readyQueue # <<>>
        /\ currentTid \in DOMAIN threads
    BY <1>1, <1>2, <2>1 DEF AboutItself
  <2>3. TerminateSelf /\ Ends
    BY <1>16, <2>1, <2>2 DEF TerminateActs
  <2>4. Purged(currentTid) = readyQueue
    BY <2>2 DEF Purged
  <2>5. DoContextSwitch([threads EXCEPT ![currentTid] = SetState(threads[currentTid], "READY")],
                        readyQueue, sleepingThreads, currentTid, "terminate")
    BY <2>2, <2>3, <2>4 DEF TerminateSelf
  <2>6. LET thread == SetState(threads[currentTid], "READY")
        IN  /\ thread \in ThreadObject /\ thread.env = threads[currentTid].env
            /\ thread.quantumCount = threads[currentTid].quantumCount /\ thread.state = "READY"
    BY <1>1, ThreadMethods, ThreadFields, ThreadCounts DEF ThreadState
  <2> QED BY <1>5, <1>9, <2>2, <2>3, <2>5, <2>6 DEF Ends
<1>17. ASSUME NEW tid \in TidArgs, BlockFinds(tid) PROVE Fine
  <2>1. tid = currentTid
    <3>1. (IF tid = currentTid THEN "block_self" ELSE "block_other") \in CallKinds
      BY DEF CallKinds
    <3>2. (IF tid = currentTid THEN "block_self" ELSE "block_other")
             \in {"spawn", "terminate_self", "block_self"}
      BY <1>14, <1>17, <3>1 DEF BlockFinds
    <3> QED BY <3>2
  <2>2. CASE tid # 0 /\ Looks /\ GoesOnTo("block", tid, "READY")
    BY <1>1, <1>8, <2>1, <2>2
  <2>3. CASE ReturnsAtOnce("block", tid, -1) /\ Ends
    BY <1>7, <2>3
  <2> QED BY <1>17, <2>2, <2>3 DEF BlockFinds
<1>18. ASSUME BlockReads PROVE Fine
  <2>1. /\ frame.tid = currentTid /\ currentTid # 0 /\ threads[currentTid].state = "RUNNING"
        /\ currentTid \in DOMAIN threads
    BY <1>1, <1>2, <1>18 DEF BlockReads, RunsAt, AboutItself
  <2>2. CASE ReturnsAtOnce("block", frame.tid, 0) /\ Ends
    BY <1>7, <2>2
  <2>3. CASE Looks /\ GoesOnTo("blocking", currentTid, "RUNNING")
    <3>1. "blocking" \in Places /\ "RUNNING" \in ThreadState
      BY DEF Places, ThreadState
    <3>2. FrameAt("blocking", currentTid, "RUNNING") \in Frame
          /\ AboutItself(currentTid, FrameAt("blocking", currentTid, "RUNNING"))
      BY <1>1, <2>1, <3>1, FrameTypes DEF AboutItself
    <3> QED BY <1>4, <1>6, <2>3, <3>2 DEF Looks, GoesOnTo
  <2> QED BY <1>18, <2>1, <2>2, <2>3 DEF BlockReads
<1>19. ASSUME BlockActs PROVE Fine
  <2>1. frame.tid = currentTid /\ currentTid # 0 /\ frame.seen = "RUNNING" /\ readyQueue # <<>>
    BY <1>1, <1>2, <1>19 DEF BlockActs, RunsAt, AboutItself
  <2>2. BlockSelf /\ Ends
    BY <1>19, <2>1 DEF BlockActs
  <2>3. DoContextSwitch([threads EXCEPT ![currentTid] =
                           SetBlockFlag(SetState(threads[currentTid], "BLOCKED"), TRUE)],
                        readyQueue, sleepingThreads, pendingDeletionTid, "block")
    BY <1>1, <2>1, <2>2 DEF BlockSelf
  <2>4. LET thread == SetBlockFlag(SetState(threads[currentTid], "BLOCKED"), TRUE)
        IN  /\ thread \in ThreadObject /\ thread.env = threads[currentTid].env
            /\ thread.quantumCount = threads[currentTid].quantumCount
    <3> DEFINE set == SetState(threads[currentTid], "BLOCKED")
    <3>1. /\ set \in ThreadObject /\ set.env = threads[currentTid].env
          /\ set.quantumCount = threads[currentTid].quantumCount
      BY <1>1, ThreadMethods, ThreadFields, ThreadCounts DEF ThreadState
    <3> HIDE DEF set
    <3>2. LET thread == SetBlockFlag(set, TRUE)
          IN  /\ thread \in ThreadObject /\ thread.env = set.env
              /\ thread.quantumCount = set.quantumCount
      BY <3>1, ThreadMethods, ThreadFields, ThreadCounts
    <3> QED BY <3>1, <3>2 DEF set
  <2> QED BY <1>5, <1>9, <2>1, <2>2, <2>3, <2>4 DEF Ends
<1>20. ~TerminateDeletes /\ ~BlockMarks /\ ~BlockFlags /\ ~ResumeReads /\ ~ResumeActs
       /\ ~GetQuantumsReads
  BY <1>2 DEF TerminateDeletes, BlockMarks, BlockFlags, ResumeReads, ResumeActs, GetQuantumsReads,
              RunsAt, AboutItself
<1>21. \A tid : ~ResumeFinds(tid) /\ ~GetQuantumsFinds(tid) /\ ~SleepCall(tid)
  <2>1. {"resume", "get_quantums", "get_quantums_unknown", "sleep"} \subseteq CallKinds
    BY DEF CallKinds
  <2> QED BY <1>14, <2>1 DEF ResumeFinds, GetQuantumsFinds, SleepCall
<1>22. \A usecs : ~InitCall(usecs)
  BY <1>1 DEF InitCall, UthreadInit
<1>23. Fine
  BY <1>10, <1>11, <1>12, <1>13, <1>15, <1>16, <1>17, <1>18, <1>19, <1>20, <1>21, <1>22
  DEF PreemptNext
<1> QED BY <1>3, <1>23

LEMMA ItselfKept ==
  ASSUME SchedulerAssumption, PreemptTypeOK, PreemptInv, ItselfInv, TerminateNeverReturns,
         [PreemptNext]_preemptVars
  PROVE  ItselfInv' /\ TerminateNeverReturns'
<1>1. CASE PreemptNext /\ Running
  BY <1>1, ItselfCalls
<1>2. CASE PreemptNext /\ ~Running
  <2>1. PICK usecs \in InitArgs : InitCall(usecs)
    BY <1>2
    DEF PreemptNext, SignalArrives, HandlerSwitches, SpawnChooses, SpawnCreates, TerminateFinds,
        TerminateActs, TerminateDeletes, BlockFinds, BlockReads, BlockActs, BlockMarks, BlockFlags,
        ResumeFinds, ResumeReads, ResumeActs, SleepCall, GetQuantumsFinds, GetQuantumsReads,
        Enters, RunsAt
  <2>2. /\ status = "new" /\ NotStarted /\ frames = [t \in ThreadIds |-> UserFrame]
        /\ UNCHANGED <<callers, frames>>
        /\ UthreadInit(usecs)
    BY <2>1 DEF InitCall, UthreadInit, PreemptInv
  <2>3. SpawnersInv' /\ EachForItself'
    <3>1. SpawnersInv'
      BY SpawnersKept DEF ItselfInv, EachForItself
    <3> QED BY <2>2, <3>1 DEF ItselfInv, EachForItself, OneSpawner
  <2>4. CASE usecs <= 0
    <3>1. status' = "new"
      BY <2>2, <2>4 DEF UthreadInit, ReturnsAtOnce
    <3> QED BY <2>3, <3>1 DEF ItselfInv, TerminateNeverReturns, Running
  <2>5. CASE ~(usecs <= 0)
    <3>1. SchedulerInit /\ reply' = Reply("init", NoTid, 0)
      BY <2>2, <2>5 DEF UthreadInit, Returns
    <3>2. /\ DOMAIN threads' = {0} /\ currentTid' = 0 /\ pendingDeletionTid' = NoTid
          /\ readyQueue' = <<>> /\ DOMAIN sleepingThreads' = {} /\ status' = "running"
      BY <2>2, <3>1 DEF SchedulerInit, NotStarted
    <3>3. threads'[0].env # "terminate"
      <4>1. NewThread(0) \in ThreadObject /\ SetState(NewThread(0), "RUNNING") \in ThreadObject
        BY ThreadMethods DEF ThreadState
      <4>2. threads'[0] = IncrementQuantumCount(SetState(NewThread(0), "RUNNING"))
        BY <3>1 DEF SchedulerInit
      <4> QED BY <4>1, <4>2, ThreadFields DEF NewThread
    <3>4. ToSet(readyQueue') = {} /\ \A t \in ThreadIds : AtMostOnce(readyQueue', t)
      BY <3>2 DEF ToSet, AtMostOnce
    <3>5. EachWaitsOnce(threads, readyQueue, currentTid)'
      BY <3>2, <3>3, <3>4 DEF EachWaitsOnce
    <3>6. \A t \in ThreadIds : AboutItself(t, frames'[t])
      BY <2>2, FrameTypes DEF AboutItself
    <3> QED BY <2>3, <3>1, <3>2, <3>5, <3>6
            DEF ItselfInv, PendingHasEnded, TerminateNeverReturns, Reply
  <2> QED BY <2>4, <2>5
<1>3. CASE UNCHANGED preemptVars
  <2>1. UNCHANGED <<threads, readyQueue, sleepingThreads, currentTid, pendingDeletionTid, status,
                    reply, callers, frames>>
    BY <1>3 DEF preemptVars, vars
  <2>2. SpawnersInv'
    BY SpawnersKept DEF ItselfInv, EachForItself
  <2> QED BY <2>1, <2>2 DEF ItselfInv, EachForItself, OneSpawner, EachWaitsOnce, PendingHasEnded,
                            AboutItself, Running, TerminateNeverReturns
<1> QED BY <1>1, <1>2, <1>3

LEMMA ItselfInvariant ==
  PreemptSpec /\ EachForItself => [](PreemptTypeOK /\ ItselfInv /\ TerminateNeverReturns)
<1>1. PreemptInit /\ EachForItself => ItselfInv /\ TerminateNeverReturns
  BY DEF PreemptInit, Init, ItselfInv, SpawnersInv, TerminateNeverReturns, Running
<1>2. PreemptTypeOK /\ PreemptInv /\ ItselfInv /\ TerminateNeverReturns /\ [PreemptNext]_preemptVars
        => (ItselfInv /\ TerminateNeverReturns)'
  BY SchedulerAssumption, ItselfKept
<1> QED BY <1>1, <1>2, PreemptInvariant, PTL DEF PreemptSpec

(* As long as one thread spawns and each blocks and ends only itself, no   *)
(* signal between the steps of these calls makes the library use a Thread  *)
(* that is gone, or go on running one that has just been deleted.          *)
THEOREM NoCrashForItself == PreemptSpec /\ EachForItself => []NeverCrashes
<1>1. ItselfInv => NeverCrashes
  BY DEF ItselfInv, NeverCrashes
<1> QED BY <1>1, ItselfInvariant, PTL

(* With such clients terminate does not return to whoever ended itself,    *)
(* even when others end themselves before its Thread is deleted.           *)
THEOREM NoReturnForItself == PreemptSpec /\ EachForItself => []TerminateNeverReturns
BY ItselfInvariant, PTL

(* With such clients the ready queue names no thread that is gone.         *)
THEOREM DeletedIsForgottenForItself == PreemptSpec /\ EachForItself => []DeletedIsForgotten
<1>1. ItselfInv => DeletedIsForgotten
  BY DEF ItselfInv, EachWaitsOnce, DeletedIsForgotten, Queued
<1> QED BY <1>1, ItselfInvariant, PTL

-----------------------------------------------------------------------------
(* Clients in which a thread ends or blocks none but itself; ending main,  *)
(* which ends the process, is left to everyone.                            *)
(*                                                                         *)
(* Only terminate and block of another thread take it off the queue, and a *)
(* call about its own thread always finds it RUNNING.  So whoever waits    *)
(* stays queued, though sleepers and early resumes may queue it twice, and *)
(* whoever is not queued has ended itself.                                 *)

NobodyTakenOff == callers["terminate_other"] = {} /\ callers["block_other"] = {}

(* The call that thread t is in will take nobody off the queue.            *)
LeavesQueued(t, f) ==
  /\ f.at \notin {"purged", "unqueued", "marked"}
  /\ f.at = "terminate" => f.tid \in {0, t}
  /\ f.at \in {"block", "blocking"} => f.tid = t
  /\ f.at = "blocking" => f.seen = "RUNNING"

WaitsOrHasEnded(table, queue, running) ==
  \A t \in DOMAIN table \ {running} : t \in ToSet(queue) \/ table[t].env = "terminate"

UntakenInv ==
  /\ NobodyTakenOff
  /\ Running =>
       /\ WaitsOrHasEnded(threads, readyQueue, currentTid)
       /\ \A t \in ThreadIds : LeavesQueued(t, frames[t])

(* No step starts a call that will take another thread off the queue.      *)
LEMMA NobodyReaches ==
  ASSUME SchedulerAssumption, PreemptTypeOK, PreemptInv, UntakenInv, Running, PreemptNext
  PROVE  callers' = callers /\ \A t \in ThreadIds : LeavesQueued(t, frames'[t])
<1> DEFINE Fine == callers' = callers /\ \A t \in ThreadIds : LeavesQueued(t, frames'[t])
<1>1. /\ status = "running" /\ currentTid \in ThreadIds
      /\ \A t \in DOMAIN threads : t \in ThreadIds
      /\ frame \in Frame
      /\ frame = frames[currentTid]
      /\ frame.handlers = 0 => threads[currentTid].state = "RUNNING"
  <2>1. frame.handlers = 0 => threads[currentTid].state = "RUNNING"
    BY DEF Running, PreemptInv, FramesCore
  <2> QED BY <2>1 DEF Running, PreemptTypeOK, TypeOK, TableOK, frame
<1>2. /\ \A t \in ThreadIds : LeavesQueued(t, frames[t])
      /\ LeavesQueued(currentTid, frame)
  BY <1>1 DEF UntakenInv
<1>3. ASSUME NEW own \in Frame, NEW replaced, FramesBecome(own, replaced),
             LeavesQueued(currentTid, own)
      PROVE  Fine
  <2>1. LeavesQueued(currentTid, UserFrame) /\ UserFrame.at = "user"
    BY FrameTypes DEF LeavesQueued
  <2>2. \A t \in ThreadIds :
          \/ frames'[t] = UserFrame
          \/ SameCall(frames'[t], frames[t])
          \/ t = currentTid /\ SameCall(frames'[t], own)
    BY <1>3, FramesAfter
  <2> QED BY <1>2, <1>3, <2>1, <2>2 DEF LeavesQueued, SameCall, FramesBecome
<1>4. ASSUME NEW replaced, FramesBecome(UserFrame, replaced) PROVE Fine
  <2>1. UserFrame \in Frame /\ LeavesQueued(currentTid, UserFrame)
    BY FrameTypes DEF LeavesQueued
  <2> QED BY <1>3, <1>4, <2>1
<1>5. Ends => Fine
  BY <1>4 DEF Ends
<1>6. ASSUME NEW place \in Places, NEW tid \in ThreadIds, NEW seen \in ThreadState,
             GoesOnTo(place, tid, seen), LeavesQueued(currentTid, FrameAt(place, tid, seen))
      PROVE  Fine
  BY <1>3, <1>6, FrameTypes DEF GoesOnTo
<1>7. ASSUME NEW place \in {"spawn", "resume", "resuming", "get_quantums"}, NEW tid \in ThreadIds,
             NEW seen \in ThreadState, GoesOnTo(place, tid, seen)
      PROVE  Fine
  <2>1. place \in Places /\ LeavesQueued(currentTid, FrameAt(place, tid, seen))
    BY FrameTypes DEF Places, LeavesQueued
  <2> QED BY <1>6, <1>7, <2>1
<1>8. {"READY", "RUNNING", "BLOCKED"} = ThreadState
  BY DEF ThreadState
<1>9. ASSUME NEW n \in 0 .. MaxHandlers, FramesBecome([frame EXCEPT !.handlers = n], {}) PROVE Fine
  <2> DEFINE own == [frame EXCEPT !.handlers = n]
  <2>1. frame \in Frame
    BY <1>1
  <2>2. own \in Frame /\ own.at = frame.at /\ own.tid = frame.tid /\ own.seen = frame.seen
    BY <2>1, FrameUpdates
  <2>3. FramesBecome(own, {})
    BY <1>9
  <2> HIDE DEF own
  <2> QED BY <1>2, <1>3, <2>2, <2>3 DEF LeavesQueued
<1>10. frame.handlers \in 0 .. MaxHandlers /\ MaxHandlers \in Nat
  BY <1>1, FrameUpdates, PreemptAssumption
<1>11. SignalArrives => Fine
  <2>1. SignalArrives => frame.handlers + 1 \in 0 .. MaxHandlers
    BY <1>10 DEF SignalArrives
  <2> QED BY <1>9, <2>1 DEF SignalArrives
<1>12. HandlerSwitches => Fine
  <2>1. HandlerSwitches => frame.handlers - 1 \in 0 .. MaxHandlers
    BY <1>10 DEF HandlerSwitches
  <2> QED BY <1>9, <2>1 DEF HandlerSwitches
<1>13. SpawnChooses => Fine
  <2>1. NextAvailableTid # NoTid => NextAvailableTid \in ThreadIds
    BY AvailableTid
  <2> QED BY <1>5, <1>7, <1>8, <2>1 DEF SpawnChooses
<1>14. SpawnCreates => Fine
  BY <1>4 DEF SpawnCreates
<1>15. ASSUME NEW tid \in TidArgs, TerminateFinds(tid) PROVE Fine
  <2>1. tid \in {0, currentTid}
    <3>1. TerminateKind(tid) # "terminate_other"
      BY <1>15 DEF TerminateFinds, Enters, UntakenInv, NobodyTakenOff
    <3> QED BY <3>1 DEF TerminateKind
  <2>2. CASE tid \in DOMAIN threads /\ GoesOnTo("terminate", tid, "READY")
    <3>1. "terminate" \in Places /\ LeavesQueued(currentTid, FrameAt("terminate", tid, "READY"))
      BY <2>1, FrameTypes DEF Places, LeavesQueued
    <3> QED BY <1>1, <1>6, <1>8, <2>2, <3>1
  <2> QED BY <1>5, <1>15, <2>2 DEF TerminateFinds
<1>16. ASSUME TerminateActs PROVE Fine
  <2>1. frame.tid \in {0, currentTid} /\ frame.handlers = 0
    BY <1>2, <1>16 DEF TerminateActs, RunsAt, LeavesQueued
  <2>2. Ends
    BY <1>1, <1>16, <2>1 DEF TerminateActs
  <2> QED BY <1>5, <2>2
<1>17. ASSUME NEW tid \in TidArgs, BlockFinds(tid) PROVE Fine
  <2>1. tid = currentTid
    BY <1>17 DEF BlockFinds, Enters, UntakenInv, NobodyTakenOff
  <2>2. CASE GoesOnTo("block", tid, "READY")
    <3>1. "block" \in Places /\ LeavesQueued(currentTid, FrameAt("block", tid, "READY"))
      BY <2>1, FrameTypes DEF Places, LeavesQueued
    <3> QED BY <1>1, <1>6, <1>8, <2>1, <2>2, <3>1
  <2> QED BY <1>5, <1>17, <2>2 DEF BlockFinds
<1>18. ASSUME BlockReads PROVE Fine
  <2>1. frame.tid = currentTid /\ threads[currentTid].state = "RUNNING"
    BY <1>1, <1>2, <1>18 DEF BlockReads, RunsAt, LeavesQueued
  <2>2. CASE GoesOnTo("blocking", currentTid, "RUNNING")
    <3>1. "blocking" \in Places
          /\ LeavesQueued(currentTid, FrameAt("blocking", currentTid, "RUNNING"))
      BY FrameTypes DEF Places, LeavesQueued
    <3> QED BY <1>1, <1>6, <1>8, <2>2, <3>1
  <2> QED BY <1>5, <1>18, <2>1, <2>2 DEF BlockReads
<1>19. BlockActs => Fine
  <2>1. BlockActs => frame.seen = "RUNNING"
    BY <1>2 DEF BlockActs, RunsAt, LeavesQueued
  <2> QED BY <1>5, <2>1 DEF BlockActs
<1>20. ~TerminateDeletes /\ ~BlockMarks /\ ~BlockFlags
  BY <1>2 DEF TerminateDeletes, BlockMarks, BlockFlags, RunsAt, LeavesQueued
<1>21. ASSUME NEW tid \in TidArgs, ResumeFinds(tid) \/ GetQuantumsFinds(tid) PROVE Fine
  <2>1. \/ Ends
        \/ tid \in ThreadIds /\ \E place \in {"resume", "get_quantums"} : GoesOnTo(place, tid, "READY")
    BY <1>1, <1>21 DEF ResumeFinds, GetQuantumsFinds
  <2> QED BY <1>5, <1>7, <1>8, <2>1
<1>22. ResumeReads => Fine
  <2>1. ResumeReads => Ends \/ (frame.tid \in ThreadIds /\ GoesOnTo("resuming", frame.tid, "BLOCKED"))
    BY <1>1 DEF ResumeReads
  <2> QED BY <1>5, <1>7, <1>8, <2>1
<1>23. /\ ResumeActs \/ GetQuantumsReads => Fine
       /\ \A n : SleepCall(n) => Fine
  BY <1>5 DEF ResumeActs, GetQuantumsReads, SleepCall
<1>24. \A usecs : ~InitCall(usecs)
  BY <1>1 DEF InitCall, UthreadInit
<1> HIDE DEF Fine
<1>25. Fine
  BY <1>11, <1>12, <1>13, <1>14, <1>15, <1>16, <1>17, <1>18, <1>19, <1>20, <1>21, <1>22, <1>23,
     <1>24
  DEF PreemptNext
<1> QED BY <1>25 DEF Fine

(* Whatever else a step does to the tables, who waits goes on waiting.     *)
LEMMA EffectsKeepWaiting ==
  ASSUME SchedulerAssumption, PreemptTypeOK, SchedulingCore, status = "running", Effects,
         WaitsOrHasEnded(threads, readyQueue, currentTid),
         \A t \in ThreadIds : LeavesQueued(t, frames'[t]),
         status' = "running"
  PROVE  WaitsOrHasEnded(threads', readyQueue', currentTid')
<1> DEFINE Wait == WaitsOrHasEnded(threads', readyQueue', currentTid')
<1>1. /\ TypeOK
      /\ readyQueue \in Seq(ThreadIds)
      /\ currentTid \in ThreadIds /\ currentTid \in DOMAIN threads
      /\ \A t \in DOMAIN threads : t \in ThreadIds /\ threads[t] \in ThreadObject
  BY DEF PreemptTypeOK, TypeOK, TableOK, SchedulingCore
<1>2. \A t \in DOMAIN threads \ {currentTid} : t \in ToSet(readyQueue) \/ threads[t].env = "terminate"
  BY DEF WaitsOrHasEnded
\* The running thread goes on and nobody leaves the queue.
<1>3. ASSUME currentTid' = currentTid, ToSet(readyQueue) \subseteq ToSet(readyQueue'),
             \A t \in DOMAIN threads' :
               \/ t \in DOMAIN threads /\ threads'[t].env = threads[t].env
               \/ t \in ToSet(readyQueue')
      PROVE  Wait
  BY <1>2, <1>3 DEF WaitsOrHasEnded
<1>4. ~Stops
  BY DEF Stops
<1>5. Rests => Wait
  BY <1>3 DEF Rests, GoesOn
<1>6. ASSUME Wakes PROVE Wait
  <2>1. PICK order \in SetToSeqs(Woken) : readyQueue' = readyQueue \o order
    BY <1>6 DEF Wakes
  <2>2. Woken \subseteq ThreadIds
    BY <1>1 DEF Woken, Due, TypeOK
  <2>3. order \in Seq(ThreadIds)
    BY <2>2, WakingOrder
  <2>4. ToSet(readyQueue) \subseteq ToSet(readyQueue')
    BY <1>1, <2>1, <2>3, Joined
  <2>5. DOMAIN threads' = DOMAIN threads
        /\ \A t \in DOMAIN threads : threads'[t] \in {threads[t], SetState(threads[t], "READY")}
    BY <1>6 DEF Wakes, Awakened
  <2>6. \A t \in DOMAIN threads : SetState(threads[t], "READY").env = threads[t].env
    BY <1>1, ThreadFields
  <2>7. \A t \in DOMAIN threads : threads'[t].env = threads[t].env
    BY <2>5, <2>6
  <2> QED BY <1>3, <1>6, <2>4, <2>5, <2>7 DEF Wakes, GoesOn
<1>7. ASSUME NEW tid \in ThreadIds, Deletes(tid) PROVE Wait
  <2>1. \A t \in DOMAIN threads' : t \in DOMAIN threads /\ threads'[t] = threads[t]
    BY <1>7 DEF Deletes, Without
  <2> QED BY <1>3, <1>7, <2>1 DEF Deletes, GoesOn
<1>8. ASSUME NEW tid \in ThreadIds, readyQueue' = Append(readyQueue, tid)
      PROVE  ToSet(readyQueue') = ToSet(readyQueue) \cup {tid}
  BY <1>1, <1>8, Pushed
<1>9. ASSUME NEW tid \in ThreadIds, Sets(tid) PROVE Wait
  <2>1. ToSet(readyQueue) \subseteq ToSet(readyQueue')
    BY <1>8, <1>9 DEF Sets
  <2>2. DOMAIN threads' = DOMAIN threads /\ \A t \in DOMAIN threads : threads'[t].env = threads[t].env
    BY <1>9 DEF Sets
  <2> QED BY <1>3, <1>9, <2>1, <2>2 DEF Sets, GoesOn
<1>10. ASSUME NEW tid \in ThreadIds, Creates(tid) PROVE Wait
  <2>1. ToSet(readyQueue') = ToSet(readyQueue) \cup {tid}
    BY <1>8, <1>10 DEF Creates
  <2>2. \A t \in DOMAIN threads' : t = tid \/ (t \in DOMAIN threads /\ threads'[t] = threads[t])
    BY <1>10 DEF Creates, With
  <2> QED BY <1>3, <1>10, <2>1, <2>2 DEF Creates, GoesOn
<1>11. ASSUME NEW own \in Frame, FramesBecome(own, {}), NEW tid, TakesOff(tid)
       PROVE  own.at \notin {"purged", "unqueued"}
  <2>1. currentTid \in DOMAIN threads'
    BY <1>1, <1>11 DEF TakesOff
  <2>2. SameCall(frames'[currentTid], own)
    BY <1>1, <1>11, <2>1, FramesAfter
  <2> QED BY <1>1, <2>2 DEF SameCall, LeavesQueued
<1>12. ASSUME Switches PROVE Wait
  <2>1. PICK sleepers :
          \E thread \in ThreadObject, pending \in ThreadIds \cup {NoTid},
             site \in {"timer", "terminate", "block", "sleep"} :
            GivesUp(thread, sleepers, pending, site)
    BY <1>12 DEF Switches
  <2>2. PICK thread \in ThreadObject, pending \in ThreadIds \cup {NoTid},
             site \in {"timer", "terminate", "block", "sleep"} :
          GivesUp(thread, sleepers, pending, site)
    BY <2>1
  <2> DEFINE table == [threads EXCEPT ![currentTid] = thread]
  <2>3. /\ TableOK(table) /\ DOMAIN table = DOMAIN threads
        /\ table[currentTid] = thread
        /\ \A t \in DOMAIN threads \ {currentTid} : table[t] = threads[t]
        /\ MainReady(table, readyQueue, sleepers, pending)
        /\ PendingBehindMain(table, readyQueue, pending)
        /\ DoContextSwitch(table, readyQueue, sleepers, pending, site)
    BY <1>1, <2>2, PreparedSwitch
  <2> HIDE DEF table
  <2>4. pending = currentTid => thread.state = "READY" /\ site = "terminate"
    BY <2>2 DEF GivesUp, SchedulingCore
  <2>5. \A t \in DOMAIN table \ {currentTid} : table[t].state # "RUNNING"
    BY <2>3 DEF SchedulingCore
  <2>6. SwitchedFrom(table, readyQueue, pending, site)
    BY <1>1, <2>3, <2>4, <2>5, SwitchOutcome
  <2>7. /\ {currentTid'} \cup ToSet(readyQueue') =
             ToSet(readyQueue) \cup (IF pending = currentTid THEN {} ELSE {currentTid})
        /\ DOMAIN threads' \subseteq DOMAIN threads
        /\ \A t \in DOMAIN threads' : threads'[t].env = IF t = currentTid THEN site ELSE threads[t].env
    BY <2>3, <2>6 DEF SwitchedFrom
  <2>8. ASSUME NEW t \in DOMAIN threads', t # currentTid'
        PROVE  t \in ToSet(readyQueue') \/ threads'[t].env = "terminate"
    <3>1. CASE t = currentTid
      BY <2>4, <2>7, <2>8, <3>1
    <3>2. CASE t # currentTid
      BY <1>2, <2>7, <2>8, <3>2
    <3> QED BY <3>1, <3>2
  <2> QED BY <2>8 DEF WaitsOrHasEnded
<1> HIDE DEF Wait
<1>13. Wait
  BY <1>4, <1>5, <1>6, <1>7, <1>9, <1>10, <1>11, <1>12 DEF Effects
<1> QED BY <1>13 DEF Wait

LEMMA UntakenKept ==
  ASSUME SchedulerAssumption, PreemptTypeOK, PreemptInv, UntakenInv, [PreemptNext]_preemptVars
  PROVE  UntakenInv'
<1>1. CASE PreemptNext /\ Running
  <2>1. callers' = callers /\ \A t \in ThreadIds : LeavesQueued(t, frames'[t])
    BY <1>1, NobodyReaches
  <2>2. Effects
    BY <1>1, EveryStepHasEffects
  <2>3. status' = "running" => WaitsOrHasEnded(threads, readyQueue, currentTid)'
    BY <1>1, <2>1, <2>2, EffectsKeepWaiting DEF UntakenInv, PreemptInv, Running
  <2> QED BY <2>1, <2>3 DEF UntakenInv, NobodyTakenOff, Running
<1>2. CASE PreemptNext /\ ~Running
  <2>1. PICK usecs \in InitArgs : InitCall(usecs)
    BY <1>2
    DEF PreemptNext, SignalArrives, HandlerSwitches, SpawnChooses, SpawnCreates, TerminateFinds,
        TerminateActs, TerminateDeletes, BlockFinds, BlockReads, BlockActs, BlockMarks, BlockFlags,
        ResumeFinds, ResumeReads, ResumeActs, SleepCall, GetQuantumsFinds, GetQuantumsReads,
        Enters, RunsAt
  <2>2. /\ status = "new" /\ NotStarted /\ frames = [t \in ThreadIds |-> UserFrame]
        /\ UNCHANGED <<callers, frames>>
        /\ UthreadInit(usecs) /\ NobodyTakenOff'
    BY <2>1 DEF InitCall, UthreadInit, PreemptInv, UntakenInv, NobodyTakenOff
  <2>3. status' = "running" => WaitsOrHasEnded(threads, readyQueue, currentTid)'
    <3>1. CASE usecs <= 0
      BY <2>2, <3>1 DEF UthreadInit, ReturnsAtOnce
    <3>2. CASE ~(usecs <= 0)
      <4>1. SchedulerInit
        BY <2>2, <3>2 DEF UthreadInit
      <4>2. DOMAIN threads' = {0} /\ currentTid' = 0
        BY <2>2, <4>1 DEF SchedulerInit, NotStarted
      <4> QED BY <4>2 DEF WaitsOrHasEnded
    <3> QED BY <3>1, <3>2
  <2>4. \A t \in ThreadIds : LeavesQueued(t, frames'[t])
    BY <2>2, FrameTypes DEF LeavesQueued
  <2> QED BY <2>2, <2>3, <2>4 DEF UntakenInv, Running
<1>3. CASE UNCHANGED preemptVars
  <2>1. UNCHANGED <<threads, readyQueue, currentTid, status, callers, frames>>
    BY <1>3 DEF preemptVars, vars
  <2> QED BY <2>1 DEF UntakenInv, NobodyTakenOff, WaitsOrHasEnded, LeavesQueued, Running
<1> QED BY <1>1, <1>2, <1>3

(* As long as a thread ends or blocks none but itself, no signal at any    *)
(* point of a call loses a thread: each one runs, waits in the queue or    *)
(* has ended, however often it sleeps and however early it is resumed.     *)
THEOREM NobodyMislaidUnlessTakenOff == PreemptSpec /\ NobodyTakenOff => []NoThreadMislaid
<1>1. PreemptInit /\ NobodyTakenOff => UntakenInv
  BY DEF PreemptInit, Init, UntakenInv, Running
<1>2. PreemptTypeOK /\ PreemptInv /\ UntakenInv /\ [PreemptNext]_preemptVars => UntakenInv'
  BY SchedulerAssumption, UntakenKept
<1>3. UntakenInv => NoThreadMislaid
  BY DEF UntakenInv, WaitsOrHasEnded, NoThreadMislaid, Queued, Zombies
<1> QED BY <1>1, <1>2, <1>3, PreemptInvariant, PTL DEF PreemptSpec

-----------------------------------------------------------------------------
(* Clients in which a single thread spawns and none ends another.          *)
(*                                                                         *)
(* Threads may block and resume one another as they like.  block takes its *)
(* thread off the queue a step before it marks it BLOCKED, and only the    *)
(* signal comes in between: nobody ends the thread that is blocking.  It   *)
(* then marks the thread it has taken off, or crashes on the pointer to    *)
(* one that has ended: no second spawn has put another Thread in its place *)
(* while it was still there.                                               *)

NoneEndsAnother == OneSpawner /\ callers["terminate_other"] = {}

(* The call that thread t is in ends nobody else, and its pointer leads to *)
(* the Thread in the table or to one that is freed.                        *)
PointsRight(table, t, f) ==
  /\ f.at # "user" => t \in DOMAIN table
  /\ f.at # "purged"
  /\ f.at = "terminate" => f.tid \in {0, t}
  /\ HoldsPointer(f) => f.object = "freed" \/ (f.object = "table" /\ f.tid \in DOMAIN table)

WaitsOrIsHeld(table, queue, running, held) ==
  \A t \in DOMAIN table \ {running} :
    t \in ToSet(queue) \/ table[t].state = "BLOCKED" \/ table[t].env = "terminate" \/ t \in held

HeldInv ==
  /\ NoneEndsAnother
  /\ Running =>
       /\ \A t \in ThreadIds : PointsRight(threads, t, frames[t])
       /\ pendingDeletionTid # NoTid => frames[pendingDeletionTid].at = "user"
       /\ WaitsOrIsHeld(threads, readyQueue, currentTid, Purging)

(* The running thread is still blocking the thread it has taken off the    *)
(* queue, or has marked it.                                                *)
GoesOnBlocking ==
  frame.at = "unqueued" =>
    \/ frames'[currentTid].at = "unqueued" /\ frames'[currentTid].tid = frame.tid
    \/ frame.tid \in DOMAIN threads' => threads'[frame.tid].state = "BLOCKED"

LEMMA FramesPointRight ==
  ASSUME PreemptTypeOK, \A t \in ThreadIds : PointsRight(threads, t, frames[t]),
         NEW own \in Frame, NEW replaced, FramesBecome(own, replaced),
         replaced \cap DOMAIN threads = {}, PointsRight(threads, currentTid, own)
  PROVE  /\ callers' = callers
         /\ \A t \in ThreadIds : PointsRight(threads', t, frames'[t])
<1>1. UserFrame.at = "user"
  BY FrameTypes
<1>2. ASSUME NEW t \in DOMAIN threads', NEW f \in Frame, PointsRight(threads, t, f)
      PROVE  PointsRight(threads', t, Aged(f, replaced))
  <2>1. SameCall(Aged(f, replaced), f)
    BY <1>2, AgedFrame
  <2>2. HoldsPointer(Aged(f, replaced)) <=> HoldsPointer(f)
    BY <2>1 DEF SameCall, HoldsPointer
  <2>3. [f EXCEPT !.object = "freed"].object = "freed"
    BY <1>2 DEF Frame
  <2>4. HoldsPointer(f) /\ f.object = "table" => f.tid \notin replaced
    BY <1>2 DEF PointsRight
  <2>5. HoldsPointer(f) => \/ Aged(f, replaced).object = "freed"
                           \/ Aged(f, replaced) = f /\ f.object = "table" /\ f.tid \in DOMAIN threads'
    BY <1>2, <2>3, <2>4 DEF Aged, PointsRight
  <2> QED BY <1>2, <2>1, <2>2, <2>5 DEF PointsRight, SameCall
<1>3. \A t \in ThreadIds : frames[t] \in Frame
  BY DEF PreemptTypeOK
<1>4. \A t \in ThreadIds :
        \/ frames'[t] = UserFrame
        \/ t \in DOMAIN threads' /\ t = currentTid /\ frames'[t] = Aged(own, replaced)
        \/ t \in DOMAIN threads' /\ frames'[t] = Aged(frames[t], replaced)
  BY DEF FramesBecome
<1>5. \A t : PointsRight(threads', t, UserFrame)
  BY <1>1 DEF PointsRight, HoldsPointer
<1> QED BY <1>2, <1>3, <1>4, <1>5 DEF FramesBecome

(* No step starts a call that will end another thread, or leaves one       *)
(* between the queue and its mark.                                         *)
LEMMA NobodyIsLetGo ==
  ASSUME SchedulerAssumption, PreemptTypeOK, PreemptInv, SpawnersInv, HeldInv, Running, Running',
         PreemptNext
  PROVE  /\ callers' = callers
         /\ \A t \in ThreadIds : PointsRight(threads', t, frames'[t])
         /\ pendingDeletionTid' = currentTid => frames'[currentTid].at = "user"
         /\ GoesOnBlocking
<1> DEFINE Fine == /\ callers' = callers
                   /\ \A t \in ThreadIds : PointsRight(threads', t, frames'[t])
                   /\ pendingDeletionTid' = currentTid => frames'[currentTid].at = "user"
                   /\ GoesOnBlocking
<1>1. /\ status = "running" /\ status' = "running"
      /\ currentTid \in ThreadIds /\ currentTid \in DOMAIN threads
      /\ currentTid # pendingDeletionTid
      /\ \A t \in DOMAIN threads : t \in ThreadIds /\ threads[t] \in ThreadObject
      /\ frame \in Frame
      /\ frame = frames[currentTid]
      /\ frame.handlers = 0 => threads[currentTid].state = "RUNNING"
      /\ FrameFits(currentTid, frame)
  <2>1. /\ frame.handlers = 0 => threads[currentTid].state = "RUNNING"
        /\ currentTid \in DOMAIN threads /\ currentTid # pendingDeletionTid
        /\ FrameFits(currentTid, frame)
    BY DEF Running, PreemptInv, FramesCore, SchedulingCore, frame
  <2> QED BY <2>1 DEF Running, PreemptTypeOK, TypeOK, TableOK, frame
<1>2. /\ \A t \in ThreadIds : PointsRight(threads, t, frames[t])
      /\ PointsRight(threads, currentTid, frame)
  BY <1>1 DEF HeldInv
<1>3. ASSUME NEW own \in Frame, NEW replaced, FramesBecome(own, replaced),
             replaced \cap DOMAIN threads = {}, PointsRight(threads, currentTid, own),
             pendingDeletionTid' # currentTid \/ own.at = "user", GoesOnBlocking
      PROVE  Fine
  <2>1. callers' = callers /\ \A t \in ThreadIds : PointsRight(threads', t, frames'[t])
    BY <1>2, <1>3, FramesPointRight
  <2>2. own.at = "user" => frames'[currentTid].at = "user"
    BY <1>1, <1>3, FramesAfter, FrameTypes DEF SameCall
  <2> QED BY <1>3, <2>1, <2>2
<1>4. ASSUME NEW replaced, FramesBecome(UserFrame, replaced), replaced \cap DOMAIN threads = {},
             frame.at # "unqueued"
      PROVE  Fine
  <2>1. UserFrame \in Frame /\ UserFrame.at = "user"
        /\ PointsRight(threads, currentTid, UserFrame)
    BY FrameTypes DEF PointsRight, HoldsPointer
  <2> QED BY <1>3, <1>4, <2>1 DEF GoesOnBlocking
<1>5. Ends /\ frame.at # "unqueued" => Fine
  BY <1>4 DEF Ends
<1>6. ASSUME NEW place \in Places \ {"user", "purged"}, NEW tid \in ThreadIds, NEW seen \in ThreadState,
             GoesOnTo(place, tid, seen), frame.at # "unqueued",
             UNCHANGED pendingDeletionTid,
             place = "terminate" => tid \in {0, currentTid},
             place # "spawn" => tid \in DOMAIN threads
      PROVE  Fine
  <2> DEFINE own == FrameAt(place, tid, seen)
  <2>1. own \in Frame /\ own.at = place /\ own.tid = tid
    BY FrameTypes
  <2>2. own.object = "table"
    BY DEF FrameAt
  <2>3. FramesBecome(own, {})
    BY <1>6 DEF GoesOnTo
  <2> HIDE DEF own
  <2>4. PointsRight(threads, currentTid, own)
    BY <1>1, <1>6, <2>1, <2>2 DEF PointsRight, HoldsPointer
  <2> QED BY <1>1, <1>3, <1>6, <2>1, <2>3, <2>4 DEF GoesOnBlocking
<1>7. {"READY", "RUNNING", "BLOCKED"} = ThreadState
  BY DEF ThreadState
<1>8. Looks => UNCHANGED pendingDeletionTid
  BY DEF Looks
\* The handler leaves the call it has interrupted where it is.
<1>9. ASSUME NEW n \in 0 .. MaxHandlers, FramesBecome([frame EXCEPT !.handlers = n], {}),
             pendingDeletionTid' # currentTid, currentTid \in DOMAIN threads'
      PROVE  Fine
  <2> DEFINE own == [frame EXCEPT !.handlers = n]
  <2>1. frame \in Frame
    BY <1>1
  <2>2. own \in Frame /\ own.at = frame.at /\ own.tid = frame.tid /\ own.seen = frame.seen
    BY <2>1, FrameUpdates
  <2>3. own.object = frame.object
    BY <2>1 DEF Frame
  <2>4. FramesBecome(own, {})
    BY <1>9
  <2> HIDE DEF own
  <2>5. PointsRight(threads, currentTid, own)
    BY <1>2, <2>2, <2>3 DEF PointsRight, HoldsPointer
  <2>6. SameCall(frames'[currentTid], own)
    BY <1>1, <1>9, <2>2, <2>4, FramesAfter
  <2>7. GoesOnBlocking
    BY <2>2, <2>6 DEF GoesOnBlocking, SameCall
  <2> QED BY <1>3, <1>9, <2>2, <2>4, <2>5, <2>7
<1>10. frame.handlers \in 0 .. MaxHandlers /\ MaxHandlers \in Nat
  <2>1. frame \in Frame
    BY <1>1
  <2> QED BY <2>1, FrameUpdates, PreemptAssumption
<1>11. ASSUME SignalArrives PROVE Fine
  <2>1. frame.handlers + 1 \in 0 .. MaxHandlers
        /\ FramesBecome([frame EXCEPT !.handlers = frame.handlers + 1], {})
    BY <1>10, <1>11 DEF SignalArrives
  <2>2. threads' = Awakened /\ UNCHANGED pendingDeletionTid
    BY <1>1, <1>11 DEF SignalArrives, Crash
  <2> QED BY <1>1, <1>9, <2>1, <2>2 DEF Awakened
<1>12. ASSUME HandlerSwitches PROVE Fine
  <2>1. frame.handlers > 0 /\ FramesBecome([frame EXCEPT !.handlers = frame.handlers - 1], {})
        /\ DoContextSwitch(threads, readyQueue, sleepingThreads, pendingDeletionTid, "timer")
    BY <1>12 DEF HandlerSwitches
  <2>2. frame.handlers - 1 \in 0 .. MaxHandlers
    BY <1>10, <2>1
  <2>3. TableOK(threads)
    BY DEF PreemptTypeOK, TypeOK, TableOK
  <2>4. /\ DOMAIN threads \ {pendingDeletionTid} \subseteq DOMAIN threads'
        /\ pendingDeletionTid' \in {NoTid, pendingDeletionTid}
    BY <1>1, <2>1, <2>3, SwitchDeletes
  <2>5. pendingDeletionTid' # currentTid /\ currentTid \in DOMAIN threads'
    BY <1>1, <2>4 DEF ThreadIds, NoTid
  <2> QED BY <1>9, <2>1, <2>2, <2>5
<1>13. ASSUME SpawnChooses PROVE Fine
  <2>1. frame.at # "unqueued"
    BY <1>13 DEF SpawnChooses, Enters, RunsAt
  <2>2. NextAvailableTid # NoTid => NextAvailableTid \in ThreadIds
    BY AvailableTid
  <2>3. \/ Ends
        \/ NextAvailableTid # NoTid /\ Looks /\ GoesOnTo("spawn", NextAvailableTid, "READY")
    BY <1>13 DEF SpawnChooses
  <2> QED BY <1>5, <1>6, <1>7, <1>8, <2>1, <2>2, <2>3 DEF Places
<1>14. ASSUME SpawnCreates PROVE Fine
  <2>1. frame.at = "spawn" /\ FramesBecome(UserFrame, {frame.tid})
    BY <1>14 DEF SpawnCreates, RunsAt
  <2>2. frame.tid \notin DOMAIN threads
    BY <1>1, <2>1 DEF SpawnersInv
  <2> QED BY <1>4, <2>1, <2>2
<1>15. ASSUME NEW tid \in TidArgs, TerminateFinds(tid) PROVE Fine
  <2>1. frame.at # "unqueued"
    BY <1>15 DEF TerminateFinds, Enters, RunsAt
  <2>2. tid \in {0, currentTid}
    <3>1. TerminateKind(tid) # "terminate_other"
      BY <1>15 DEF TerminateFinds, Enters, HeldInv, NoneEndsAnother
    <3> QED BY <3>1 DEF TerminateKind
  <2>3. Ends \/ (tid \in DOMAIN threads /\ Looks /\ GoesOnTo("terminate", tid, "READY"))
    BY <1>15 DEF TerminateFinds
  <2> QED BY <1>1, <1>5, <1>6, <1>7, <1>8, <2>1, <2>2, <2>3 DEF Places
<1>16. ASSUME TerminateActs PROVE Fine
  <2>1. frame.at = "terminate" /\ frame.tid \in {0, currentTid} /\ frame.handlers = 0
    BY <1>2, <1>16 DEF TerminateActs, RunsAt, PointsRight
  <2>2. Ends
    BY <1>1, <1>16, <2>1 DEF TerminateActs
  <2> QED BY <1>5, <2>1, <2>2
<1>17. ASSUME NEW tid \in TidArgs, BlockFinds(tid) PROVE Fine
  <2>1. frame.at # "unqueued"
    BY <1>17 DEF BlockFinds, Enters, RunsAt
  <2>2. Ends \/ (tid \in DOMAIN threads /\ Looks /\ GoesOnTo("block", tid, "READY"))
    BY <1>17 DEF BlockFinds
  <2> QED BY <1>1, <1>5, <1>6, <1>7, <1>8, <2>1, <2>2 DEF Places
<1>18. ASSUME BlockReads PROVE Fine
  <2>1. frame.at # "unqueued"
    BY <1>18 DEF BlockReads, RunsAt
  <2>2. \/ Ends
        \/ /\ frame.tid \in DOMAIN threads /\ Looks
           /\ GoesOnTo("blocking", frame.tid, threads[frame.tid].state)
    BY <1>18 DEF BlockReads
  <2>3. frame.tid \in DOMAIN threads => threads[frame.tid].state \in ThreadState
    BY <1>1 DEF ThreadObject
  <2> QED BY <1>1, <1>5, <1>6, <1>8, <2>1, <2>2, <2>3 DEF Places
<1>19. ASSUME BlockActs PROVE Fine
  <2>1. frame.at = "blocking"
    BY <1>19 DEF BlockActs, RunsAt
  <2>2. CASE Ends
    BY <1>5, <2>1, <2>2
  <2>3. CASE Unqueues(frame.tid) /\ FramesBecome([frame EXCEPT !.at = "unqueued"], {})
    <3> DEFINE own == [frame EXCEPT !.at = "unqueued"]
    <3>1. frame \in Frame /\ "unqueued" \in Places
      BY <1>1 DEF Places
    <3>2. own \in Frame /\ own.at = "unqueued" /\ own.tid = frame.tid
      BY <3>1, FrameUpdates
    <3>3. own.object = frame.object
      BY <3>1 DEF Frame
    <3>4. FramesBecome(own, {}) /\ UNCHANGED pendingDeletionTid
      BY <2>3 DEF Unqueues
    <3> HIDE DEF own
    <3>5. PointsRight(threads, currentTid, own)
      BY <1>1, <1>2, <2>1, <3>2, <3>3 DEF PointsRight, HoldsPointer
    <3> QED BY <1>1, <1>3, <2>1, <3>2, <3>4, <3>5 DEF GoesOnBlocking
  <2> QED BY <1>19, <2>2, <2>3 DEF BlockActs
<1>20. ASSUME BlockMarks PROVE Fine
  <2> DEFINE own == [frame EXCEPT !.at = "marked"]
  <2>1. frame.at = "unqueued" /\ FramesBecome(own, {})
    BY <1>20 DEF BlockMarks, RunsAt
  <2>2. frame.object # "freed" /\ Stores(frame.tid, SetState(threads[frame.tid], "BLOCKED"))
    BY <1>1, <1>20 DEF BlockMarks, Crash
  <2>3. frame.object = "table" /\ frame.tid \in DOMAIN threads
    BY <1>2, <2>1, <2>2 DEF PointsRight, HoldsPointer
  <2>4. threads' = [threads EXCEPT ![frame.tid] = SetState(threads[frame.tid], "BLOCKED")]
        /\ UNCHANGED pendingDeletionTid
    BY <2>2, <2>3 DEF Stores
  <2>5. SetState(threads[frame.tid], "BLOCKED").state = "BLOCKED"
    BY <1>1, <2>3, ThreadFields DEF ThreadState
  <2>6. threads'[frame.tid].state = "BLOCKED"
    BY <2>3, <2>4, <2>5
  <2>7. frame \in Frame /\ "marked" \in Places
    BY <1>1 DEF Places
  <2>8. own \in Frame /\ own.at = "marked" /\ own.tid = frame.tid
    BY <2>7, FrameUpdates
  <2>9. own.object = frame.object
    BY <2>7 DEF Frame
  <2> HIDE DEF own
  <2>10. PointsRight(threads, currentTid, own)
    BY <1>1, <2>3, <2>8, <2>9 DEF PointsRight, HoldsPointer
  <2>11. pendingDeletionTid' # currentTid
    BY <1>1, <2>4
  <2> QED BY <1>3, <2>1, <2>6, <2>8, <2>10, <2>11 DEF GoesOnBlocking
<1>21. ~TerminateDeletes
  BY <1>2 DEF TerminateDeletes, RunsAt, PointsRight
<1>22. ASSUME NEW tid \in TidArgs, ResumeFinds(tid) PROVE Fine
  <2>1. frame.at # "unqueued"
    BY <1>22 DEF ResumeFinds, Enters, RunsAt
  <2>2. Ends \/ (tid \in DOMAIN threads /\ Looks /\ GoesOnTo("resume", tid, "READY"))
    BY <1>22 DEF ResumeFinds
  <2> QED BY <1>1, <1>5, <1>6, <1>7, <1>8, <2>1, <2>2 DEF Places
<1>23. ASSUME ResumeReads PROVE Fine
  <2>1. frame.at # "unqueued"
    BY <1>23 DEF ResumeReads, RunsAt
  <2>2. Ends \/ (frame.tid \in DOMAIN threads /\ Looks /\ GoesOnTo("resuming", frame.tid, "BLOCKED"))
    BY <1>23 DEF ResumeReads
  <2> QED BY <1>1, <1>5, <1>6, <1>7, <1>8, <2>1, <2>2 DEF Places
<1>24. ASSUME NEW tid \in TidArgs, GetQuantumsFinds(tid) PROVE Fine
  <2>1. frame.at # "unqueued" /\ UNCHANGED pendingDeletionTid
    BY <1>24 DEF GetQuantumsFinds, Enters, RunsAt
  <2>2. Ends \/ (tid \in DOMAIN threads /\ GoesOnTo("get_quantums", tid, "READY"))
    BY <1>24 DEF GetQuantumsFinds
  <2> QED BY <1>1, <1>5, <1>6, <1>7, <2>1, <2>2 DEF Places
<1>25. /\ BlockFlags \/ ResumeActs \/ GetQuantumsReads => Fine
       /\ \A n : SleepCall(n) => Fine
  BY <1>5 DEF BlockFlags, ResumeActs, GetQuantumsReads, SleepCall, Enters, RunsAt
<1>26. \A usecs : ~InitCall(usecs)
  BY <1>1 DEF InitCall, UthreadInit
<1> HIDE DEF Fine
<1>27. Fine
  BY <1>11, <1>12, <1>13, <1>14, <1>15, <1>16, <1>17, <1>18, <1>19, <1>20, <1>21, <1>22, <1>23,
     <1>24, <1>25, <1>26
  DEF PreemptNext
<1> QED BY <1>27 DEF Fine

(* Whatever else a step does to the tables, nobody is lost.                *)
LEMMA EffectsKeepHold ==
  ASSUME SchedulerAssumption, PreemptTypeOK, SchedulingCore, status = "running", status' = "running",
         Effects,
         \A t \in ThreadIds : PointsRight(threads, t, frames[t]),
         pendingDeletionTid # NoTid => frames[pendingDeletionTid].at = "user",
         WaitsOrIsHeld(threads, readyQueue, currentTid, Purging),
         frame.at = "spawn" => frame.tid \notin DOMAIN threads,
         \A t \in ThreadIds : PointsRight(threads', t, frames'[t]),
         pendingDeletionTid' = currentTid => frames'[currentTid].at = "user",
         GoesOnBlocking
  PROVE  /\ pendingDeletionTid' # NoTid => frames'[pendingDeletionTid'].at = "user"
         /\ WaitsOrIsHeld(threads', readyQueue', currentTid', Purging')
<1> DEFINE Wait == WaitsOrIsHeld(threads', readyQueue', currentTid', Purging')
           Stays == /\ pendingDeletionTid' \in {NoTid, pendingDeletionTid, currentTid}
                   /\ DOMAIN threads \ {pendingDeletionTid, currentTid} \subseteq DOMAIN threads'
<1>1. /\ TypeOK /\ TableOK(threads)
      /\ readyQueue \in Seq(ThreadIds)
      /\ currentTid \in ThreadIds /\ currentTid \in DOMAIN threads
      /\ currentTid # pendingDeletionTid
      /\ pendingDeletionTid \in ThreadIds \cup {NoTid}
      /\ \A t \in DOMAIN threads : t \in ThreadIds /\ threads[t] \in ThreadObject
      /\ PointsRight(threads, currentTid, frame)
  BY DEF PreemptTypeOK, TypeOK, TableOK, SchedulingCore, frame
\* What a step does to the tables.
<1>2. ~Stops
  BY DEF Stops
<1>3. ASSUME NEW tid \in ThreadIds \ {0, currentTid} PROVE ~Deletes(tid)
  BY <1>1, <1>3 DEF Deletes, PointsRight
<1>4. ASSUME NEW tid, Creates(tid), frame.at = "spawn", frame.tid = tid
      PROVE  /\ tid \notin DOMAIN threads
             /\ DOMAIN threads' = DOMAIN threads \cup {tid}
             /\ \A t \in DOMAIN threads : threads'[t] = threads[t]
  BY <1>4 DEF Creates, With
<1>5. ASSUME Switches
      PROVE  \E pending \in {pendingDeletionTid, currentTid} :
               /\ {currentTid'} \cup ToSet(readyQueue') =
                    ToSet(readyQueue) \cup (IF pending = currentTid THEN {} ELSE {currentTid})
               /\ pendingDeletionTid' \in {NoTid, pending}
               /\ DOMAIN threads' \subseteq DOMAIN threads
               /\ DOMAIN threads \ {pending} \subseteq DOMAIN threads'
               /\ \A t \in DOMAIN threads' \ {currentTid, currentTid'} :
                    threads'[t].state = threads[t].state /\ threads'[t].env = threads[t].env
               /\ pending = currentTid /\ currentTid \in DOMAIN threads'
                    => threads'[currentTid].env = "terminate"
  <2>1. PICK sleepers :
          \E thread \in ThreadObject, pending \in ThreadIds \cup {NoTid},
             site \in {"timer", "terminate", "block", "sleep"} :
            GivesUp(thread, sleepers, pending, site)
    BY <1>5 DEF Switches
  <2>2. PICK thread \in ThreadObject, pending \in ThreadIds \cup {NoTid},
             site \in {"timer", "terminate", "block", "sleep"} :
          GivesUp(thread, sleepers, pending, site)
    BY <2>1
  <2> DEFINE table == [threads EXCEPT ![currentTid] = thread]
  <2>3. /\ TableOK(table) /\ DOMAIN table = DOMAIN threads
        /\ table[currentTid] = thread
        /\ \A t \in DOMAIN threads \ {currentTid} : table[t] = threads[t]
        /\ MainReady(table, readyQueue, sleepers, pending)
        /\ PendingBehindMain(table, readyQueue, pending)
        /\ DoContextSwitch(table, readyQueue, sleepers, pending, site)
    BY <1>1, <2>2, PreparedSwitch
  <2> HIDE DEF table
  <2>4. /\ pending \in {pendingDeletionTid, currentTid}
        /\ pending = currentTid => thread.state = "READY" /\ site = "terminate"
    BY <1>1, <2>2 DEF GivesUp
  <2>5. \A t \in DOMAIN table \ {currentTid} : table[t].state # "RUNNING"
    BY <2>3 DEF SchedulingCore
  <2>6. SwitchedFrom(table, readyQueue, pending, site)
    BY <1>1, <2>3, <2>4, <2>5, SwitchOutcome
  <2>7. /\ {currentTid'} \cup ToSet(readyQueue') =
             ToSet(readyQueue) \cup (IF pending = currentTid THEN {} ELSE {currentTid})
        /\ DOMAIN threads' \subseteq DOMAIN table
        /\ DOMAIN table \ {pending} \subseteq DOMAIN threads'
        /\ pendingDeletionTid' \in {NoTid, pending}
        /\ \A t \in DOMAIN threads' :
             /\ t \notin {currentTid, currentTid'} => threads'[t].state = table[t].state
             /\ threads'[t].env = IF t = currentTid THEN site ELSE table[t].env
    BY <2>6 DEF SwitchedFrom
  <2> QED BY <2>3, <2>4, <2>7
<1>6. Stays
  <2>1. ASSUME NEW tid \in ThreadIds, Rests \/ Wakes \/ Sets(tid) \/ TakesOff(tid) PROVE Stays
    BY <2>1 DEF Rests, Wakes, Awakened, Sets, TakesOff, GoesOn
  <2>2. ASSUME NEW tid, Creates(tid), frame.at = "spawn", frame.tid = tid PROVE Stays
    BY <1>4, <2>2 DEF Creates, GoesOn
  <2>3. Switches => Stays
    BY <1>5
  <2> HIDE DEF Stays
  <2> QED BY <1>1, <1>2, <1>3, <2>1, <2>2, <2>3 DEF Effects
\* The others are where they were in their calls.
<1>7. PICK own \in Frame, replaced \in SUBSET ThreadIds :
        FramesBecome(own, replaced) /\ replaced \cap DOMAIN threads = {}
  <2> DEFINE Goal == \E own \in Frame, replaced \in SUBSET ThreadIds :
                       FramesBecome(own, replaced) /\ replaced \cap DOMAIN threads = {}
  <2>1. ASSUME NEW own \in Frame, FramesBecome(own, {}) PROVE Goal
    <3>1. {} \in SUBSET ThreadIds /\ {} \cap DOMAIN threads = {}
      OBVIOUS
    <3> QED BY <2>1, <3>1
  <2>2. ASSUME NEW tid \in ThreadIds, FramesBecome(UserFrame, {tid}), Creates(tid),
               frame.at = "spawn", frame.tid = tid
        PROVE  Goal
    <3>1. {tid} \in SUBSET ThreadIds /\ {tid} \cap DOMAIN threads = {}
      BY <1>4, <2>2
    <3>2. UserFrame \in Frame
      BY FrameTypes
    <3> QED BY <2>2, <3>1, <3>2
  <2> HIDE DEF Goal
  <2>3. Goal
    BY <2>1, <2>2 DEF Effects, GoesOnAs
  <2> QED BY <2>3 DEF Goal
<1>8. ASSUME NEW u \in ThreadIds \ {currentTid}
      PROVE  /\ frames'[u] = UserFrame \/ SameCall(frames'[u], frames[u])
             /\ u \in DOMAIN threads \cap DOMAIN threads' => SameCall(frames'[u], frames[u])
  BY <1>7, <1>8, FramesAfter
<1>9. pendingDeletionTid' # NoTid => frames'[pendingDeletionTid'].at = "user"
  <2>1. ASSUME pendingDeletionTid # NoTid, pendingDeletionTid' = pendingDeletionTid
        PROVE  frames'[pendingDeletionTid].at = "user"
    <3>1. pendingDeletionTid \in ThreadIds \ {currentTid}
      BY <1>1, <2>1
    <3>2. \/ frames'[pendingDeletionTid] = UserFrame
          \/ SameCall(frames'[pendingDeletionTid], frames[pendingDeletionTid])
      BY <1>8, <3>1
    <3> QED BY <2>1, <3>2, FrameTypes DEF SameCall
  <2> QED BY <1>6, <2>1
<1>10. ASSUME NEW t \in Purging, t \in DOMAIN threads'
       PROVE  t \in Purging' \/ threads'[t].state = "BLOCKED"
  <2>1. PICK u \in ThreadIds : frames[u].at \in {"purged", "unqueued"} /\ frames[u].tid = t
    BY <1>10 DEF Purging
  <2>2. frames[u].at = "unqueued" /\ u \in DOMAIN threads
    BY <2>1 DEF PointsRight
  <2>3. CASE u = currentTid
    BY <1>1, <1>10, <2>1, <2>2, <2>3 DEF GoesOnBlocking, Purging, frame
  <2>4. CASE u # currentTid
    <3>1. u # pendingDeletionTid
      BY <2>1, <2>2 DEF ThreadIds, NoTid
    <3>2. u \in DOMAIN threads'
      BY <1>6, <2>2, <2>4, <3>1
    <3>3. SameCall(frames'[u], frames[u])
      BY <1>8, <2>2, <2>4, <3>2
    <3> QED BY <2>1, <3>3 DEF SameCall, Purging
  <2> QED BY <2>3, <2>4
<1>11. \A t \in DOMAIN threads \ {currentTid} :
         t \in ToSet(readyQueue) \/ threads[t].state = "BLOCKED" \/ threads[t].env = "terminate"
           \/ t \in Purging
  BY DEF WaitsOrIsHeld
\* The running thread goes on and nobody leaves the queue.
<1>12. ASSUME currentTid' = currentTid, ToSet(readyQueue) \subseteq ToSet(readyQueue'),
              \A t \in DOMAIN threads' :
                \/ /\ t \in DOMAIN threads /\ threads'[t].env = threads[t].env
                   /\ threads'[t].state \in {threads[t].state, "BLOCKED"}
                \/ t \in ToSet(readyQueue')
       PROVE  Wait
  BY <1>10, <1>11, <1>12 DEF WaitsOrIsHeld
<1>13. Rests => Wait
  BY <1>12 DEF Rests, GoesOn
<1>14. ASSUME Wakes PROVE Wait
  <2>1. PICK order \in SetToSeqs(Woken) : readyQueue' = readyQueue \o order
    BY <1>14 DEF Wakes
  <2>2. Woken \subseteq ThreadIds
    BY <1>1 DEF Woken, Due, TypeOK
  <2>3. order \in Seq(ThreadIds) /\ ToSet(order) = Woken
    BY <2>2, WakingOrder
  <2>4. ToSet(readyQueue') = ToSet(readyQueue) \cup Woken
    BY <1>1, <2>1, <2>3, Joined
  <2>5. DOMAIN threads' = DOMAIN threads
        /\ \A t \in DOMAIN threads : threads'[t] = threads[t] \/ t \in Woken
    BY <1>14 DEF Wakes, Awakened
  <2> QED BY <1>12, <1>14, <2>4, <2>5 DEF Wakes, GoesOn
<1>15. ASSUME NEW tid \in ThreadIds, readyQueue' = Append(readyQueue, tid)
       PROVE  ToSet(readyQueue') = ToSet(readyQueue) \cup {tid}
  BY <1>1, <1>15, Pushed
<1>16. ASSUME NEW tid \in ThreadIds, Sets(tid) PROVE Wait
  <2>1. /\ ToSet(readyQueue) \subseteq ToSet(readyQueue')
        /\ readyQueue' = Append(readyQueue, tid) => tid \in ToSet(readyQueue')
    BY <1>15, <1>16 DEF Sets
  <2>2. DOMAIN threads' = DOMAIN threads
        /\ \A t \in DOMAIN threads :
             /\ threads'[t].env = threads[t].env
             /\ \/ threads'[t].state \in {threads[t].state, "BLOCKED"}
                \/ t = tid /\ readyQueue' = Append(readyQueue, tid)
    BY <1>16 DEF Sets
  <2>3. currentTid' = currentTid
    BY <1>16 DEF Sets, GoesOn
  <2> QED BY <1>12, <2>1, <2>2, <2>3
<1>17. ASSUME NEW tid \in ThreadIds, Creates(tid), frame.at = "spawn", frame.tid = tid PROVE Wait
  <2>1. ToSet(readyQueue') = ToSet(readyQueue) \cup {tid}
    BY <1>15, <1>17 DEF Creates
  <2>2. DOMAIN threads' = DOMAIN threads \cup {tid} /\ \A t \in DOMAIN threads : threads'[t] = threads[t]
    BY <1>4, <1>17
  <2> QED BY <1>12, <1>17, <2>1, <2>2 DEF Creates, GoesOn
<1>18. ASSUME NEW o \in Frame, FramesBecome(o, {}), NEW tid \in ThreadIds, TakesOff(tid),
              o.tid = tid, o.at \in {"purged", "unqueued"}
       PROVE  Wait
  <2>1. UNCHANGED <<threads, currentTid>> /\ readyQueue' = RemoveFromReadyQueue(readyQueue, tid)
    BY <1>18 DEF TakesOff, GoesOn
  <2>2. \A t \in ThreadIds \ {tid} : t \in ToSet(readyQueue) => t \in ToSet(readyQueue')
    BY <1>1, <2>1, RemovedFromReadyQueue
  <2>3. SameCall(frames'[currentTid], o)
    BY <1>1, <1>18, <2>1, FramesAfter
  <2>4. tid \in Purging'
    BY <1>1, <1>18, <2>3 DEF SameCall, Purging
  <2> QED BY <1>1, <1>10, <1>11, <2>1, <2>2, <2>4 DEF WaitsOrIsHeld
<1>19. ASSUME Switches PROVE Wait
  <2>1. PICK pending \in {pendingDeletionTid, currentTid} :
               /\ {currentTid'} \cup ToSet(readyQueue') =
                    ToSet(readyQueue) \cup (IF pending = currentTid THEN {} ELSE {currentTid})
               /\ DOMAIN threads' \subseteq DOMAIN threads
               /\ \A t \in DOMAIN threads' \ {currentTid, currentTid'} :
                    threads'[t].state = threads[t].state /\ threads'[t].env = threads[t].env
               /\ pending = currentTid /\ currentTid \in DOMAIN threads'
                    => threads'[currentTid].env = "terminate"
    BY <1>5, <1>19
  <2>2. ASSUME NEW t \in DOMAIN threads' \ {currentTid'}
        PROVE  t \in ToSet(readyQueue') \/ threads'[t].state = "BLOCKED"
                 \/ threads'[t].env = "terminate" \/ t \in Purging'
    <3>1. CASE t = currentTid
      BY <2>1, <2>2, <3>1
    <3>2. CASE t # currentTid
      BY <1>10, <1>11, <2>1, <2>2, <3>2
    <3> QED BY <3>1, <3>2
  <2> QED BY <2>2 DEF WaitsOrIsHeld
<1> HIDE DEF Wait
<1>20. Wait
  BY <1>2, <1>3, <1>13, <1>14, <1>16, <1>17, <1>18, <1>19 DEF Effects
<1> QED BY <1>9, <1>20 DEF Wait

LEMMA HeldKept ==
  ASSUME SchedulerAssumption, PreemptTypeOK, PreemptInv, SpawnersInv, HeldInv, [PreemptNext]_preemptVars
  PROVE  HeldInv'
<1>1. CASE PreemptNext /\ Running
  <2>1. Effects
    BY <1>1, EveryStepHasEffects
  <2>2. callers' = callers
    BY <2>1 DEF Effects, GoesOnAs, FramesBecome
  <2>3. ASSUME Running' PROVE HeldInv'
    <3>1. /\ \A t \in ThreadIds : PointsRight(threads', t, frames'[t])
          /\ pendingDeletionTid' = currentTid => frames'[currentTid].at = "user"
          /\ GoesOnBlocking
      BY <1>1, <2>3, NobodyIsLetGo
    <3>2. status = "running" /\ status' = "running" /\ SchedulingCore
          /\ currentTid \in DOMAIN threads
      BY <1>1, <2>3 DEF Running, PreemptInv, SchedulingCore
    <3>3. frame.at = "spawn" => frame.tid \notin DOMAIN threads
      BY <1>1, <3>2 DEF SpawnersInv, frame
    <3>4. /\ \A t \in ThreadIds : PointsRight(threads, t, frames[t])
          /\ pendingDeletionTid # NoTid => frames[pendingDeletionTid].at = "user"
          /\ WaitsOrIsHeld(threads, readyQueue, currentTid, Purging)
      BY <1>1 DEF HeldInv
    <3>5. /\ pendingDeletionTid' # NoTid => frames'[pendingDeletionTid'].at = "user"
          /\ WaitsOrIsHeld(threads', readyQueue', currentTid', Purging')
      BY <2>1, <3>1, <3>2, <3>3, <3>4, EffectsKeepHold
    <3> QED BY <2>2, <3>1, <3>5 DEF HeldInv, NoneEndsAnother, OneSpawner, WaitsOrIsHeld
  <2> QED BY <2>2, <2>3 DEF HeldInv, NoneEndsAnother, OneSpawner
<1>2. CASE PreemptNext /\ ~Running
  <2>1. PICK usecs \in InitArgs : InitCall(usecs)
    BY <1>2
    DEF PreemptNext, SignalArrives, HandlerSwitches, SpawnChooses, SpawnCreates, TerminateFinds,
        TerminateActs, TerminateDeletes, BlockFinds, BlockReads, BlockActs, BlockMarks, BlockFlags,
        ResumeFinds, ResumeReads, ResumeActs, SleepCall, GetQuantumsFinds, GetQuantumsReads,
        Enters, RunsAt
  <2>2. /\ status = "new" /\ NotStarted /\ frames = [t \in ThreadIds |-> UserFrame]
        /\ UNCHANGED <<callers, frames>> /\ UthreadInit(usecs)
    BY <2>1 DEF InitCall, UthreadInit, PreemptInv
  <2>3. NoneEndsAnother'
    BY <2>2 DEF HeldInv, NoneEndsAnother, OneSpawner
  <2>4. \A t \in ThreadIds : frames'[t].at = "user" /\ PointsRight(threads', t, frames'[t])
    BY <2>2, FrameTypes DEF PointsRight, HoldsPointer
  <2>5. ASSUME status' = "running"
        PROVE  WaitsOrIsHeld(threads', readyQueue', currentTid', Purging') /\ pendingDeletionTid' = NoTid
    <3>1. SchedulerInit
      BY <2>2, <2>5 DEF UthreadInit, ReturnsAtOnce
    <3>2. DOMAIN threads' = {0} /\ currentTid' = 0 /\ pendingDeletionTid' = NoTid
      BY <2>2, <3>1 DEF SchedulerInit, NotStarted
    <3> QED BY <3>2 DEF WaitsOrIsHeld
  <2> QED BY <2>3, <2>4, <2>5 DEF HeldInv, Running, WaitsOrIsHeld
<1>3. CASE UNCHANGED preemptVars
  <2>1. UNCHANGED <<threads, readyQueue, currentTid, pendingDeletionTid, status, callers, frames>>
    BY <1>3 DEF preemptVars, vars
  <2> QED BY <2>1 DEF HeldInv, NoneEndsAnother, OneSpawner, WaitsOrIsHeld, PointsRight, Running, Purging
<1> QED BY <1>1, <1>2, <1>3

(* As long as one thread does the spawning and none ends another, no       *)
(* signal at any point of a call loses a thread, whoever blocks, resumes   *)
(* or sleeps: each one runs, waits in the queue, is BLOCKED, has ended or  *)
(* is being blocked by a call that has yet to mark it.                     *)
THEOREM NobodyMislaidUnlessEnded == PreemptSpec /\ NoneEndsAnother => []NoThreadMislaid
<1>1. PreemptInit /\ NoneEndsAnother => HeldInv
  BY DEF PreemptInit, Init, HeldInv, Running
<1>2. PreemptTypeOK /\ PreemptInv /\ SpawnersInv /\ HeldInv /\ [PreemptNext]_preemptVars => HeldInv'
  BY SchedulerAssumption, HeldKept
<1>3. HeldInv => NoThreadMislaid
  BY DEF HeldInv, WaitsOrIsHeld, NoThreadMislaid, Queued, Zombies
<1>4. NoneEndsAnother => OneSpawner
  BY DEF NoneEndsAnother
<1> QED BY <1>1, <1>2, <1>3, <1>4, SpawnersInvariant, PTL DEF PreemptSpec
=============================================================================
