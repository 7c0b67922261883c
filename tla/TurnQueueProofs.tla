------------------------------ MODULE TurnQueueProofs ------------------------------
(***************************************************************************)
(* The scheduler implements TurnQueue, under every usage of the library.   *)
(*                                                                         *)
(* The step that needs the scheduling invariant is the switch on behalf of *)
(* a thread that ends itself, which leaves the line: main never does that, *)
(* the thread has no entry to purge since it runs, and the queue is not    *)
(* empty.  Everywhere else the queue is only appended to, or loses one     *)
(* tid's entries, never main's.                                            *)
(***************************************************************************)
EXTENDS SchedulerSafetyProofs

(* Rest is what is left of the first n entries of line without those of    *)
(* tid, in their order.                                                    *)
RestOf(rest, line, tid, n) ==
  \E place \in [1 .. Len(rest) -> {k \in 1 .. n : line[k] # tid}] :
    /\ \A i, j \in 1 .. Len(rest) : i < j => place[i] < place[j]
    /\ \A k \in {k \in 1 .. n : line[k] # tid} : \E i \in 1 .. Len(rest) : place[i] = k
    /\ \A i \in 1 .. Len(rest) : rest[i] = line[place[i]]

(* One more turn of the loop of removeFromReadyQueue.                      *)
LEMMA RestOfLonger ==
  ASSUME NEW S, NEW rest \in Seq(S), NEW line \in Seq(S), NEW tid, NEW n \in Nat,
         n + 1 <= Len(line), RestOf(rest, line, tid, n)
  PROVE  RestOf(IF line[n + 1] = tid THEN rest ELSE Append(rest, line[n + 1]), line, tid, n + 1)
<1> DEFINE kept  == {k \in 1 .. n : line[k] # tid}
           keeps == {k \in 1 .. n + 1 : line[k] # tid}
           len   == Len(rest)
<1>0. len \in Nat
  OBVIOUS
<1>1. PICK place \in [1 .. len -> kept] :
         /\ \A i, j \in 1 .. len : i < j => place[i] < place[j]
         /\ \A k \in kept : \E i \in 1 .. len : place[i] = k
         /\ \A i \in 1 .. len : rest[i] = line[place[i]]
  BY DEF RestOf
<1>2. CASE line[n + 1] = tid
  <2>1. keeps = kept
    BY <1>2
  <2> QED BY <1>1, <1>2, <2>1 DEF RestOf
<1>3. CASE line[n + 1] # tid
  <2> DEFINE longer == Append(rest, line[n + 1])
             further == [i \in 1 .. len + 1 |-> IF i = len + 1 THEN n + 1 ELSE place[i]]
  <2>1. keeps = kept \cup {n + 1}
    BY <1>3
  <2>2. /\ Len(longer) = len + 1
        /\ longer[len + 1] = line[n + 1]
        /\ \A i \in 1 .. len : longer[i] = rest[i]
    <3>1. line[n + 1] \in S
      OBVIOUS
    <3> QED BY <3>1
  <2>3. /\ further \in [1 .. len + 1 -> kept \cup {n + 1}]
        /\ further[len + 1] = n + 1
        /\ \A i \in 1 .. len : further[i] = place[i] /\ place[i] \in 1 .. n
    <3>1. kept \subseteq 1 .. n
      OBVIOUS
    <3> HIDE DEF kept, len
    <3>2. \A i \in 1 .. len : place[i] \in kept
      BY <1>1
    <3>3. \A i \in 1 .. len + 1 : i # len + 1 => i \in 1 .. len
      BY <1>0
    <3>4. \A i \in 1 .. len : i \in 1 .. len + 1 /\ i # len + 1
      BY <1>0
    <3>5. len + 1 \in 1 .. len + 1
      BY <1>0
    <3> QED BY <3>1, <3>2, <3>3, <3>4, <3>5
  <2> HIDE DEF further, longer, kept, keeps, len
  <2>4. \A i, j \in 1 .. len + 1 : i < j => further[i] < further[j]
    <3> SUFFICES ASSUME NEW i \in 1 .. len + 1, NEW j \in 1 .. len + 1, i < j
                 PROVE  further[i] < further[j]
      OBVIOUS
    <3>1. i \in 1 .. len
      BY <1>0
    <3>2. CASE j \in 1 .. len
      BY <1>1, <2>3, <3>1, <3>2
    <3>3. CASE j = len + 1
      BY <2>3, <3>1, <3>3
    <3> QED BY <1>0, <3>2, <3>3
  <2>5. \A k \in kept \cup {n + 1} : \E i \in 1 .. len + 1 : further[i] = k
    <3>1. ASSUME NEW k \in kept PROVE \E i \in 1 .. len + 1 : further[i] = k
      <4>1. PICK i \in 1 .. len : place[i] = k
        BY <1>1
      <4> QED BY <1>0, <2>3, <4>1
    <3> QED BY <1>0, <2>3, <3>1
  <2>6. \A i \in 1 .. len + 1 : longer[i] = line[further[i]]
    BY <1>0, <1>1, <2>2, <2>3
  <2>7. RestOf(longer, line, tid, n + 1)
    <3>1. \E p \in [1 .. Len(longer) -> keeps] :
            /\ \A i, j \in 1 .. Len(longer) : i < j => p[i] < p[j]
            /\ \A k \in keeps : \E i \in 1 .. Len(longer) : p[i] = k
            /\ \A i \in 1 .. Len(longer) : longer[i] = line[p[i]]
      <4> further \in [1 .. Len(longer) -> keeps]
        BY <2>1, <2>2, <2>3
      <4> WITNESS further \in [1 .. Len(longer) -> keeps]
      <4> QED BY <2>1, <2>2, <2>4, <2>5, <2>6
    <3> QED BY <3>1 DEF RestOf, keeps
  <2> QED BY <1>3, <2>7 DEF longer
<1> QED BY <1>2, <1>3

(* What removeFromReadyQueue leaves is the queue without that tid.         *)
LEMMA RemovedIsWithout ==
  ASSUME NEW S, NEW queue \in Seq(S), NEW removed
  PROVE  Turns!IsWithout(RemoveFromReadyQueue(queue, removed), queue, removed)
<1> DEFINE temp == CHOOSE temp : Loop(temp, queue, removed, Len(queue))
           left == RemoveFromReadyQueue(queue, removed)
           T == {i \in Nat : i <= Len(queue) =>
                               temp[i] \in Seq(S) /\ RestOf(temp[i], queue, removed, i)}
<1>1. Len(queue) \in Nat
  OBVIOUS
<1>2. Loop(temp, queue, removed, Len(queue))
  BY <1>1, LoopExists
<1>3. left = temp[Len(queue)]
  BY DEF RemoveFromReadyQueue, Loop
<1> HIDE DEF temp, left
<1>4. 0 \in T
  <2>1. temp[0] = <<>>
    BY <1>1, <1>2, LoopTurn DEF Turn
  <2>2. RestOf(<<>>, queue, removed, 0)
    <3> DEFINE none == [i \in 1 .. 0 |-> 0]
               kept == {k \in 1 .. 0 : queue[k] # removed}
    <3>1. Len(<<>>) = 0
      OBVIOUS
    <3>2. none \in [1 .. 0 -> kept]
      OBVIOUS
    <3>3. \E place \in [1 .. Len(<<>>) -> kept] :
            /\ \A i, j \in 1 .. Len(<<>>) : i < j => place[i] < place[j]
            /\ \A k \in kept : \E i \in 1 .. Len(<<>>) : place[i] = k
            /\ \A i \in 1 .. Len(<<>>) : (<<>>)[i] = queue[place[i]]
      <4> WITNESS none \in [1 .. Len(<<>>) -> kept]
      <4> HIDE DEF none
      <4>1. kept = {}
        OBVIOUS
      <4> QED BY <3>1, <4>1
    <3> QED BY <3>3 DEF RestOf
  <2>3. <<>> \in Seq(S)
    OBVIOUS
  <2> QED BY <2>1, <2>2, <2>3
<1>5. ASSUME NEW i \in Nat, i \in T PROVE i + 1 \in T
  <2> SUFFICES ASSUME i + 1 <= Len(queue)
               PROVE  temp[i + 1] \in Seq(S) /\ RestOf(temp[i + 1], queue, removed, i + 1)
    OBVIOUS
  <2>1. temp[i] \in Seq(S) /\ RestOf(temp[i], queue, removed, i)
    BY <1>1, <1>5
  <2>2. temp[i + 1] = IF queue[i + 1] = removed THEN temp[i] ELSE Append(temp[i], queue[i + 1])
    BY <1>1, <1>2, LoopTurn DEF Turn
  <2>3. queue[i + 1] \in S
    BY <1>1
  <2> QED BY <2>1, <2>2, <2>3, RestOfLonger
<1>6. Nat \subseteq T
  <2> HIDE DEF T
  <2> QED BY <1>4, <1>5, NatSetInduction
<1>7. left \in Seq(S) /\ RestOf(left, queue, removed, Len(queue))
  BY <1>1, <1>3, <1>6
<1>8. DOMAIN left = 1 .. Len(left) /\ DOMAIN queue = 1 .. Len(queue)
  BY <1>7
<1>9. Turns!IsWithout(left, queue, removed)
  <2> DEFINE kept == {k \in DOMAIN queue : queue[k] # removed}
  <2>1. PICK place \in [DOMAIN left -> kept] :
          /\ \A i, j \in DOMAIN left : i < j => place[i] < place[j]
          /\ \A k \in kept : \E i \in DOMAIN left : place[i] = k
          /\ \A i \in DOMAIN left : left[i] = queue[place[i]]
    BY ZenonT(60), <1>7, <1>8 DEF RestOf
  <2> QED BY Zenon, <2>1 DEF Turns!IsWithout
<1> QED BY <1>9 DEF left

-----------------------------------------------------------------------------
(* What joins the line, and what a turn makes of it.                       *)

(* Some distinct tids other than main's join.                              *)
LEMMA ManyJoin ==
  ASSUME NEW line \in Seq(ThreadIds), NEW order \in Seq(ThreadIds \ {0}),
         \A i, j \in DOMAIN order : order[i] = order[j] => i = j
  PROVE  Turns!Joined(line \o order, Len(line \o order), line)
<1> DEFINE both == line \o order
           n    == Len(line)
<1>1. /\ n \in Nat /\ Len(order) \in Nat /\ DOMAIN order = 1 .. Len(order)
      /\ Len(both) = n + Len(order)
      /\ \A i \in 1 .. n : both[i] = line[i]
      /\ \A i \in n + 1 .. n + Len(order) : both[i] = order[i - n]
  OBVIOUS
<1>2. \A i \in 1 .. Len(order) : order[i] \in ThreadIds \ {0}
  OBVIOUS
<1> HIDE DEF both
<1>3. \A i \in n + 1 .. Len(both) : i - n \in 1 .. Len(order)
  BY <1>1
<1>4. n \in n .. Len(both) /\ Len(both) \in n .. Len(both)
  BY <1>1
<1>5. \A i \in n + 1 .. Len(both) : both[i] \in ThreadIds \ {0}
  BY <1>1, <1>2, <1>3
<1>6. ASSUME NEW i \in n + 1 .. Len(both), NEW j \in n + 1 .. Len(both), both[i] = both[j]
      PROVE  i = j
  <2>1. order[i - n] = order[j - n]
    BY <1>1, <1>6
  <2>2. i - n = j - n
    BY <1>1, <1>3, <2>1
  <2> QED BY <1>1, <2>2
<1>7. Turns!Joined(both, Len(both), line)
  BY <1>1, <1>4, <1>5, <1>6 DEF Turns!Joined
<1> QED BY <1>7 DEF both

(* Whoever comes behind those that joined.                                 *)
LEMMA LastBehind ==
  ASSUME NEW S, NEW line \in Seq(S), NEW queue \in Seq(S), NEW last \in S,
         Turns!Joined(queue, Len(queue), line)
  PROVE  LET longer == Append(queue, last)
         IN  /\ Turns!Joined(longer, Len(longer) - 1, line)
             /\ longer[Len(longer)] = last
<1> DEFINE longer == Append(queue, last)
           m      == Len(queue)
           n      == Len(line)
<1>1. /\ n \in Nat /\ m \in Nat /\ Len(longer) = m + 1
      /\ \A i \in 1 .. m : longer[i] = queue[i]
      /\ longer[m + 1] = last
  OBVIOUS
<1> HIDE DEF longer
<1>2. /\ n <= m
      /\ \A i \in 1 .. n : queue[i] = line[i]
      /\ \A i \in n + 1 .. m : queue[i] \in ThreadIds \ {0}
      /\ \A i, j \in n + 1 .. m : queue[i] = queue[j] => i = j
  BY <1>1 DEF Turns!Joined
<1>3. Len(longer) - 1 = m /\ m \in n .. m + 1
  BY <1>1, <1>2
<1>4. Turns!Joined(longer, m, line)
  BY <1>1, <1>2, <1>3 DEF Turns!Joined
<1> QED BY <1>1, <1>3, <1>4 DEF longer

LEMMA HeadFirst ==
  ASSUME NEW S, NEW queue \in Seq(S), queue # <<>>
  PROVE  <<Head(queue)>> \o Tail(queue) = queue
OBVIOUS

-----------------------------------------------------------------------------
(* doContextSwitch takes a turn: the thread it runs is the head of the     *)
(* queue its caller prepared, with the one it replaces at the end.         *)
LEMMA SwitchTakesTurn ==
  ASSUME SchedulerAssumption, status = "running", currentTid \in ThreadIds,
         readyQueue \in Seq(ThreadIds),
         NEW table, TableOK(table), currentTid \in DOMAIN table,
         NEW queue \in Seq(ThreadIds), NEW sleepers,
         NEW pending \in ThreadIds \cup {NoTid}, NEW site,
         MainReady(table, queue, sleepers, pending),
         Turns!Joined(queue, Len(queue), readyQueue),
         DoContextSwitch(table, queue, sleepers, pending, site)
  PROVE  Turns!TurnNext
<1> DEFINE saved == Saved(table, pending, site)
           ready == Requeued(table, pending, queue)
           next  == NextThread(ready)
<1>1. CASE SwitchFaults(saved, pending, next)
  BY <1>1 DEF DoContextSwitch, Crash, Turns!TurnNext, Turns!Stop, Phase
<1>2. CASE ~SwitchFaults(saved, pending, next)
  <2>1. /\ currentTid' = next
        /\ readyQueue' = IF ready = <<>> THEN <<>> ELSE Tail(ready)
        /\ totalQuantums' = totalQuantums + 1
        /\ next \in DOMAIN table
        /\ Phase = "on" /\ Phase' = "on"
    BY <1>2 DEF DoContextSwitch, SwitchFaults, Saved, Phase
  <2> HIDE DEF saved, ready
  <2>2. CASE Requeues(table, pending)
    <3>1. ready = Append(queue, currentTid)
      BY <2>2 DEF ready, Requeued
    <3>2. ready \in Seq(ThreadIds) /\ ready # <<>>
      BY <3>1
    <3>3. <<currentTid'>> \o readyQueue' = ready
      BY <2>1, <3>2, HeadFirst DEF NextThread
    <3>4. Turns!Joined(ready, Len(ready) - 1, readyQueue) /\ ready[Len(ready)] = currentTid
      BY <3>1, LastBehind
    <3>5. Turns!TakeTurn(FALSE)
      BY <2>1, <3>3, <3>4 DEF Turns!TakeTurn
    <3> QED BY <3>5 DEF Turns!TurnNext
  <2>3. CASE ~Requeues(table, pending) /\ queue # <<>>
    <3>1. ready = queue
      BY <2>3 DEF ready, Requeued
    <3>2. pending = currentTid
      <4>1. next \in ToSet(queue)
        BY <2>3, <3>1, Popped DEF NextThread
      <4> SUFFICES ASSUME pending # currentTid PROVE FALSE
        OBVIOUS
      <4>2. ~(Cardinality(DOMAIN table) > 1)
        BY <2>3 DEF Requeues
      <4>3. currentTid = 0 /\ next = 0
        BY <2>1, <4>2, TwoThreads DEF TableOK, MainReady
      <4> QED BY <4>1, <4>3 DEF MainReady
    <3>3. currentTid # 0
      BY <3>2 DEF MainReady
    <3>4. <<currentTid'>> \o readyQueue' = queue
      BY <2>1, <2>3, <3>1, HeadFirst DEF NextThread
    <3>5. Turns!TakeTurn(TRUE)
      BY <2>1, <3>3, <3>4 DEF Turns!TakeTurn
    <3> QED BY <3>5 DEF Turns!TurnNext
  <2>4. CASE ~Requeues(table, pending) /\ queue = <<>>
    \* Main is alone.
    <3>1. ready = <<>> /\ next = currentTid
      BY <2>4 DEF ready, Requeued, NextThread
    <3>2. readyQueue = <<>>
      BY <2>4 DEF Turns!Joined
    <3>3. <<currentTid'>> \o readyQueue' = <<currentTid>>
      BY <2>1, <3>1
    <3> DEFINE line == <<currentTid>>
    <3>4. Len(line) = 1 /\ line[1] = currentTid
      OBVIOUS
    <3>5. Turns!Joined(line, Len(line) - 1, readyQueue)
      BY <3>2, <3>4 DEF Turns!Joined
    <3>6. Turns!TakeTurn(FALSE)
      <4> HIDE DEF line
      <4> QED BY <2>1, <3>3, <3>4, <3>5 DEF Turns!TakeTurn, line
    <3> QED BY <3>6 DEF Turns!TurnNext
  <2> QED BY <2>2, <2>3, <2>4
<1> QED BY <1>1, <1>2

(* Nobody, or one tid, joins the line.                                     *)
LEMMA FewJoin ==
  ASSUME NEW S, NEW line \in Seq(S)
  PROVE  /\ Turns!Joined(line, Len(line), line)
         /\ \A tid \in (ThreadIds \ {0}) \cap S :
              Turns!Joined(Append(line, tid), Len(Append(line, tid)), line)
<1>1. Turns!Joined(line, Len(line), line)
  BY DEF Turns!Joined
<1>2. ASSUME NEW tid \in (ThreadIds \ {0}) \cap S
      PROVE  Turns!Joined(Append(line, tid), Len(Append(line, tid)), line)
  <2> DEFINE longer == Append(line, tid)
             n      == Len(line)
  <2>1. /\ n \in Nat /\ Len(longer) = n + 1
        /\ \A i \in 1 .. n : longer[i] = line[i]
        /\ longer[n + 1] = tid
    OBVIOUS
  <2> HIDE DEF longer
  <2>2. \A i \in n + 1 .. Len(longer) : i = n + 1
    BY <2>1
  <2>3. Turns!Joined(longer, Len(longer), line)
    BY <1>2, <2>1, <2>2 DEF Turns!Joined
  <2> QED BY <2>3 DEF longer
<1> QED BY <1>1, <1>2

(* The order of the hash map names every woken thread once, and not main.  *)
LEMMA WokenJoin ==
  ASSUME SchedulerAssumption, NEW S, S \subseteq ThreadIds \ {0}, NEW order \in SetToSeqs(S),
         NEW line \in Seq(ThreadIds)
  PROVE  /\ order \in Seq(ThreadIds) /\ 0 \notin ToSet(order)
         /\ Turns!Joined(line \o order, Len(line \o order), line)
<1>1. order \in Seq(ThreadIds) /\ ToSet(order) = S
  BY WakingOrder
<1>2. order \in Seq(ThreadIds \ {0})
  <2>1. \A i \in 1 .. Len(order) : order[i] \in ThreadIds \ {0}
    BY <1>1 DEF ToSet
  <2>2. Len(order) \in Nat /\ order = [i \in 1 .. Len(order) |-> order[i]]
    BY <1>1
  <2> QED BY <2>1, <2>2
<1>3. \A i, j \in DOMAIN order : order[i] = order[j] => i = j
  BY DEF SetToSeqs
<1> QED BY <1>1, <1>2, <1>3, ManyJoin

(* Every step of the scheduler is a step of TurnQueue or changes nothing   *)
(* it sees.                                                                *)
LEMMA TurnsStep ==
  ASSUME SchedulerAssumption, TypeOK, SchedulingInv, [Next]_vars
  PROVE  [Turns!TurnNext]_(Turns!turnVars)
<1> USE SchedulerAssumption
<1>1. /\ TableOK(threads)
      /\ \A t \in DOMAIN threads : t \in ThreadIds /\ threads[t] \in ThreadObject
      /\ readyQueue \in Seq(ThreadIds)
      /\ currentTid \in ThreadIds
      /\ pendingDeletionTid \in ThreadIds \cup {NoTid}
  BY DEF TypeOK, TableOK
<1>2. status = "running" =>
        /\ MainReady(threads, readyQueue, sleepingThreads, pendingDeletionTid)
        /\ CurrentRuns
        /\ Phase = "on"
  BY DEF SchedulingInv, Running, Phase
<1>3. Turns!Joined(readyQueue, Len(readyQueue), readyQueue)
  BY <1>1, FewJoin
<1>4. ASSUME UNCHANGED <<readyQueue, currentTid, totalQuantums, status>>
      PROVE  UNCHANGED Turns!turnVars
  BY <1>4 DEF Turns!turnVars, Phase
<1>5. ASSUME NEW usecs \in InitArgs, UthreadInit(usecs)
      PROVE  Turns!TurnNext \/ UNCHANGED Turns!turnVars
  <2>1. CASE usecs <= 0
    BY <1>4, <1>5, <2>1 DEF UthreadInit, ReturnsAtOnce
  <2>2. CASE ~(usecs <= 0)
    <3>1. status = "new" /\ SchedulerInit
      BY <1>5, <2>2 DEF UthreadInit
    <3>2. Turns!Begin
      BY <3>1 DEF SchedulerInit, SchedulingInv, NotStarted, Phase, Turns!Begin
    <3> QED BY <3>2 DEF Turns!TurnNext
  <2> QED BY <2>1, <2>2
<1>6. ASSUME TimerHandler PROVE Turns!TurnNext
  <2>1. CASE Due \subseteq DOMAIN threads
    <3>1. PICK order \in SetToSeqs(Woken) :
            DoContextSwitch(Awakened, readyQueue \o order, StillAsleep, pendingDeletionTid, "timer")
      BY <1>6, <2>1 DEF TimerHandler
    <3> DEFINE queue == readyQueue \o order
    <3>2. order \in Seq(ThreadIds) /\ 0 \notin ToSet(order)
          /\ Turns!Joined(queue, Len(queue), readyQueue)
      <4>1. Woken \subseteq ThreadIds \ {0}
        BY <1>1, <1>2, <1>6 DEF TimerHandler, Woken, Due, MainReady
      <4> QED BY <1>1, <4>1, WokenJoin
    <3>3. queue \in Seq(ThreadIds)
      BY <1>1, <3>2, Joined
    <3>4. /\ TableOK(Awakened) /\ DOMAIN Awakened = DOMAIN threads
          /\ Awakened[0].state = threads[0].state /\ Awakened[0].env = threads[0].env
          /\ DOMAIN StillAsleep \subseteq DOMAIN sleepingThreads
      <4>1. \A t \in DOMAIN threads : SetState(threads[t], "READY") \in ThreadObject
        BY <1>1, ThreadMethods DEF ThreadState
      <4>2. \A t \in DOMAIN threads : Awakened[t] \in ThreadObject
        BY <1>1, <4>1 DEF Awakened
      <4>3. Awakened[0] = threads[0]
        BY <1>2, <1>6 DEF TimerHandler, Awakened, Woken, Due, MainReady
      <4> QED BY <1>1, <4>2, <4>3 DEF Awakened, StillAsleep, TableOK
    <3>5. MainReady(Awakened, queue, StillAsleep, pendingDeletionTid)
      <4>1. /\ ToSet(queue) = ToSet(readyQueue) \cup ToSet(order)
            /\ 0 \notin ToSet(order)
            /\ AtMostOnce(readyQueue, 0) => AtMostOnce(queue, 0)
        BY <1>1, <3>2, Joined
      <4> QED BY <1>2, <1>6, <3>4, <4>1 DEF TimerHandler, MainReady, IsResumed
    <3>6. DoContextSwitch(Awakened, queue, StillAsleep, pendingDeletionTid, "timer")
      BY <3>1
    <3> HIDE DEF queue
    <3> QED BY <1>1, <1>2, <1>6, <3>2, <3>3, <3>4, <3>5, <3>6, SwitchTakesTurn DEF TimerHandler, CurrentRuns
  <2>2. CASE ~(Due \subseteq DOMAIN threads)
    BY <1>2, <1>6, <2>2 DEF TimerHandler, Crash, Turns!TurnNext, Turns!Stop, Phase
  <2> QED BY <2>1, <2>2
<1>7. ASSUME NEW hasEntryPoint \in BOOLEAN, UthreadSpawn(hasEntryPoint)
      PROVE  Turns!TurnNext \/ UNCHANGED Turns!turnVars
  <2>1. CASE ReturnsAtOnce("spawn", currentTid, -1)
    BY <1>4, <2>1 DEF ReturnsAtOnce
  <2>2. CASE NextAvailableTid # NoTid /\ SpawnAs(NextAvailableTid)
    <3> DEFINE tid == NextAvailableTid
    <3>1. status = "running" /\ 0 \in DOMAIN threads
      BY <1>2, <1>7 DEF UthreadSpawn, MayCall, MainReady
    <3>2. tid \in ThreadIds \ {0}
      BY <2>2, <3>1, AvailableTid
    <3> HIDE DEF tid
    <3>3. readyQueue' = Append(readyQueue, tid) /\ UNCHANGED <<currentTid, totalQuantums, status>>
      BY <2>2 DEF SpawnAs, tid
    <3>4. Turns!Joined(readyQueue', Len(readyQueue'), readyQueue)
      BY <1>1, <3>2, <3>3, FewJoin
    <3>5. Turns!Arrive
      BY <1>2, <3>1, <3>3, <3>4 DEF Turns!Arrive, Phase
    <3> QED BY <3>5 DEF Turns!TurnNext
  <2> QED BY <1>7, <2>1, <2>2 DEF UthreadSpawn, Spawn
\* A READY thread's entries go, or nothing does.
<1>8. ASSUME NEW tid \in DOMAIN threads, tid # 0, status = "running", readyQueue' = Purged(tid),
             UNCHANGED <<currentTid, totalQuantums, status>>
      PROVE  Turns!TurnNext \/ UNCHANGED Turns!turnVars
  <2>1. CASE threads[tid].state = "READY"
    <3>1. Turns!IsWithout(readyQueue', readyQueue, tid)
      BY <1>1, <1>8, <2>1, RemovedIsWithout DEF Purged
    <3>2. Turns!Leave(tid)
      BY <1>2, <1>8, <3>1 DEF Turns!Leave, Phase
    <3> QED BY <1>1, <1>8, <3>2 DEF Turns!TurnNext
  <2>2. CASE threads[tid].state # "READY"
    BY <1>4, <1>8, <2>2 DEF Purged
  <2> QED BY <2>1, <2>2
\* The running thread gives up the processor.
<1>9. ASSUME NEW thread \in ThreadObject, NEW sleepers,
             NEW pending \in ThreadIds \cup {NoTid}, NEW site,
             status = "running", currentTid # 0, pending # 0,
             0 \notin DOMAIN sleepers,
             DoContextSwitch([threads EXCEPT ![currentTid] = thread], readyQueue,
                             sleepers, pending, site)
      PROVE  Turns!TurnNext
  <2> DEFINE table == [threads EXCEPT ![currentTid] = thread]
  <2>1. TableOK(table) /\ DOMAIN table = DOMAIN threads
    BY <1>1, TableUpdates
  <2>2. table[0] = threads[0]
    BY <1>2, <1>9 DEF MainReady
  <2> HIDE DEF table
  <2>3. MainReady(table, readyQueue, sleepers, pending)
    BY <1>2, <1>9, <2>1, <2>2 DEF MainReady
  <2>4. DoContextSwitch(table, readyQueue, sleepers, pending, site)
    BY <1>9 DEF table
  <2> QED BY <1>1, <1>2, <1>3, <1>9, <2>1, <2>3, <2>4, SwitchTakesTurn DEF CurrentRuns
<1>10. ASSUME NEW tid \in TidArgs, UthreadTerminate(tid)
       PROVE  Turns!TurnNext \/ UNCHANGED Turns!turnVars
  <2>1. status = "running"
    BY <1>10 DEF UthreadTerminate, MayCall
  <2>2. CASE ReturnsAtOnce("terminate", tid, -1)
    BY <1>4, <2>2 DEF ReturnsAtOnce
  <2>3. CASE TerminateMain
    BY <1>2, <2>1, <2>3 DEF TerminateMain, Turns!TurnNext, Turns!Stop, Phase
  <2>4. CASE tid # 0 /\ tid = currentTid /\ TerminateSelf
    <3>1. Purged(currentTid) = readyQueue /\ readyQueue # <<>>
      BY <1>2, <2>1, <2>4 DEF Purged, CurrentRuns, MainReady, ToSet
    <3>2. SetState(threads[currentTid], "READY") \in ThreadObject
      BY <1>1, <1>2, <2>1, ThreadMethods DEF CurrentRuns, ThreadState
    <3>3. DoContextSwitch([threads EXCEPT ![currentTid] = SetState(threads[currentTid], "READY")],
                          readyQueue, sleepingThreads, currentTid, "terminate")
      BY <2>4, <3>1 DEF TerminateSelf
    <3>4. 0 \notin DOMAIN sleepingThreads
      BY <1>2, <2>1 DEF MainReady
    <3> QED BY <1>1, <1>9, <2>1, <2>4, <3>2, <3>3, <3>4
  <2>5. CASE tid # 0 /\ tid \in DOMAIN threads /\ TerminateOther(tid)
    BY <1>8, <2>1, <2>5 DEF TerminateOther, Deleted
  <2> QED BY <1>10, <2>2, <2>3, <2>4, <2>5 DEF UthreadTerminate
<1>11. ASSUME NEW tid \in TidArgs, UthreadBlock(tid)
       PROVE  Turns!TurnNext \/ UNCHANGED Turns!turnVars
  <2>1. status = "running"
    BY <1>11 DEF UthreadBlock, MayCall
  <2>2. CASE ReturnsAtOnce("block", tid, -1) \/ ReturnsAtOnce("block", tid, 0)
    BY <1>4, <2>2 DEF ReturnsAtOnce
  <2>3. CASE tid # 0 /\ tid \in DOMAIN threads /\ BlockWaiting(tid)
    BY <1>8, <2>1, <2>3 DEF BlockWaiting
  <2>4. CASE tid # 0 /\ tid = currentTid /\ BlockSelf
    <3> DEFINE blocked == SetBlockFlag(SetState(threads[currentTid], "BLOCKED"), TRUE)
    <3>1. readyQueue # <<>>
      BY <1>2, <2>1, <2>4 DEF MainReady, ToSet
    <3>2. blocked \in ThreadObject
      <4>1. SetState(threads[currentTid], "BLOCKED") \in ThreadObject
        BY <1>1, <1>2, <2>1, ThreadMethods DEF CurrentRuns, ThreadState
      <4> QED BY <4>1, ThreadMethods
    <3>3. DoContextSwitch([threads EXCEPT ![currentTid] = blocked], readyQueue,
                          sleepingThreads, pendingDeletionTid, "block")
      BY <2>4, <3>1 DEF BlockSelf
    <3> HIDE DEF blocked
    <3>4. /\ pendingDeletionTid \in ThreadIds \cup {NoTid} /\ pendingDeletionTid # 0
          /\ 0 \notin DOMAIN sleepingThreads /\ currentTid # 0
      BY <1>1, <1>2, <2>1, <2>4 DEF MainReady
    <3>5. Turns!TurnNext
      BY <1>9, <2>1, <3>2, <3>3, <3>4
    <3> QED BY <3>5
  <2> QED BY <1>11, <2>2, <2>3, <2>4 DEF UthreadBlock, Block
<1>12. ASSUME NEW tid \in TidArgs, UthreadResume(tid)
       PROVE  Turns!TurnNext \/ UNCHANGED Turns!turnVars
  <2>1. status = "running"
    BY <1>12 DEF UthreadResume, MayCall
  <2>2. CASE ReturnsAtOnce("resume", tid, -1) \/ ReturnsAtOnce("resume", tid, 0)
    BY <1>4, <2>2 DEF ReturnsAtOnce
  <2>3. CASE tid \in DOMAIN threads /\ threads[tid].state = "BLOCKED" /\ ResumeBlocked(tid)
    <3>1. tid # 0
      BY <1>2, <2>1, <2>3 DEF MainReady
    <3>2. UNCHANGED <<currentTid, totalQuantums, status>>
      BY <2>3 DEF ResumeBlocked
    <3>3. readyQueue' = readyQueue \/ readyQueue' = Append(readyQueue, tid)
      BY <2>3 DEF ResumeBlocked
    <3>4. Turns!Joined(readyQueue', Len(readyQueue'), readyQueue)
      BY <1>1, <2>3, <3>1, <3>3, FewJoin
    <3>5. Turns!Arrive
      BY <1>2, <2>1, <3>2, <3>4 DEF Turns!Arrive, Phase
    <3> QED BY <3>5 DEF Turns!TurnNext
  <2> QED BY <1>12, <2>2, <2>3 DEF UthreadResume, Resume
<1>13. ASSUME NEW n \in SleepArgs, UthreadSleep(n)
       PROVE  Turns!TurnNext \/ UNCHANGED Turns!turnVars
  <2>1. status = "running"
    BY <1>13 DEF UthreadSleep, MayCall
  <2>2. CASE ReturnsAtOnce("sleep", currentTid, -1)
    BY <1>4, <2>2 DEF ReturnsAtOnce
  <2>3. CASE currentTid # 0 /\ Sleep(n)
    <3> DEFINE sleepers == With(sleepingThreads, currentTid, IntAdd(totalQuantums, n))
    <3>1. readyQueue # <<>> /\ pendingDeletionTid # 0
      BY <1>2, <2>1, <2>3 DEF MainReady, ToSet
    <3>2. SetState(threads[currentTid], "BLOCKED") \in ThreadObject
      BY <1>1, <1>2, <2>1, ThreadMethods DEF CurrentRuns, ThreadState
    <3>3. 0 \notin DOMAIN sleepers
      BY <1>2, <2>1, <2>3 DEF MainReady, With
    <3>4. DoContextSwitch([threads EXCEPT ![currentTid] = SetState(threads[currentTid], "BLOCKED")],
                          readyQueue, sleepers, pendingDeletionTid, "sleep")
      BY <2>3, <3>1 DEF Sleep
    <3> HIDE DEF sleepers
    <3> QED BY <1>1, <1>9, <2>1, <2>3, <3>1, <3>2, <3>3, <3>4
  <2> QED BY <1>13, <2>2, <2>3 DEF UthreadSleep
<1>14. ASSUME NEW tid \in TidArgs, UthreadGetQuantums(tid) PROVE UNCHANGED Turns!turnVars
  BY <1>4, <1>14 DEF UthreadGetQuantums
<1>15. CASE UNCHANGED vars
  BY <1>4, <1>15 DEF vars
<1> QED
  BY <1>5, <1>6, <1>7, <1>10, <1>11, <1>12, <1>13, <1>14, <1>15 DEF Next

(* The library gives its threads turns as TurnQueue says, whatever the     *)
(* client calls and however often the timer interrupts it between calls.   *)
THEOREM SchedulerTakesTurns == Spec => TurnsAreTaken
<1>1. Init => Turns!TurnInit
  BY DEF Init, Turns!TurnInit, Phase
<1>2. TypeOK /\ SchedulingInv /\ [Next]_vars => [Turns!TurnNext]_(Turns!turnVars)
  BY SchedulerAssumption, TurnsStep
<1> QED BY <1>1, <1>2, SchedulingInvariant, PTL DEF Spec, TurnsAreTaken, Turns!TurnSpec

====================================================================================
