-------------------------- MODULE SchedulerTypeProofs --------------------------
(***************************************************************************)
(* What the helpers of module Scheduler return, for every argument, and    *)
(* type correctness of the module, for every number of threads, every      *)
(* usage of the library and every bound.                                   *)
(***************************************************************************)
EXTENDS SchedulerProperties, WellFoundedInduction, FiniteSetTheorems, TLAPS

(* Every entry of a in the queue is ahead of every entry of b.             *)
Precedes(queue, a, b) ==
  \A i, j \in DOMAIN queue : queue[i] = a /\ queue[j] = b => i < j

(* Every nonempty set of naturals has a least element.                     *)
LEMMA LeastNatural ==
  ASSUME NEW T, T \subseteq Nat, T # {}
  PROVE  \E least \in T : \A other \in T : least <= other
<1> DEFINE R == {ss \in Nat \X Nat : ss[1] < ss[2]}
<1>1. IsWellFoundedOn(R, Nat)
  BY NatLessThanWellFounded DEF OpToRel
<1>2. PICK least \in T : \A other \in T : <<other, least>> \notin R
  <2> HIDE DEF R
  <2> QED BY <1>1, WFMin
<1>3. \A other \in T : ~(other < least)
  BY <1>2
<1> QED BY <1>3

(* Induction over the naturals, the property given as a set.               *)
LEMMA NatSetInduction ==
  ASSUME NEW T, 0 \in T, \A n \in Nat : n \in T => n + 1 \in T
  PROVE  Nat \subseteq T
<1>1. SUFFICES ASSUME Nat \ T # {} PROVE FALSE
  OBVIOUS
<1>2. PICK least \in Nat \ T : \A other \in Nat \ T : least <= other
  BY <1>1, LeastNatural
<1>3. least - 1 \in T
  BY <1>2
<1> QED BY <1>2, <1>3

-----------------------------------------------------------------------------
(* The loop of removeFromReadyQueue: Loop(temp, queue, tid, n) says that   *)
(* temp[i] is tempQueue after i of its first n turns.                      *)
Loop(temp, queue, tid, n) ==
  temp = [i \in 0 .. n |->
            IF i = 0 THEN <<>>
            ELSE IF queue[i] = tid THEN temp[i - 1]
            ELSE Append(temp[i - 1], queue[i])]

Turn(temp, queue, tid, i) ==
  IF i = 0 THEN <<>>
  ELSE IF queue[i] = tid THEN temp[i - 1]
  ELSE Append(temp[i - 1], queue[i])

(* What one turn does.                                                     *)
LEMMA LoopTurn ==
  ASSUME NEW temp, NEW queue, NEW tid, NEW n \in Nat, Loop(temp, queue, tid, n),
         NEW i \in 0 .. n
  PROVE  temp[i] = Turn(temp, queue, tid, i)
<1> DEFINE turns == [k \in 0 .. n |-> Turn(temp, queue, tid, k)]
<1>1. temp = turns
  BY DEF Loop, Turn
<1>2. turns[i] = Turn(temp, queue, tid, i)
  OBVIOUS
<1> HIDE DEF turns
<1> QED BY <1>1, <1>2

LEMMA LoopExists ==
  ASSUME NEW queue, NEW tid, NEW n \in Nat
  PROVE  \E temp : Loop(temp, queue, tid, n)
<1> DEFINE T == {m \in Nat : \E temp : Loop(temp, queue, tid, m)}
<1>1. 0 \in T
  <2> DEFINE temp == [i \in 0 .. 0 |-> <<>>]
  <2>1. Loop(temp, queue, tid, 0)
    BY DEF Loop
  <2> QED BY <2>1
<1>2. ASSUME NEW m \in Nat, m \in T PROVE m + 1 \in T
  <2>1. PICK temp : Loop(temp, queue, tid, m)
    BY <1>2
  <2> DEFINE last == IF queue[m + 1] = tid THEN temp[m]
                     ELSE Append(temp[m], queue[m + 1])
             longer == [i \in 0 .. m + 1 |-> IF i = m + 1 THEN last ELSE temp[i]]
  <2>2. ASSUME NEW i \in 0 .. m + 1
        PROVE  longer[i] = Turn(longer, queue, tid, i)
    <3>1. CASE i = m + 1
      BY <3>1 DEF Turn
    <3>2. CASE i = 0
      BY <3>2, <2>1, LoopTurn DEF Turn
    <3>3. CASE i \in 1 .. m
      <4>1. longer[i] = temp[i] /\ longer[i - 1] = temp[i - 1]
        BY <3>3
      <4>2. temp[i] = Turn(temp, queue, tid, i)
        BY <2>1, <3>3, LoopTurn
      <4> QED BY <3>3, <4>1, <4>2 DEF Turn
    <3> QED BY <3>1, <3>2, <3>3
  <2>3. Loop(longer, queue, tid, m + 1)
    <3>1. longer = [i \in 0 .. m + 1 |-> longer[i]]
      OBVIOUS
    <3> HIDE DEF longer
    <3> QED BY <2>2, <3>1 DEF Loop, Turn
  <2> QED BY <2>3
<1>3. Nat \subseteq T
  <2> HIDE DEF T
  <2> QED BY <1>1, <1>2, NatSetInduction
<1> QED BY <1>3

(* Tid occurs among the first n entries, and does so only once.            *)
Occurs(queue, n, tid) == \E i \in 1 .. n : queue[i] = tid

OccursOnce(queue, n, tid) ==
  \A i, j \in 1 .. n : queue[i] = tid /\ queue[j] = tid => i = j

OccursBefore(queue, n, a, b) ==
  \A i, j \in 1 .. n : queue[i] = a /\ queue[j] = b => i < j

(* The invariant of the loop: after i turns tempQueue has the first i      *)
(* entries of the queue but those of the removed tid, none of them twice   *)
(* that was there once, and in their old order.                            *)
Kept(temp, queue, removed, S, i) ==
  /\ temp[i] \in Seq(S)
  /\ \A tid \in S : Occurs(temp[i], Len(temp[i]), tid)
                      <=> tid # removed /\ Occurs(queue, i, tid)
  /\ \A tid \in S : OccursOnce(queue, i, tid) => OccursOnce(temp[i], Len(temp[i]), tid)
  /\ \A a, b \in S : OccursBefore(queue, i, a, b) => OccursBefore(temp[i], Len(temp[i]), a, b)

LEMMA LoopKeeps ==
  ASSUME NEW S, NEW queue \in Seq(S), NEW removed, NEW temp,
         Loop(temp, queue, removed, Len(queue))
  PROVE  \A i \in 0 .. Len(queue) : Kept(temp, queue, removed, S, i)
<1> DEFINE T == {i \in Nat : i <= Len(queue) => Kept(temp, queue, removed, S, i)}
<1>1. Len(queue) \in Nat
  OBVIOUS
<1>2. 0 \in T
  <2>1. temp[0] = <<>>
    BY <1>1, LoopTurn DEF Turn
  <2>2. <<>> \in Seq(S) /\ Len(<<>>) = 0
    OBVIOUS
  <2>3. \A tid \in S : ~Occurs(<<>>, 0, tid) /\ OccursOnce(<<>>, 0, tid) /\ ~Occurs(queue, 0, tid)
    BY DEF Occurs, OccursOnce
  <2>4. \A a, b \in S : OccursBefore(<<>>, 0, a, b)
    BY DEF OccursBefore
  <2>5. Kept(temp, queue, removed, S, 0)
    BY <2>1, <2>2, <2>3, <2>4 DEF Kept
  <2> QED BY <2>5
<1>3. ASSUME NEW i \in Nat, i \in T PROVE i + 1 \in T
  <2> SUFFICES ASSUME i + 1 <= Len(queue)
               PROVE  Kept(temp, queue, removed, S, i + 1)
    OBVIOUS
  <2> DEFINE before == temp[i]
             after  == temp[i + 1]
             entry  == queue[i + 1]
  <2>1. Kept(temp, queue, removed, S, i)
    BY <1>3
  <2>2. entry \in S
    BY <1>1
  <2>3. after = IF entry = removed THEN before ELSE Append(before, entry)
    BY <1>1, LoopTurn DEF Turn
  <2>4. \A tid \in S : Occurs(queue, i + 1, tid) <=> Occurs(queue, i, tid) \/ entry = tid
    BY DEF Occurs
  <2>5. \A tid \in S : OccursOnce(queue, i + 1, tid)
                        <=> /\ OccursOnce(queue, i, tid)
                            /\ entry = tid => ~Occurs(queue, i, tid)
    BY DEF Occurs, OccursOnce
  <2>6. \A a, b \in S : OccursBefore(queue, i + 1, a, b)
                        <=> /\ OccursBefore(queue, i, a, b)
                            /\ entry = a => ~Occurs(queue, i, b) /\ entry # b
    BY DEF Occurs, OccursBefore
  <2>7. CASE entry = removed
    BY <2>1, <2>3, <2>4, <2>5, <2>6, <2>7 DEF Kept
  <2>8. CASE entry # removed
    <3>1. after = Append(before, entry) /\ before \in Seq(S)
      BY <2>1, <2>3, <2>8 DEF Kept
    <3> HIDE DEF before, after, entry
    <3>2. /\ after \in Seq(S)
          /\ Len(after) = Len(before) + 1
          /\ Len(before) \in Nat
          /\ after[Len(before) + 1] = entry
          /\ \A j \in 1 .. Len(before) : after[j] = before[j]
      BY <2>2, <3>1
    <3>3. \A tid \in S : Occurs(after, Len(after), tid)
                          <=> Occurs(before, Len(before), tid) \/ entry = tid
      BY <3>2 DEF Occurs
    <3>4. \A tid \in S : OccursOnce(after, Len(after), tid)
                          <=> /\ OccursOnce(before, Len(before), tid)
                              /\ entry = tid => ~Occurs(before, Len(before), tid)
      BY <3>2 DEF Occurs, OccursOnce
    <3>5. \A a, b \in S : OccursBefore(after, Len(after), a, b)
                          <=> /\ OccursBefore(before, Len(before), a, b)
                              /\ entry = a => /\ ~Occurs(before, Len(before), b)
                                             /\ entry # b
      BY <3>2 DEF Occurs, OccursBefore
    <3> USE DEF before, after
    <3> QED BY <2>1, <2>4, <2>5, <2>6, <2>8, <3>2, <3>3, <3>4, <3>5 DEF Kept
  <2> QED BY <2>7, <2>8
<1>4. Nat \subseteq T
  <2> HIDE DEF T
  <2> QED BY <1>2, <1>3, NatSetInduction
<1> QED BY <1>1, <1>4

(* removeFromReadyQueue drops every entry of the tid it is given, keeps    *)
(* all others in their order, and duplicates none.                         *)
LEMMA RemovedFromReadyQueue ==
  ASSUME NEW S, NEW queue \in Seq(S), NEW removed
  PROVE  LET left == RemoveFromReadyQueue(queue, removed)
         IN  /\ left \in Seq(S)
             /\ \A tid \in S : tid \in ToSet(left) <=> tid # removed /\ tid \in ToSet(queue)
             /\ \A tid \in S : AtMostOnce(queue, tid) => AtMostOnce(left, tid)
             /\ \A a, b \in S : Precedes(queue, a, b) => Precedes(left, a, b)
<1> DEFINE temp == CHOOSE temp : Loop(temp, queue, removed, Len(queue))
           left == RemoveFromReadyQueue(queue, removed)
<1>1. Len(queue) \in Nat
  OBVIOUS
<1>2. Loop(temp, queue, removed, Len(queue))
  BY <1>1, LoopExists
<1>3. left = temp[Len(queue)]
  BY DEF RemoveFromReadyQueue, Loop
<1> HIDE DEF temp, left
<1>4. Kept(temp, queue, removed, S, Len(queue))
  BY <1>1, <1>2, LoopKeeps
<1>5. left \in Seq(S)
  BY <1>3, <1>4 DEF Kept
<1>6. ASSUME NEW any \in Seq(S), NEW tid
      PROVE  /\ tid \in ToSet(any) <=> Occurs(any, Len(any), tid)
             /\ AtMostOnce(any, tid) <=> OccursOnce(any, Len(any), tid)
  BY DEF ToSet, Occurs, AtMostOnce, OccursOnce
<1>7. ASSUME NEW any \in Seq(S), NEW a, NEW b
      PROVE  Precedes(any, a, b) <=> OccursBefore(any, Len(any), a, b)
  BY DEF Precedes, OccursBefore
<1>8. /\ \A tid \in S : tid \in ToSet(left) <=> tid # removed /\ tid \in ToSet(queue)
      /\ \A tid \in S : AtMostOnce(queue, tid) => AtMostOnce(left, tid)
  BY <1>3, <1>4, <1>5, <1>6 DEF Kept
<1>9. \A a, b \in S : Precedes(queue, a, b) => Precedes(left, a, b)
  BY <1>3, <1>4, <1>5, <1>7 DEF Kept
<1> QED BY <1>5, <1>8, <1>9 DEF left

-----------------------------------------------------------------------------
(* What the operations of std::queue do to the entries of one tid.         *)

LEMMA Pushed ==
  ASSUME NEW S, NEW queue \in Seq(S), NEW last \in S
  PROVE  LET longer == Append(queue, last)
         IN  /\ longer \in Seq(S)
             /\ longer # <<>>
             /\ ToSet(longer) = ToSet(queue) \cup {last}
             /\ \A tid : AtMostOnce(longer, tid)
                         <=> AtMostOnce(queue, tid) /\ (tid = last => tid \notin ToSet(queue))
             /\ \A a, b : Precedes(queue, a, b) /\ a # last => Precedes(longer, a, b)
<1> DEFINE longer == Append(queue, last)
           end    == Len(queue) + 1
<1>1. /\ longer \in Seq(S)
      /\ longer # <<>>
      /\ end \in Nat
      /\ \A i \in DOMAIN queue : i \in Nat /\ i < end
      /\ DOMAIN longer = DOMAIN queue \cup {end}
      /\ longer[end] = last
      /\ \A i \in DOMAIN queue : longer[i] = queue[i]
  OBVIOUS
<1> HIDE DEF longer, end
<1>2. ToSet(longer) = ToSet(queue) \cup {last} /\ end \notin DOMAIN queue
  BY <1>1 DEF ToSet
<1>3. ASSUME NEW tid
      PROVE  AtMostOnce(longer, tid)
             <=> AtMostOnce(queue, tid) /\ (tid = last => tid \notin ToSet(queue))
  BY <1>1, <1>2 DEF ToSet, AtMostOnce
<1>4. ASSUME NEW a, NEW b, Precedes(queue, a, b), a # last
      PROVE  Precedes(longer, a, b)
  BY <1>1, <1>4 DEF Precedes
<1> QED BY <1>1, <1>2, <1>3, <1>4 DEF longer

LEMMA Popped ==
  ASSUME NEW S, NEW queue \in Seq(S), queue # <<>>
  PROVE  /\ Head(queue) \in S
         /\ Tail(queue) \in Seq(S)
         /\ ToSet(queue) = {Head(queue)} \cup ToSet(Tail(queue))
         /\ \A tid : AtMostOnce(queue, tid)
                     => /\ AtMostOnce(Tail(queue), tid)
                        /\ tid = Head(queue) => tid \notin ToSet(Tail(queue))
         /\ \A a, b : Precedes(queue, a, b)
                     => /\ Precedes(Tail(queue), a, b)
                        /\ a \in ToSet(queue) => b # Head(queue)
<1> DEFINE rest == Tail(queue)
<1>1. /\ Head(queue) = queue[1] /\ Head(queue) \in S
      /\ rest \in Seq(S)
      /\ Len(queue) \in Nat \ {0} /\ DOMAIN queue = 1 .. Len(queue)
      /\ DOMAIN rest = 1 .. Len(queue) - 1
      /\ \A i \in DOMAIN rest : rest[i] = queue[i + 1]
  OBVIOUS
<1> HIDE DEF rest
<1>2. ToSet(queue) = {queue[1]} \cup ToSet(rest)
  <2>1. \A i \in DOMAIN queue : i = 1 \/ (i - 1 \in DOMAIN rest /\ rest[i - 1] = queue[i])
    BY <1>1
  <2>2. 1 \in DOMAIN queue /\ \A i \in DOMAIN rest : i + 1 \in DOMAIN queue
    BY <1>1
  <2> QED BY <1>1, <2>1, <2>2 DEF ToSet
<1>3. ASSUME NEW tid, AtMostOnce(queue, tid)
      PROVE  /\ AtMostOnce(rest, tid)
             /\ tid = queue[1] => tid \notin ToSet(rest)
  <2>1. \A i \in DOMAIN rest : i \in Int /\ i >= 1 /\ i + 1 \in DOMAIN queue /\ rest[i] = queue[i + 1]
    BY <1>1
  <2>2. AtMostOnce(rest, tid)
    <3> SUFFICES ASSUME NEW i \in DOMAIN rest, NEW j \in DOMAIN rest, rest[i] = tid, rest[j] = tid
                 PROVE  i = j
      BY DEF AtMostOnce
    <3>1. i + 1 = j + 1
      BY <1>3, <2>1 DEF AtMostOnce
    <3> QED BY <2>1, <3>1
  <2>3. ASSUME tid = queue[1], tid \in ToSet(rest) PROVE FALSE
    <3>1. PICK i \in DOMAIN rest : rest[i] = tid
      BY <2>3 DEF ToSet
    <3>2. i + 1 = 1
      BY <1>1, <1>3, <2>1, <2>3, <3>1 DEF AtMostOnce
    <3> QED BY <2>1, <3>2
  <2> QED BY <2>2, <2>3
<1>4. ASSUME NEW a, NEW b, Precedes(queue, a, b)
      PROVE  /\ Precedes(rest, a, b)
             /\ a \in ToSet(queue) => b # queue[1]
  <2>1. Precedes(rest, a, b)
    <3> SUFFICES ASSUME NEW i \in DOMAIN rest, NEW j \in DOMAIN rest, rest[i] = a, rest[j] = b
                 PROVE  i < j
      BY DEF Precedes
    <3>1. queue[i + 1] = a /\ queue[j + 1] = b /\ i + 1 \in DOMAIN queue /\ j + 1 \in DOMAIN queue
      BY <1>1
    <3>2. i + 1 < j + 1
      BY <1>4, <3>1 DEF Precedes
    <3>3. i \in Int /\ j \in Int
      BY <1>1
    <3> QED BY <3>2, <3>3
  <2>2. ASSUME a \in ToSet(queue), b = queue[1] PROVE FALSE
    <3>1. PICK i \in DOMAIN queue : queue[i] = a
      BY <2>2 DEF ToSet
    <3>2. i < 1
      BY <1>1, <1>4, <2>2, <3>1 DEF Precedes
    <3> QED BY <1>1, <3>2
  <2> QED BY <2>1, <2>2
<1> QED BY <1>1, <1>2, <1>3, <1>4 DEF rest

LEMMA Joined ==
  ASSUME NEW S, NEW front \in Seq(S), NEW back \in Seq(S)
  PROVE  /\ front \o back \in Seq(S)
         /\ ToSet(front \o back) = ToSet(front) \cup ToSet(back)
         /\ \A tid : AtMostOnce(front, tid) /\ tid \notin ToSet(back)
                     => AtMostOnce(front \o back, tid)
         /\ \A a, b : Precedes(front, a, b) /\ a \notin ToSet(back)
                     => Precedes(front \o back, a, b)
<1> DEFINE both == front \o back
<1>1. /\ both \in Seq(S)
      /\ Len(front) \in Nat /\ Len(back) \in Nat
      /\ DOMAIN front = 1 .. Len(front) /\ DOMAIN back = 1 .. Len(back)
      /\ DOMAIN both = 1 .. Len(front) + Len(back)
      /\ \A i \in DOMAIN both :
           both[i] = IF i <= Len(front) THEN front[i] ELSE back[i - Len(front)]
  OBVIOUS
<1> HIDE DEF both
<1>2. ToSet(both) = ToSet(front) \cup ToSet(back)
  <2>1. ASSUME NEW i \in DOMAIN back
        PROVE  i + Len(front) \in DOMAIN both /\ both[i + Len(front)] = back[i]
    BY <1>1
  <2>2. \A i \in DOMAIN front : i \in DOMAIN both /\ both[i] = front[i]
    BY <1>1
  <2>3. \A i \in DOMAIN both : both[i] \in ToSet(front) \cup ToSet(back)
    BY <1>1 DEF ToSet
  <2> QED BY <2>1, <2>2, <2>3 DEF ToSet
<1>3. ASSUME NEW tid, AtMostOnce(front, tid), tid \notin ToSet(back)
      PROVE  AtMostOnce(both, tid)
  <2>1. \A i \in DOMAIN both : both[i] = tid => i \in DOMAIN front /\ front[i] = tid
    BY <1>1, <1>3 DEF ToSet
  <2> QED BY <2>1, <1>3 DEF AtMostOnce
<1>4. ASSUME NEW a, NEW b, Precedes(front, a, b), a \notin ToSet(back)
      PROVE  Precedes(both, a, b)
  <2> SUFFICES ASSUME NEW i \in DOMAIN both, NEW j \in DOMAIN both, both[i] = a, both[j] = b
               PROVE  i < j
    BY DEF Precedes
  <2>1. i \in DOMAIN front /\ front[i] = a
    BY <1>1, <1>4 DEF ToSet
  <2>2. CASE j \in DOMAIN front
    BY <1>1, <1>4, <2>1, <2>2 DEF Precedes
  <2>3. CASE j \notin DOMAIN front
    BY <1>1, <2>1, <2>3
  <2> QED BY <2>2, <2>3
<1> QED BY <1>1, <1>2, <1>3, <1>4 DEF both

-----------------------------------------------------------------------------
(* Two distinct threads are more than one.                                 *)
LEMMA TwoThreads ==
  ASSUME SchedulerAssumption, NEW S \in SUBSET ThreadIds, NEW a \in S, NEW b \in S, a # b
  PROVE  Cardinality(S) > 1
<1>1. IsFiniteSet(S)
  <2>1. IsFiniteSet(ThreadIds)
    BY FS_Interval DEF ThreadIds, SchedulerAssumption
  <2> QED BY <2>1, FS_Subset
<1>2. IsFiniteSet({a}) /\ Cardinality({a}) = 1
  BY FS_Singleton
<1>3. Cardinality({a} \cup {b}) = 2
  BY <1>2, FS_AddElement
<1>4. Cardinality({a} \cup {b}) <= Cardinality(S)
  BY <1>1, FS_Subset
<1>5. Cardinality(S) \in Nat
  BY <1>1, FS_CardinalityType
<1> QED BY <1>3, <1>4, <1>5

(* nextAvailableTid returns -1 or a tid no thread has.                     *)
LEMMA AvailableTid ==
  SchedulerAssumption => NextAvailableTid \in (ThreadIds \ DOMAIN threads) \cup {NoTid}
<1> SUFFICES ASSUME SchedulerAssumption, NextAvailableTid # NoTid
             PROVE  NextAvailableTid \in ThreadIds \ DOMAIN threads
  OBVIOUS
<1> DEFINE unused == ThreadIds \ DOMAIN threads
<1>1. unused # {}
  BY DEF NextAvailableTid
<1>2. unused \subseteq Nat
  BY DEF ThreadIds, SchedulerAssumption
<1>3. \E tid \in unused : \A other \in unused : tid <= other
  <2> HIDE DEF unused
  <2> QED BY <1>1, <1>2, LeastNatural
<1> QED BY <1>1, <1>3 DEF NextAvailableTid

(* The order in which the hash map yields the sleepers to wake is a        *)
(* sequence of just them.                                                  *)
LEMMA WakingOrder ==
  ASSUME SchedulerAssumption, NEW S, S \subseteq ThreadIds, NEW order \in SetToSeqs(S)
  PROVE  order \in Seq(ThreadIds) /\ ToSet(order) = S
<1> DEFINE D == 1 .. Cardinality(S)
<1>1. IsFiniteSet(S)
  <2>1. IsFiniteSet(ThreadIds)
    BY FS_Interval DEF ThreadIds, SchedulerAssumption
  <2> QED BY <2>1, FS_Subset
<1>2. Cardinality(S) \in Nat
  BY <1>1, FS_CardinalityType
<1>3. order \in [D -> S] /\ \A i, j \in D : i # j => order[i] # order[j]
  BY DEF SetToSeqs
<1>4. order \in Injection(D, S)
  BY <1>3 DEF Injection, IsInjective
<1>5. Cardinality(D) = Cardinality(S)
  BY <1>2, FS_Interval
<1>6. order \in Surjection(D, S)
  <2> HIDE DEF D
  <2> QED BY <1>1, <1>4, <1>5, FS_Injection
<1>7. \A s \in S : \E i \in D : order[i] = s
  BY <1>6 DEF Surjection
<1> QED BY <1>2, <1>3, <1>7 DEF ToSet

-----------------------------------------------------------------------------
(* Types.                                                                  *)

TableOK(table) == DOMAIN table \subseteq ThreadIds /\ table \in [DOMAIN table -> ThreadObject]

SleepersOK(sleepers) ==
  DOMAIN sleepers \subseteq ThreadIds /\ sleepers \in [DOMAIN sleepers -> Int]

(* The methods of Thread yield Thread objects.                             *)
LEMMA ThreadMethods ==
  /\ \A id : NewThread(id) \in ThreadObject
  /\ \A thread \in ThreadObject :
       /\ \A state \in ThreadState : SetState(thread, state) \in ThreadObject
       /\ IncrementQuantumCount(thread) \in ThreadObject
       /\ \A flag \in BOOLEAN : SetBlockFlag(thread, flag) \in ThreadObject
       /\ \A site \in Context : SaveEnv(thread, site) \in ThreadObject
BY DEF ThreadObject, ThreadState, Context, NewThread, SetState,
       IncrementQuantumCount, SetBlockFlag, SaveEnv

(* Writing, adding and removing an entry of the thread table.              *)
LEMMA TableUpdates ==
  ASSUME NEW table, TableOK(table), NEW tid, NEW thread \in ThreadObject
  PROVE  /\ TableOK([table EXCEPT ![tid] = thread])
         /\ DOMAIN [table EXCEPT ![tid] = thread] = DOMAIN table
         /\ tid \in ThreadIds => TableOK(With(table, tid, thread))
         /\ TableOK(Without(table, tid))
BY DEF TableOK, With, Without

(* doContextSwitch keeps the types, whatever table, queue and sleepers its *)
(* caller prepared.                                                        *)
LEMMA SwitchType ==
  ASSUME SchedulerAssumption, TypeOK,
         NEW table, TableOK(table),
         NEW queue \in Seq(ThreadIds),
         NEW sleepers, SleepersOK(sleepers),
         NEW pending \in ThreadIds \cup {NoTid},
         NEW site \in {"timer", "terminate", "block", "sleep"},
         DoContextSwitch(table, queue, sleepers, pending, site)
  PROVE  TypeOK'
<1> DEFINE saved  == Saved(table, pending, site)
           ready  == Requeued(table, pending, queue)
           next   == NextThread(ready)
           starts == With(saved, next, Dispatched(saved[next], ready))
<1>1. CASE SwitchFaults(saved, pending, next)
  BY <1>1 DEF DoContextSwitch, Crash, TypeOK
<1>2. CASE ~SwitchFaults(saved, pending, next)
  <2>1. TableOK(saved)
    <3>1. site \in Context
      BY DEF Context
    <3>2. CASE currentTid \in DOMAIN table
      <4>1. table[currentTid] \in ThreadObject
        BY <3>2 DEF TableOK
      <4>2. SaveEnv(table[currentTid], site) \in ThreadObject
        BY <3>1, <4>1, ThreadMethods
      <4>3. SetState(SaveEnv(table[currentTid], site), "READY") \in ThreadObject
        BY <4>2, ThreadMethods DEF ThreadState
      <4> QED BY <4>2, <4>3, TableUpdates DEF Saved
    <3>3. CASE currentTid \notin DOMAIN table
      <4>1. saved = table
        BY <3>3 DEF Saved, TableOK
      <4> QED BY <4>1
    <3> QED BY <3>2, <3>3
  <2>2. ready \in Seq(ThreadIds)
    BY Pushed DEF Requeued, TypeOK
  <2>3. next \in ThreadIds /\ (ready # <<>> => Tail(ready) \in Seq(ThreadIds))
    BY <2>2, Popped DEF NextThread, TypeOK
  <2>4. next \in DOMAIN saved
    BY <1>2 DEF SwitchFaults
  <2>5. saved[next] \in ThreadObject
    BY <2>1, <2>4 DEF TableOK
  <2>6. Dispatched(saved[next], ready) \in ThreadObject
    BY <2>5, ThreadMethods DEF Dispatched, ThreadState
  <2>7. TableOK(starts) /\ TableOK(Without(starts, pending))
    BY <2>1, <2>3, <2>6, TableUpdates
  <2> HIDE DEF saved, ready, next, starts
  <2>8. /\ totalQuantums < MaxQuantums
        /\ currentTid' = next
        /\ readyQueue' = IF ready = <<>> THEN <<>> ELSE Tail(ready)
        /\ sleepingThreads' = sleepers
        /\ totalQuantums' = totalQuantums + 1
        /\ timerMasked' = FALSE
        /\ reply' = ReplyTo(saved[next], next)
        /\ threads' = IF IsResumed(saved[next]) THEN Without(starts, pending) ELSE starts
        /\ pendingDeletionTid' = PendingAfter(saved[next], pending)
        /\ status' = status
    BY <1>2 DEF DoContextSwitch, saved, ready, next, starts
  <2>9. TableOK(threads')
    BY <2>7, <2>8
  <2>10. readyQueue' \in Seq(ThreadIds)
    BY <2>3, <2>8
  <2>11. totalQuantums' \in 0 .. MaxQuantums
    BY <2>8 DEF TypeOK, SchedulerAssumption
  <2>12. pendingDeletionTid' \in ThreadIds \cup {NoTid}
    BY <2>8 DEF PendingAfter
  <2>13. reply' \in Replies
    BY <2>3, <2>8 DEF Replies, ReplyTo, Calls, Reply, NoReply, NoTid, TidArgs, ThreadIds, SchedulerAssumption
  <2> QED
    BY <2>3, <2>8, <2>9, <2>10, <2>11, <2>12, <2>13 DEF TypeOK, TableOK, SleepersOK
<1> QED BY <1>1, <1>2

(* Every reply is one of Replies.                                          *)
LEMMA RepliesType ==
  ASSUME SchedulerAssumption, NEW call \in Calls,
         NEW tid \in TidArgs, NEW value \in Int
  PROVE  Reply(call, tid, value) \in Replies
BY DEF Reply, Replies

LEMMA TidTypes == SchedulerAssumption => ThreadIds \cup {NoTid} \subseteq TidArgs /\ TidArgs \subseteq Int
BY DEF ThreadIds, TidArgs, NoTid, SchedulerAssumption

LEMMA TypeInit == SchedulerAssumption /\ Init => TypeOK
<1> SUFFICES ASSUME SchedulerAssumption, Init PROVE TypeOK
  OBVIOUS
<1>1. NoReply \in Replies
  BY TidTypes DEF NoReply, Reply, Replies, NoTid
<1>2. 0 \in ThreadIds /\ totalQuantums \in 0 .. MaxQuantums
  BY DEF Init, ThreadIds, SchedulerAssumption
<1>3. DOMAIN threads = {} /\ threads \in [DOMAIN threads -> ThreadObject]
  BY DEF Init
<1>4. DOMAIN sleepingThreads = {} /\ sleepingThreads \in [DOMAIN sleepingThreads -> Int]
  BY DEF Init
<1>5. readyQueue \in Seq(ThreadIds)
  BY DEF Init
<1>6. reply \in Replies
  BY <1>1 DEF Init
<1>7. /\ currentTid \in ThreadIds /\ pendingDeletionTid \in ThreadIds \cup {NoTid}
      /\ timerMasked \in BOOLEAN /\ status \in {"new", "running", "exited", "crashed"}
  BY <1>2 DEF Init
<1> QED BY <1>2, <1>3, <1>4, <1>5, <1>6, <1>7 DEF TypeOK

LEMMA TypeNext == ASSUME SchedulerAssumption, TypeOK, [Next]_vars PROVE TypeOK'
<1> USE SchedulerAssumption
<1>1. TableOK(threads) /\ SleepersOK(sleepingThreads) /\ currentTid \in TidArgs
  BY TidTypes DEF TypeOK, TableOK, SleepersOK
<1>2. ASSUME NEW call \in Calls,
             NEW tid \in TidArgs, NEW value \in Int,
             ReturnsAtOnce(call, tid, value)
      PROVE  TypeOK'
  BY <1>2, RepliesType DEF ReturnsAtOnce, Returns, TypeOK
<1>3. ASSUME NEW usecs \in InitArgs, UthreadInit(usecs) PROVE TypeOK'
  <2>1. NoTid \in TidArgs
    BY TidTypes
  <2>2. CASE usecs <= 0
    BY <1>2, <1>3, <2>1, <2>2 DEF UthreadInit, Calls
  <2>3. CASE ~(usecs <= 0)
    <3>1. SchedulerInit /\ Returns("init", NoTid, 0)
      BY <1>3, <2>3 DEF UthreadInit
    <3>2. IncrementQuantumCount(SetState(NewThread(0), "RUNNING")) \in ThreadObject
      BY ThreadMethods DEF ThreadState
    <3>3. threads' \in [{0} -> ThreadObject] /\ 0 \in ThreadIds
      BY <3>1, <3>2 DEF SchedulerInit, ThreadIds, SchedulerAssumption
    <3>4. totalQuantums' \in 0 .. MaxQuantums
      BY <3>1 DEF SchedulerInit, SchedulerAssumption
    <3> QED BY <2>1, <3>1, <3>3, <3>4, RepliesType DEF SchedulerInit, Calls, Returns, TypeOK
  <2> QED BY <2>2, <2>3
<1>4. ASSUME TimerHandler PROVE TypeOK'
  <2>1. CASE Due \subseteq DOMAIN threads
    <3> DEFINE awake == [t \in DOMAIN threads |-> IF t \in Woken THEN SetState(threads[t], "READY")
                                                 ELSE threads[t]]
               asleep == [t \in DOMAIN sleepingThreads \ Due |-> sleepingThreads[t]]
    <3>1. PICK order \in SetToSeqs(Woken) :
            DoContextSwitch(awake, readyQueue \o order, asleep, pendingDeletionTid, "timer")
      BY <1>4, <2>1 DEF TimerHandler, Awakened, StillAsleep
    <3>2. Woken \subseteq ThreadIds
      BY DEF Woken, TypeOK
    <3>3. readyQueue \o order \in Seq(ThreadIds)
      BY <3>2, WakingOrder, Joined DEF TypeOK
    <3>4. TableOK(awake)
      <4>1. \A t \in DOMAIN threads : threads[t] \in ThreadObject
        BY <1>1 DEF TableOK
      <4>2. \A t \in DOMAIN threads : SetState(threads[t], "READY") \in ThreadObject
        BY <4>1, ThreadMethods DEF ThreadState
      <4> QED BY <1>1, <4>1, <4>2 DEF TableOK
    <3>5. SleepersOK(asleep)
      BY <1>1 DEF SleepersOK
    <3>6. pendingDeletionTid \in ThreadIds \cup {NoTid}
      BY DEF TypeOK
    <3> HIDE DEF awake, asleep
    <3> QED BY <3>1, <3>3, <3>4, <3>5, <3>6, SwitchType
  <2>2. CASE ~(Due \subseteq DOMAIN threads)
    BY <1>4, <2>2 DEF TimerHandler, Crash, TypeOK
  <2> QED BY <2>1, <2>2
<1>5. ASSUME NEW hasEntryPoint \in BOOLEAN, UthreadSpawn(hasEntryPoint) PROVE TypeOK'
  <2>1. CASE ReturnsAtOnce("spawn", currentTid, -1)
    BY <1>1, <1>2, <2>1 DEF Calls
  <2>2. CASE NextAvailableTid # NoTid /\ SpawnAs(NextAvailableTid)
    <3>1. SpawnAs(NextAvailableTid)
      BY <2>2
    <3>2. NextAvailableTid \in ThreadIds /\ NextAvailableTid \in Int
      BY <2>2, AvailableTid, TidTypes
    <3>3. TableOK(threads')
      BY <1>1, <3>1, <3>2, ThreadMethods, TableUpdates DEF SpawnAs
    <3>4. readyQueue' \in Seq(ThreadIds)
      BY <3>1, <3>2, Pushed DEF SpawnAs, TypeOK
    <3>5. reply' \in Replies
      BY <1>1, <3>1, <3>2, RepliesType DEF SpawnAs, Calls, Returns
    <3> QED BY <3>1, <3>3, <3>4, <3>5 DEF SpawnAs, TypeOK, TableOK
  <2> QED BY <1>5, <2>1, <2>2 DEF UthreadSpawn, Spawn
<1>6. ASSUME NEW tid \in TidArgs, UthreadTerminate(tid) PROVE TypeOK'
  <2>1. CASE tid \notin DOMAIN threads
    BY <1>2, <1>6, <2>1 DEF UthreadTerminate, Calls
  <2>2. CASE tid \in DOMAIN threads /\ TerminateMain
    <3>1. NoReply \in Replies
      BY TidTypes DEF NoReply, Reply, Replies, NoTid
    <3> QED BY <2>2, <3>1 DEF TerminateMain, TypeOK
  <2>3. CASE tid \in DOMAIN threads /\ tid = currentTid /\ TerminateSelf
    <3>1. Purged(currentTid) \in Seq(ThreadIds)
      BY RemovedFromReadyQueue DEF Purged, TypeOK
    <3>2. CASE Purged(currentTid) = <<>>
      <4>1. /\ readyQueue' = <<>> /\ timerMasked' = FALSE
            /\ reply' = Reply("terminate", currentTid, -1)
            /\ UNCHANGED <<threads, sleepingThreads, currentTid,
                           pendingDeletionTid, totalQuantums, status>>
        BY <2>3, <3>2 DEF TerminateSelf, Returns
      <4>2. reply' \in Replies
        BY <1>1, <4>1, RepliesType DEF Calls
      <4>3. readyQueue' \in Seq(ThreadIds)
        BY <4>1
      <4> QED BY <4>1, <4>2, <4>3 DEF TypeOK
    <3>3. CASE Purged(currentTid) # <<>>
      <4> DEFINE table == [threads EXCEPT ![currentTid] = SetState(@, "READY")]
      <4>1. TableOK(table)
        BY <1>1, <2>3, ThreadMethods, TableUpdates DEF TableOK, ThreadState
      <4>2. DoContextSwitch(table, Purged(currentTid), sleepingThreads, currentTid, "terminate")
        BY <2>3, <3>3 DEF TerminateSelf
      <4>3. currentTid \in ThreadIds
        BY DEF TypeOK
      <4> HIDE DEF table
      <4> QED BY <1>1, <3>1, <4>1, <4>2, <4>3, SwitchType
    <3> QED BY <3>2, <3>3
  <2>4. CASE tid \in DOMAIN threads /\ TerminateOther(tid)
    <3>1. readyQueue' \in Seq(ThreadIds)
      BY <2>4, RemovedFromReadyQueue DEF TerminateOther, Deleted, Purged, TypeOK
    <3>2. TableOK(threads') /\ SleepersOK(sleepingThreads')
      BY <1>1, <2>4 DEF TerminateOther, Deleted, Without, TableOK, SleepersOK
    <3>3. reply' \in Replies
      BY <2>4, RepliesType DEF TerminateOther, Deleted, Returns, Calls
    <3> QED BY <2>4, <3>1, <3>2, <3>3 DEF TerminateOther, Deleted, TypeOK, TableOK, SleepersOK
  <2> QED BY <1>6, <2>1, <2>2, <2>3, <2>4 DEF UthreadTerminate
<1>7. ASSUME NEW tid \in TidArgs, UthreadBlock(tid) PROVE TypeOK'
  <2> DEFINE blocked == SetBlockFlag(SetState(threads[tid], "BLOCKED"), TRUE)
             table   == [threads EXCEPT ![tid] = blocked]
  <2>1. CASE tid = 0 \/ tid \notin DOMAIN threads
    BY <1>2, <1>7, <2>1 DEF UthreadBlock, Calls
  <2>2. CASE ~(tid = 0 \/ tid \notin DOMAIN threads)
    <3>1. Block(tid) /\ tid \in DOMAIN threads
      BY <1>7, <2>2 DEF UthreadBlock
    <3>2. TableOK(table)
      <4>1. threads[tid] \in ThreadObject
        BY <1>1, <3>1 DEF TableOK
      <4>2. blocked \in ThreadObject
        BY <4>1, ThreadMethods DEF ThreadState
      <4> HIDE DEF blocked
      <4> QED BY <1>1, <4>2, TableUpdates
    <3>3. CASE BlockWaiting(tid)
      <4>1. readyQueue' \in Seq(ThreadIds)
        BY <3>3, RemovedFromReadyQueue DEF BlockWaiting, Purged, TypeOK
      <4>2. TableOK(threads') /\ reply' \in Replies
        BY <3>2, <3>3, RepliesType DEF BlockWaiting, Returns, Calls
      <4> QED BY <3>3, <4>1, <4>2 DEF BlockWaiting, TypeOK, TableOK
    <3>4. CASE tid = currentTid /\ BlockSelf
      <4>1. CASE readyQueue = <<>>
        <5>1. /\ timerMasked' = FALSE
              /\ reply' = Reply("block", currentTid, -1)
              /\ UNCHANGED <<threads, readyQueue, sleepingThreads, currentTid,
                             pendingDeletionTid, totalQuantums, status>>
          BY <3>4, <4>1 DEF BlockSelf, Returns
        <5>2. reply' \in Replies
          BY <1>1, <5>1, RepliesType DEF Calls
        <5> QED BY <5>1, <5>2 DEF TypeOK
      <4>2. CASE readyQueue # <<>>
        <5>1. DoContextSwitch(table, readyQueue, sleepingThreads, pendingDeletionTid, "block")
          BY <3>4, <4>2 DEF BlockSelf
        <5>2. readyQueue \in Seq(ThreadIds) /\ pendingDeletionTid \in ThreadIds \cup {NoTid}
          BY DEF TypeOK
        <5> HIDE DEF table
        <5> QED BY <1>1, <3>2, <5>1, <5>2, SwitchType
      <4> QED BY <4>1, <4>2
    <3>5. CASE ReturnsAtOnce("block", tid, 0)
      BY <1>2, <3>5 DEF Calls
    <3> QED BY <3>1, <3>3, <3>4, <3>5 DEF Block
  <2> QED BY <2>1, <2>2
<1>8. ASSUME NEW tid \in TidArgs, UthreadResume(tid) PROVE TypeOK'
  <2>1. CASE ReturnsAtOnce("resume", tid, -1) \/ ReturnsAtOnce("resume", tid, 0)
    BY <1>2, <2>1 DEF Calls
  <2>2. CASE tid \in DOMAIN threads /\ ResumeBlocked(tid)
    <3>1. threads[tid] \in ThreadObject
      BY <1>1, <2>2 DEF TableOK
    <3>2. TableOK(threads')
      <4>1. SetBlockFlag(threads[tid], FALSE) \in ThreadObject
        BY <3>1, ThreadMethods
      <4>2. SetState(threads[tid], "READY") \in ThreadObject
        BY <3>1, ThreadMethods DEF ThreadState
      <4>3. \/ threads' = [threads EXCEPT ![tid] = SetBlockFlag(threads[tid], FALSE)]
            \/ threads' = [threads EXCEPT ![tid] = SetState(threads[tid], "READY")]
        BY <2>2 DEF ResumeBlocked
      <4>4. \A thread \in ThreadObject : TableOK([threads EXCEPT ![tid] = thread])
        BY <1>1, TableUpdates
      <4> QED BY <4>1, <4>2, <4>3, <4>4
    <3>3. readyQueue' \in Seq(ThreadIds)
      <4>1. tid \in ThreadIds /\ readyQueue \in Seq(ThreadIds)
        BY <1>1, <2>2 DEF TableOK, TypeOK
      <4>2. readyQueue' = readyQueue \/ readyQueue' = Append(readyQueue, tid)
        BY <2>2 DEF ResumeBlocked
      <4> QED BY <4>1, <4>2, Pushed
    <3>4. reply' \in Replies
      BY <2>2, RepliesType DEF ResumeBlocked, Returns, Calls
    <3> QED BY <2>2, <3>2, <3>3, <3>4 DEF ResumeBlocked, TypeOK, TableOK
  <2> QED BY <1>8, <2>1, <2>2 DEF UthreadResume, Resume
<1>9. ASSUME NEW n \in SleepArgs, UthreadSleep(n) PROVE TypeOK'
  <2>1. CASE ReturnsAtOnce("sleep", currentTid, -1)
    BY <1>1, <1>2, <2>1 DEF Calls
  <2>2. CASE readyQueue = <<>> /\ Sleep(n)
    <3>1. TableOK(threads') /\ SleepersOK(sleepingThreads')
      <4>1. threads' = [threads EXCEPT ![currentTid] = SetState(@, "RUNNING")]
        BY <2>2 DEF Sleep
      <4>2. SleepersOK(sleepingThreads')
        BY <1>1, <2>2 DEF Sleep, SleepersOK, Without
      <4>3. \A t \in DOMAIN threads : SetState(threads[t], "RUNNING") \in ThreadObject
        BY <1>1, ThreadMethods DEF TableOK, ThreadState
      <4> QED BY <1>1, <4>1, <4>2, <4>3 DEF TableOK
    <3>2. reply' \in Replies
      BY <1>1, <2>2, RepliesType DEF Sleep, Returns, Calls
    <3> QED BY <2>2, <3>1, <3>2 DEF Sleep, TypeOK, TableOK, SleepersOK
  <2>3. CASE readyQueue # <<>> /\ Sleep(n)
    <3> DEFINE table == [threads EXCEPT ![currentTid] = SetState(@, "BLOCKED")]
               sleepers == With(sleepingThreads, currentTid, IntAdd(totalQuantums, n))
    <3>1. DoContextSwitch(table, readyQueue, sleepers, pendingDeletionTid, "sleep")
      BY <2>3 DEF Sleep
    <3>2. TableOK(table)
      <4>1. \A t \in DOMAIN threads : SetState(threads[t], "BLOCKED") \in ThreadObject
        BY <1>1, ThreadMethods DEF TableOK, ThreadState
      <4> QED BY <1>1, <4>1 DEF TableOK
    <3>3. SleepersOK(sleepers)
      <4>1. IntAdd(totalQuantums, n) \in Int
        BY DEF IntAdd, TypeOK, SchedulerAssumption
      <4> QED BY <1>1, <4>1 DEF SleepersOK, With, TypeOK
    <3>4. readyQueue \in Seq(ThreadIds) /\ pendingDeletionTid \in ThreadIds \cup {NoTid}
      BY DEF TypeOK
    <3> HIDE DEF table, sleepers
    <3> QED BY <3>1, <3>2, <3>3, <3>4, SwitchType
  <2> QED BY <1>9, <2>1, <2>2, <2>3 DEF UthreadSleep
<1>10. ASSUME NEW tid \in TidArgs, UthreadGetQuantums(tid) PROVE TypeOK'
  <2>1. reply' \in Replies
    <3>1. tid \in DOMAIN threads => threads[tid].quantumCount \in Int
      BY <1>1 DEF TableOK, ThreadObject
    <3> QED BY <1>10, <3>1, RepliesType DEF UthreadGetQuantums, Returns, Calls
  <2> QED BY <1>10, <2>1 DEF UthreadGetQuantums, TypeOK
<1>11. CASE UNCHANGED vars
  BY <1>11 DEF vars, TypeOK
<1> QED
  BY <1>3, <1>4, <1>5, <1>6, <1>7, <1>8, <1>9, <1>10, <1>11 DEF Next

(* Every variable of the scheduler keeps its type, under any usage: the    *)
(* thread table, the queue and the sleepers never name a tid out of range. *)
THEOREM TypeCorrect == Spec => []TypeOK
<1>1. Init => TypeOK
  BY SchedulerAssumption, TypeInit
<1>2. TypeOK /\ [Next]_vars => TypeOK'
  BY SchedulerAssumption, TypeNext
<1> QED BY <1>1, <1>2, PTL DEF Spec

================================================================================
