------------------------------ MODULE TimerProofs ------------------------------
(***************************************************************************)
(* QuantumTimer for every quantum, every length of a second and of the     *)
(* library's own sections: the timer stays armed, a quantum is no longer   *)
(* than it should be, unless a failed getQuantums leaves the signal        *)
(* masked, and it is cut short only by a signal that was already pending,  *)
(* never twice in a row.                                                   *)
(*                                                                         *)
(* The argument is an equation between the timer and the age of the        *)
(* quantum, left = quantumUsecs - ran, which holds until the timer expires *)
(* and then again with another quantum added.  Where the process is and    *)
(* what it has spent there bounds how far the age can have got since.      *)
(*                                                                         *)
(* TimerDemo, which shares the interval timer, misses no expiry of it:     *)
(* while gotit is set, what the timer has counted down since is the time   *)
(* the loop has taken to notice.                                           *)
(***************************************************************************)
EXTENDS QuantumTimer, TimerDemo, TLAPS

(* Dividing a quantum into seconds and microseconds loses nothing, and     *)
(* yields what setitimer takes.                                            *)
LEMMA SplitIsWhole ==
  ASSUME NEW usecs \in Nat, Second \in Nat \ {0}
  PROVE  Usecs(Split(usecs)) = usecs /\ Valid(Split(usecs))
<1>1. /\ usecs \div Second \in Nat
      /\ usecs % Second \in 0 .. Second - 1
      /\ usecs = (usecs \div Second) * Second + (usecs % Second)
  OBVIOUS
<1> QED BY <1>1 DEF Usecs, Split, Timeval, Valid

-----------------------------------------------------------------------------
(* The invariant.                                                          *)

(* The timer is armed from uthread_init on, with the quantum it was given. *)
Armed ==
  /\ TimerTypeOK
  /\ at # "failed"
  /\ at = "new" => left = 0 /\ ran = 0 /\ spent = 0 /\ ~pending /\ ~stale /\ ~cut /\ ~held
  /\ On => /\ quantumUsecs \in InitArgs
           /\ quantumUsecs > 0
           /\ interval = quantumUsecs
           /\ left \in 1 .. quantumUsecs

(* A quantum that did not begin with the signal pending is as old as the   *)
(* timer says, until the signal is raised: at the end of its time.         *)
OnTime ==
  On /\ ~stale =>
    IF pending \/ cut THEN ran >= quantumUsecs ELSE ran + left = quantumUsecs

(* The timer and the age of the quantum.                                   *)
Age ==
  /\ ran <= quantumUsecs + 4 * MaxSection
  /\ left = IF ran < quantumUsecs THEN quantumUsecs - ran ELSE 2 * quantumUsecs - ran

(* The quantum is at most this much past its beginning, or past its end.   *)
Within(usecs) == ran <= usecs \/ ran \in quantumUsecs .. quantumUsecs + usecs

(* How old the quantum can be in each section.                             *)
Where ==
  /\ at = "user" =>
       ~cut /\ IF pending THEN Within(MaxSection) ELSE ran < quantumUsecs
  /\ at = "call" =>
       ~cut /\ IF pending THEN ran \in quantumUsecs .. quantumUsecs + spent
               ELSE ran < quantumUsecs
  /\ at = "resuming" => ~cut /\ ran = spent
  /\ at = "waking" => cut /\ ~pending /\ Within(MaxSection + spent)
  /\ at = "woken" =>
       IF cut THEN ~pending /\ Within(2 * MaxSection + spent)
       ELSE ran <= MaxSection + (IF pending THEN 0 ELSE spent)
  /\ at = "switching" =>
       IF cut THEN ~pending /\ Within(3 * MaxSection + spent)
       ELSE IF pending THEN ran \in quantumUsecs .. quantumUsecs + MaxSection + spent
       ELSE ran < quantumUsecs

(* Only a thread that has begun its quantum without the signal pending     *)
(* gets to make a call, so that a quantum in which getQuantums fails is not *)
(* one that is cut short.                                                  *)
Failing ==
  /\ at \in {"user", "call", "masked", "resuming"} => ~cut
  /\ stale => (pending \/ cut) /\ at \notin {"call", "masked"}
  /\ at = "masked" => held
  /\ held => ~stale /\ at # "resuming"

TimerInv ==
  /\ Armed
  /\ OnTime
  /\ Failing
  /\ On /\ SectionsAreShort /\ ~held => Age /\ Where

LEMMA TimerInitInv == QuantumTimerAssumption /\ TimerInit => TimerInv
<1> SUFFICES ASSUME QuantumTimerAssumption, TimerInit PROVE TimerInv
  OBVIOUS
<1>1. TimerTypeOK
  <2>1. pending \in BOOLEAN /\ stale \in BOOLEAN /\ cut \in BOOLEAN /\ held \in BOOLEAN
    BY DEF TimerInit
  <2>2. /\ at \in {"new", "failed", "user", "call", "waking", "woken", "switching", "resuming", "masked"}
        /\ quantumUsecs \in Nat /\ left \in Nat /\ interval \in Nat /\ ran \in Nat
        /\ nested \in 0 .. MaxNested /\ spent \in 0 .. MaxSection
    BY DEF TimerInit, QuantumTimerAssumption
  <2> QED BY <2>1, <2>2 DEF TimerTypeOK
<1>2. at = "new" /\ ~On
  BY DEF TimerInit, On
<1> QED BY <1>1, <1>2 DEF TimerInit, TimerInv, Armed, OnTime, Failing

(* setupTimer never fails, and arms the timer with the quantum.            *)
LEMMA SetupTimerArms ==
  ASSUME QuantumTimerAssumption, NEW usecs \in Nat, NEW to, SetupTimer(usecs, to)
  PROVE  left' = usecs /\ interval' = usecs /\ at' = to
BY SplitIsWhole DEF QuantumTimerAssumption, SetupTimer, SetItimer

LEMMA TimerNextInv ==
  ASSUME QuantumTimerAssumption, TimerInv, [TimerNext]_timerVars
  PROVE  TimerInv'
<1> USE QuantumTimerAssumption
<1>1. /\ MaxSection \in Nat /\ MaxNested \in Nat /\ MaxRan \in Nat
      /\ \A usecs \in InitArgs : usecs \in Int /\ usecs + 4 * MaxSection < MaxRan
  BY DEF QuantumTimerAssumption
<1>2. ASSUME NEW usecs \in InitArgs, InitScheduler(usecs) PROVE TimerInv'
  <2>1. /\ at = "new" /\ usecs > 0 /\ usecs \in Nat
        /\ quantumUsecs' = usecs
        /\ UNCHANGED <<pending, nested, spent, ran, stale, cut, held>>
    BY <1>1, <1>2 DEF InitScheduler
  <2>2. left' = usecs /\ interval' = usecs /\ at' = "user"
    BY <1>2, <2>1, SetupTimerArms DEF InitScheduler
  <2>3. Armed'
    BY <2>1, <2>2 DEF TimerInv, Armed, TimerTypeOK, On
  <2>4. ran' = 0 /\ ~pending' /\ ~cut' /\ ~stale' /\ ~held'
    BY <2>1 DEF TimerInv, Armed
  <2> QED BY <1>1, <2>1, <2>2, <2>3, <2>4 DEF TimerInv, OnTime, Failing, Age, Where
<1>3. ASSUME Elapse PROVE TimerInv'
  <2>1. /\ On /\ (InLibrary => spent < MaxSection) /\ (Masked \/ ~pending)
        /\ left' = IF left = 1 THEN interval ELSE IF left = 0 THEN 0 ELSE left - 1
        /\ pending' <=> pending \/ left = 1
        /\ spent' = IF InLibrary THEN spent + 1 ELSE spent
        /\ ran' = IF ran < MaxRan THEN ran + 1 ELSE ran
        /\ UNCHANGED <<at, quantumUsecs, interval, nested, stale, cut, held>>
    BY <1>3 DEF Elapse, CountDown, Expires
  <2>2. Armed'
    <3>1. /\ at # "failed" /\ at # "new" /\ at' = at /\ On' /\ quantumUsecs \in InitArgs
          /\ quantumUsecs > 0 /\ quantumUsecs \in Nat
          /\ interval = quantumUsecs /\ left \in 1 .. quantumUsecs
          /\ spent \in 0 .. MaxSection
          /\ ran \in Nat
      BY <2>1 DEF TimerInv, Armed, TimerTypeOK, On
    <3>2. /\ left' \in 1 .. quantumUsecs /\ left' \in Nat
          /\ spent' \in 0 .. MaxSection /\ ran' \in Nat
      BY <1>1, <2>1, <3>1
    <3>3. pending' \in BOOLEAN
      BY <1>3 DEF Elapse, CountDown, Expires
    <3> QED BY <2>1, <3>1, <3>2, <3>3 DEF TimerInv, Armed, TimerTypeOK
  <2>3. OnTime'
    <3> SUFFICES ASSUME ~stale PROVE (IF pending \/ cut THEN ran >= quantumUsecs
                                      ELSE ran + left = quantumUsecs)'
      BY <2>1 DEF OnTime
    <3>1. /\ IF pending \/ cut THEN ran >= quantumUsecs ELSE ran + left = quantumUsecs
          /\ left \in 1 .. quantumUsecs /\ interval = quantumUsecs
          /\ ran \in Nat /\ quantumUsecs \in Nat /\ quantumUsecs < MaxRan
      BY <1>1, <2>1 DEF TimerInv, Armed, TimerTypeOK, OnTime
    <3>2. CASE pending \/ cut
      BY <1>1, <2>1, <3>1, <3>2
    <3>3. CASE ~(pending \/ cut)
      BY <1>1, <2>1, <3>1, <3>3
    <3> QED BY <3>2, <3>3
  <2>4. ASSUME SectionsAreShort, ~held PROVE (Age /\ Where)'
    <3>1. /\ Age /\ Where
          /\ quantumUsecs \in Nat /\ 4 * MaxSection < quantumUsecs
          /\ quantumUsecs + 4 * MaxSection < MaxRan
          /\ ran \in Nat /\ left \in Nat /\ spent \in 0 .. MaxSection
          /\ interval = quantumUsecs
      BY <1>1, <2>1, <2>4 DEF TimerInv, Armed, TimerTypeOK, SectionsAreShort
    <3>2. at \in {"user", "call", "waking", "woken", "switching", "resuming"}
      BY <2>1, <2>4 DEF TimerInv, Armed, TimerTypeOK, On, Failing
    <3>3. InLibrary <=> at # "user"
      BY <2>1, <3>2 DEF On, InLibrary
    <3>4. CASE at = "user"
      BY <1>1, <2>1, <3>1, <3>3, <3>4 DEF Age, Where, Within, Masked
    <3>5. CASE at = "call"
      BY <1>1, <2>1, <3>1, <3>3, <3>5 DEF Age, Where, Within, Masked
    <3>6. CASE at = "waking"
      BY <1>1, <2>1, <3>1, <3>3, <3>6 DEF Age, Where, Within, Masked
    <3>7. CASE at = "woken"
      BY <1>1, <2>1, <3>1, <3>3, <3>7 DEF Age, Where, Within, Masked
    <3>8. CASE at = "switching"
      BY <1>1, <2>1, <3>1, <3>3, <3>8 DEF Age, Where, Within, Masked
    <3>9. CASE at = "resuming"
      BY <1>1, <2>1, <3>1, <3>3, <3>9 DEF Age, Where, Within, Masked
    <3> QED BY <3>2, <3>4, <3>5, <3>6, <3>7, <3>8, <3>9
  <2>5. Failing'
    BY <2>1 DEF TimerInv, Failing
  <2> QED BY <2>1, <2>2, <2>3, <2>4, <2>5 DEF TimerInv, SectionsAreShort, On
\* Steps that take no time; J says how old the quantum is where they lead.
<1>4. ASSUME On, at' \in {"user", "call", "waking", "woken", "switching", "resuming", "masked"},
             spent' = 0, nested' \in 0 .. MaxNested,
             UNCHANGED <<quantumUsecs, left, interval, ran, stale>>,
             \/ UNCHANGED <<pending, cut>>
             \/ pending /\ pending' = FALSE /\ cut' = TRUE,
             held' \in BOOLEAN, Failing',
             SectionsAreShort /\ ~held' => ~held /\ Where'
      PROVE  TimerInv'
  <2>1. pending' \in BOOLEAN /\ cut' \in BOOLEAN
    BY <1>4 DEF TimerInv, Armed, TimerTypeOK
  <2>2. Armed'
    BY <1>1, <1>4, <2>1 DEF TimerInv, Armed, TimerTypeOK, On
  <2>3. OnTime'
    BY <1>4 DEF TimerInv, OnTime, On
  <2>4. SectionsAreShort /\ ~held' => Age'
    BY <1>4 DEF TimerInv, Age
  <2> QED BY <1>4, <2>2, <2>3, <2>4 DEF TimerInv, SectionsAreShort
<1>5. ASSUME On
      PROVE  /\ nested \in 0 .. MaxNested /\ ran \in Nat /\ quantumUsecs \in Nat
             /\ spent \in 0 .. MaxSection
             /\ held \in BOOLEAN /\ Failing
             /\ SectionsAreShort /\ ~held => Where /\ 4 * MaxSection < quantumUsecs
  BY <1>5 DEF TimerInv, Armed, TimerTypeOK, SectionsAreShort
<1>6. ASSUME EnterSection PROVE TimerInv'
  <2>1. On /\ (at = "masked" \/ (at = "user" /\ ~pending)) /\ at' = "call" /\ spent' = 0
        /\ UNCHANGED <<quantumUsecs, left, interval, pending, nested, ran, stale, cut, held>>
    BY <1>6 DEF EnterSection, Goes, On
  <2>2. SectionsAreShort /\ ~held => Where'
    BY <1>1, <1>5, <2>1 DEF Where, Failing
  <2>3. Failing'
    BY <1>5, <2>1 DEF Failing
  <2> QED BY <1>4, <1>5, <2>1, <2>2, <2>3
<1>7. ASSUME LeaveSection PROVE TimerInv'
  <2>1. On /\ at = "call" /\ at' = "user" /\ spent' = 0
        /\ UNCHANGED <<quantumUsecs, left, interval, pending, nested, ran, stale, cut, held>>
    BY <1>7 DEF LeaveSection, Goes, On
  <2>2. SectionsAreShort /\ ~held => Where'
    BY <1>1, <1>5, <2>1 DEF Where, Within
  <2>3. Failing'
    BY <1>5, <2>1 DEF Failing
  <2> QED BY <1>4, <1>5, <2>1, <2>2, <2>3
<1>8. ASSUME GiveUp PROVE TimerInv'
  <2>1. On /\ at = "call" /\ at' = "switching" /\ spent' = 0
        /\ UNCHANGED <<quantumUsecs, left, interval, pending, nested, ran, stale, cut, held>>
    BY <1>8 DEF GiveUp, Goes, On
  <2>2. SectionsAreShort /\ ~held => Where'
    BY <1>1, <1>5, <2>1 DEF Where
  <2>3. Failing'
    BY <1>5, <2>1 DEF Failing
  <2> QED BY <1>4, <1>5, <2>1, <2>2, <2>3
<1>9. ASSUME Deliver PROVE TimerInv'
  <2>1. /\ On /\ at \in {"user", "woken"} /\ pending /\ at' = "waking" /\ spent' = 0
        /\ nested' = IF at = "woken" /\ nested < MaxNested THEN nested + 1 ELSE nested
        /\ pending' = FALSE /\ cut' = TRUE
        /\ UNCHANGED <<quantumUsecs, left, interval, ran, stale, held>>
    BY <1>9 DEF Deliver, Goes, On
  <2>2. nested' \in 0 .. MaxNested
    BY <1>1, <1>5, <2>1
  <2>3. ASSUME SectionsAreShort, ~held PROVE Where'
    <3>1. Within(MaxSection)
      BY <1>1, <1>5, <2>1, <2>3 DEF Where, Within
    <3> QED BY <1>1, <1>5, <2>1, <3>1 DEF Where, Within
  <2>4. Failing'
    BY <1>5, <2>1 DEF Failing
  <2> QED BY <1>4, <1>5, <2>1, <2>2, <2>3, <2>4
<1>10. ASSUME HandlerUnmasks PROVE TimerInv'
  <2>1. On /\ at = "waking" /\ at' = "woken" /\ spent' = 0
        /\ UNCHANGED <<quantumUsecs, left, interval, pending, nested, ran, stale, cut, held>>
    BY <1>10 DEF HandlerUnmasks, Goes, On
  <2>2. SectionsAreShort /\ ~held => Where'
    BY <1>1, <1>5, <2>1 DEF Where, Within
  <2>3. Failing'
    BY <1>5, <2>1 DEF Failing
  <2> QED BY <1>4, <1>5, <2>1, <2>2, <2>3
<1>11. ASSUME HandlerSwitches PROVE TimerInv'
  <2>1. On /\ at = "woken" /\ ~pending /\ at' = "switching" /\ spent' = 0
        /\ UNCHANGED <<quantumUsecs, left, interval, pending, nested, ran, stale, cut, held>>
    BY <1>11 DEF HandlerSwitches, Goes, On
  <2>2. SectionsAreShort /\ ~held => Where'
    BY <1>1, <1>5, <2>1 DEF Where, Within
  <2>3. Failing'
    BY <1>5, <2>1 DEF Failing
  <2> QED BY <1>4, <1>5, <2>1, <2>2, <2>3
<1>12. ASSUME Resume PROVE TimerInv'
  <2>1. /\ On /\ at = "resuming" /\ at' \in {"user", "woken"} /\ spent' = 0
        /\ nested' = nested \/ (nested > 0 /\ nested' = nested - 1)
        /\ UNCHANGED <<quantumUsecs, left, interval, pending, ran, stale, cut, held>>
    BY <1>12 DEF Resume, Goes, On
  <2>2. nested' \in 0 .. MaxNested
    BY <1>1, <1>5, <2>1
  <2>3. SectionsAreShort /\ ~held => Where'
    BY <1>1, <1>5, <2>1 DEF Where, Within
  <2>4. Failing'
    BY <1>5, <2>1 DEF Failing
  <2> QED BY <1>4, <1>5, <2>1, <2>2, <2>3, <2>4
<1>13. ASSUME StartQuantum PROVE TimerInv'
  <2>1. /\ On /\ at = "switching" /\ spent' = 0 /\ ran' = 0 /\ stale' = pending /\ cut' = FALSE
        /\ held' = FALSE /\ UNCHANGED <<quantumUsecs, pending, nested>>
    BY <1>13 DEF StartQuantum, On
  <2>2. quantumUsecs \in Nat /\ quantumUsecs > 0 /\ quantumUsecs \in InitArgs
    BY <2>1 DEF TimerInv, Armed, TimerTypeOK
  <2>3. at' \in {"user", "resuming"} /\ left' = quantumUsecs /\ interval' = quantumUsecs
    BY <1>13, <2>2, SetupTimerArms DEF StartQuantum
  <2>4. /\ stale' \in BOOLEAN /\ cut' \in BOOLEAN /\ pending' \in BOOLEAN
        /\ held' \in BOOLEAN
    BY <2>1 DEF TimerInv, Armed, TimerTypeOK
  <2>5. Armed'
    BY <1>1, <2>1, <2>2, <2>3, <2>4 DEF TimerInv, Armed, TimerTypeOK, On
  <2>6. OnTime'
    BY <2>1, <2>2, <2>3 DEF OnTime
  <2>7. (On /\ SectionsAreShort /\ ~held => Age /\ Where)'
    BY <1>1, <2>1, <2>2, <2>3 DEF Age, Where, Within
  <2>8. Failing'
    BY <2>1, <2>3 DEF Failing
  <2> QED BY <2>5, <2>6, <2>7, <2>8 DEF TimerInv
<1>14. ASSUME QueryFails PROVE TimerInv'
  <2>1. /\ On /\ at = "call" /\ at' = "masked" /\ spent' = 0 /\ held' = TRUE
        /\ UNCHANGED <<quantumUsecs, left, interval, pending, nested, ran, stale, cut>>
    BY <1>14 DEF QueryFails, Goes, On
  <2>2. Failing'
    BY <1>5, <2>1 DEF Failing
  <2> QED BY <1>4, <1>5, <2>1, <2>2
<1>15. CASE UNCHANGED timerVars
  BY <1>15 DEF timerVars, TimerInv, Armed, TimerTypeOK, OnTime, Failing, On, SectionsAreShort,
               Age, Where, Within
<1> QED
  BY <1>2, <1>3, <1>6, <1>7, <1>8, <1>9, <1>10, <1>11, <1>12, <1>13, <1>14, <1>15
     DEF TimerNext, LibraryStep

LEMMA TimerInvariant == TimerSpec => []TimerInv
<1>1. TimerInit => TimerInv
  BY QuantumTimerAssumption, TimerInitInv
<1>2. TimerInv /\ [TimerNext]_timerVars => TimerInv'
  BY QuantumTimerAssumption, TimerNextInv
<1> QED BY <1>1, <1>2, PTL DEF TimerSpec

-----------------------------------------------------------------------------
(* Every quantum that uthread_init accepts arms the timer, for good.       *)
THEOREM TimerStaysArmed == TimerSpec => []TimerArmed
<1>1. TimerInv => TimerArmed
  BY DEF TimerInv, Armed, TimerArmed
<1> QED BY <1>1, TimerInvariant, PTL

(* Every variable of the timer keeps its type, for every quantum the       *)
(* client asks for.                                                        *)
THEOREM TimerTypeCorrect == TimerSpec => []TimerTypeOK
<1>1. TimerInv => TimerTypeOK
  BY DEF TimerInv, Armed
<1> QED BY <1>1, TimerInvariant, PTL

(* A quantum in which no getQuantums fails lasts as long as it should, and *)
(* the sections it ends in.                                                *)
THEOREM QuantumEndsInTime == TimerSpec => []QuantumIsBounded
<1>1. TimerInv => QuantumIsBounded
  BY DEF TimerInv, Age, QuantumIsBounded
<1> QED BY <1>1, TimerInvariant, PTL

(* Only a signal that was pending when the quantum began cuts it short.    *)
THEOREM OnlyStaleSignalsCut == TimerSpec => []CutOnlyByStale
<1>1. QuantumTimerAssumption /\ TimerInv => CutOnlyByStale
  BY DEF TimerInv, Armed, TimerTypeOK, OnTime, CutOnlyByStale, On
<1> QED BY <1>1, QuantumTimerAssumption, TimerInvariant, PTL

(* The quantum behind one that was cut short is whole.                     *)
THEOREM NoTwoCuts == TimerSpec => NotCutTwice
<1> DEFINE Whole == /\ at = "switching" /\ at' # "switching"
                    /\ SectionsAreShort
                    /\ cut /\ ran < quantumUsecs
                    => ~stale'
<1>1. ASSUME TimerInv, [TimerNext]_timerVars PROVE [Whole]_timerVars
  <2> SUFFICES ASSUME at = "switching", at' # "switching", SectionsAreShort,
                      cut, ran < quantumUsecs
               PROVE  ~stale'
    OBVIOUS
  <2>1. On /\ ran \in Nat /\ quantumUsecs \in Nat
    BY <1>1 DEF TimerInv, Armed, TimerTypeOK, On
  (* A quantum that is cut short began with the signal pending, so that no *)
  (* getQuantums has failed in it.                                         *)
  <2>2. stale
    BY <1>1, <2>1 DEF TimerInv, OnTime
  <2>3. ~pending
    BY <1>1, <2>1, <2>2 DEF TimerInv, Failing, Where
  <2>4. StartQuantum
    BY <1>1 DEF TimerNext, LibraryStep, InitScheduler, Elapse, EnterSection, Deliver,
                HandlerUnmasks, HandlerSwitches, LeaveSection, QueryFails, GiveUp, Resume, timerVars
  <2> QED BY <2>3, <2>4 DEF StartQuantum
<1> QED BY <1>1, TimerInvariant, PTL DEF TimerSpec, NotCutTwice

-----------------------------------------------------------------------------
(* The demonstration.                                                      *)

(* How long ago the expiry was that set gotit.                             *)
SinceExpiry == 3 * Second - left_usecs

LoopInv ==
  /\ place \in {"start", "loop", "got"}
  /\ gotit \in {0, 1}
  /\ left_usecs \in Nat
  /\ turn \in 0 .. MaxTurn
  /\ IF place = "start" THEN gotit = 0 /\ turn = 0
     ELSE repeats = 3 * Second /\ left_usecs \in 1 .. 3 * Second
  /\ place = "got" => gotit = 1
  /\ gotit = 1 /\ 2 * MaxTurn < 3 * Second =>
       SinceExpiry <= IF place = "got" THEN MaxTurn + turn ELSE turn
  /\ EveryExpirySeen

LEMMA DemoInitInv == TimerDemoAssumption /\ DemoInit => LoopInv
BY DEF TimerDemoAssumption, DemoInit, LoopInv, EveryExpirySeen

LEMMA DemoNextInv ==
  ASSUME TimerDemoAssumption, LoopInv, [DemoNext]_demoVars
  PROVE  LoopInv'
<1> USE TimerDemoAssumption DEF TimerDemoAssumption, LoopInv, SinceExpiry, EveryExpirySeen
<1>1. CASE StartTimer
  <2>1. left_usecs' = Second /\ repeats' = 3 * Second
    BY <1>1 DEF StartTimer, Usecs, Timeval
  <2> QED BY <1>1, <2>1 DEF StartTimer
<1>2. CASE Passes
  <2>1. /\ place # "start" /\ turn < MaxTurn /\ turn' = turn + 1
        /\ UNCHANGED <<place, repeats>>
    BY <1>2 DEF Passes
  <2>2. CASE left_usecs = 1
    <3>1. left_usecs' = 3 * Second /\ gotit' = 1 /\ missed' = (missed \/ gotit = 1)
      BY <1>2, <2>1, <2>2 DEF Passes, CountDown, Expires
    (* A whole interval after the expiry before, the flag has been cleared. *)
    <3>2. 2 * MaxTurn < 3 * Second => gotit = 0
      BY <2>1, <2>2
    <3>3. EveryExpirySeen'
      <4> SUFFICES ASSUME 2 * MaxTurn < 3 * Second PROVE ~missed'
        OBVIOUS
      <4>1. ~missed /\ ~(gotit = 1)
        BY <3>2
      <4> QED BY <3>1, <4>1, Zenon
    <3> QED BY <2>1, <3>1, <3>3
  <2>3. CASE left_usecs # 1
    <3>1. left_usecs' = left_usecs - 1 /\ UNCHANGED <<gotit, missed>>
      BY <1>2, <2>1, <2>3 DEF Passes, CountDown, Expires
    <3> QED BY <2>1, <2>3, <3>1
  <2> QED BY <2>2, <2>3
<1>3. CASE TestFlag
  BY <1>3 DEF TestFlag
<1>4. CASE ClearFlag
  BY <1>4 DEF ClearFlag
<1>5. CASE UNCHANGED demoVars
  BY <1>5 DEF demoVars
<1> QED BY <1>1, <1>2, <1>3, <1>4, <1>5 DEF DemoNext, LoopStep

(* The handler of demo_itimer.c never finds gotit still set, however long  *)
(* a second is, if two steps of the loop are shorter than the interval.    *)
THEOREM EveryExpiryIsSeen == DemoSpec => []EveryExpirySeen
<1>1. DemoInit => LoopInv
  BY DemoInitInv, TimerDemoAssumption
<1>2. LoopInv /\ [DemoNext]_demoVars => LoopInv'
  BY DemoNextInv, TimerDemoAssumption
<1>3. LoopInv => EveryExpirySeen
  BY DEF LoopInv
<1> QED BY <1>1, <1>2, <1>3, PTL DEF DemoSpec

=============================================================================
