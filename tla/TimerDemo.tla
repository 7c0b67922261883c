------------------------------ MODULE TimerDemo ------------------------------
(***************************************************************************)
(* demo_itimer.c: a loop that polls a flag which the handler of SIGVTALRM  *)
(* sets.  The timer expires after one second and every three seconds after *)
(* that.  The flag is tested and cleared in two steps, and the signal is   *)
(* never masked, so the handler can come between them.                     *)
(*                                                                         *)
(* `place` is where main is: "start", "loop" before the test of gotit, or  *)
(* "got" behind it, before gotit is cleared.                               *)
(***************************************************************************)
EXTENDS IntervalTimer

CONSTANT MaxTurn  \* bound: microseconds between two steps of the loop

ASSUME TimerDemoAssumption == Second \in Nat \ {0} /\ MaxTurn \in Nat

VARIABLES
  place,
  gotit,
  left_usecs,  \* of the timer
  repeats,     \* what it starts over with
  turn,        \* microseconds since the last step of the loop
  missed       \* the handler has found gotit set: two expiries became one

demoVars == <<place, gotit, left_usecs, repeats, turn, missed>>

(* Seeded fault: the timer is set to expire once.                          *)
StartTimer_Once ==
  /\ place = "start"
  /\ place' = "loop"
  /\ left_usecs' = Usecs(Timeval(1, 0))
  /\ repeats' = Usecs(Timeval(0, 0))
  /\ UNCHANGED <<gotit, turn, missed>>

StartTimer ==
  /\ place = "start"
  /\ place' = "loop"
  /\ left_usecs' = Usecs(Timeval(1, 0))
  /\ repeats' = Usecs(Timeval(3, 0))
  /\ UNCHANGED <<gotit, turn, missed>>

(* A microsecond passes; timer_handler runs when the timer expires.        *)
Passes ==
  /\ place # "start"
  /\ turn < MaxTurn
  /\ turn' = turn + 1
  /\ left_usecs' = CountDown(left_usecs, repeats)
  /\ IF Expires(left_usecs)
     THEN gotit' = 1 /\ missed' = (missed \/ gotit = 1)
     ELSE UNCHANGED <<gotit, missed>>
  /\ UNCHANGED <<place, repeats>>

TestFlag ==
  /\ place = "loop"
  /\ place' = IF gotit = 1 THEN "got" ELSE "loop"
  /\ turn' = 0
  /\ UNCHANGED <<gotit, left_usecs, repeats, missed>>

(* Seeded fault: the flag stays set.                                       *)
ClearFlag_Not ==
  /\ place = "got"
  /\ place' = "loop"
  /\ turn' = 0
  /\ UNCHANGED <<gotit, left_usecs, repeats, missed>>

ClearFlag ==
  /\ place = "got"
  /\ place' = "loop"
  /\ gotit' = 0
  /\ turn' = 0
  /\ UNCHANGED <<left_usecs, repeats, missed>>

DemoInit ==
  /\ place = "start"
  /\ gotit = 0
  /\ left_usecs = 0
  /\ repeats = 0
  /\ turn = 0
  /\ missed = FALSE

LoopStep == StartTimer \/ TestFlag \/ ClearFlag

DemoNext == Passes \/ LoopStep

DemoSpec == DemoInit /\ [][DemoNext]_demoVars

-----------------------------------------------------------------------------
(* The handler and the loop share gotit without masking the signal.  If    *)
(* two steps of the loop take less than the interval, no expiry is lost    *)
(* between the test and the clearing, or coalesces with the next.          *)
EveryExpirySeen == 2 * MaxTurn < 3 * Second => ~missed

(* "Got it!" is printed again and again: the timer starts over each time,  *)
(* and the loop takes notice.                                              *)
KeepsGettingIt == place # "start" ~> place = "got"

=============================================================================
