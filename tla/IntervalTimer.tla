---------------------------- MODULE IntervalTimer ----------------------------
(***************************************************************************)
(* What the kernel makes of ITIMER_VIRTUAL: the clock of the scheduler     *)
(* (module QuantumTimer) and of demo_itimer.c (module TimerDemo).  It      *)
(* counts microseconds of the process down, raises SIGVTALRM at zero and   *)
(* starts over with its interval; a timer at zero is disarmed.             *)
(***************************************************************************)
EXTENDS Integers

CONSTANT Second  \* 1000000, scaled down

(* struct timeval; setitimer refuses one that is not normalised.           *)
Timeval(sec, usec) == [sec |-> sec, usec |-> usec]

Usecs(t) == t.sec * Second + t.usec

Valid(t) == t.sec >= 0 /\ t.usec \in 0 .. Second - 1

(* The time left of a timer a microsecond later.                           *)
CountDown(left, interval) ==
  IF left = 1 THEN interval ELSE IF left = 0 THEN 0 ELSE left - 1

Expires(left) == left = 1

=============================================================================
