------------------------------- MODULE Thread -------------------------------
(***************************************************************************)
(* The thread control block of thread.h and thread.cpp.                    *)
(*                                                                         *)
(* A Thread object is a record.  Its stack is represented only by the      *)
(* object's existence: the destructor frees the one with the other.  Its   *)
(* sigjmp_buf is represented by the place where a siglongjmp to it would   *)
(* continue:                                                               *)
(*   "unset"     never filled in (main, before its first switch);          *)
(*   "entry"     the forged buffer of the constructor: entryPoint, on an   *)
(*               empty stack and with an empty signal mask;                *)
(*   "timer", "terminate", "block", "sleep"                                *)
(*               inside doContextSwitch, called on behalf of that function.*)
(***************************************************************************)
EXTENDS Integers

ThreadState == {"READY", "RUNNING", "BLOCKED"}

Context == {"unset", "entry", "timer", "terminate", "block", "sleep"}

ThreadObject == [state        : ThreadState,
                 quantumCount : Nat,
                 didUserBlock : BOOLEAN,
                 env          : Context]

(* Thread::Thread.  A new thread is READY and has run for no quantum; only  *)
(* main (id 0) is left without a forged context.                           *)
NewThread(id) == [state        |-> "READY",
                  quantumCount |-> 0,
                  didUserBlock |-> FALSE,
                  env          |-> IF id = 0 THEN "unset" ELSE "entry"]

(* Thread::setState *)
SetState(thread, newState) == [thread EXCEPT !.state = newState]

(* Thread::incrementQuantumCount *)
IncrementQuantumCount(thread) == [thread EXCEPT !.quantumCount = @ + 1]

(* Thread::setBlockFlag *)
SetBlockFlag(thread, flag) == [thread EXCEPT !.didUserBlock = flag]

(* sigsetjmp(thread->getEnv(), 1), reached from the function `site`. *)
SaveEnv(thread, site) == [thread EXCEPT !.env = site]

=============================================================================
