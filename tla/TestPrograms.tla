----------------------------- MODULE TestPrograms -----------------------------
(***************************************************************************)
(* The test programs of the repository, run on module Scheduler.           *)
(*                                                                         *)
(* A program is the sequence of what main does, then those of f and of g.  *)
(* What a program prints is the sequence of the tids that print and of the *)
(* totals printed.  The programs rely on a quantum that is long against    *)
(* the code between two of their steps, so that the timer expires only     *)
(* while a thread waits in a loop; the other ticks are those they send     *)
(* themselves with kill(getpid(), SIGVTALRM).  Each main and entry point   *)
(* ends in uthread_terminate: none returns.                                *)
(***************************************************************************)
EXTENDS SchedulerProperties

CONSTANT Names  \* the programs to run

Does(op, arg) == [op |-> op, arg |-> arg]

UInit == Does("init", 0)
Spawns(entry) == Does("spawn", entry)      \* f is entry 2 and g is entry 3
Shows == Does("print", 0)
Kill == Does("kill", 0)
Sleeps(n) == Does("sleep", n)
Blocks(tid) == Does("block", tid)
Resumes(tid) == Does("resume", tid)
Terminates(tid) == Does("terminate", tid)
Spin == Does("spin", 0)                    \* while(true);
AwaitQuantums(n) == Does("await", n)       \* until the n-th quantum of its own
Announce == Does("announce", 0)            \* until another thread has printed
ShowsTotal == Does("total", 0)

OwnTid == -1   \* the argument uthread_get_tid()

(* A step, n times.                                                        *)
Times(n, step) == [i \in 1 .. n |-> step]

(* For each i of a range: wait for the i-th own quantum and print.         *)
QuantaPrinted(from, to) ==
  [k \in 1 .. 2 * (to - from + 1) |->
     IF k % 2 = 1 THEN AwaitQuantums(from + (k - 1) \div 2) ELSE Shows]

-----------------------------------------------------------------------------
(* TomTests: g of tests 1 to 4 and 7, and the three versions of f.         *)
PrintSleepPrint == <<Shows, Sleeps(1), Shows, Terminates(1)>>

PrintEnd == <<Shows, Terminates(OwnTid)>>

PrintBlockEnd == <<Shows, Blocks(1), Terminates(OwnTid)>>

Test1 == << <<UInit, Spawns(3), Spawns(2), Kill, Shows, Kill, Terminates(0)>>,
            PrintEnd, PrintSleepPrint >>

Test2 == << <<UInit, Spawns(3), Spawns(2), Kill, Resumes(1), Shows, Kill, Terminates(0)>>,
            PrintBlockEnd, PrintSleepPrint >>

Test3 == << <<UInit, Spawns(3), Spawns(2), Kill, Shows, Kill, Terminates(0)>>,
            PrintBlockEnd, PrintSleepPrint >>

Test4 == << <<UInit, Spawns(3), Spawns(2), Kill, Shows, Resumes(2), Kill, Shows, Kill,
              Terminates(0)>>,
            <<Shows, Blocks(1), Blocks(2), Shows, Resumes(1), Terminates(OwnTid)>>,
            PrintSleepPrint >>

Test6 == << <<UInit, Spawns(2), Kill, Shows, Terminates(0)>>, <<Spin>> >>

Test7 == << <<UInit, Spawns(3), Kill, Shows, Spawns(2), Kill, Shows, Kill, Terminates(0)>>,
            PrintEnd, PrintSleepPrint >>

DoNotRunThis == << <<UInit, Spawns(2), Kill, Terminates(0)>>, <<Terminates(OwnTid)>> >>

(* test0_sanity.cpp; f and g are the same but for their name.              *)
Sanity ==
  << <<UInit>> \o QuantaPrinted(1, 3) \o <<Spawns(2), Spawns(3)>> \o QuantaPrinted(4, 10)
       \o <<ShowsTotal, Terminates(0)>>,
     QuantaPrinted(1, 5) \o <<Terminates(OwnTid)>>,
     QuantaPrinted(1, 5) \o <<Terminates(OwnTid)>> >>

(* test2_two_thread.cpp: both run f, maxRounds is 3.                       *)
TwoThreads ==
  << <<UInit, Spawns(2)>> \o Times(4, Announce) \o <<Terminates(OwnTid)>>,
     Times(4, Announce) \o <<Terminates(OwnTid)>> >>

Programs ==
  [test1 |-> Test1, test2 |-> Test2, test3 |-> Test3, test4 |-> Test4,
   test6 |-> Test6, test7 |-> Test7, do_not_run |-> DoNotRunThis,
   sanity |-> Sanity, two_threads |-> TwoThreads]

(* What they say they print: TomTests' last line of output, the comment of *)
(* test2_two_thread.cpp, test0_sanity.txt.                                 *)
Expected ==
  [test1 |-> {<<1, 2, 0, 1>>}, test2 |-> {<<1, 2, 0, 1>>}, test3 |-> {<<1, 2, 0>>},
   test4 |-> {<<1, 2, 0, 2, 0, 1>>}, test6 |-> {<<0>>},
   test7 |-> {<<1, 0, 2, 1, 0>>, <<1, 0, 2, 0, 1>>},
   do_not_run |-> {<<>>},
   sanity |-> {<<0, 0, 0, 1, 2, 0, 1, 2, 0, 1, 2, 0, 1, 2, 0, 1, 2, 0, 0, 0, 20>>},
   two_threads |-> {<<0, 1, 0, 1, 0, 1, 0>>}]

-----------------------------------------------------------------------------
VARIABLES
  program,  \* the name of the one that runs
  entry,    \* tid -> the sequence of its program the thread executes
  pc,       \* tid -> the step it is at
  output

testVars == <<vars, program, entry, pc, output>>

code == Programs[program][entry[currentTid]]

atEnd == pc[currentTid] > Len(code)

step == code[pc[currentTid]]

(* Busy waiting: the thread's loop has not ended.                          *)
Waits ==
  /\ Running
  /\ ~atEnd
  /\ \/ step.op = "spin"
     \/ step.op = "await" /\ threads[currentTid].quantumCount # step.arg
     \/ step.op = "announce" /\ output # <<>> /\ Last(output) = currentTid

Executes(op) ==
  /\ status \in {"new", "running"}
  /\ ~atEnd
  /\ step.op = op
  /\ ~Waits
  /\ UNCHANGED program

GoesOn == pc' = [pc EXCEPT ![currentTid] = @ + 1]

Silent == GoesOn /\ UNCHANGED <<entry, output>>

NoCall == UNCHANGED vars

Argument == IF step.arg = OwnTid THEN currentTid ELSE step.arg

DoInit == Executes("init") /\ UthreadInit(1) /\ Silent

DoSpawn ==
  /\ Executes("spawn")
  /\ UthreadSpawn(TRUE)
  /\ LET tid == reply'.value
     IN  IF tid = -1 THEN Silent
         ELSE /\ entry' = [entry EXCEPT ![tid] = step.arg]
              /\ pc' = [pc EXCEPT ![tid] = 1, ![currentTid] = @ + 1]
              /\ UNCHANGED output

DoShow ==
  /\ \E op \in {"print", "announce", "total"} : Executes(op)
  /\ NoCall
  /\ output' = Append(output, IF step.op = "total" THEN totalQuantums ELSE currentTid)
  /\ GoesOn
  /\ UNCHANGED entry

DoKill == Executes("kill") /\ TimerHandler /\ Silent

DoSleep == Executes("sleep") /\ UthreadSleep(step.arg) /\ Silent

DoBlock == Executes("block") /\ UthreadBlock(Argument) /\ Silent

DoResume == Executes("resume") /\ UthreadResume(Argument) /\ Silent

DoTerminate == Executes("terminate") /\ UthreadTerminate(Argument) /\ Silent

DoAwait == Executes("await") /\ NoCall /\ Silent

Tick == Waits /\ TimerHandler /\ UNCHANGED <<program, entry, pc, output>>

TestInit ==
  /\ Init
  /\ program \in Names
  /\ entry = [t \in ThreadIds |-> 1]
  /\ pc = [t \in ThreadIds |-> 1]
  /\ output = <<>>

TestNext ==
  \/ DoInit \/ DoSpawn \/ DoShow \/ DoKill \/ DoSleep \/ DoBlock \/ DoResume
  \/ DoTerminate \/ DoAwait \/ Tick

TestSpec == TestInit /\ [][TestNext]_testVars

(* The process runs, and its timer expires while it waits.                 *)
TestFairSpec == TestSpec /\ WF_testVars(TestNext)

-----------------------------------------------------------------------------
Ended == status \in {"exited", "crashed"}

(* A test program prints what it says it should, and nothing else as it    *)
(* goes: the library gives its threads the processor in the order the test *)
(* is written for.                                                         *)
PrintsExpected ==
  /\ \E whole \in Expected[program] : IsPrefix(output, whole)
  /\ Ended => output \in Expected[program]

(* Every test program comes to its exit(0), whatever its threads wait for: *)
(* it meets no null or deleted Thread, and uthread_terminate(0) deletes    *)
(* every Thread before.                                                    *)
ProgramsExit == <>(status = "exited" /\ DOMAIN threads = {})

AnyUsage == CallKinds

=============================================================================
