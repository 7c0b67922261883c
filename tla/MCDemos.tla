------------------------------- MODULE MCDemos -------------------------------
(***************************************************************************)
(* What the repository tries out apart from the scheduler, for model       *)
(* checking, each in a process of its own: the interval timer in           *)
(* demo_itimer.c and then in the library, and the forged jump buffers in   *)
(* demo_jmp.c.  No process touches the variables of another.               *)
(***************************************************************************)
EXTENDS QuantumTimer, TimerDemo, JumpDemo, Sequences, SequencesExt

VARIABLE program

(* Words of four bits: as many as tell the places of demo_jmp.c apart.     *)
Binary(n) == [i \in 0 .. 3 |-> (n \div 2 ^ i) % 2]

Order == <<"main", "yield", "main_stack", "thread0", "thread1",
           "stack0", "stack1", "frame0", "frame1">>

Numbered == [p \in ToSet(Order) |-> Binary(CHOOSE n \in DOMAIN Order : Order[n] = p)]

(* Quanta of no length, of parts of a second, of seconds and of both.      *)
QuantumArgs == {-1, 0, 1, 4, 9, 12, 21}

Runs(name, step, others) ==
  program = name /\ step /\ UNCHANGED <<program, others>>

(* The variables of demo_jmp.c have one value in the other processes.      *)
MCInit ==
  /\ TimerInit /\ DemoInit /\ JumpInit
  /\ program \in {"library", "demo_itimer", "demo_jmp"}
  /\ program # "demo_jmp" => secret = [i \in Index |-> 0] /\ ~masked

MCNext ==
  \/ Runs("library", TimerNext, <<demoVars, jumpVars>>)
  \/ Runs("demo_itimer", DemoNext, <<timerVars, jumpVars>>)
  \/ Runs("demo_jmp", JumpNext, <<timerVars, demoVars>>)

mcVars == <<timerVars, demoVars, jumpVars, program>>

(* Virtual time passes while the process runs, a section of the library    *)
(* ends, the loop of demo_itimer.c goes on, and the processor executes the *)
(* next instruction of demo_jmp.c.                                         *)
MCFairSpec ==
  /\ MCInit /\ [][MCNext]_mcVars
  /\ WF_timerVars(program = "library" /\ Elapse)
  /\ WF_timerVars(program = "library" /\ LibraryStep)
  /\ WF_demoVars(program = "demo_itimer" /\ Passes)
  /\ WF_demoVars(program = "demo_itimer" /\ LoopStep)
  /\ WF_jumpVars(program = "demo_jmp" /\ JumpNext)

=============================================================================
