# A TLA+ model of the uthreads library

The library is a user-level thread scheduler for one process: `uthreads.h` is its
interface, `uthreads.cpp` checks arguments, `scheduler.cpp` does the work and
`thread.cpp` is the thread control block. Threads share one kernel thread. They are
switched with `sigsetjmp`/`siglongjmp`, either by a call that gives up the processor
or by the handler of `SIGVTALRM`, which an interval timer sends once per quantum.

## Inventory

| Part | State | Operations | Talks to |
|---|---|---|---|
| Thread (`thread.h`, `thread.cpp`) | state, quantum count, user-block flag, jump buffer, stack | constructor (forges a context), destructor, getters and setters | owned by the scheduler's table |
| Scheduler (`scheduler.h`, `scheduler.cpp`) | `threads`, `readyQueue`, `sleepingThreads`, `currentTid`, `pendingDeletionTid`, `totalQuantums`, `quantumUsecs` | `init`, `spawn`, `terminate`, `block`, `resume`, `sleep`, `getQuantums`, `timerHandler`, `doContextSwitch` | called by the interface and by the signal; calls Thread, `sigprocmask`, `setitimer` |
| Interface (`uthreads.h`, `uthreads.cpp`) | none | `uthread_*`: argument checks, then the scheduler | called by client code in whichever thread runs |
| Signal mask and timer (`scheduler.cpp` 70-127) | the process's mask, pending signal and interval timer | `blockTimerSignal`, `unblockTimerSignal`, `setupTimer`, `setupSignalHandler` | the kernel |
| Client programs (`test*.cpp`, `TomTests/`) | their own | sequences of `uthread_*` calls, `kill(getpid(), SIGVTALRM)` | the interface |
| Demonstrations (`demo_jmp.c`, `demo_itimer.c`) | two jump buffers and a counter each; a flag and a timer | `yield`, `setup_thread`, `jump_to_thread`; the handler and the polling loop | the C library, the kernel |
| Other (`main.cpp`, `test5`, `test8`, `demo_singInt_handler.c`, `debugPrintThreads`, build files) | - | - | see "Not modelled" |

What is hard in this code, and what makes each part correct:

- **Context switches.** All calls that give up the processor meet in
  `doContextSwitch`, which *always* makes the running thread READY and queues it
  again (unless it is the one to be deleted). Blocking and sleeping therefore do not
  keep a thread off the processor, and a thread can have several queue entries.
  Correct means: one thread runs, it is the one `currentTid` names, nobody falls out
  of the scheduler, and the order is round robin.
- **Delayed deletion.** A thread that ends itself cannot free the stack it is on. Its
  tid goes to `pendingDeletionTid`, and the next thread that *returns* from
  `doContextSwitch` deletes it; a thread that starts for the first time does not.
  Correct means: the pending thread never runs, and is deleted once, and no other is.
- **Sleeping.** Deadlines are quantum numbers, looked at by the tick alone.
- **The signal mask.** A flag, set and cleared by functions that call each other, so the
  inner one unmasks what the outer one masked. Correct means: wherever the signal can
  arrive, the tables are in a state the handler can work on, and what a call has read
  before is still true when it acts on it.
- **Quantum accounting and the timer.** Every start of a quantum is counted once in total
  and once for one thread, and a quantum lasts as long as it should: the timer is armed
  again at each switch, while a signal may already be pending.
- **Forged jump buffers.** A thread that has never run is started by a `siglongjmp` into a
  buffer the program wrote itself, in the C library's mangled format.

`PROJECT.json` lists each of these hazards at its line, with the properties that
watch it.

## Modules

| Module | What it is |
|---|---|
| `Thread` | the control block: a record, and one operator per method |
| `Scheduler` | the library: one action per `uthread_*` function and one for the tick |
| `SchedulerProperties` | what the scheduler guarantees, and what `uthreads.h` promises |
| `TurnQueue` | abstract specification: a line of tids that take turns |
| `SchedulerPreempt` | the same library with the signal arriving inside its calls |
| `IntervalTimer` | the kernel's interval timer (external) |
| `QuantumTimer` | `setupTimer`, the pending signal and the masked sections, in time |
| `JumpDemo` | `demo_jmp.c`: forged and saved jump buffers, bit by bit |
| `TimerDemo` | `demo_itimer.c`: a handler and a loop that share a flag |
| `TestPrograms` | the test programs, as scripts run on `Scheduler` |
| `MCScheduler`, `MCPreempt`, `MCDemos` | instances for TLC: client programs; the two users of the timer and the jumps, each as a process of its own, with an address layout |
| `SchedulerTypeProofs`, `SchedulerSafetyProofs` | facts about the operators on queues and tables, and type correctness; the scheduling invariant and the safety theorems |
| `SchedulerStepProofs` | round robin, waking and quantum accounting as theorems |
| `PreemptProofs`, `PreemptStepProofs` | `SchedulerPreempt`: its invariant, for every client; round robin, the refinement, and what holds for disciplined clients |
| `TurnQueueProofs`, `JumpProofs`, `TimerProofs` | the proofs about the modules they are named for, and about `TimerDemo` in the last |

`SchedulerProperties` extends `Scheduler` (which extends `Thread`) and instantiates
`TurnQueue`. `SchedulerPreempt` and `TestPrograms` are built from the operators of
`Scheduler`, so a call has one definition, used whole in one module and in pieces in the
other. `QuantumTimer` and `TimerDemo` share `IntervalTimer`.

### Scheduler: how the state and the actions correspond

`threads`, `readyQueue`, `sleepingThreads`, `currentTid`, `pendingDeletionTid` and
`totalQuantums` are the members of `Scheduler`. A hash map is a function on the keys in
use. `timerMasked` says whether the code that runs between two calls has
`SIGVTALRM` masked; it is normally clear, and it is state because one error path leaves
it set. `status` is that of the process: `new`, `running`, `exited`, or `crashed` once
the code has used a null or freed object. `reply` is the value the last call returned,
in the thread it returned to; properties about return values need it.

A jump buffer is represented by the place it leads to (`Context` in `Thread`). That is
the one thing the scheduler's behaviour depends on: a buffer forged by the constructor
leads to the entry point, and any other into the `ret_val != 0` branch of
`doContextSwitch`, which deletes the pending thread. That the words in the buffer do lead
there is the subject of `JumpDemo`.

One step is one whole call: from the user code that makes it to the user code that
runs next. A call that switches therefore ends in *another* thread, and the step
contains that thread's return from its own `doContextSwitch`. `DoContextSwitch` follows
the code from top to bottom: requeue, save, dispatch, count, and, if the next
thread resumes, delete the pending one. Its arguments are what its caller has already
changed (`terminate` the state and the pending tid, `sleep` the sleepers, and so on).
`TimerHandler` is the handler with `wakeSleepingThreads`; sleepers due together are
queued in any order, since the code iterates over a hash map.

Branches on undefined behaviour are explicit. Dispatching a deleted tid, waking a
deleted thread, and a thread that resumes only to delete itself all lead to `crashed`.
`terminate(0)` from another thread frees the stack it runs on and may or may not get to
`exit(0)`: both are allowed.

Operators marked "Seeded fault" are plausible slips in the operator they stand beside.
They are not part of the specification; each shows that some property notices.

### SchedulerPreempt: signals inside calls

`Scheduler` is exact for the masked parts of a call, where delivery waits. This module cuts
the calls where the signal is *not* masked and something read or done before matters
after:

- `uthread_terminate`, `uthread_block`, `uthread_resume` look the tid up before the
  scheduler masks the signal; `spawn` chooses its tid, `block` and `resume` read the
  `Thread` pointer and the state before they mask;
- `removeFromReadyQueue` unmasks for its callers, `terminate` and `block`;
- `getQuantums` unmasks before it looks the thread up a second time;
- `timerHandler` unmasks before `doContextSwitch` masks again, so handlers nest.

`frames[t]` is where thread `t` is inside the library: the place, the tid the call is about,
the state it has read, and how many handlers on its stack have still to switch. A frame that
holds a `Thread*` also says whether that object is still the one in the `table`, has
been `replaced` there by a later spawn, or is `freed`; using a freed one is a crash, and
storing through a replaced one changes nothing the scheduler sees. `SignalArrives` is the
first half of the handler, `HandlerSwitches` the second. Which thread makes which calls
is a constant, `Clients`.

### QuantumTimer, TimerDemo: time

`at` is the section of code the process is in, masked or not; `Elapse` lets a microsecond of
virtual time pass, counts the timer down, starts it over from its interval and makes
the signal pending. The signal is delivered at once where it is not masked, a second one is
not remembered, and `setupTimer` leaves a pending one pending. `Split` is `setupTimer`'s
division into `tv_sec` and `tv_usec`, with `Second` as a constant in place of 10^6.
`ran`, `stale`, `cut` and `held` describe the current quantum for the properties: how long it has run,
whether the signal was pending when it began, whether the signal is ending it, and whether a query has failed in it.

A call ends either by lifting the mask (`LeaveSection`) or, in `getQuantums` of an unknown tid, by the error
return that does not (`QueryFails`, `scheduler.cpp` 341-345): the process is then in user code with the signal
masked (`at = "masked"`), where it can compute without bound or make another call. So no bound on
a quantum and no promise that it ends is made for a quantum in which this has happened: `QuantumIsBounded` is
about the others (`~held`), and `QuantaEnd` says that a quantum ends or that its thread has got there. `masked_after_error`
shows the same return in the scheduler.

`TimerDemo` polls: `TestFlag` and `ClearFlag` are the two steps between which the
handler can set the flag again. `gotit` is not declared volatile; the model is of the
build in the Makefile, which does not optimise.

### JumpDemo

`demo_jmp.c` in words of `Bits` bits: `Translate` is the assembly of `translate_address`,
`Demangle` what `siglongjmp` does with a word. A jump goes where the words really lead, and a
local variable is found through `sp`, so a wrong word is a wrong thread, stack or
return, and not an error value. The secret and the mask the process starts with are
arbitrary. `Thread`'s constructor forges its buffer with the same code, and the map
entries name both.

### TestPrograms

Each program is a sequence of steps per entry point; loops are unrolled, and
an output is the sequence of tids (or the total) it prints. `Expected` is what the program
says it prints. The timer's own ticks come only while a thread waits in a loop: the quanta
of these programs are far longer than the code between two waits. Ticks sent with `kill`
are steps of the script.

### TurnQueue: the abstract specification

Seen from outside, the scheduler is a line: the head runs, whoever it replaces goes to the
end or departs, newcomers join at the end, and whoever leaves disturbs nobody
else's order; main always has exactly one place. `TurnsAreTaken` is this specification
under the mapping `running <- currentTid`, `turns <- readyQueue`, `quanta <- totalQuantums`.
It is checked as a property of `Scheduler` and of `SchedulerPreempt`, and proved for
both.

## Runs

| Run | Client and bounds | Shows |
|---|---|---|
| `any_usage` | every call with every argument, one sleep long enough to overflow | `TypeOK`, `MainNeverLost`, `OneRunning`, `BlockedIsNotQueued`, `NoThreadLost`, `PendingNeverRuns`, `RoundRobin`, `TickWakesSleepers`, `BlockLasts`, `QuantumIsCharged`, and the refinement `TurnsAreTaken`: what the scheduler keeps however it is used |
| `ended_by_others` | everything but ending oneself or main, and unknown queries | `NeverCrashes`, `DeletedIsForgotten`, `QueueNamesReady` |
| `preempted` | signals inside calls; all calls but the unknown query; one handler per stack | `PreemptTypeOK`, `MainNeverLost`, `OneRunningOutsideHandlers`, `PendingNeverRuns`, `TurnsAreTaken`: what survives preemption for such a client |
| `disciplined` | signals inside calls; three restricted clients; handlers nest twice | `DeletedIsForgotten`, `NeverCrashes`, `TerminateNeverReturns`, `PurgedStaysOut`, `NoThreadMislaid`, `RoundRobinPreempted`, `QuantumIsCharged`, `QuantaProgress` |
| `timer_and_demos` | the timer of the library and of `demo_itimer.c`, a second of 4 microseconds; `demo_jmp.c` with words of 4 bits and every secret | `TimerTypeOK`, `TimerArmed`, `QuantumIsBounded`, `CutOnlyByStale`, `NotCutTwice`, `QuantaEnd`; `EveryExpirySeen`, `KeepsGettingIt`; `InOwnContext`, `WaitsInYield`, `BothTurn` |
| `test_programs` | seven programs of the repository | `PrintsExpected`, `ProgramsExit` |

The three clients of `disciplined` are: main manages threads that compute and block themselves (`Managed`);
threads that block and end themselves (`SelfEnding`); threads that sleep, block themselves and resume one another,
early or twice (`Sleepers`). Each property of that run but `RoundRobinPreempted`, which is proved for every client,
and each of `ended_by_others`, is false for some wider client: together the runs draw the line
between the clients the code serves correctly and those it does not. The three clients stay clear of one
order of steps altogether: a thread looks another up, and a third ends that one before the first masks the signal
(`uthreads.cpp` 27, `scheduler.cpp` 346). `SchedulerPreempt` has those steps and the code crashes there. The runs
below show what else lies behind that line.

| Run with a counterexample | Property | What the code does |
|---|---|---|
| `spawn_interrupted` | `SpawnIsFresh` | `spawn` chooses its tid before it masks the signal; a tick in between lets another thread spawn under the same tid, and one of the two threads is lost |
| `terminate_interrupted` | `DeletedIsForgotten` | `removeFromReadyQueue` unmasks inside `terminate`; a tick there wakes the thread about to be deleted and queues it again |
| `test1_crashes` | `NeverCrashes` | `TomTests/test1.cpp`: a thread that slept has two queue entries; after it ends itself the second is dispatched |
| `test7_prints` | `PrintsExpected` | `TomTests/test7.cpp`: a thread that sleeps runs at its next turn, before the one it should come after |
| `stale_pending_deletes` | `OnlyTerminatedDisappear` | a new thread with the tid of one that ended itself is deleted in its place |
| `masked_after_error` | `QuantaProgress` | an error return leaves the timer signal masked |

`PROJECT.json` quotes, for each, the comment or test that says otherwise.

Two more disagreements with `uthreads.h` show in the model without a run of their own. `resume` leaves the user-block flag
set (`scheduler.cpp` 267), and `block` returns 0 at once when it is set (210-212): a thread that was blocked and resumed
cannot be blocked a second time, which is why `BlockLasts` starts from a thread that *is* BLOCKED. And `terminate(0)` from
another thread deletes the stack it runs on (171-177) before the `exit(0)` that lines 51-52 promise: `TerminateMain` leaves
open whether the process exits or crashes, so a run could only repeat that choice.

### Bounds, and why they are enough

- *Three tids* (main and two others): the table can be full, a tid can be reused, and two
  threads can end, sleep or wake together. The invariants of `any_usage` were also checked
  with four, and are proved for any number.
- *`MaxQuantums`*, a guard of the switch and the only bound on the scheduler's behaviour: 6 in
  `any_usage` (391 148 states), 7 in `ended_by_others`, 4 in `preempted`, 5 in
  `disciplined` (420 746 states).
  Six quanta let each thread run twice, which covers the longest patterns met
  here: end, reuse the tid, switch, return. The runs with signals inside calls get by with fewer, because they split each
  quantum into many steps.
- *`IntMax` 15* stands for `INT_MAX`; a sleep of 15 quanta overflows it.
- *`MaxHandlers`*: one handler per stack in `preempted`, which still gives each of three threads
  one of its own; two in `disciplined`, so that one interrupts another.
- *`timer_and_demos`* (15 180 states): with 4 microseconds to the second the arguments 1, 4, 9, 12 and 21 are a
  fraction of a second, whole seconds, and seconds with a rest; 0 and -1 are refused. For 1 and 4 a
  quantum is shorter than the four sections (2 microseconds each) that can come between an expiry
  and the next quantum, and `SectionsAreShort` is false; for the others it holds. `MaxRan` 30 is more than any quantum may last; beyond it the count
  stops. `MaxNested` 2 is where the count of interrupted handlers stops: at 2 there may be more, and a handler that
  resumes may leave 2 behind, so no nesting is excluded. Two turns of the demonstration's loop (5 microseconds each) just
  fit in its interval of 12. For `demo_jmp.c` sixteen words tell the nine places apart; every secret of four bits and both
  inherited masks are tried.
- *`test_programs`*: `MaxQuantums` 60 is above what any of the programs uses, so the
  bound is never met. 145 states, since the programs leave little open.

Deadlock is checked in `timer_and_demos`, whose programs never end. It is not in the other runs, because there the process
exits, crashes or reaches the bound; progress is checked as a liveness property instead.

### Fairness

- `FairSpec` and `PreemptFairSpec` assume weak fairness of the tick and nothing else. The
  timer is armed by `init` and again by every switch, with an interval equal to its first value,
  so it fires as long as the process consumes CPU time, and the kernel delivers
  the signal when it is not masked. Weak fairness is enough because a pending signal stays pending;
  no client is assumed to make any call.
- `MCFairSpec`: virtual time passes while the process runs (`Elapse`, `Passes`), a
  section of the library ends (`LibraryStep`), the loop of `demo_itimer.c` goes round (`LoopStep`), and
  the next instruction of `demo_jmp.c` is executed (`JumpNext`); each only in its own process. `TimerFairSpec` and
  `JumpFairSpec` state the same for one process alone. No fairness is assumed of `EnterSection`: a thread need
  not make a call.
- `TestFairSpec`: the processor executes the next step of the one thread that runs.

## Proofs

TLAPS checks all of these for every value of the constants allowed by the named assumptions,
which say no more than that the numbers are numbers in range, the calls are calls of
the library, and distinct places have distinct addresses. In particular the theorems about the
scheduler hold for every number of threads, and for every client unless the table says which.

| Module | Theorem | Property | Of which clients |
|---|---|---|---|
| `SchedulerTypeProofs` | `TypeCorrect` | `TypeOK` | all |
| `SchedulerSafetyProofs` | `MainIsNeverLost`, `OneThreadRuns`, `BlockedIsNeverQueued`, `NoThreadIsLost`, `PendingThreadNeverRuns` | `MainNeverLost`, `OneRunning`, `BlockedIsNotQueued`, `NoThreadLost`, `PendingNeverRuns` | all |
| | `NoCrashUnlessSelfEnded`, `DeletedIsForgottenUnlessSelfEnded`, `QueueIsExactUnlessSelfEnded` | `NeverCrashes`, `DeletedIsForgotten`, `QueueNamesReady` | `NoneEndsItself` |
| | `NoCrashWhenSelfEnded`, `NoReturnWhenSelfEnded`, `DeletedIsForgottenWhenSelfEnded` | `NeverCrashes`, `TerminateNeverReturns`, `DeletedIsForgotten` | `EndsOnlyItself` |
| `SchedulerStepProofs` | `TurnsComeRound`, `NoSleeperIsForgotten`, `BlocksLast`, `EveryQuantumIsCharged` | `RoundRobin`, `TickWakesSleepers`, `BlockLasts`, `QuantumIsCharged` | all |
| | `OnlyTerminatedGo` | `OnlyTerminatedDisappear` | `EndsOneWay` |
| `TurnQueueProofs` | `SchedulerTakesTurns` | `TurnsAreTaken` | all |
| `PreemptProofs` | `PreemptInvariant` | (the inductive invariant) | all |
| | `PreemptTypeCorrect`, `MainSurvivesSignals`, `OneRunsOutsideHandlers`, `PendingNeverRunsPreempted` | `PreemptTypeOK`, `MainNeverLost`, `OneRunningOutsideHandlers`, `PendingNeverRuns` | all |
| `PreemptStepProofs` | `PreemptedTurnsAreTaken`, `PreemptedTurnsComeRound` | `TurnsAreTaken`, `RoundRobinPreempted` | all |
| | `PreemptedQuantaAreCharged` | `QuantumIsCharged` | `OneSpawner` |
| | `NoCrashUnderMain`, `PurgedStaysOutUnderMain`, `NobodyMislaidUnderMain` | `NeverCrashes`, `PurgedStaysOut`, `NoThreadMislaid` | `MainManages` |
| | `NoCrashForItself`, `NoReturnForItself`, `DeletedIsForgottenForItself` | `NeverCrashes`, `TerminateNeverReturns`, `DeletedIsForgotten` | `EachForItself` |
| | `NobodyMislaidUnlessTakenOff` | `NoThreadMislaid` | `NobodyTakenOff` |
| | `NobodyMislaidUnlessEnded` | `NoThreadMislaid` | `NoneEndsAnother` |
| `JumpProofs` | `ThreadsStayInContext`, `OtherWaitsInYield`, `TranslateIsDecoded` | `InOwnContext`, `WaitsInYield` | |
| `TimerProofs` | `TimerTypeCorrect`, `TimerStaysArmed`, `QuantumEndsInTime`, `OnlyStaleSignalsCut`, `NoTwoCuts` | `TimerTypeOK`, `TimerArmed`, `QuantumIsBounded`, `CutOnlyByStale`, `NotCutTwice` | |
| | `EveryExpiryIsSeen` | `EveryExpirySeen` | |

**Scheduling.** No one of the five invariants is inductive. The argument goes through main.
Main has run before, so whenever it is dispatched it returns through `sigsetjmp` and clears
`pendingDeletionTid`; it cannot block or sleep, it is never deleted while the process
runs, and so it is READY with exactly one entry whenever it does not run (`MainReady`). A queue
that holds main is not empty, so no call meets the "no threads left to run" branches. A new thread
that was given a pending tid is appended behind main (`PendingBehindMain`), so main clears the
variable first. `OthersWait` carries the rest: a thread other than the running one
is queued, BLOCKED with no entry, or ended. `SchedulingInv` is their conjunction;
`SwitchKeepsInv` proves the switch once, for whatever its callers prepare, and
`SchedulingNext` has a step for each action.

`removeFromReadyQueue` is a recursive function over the queue. What it preserves is
proved in `SchedulerTypeProofs` by well-founded descent to a least counterexample (`LeastNatural`),
because the library's induction theorems take an operator parameter that the installed provers
cannot instantiate.

**Nobody gone is used.** In general the queue and the sleepers may name threads that are gone: one that
ended itself stays where it was queued, asleep or pending. If no thread ends itself or main
(`NoneEndsItself`), all deletions are made by `terminate` of another thread, which takes the tid off both tables
first, so everything they name is in the table and nothing is ever pending (`AllInTable`). That invariant
makes a crash impossible, and with `OthersWait` the queue exact.

**Delayed deletion.** The opposite case is a client in which a thread ends nobody but itself (`EndsOnlyItself`). A thread
ends while it runs, and then has no queue entry, provided a waiting thread has only one: a sleep would give it a
second. What could still bring it back is a call about its tid before it is deleted: a block, which makes
it BLOCKED, and then a resume, which queues it. So a client may have `block_other` or `resume` but
not both; with either alone `LiveWaitOnce` and `PendingHasEnded` are kept, and the pending thread is neither
queued nor asleep when it is deleted. Both exclusions are needed: with a sleep `test1_crashes` is the counterexample.

That only the thread meant is deleted needs less (`EndsOneWay`). The pending tid stands for the thread that ended itself until
another call ends that thread a second time and its tid is given away, as in
`stale_pending_deletes`. If threads end themselves but not one another, or one another but not themselves, that cannot
happen (`PendingIsKnown`), whatever else they do.

**Turns.** With the types and `SchedulingInv`, each action maps to one step of
`TurnQueue`: a spawn, a resume or a waking is an arrival, a block or termination of another
thread a departure, each switch a turn (`SwitchTakesTurn`), an error return a stutter. The
one recursive piece is again `removeFromReadyQueue`, which has to be shown to keep the order
of what it leaves: the witness for `IsWithout` is the map from each entry to where it was.

**Steps.** Accounting and waking go through the same case split: no caller of `doContextSwitch` touches a
count, so it is enough to follow the switch (`SwitchCharges`), and the tick (`TickWakes`). Round robin is
read off the refinement: an arrival or a turn keeps or shortens the way of everyone in the line, and a departure
keeps the order of the rest (`NotBack`, by induction on the places). What `TurnQueue` does not know, namely that a
thread that departs without running is BLOCKED or deleted, is `LeavesToWait`. That a block lasts (`BlocksLast`) needs from the
invariant that a BLOCKED thread neither runs nor is queued: then the switch passes it by (`SwitchPassesBy`).

**Jumps.** Rotation left and right are inverse and xor with the same word is its own inverse, bit
by bit; so a forged or saved word is decoded to the address it was made from (`TranslateIsDecoded`).
`JumpInv` then says of each filled buffer where it leads, and with which mask.

**Time.** `TimerInv` has five parts: the timer is armed with the whole quantum (`Armed`), the age
of the quantum and the time left on the timer add up to the quantum until it first expires
(`OnTime`), afterwards the time spent in the sections behind the expiry bounds the age (`Age`),
and each place in the code is where the signal may or may not be pending (`Where`). The last two hold as long as no
`getQuantums` has failed in the quantum; what does hold when one has, `Failing`, is that the quantum did not begin with the signal
pending, since its thread got to make a call, and so is not one that is cut short. For the
demonstration `LoopInv` says that a set flag implies that less time has passed since the last
expiry than two turns of the loop take.

**Preemption.** Signals inside the calls break most of `SchedulingInv`. `OthersWait` goes: a thread can be off the queue while a
call holds it, or on it although BLOCKED. What is left is `PreemptInv`: `SchedulingCore`, main's part and the running thread's, and `FramesCore`,
which ties each interrupted call to the tables. The pending thread is the hard case. A call
that chose its tid, or found it BLOCKED, or took it off the queue *before* it ended could bring it back in front of
main. But as long as a thread is pending only threads that have never run are started, since any other clears
`pendingDeletionTid` first; so the running thread's call chose its tid or took its thread off in this very quantum: the tid is still free,
and the thread, if it is the pending one, goes back behind main (`PendingUntouched`). `Effects` lists the few things that any
action can do to the tables; `EveryStepHasEffects` shows it once, and the refinement and the
invariant are proved of `Effects` rather than of each action.

**Disciplined clients.** The rest of what the calls promise is false for some client, as the runs show. Each
discipline is a condition on `callers`, so it covers a whole family of clients and not only the ones the runs use,
and it has an invariant that says what a call still knows when it acts:

- `OneSpawner` (all three clients of `disciplined`): nobody else can take the tid between its choice and its
  use (`SpawnersInv`), so no spawn replaces a thread and its count of quanta. With two spawners one does:
  `spawn_interrupted`.
- `MainManages` (`Managed`): the others only compute or block themselves, so nothing main has found out
  changes before it acts: a thread that blocks itself is READY and queued when it has given up the processor, as after a tick.
  The one thread off the queue is the one in main's hands (`ManagedInv`).
- `EachForItself` (`SelfEnding`): a call about the running thread cannot be overtaken, so every
  thread that waits is queued exactly once, nobody that ended is, and the pending tid stands for
  the thread that ended under it (`ItselfInv`). Sleeping is excluded because `doContextSwitch` requeues a
  sleeper, which gives it two entries.
- `NobodyTakenOff` (`SelfEnding` and `Sleepers`): only a call that ends or blocks *another* thread takes it
  off the queue, since a call about the running thread finds it RUNNING; so whoever waits stays queued,
  twice perhaps, and a thread that is not queued has ended (`UntakenInv`).
- `NoneEndsAnother` (`BlockingClient`): one thread spawns and a thread ends only itself. A block takes its thread off the
  queue one step before it marks it BLOCKED, with the signal unmasked in between (`scheduler.cpp` 32). It then marks
  that very thread, or crashes on the pointer to one that has ended. What it cannot do is mark another: the thread that
  blocks is itself not ended in between, and a tid in use is not spawned over (`HeldInv`).

Two clients stand in the MC modules without a run of their own. The theorems about them were checked on small instances before
they were proved: `SelfEnded` (in `EndsOnlyItself` and `EndsOneWay`) with four tids and eight quanta, 355 474 states, so
that two threads can end one after the other before any resumes; `BlockingClient` (in `NoneEndsAnother`) with three tids,
one handler and five quanta, 1 069 920 states. To repeat it, use them in place of the client in `ended_by_others.cfg` and `preempted.cfg`.

**Only model-checked:** `PrintsExpected`, which is about particular programs; the properties of `disciplined` for the clients named under
"What is left"; and all liveness (`QuantaProgress`,
`QuantaEnd`, `KeepsGettingIt`, `ProgramsExit`, `BothTurn`), which is beyond the prover.

## What the models leave out of the code they cover

- Neighbouring unmasked reads are one step: `scheduler.cpp` 207-213 in `block`, 250-255 in `resume`.
- So is the deletion in `terminate` (185-187), which is unmasked when the thread was READY. A tick
  between 186 and 187 finds a freed object in the table; a thread that names the same tid there would use it.
- An operation of `std::unordered_map`, `std::queue` or `new` is atomic. A signal in the middle of
  one, in the unmasked part of a call, is undefined behaviour of its own that the model does not follow.
- `uthread_init` is called once and first, as `uthreads.h` lines 23-24 ask.
- `uthread_get_tid` and `uthread_get_total_quantums` read a variable the model has under the
  same name.

## Not modelled

- Failures of system calls, each of which prints a message and ends the process with `exit(1)`,
  and a stack overflow: they depend on nothing the library keeps.
- `debugPrintThreads` and all other output of the library: it works on copies and nothing calls it.
- `main.cpp`. Its assertion that two quanta have passed (line 46) does not wait for anything:
  `uthread_spawn` (line 39) only queues the child, and the quantum is a second long, so main arrives there in
  its first quantum. The comment at line 40, "When child finishes, we're back here", supposes that
  spawning switches. Everything else it does is in the other programs.
- `TomTests/test5.cpp` and `test8.cpp`, which compile and run `DoNotRunThis.cpp` and `DoNotRunThis2.cpp` under
  the address sanitizer. The first program is in `TestPrograms`. In the second a thread other than
  main calls `terminate(0)`: see `TerminateMain` above.
- `demo_singInt_handler.c`: it prints when `SIGINT` comes and keeps no state.
- Build files, generated CMake output, editor settings, the written answers in `src/README`.

## What is left

Every safety invariant and action property of a passing run, except `PrintsExpected`, is stated by a theorem for every
client or for the clients given above, and `OnlyTerminatedDisappear`, which one of the counterexamples is about, by `OnlyTerminatedGo`.
For the clients of `disciplined` some are only model-checked: `NeverCrashes` for `Sleepers`, `DeletedIsForgotten` for
`Managed` and `Sleepers`. `TerminateNeverReturns` is proved for `SelfEnding` and `PurgedStaysOut` for `Managed`; the other
clients do not make the calls these two are about. What the project does not show:

- A quantum in which a `getQuantums` has failed has no bound, in the code as in the model.
- How far the library works when one thread ends another that a third has looked up: it does not, and no discipline allows it.
- `EachForItself` and `NoneEndsAnother` ask for a single spawner. For the first this is no weakness of the proof: when
  two spawns choose the same tid it is queued twice, and `NeverCrashes` is violated once threads end themselves.
- The deletion in `terminate` is one step of `SchedulerPreempt` although the signal may come inside it (see above).
- The clients of the theorems are described by the calls they make. A program that makes more kinds of
  calls, but never in the order that does harm, is covered by no discipline; the programs of the repository are checked
  by `test_programs` instead.
- Liveness with signals inside the calls is checked only for the clients of `disciplined`.
