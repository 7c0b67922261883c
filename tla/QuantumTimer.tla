----------------------------- MODULE QuantumTimer -----------------------------
(***************************************************************************)
(* The clock of the scheduler: ITIMER_VIRTUAL as setupTimer arms it, the   *)
(* signal it raises, and the sections in which the library masks it.       *)
(*                                                                         *)
(* Time is virtual time, counted in microseconds by Elapse.  The signal is *)
(* delivered at once where it is not masked and stays pending where it is; *)
(* a second one is not remembered.                                         *)
(*                                                                         *)
(* Which thread runs does not matter here.  `at` is where the process is:  *)
(*   "new", "failed"  before uthread_init; after a failed setitimer;       *)
(*   "user"           in user code;                                        *)
(*   "call"           in a masked section of a call;                       *)
(*   "waking"         in timerHandler, masked (62-63);                     *)
(*   "woken"          in timerHandler, unmasked (65);                      *)
(*   "switching"      in doContextSwitch, masked, before setupTimer;       *)
(*   "resuming"       in doContextSwitch, masked, behind siglongjmp;       *)
(*   "masked"         in user code, masked: after a failed getQuantums.    *)
(***************************************************************************)
EXTENDS IntervalTimer

CONSTANTS
  InitArgs,    \* the arguments passed to uthread_init
  MaxSection,  \* bound: microseconds spent in one section of the library
  MaxNested,   \* bound of the exploration: where the count of handlers that
               \* others have interrupted stops; there may then be more
  MaxRan       \* bound of the exploration: where the count of microseconds of
               \* a quantum stops, beyond the longest that should happen

ASSUME QuantumTimerAssumption ==
  /\ Second \in Nat \ {0}
  /\ InitArgs \subseteq Int
  /\ MaxSection \in Nat
  /\ MaxNested \in Nat
  /\ MaxRan \in Nat
  /\ \A usecs \in InitArgs : usecs + 4 * MaxSection < MaxRan

VARIABLES
  at,
  quantumUsecs,  \* Scheduler::quantumUsecs
  left,          \* microseconds before the timer expires, 0 if disarmed
  interval,      \* what it starts over with
  pending,       \* SIGVTALRM is pending
  nested,        \* handlers that wait, unmasked, for one on top of them
  spent,         \* microseconds spent in this section
  ran,           \* microseconds since this quantum began
  stale,         \* the signal was already pending when this quantum began
  cut,           \* this quantum is being ended by the signal
  held           \* a getQuantums that failed in this quantum has left the
                 \* signal masked

timerVars == <<at, quantumUsecs, left, interval, pending,
               nested, spent, ran, stale, cut, held>>

Masked == at \in {"call", "waking", "switching", "resuming", "masked"}

On == at \notin {"new", "failed"}

InLibrary == On /\ at \notin {"user", "masked"}

(* The sections between the expiry of the timer and the next quantum - the *)
(* one of a call, the three of the handler and its switch - are shorter    *)
(* than a quantum.                                                         *)
SectionsAreShort == 4 * MaxSection < quantumUsecs

(* Seeded fault: the microseconds left of the seconds are dropped.         *)
Split_WholeSeconds(usecs) == Timeval(usecs \div Second, 0)

(* The two halves of the quantum in it_value and it_interval.              *)
Split(usecs) == Timeval(usecs \div Second, usecs % Second)

SetItimer(value, next) == left' = Usecs(value) /\ interval' = Usecs(next)

(* setupTimer, and where the process goes from there.                      *)
SetupTimer(usecs, to) ==
  IF Valid(Split(usecs))
  THEN SetItimer(Split(usecs), Split(usecs)) /\ at' = to
  ELSE at' = "failed" /\ UNCHANGED <<left, interval>>

-----------------------------------------------------------------------------
(* Seeded fault: uthread_init takes any quantum.                           *)
InitScheduler_Unchecked(usecs) ==
  /\ at = "new"
  /\ quantumUsecs' = usecs
  /\ SetupTimer(usecs, "user")
  /\ UNCHANGED <<pending, nested, spent, ran, stale, cut, held>>

(* Scheduler::init; main's first quantum begins.                           *)
InitScheduler(usecs) ==
  /\ at = "new"
  /\ usecs > 0
  /\ quantumUsecs' = usecs
  /\ SetupTimer(usecs, "user")
  /\ UNCHANGED <<pending, nested, spent, ran, stale, cut, held>>

(* The process runs for a microsecond.                                     *)
Elapse ==
  /\ On
  /\ InLibrary => spent < MaxSection
  /\ Masked \/ ~pending
  /\ left' = CountDown(left, interval)
  /\ pending' = (pending \/ Expires(left))
  /\ spent' = IF InLibrary THEN spent + 1 ELSE spent
  /\ ran' = IF ran < MaxRan THEN ran + 1 ELSE ran
  /\ UNCHANGED <<at, quantumUsecs, interval, nested, stale, cut, held>>

Goes(to) == at' = to /\ spent' = 0

(* The signal is delivered as soon as it is not masked: timerHandler runs, *)
(* on top of another one if need be.                                       *)
Deliver ==
  /\ at \in {"user", "woken"}
  /\ pending
  /\ nested' = IF at = "woken" /\ nested < MaxNested THEN nested + 1 ELSE nested
  /\ Goes("waking")
  /\ pending' = FALSE
  /\ cut' = TRUE
  /\ UNCHANGED <<quantumUsecs, left, interval, ran, stale, held>>

(* blockTimerSignal and unblockTimerSignal around a section of a call.     *)
EnterSection ==
  /\ at = "masked" \/ (at = "user" /\ ~pending)
  /\ Goes("call")
  /\ UNCHANGED <<quantumUsecs, left, interval, pending, nested, ran, stale, cut, held>>

(* Seeded fault: the mask is not lifted.                                   *)
LeaveSection_Masked ==
  /\ at = "call"
  /\ Goes("masked")
  /\ UNCHANGED <<quantumUsecs, left, interval, pending, nested, ran, stale, cut, held>>

LeaveSection ==
  /\ at = "call"
  /\ Goes("user")
  /\ UNCHANGED <<quantumUsecs, left, interval, pending, nested, ran, stale, cut, held>>

(* The error return of getQuantums, without unblockTimerSignal.            *)
QueryFails ==
  /\ at = "call"
  /\ Goes("masked")
  /\ held' = TRUE
  /\ UNCHANGED <<quantumUsecs, left, interval, pending, nested, ran, stale, cut>>

(* The thread that resumes returns to its code, or to a handler of its own *)
(* that was interrupted before it could switch.                            *)
Resume ==
  /\ at = "resuming"
  /\ \/ Goes("user") /\ UNCHANGED nested
     \/ nested > 0 /\ Goes("woken") /\ nested' = nested - 1
     \/ nested = MaxNested /\ nested > 0 /\ Goes("woken") /\ UNCHANGED nested
  /\ UNCHANGED <<quantumUsecs, left, interval, pending, ran, stale, cut, held>>

(* terminate, block and sleep switch in the section they are in.           *)
GiveUp ==
  /\ at = "call"
  /\ Goes("switching")
  /\ UNCHANGED <<quantumUsecs, left, interval, pending, nested, ran, stale, cut, held>>

(* timerHandler unmasks the signal when it has woken the sleepers, and     *)
(* doContextSwitch masks it again.                                         *)
HandlerUnmasks ==
  /\ at = "waking"
  /\ Goes("woken")
  /\ UNCHANGED <<quantumUsecs, left, interval, pending, nested, ran, stale, cut, held>>

HandlerSwitches ==
  /\ at = "woken"
  /\ ~pending
  /\ Goes("switching")
  /\ UNCHANGED <<quantumUsecs, left, interval, pending, nested, ran, stale, cut, held>>

(* Seeded fault: the timer is left as it is.                               *)
StartQuantum_NotArmed ==
  /\ at = "switching"
  /\ at' \in {"resuming", "user"}
  /\ spent' = 0
  /\ ran' = 0
  /\ stale' = pending
  /\ cut' = FALSE
  /\ held' = FALSE
  /\ UNCHANGED <<quantumUsecs, left, interval, pending, nested>>

(* The end of doContextSwitch: setupTimer, then siglongjmp to a thread     *)
(* that resumes masked, or to one that starts with an empty mask.          *)
StartQuantum ==
  /\ at = "switching"
  /\ \E to \in {"resuming", "user"} : SetupTimer(quantumUsecs, to)
  /\ spent' = 0
  /\ ran' = 0
  /\ stale' = pending
  /\ cut' = FALSE
  /\ held' = FALSE
  /\ UNCHANGED <<quantumUsecs, pending, nested>>

-----------------------------------------------------------------------------
TimerInit ==
  /\ at = "new"
  /\ quantumUsecs = 0
  /\ left = 0
  /\ interval = 0
  /\ pending = FALSE
  /\ nested = 0
  /\ spent = 0
  /\ ran = 0
  /\ stale = FALSE
  /\ cut = FALSE
  /\ held = FALSE

(* The library goes on with what it is doing.                              *)
LibraryStep ==
  \/ Deliver \/ HandlerUnmasks \/ HandlerSwitches
  \/ LeaveSection \/ QueryFails \/ GiveUp \/ StartQuantum \/ Resume

TimerNext ==
  \/ \E usecs \in InitArgs : InitScheduler(usecs)
  \/ Elapse
  \/ EnterSection
  \/ LibraryStep

TimerSpec == TimerInit /\ [][TimerNext]_timerVars

(* Virtual time passes while the process runs, and a section of the        *)
(* library ends.                                                           *)
TimerFairSpec == TimerSpec /\ WF_timerVars(Elapse) /\ WF_timerVars(LibraryStep)

-----------------------------------------------------------------------------
(* Type correctness.                                                       *)
TimerTypeOK ==
  /\ at \in {"new", "failed", "user", "call", "waking", "woken", "switching", "resuming",
            "masked"}
  /\ quantumUsecs \in Nat
  /\ left \in Nat
  /\ interval \in Nat
  /\ pending \in BOOLEAN
  /\ nested \in 0 .. MaxNested
  /\ spent \in 0 .. MaxSection
  /\ ran \in Nat
  /\ stale \in BOOLEAN
  /\ cut \in BOOLEAN
  /\ held \in BOOLEAN

(* However the quantum divides into seconds and microseconds, setitimer    *)
(* takes it, and the timer is armed with the whole of it and never with    *)
(* zero, which would stop it for good.                                     *)
TimerArmed ==
  /\ at # "failed"
  /\ On => quantumUsecs > 0 /\ interval = quantumUsecs /\ left \in 1 .. quantumUsecs

(* No quantum outlives its time by more than the sections it ends in: that *)
(* of a call that still goes on when the timer expires, and those of the   *)
(* handler and the switch behind it.  A quantum in which getQuantums has    *)
(* failed has no bound: its thread goes on with the signal masked.         *)
QuantumIsBounded ==
  On /\ SectionsAreShort /\ ~held => ran <= quantumUsecs + 4 * MaxSection

(* The signal ends a quantum before its time only if it was pending when   *)
(* the quantum began, because the timer expired in the section that        *)
(* switched: re-arming the timer does not take it back.                    *)
CutOnlyByStale == cut /\ ran < quantumUsecs => stale

(* This does not happen twice in a row, unless a quantum is shorter than   *)
(* the library's own sections: the thread behind the one that was cut      *)
(* short has its whole quantum.                                            *)
NotCutTwice ==
  [][ /\ at = "switching" /\ at' # "switching"
      /\ SectionsAreShort
      /\ cut /\ ran < quantumUsecs
      => ~stale' ]_timerVars

(* Every quantum ends, whether its thread makes calls or not, unless the   *)
(* error return of getQuantums has left the signal masked: then it ends if *)
(* the thread makes another call, which lifts the mask.                    *)
QuantaEnd ==
  On /\ SectionsAreShort ~> at = "switching" \/ (at = "masked" /\ held)

=============================================================================
