------------------------------- MODULE JumpDemo -------------------------------
(***************************************************************************)
(* demo_jmp.c: two threads made of sigsetjmp, siglongjmp and a buffer that *)
(* is forged for a thread that has not run.  The constructor of Thread     *)
(* forges its buffer the same way (thread.cpp).                            *)
(*                                                                         *)
(* The C library keeps sp and pc in a jump buffer mangled: xored with a    *)
(* secret of the process and rotated.  Addresses are words of Bits bits,   *)
(* and a jump goes where the two words of the buffer really lead.  A local *)
(* variable is found through sp, and so is the way back from a function.   *)
(***************************************************************************)
EXTENDS Integers

CONSTANTS
  Bits,      \* of an address_t
  Rotation,  \* 0x11 for 64 bits, 0x9 for 32
  Address    \* of every place the program jumps to or keeps its stack at

Index == 0 .. Bits - 1

Word == [Index -> {0, 1}]

Tids == {0, 1}

(* The code: main, the loop of each thread and yield, behind sigsetjmp.    *)
Loop == [tid \in Tids |-> IF tid = 0 THEN "thread0" ELSE "thread1"]

(* The stack pointer in main, in a thread's loop and in yield under it.    *)
Top == [tid \in Tids |-> IF tid = 0 THEN "stack0" ELSE "stack1"]

Frame == [tid \in Tids |-> IF tid = 0 THEN "frame0" ELSE "frame1"]

Places == {"main", "yield", "main_stack"}
          \cup {Loop[t] : t \in Tids} \cup {Top[t] : t \in Tids} \cup {Frame[t] : t \in Tids}

ASSUME JumpAssumption ==
  /\ Bits \in Nat \ {0}
  /\ Rotation \in Index
  /\ Address \in [Places -> Word]
  /\ \A p, q \in Places : Address[p] = Address[q] => p = q

VARIABLES
  secret,          \* of the process
  env,             \* tid -> sigjmp_buf: sp, pc, the saved mask, is it filled in
  current_thread,
  count,           \* the thread whose stack it is on -> its local variable i,
                   \* of which only the remainders by 3 and 5 matter
  sp, pc, masked,  \* the processor, and whether its mask is not empty
  ret_val          \* of the last sigsetjmp

jumpVars == <<secret, env, current_thread, count, sp, pc, masked, ret_val>>

Period == 15

(* How many turns of its loop a thread makes before it yields.             *)
Batch == [tid \in Tids |-> IF tid = 0 THEN 3 ELSE 5]

Xor(a, b) == [i \in Index |-> (a[i] + b[i]) % 2]

(* Bit i of the result is the bit Rotation below it, around the end.       *)
RotateLeft(word) ==
  [i \in Index |-> word[IF i < Rotation THEN i - Rotation + Bits ELSE i - Rotation]]

RotateRight(word) ==
  [i \in Index |-> word[IF i + Rotation < Bits THEN i + Rotation ELSE i + Rotation - Bits]]

(* Seeded fault: the address as it is.                                     *)
Translate_Not(addr) == addr

(* translate_address: xor, then rol.                                       *)
Translate(addr) == RotateLeft(Xor(addr, secret))

(* What siglongjmp makes of a word of the buffer.                          *)
Demangle(word) == Xor(RotateRight(word), secret)

Buffer(sp_, pc_, mask) == [sp |-> sp_, pc |-> pc_, mask |-> mask, set |-> TRUE]

(* sigsetjmp: the library's own mangling is that of translate_address.     *)
Sigsetjmp(sp_, pc_) ==
  Buffer(RotateLeft(Xor(sp_, secret)), RotateLeft(Xor(pc_, secret)), masked)

Siglongjmp(buffer) ==
  /\ sp' = Demangle(buffer.sp)
  /\ pc' = Demangle(buffer.pc)
  /\ masked' = buffer.mask
  /\ ret_val' = 1

At(code, stack) == pc = Address[code] /\ sp = Address[stack]

-----------------------------------------------------------------------------
(* Seeded fault: the mask of main stays in the forged buffer.              *)
Forged_KeepsMask(tid) ==
  Buffer(Translate(Address[Top[tid]]), Translate(Address[Loop[tid]]), masked)

Forged(tid) == Buffer(Translate(Address[Top[tid]]), Translate(Address[Loop[tid]]), FALSE)

(* setup_thread, for 0 and then for 1.                                     *)
SetupThread(tid) ==
  /\ At("main", "main_stack")
  /\ ~env[tid].set
  /\ \A t \in Tids : t < tid => env[t].set
  /\ env' = [env EXCEPT ![tid] = Forged(tid)]
  /\ ret_val' = 0
  /\ UNCHANGED <<secret, current_thread, count, sp, pc, masked>>

(* jump_to_thread *)
JumpToThread(tid) ==
  /\ current_thread' = tid
  /\ Siglongjmp(env[tid])
  /\ UNCHANGED <<secret, env, count>>

Main ==
  /\ At("main", "main_stack")
  /\ \A t \in Tids : env[t].set
  /\ JumpToThread(0)

(* A turn of the loop of thread0 or thread1, and the call of yield up to   *)
(* its sigsetjmp.  The code is `tid`'s, the stack the one that sp is on.   *)
LoopTurn(tid, stack) ==
  LET i == (count[stack] + 1) % Period IN
  /\ At(Loop[tid], Top[stack])
  /\ count' = [count EXCEPT ![stack] = i]
  /\ IF i % Batch[tid] = 0
     THEN /\ env' = [env EXCEPT ![current_thread] =
                       Sigsetjmp(Address[Frame[stack]], Address["yield"])]
          /\ sp' = Address[Frame[stack]]
          /\ pc' = Address["yield"]
          /\ ret_val' = 0
     ELSE UNCHANGED <<env, sp, pc, ret_val>>
  /\ UNCHANGED <<secret, current_thread, masked>>

(* Seeded fault: yield jumps away again when it has been jumped to.        *)
YieldReturns_Never(stack) ==
  At("yield", Frame[stack]) /\ JumpToThread(1 - current_thread)

(* The rest of yield: it jumps to the other thread if it has just saved    *)
(* this one, and returns if it has been jumped to.                         *)
YieldJumps(stack) ==
  /\ At("yield", Frame[stack])
  /\ ret_val = 0
  /\ JumpToThread(1 - current_thread)

YieldReturns(stack) ==
  /\ At("yield", Frame[stack])
  /\ ret_val # 0
  /\ sp' = Address[Top[stack]]
  /\ pc' = Address[Loop[stack]]
  /\ UNCHANGED <<secret, env, current_thread, count, masked, ret_val>>

-----------------------------------------------------------------------------
(* The process may inherit a mask from the one that started it.            *)
JumpInit ==
  /\ secret \in Word
  /\ masked \in BOOLEAN
  /\ env = [t \in Tids |-> [sp |-> Address["main_stack"], pc |-> Address["main"],
                            mask |-> FALSE, set |-> FALSE]]
  /\ current_thread = -1
  /\ count = [t \in Tids |-> 0]
  /\ sp = Address["main_stack"]
  /\ pc = Address["main"]
  /\ ret_val = 0

JumpNext ==
  \/ \E tid \in Tids : SetupThread(tid)
  \/ Main
  \/ \E tid, stack \in Tids : LoopTurn(tid, stack)
  \/ \E stack \in Tids : YieldJumps(stack) \/ YieldReturns(stack)

JumpSpec == JumpInit /\ [][JumpNext]_jumpVars

(* The processor executes the next instruction.                            *)
JumpFairSpec == JumpSpec /\ WF_jumpVars(JumpNext)

-----------------------------------------------------------------------------
(* Type correctness.                                                       *)
JumpTypeOK ==
  /\ secret \in Word
  /\ env \in [Tids -> [sp : Word, pc : Word, mask : BOOLEAN, set : BOOLEAN]]
  /\ current_thread \in Tids \cup {-1}
  /\ count \in [Tids -> 0 .. Period - 1]
  /\ sp \in Word
  /\ pc \in Word
  /\ masked \in BOOLEAN
  /\ ret_val \in {0, 1}

(* The thread that current_thread names runs its own code or yield, on its *)
(* own stack, and with no signal masked, whatever main inherited: so yield *)
(* saves it in its own buffer.                                             *)
InOwnContext ==
  \/ At("main", "main_stack") /\ current_thread = -1
  \/ /\ current_thread \in Tids
     /\ \/ At(Loop[current_thread], Top[current_thread])
        \/ At("yield", Frame[current_thread])
     /\ ~masked

(* A thread that does not run will go on from where it yielded: its buffer *)
(* leads back into its yield, with its i a multiple of what it counts to,  *)
(* or to its entry if it has never run.                                    *)
WaitsInYield ==
  current_thread \in Tids =>
    LET other == env[1 - current_thread]
        tid   == 1 - current_thread
    IN  IF Demangle(other.pc) = Address["yield"]
        THEN Demangle(other.sp) = Address[Frame[tid]] /\ count[tid] % Batch[tid] = 0
        ELSE /\ Demangle(other.pc) = Address[Loop[tid]]
             /\ Demangle(other.sp) = Address[Top[tid]]
             /\ count[tid] = 0

(* Neither thread keeps the processor for good: once main has begun to set *)
(* them up, each turns its loop again and again.                           *)
BothTurn == \A t \in Tids : env[0].set ~> pc = Address[Loop[t]]

=============================================================================
