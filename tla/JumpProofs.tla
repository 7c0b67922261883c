------------------------------ MODULE JumpProofs ------------------------------
(***************************************************************************)
(* JumpDemo for every width of a word, every rotation and every secret:    *)
(* the address that setup_thread forges is the one the C library decodes,  *)
(* and each thread stays on its own stack and in its own code.             *)
(*                                                                         *)
(* The invariant that carries it says where the buffer of every thread     *)
(* leads, and that yield, until it has jumped, has just saved its own      *)
(* thread there.                                                           *)
(***************************************************************************)
EXTENDS JumpDemo, TLAPS

(* Rotating right undoes rotating left, and xor undoes itself.             *)
LEMMA RotateInverse ==
  ASSUME JumpAssumption, NEW word \in Word
  PROVE  RotateLeft(word) \in Word /\ RotateRight(RotateLeft(word)) = word
<1> DEFINE left  == RotateLeft(word)
           above == [i \in Index |-> IF i + Rotation < Bits THEN i + Rotation
                                     ELSE i + Rotation - Bits]
<1>1. Bits \in Nat \ {0} /\ Rotation \in 0 .. Bits - 1
  BY DEF JumpAssumption, Index
<1>2. \A i \in Index : /\ i \in Nat /\ i < Bits
                       /\ (IF i < Rotation THEN i - Rotation + Bits ELSE i - Rotation) \in Index
                       /\ above[i] \in Index
  BY <1>1 DEF Index
<1>3. left \in Word
  BY <1>2 DEF RotateLeft, Word
<1>4. ASSUME NEW i \in Index PROVE left[above[i]] = word[i]
  <2>1. /\ i + Rotation < Bits => above[i] = i + Rotation
        /\ ~(i + Rotation < Bits) => above[i] = i + Rotation - Bits
    OBVIOUS
  <2>2. (IF above[i] < Rotation THEN above[i] - Rotation + Bits ELSE above[i] - Rotation) = i
    BY <1>1, <1>2, <2>1
  <2> HIDE DEF above
  <2> QED BY <1>2, <2>2 DEF RotateLeft
<1>5. RotateRight(left) = [i \in Index |-> left[above[i]]]
  BY DEF RotateRight
<1>6. word = [i \in Index |-> word[i]]
  BY DEF Word
<1> HIDE DEF left, above
<1>7. RotateRight(left) = word
  BY <1>4, <1>5, <1>6
<1> QED BY <1>3, <1>7 DEF left

LEMMA XorInverse ==
  ASSUME NEW a \in Word, NEW b \in Word
  PROVE  Xor(a, b) \in Word /\ Xor(Xor(a, b), b) = a
<1>1. \A i \in Index : a[i] \in {0, 1} /\ b[i] \in {0, 1}
  BY DEF Word
<1>2. \A x, y \in {0, 1} : (x + y) % 2 \in {0, 1} /\ (((x + y) % 2) + y) % 2 = x
  OBVIOUS
<1>3. \A i \in Index : Xor(a, b)[i] = (a[i] + b[i]) % 2
  BY DEF Xor
<1>4. Xor(a, b) \in Word
  BY <1>1, <1>2 DEF Xor, Word
<1>5. \A i \in Index : (Xor(a, b)[i] + b[i]) % 2 = a[i]
  BY <1>1, <1>2, <1>3
<1>6. a = [i \in Index |-> a[i]]
  BY DEF Word
<1>7. Xor(Xor(a, b), b) = [i \in Index |-> (Xor(a, b)[i] + b[i]) % 2]
  BY DEF Xor
<1> QED BY <1>4, <1>5, <1>6, <1>7

(* translate_address is the mangling of the C library: what siglongjmp     *)
(* decodes from a translated address is the address, whatever the secret.  *)
THEOREM TranslateIsDecoded ==
  ASSUME JumpAssumption, secret \in Word, NEW addr \in Word
  PROVE  Translate(addr) \in Word /\ Demangle(Translate(addr)) = addr
<1>1. Xor(addr, secret) \in Word
  BY XorInverse
<1>2. /\ Translate(addr) \in Word
      /\ RotateRight(Translate(addr)) = Xor(addr, secret)
  BY <1>1, RotateInverse DEF Translate
<1> QED BY <1>2, XorInverse DEF Demangle

-----------------------------------------------------------------------------
(* Where a buffer leads.                                                   *)
LeadsTo(buffer, code, stack) ==
  /\ buffer.set
  /\ ~buffer.mask
  /\ Demangle(buffer.pc) = Address[code]
  /\ Demangle(buffer.sp) = Address[stack]

Unstarted(t) == LeadsTo(env[t], Loop[t], Top[t]) /\ count[t] = 0

Yielded(t) == LeadsTo(env[t], "yield", Frame[t]) /\ count[t] % Batch[t] = 0

(* Main sets the threads up.                                               *)
InMain ==
  /\ At("main", "main_stack")
  /\ current_thread = -1
  /\ \A t \in Tids : count[t] = 0 /\ (env[t].set => Unstarted(t))

(* One thread runs, the other waits.                                       *)
InThread(t, other) ==
  /\ current_thread = t
  /\ ~masked
  /\ Unstarted(other) \/ Yielded(other)
  /\ \/ At(Loop[t], Top[t])
     \/ At("yield", Frame[t]) /\ (ret_val = 0 => Yielded(t))

JumpInv ==
  /\ JumpTypeOK
  /\ InMain \/ \E t \in Tids : InThread(t, 1 - t)

LEMMA PlacesDiffer ==
  ASSUME JumpAssumption
  PROVE  /\ \A p \in Places : Address[p] \in Word
         /\ {"main", "yield", "main_stack"} \subseteq Places
         /\ Address["main"] # Address["yield"]
         /\ \A t \in Tids :
              /\ {Loop[t], Top[t], Frame[t]} \subseteq Places
              /\ Address[Loop[t]] \notin {Address["main"], Address["yield"]}
              /\ \A s \in Tids : /\ Address[Loop[t]] = Address[Loop[s]] => t = s
                                 /\ Address[Top[t]] = Address[Top[s]] => t = s
                                 /\ Address[Frame[t]] = Address[Frame[s]] => t = s
<1>1. /\ {"main", "yield", "main_stack"} \subseteq Places
      /\ \A t \in Tids : {Loop[t], Top[t], Frame[t]} \subseteq Places
  BY DEF Places
<1>2. \A t \in Tids :
        /\ Loop[t] \notin {"main", "yield"}
        /\ \A s \in Tids : /\ Loop[t] = Loop[s] => t = s
                           /\ Top[t] = Top[s] => t = s
                           /\ Frame[t] = Frame[s] => t = s
  BY DEF Loop, Top, Frame, Tids
<1> QED BY <1>1, <1>2 DEF JumpAssumption

LEMMA JumpInitInv == JumpAssumption /\ JumpInit => JumpInv
<1> SUFFICES ASSUME JumpAssumption, JumpInit PROVE JumpInv
  OBVIOUS
<1>1. JumpTypeOK
  BY PlacesDiffer DEF JumpInit, JumpTypeOK, Tids, Period
<1>2. InMain
  BY DEF JumpInit, InMain, At
<1> QED BY <1>1, <1>2 DEF JumpInv

(* sigsetjmp followed by siglongjmp comes back.                            *)
LEMMA SavedLeadsBack ==
  ASSUME JumpAssumption, secret \in Word, masked = FALSE, NEW code \in Places, NEW stack \in Places
  PROVE  LET buffer == Sigsetjmp(Address[stack], Address[code])
         IN  /\ buffer \in [sp : Word, pc : Word, mask : BOOLEAN, set : BOOLEAN]
             /\ LeadsTo(buffer, code, stack)
<1>1. Address[stack] \in Word /\ Address[code] \in Word
  BY DEF JumpAssumption
<1> QED BY <1>1, TranslateIsDecoded DEF Sigsetjmp, Buffer, LeadsTo, Translate

LEMMA ForgedLeadsToEntry ==
  ASSUME JumpAssumption, secret \in Word, NEW tid \in Tids
  PROVE  /\ Forged(tid) \in [sp : Word, pc : Word, mask : BOOLEAN, set : BOOLEAN]
         /\ LeadsTo(Forged(tid), Loop[tid], Top[tid])
<1>1. Address[Top[tid]] \in Word /\ Address[Loop[tid]] \in Word
  BY PlacesDiffer
<1> QED BY <1>1, TranslateIsDecoded DEF Forged, Buffer, LeadsTo

LEMMA JumpNextInv ==
  ASSUME JumpAssumption, JumpInv, [JumpNext]_jumpVars
  PROVE  JumpInv'
<1> USE JumpAssumption
<1>1. JumpTypeOK
  BY DEF JumpInv
<1>2. secret' = secret
  BY DEF JumpNext, SetupThread, Main, LoopTurn, YieldJumps, YieldReturns, JumpToThread, jumpVars
<1>3. ASSUME NEW tid \in Tids, SetupThread(tid) PROVE JumpInv'
  <2>1. InMain
    BY <1>3, PlacesDiffer DEF JumpInv, InThread, SetupThread, At
  <2>2. /\ env'[tid] = Forged(tid)
        /\ \A t \in Tids \ {tid} : env'[t] = env[t]
        /\ UNCHANGED <<secret, current_thread, count, sp, pc, masked>>
        /\ ret_val' = 0
    BY <1>1, <1>3 DEF SetupThread, JumpTypeOK
  <2>3. JumpTypeOK'
    BY <1>1, <1>3, <2>2, ForgedLeadsToEntry DEF SetupThread, JumpTypeOK
  <2>4. \A t \in Tids : env'[t].set => Unstarted(t)'
    BY <1>1, <2>1, <2>2, ForgedLeadsToEntry DEF JumpTypeOK, InMain, Unstarted, LeadsTo, Demangle
  <2>5. InMain'
    BY <2>1, <2>2, <2>4 DEF InMain, At
  <2> QED BY <2>3, <2>5 DEF JumpInv
\* A jump into a buffer that leads to a thread's entry or into its yield.
<1>4. ASSUME NEW t \in Tids, JumpToThread(t), Unstarted(t) \/ Yielded(t),
             Unstarted(1 - t) \/ Yielded(1 - t)
      PROVE  JumpInv'
  <2>1. /\ current_thread' = t
        /\ sp' = Demangle(env[t].sp) /\ pc' = Demangle(env[t].pc)
        /\ masked' = env[t].mask /\ ret_val' = 1
        /\ UNCHANGED <<secret, env, count>>
    BY <1>4 DEF JumpToThread, Siglongjmp
  <2>2. At(Loop[t], Top[t])' \/ At("yield", Frame[t])'
    BY <1>4, <2>1 DEF Unstarted, Yielded, LeadsTo, At
  <2>3. ~masked'
    BY <1>4, <2>1 DEF Unstarted, Yielded, LeadsTo
  <2>4. (Unstarted(1 - t) \/ Yielded(1 - t))'
    BY <1>4, <2>1 DEF Unstarted, Yielded, LeadsTo, Demangle
  <2>5. InThread(t, 1 - t)'
    BY <2>1, <2>2, <2>3, <2>4 DEF InThread
  <2>6. JumpTypeOK'
    <3>1. sp' \in Word /\ pc' \in Word
      BY <2>2, PlacesDiffer DEF At
    <3> QED BY <1>1, <2>1, <2>3, <3>1 DEF JumpTypeOK
  <2> QED BY <2>5, <2>6 DEF JumpInv
<1>5. ASSUME Main PROVE JumpInv'
  <2>1. InMain
    BY <1>5, PlacesDiffer DEF JumpInv, InThread, Main, At
  <2>2. Unstarted(0) /\ Unstarted(1) /\ 0 \in Tids /\ 1 - 0 = 1
    BY <1>5, <2>1 DEF Main, InMain, Tids
  <2> QED BY <1>4, <1>5, <2>2 DEF Main
<1>6. ASSUME NEW tid \in Tids, NEW stack \in Tids, LoopTurn(tid, stack) PROVE JumpInv'
  <2>1. InThread(tid, 1 - tid) /\ stack = tid
    BY <1>6, PlacesDiffer DEF JumpInv, InMain, InThread, LoopTurn, At
  <2> DEFINE i == (count[tid] + 1) % Period
  <2>2. i \in 0 .. Period - 1
    BY <1>1 DEF JumpTypeOK, Period
  <2>3. /\ count' = [count EXCEPT ![tid] = i]
        /\ UNCHANGED <<secret, current_thread, masked>>
        /\ current_thread = tid /\ ~masked
    BY <1>6, <2>1 DEF LoopTurn, InThread
  <2>4. 1 - tid # tid /\ 1 - tid \in Tids
    BY DEF Tids
  <2>5. CASE i % Batch[tid] = 0
    <3>1. /\ env' = [env EXCEPT ![tid] = Sigsetjmp(Address[Frame[tid]], Address["yield"])]
          /\ sp' = Address[Frame[tid]] /\ pc' = Address["yield"] /\ ret_val' = 0
      BY <1>6, <2>1, <2>3, <2>5 DEF LoopTurn
    <3>2. /\ Sigsetjmp(Address[Frame[tid]], Address["yield"])
               \in [sp : Word, pc : Word, mask : BOOLEAN, set : BOOLEAN]
          /\ LeadsTo(Sigsetjmp(Address[Frame[tid]], Address["yield"]), "yield", Frame[tid])
      BY <1>1, <2>3, PlacesDiffer, SavedLeadsBack DEF JumpTypeOK
    <3>3. JumpTypeOK'
      BY <1>1, <2>2, <2>3, <3>1, <3>2, PlacesDiffer DEF JumpTypeOK
    <3>4. Yielded(tid)'
      BY <1>1, <2>3, <2>5, <3>1, <3>2 DEF Yielded, LeadsTo, Demangle, JumpTypeOK
    <3>5. (Unstarted(1 - tid) \/ Yielded(1 - tid))'
      BY <1>1, <2>1, <2>3, <2>4, <3>1 DEF InThread, Unstarted, Yielded, LeadsTo, Demangle, JumpTypeOK
    <3>6. InThread(tid, 1 - tid)'
      BY <2>3, <3>1, <3>4, <3>5 DEF InThread, At
    <3> QED BY <3>3, <3>6 DEF JumpInv
  <2>6. CASE i % Batch[tid] # 0
    <3>1. UNCHANGED <<env, sp, pc, ret_val>>
      BY <1>6, <2>1, <2>6 DEF LoopTurn
    <3>2. JumpTypeOK'
      BY <1>1, <2>2, <2>3, <3>1 DEF JumpTypeOK
    <3>3. (Unstarted(1 - tid) \/ Yielded(1 - tid))'
      BY <1>1, <2>1, <2>3, <2>4, <3>1 DEF InThread, Unstarted, Yielded, LeadsTo, Demangle, JumpTypeOK
    <3>4. InThread(tid, 1 - tid)'
      BY <1>6, <2>1, <2>3, <3>1, <3>3 DEF InThread, LoopTurn, At
    <3> QED BY <3>2, <3>4 DEF JumpInv
  <2> QED BY <2>5, <2>6
<1>7. ASSUME NEW stack \in Tids, YieldJumps(stack) PROVE JumpInv'
  <2>1. InThread(stack, 1 - stack) /\ Yielded(stack)
    BY <1>7, PlacesDiffer DEF JumpInv, InMain, InThread, YieldJumps, At
  <2>2. 1 - stack \in Tids /\ 1 - (1 - stack) = stack
    BY DEF Tids
  <2>3. JumpToThread(1 - stack)
    BY <1>7, <2>1 DEF YieldJumps, InThread
  <2> QED BY <1>4, <2>1, <2>2, <2>3 DEF InThread
<1>8. ASSUME NEW stack \in Tids, YieldReturns(stack) PROVE JumpInv'
  <2>1. InThread(stack, 1 - stack)
    BY <1>8, PlacesDiffer DEF JumpInv, InMain, InThread, YieldReturns, At
  <2>2. /\ UNCHANGED <<secret, env, current_thread, count, masked, ret_val>>
        /\ sp' = Address[Top[stack]] /\ pc' = Address[Loop[stack]]
    BY <1>8 DEF YieldReturns
  <2>3. JumpTypeOK'
    BY <1>1, <2>2, PlacesDiffer DEF JumpTypeOK
  <2>4. InThread(stack, 1 - stack)'
    BY <2>1, <2>2 DEF InThread, Unstarted, Yielded, LeadsTo, Demangle, At
  <2> QED BY <2>3, <2>4 DEF JumpInv
<1>9. CASE UNCHANGED jumpVars
  BY <1>9 DEF jumpVars, JumpInv, JumpTypeOK, InMain, InThread, Unstarted, Yielded, LeadsTo,
              Demangle, At
<1> QED BY <1>3, <1>5, <1>6, <1>7, <1>8, <1>9 DEF JumpNext

LEMMA JumpInvariant == JumpSpec => []JumpInv
<1>1. JumpInit => JumpInv
  BY JumpAssumption, JumpInitInv
<1>2. JumpInv /\ [JumpNext]_jumpVars => JumpInv'
  BY JumpAssumption, JumpNextInv
<1> QED BY <1>1, <1>2, PTL DEF JumpSpec

(* Every variable of the demonstration keeps its type: a buffer only ever  *)
(* holds words, whatever is forged or saved in it.                         *)
THEOREM JumpTypeCorrect == JumpSpec => []JumpTypeOK
<1>1. JumpInv => JumpTypeOK
  BY DEF JumpInv
<1> QED BY <1>1, JumpInvariant, PTL

(* Each thread of the demonstration runs its own code on its own stack,    *)
(* with no signal masked, for every secret and every inherited mask.       *)
THEOREM ThreadsStayInContext == JumpSpec => []InOwnContext
<1>1. JumpInv => InOwnContext
  BY DEF JumpInv, InMain, InThread, InOwnContext
<1> QED BY <1>1, JumpInvariant, PTL

(* The thread that waits goes on in its yield, or starts at its entry.     *)
THEOREM OtherWaitsInYield == JumpSpec => []WaitsInYield
<1>1. JumpAssumption /\ JumpInv => WaitsInYield
  BY PlacesDiffer DEF JumpInv, InMain, InThread, WaitsInYield, Unstarted, Yielded, LeadsTo, Tids
<1> QED BY <1>1, JumpInvariant, JumpAssumption, PTL

===============================================================================
