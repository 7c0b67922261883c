------------------------------ MODULE TurnQueue ------------------------------
(***************************************************************************)
(* What the scheduler promises, without threads' states, sleepers, block   *)
(* flags, signals or deletions: one tid is running, the others wait in one *)
(* line, with every quantum the head of the line runs, and whoever it      *)
(* replaces goes to the end of the line or leaves.  Others join the line   *)
(* only at its end; one that leaves it leaves the rest in their order.     *)
(* Main alone never leaves and never joins: it has its one place always.   *)
(***************************************************************************)
EXTENDS Integers, Sequences

CONSTANTS Tids, Main

VARIABLES
  running,  \* the tid that has the processor
  turns,    \* the line
  quanta,   \* the quanta started so far
  phase     \* "off", "on" or "over"

turnVars == <<running, turns, quanta, phase>>

TurnInit == running = Main /\ turns = <<>> /\ quanta = 0 /\ phase = "off"

(* The first quantum is Main's.                                            *)
Begin ==
  /\ phase = "off"
  /\ phase' = "on"
  /\ quanta' = 1
  /\ UNCHANGED <<running, turns>>

(* The first n entries of longer are the line and, behind it, newcomers,   *)
(* none of them twice.                                                     *)
Joined(longer, n, line) ==
  LET new == Len(line) + 1 .. n IN
  /\ n \in Len(line) .. Len(longer)
  /\ \A i \in 1 .. Len(line) : longer[i] = line[i]
  /\ \A i \in new : longer[i] \in Tids \ {Main}
  /\ \A i, j \in new : longer[i] = longer[j] => i = j

(* Some tids join the line at its end.                                     *)
Arrive ==
  /\ phase = "on"
  /\ Joined(turns', Len(turns'), turns)
  /\ UNCHANGED <<running, quanta, phase>>

(* Rest is line without the entries of tid: `place` maps each entry of the *)
(* rest to the one it was.                                                 *)
IsWithout(rest, line, tid) ==
  LET kept == {i \in DOMAIN line : line[i] # tid} IN
  \E place \in [DOMAIN rest -> kept] :
    /\ \A i, j \in DOMAIN rest : i < j => place[i] < place[j]
    /\ \A k \in kept : \E i \in DOMAIN rest : place[i] = k
    /\ \A i \in DOMAIN rest : rest[i] = line[place[i]]

Leave(tid) ==
  /\ phase = "on"
  /\ IsWithout(turns', turns, tid)
  /\ UNCHANGED <<running, quanta, phase>>

(* A quantum starts: some join, the running tid goes to the end of the     *)
(* line or departs, and the head of the line runs.                         *)
TakeTurn(departs) ==
  LET line == <<running'>> \o turns' IN
  /\ phase = "on"
  /\ IF departs
     THEN running # Main /\ Joined(line, Len(line), turns)
     ELSE line[Len(line)] = running /\ Joined(line, Len(line) - 1, turns)
  /\ quanta' = quanta + 1
  /\ UNCHANGED phase

Stop ==
  /\ phase = "on"
  /\ phase' = "over"
  /\ UNCHANGED <<running, turns, quanta>>

TurnNext ==
  \/ Begin
  \/ Arrive
  \/ \E departs \in BOOLEAN : TakeTurn(departs)
  \/ \E tid \in Tids \ {Main} : Leave(tid)
  \/ Stop

TurnSpec == TurnInit /\ [][TurnNext]_turnVars

=============================================================================
