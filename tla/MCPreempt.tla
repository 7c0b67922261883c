------------------------------ MODULE MCPreempt ------------------------------
(***************************************************************************)
(* Client programs for model checking SchedulerPreempt: which threads make *)
(* which library calls, in any order and with any arguments.               *)
(***************************************************************************)
EXTENDS SchedulerPreempt

AnyUsage == CallKinds

(* Main makes the calls in `byMain`, every thread those in `byAll`.        *)
Client(byMain, byAll) ==
  [kind \in CallKinds |->
     IF kind \in byMain THEN {0} ELSE IF kind \in byAll THEN ThreadIds ELSE {}]

(* Every thread makes every call but the query that finds no thread.       *)
Unrestricted == {Client({}, CallKinds \ {"get_quantums_unknown"})}

(* Main alone creates, ends, blocks and resumes the others, which compute  *)
(* and block themselves.                                                   *)
Managed ==
  Client({"spawn", "terminate_other", "block_other", "resume", "get_quantums"}, {"block_self"})

(* Main creates threads that block and end themselves.                     *)
SelfEnding == Client({"spawn"}, {"terminate_self", "block_self"})

(* Main creates threads that block themselves or sleep, and all resume one *)
(* another, early as it may be.                                            *)
Sleepers == Client({"spawn"}, {"sleep", "block_self", "resume", "get_quantums"})

Disciplined == {Managed, SelfEnding, Sleepers}

(* Main creates threads that sleep, end themselves, and block and resume   *)
(* whomever they can.                                                      *)
BlockingClient ==
  {Client({"spawn"}, {"terminate_main", "terminate_self", "block_self", "block_other", "resume", "sleep"})}

(* Every thread creates others.                                            *)
Spawners == {Client({}, {"spawn"})}

(* Main creates and ends threads that sleep.                               *)
EndedSleepers == {Client({"spawn", "terminate_other"}, {"sleep"})}

=============================================================================
