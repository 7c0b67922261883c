----------------------------- MODULE MCScheduler -----------------------------
(***************************************************************************)
(* Client programs for model checking Scheduler, each a set of library     *)
(* calls it makes, in any order and with any arguments.                    *)
(***************************************************************************)
EXTENDS SchedulerProperties

AnyUsage == CallKinds

(* No thread ends itself, and none ends main.                              *)
EndedByOthers ==
  CallKinds \ {"terminate_self", "terminate_main", "get_quantums_unknown"}

(* A thread ends none but itself, and the others block, themselves and one *)
(* another, for good.                                                      *)
SelfEnded ==
  {"spawn", "terminate_self", "block_self", "block_other", "get_quantums", "get_quantums_unknown"}

=============================================================================
