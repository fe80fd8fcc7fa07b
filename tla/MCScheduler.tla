----------------------------- MODULE MCScheduler -----------------------------
(* Every table of up to MAX_TASKS tasks, in every assignment of lanes. *)
EXTENDS Scheduler
==============================================================================
