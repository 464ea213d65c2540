---------------------------- MODULE MCSchedPolicy ----------------------------
(* Small instances of sched_policy_bench.c for TLC. *)
EXTENDS SchedPolicy
=============================================================================
