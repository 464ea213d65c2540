-------------------------- MODULE MCCtxSwitchBench --------------------------
(* Small instances of the pipe ring of ctx_switch_bench.c for TLC. *)
EXTENDS CtxSwitchBench
=============================================================================
