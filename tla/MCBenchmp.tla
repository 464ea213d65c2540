----------------------------- MODULE MCBenchmp -----------------------------
(* Two children, two repetitions. *)
EXTENDS Benchmp
=============================================================================
