-------------------------- MODULE MCThreadPingPong --------------------------
(* Small instances of the thread ping-pong for TLC. *)
EXTENDS ThreadPingPong
=============================================================================
