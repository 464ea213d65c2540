--------------------------- MODULE MCTokenPrograms ---------------------------
(* A lat_ctx ring of four, the pairs of the other programs, the locks. *)
EXTENDS FcntlLocks
=============================================================================
