----------------------------- MODULE MCPipeline -----------------------------
(* Tables of two rows, any few scripts one after the other. *)
EXTENDS Pipeline
=============================================================================
