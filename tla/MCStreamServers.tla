--------------------------- MODULE MCStreamServers ---------------------------
(* Two clients that connect, write and leave as they like. *)
EXTENDS StreamServers
MCClients == {"c1", "c2"}
=============================================================================
