-------------------------- MODULE MCDatagramServers --------------------------
(* Words of two digits of base 4.  Moving 6 bytes in pieces of 5 takes the *)
(* rounding and two datagrams on either kind of host (5 is 11 in base 4);  *)
(* pieces of 4 arrive as pieces of 1, pieces of 3 as the 12 that is too    *)
(* long for a datagram.  12 bytes in one piece, as without -m, are too     *)
(* long as they are and arrive as 3 where they are turned around, like the *)
(* 10 MB of the code as 40 KB.                                             *)
EXTENDS DatagramServers

MCSizes == {<<6, 5>>, <<8, 4>>, <<6, 3>>, <<12, 12>>}
=============================================================================
