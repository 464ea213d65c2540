--------------------------- MODULE DatagramServers ---------------------------
(***************************************************************************)
(* The datagram programs of lmbench: lat_udp, bw_udp and lat_rpc over udp. *)
(* One server, the clients (children of benchmp, each with a socket of its *)
(* own), the port mapper's entry, the program that is started with -S, and *)
(* a network that loses, duplicates and reorders.                          *)
(*                                                                         *)
(* A datagram says where it goes, where it comes from, its number (the     *)
(* sequence number of lat_udp, the xid of an RPC, the first word of a      *)
(* bw_udp request) and its size (the second word of a bw_udp request).     *)
(* The words of bw_udp have two digits of base Base instead of four bytes; *)
(* it has no -P, and so one client.                                        *)
(***************************************************************************)
EXTENDS Integers, FiniteSets

CONSTANTS
  Clients,                   \* children of benchmp
  Sizes,                     \* pairs of bw_udp: bytes to move, message size
  Base,                      \* a word has two digits of this base
  MaxDatagram,               \* largest datagram sendto takes
  MaxDoits,                  \* bound: calls of doit per client
  MaxTrips,                  \* bound: iterations per call
  MaxLoss, MaxDup,           \* bounds: datagrams lost, and duplicated
  Stops,                     \* datagrams of -S (4 in the code)
  MaxSends                   \* how often an RPC is sent: TIMEOUT / retry timeout
ASSUME DatagramAssumption ==
  /\ Clients # {} /\ Clients \cap {"server", "stopper"} = {}
  /\ Base \in Nat \ {0, 1} /\ MaxSends \in Nat \ {0}
  /\ {MaxDatagram, MaxDoits, MaxTrips, MaxLoss, MaxDup, Stops} \subseteq Nat
  /\ Sizes \subseteq (1 .. Base * Base - 1) \X (1 .. Base * Base - 1)

Server   == "server"
Stopper  == "stopper"
Programs == {"lat_udp", "bw_udp", "lat_rpc"}

VARIABLES
  prog, big,                 \* the program, and whether hosts are big-endian
  size,                      \* what the bw_udp clients were asked to move
  srv, port,                 \* the server runs; its port is advertised
  job,                       \* the transfer a bw_udp server is busy with
  word,                      \* the second word in the bw_udp server's buffer
  net,                       \* datagrams on their way
  pc, seq, left, doits,      \* clients: where, next number, iterations, calls
  need,                      \* bytes a bw_udp client still waits for
  sends,                     \* how often the present RPC was sent
  alarm,                     \* the client's alarm clock is set
  echo,                      \* number of the answer last taken; bw_udp: how
                             \* many were taken in this call (history)
  asked, lost, dup           \* -S was run; faults so far (history, bounds)

server == <<srv, port, job, word>>
client == <<pc, seq, left, doits, need, sends, alarm, echo>>
faults == <<lost, dup>>
vars   == <<prog, big, size, server, net, client, asked, faults>>

Datagram(to, from, n, s) == [to |-> to, from |-> from, n |-> n, size |-> s]
NoJob == [to |-> Stopper, left |-> 0, sent |-> 0]

(* ntohl of a word the other side stored without htonl. *)
Word    == Base * Base
Ntohl(x) == IF big THEN x ELSE (x % Base) * Base + x \div Base

(* "make the number of bytes to move a multiple of the message size" *)
Move  == LET m == size[1]
         IN  IF m % size[2] = 0 THEN m ELSE m + (m - (m % size[2]))
Msize == size[2]

Init ==
  /\ prog \in Programs /\ big \in BOOLEAN /\ size \in Sizes
  /\ prog # "bw_udp" => big /\ size = CHOOSE s \in Sizes : TRUE
  /\ srv = TRUE /\ port = TRUE /\ job = NoJob /\ word = 0
  /\ net = {}
  /\ pc \in [Clients -> {"init", "gone"}]
  /\ \/ prog # "bw_udp" /\ \A c \in Clients : pc[c] = "init"
     \/ prog = "bw_udp" /\ Cardinality({c \in Clients : pc[c] = "init"}) = 1
  /\ seq = [c \in Clients |-> 0] /\ left = [c \in Clients |-> 0]
  /\ doits = [c \in Clients |-> 0] /\ need = [c \in Clients |-> 0]
  /\ sends = [c \in Clients |-> 0] /\ echo = [c \in Clients |-> -1]
  /\ alarm = [c \in Clients |-> FALSE]
  /\ asked = FALSE /\ lost = 0 /\ dup = 0

----------------------------------------------------------------------------
(* Servers. *)

(* A datagram is taken and others are sent; it leaves the net unless it    *)
(* has been doubled.  What nobody has a socket for any more is forgotten.  *)
Open(d) == IF d.to = Server THEN srv ELSE pc[d.to] # "gone"
Net(ds) == net' = {d \in ds : Open(d)}
Close(who) == net' = {d \in net : d.to # who}
Deliver(d, out) ==
  \/ Net((net \ {d}) \cup out) /\ UNCHANGED dup
  \/ dup < MaxDup /\ dup' = dup + 1 /\ Net(net \cup out)

ForServer(p) ==
  {d \in net : prog = p /\ srv /\ job.left <= 0 /\ d.to = Server}

(* lat_udp: a negative number ends the server, any other is sent back. *)
NegativeOrZero(n) == n <= 0                            (* Mutant of Negative *)
Negative(n) == n < 0

(* (The server counts along, but takes over a number it did not expect.)   *)
UdpEcho ==
  \E d \in ForServer("lat_udp") :
    /\ ~Negative(d.n)
    /\ word' = d.n
    /\ Deliver(d, {Datagram(d.from, Server, word', d.size)})
    /\ UNCHANGED <<prog, big, size, srv, port, job, client, asked, lost>>

UdpShutdown ==
  \E d \in ForServer("lat_udp") :
    /\ Negative(d.n)
    /\ srv' = FALSE /\ port' = FALSE /\ Close(Server)
    /\ UNCHANGED <<prog, big, size, job, word, client, asked, faults>>

(* xact_prog_1: the call is answered, whether it was seen before or not. *)
RpcAnswer ==
  \E d \in ForServer("lat_rpc") :
    /\ d.from # Stopper
    /\ Deliver(d, {Datagram(d.from, Server, d.n, d.size)})
    /\ UNCHANGED <<prog, big, size, server, client, asked, lost>>

RpcExit ==
  \E d \in ForServer("lat_rpc") :
    /\ d.from = Stopper
    /\ srv' = FALSE /\ port' = FALSE /\ Close(Server)
    /\ UNCHANGED <<prog, big, size, job, word, client, asked, faults>>

(* bw_udp: the first word says how much, the second in what pieces.  A     *)
(* datagram of -S has one word only, which ntohl makes a huge number.      *)
BwRequest ==
  \E d \in ForServer("bw_udp") :
    LET one == d.from = Stopper
        second == IF one THEN word ELSE d.size
    IN  /\ Deliver(d, {})
        /\ word' = second
        /\ job' = [to |-> d.from, sent |-> 0,
                   left |-> IF one THEN Word + d.n ELSE Ntohl(d.n)]
        /\ UNCHANGED <<prog, big, size, srv, port, client, asked, lost>>

(* One sendto; to the socket -S has closed the datagram just vanishes. *)
BwSend ==
  /\ prog = "bw_udp" /\ srv /\ job.left > 0
  /\ Ntohl(word) <= MaxDatagram
  /\ job' = [job EXCEPT !.left = @ - Ntohl(word),
                        !.sent = IF job.to = Stopper THEN 0 ELSE @ + 1]
  /\ IF job.to = Stopper THEN UNCHANGED net
     ELSE Net(net \cup {Datagram(job.to, Server, job.sent, Ntohl(word))})
  /\ UNCHANGED <<prog, big, size, srv, port, word, client, asked, faults>>

(* Message too long: exit(9), and the port stays advertised. *)
BwSendFails ==
  /\ prog = "bw_udp" /\ srv /\ job.left > 0
  /\ Ntohl(word) > MaxDatagram
  /\ srv' = FALSE /\ Close(Server)
  /\ UNCHANGED <<prog, big, size, port, job, word, client, asked, faults>>

(* GO_AWAY: after an hour. *)
GoAway ==
  /\ srv
  /\ srv' = FALSE /\ Close(Server)
  /\ UNCHANGED <<prog, big, size, port, job, word, client, asked, faults>>

----------------------------------------------------------------------------
(* -S: lat_udp and bw_udp send -1, -2 ... , lat_rpc one RPC_EXIT, which    *)
(* is not sent again: the default retry timeout exceeds TIMEOUT.         *)
StopOnce    == {-1}                                    (* Mutant of StopNumbers *)
StopNumbers == IF prog = "lat_rpc" THEN {-1} ELSE -Stops .. -1

Stop ==
  /\ ~asked /\ port
  /\ asked' = TRUE
  /\ Net(net \cup {Datagram(Server, Stopper, n, 0) : n \in StopNumbers})
  /\ UNCHANGED <<prog, big, size, server, client, faults>>

----------------------------------------------------------------------------
(* Clients. *)

Goto(c, l) == pc' = [pc EXCEPT ![c] = l]
Leave(c)   == Goto(c, "gone") /\ alarm' = [alarm EXCEPT ![c] = FALSE] /\ Close(c)

(* init and initialize; exit(3) or exit(1) when no port is advertised. *)
Connect(c) ==
  /\ pc[c] = "init" /\ port
  /\ Goto(c, "idle")
  /\ alarm' = [alarm EXCEPT ![c] = prog = "lat_udp"]
  /\ UNCHANGED <<prog, big, size, server, net, seq, left, doits, need, sends, echo, asked, faults>>

ConnectFails(c) ==
  /\ pc[c] = "init" /\ ~port
  /\ Leave(c)
  /\ UNCHANGED <<prog, big, size, server, seq, left, doits, need, sends, echo, asked, faults>>

(* Mutant of Doit: nbytes is not set. *)
DoitNeedKept(c) ==
  /\ pc[c] = "idle" /\ doits[c] < MaxDoits
  /\ \E n \in 1 .. MaxTrips : left' = [left EXCEPT ![c] = n]
  /\ Goto(c, "send")
  /\ doits' = [doits EXCEPT ![c] = @ + 1]
  /\ alarm' = [alarm EXCEPT ![c] = @ \/ prog = "lat_udp"]
  /\ echo' = [echo EXCEPT ![c] = 0]
  /\ UNCHANGED <<prog, big, size, server, net, seq, need, sends, asked, faults>>

(* doit, loop_transfer or benchmark is called with some iterations. *)
Doit(c) ==
  /\ pc[c] = "idle" /\ doits[c] < MaxDoits
  /\ \E n \in 1 .. MaxTrips : left' = [left EXCEPT ![c] = n]
  /\ Goto(c, "send")
  /\ doits' = [doits EXCEPT ![c] = @ + 1]
  /\ alarm' = [alarm EXCEPT ![c] = @ \/ prog = "lat_udp"]
  /\ need' = [need EXCEPT ![c] = Move] /\ echo' = [echo EXCEPT ![c] = 0]
  /\ UNCHANGED <<prog, big, size, server, net, seq, sends, asked, faults>>

(* cleanup, after the last call. *)
Cleanup(c) ==
  /\ pc[c] = "idle"
  /\ Leave(c)
  /\ UNCHANGED <<prog, big, size, server, seq, left, doits, need, sends, echo, asked, faults>>

(* The end of an iteration. *)
Trip(c) ==
  /\ left' = [left EXCEPT ![c] = @ - 1]
  /\ Goto(c, IF left[c] = 1 THEN "idle" ELSE "send")

(* One iteration begins: a numbered message, the two control words, or the *)
(* first transmission of a call.  A bw_udp client that waits for nothing   *)
(* more - nbytes is set once per call - is through with it at once.        *)
Send(c) ==
  /\ pc[c] = "send"
  /\ Net(net \cup {IF prog = "bw_udp" THEN Datagram(Server, c, Move, Msize)
                     ELSE Datagram(Server, c, seq[c], 0)})
  /\ seq' = [seq EXCEPT ![c] = @ + 1]
  /\ sends' = [sends EXCEPT ![c] = 1]
  /\ IF prog = "bw_udp" /\ need[c] <= 0
     THEN Trip(c)
     ELSE Goto(c, "recv") /\ UNCHANGED left
  /\ UNCHANGED <<prog, big, size, server, doits, need, alarm, echo, asked, faults>>

(* Mutant of Retransmit. *)
RetransmitForEver(c) ==
  /\ prog = "lat_rpc" /\ pc[c] = "recv"
  /\ Net(net \cup {Datagram(Server, c, seq[c] - 1, 0)})
  /\ sends' = [sends EXCEPT ![c] = @ + 1]
  /\ UNCHANGED <<prog, big, size, server, pc, seq, left, doits, need, alarm, echo, asked, faults>>

(* clnt_call sends again when nothing has come for 2.5 ms, *)
Retransmit(c) ==
  /\ prog = "lat_rpc" /\ pc[c] = "recv" /\ sends[c] < MaxSends
  /\ Net(net \cup {Datagram(Server, c, seq[c] - 1, 0)})
  /\ sends' = [sends EXCEPT ![c] = @ + 1]
  /\ UNCHANGED <<prog, big, size, server, pc, seq, left, doits, need, alarm, echo, asked, faults>>

(* and gives up after 25 ms: doit exits. *)
CallTimesOut(c) ==
  /\ prog = "lat_rpc" /\ pc[c] = "recv" /\ sends[c] = MaxSends
  /\ Leave(c)
  /\ UNCHANGED <<prog, big, size, server, seq, left, doits, need, sends, echo, asked, faults>>

(* recv of lat_udp takes whatever comes, clnt_call the answer with its xid *)
(* and drops the others.                                                   *)
Receive(c) ==
  \E d \in {m \in net : m.to = c} :
    /\ prog # "bw_udp" /\ pc[c] = "recv"
    /\ Deliver(d, {})
    /\ IF prog = "lat_rpc" /\ d.n # seq[c] - 1
       THEN UNCHANGED <<pc, left, echo>>
       ELSE Trip(c) /\ echo' = [echo EXCEPT ![c] = d.n]
    /\ UNCHANGED <<prog, big, size, server, seq, doits, need, sends, alarm, asked, lost>>

(* recv of bw_udp: a longer datagram is cut to msize, a shorter one ends   *)
(* the client.                                                             *)
BwReceive(c) ==
  \E d \in {m \in net : m.to = c} :
    /\ prog = "bw_udp" /\ pc[c] = "recv"
    /\ \/ /\ d.size < Msize
          /\ Leave(c)
          /\ UNCHANGED <<left, need, echo, dup>>
       \/ /\ d.size >= Msize
          /\ Deliver(d, {})
          /\ need' = [need EXCEPT ![c] = @ - Msize]
          /\ echo' = [echo EXCEPT ![c] = @ + 1]
          /\ IF need'[c] <= 0 THEN Trip(c) ELSE UNCHANGED <<pc, left>>
          /\ UNCHANGED alarm
    /\ UNCHANGED <<prog, big, size, server, seq, doits, sends, asked, lost>>

(* Mutant of Timeout: the client tries again. *)
TimeoutAndRetry(c) ==
  /\ alarm[c]
  /\ Goto(c, IF pc[c] = "recv" THEN "send" ELSE pc[c])
  /\ alarm' = [alarm EXCEPT ![c] = FALSE]
  /\ UNCHANGED <<prog, big, size, server, net, seq, left, doits, need, sends, echo, asked, faults>>

(* The alarm clock goes off, in doit or (it is never switched off) later:  *)
(* timeout exits.                                                          *)
Timeout(c) ==
  /\ alarm[c]
  /\ Leave(c)
  /\ UNCHANGED <<prog, big, size, server, seq, left, doits, need, sends, echo, asked, faults>>

(* The host of a server that is gone says so, if the message gets through: *)
(* send or recv fails, exit(5).  An RPC just times out or fails.           *)
Refused(c) ==
  /\ ~srv /\ pc[c] \in {"send", "recv"}
  /\ Leave(c)
  /\ UNCHANGED <<prog, big, size, server, seq, left, doits, need, sends, echo, asked, faults>>

----------------------------------------------------------------------------
Lose ==
  /\ lost < MaxLoss
  /\ \E d \in net : net' = net \ {d}
  /\ lost' = lost + 1
  /\ UNCHANGED <<prog, big, size, server, client, asked, dup>>

ServerStep == UdpEcho \/ UdpShutdown \/ RpcAnswer \/ RpcExit \/ BwRequest \/ BwSend \/ BwSendFails
ClientStep(c) ==
  \/ Connect(c) \/ ConnectFails(c) \/ Doit(c) \/ Cleanup(c) \/ Send(c)
  \/ Retransmit(c) \/ CallTimesOut(c) \/ Receive(c) \/ BwReceive(c) \/ Timeout(c)
Progress == ServerStep \/ \E c \in Clients : ClientStep(c)
Next ==
  \/ Progress
  \/ GoAway \/ Stop \/ Lose
  \/ \E c \in Clients : Refused(c)

(* Processes run on, the net delivers what it does not lose, alarm clocks  *)
(* and retry timers go off.                                                *)
Spec     == Init /\ [][Next]_vars
FairSpec == Spec /\ WF_vars(Progress)

----------------------------------------------------------------------------
(* Type invariant. *)
TypeOK ==
  /\ prog \in Programs /\ big \in BOOLEAN /\ size \in Sizes
  /\ srv \in BOOLEAN /\ port \in BOOLEAN /\ asked \in BOOLEAN
  /\ job.to \in Clients \cup {Stopper} /\ job.left \in Int /\ job.sent \in Nat
  /\ word \in -1 .. Word + MaxDoits * MaxTrips
  /\ \A d \in net : d.to \in Clients \cup {Server}
  /\ pc \in [Clients -> {"init", "idle", "send", "recv", "gone"}]
  /\ seq \in [Clients -> 0 .. MaxDoits * MaxTrips]
  /\ left \in [Clients -> 0 .. MaxTrips] /\ doits \in [Clients -> 0 .. MaxDoits]
  /\ sends \in [Clients -> 0 .. MaxSends] /\ alarm \in [Clients -> BOOLEAN]
  /\ lost \in 0 .. MaxLoss /\ dup \in 0 .. MaxDup

(* An iteration of lat_rpc ends with the answer to the call it began with  *)
(* (clnt_call sees to it), and one of lat_udp, which never looks at the    *)
(* number, with the answer to its own message as long as the net doubles   *)
(* nothing, whatever is lost, late or reordered and however many clients   *)
(* there are: it gives up instead of sending again (timeout), and the      *)
(* server falls into step with every client.  Once a datagram was doubled  *)
(* it is the answer to that or an earlier message of the same client.      *)
IterationIsRoundTrip ==
  [][\A c \in Clients :
       prog # "bw_udp" /\ left'[c] < left[c] =>
         /\ prog = "lat_rpc" \/ dup = 0 => echo'[c] = seq'[c] - 1
         /\ prog = "lat_udp" => echo'[c] \in 0 .. seq'[c] - 1]_vars

(* How far a client of lat_udp can get ahead of the answers, the iteration *)
(* it counts being the answer to an earlier message: never further than    *)
(* the net has doubled datagrams.  (One to come is awaited in recv.)       *)
UnderWay(c) == {d \in net : c \in {d.to, d.from}}
Awaited(c)  == IF pc[c] = "recv" THEN 1 ELSE 0
AheadByDoublings ==
  prog = "lat_udp" =>
    \A c \in Clients : pc[c] # "gone" => Cardinality(UnderWay(c)) <= dup + Awaited(c)

(* No client, and no leftover of one, ends the server: numbers of lat_udp  *)
(* start at 0 and go up, and an RPC client never calls RPC_EXIT.  (bw_udp: *)
(* on big-endian hosts, where the words arrive as they were sent, and with *)
(* messages that fit a datagram, which those of a client without -m do     *)
(* not: they are as long as the transfer.)                                 *)
ServerOutlivesClients ==
  [][ServerStep /\ ~srv' => asked \/ ~big \/ (prog = "bw_udp" /\ Msize > MaxDatagram)]_vars

(* -S ends the server of lat_udp although it hears nothing of it: more     *)
(* datagrams are sent than the net loses, and one has to come through.     *)
ShutdownWorks == (prog = "lat_udp" /\ asked /\ srv /\ MaxLoss < Stops) ~> ~srv

(* Nobody waits for ever for an answer that was lost, or from a server     *)
(* that is gone: timeout ends lat_udp, clnt_call gives up in lat_rpc.      *)
(* (bw_udp has no alarm clock.)                                            *)
ClientsFinish == prog # "bw_udp" => \A c \in Clients : <>(pc[c] = "gone")

(* A call of loop_transfer that comes back has taken at least what ONE of  *)
(* its iterations asks for, in whole messages, however the rounding of     *)
(* main came out and whatever the server sent instead.  That is all: it    *)
(* does so in the first iteration, the others ask again and wait for       *)
(* nothing, though all are credited; and any datagram of that length, a    *)
(* doubled one too, counts.                                                *)
CallMovesAll ==
  [][\A c \in Clients :
       prog = "bw_udp" /\ pc[c] # "idle" /\ pc'[c] = "idle" /\ doits[c] > 0 =>
         echo'[c] * Msize >= Move]_vars

(* What the faults of the net cannot do: make an iteration of lat_rpc end  *)
(* without its answer, put lat_udp further ahead than datagrams were       *)
(* doubled, let a call of bw_udp return with less than one iteration's     *)
(* bytes, or let a client end the server (with the exceptions there).      *)
FaultsStayContained ==
  /\ [](TypeOK /\ AheadByDoublings)
  /\ IterationIsRoundTrip /\ CallMovesAll /\ ServerOutlivesClients

(* bw_udp.c: "shutdown: bw_tcp -S hostname". *)
BwShutdownWorks == (prog = "bw_udp" /\ asked /\ srv) ~> ~srv
=============================================================================
