---------------------------- MODULE StreamServers ----------------------------
(***************************************************************************)
(* The client/server programs of lmbench over connections: lat_tcp and     *)
(* bw_tcp, whose servers fork one child per connection, lat_connect and    *)
(* lat_unix_connect, whose servers handle one connection after the other,  *)
(* and lat_http with lmhttp, whose workers do so in parallel.  A client is *)
(* a child of benchmp (or lat_http itself); one more party runs the        *)
(* program with -S, which asks the server to go.                           *)
(*                                                                         *)
(* A connection carries a control message (the message size, "0", GET or   *)
(* EXIT) and then data in fragments: a read returns those that are there,  *)
(* at most a message, and a write waits until there is room for it.        *)
(***************************************************************************)
EXTENDS Naturals, Sequences, FiniteSets, FiniteSetsExt

CONSTANTS
  Clients,                   \* the measuring processes
  Workers,                   \* the processes of lmhttp (-f)
  MaxSize,                   \* message size in fragments, at most
  Buffer,                    \* fragments a socket buffer holds
  Retries,                   \* refused connects tcp_connect repeats (10)
  Rounds,                    \* bound: iterations of a client
  Slots,                     \* bound: connections at a time
  MaxFaults                  \* bound: failures
ASSUME StreamAssumption ==
  /\ {Workers, MaxSize, Buffer, Rounds, Slots} \subseteq Nat \ {0}
  /\ {Retries, MaxFaults} \subseteq Nat /\ "-S" \notin Clients

Forking == {"lat_tcp", "bw_tcp"}
Serial  == {"lat_connect", "lat_unix_connect"}
Programs == Forking \cup Serial \cup {"lat_http"}
Parties == Clients \cup {"-S"}
Conns   == 1 .. Slots

VARIABLES
  prog, msize,               \* the program; its message or file size
  wk, at,                    \* server processes, and the connection of each
  path,                      \* the socket file of lat_unix_connect exists
  backlog,                   \* connections not yet accepted
  conn,                      \* the connections
  child, left,               \* per connection: the server's child for it, and
                             \* what the server has left to write
  zombies, sigchld,          \* children not waited for; SIGCHLD pending
  cl, fd, tries,             \* clients: where, connection (0: -1), refusals
  todo,                      \* what bw_tcp has left to read
  counted, real,             \* iterations counted; those that took place
  asked, faults              \* -S has connected; what has failed (history)

program == <<prog, msize>>
server  == <<wk, at, path>>
kids    == <<child, zombies, sigchld>>
sockets == <<fd, tries>>
tally   == <<todo, counted, real>>
history == <<asked, faults>>
vars == <<program, server, backlog, conn, left, kids, cl, sockets, tally, history>>

(* One client: these never run in parallel; bound: long messages. *)
Single == prog \in {"lat_connect", "lat_http"} \/ msize > 1

Free == [cli |-> "free", srv |-> "closed", ctl |-> "none", up |-> 0, down |-> 0]
FreeSlots == {k \in Conns : conn[k].cli = "free"}
Team == IF prog = "lat_http" THEN 1 .. Workers ELSE {1}
Listening ==
  (\E w \in Team : wk[w] \in {"accept", "serve", "send"}) \/ (\E k \in Conns : child[k] # "none")

(* A connection both sides have left is free again. *)
Swept(c) == IF c.cli = "closed" /\ c.srv \in {"closed", "reset", "dead"} THEN Free ELSE c
CliClosed(c) == Swept([c EXCEPT !.cli = "closed"])
SrvClosed(c) == Swept([c EXCEPT !.srv = "closed"])

Fails(what) == Cardinality(faults) < MaxFaults /\ faults' = faults \cup {what}

Goto(p, s) == cl' = [cl EXCEPT ![p] = s]
Work(w, s, k) == wk' = [wk EXCEPT ![w] = s] /\ at' = [at EXCEPT ![w] = k]

Init ==
  /\ prog \in Programs /\ msize \in 1 .. MaxSize
  /\ wk = [w \in 1 .. Workers |-> "starting"] /\ at = [w \in 1 .. Workers |-> 0]
  /\ path = FALSE
  /\ backlog = << >> /\ conn = [k \in Conns |-> Free]
  /\ child = [k \in Conns |-> "none"] /\ left = [k \in Conns |-> 0]
  /\ zombies = 0 /\ sigchld = FALSE
  /\ LET idle == IF Single THEN Clients \ {CHOOSE p \in Clients : TRUE} ELSE {}
     IN  cl = [p \in Parties |-> IF p \in idle THEN "gone" ELSE "connect"]
  /\ fd = [p \in Parties |-> 0]
  /\ tries = [p \in Parties |-> 0] /\ todo = [p \in Parties |-> 0]
  /\ counted = [p \in Parties |-> 0] /\ real = [p \in Parties |-> 0]
  /\ asked = FALSE /\ faults = {}

----------------------------------------------------------------------------
(* The servers. *)

(* tcp_server listens; main of lmhttp forks its workers. *)
TcpServer ==
  /\ prog # "lat_unix_connect" /\ \A w \in Team : wk[w] = "starting"
  /\ wk' = [w \in 1 .. Workers |-> IF w \in Team THEN "accept" ELSE wk[w]]
  /\ UNCHANGED <<program, at, path, backlog, conn, left, kids, cl, sockets, tally, history>>

(* unix_server: bind makes the socket file. *)
UnixServer ==
  /\ prog = "lat_unix_connect" /\ wk[1] = "starting"
  /\ Work(1, "accept", 0) /\ path' = TRUE
  /\ UNCHANGED <<program, backlog, conn, left, kids, cl, sockets, tally, history>>

(* tcp_accept, unix_accept: the oldest connection. *)
Accept(w) ==
  /\ w \in Team /\ wk[w] = "accept" /\ backlog # << >>
  /\ backlog' = Tail(backlog)
  /\ conn' = [conn EXCEPT ![Head(backlog)].srv = "open"]

(* server_main of lat_tcp and bw_tcp gives it to a child. *)
AcceptAndFork(w) ==
  /\ prog \in Forking /\ Accept(w)
  /\ child' = [child EXCEPT ![Head(backlog)] = "control"]
  /\ UNCHANGED <<program, server, left, zombies, sigchld, cl, sockets, tally, history>>

(* fork fails: nobody serves the connection, and nobody closes it. *)
AcceptForkFails(w) ==
  /\ prog \in Forking /\ Accept(w)
  /\ Fails("fork")
  /\ UNCHANGED <<program, server, left, kids, cl, sockets, tally, asked>>

(* worker of lmhttp, and the serial servers, read it themselves. *)
AcceptAndServe(w) ==
  /\ prog \notin Forking /\ Accept(w)
  /\ Work(w, "serve", Head(backlog))
  /\ UNCHANGED <<program, path, left, kids, cl, sockets, tally, history>>

(* The children of lat_tcp and bw_tcp never close the listening socket     *)
(* they inherit.  When the last process that holds it goes - of the        *)
(* workers ws and of the children for ks - connections nobody has accepted *)
(* are reset.  One that a failed fork has left is held by the server and   *)
(* the children forked since; which these are is left open.                *)
Waiting(c) == {k \in Conns : c[k].cli # "free" /\ c[k].srv = "queued"}
Leaked(c)  == {k \in Conns : c[k].cli # "free" /\ c[k].srv = "open" /\ child[k] = "none"}
Reset(c, S) ==
  [k \in Conns |-> IF k \in S THEN Swept([c[k] EXCEPT !.srv = "reset"]) ELSE c[k]]
LetGo(c, ws, ks) ==
  IF \E v \in ws : wk[v] # "gone" THEN conn' = c /\ UNCHANGED backlog
  ELSE IF \E j \in ks : child[j] # "none"
         THEN UNCHANGED backlog /\ \E S \in SUBSET Leaked(c) : conn' = Reset(c, S)
         ELSE backlog' = << >> /\ conn' = Reset(c, Waiting(c) \cup Leaked(c))
Leave(w, s, c) == Work(w, s, 0) /\ LetGo(c, Team \ {w}, Conns)
Hangup(w) == IF at[w] = 0 THEN conn ELSE [conn EXCEPT ![at[w]] = SrvClosed(@)]

(* The hour of GO_AWAY is over, or somebody kills the server. *)
ServerKilled(w) ==
  /\ w \in Team /\ wk[w] \notin {"starting", "gone"}
  /\ Leave(w, "gone", Hangup(w))
  /\ Fails("server")
  /\ UNCHANGED <<program, path, left, kids, cl, sockets, tally, asked>>

(* Mutant of SigchldWait: it waits for all, and the next signal for none.  *)
SigchldWaitTwice ==
  /\ sigchld /\ wk[1] # "gone"
  /\ zombies' = IF zombies > 1 THEN zombies - 2 ELSE 0
  /\ sigchld' = (zombies > 1)
  /\ UNCHANGED <<program, server, backlog, conn, left, child, cl, sockets, tally, history>>

(* sigchld_wait_handler: one wait for one signal. *)
SigchldWait ==
  /\ sigchld /\ wk[1] # "gone"
  /\ zombies' = zombies - 1 /\ sigchld' = FALSE
  /\ UNCHANGED <<program, server, backlog, conn, left, child, cl, sockets, tally, history>>

(* server_main of lat_connect: a byte ends it, the end of file a measuring *)
(* client leaves does not.                                                 *)
ConnectRead(w) ==
  /\ prog = "lat_connect" /\ wk[w] = "serve"
  /\ IF conn[at[w]].ctl # "none"
       THEN Leave(w, "gone", Hangup(w))
       ELSE /\ conn[at[w]].cli = "closed"
            /\ conn' = Hangup(w) /\ Work(w, "accept", 0) /\ UNCHANGED backlog

(* The same for lat_unix_connect and the byte '0'; unix_done closes the    *)
(* socket first.                                                           *)
UnixRead(w) ==
  /\ prog = "lat_unix_connect" /\ wk[w] = "serve"
  /\ IF conn[at[w]].ctl = "0"
       THEN Leave(w, "unlink", Hangup(w))
       ELSE /\ conn[at[w]].cli = "closed"
            /\ conn' = Hangup(w) /\ Work(w, "accept", 0) /\ UNCHANGED backlog

SerialRead(w) ==
  /\ ConnectRead(w) \/ UnixRead(w)
  /\ UNCHANGED <<program, path, left, kids, cl, sockets, tally, history>>

(* Mutant of UnixDone: the socket file stays. *)
UnixDoneKeepingPath(w) ==
  /\ wk[w] = "unlink"
  /\ Work(w, "gone", 0)
  /\ UNCHANGED <<program, path, backlog, conn, left, kids, cl, sockets, tally, history>>

(* ... and then removes the file. *)
UnixDone(w) ==
  /\ wk[w] = "unlink"
  /\ path' = FALSE /\ Work(w, "gone", 0)
  /\ UNCHANGED <<program, backlog, conn, left, kids, cl, sockets, tally, history>>

(* source of lmhttp: EXIT ends the worker that reads it, GET is answered.  *)
HttpRead(w) ==
  /\ prog = "lat_http" /\ wk[w] = "serve"
  /\ LET k == at[w]
     IN  \/ conn[k].ctl = "EXIT" /\ Leave(w, "gone", Hangup(w)) /\ UNCHANGED left
         \/ /\ conn[k].ctl = "none" /\ conn[k].cli = "closed"
            /\ conn' = Hangup(w) /\ Work(w, "accept", 0) /\ UNCHANGED <<backlog, left>>
         \/ /\ conn[k].ctl = "GET"
            /\ conn' = [conn EXCEPT ![k].ctl = "none"]
            /\ left' = [left EXCEPT ![k] = msize]
            /\ Work(w, "send", k) /\ UNCHANGED backlog
  /\ UNCHANGED <<program, path, kids, cl, sockets, tally, history>>

(* rdwr (files of one fragment) and mmap_rdwr, while the client reads.     *)
HttpSend(w) ==
  /\ wk[w] = "send" /\ conn[at[w]].cli = "open"
  /\ LET k == at[w]
     IN  IF left[k] > 0
           THEN /\ conn[k].down < Buffer
                /\ conn' = [conn EXCEPT ![k].down = @ + 1]
                /\ left' = [left EXCEPT ![k] = @ - 1]
                /\ UNCHANGED <<wk, at>>
           ELSE conn' = Hangup(w) /\ Work(w, "accept", 0) /\ UNCHANGED left
  /\ UNCHANGED <<program, path, backlog, kids, cl, sockets, tally, history>>

(* write returns -1, SIGPIPE being ignored: mmap_rdwr stops, rdwr adds the *)
(* -1 to its count and exits the next time round.                          *)
MmapSendFails(w) == conn' = Hangup(w) /\ Work(w, "accept", 0) /\ UNCHANGED backlog
RdwrSendFails(w) == Leave(w, "gone", Hangup(w))
HttpSendFails(w) ==
  /\ wk[w] = "send" /\ conn[at[w]].cli = "closed"
  /\ IF msize = 1 /\ left[at[w]] > 0 THEN RdwrSendFails(w) ELSE MmapSendFails(w)
  /\ left' = [left EXCEPT ![at[w]] = 0]
  /\ UNCHANGED <<program, path, kids, cl, sockets, tally, history>>

----------------------------------------------------------------------------
(* The children of the servers of lat_tcp and bw_tcp. *)

(* doserver and source read the size. *)
ReadSize(k) ==
  /\ child[k] = "control" /\ conn[k].ctl = "size"
  /\ conn' = [conn EXCEPT ![k].ctl = "none"]
  /\ IF prog = "lat_tcp"
       THEN child' = [child EXCEPT ![k] = "read"] /\ UNCHANGED left
       ELSE child' = [child EXCEPT ![k] = "write"] /\ left' = [left EXCEPT ![k] = msize]
  /\ UNCHANGED <<program, server, backlog, zombies, sigchld, cl, sockets, tally, history>>

(* Mutant of MeansShutdown: bw_tcp takes the end of file for one, too. *)
MeansShutdownAnyEnd(c) == c.ctl = "0" \/ (c.ctl = "none" /\ c.cli = "closed")

(* "A connection with no data means shut down" to lat_tcp, a zero to       *)
(* bw_tcp.                                                                 *)
MeansShutdown(c) ==
  IF prog = "lat_tcp" THEN c.ctl = "none" /\ c.cli = "closed" ELSE c.ctl = "0"

(* kill(getppid(), SIGTERM). *)
Shutdown(k) ==
  /\ child[k] = "control" /\ MeansShutdown(conn[k])
  /\ child' = [child EXCEPT ![k] = "none"]
  /\ Work(1, "gone", 0)
  /\ LetGo([conn EXCEPT ![k] = SrvClosed(@)], {}, Conns \ {k})
  /\ UNCHANGED <<program, path, left, zombies, sigchld, cl, sockets, tally, history>>

(* A child that is through leaves a zombie and a signal, while it has a    *)
(* parent.                                                                 *)
ChildEnds(k) ==
  /\ LetGo([conn EXCEPT ![k] = SrvClosed(@)], Team, Conns \ {k})
  /\ child' = [child EXCEPT ![k] = "none"]
  /\ left' = [left EXCEPT ![k] = 0]
  /\ IF wk[1] = "gone" THEN UNCHANGED <<zombies, sigchld>>
     ELSE zombies' = zombies + 1 /\ sigchld' = TRUE
  /\ UNCHANGED <<program, server, cl, sockets, tally, history>>

(* source finds nothing to read: exit(7). *)
NoControl(k) ==
  /\ child[k] = "control" /\ prog = "bw_tcp"
  /\ conn[k].ctl = "none" /\ conn[k].cli = "closed"
  /\ ChildEnds(k)

(* Mutant of EchoRead: the answer is longer than the message. *)
EchoReadLonger(k) ==
  /\ child[k] = "read" /\ conn[k].up > 0
  /\ conn' = [conn EXCEPT ![k].up = @ - Min({@, msize})]
  /\ left' = [left EXCEPT ![k] = msize + 1]
  /\ child' = [child EXCEPT ![k] = "write"]
  /\ UNCHANGED <<program, server, backlog, zombies, sigchld, cl, sockets, tally, history>>

(* doserver of lat_tcp answers whatever a read returns with a message. *)
EchoRead(k) ==
  /\ child[k] = "read" /\ conn[k].up > 0
  /\ conn' = [conn EXCEPT ![k].up = @ - Min({@, msize})]
  /\ left' = [left EXCEPT ![k] = msize]
  /\ child' = [child EXCEPT ![k] = "write"]
  /\ UNCHANGED <<program, server, backlog, zombies, sigchld, cl, sockets, tally, history>>

EchoWritten(k)   == prog = "lat_tcp" /\ child' = [child EXCEPT ![k] = "read"] /\ left' = [left EXCEPT ![k] = 0]
SourceWritten(k) == prog = "bw_tcp" /\ UNCHANGED child /\ left' = [left EXCEPT ![k] = msize]

ChildWrites(k) ==
  /\ child[k] = "write" /\ conn[k].cli = "open" /\ conn[k].down < Buffer
  /\ conn' = [conn EXCEPT ![k].down = @ + 1]
  /\ IF left[k] > 1
       THEN left' = [left EXCEPT ![k] = @ - 1] /\ UNCHANGED child
       ELSE EchoWritten(k) \/ SourceWritten(k)
  /\ UNCHANGED <<program, server, backlog, zombies, sigchld, cl, sockets, tally, history>>

(* End of file, or SIGPIPE. *)
ChildSeesEnd(k) ==
  /\ conn[k].cli = "closed"
  /\ (child[k] = "read" /\ conn[k].up = 0) \/ child[k] = "write"
  /\ ChildEnds(k)

----------------------------------------------------------------------------
(* The clients. *)

Sock(p) == conn[fd[p]]
Connected(p) == fd[p] # 0
Start == [lat_tcp |-> "size", bw_tcp |-> "size", lat_connect |-> "close",
          lat_unix_connect |-> "close", lat_http |-> "get"]
(* Where a client goes from the -1 of tcp_connect: only bw_tcp looks. *)
Unconnected(p) == IF p = "-S" \/ prog = "bw_tcp" THEN "gone" ELSE Start[prog]

(* tcp_connect, unix_connect. *)
Connect(p) ==
  /\ cl[p] = "connect" /\ Listening /\ FreeSlots # {}
  /\ LET k == Min(FreeSlots)
     IN  /\ conn' = [conn EXCEPT ![k] = [Free EXCEPT !.cli = "open", !.srv = "queued"]]
         /\ backlog' = Append(backlog, k)
         /\ fd' = [fd EXCEPT ![p] = k]
  /\ tries' = [tries EXCEPT ![p] = 0]
  /\ Goto(p, IF p = "-S" THEN "ask" ELSE Start[prog])
  /\ asked' = (asked \/ p = "-S")
  /\ UNCHANGED <<program, server, left, kids, tally, faults>>

(* Mutant of Refused: tcp_connect never stops trying. *)
RefusedForEver(p) ==
  /\ cl[p] = "connect" /\ ~Listening
  /\ Goto(p, IF prog = "lat_unix_connect" THEN "gone" ELSE "connect")
  /\ fd' = [fd EXCEPT ![p] = 0]
  /\ UNCHANGED <<program, server, backlog, conn, left, kids, tries, tally, history>>

(* Nobody listens.  unix_connect exits; tcp_connect tries again until it   *)
(* has been refused too often, and does not forget that.                   *)
Refused(p) ==
  /\ cl[p] = "connect" /\ ~Listening
  /\ LET again == prog # "lat_unix_connect" /\ tries[p] < Retries
     IN  /\ Goto(p, IF again THEN "connect"
                    ELSE IF prog = "lat_unix_connect" THEN "gone" ELSE Unconnected(p))
         /\ tries' = [tries EXCEPT ![p] = IF again THEN @ + 1 ELSE @]
  /\ fd' = [fd EXCEPT ![p] = 0]
  /\ UNCHANGED <<program, server, backlog, conn, left, kids, tally, history>>

(* main with -S: lat_tcp just closes, lat_http sends EXIT, the others "0". *)
AskShutdown ==
  /\ cl["-S"] = "ask" /\ Goto("-S", "gone")
  /\ LET word == IF prog = "lat_tcp" THEN "none" ELSE IF prog = "lat_http" THEN "EXIT" ELSE "0"
     IN  conn' = [conn EXCEPT ![fd["-S"]] = CliClosed([@ EXCEPT !.ctl = word])]
  /\ UNCHANGED <<program, server, backlog, left, kids, sockets, tally, history>>

(* init and initialize send the message size, http() a request. *)
Say(p, from, word, to) ==
  /\ cl[p] = from /\ Goto(p, to)
  /\ conn' = IF Connected(p) THEN [conn EXCEPT ![fd[p]].ctl = word] ELSE conn
  /\ todo' = [todo EXCEPT ![p] = msize]
  /\ UNCHANGED <<program, server, backlog, left, kids, sockets, counted, real, history>>
TcpSendSize(p) == prog = "lat_tcp" /\ Say(p, "size", "size", "write")
BwSendSize(p)  == prog = "bw_tcp" /\ Say(p, "size", "size", "read")
HttpSendGet(p) == Say(p, "get", "GET", "read")

(* An iteration is over: r = 1 if it has taken place. *)
Count(p, r, again, done) ==
  /\ counted' = [counted EXCEPT ![p] = @ + 1]
  /\ real' = [real EXCEPT ![p] = @ + r]
  /\ Goto(p, IF counted[p] + 1 < Rounds THEN again ELSE done)
  /\ UNCHANGED <<program, server, backlog, left, kids, sockets, history>>

(* doclient of lat_connect, benchmark of lat_unix_connect. *)
CloseAtOnce(p) ==
  /\ cl[p] = "close" /\ prog \in Serial
  /\ Count(p, IF Connected(p) THEN 1 ELSE 0, "connect", "done")
  /\ conn' = IF Connected(p) THEN [conn EXCEPT ![fd[p]] = CliClosed(@)] ELSE conn
  /\ UNCHANGED todo

(* doclient of lat_tcp. *)
WriteMessage(p) ==
  /\ cl[p] = "write" /\ Connected(p) /\ Sock(p).srv \in {"queued", "open"}
  /\ Sock(p).up + msize <= Buffer
  /\ conn' = [conn EXCEPT ![fd[p]].up = @ + msize]
  /\ Goto(p, "read")
  /\ UNCHANGED <<program, server, backlog, left, kids, sockets, tally, history>>

ReadAnswer(p) ==
  /\ cl[p] = "read" /\ prog = "lat_tcp" /\ Connected(p) /\ Sock(p).down > 0
  /\ conn' = [conn EXCEPT ![fd[p]].down = @ - Min({@, msize})]
  /\ Count(p, 1, "write", "cleanup")
  /\ UNCHANGED todo

(* It looks at nothing a call returns.  The first call on a connection     *)
(* that has been reset fails, later writes are SIGPIPE.                    *)
WriteFails(p) ==
  /\ cl[p] = "write" /\ (Connected(p) => Sock(p).srv \in {"reset", "dead"})
  /\ IF Connected(p) /\ Sock(p).srv = "dead"
       THEN Goto(p, "gone") /\ conn' = [conn EXCEPT ![fd[p]] = CliClosed(@)]
       ELSE Goto(p, "read") /\ conn' = IF Connected(p) THEN [conn EXCEPT ![fd[p]].srv = "dead"] ELSE conn
  /\ UNCHANGED <<program, server, backlog, left, kids, sockets, tally, history>>
ReadFails(p) ==
  /\ cl[p] = "read" /\ prog = "lat_tcp" /\ (Connected(p) => Sock(p).srv \in {"reset", "dead"})
  /\ Count(p, 0, "write", "cleanup")
  /\ conn' = IF Connected(p) THEN [conn EXCEPT ![fd[p]].srv = "dead"] ELSE conn
  /\ UNCHANGED todo

(* Mutant of LoopTransfer: an iteration is one read. *)
LoopTransferOnce(p) ==
  /\ cl[p] = "read" /\ prog = "bw_tcp" /\ Sock(p).down > 0
  /\ LET c == Min({Sock(p).down, msize})
     IN  /\ conn' = [conn EXCEPT ![fd[p]].down = @ - c]
         /\ Count(p, IF c >= todo[p] THEN 1 ELSE 0, "read", "cleanup") /\ UNCHANGED todo

(* loop_transfer of bw_tcp reads what there is until it has had it all.    *)
LoopTransfer(p) ==
  /\ cl[p] = "read" /\ prog = "bw_tcp" /\ Sock(p).down > 0
  /\ LET c == Min({Sock(p).down, msize})
     IN  /\ conn' = [conn EXCEPT ![fd[p]].down = @ - c]
         /\ IF c < todo[p]
              THEN /\ todo' = [todo EXCEPT ![p] = @ - c]
                   /\ UNCHANGED <<program, server, backlog, left, kids, cl, sockets,
                                  counted, real, history>>
              ELSE todo' = [todo EXCEPT ![p] = msize] /\ Count(p, 1, "read", "cleanup")

TransferFails(p) ==
  /\ cl[p] = "read" /\ prog = "bw_tcp" /\ Sock(p).srv = "reset"
  /\ Goto(p, "gone") /\ conn' = [conn EXCEPT ![fd[p]] = CliClosed(@)]
  /\ UNCHANGED <<program, server, backlog, left, kids, sockets, tally, history>>

(* http() reads to the end of the file, or to the first error. *)
HttpReads(p) ==
  /\ cl[p] = "read" /\ prog = "lat_http"
  /\ IF Connected(p) /\ Sock(p).down > 0
       THEN /\ conn' = [conn EXCEPT ![fd[p]].down = 0]
            /\ todo' = [todo EXCEPT ![p] = @ - Sock(p).down]
            /\ UNCHANGED <<program, server, backlog, left, kids, cl, sockets, counted, real, history>>
       ELSE /\ Connected(p) => Sock(p).srv \in {"closed", "reset"}
            /\ conn' = IF Connected(p) THEN [conn EXCEPT ![fd[p]] = CliClosed(@)] ELSE conn
            /\ Count(p, IF todo[p] = 0 THEN 1 ELSE 0, "connect", "done")
            /\ UNCHANGED todo

(* cleanup: the connection is closed. *)
Cleanup(p) ==
  /\ cl[p] = "cleanup" /\ Goto(p, "done")
  /\ conn' = IF Connected(p) THEN [conn EXCEPT ![fd[p]] = CliClosed(@)] ELSE conn
  /\ UNCHANGED <<program, server, backlog, left, kids, sockets, tally, history>>

ClientKilled(p) ==
  /\ p \in Clients /\ cl[p] \notin {"done", "gone"} /\ Goto(p, "gone")
  /\ conn' = IF Connected(p) /\ Sock(p).cli = "open" /\ cl[p] # "connect"
               THEN [conn EXCEPT ![fd[p]] = CliClosed(@)] ELSE conn
  /\ Fails("client")
  /\ UNCHANGED <<program, server, backlog, left, kids, sockets, tally, asked>>

----------------------------------------------------------------------------
Server(w) ==
  \/ AcceptAndFork(w) \/ AcceptAndServe(w) \/ SerialRead(w) \/ UnixDone(w)
  \/ HttpRead(w) \/ HttpSend(w) \/ HttpSendFails(w)
Child(k) ==
  ReadSize(k) \/ Shutdown(k) \/ NoControl(k) \/ EchoRead(k) \/ ChildWrites(k) \/ ChildSeesEnd(k)
Client(p) ==
  \/ Connect(p) \/ Refused(p) \/ TcpSendSize(p) \/ BwSendSize(p) \/ HttpSendGet(p)
  \/ CloseAtOnce(p) \/ WriteMessage(p) \/ ReadAnswer(p) \/ WriteFails(p) \/ ReadFails(p)
  \/ LoopTransfer(p) \/ TransferFails(p) \/ HttpReads(p) \/ Cleanup(p)
  \/ p = "-S" /\ AskShutdown

Progress ==
  \/ TcpServer \/ UnixServer \/ SigchldWait
  \/ \E w \in 1 .. Workers : Server(w)
  \/ \E k \in Conns : Child(k)
  \/ \E p \in Parties : Client(p)

Failure ==
  \/ \E w \in 1 .. Workers : AcceptForkFails(w) \/ ServerKilled(w)
  \/ \E p \in Parties : ClientKilled(p)

Next == Progress \/ Failure

Spec == Init /\ [][Next]_vars

(* As long as some process can run, one does.  (Every process has finitely *)
(* much to do, so no more is needed.)                                      *)
FairSpec == Spec /\ WF_vars(Progress)

----------------------------------------------------------------------------
(* Type invariant. *)
TypeOK ==
  /\ prog \in Programs /\ msize \in 1 .. MaxSize
  /\ wk \in [1 .. Workers -> {"starting", "accept", "serve", "send", "unlink", "gone"}]
  /\ at \in [1 .. Workers -> 0 .. Slots] /\ path \in BOOLEAN
  /\ backlog \in Seq(Conns)
  /\ conn \in [Conns -> [cli : {"free", "open", "closed"},
                         srv : {"queued", "open", "closed", "reset", "dead"},
                         ctl : {"none", "size", "0", "GET", "EXIT"},
                         up : 0 .. Buffer, down : 0 .. Buffer]]
  /\ child \in [Conns -> {"none", "control", "read", "write"}]
  /\ left \in [Conns -> 0 .. MaxSize] /\ zombies \in Nat /\ sigchld \in BOOLEAN
  /\ cl \in [Parties -> {"connect", "ask", "size", "get", "write", "read", "close",
                         "cleanup", "done", "gone"}]
  /\ fd \in [Parties -> 0 .. Slots] /\ tries \in [Parties -> 0 .. Retries]
  /\ todo \in [Parties -> 0 .. MaxSize]
  /\ counted \in [Parties -> 0 .. Rounds] /\ real \in [Parties -> 0 .. Rounds]
  /\ asked \in BOOLEAN /\ faults \subseteq {"fork", "client", "server"}

(* A server goes because it is asked to or killed, not because of what     *)
(* clients do: however they come and go - being killed at the wrong moment *)
(* included, except where the end of a connection means shutdown (lat_tcp) *)
(* or rdwr exits (lmhttp, small files).                                    *)
ServerOutlivesClients ==
  ~asked /\ "server" \notin faults
    /\ ~("client" \in faults /\ (prog = "lat_tcp" \/ (prog = "lat_http" /\ msize = 1)))
  => \A w \in Team : wk[w] \notin {"unlink", "gone"}

(* With a message that comes in one piece (the default is a byte) an       *)
(* iteration of lat_tcp is a round trip: when it starts, nothing of the    *)
(* last one is under way.  (doclient, doserver.)                           *)
IterationIsRoundTrip ==
  prog = "lat_tcp" /\ msize = 1 =>
    \A p \in Clients : cl[p] = "write" /\ Connected(p) /\ Sock(p).srv = "open" =>
      /\ Sock(p).up = 0 /\ Sock(p).down = 0 /\ child[fd[p]] # "write"

(* A client of bw_tcp or lat_unix_connect that delivers a result has done  *)
(* what it counts, whatever servers and connections did.  (The checks in   *)
(* initialize and loop_transfer, exit(4) in unix_connect.)                 *)
ResultIsMeasured ==
  prog \in {"bw_tcp", "lat_unix_connect"} =>
    \A p \in Clients : cl[p] = "done" => real[p] = Rounds

(* The wait() in sigchld_wait_handler never blocks the server: there is a  *)
(* zombie for every signal, though not a signal for every zombie.          *)
HandlerNeverBlocks == sigchld /\ wk[1] # "gone" => zombies > 0

(* A server goes on serving, and is never stuck in its handler. *)
ServerKeepsServing == TypeOK /\ ServerOutlivesClients /\ HandlerNeverBlocks

(* What a client counts and reports has happened. *)
IterationsAreReal == IterationIsRoundTrip /\ ResultIsMeasured

(* -S works, except that EXIT reaches one worker of lmhttp: the server     *)
(* goes, and lat_unix_connect takes its socket file along.                 *)
ShutdownWorks ==
  asked ~> \/ \E w \in Team : wk[w] = "gone" /\ ~path
           \/ faults # {}

(* Every client that waits for no other comes to an end, whether it is     *)
(* served, reset or refused, or queued by a server that has gone meanwhile *)
(* and held up by the children of other clients; not where a fork has      *)
(* failed, nor where lat_tcp's answers outgrow the messages (a read of     *)
(* half a message is answered by a whole one).                             *)
ClientsFinish ==
  <>(\/ \A p \in Clients : cl[p] \in {"done", "gone"}
     \/ "fork" \in faults \/ (prog = "lat_tcp" /\ msize > 1))
=============================================================================
