----------------------------- MODULE ServerProofs -----------------------------
(***************************************************************************)
(* Proofs about the servers of lmbench and their clients.  First the       *)
(* connection servers, for any number of clients, workers, connections,    *)
(* rounds and failures, and messages and buffers of any size; then, from   *)
(* the declaration of D, the datagram servers, for any number of clients,  *)
(* iterations and faults, and all sizes.                                   *)
(***************************************************************************)
EXTENDS StreamServers, FiniteSetTheorems, WellFoundedInduction, SequenceTheorems, TLAPS

(* Which labels belong to which program. *)
Labels ==
  /\ cl["-S"] \in {"connect", "ask", "gone"}
  /\ \A p \in Clients :
       /\ cl[p] # "ask"
       /\ cl[p] \in {"size", "cleanup"} => prog \in Forking
       /\ cl[p] = "write" => prog = "lat_tcp"
       /\ cl[p] = "read" => prog \notin Serial
       /\ cl[p] = "get" => prog = "lat_http"
       /\ cl[p] = "close" => prog \in Serial
  /\ \A w \in 1 .. Workers :
       /\ wk[w] = "serve" => prog \notin Forking
       /\ wk[w] = "send" => prog = "lat_http"
       /\ wk[w] = "unlink" => prog = "lat_unix_connect"
       /\ w \notin Team => wk[w] = "starting"
  /\ \A k \in Conns : child[k] # "none" => prog \in Forking

(* A party that uses a connection has it to itself. *)
Using == {"ask", "size", "get", "write", "read", "close", "cleanup"}
ClientEnds ==
  /\ \A p \in Parties : cl[p] \in Using /\ fd[p] # 0 => conn[fd[p]].cli = "open"
  /\ \A p, q \in Parties :
       p # q /\ cl[p] \in Using /\ cl[q] \in Using /\ fd[p] # 0 => fd[p] # fd[q]
  /\ \A k \in Conns : conn[k].cli = "free" => conn[k] = Free
  /\ prog \in {"bw_tcp", "lat_unix_connect"} =>
       \A p \in Clients : cl[p] \in Using => fd[p] # 0
  /\ cl["-S"] = "ask" => fd["-S"] # 0

(* So has a worker, or a child, and a connection waits to be accepted once. *)
ServerEnds ==
  /\ \A i \in 1 .. Len(backlog) : conn[backlog[i]].srv = "queued"
  /\ \A i, j \in 1 .. Len(backlog) : i # j => backlog[i] # backlog[j]
  /\ \A w \in 1 .. Workers :
       /\ at[w] # 0 <=> wk[w] \in {"serve", "send"}
       /\ at[w] # 0 => conn[at[w]].srv = "open"
  /\ \A v, w \in 1 .. Workers : v # w /\ at[w] # 0 => at[w] # at[v]
  /\ \A k \in Conns : child[k] # "none" => conn[k].srv = "open"

(* Only -S says what ends a server. *)
Words ==
  /\ cl["-S"] = "ask" => asked
  /\ \A k \in Conns :
       /\ conn[k].ctl \in {"0", "EXIT"} => asked
       /\ conn[k].ctl = "size" => prog \in Forking
       /\ conn[k].ctl = "GET" => prog = "lat_http"

(* No client of lat_tcp leaves of itself before its child knows the size.  *)
Told(k) == conn[k].ctl = "size" \/ (child[k] # "control" /\ conn[k].srv # "queued")
ByItself == ~asked /\ "client" \notin faults
SizeIsTold ==
  prog = "lat_tcp" =>
    /\ \A p \in Clients : cl[p] \in {"write", "read", "cleanup"} /\ fd[p] # 0 => Told(fd[p])
    /\ ByItself => \A k \in Conns : conn[k].cli = "closed" => Told(k)

(* Nor does one of lat_http before its server; what the server has written *)
(* and has left to write is what the client waits for.                     *)
FileIsSent ==
  prog = "lat_http" =>
    /\ ByItself => \A k \in Conns : conn[k].cli # "closed"
    /\ \A p \in Clients : fd[p] # 0 =>
         /\ cl[p] = "get" =>
              /\ conn[fd[p]].ctl = "none" /\ conn[fd[p]].down = 0
              /\ \A w \in 1 .. Workers : at[w] = fd[p] => wk[w] = "serve"
         /\ cl[p] = "read" =>
              /\ conn[fd[p]].down <= todo[p]
              /\ conn[fd[p]].ctl = "GET" =>
                   /\ conn[fd[p]].down = 0 /\ todo[p] = msize
                   /\ \A w \in 1 .. Workers : at[w] = fd[p] => wk[w] = "serve"
              /\ \A w \in 1 .. Workers : at[w] = fd[p] /\ wk[w] = "send" =>
                   conn[fd[p]].down + left[fd[p]] <= todo[p]

(* A client counts up to its last round. *)
Tally ==
  \A p \in Clients :
    /\ real[p] <= counted[p]
    /\ cl[p] \in {"connect", "size", "get", "write", "read", "close"} => counted[p] < Rounds
    /\ cl[p] \in {"cleanup", "done"} => counted[p] = Rounds
    /\ prog \in {"bw_tcp", "lat_unix_connect"} => real[p] = counted[p]

(* A message of one fragment is in one place. *)
Answering(k) == IF child[k] = "write" THEN 1 ELSE 0
OneMessage ==
  /\ \A k \in Conns : child[k] = "write" => left[k] <= msize
  /\ prog = "lat_tcp" /\ msize = 1 =>
       \A p \in Clients : fd[p] # 0 /\ conn[fd[p]].srv \in {"queued", "open"} =>
         /\ cl[p] \in {"size", "write"} =>
              conn[fd[p]].up = 0 /\ conn[fd[p]].down = 0 /\ Answering(fd[p]) = 0
         /\ cl[p] = "read" =>
              conn[fd[p]].up + conn[fd[p]].down + Answering(fd[p]) <= 1

IInv ==
  /\ TypeOK /\ Labels /\ ClientEnds /\ ServerEnds /\ Words /\ SizeIsTold /\ FileIsSent
  /\ Tally /\ OneMessage /\ ServerOutlivesClients /\ HandlerNeverBlocks

(* The least of a set of naturals is one of them. *)
LEMMA MinIsLeast ==
  ASSUME NEW S \in SUBSET Nat, S # {}
  PROVE  Min(S) \in S /\ \A x \in S : Min(S) <= x
<1> DEFINE R == OpToRel(<, Nat)
<1>1. \E x \in S : \A y \in S : ~(<<y, x>> \in R)
  <2>1. IsWellFoundedOn(R, Nat)
    BY NatLessThanWellFounded
  <2> HIDE DEF R
  <2> QED
    BY <2>1, WFMin
<1>2. \E x \in S : \A y \in S : x <= y
  <2>1. \A x, y \in Nat : ~(<<y, x>> \in R) => x <= y
    BY DEF OpToRel
  <2> HIDE DEF R
  <2> QED
    BY <1>1, <2>1
<1> QED
  BY <1>2 DEF Min

LEMMA MinOfTwo ==
  ASSUME NEW a \in Nat, NEW b \in Nat
  PROVE  Min({a, b}) = IF a <= b THEN a ELSE b
<1>1. Min({a, b}) \in {a, b} /\ Min({a, b}) <= a /\ Min({a, b}) <= b
  BY MinIsLeast
<1> QED
  BY <1>1

(* The sizes, as the proofs use them. *)
LEMMA Size ==
  /\ Workers \in Nat /\ 1 \in 1 .. Workers /\ MaxSize \in Nat /\ MaxSize >= 1
  /\ Buffer \in Nat /\ Buffer >= 1 /\ Retries \in Nat /\ Rounds \in Nat /\ Rounds >= 1
  /\ Slots \in Nat /\ 0 \notin Conns /\ 0 .. Slots = Conns \cup {0} /\ Conns \subseteq Nat
  /\ "-S" \notin Clients /\ "-S" \in Parties /\ Clients \subseteq Parties
  /\ Team \subseteq 1 .. Workers /\ 1 \in Team /\ (prog # "lat_http" => Team = {1})
  BY StreamAssumption DEF Conns, Parties, Team

Socket ==
  [cli : {"free", "open", "closed"}, srv : {"queued", "open", "closed", "reset", "dead"},
   ctl : {"none", "size", "0", "GET", "EXIT"}, up : 0 .. Buffer, down : 0 .. Buffer]

LEMMA FreeIsSocket ==
  /\ Free \in Socket /\ Free.cli = "free" /\ Free.srv = "closed" /\ Free.ctl = "none"
  /\ Free.up = 0 /\ Free.down = 0
  BY Size DEF Free, Socket

(* What closing one side makes of a connection. *)
LEMMA CliClosedFacts ==
  ASSUME NEW c \in Socket
  PROVE  /\ CliClosed(c) \in Socket
         /\ \/ c.srv \in {"closed", "reset", "dead"} /\ CliClosed(c) = Free
            \/ /\ c.srv \in {"queued", "open"} /\ CliClosed(c).cli = "closed"
               /\ CliClosed(c).srv = c.srv /\ CliClosed(c).ctl = c.ctl
               /\ CliClosed(c).up = c.up /\ CliClosed(c).down = c.down
  BY Size DEF CliClosed, Swept, Socket, Free

LEMMA SrvClosedFacts ==
  ASSUME NEW c \in Socket
  PROVE  /\ SrvClosed(c) \in Socket
         /\ \/ c.cli = "closed" /\ SrvClosed(c) = Free
            \/ /\ c.cli # "closed" /\ SrvClosed(c).cli = c.cli
               /\ SrvClosed(c).srv = "closed" /\ SrvClosed(c).ctl = c.ctl
               /\ SrvClosed(c).up = c.up /\ SrvClosed(c).down = c.down
  BY Size DEF SrvClosed, Swept, Socket, Free

(* What resetting makes of the connections. *)
LEMMA ResetFacts ==
  ASSUME NEW c \in [Conns -> Socket], NEW S, \A k \in S : c[k].cli # "free"
  PROVE  /\ Reset(c, S) \in [Conns -> Socket]
         /\ \A k \in Conns :
              \/ k \notin S /\ Reset(c, S)[k] = c[k]
              \/ k \in S /\ c[k].cli = "closed" /\ Reset(c, S)[k] = Free
              \/ /\ k \in S /\ c[k].cli = "open" /\ Reset(c, S)[k].cli = "open"
                 /\ Reset(c, S)[k].srv = "reset" /\ Reset(c, S)[k].ctl = c[k].ctl
                 /\ Reset(c, S)[k].up = c[k].up /\ Reset(c, S)[k].down = c[k].down
<1>1. ASSUME NEW k \in Conns
      PROVE  /\ Reset(c, S)[k] \in Socket
             /\ \/ k \notin S /\ Reset(c, S)[k] = c[k]
                \/ k \in S /\ c[k].cli = "closed" /\ Reset(c, S)[k] = Free
                \/ /\ k \in S /\ c[k].cli = "open" /\ Reset(c, S)[k].cli = "open"
                   /\ Reset(c, S)[k].srv = "reset" /\ Reset(c, S)[k].ctl = c[k].ctl
                   /\ Reset(c, S)[k].up = c[k].up /\ Reset(c, S)[k].down = c[k].down
  <2>1. Reset(c, S)[k] = IF k \in S THEN Swept([c[k] EXCEPT !.srv = "reset"]) ELSE c[k]
    BY DEF Reset
  <2>2. c[k] \in Socket
    OBVIOUS
  <2>3. CASE k \notin S
    BY <2>1, <2>2, <2>3
  <2>4. CASE k \in S
    <3>1. Reset(c, S)[k] = Swept([c[k] EXCEPT !.srv = "reset"]) /\ c[k].cli # "free"
      BY <2>1, <2>4
    <3> QED
      BY <2>2, <2>4, <3>1, Size DEF Swept, Socket, Free
  <2> QED
    BY <2>3, <2>4
<1>2. Reset(c, S) \in [Conns -> Socket]
  BY <1>1 DEF Reset
<1> QED
  BY <1>1, <1>2

LEMMA StartFacts ==
  /\ prog \in Forking => Start[prog] = "size"
  /\ prog \in Serial => Start[prog] = "close"
  /\ prog = "lat_http" => Start[prog] = "get"
  BY DEF Start, Forking, Serial

LEMMA ConnTyped == TypeOK => conn \in [Conns -> Socket] /\ \A k \in Conns : conn[k] \in Socket
  BY DEF TypeOK, Socket

LEMMA FreeSlotFacts ==
  FreeSlots # {} => Min(FreeSlots) \in Conns /\ conn[Min(FreeSlots)].cli = "free"
<1> SUFFICES ASSUME FreeSlots # {} PROVE Min(FreeSlots) \in FreeSlots
  BY DEF FreeSlots
<1>1. FreeSlots \in SUBSET Nat
  BY Size DEF FreeSlots
<1> QED
  BY <1>1, MinIsLeast

----------------------------------------------------------------------------
(* Kinds of steps. *)

(* What the end of the server's side does to a connection, and that of the *)
(* client's.                                                               *)
ServerSide(c, d) ==
  \/ d = c
  \/ c.cli = "closed" /\ d = Free
  \/ /\ c.cli = "open" /\ d.cli = "open" /\ d.srv \in {"closed", "reset"}
     /\ d.ctl = c.ctl /\ d.up = c.up /\ d.down = c.down
ClientSide(c, d) ==
  \/ c.srv \in {"closed", "reset", "dead"} /\ d = Free
  \/ d.cli = "closed" /\ d.srv = c.srv /\ d.up = c.up /\ d.down = c.down

(* Servers or children leave connections, the last one resets what waits.  *)
ServerLets ==
  /\ prog' = prog /\ msize' = msize /\ Team' = Team
  /\ \A j \in Conns : ServerSide(conn[j], conn'[j])
  /\ backlog' \in {backlog, << >>}
  /\ \A j \in Conns : conn'[j] # conn[j] =>
       /\ child'[j] = "none" /\ \A v \in 1 .. Workers : at'[v] # j
       /\ backlog' = << >> \/ conn[j].srv # "queued"
  /\ \A j \in Conns : child'[j] \in {child[j], "none"} /\ left'[j] \in {left[j], 0}
  /\ \A v \in 1 .. Workers :
       /\ at'[v] # 0 <=> wk'[v] \in {"serve", "send"}
       /\ at'[v] # 0 => at'[v] = at[v] /\ wk'[v] = wk[v]
  /\ cl' = cl /\ fd' = fd /\ todo' = todo /\ counted' = counted /\ real' = real
  /\ asked' = asked /\ faults \subseteq faults'

LEMMA ServerLetsKeeps ==
  ASSUME IInv, ServerLets
  PROVE  ClientEnds' /\ ServerEnds' /\ Words' /\ SizeIsTold' /\ FileIsSent' /\ Tally' /\ OneMessage'
<1>1. TypeOK /\ Labels /\ ClientEnds /\ ServerEnds /\ Words /\ SizeIsTold /\ FileIsSent
      /\ Tally /\ OneMessage
  BY DEF IInv
<1>2. /\ \A j \in Conns : conn[j] \in Socket
      /\ \A q \in Parties : fd[q] # 0 => fd[q] \in Conns
      /\ \A v \in 1 .. Workers : at[v] # 0 => at[v] \in Conns
      /\ \A i \in 1 .. Len(backlog) : backlog[i] \in Conns
  <2>1. \A i \in 1 .. Len(backlog) : backlog[i] \in Conns
    BY <1>1 DEF TypeOK
  <2> QED
    BY <1>1, <2>1, Size, ConnTyped DEF TypeOK
<1>3. ClientEnds'
  BY <1>1, <1>2, FreeIsSocket, Size DEF ServerLets, ServerSide, ClientEnds, Using
<1>4. ServerEnds'
  <2>1. /\ \A i \in 1 .. Len(backlog') : conn'[backlog'[i]].srv = "queued"
        /\ \A i, j \in 1 .. Len(backlog') : i # j => backlog'[i] # backlog'[j]
    <3>1. CASE backlog' = << >>
      BY <3>1
    <3>2. CASE backlog' = backlog /\ backlog # << >>
      BY <1>1, <1>2, <3>2 DEF ServerLets, ServerEnds
    <3> QED
      BY <3>1, <3>2 DEF ServerLets
  <2>2. /\ \A v \in 1 .. Workers :
             /\ at'[v] # 0 <=> wk'[v] \in {"serve", "send"}
             /\ at'[v] # 0 => conn'[at'[v]].srv = "open"
        /\ \A u, v \in 1 .. Workers : u # v /\ at'[v] # 0 => at'[v] # at'[u]
    BY <1>1, <1>2 DEF ServerLets, ServerEnds
  <2>3. \A j \in Conns : child'[j] # "none" => conn'[j].srv = "open"
    BY <1>1, <1>2 DEF ServerLets, ServerEnds
  <2> QED
    BY <2>1, <2>2, <2>3 DEF ServerEnds
<1>5. Words'
  BY <1>1, <1>2, FreeIsSocket DEF ServerLets, ServerSide, Words
<1>6. SizeIsTold'
  <2> SUFFICES ASSUME prog = "lat_tcp" PROVE SizeIsTold'
    BY DEF SizeIsTold, ServerLets
  <2>1. ASSUME NEW j \in Conns, Told(j), conn[j].cli # "free", conn'[j].cli # "free" PROVE Told(j)'
    BY <1>1, <1>2, <2>1, FreeIsSocket DEF ServerLets, ServerSide, ServerEnds, Told, Socket
  <2>2. \A j \in Conns : conn'[j].cli # "free" => conn'[j].cli = conn[j].cli
    BY <1>2, FreeIsSocket DEF ServerLets, ServerSide
  <2>3. ByItself' => ByItself
    BY DEF ByItself, ServerLets
  <2>4. \A q \in Clients : cl[q] \in {"write", "read", "cleanup"} /\ fd[q] # 0 =>
          conn[fd[q]].cli = "open" /\ conn'[fd[q]].cli = "open" /\ fd[q] \in Conns
    BY <1>1, <1>2, <1>3, Size DEF ClientEnds, Using, ServerLets
  <2>5. /\ \A q \in Clients : cl[q] \in {"write", "read", "cleanup"} /\ fd[q] # 0 => Told(fd[q])
        /\ ByItself => \A j \in Conns : conn[j].cli = "closed" => Told(j)
    BY <1>1 DEF SizeIsTold
  <2>6. \A q \in Clients, j \in Conns :
          cl[q] \in {"write", "read", "cleanup"} /\ fd[q] # 0 /\ fd[q] = j => Told(j)'
    BY <2>1, <2>4, <2>5
  <2>7. ByItself' => \A j \in Conns : conn'[j].cli = "closed" => Told(j)'
    BY <2>1, <2>2, <2>3, <2>5
  <2> QED
    BY <2>4, <2>6, <2>7 DEF SizeIsTold, ServerLets, Told
<1>7. FileIsSent'
  <2> SUFFICES ASSUME prog = "lat_http" PROVE FileIsSent'
    BY DEF FileIsSent, ServerLets
  <2>1. ByItself' => \A j \in Conns : conn'[j].cli # "closed"
    BY <1>1, <1>2, FreeIsSocket DEF ByItself, ServerLets, ServerSide, FileIsSent
  <2>2. ASSUME NEW q \in Clients, fd[q] # 0, cl[q] \in {"get", "read"}
        PROVE  /\ fd[q] \in Conns /\ conn'[fd[q]].ctl = conn[fd[q]].ctl
               /\ conn'[fd[q]].down = conn[fd[q]].down
    BY <1>1, <1>2, <2>2, Size DEF ServerLets, ServerSide, ClientEnds, Using
  <2>3. ASSUME NEW q \in Clients, fd[q] # 0, cl[q] = "get"
        PROVE  /\ conn'[fd[q]].ctl = "none" /\ conn'[fd[q]].down = 0
               /\ \A v \in 1 .. Workers : at'[v] = fd[q] => wk'[v] = "serve"
    BY <1>1, <2>2, <2>3 DEF ServerLets, FileIsSent
  <2>4. ASSUME NEW q \in Clients, fd[q] # 0, cl[q] = "read"
        PROVE  /\ conn'[fd[q]].down <= todo[q]
               /\ conn'[fd[q]].ctl = "GET" =>
                   /\ conn'[fd[q]].down = 0 /\ todo[q] = msize
                   /\ \A v \in 1 .. Workers : at'[v] = fd[q] => wk'[v] = "serve"
    BY <1>1, <2>2, <2>4 DEF ServerLets, FileIsSent
  <2>5. ASSUME NEW q \in Clients, fd[q] # 0, cl[q] = "read",
               NEW v \in 1 .. Workers, at'[v] = fd[q], wk'[v] = "send"
        PROVE  conn'[fd[q]].down + left'[fd[q]] <= todo[q]
    <3>1. at[v] = fd[q] /\ wk[v] = "send" /\ fd[q] \in Conns
      BY <1>2, <2>5 DEF ServerLets
    <3>2. conn[fd[q]].down + left[fd[q]] <= todo[q] /\ conn[fd[q]].down <= todo[q]
      BY <1>1, <2>5, <3>1 DEF FileIsSent
    <3>3. left'[fd[q]] \in {left[fd[q]], 0} /\ conn'[fd[q]].down = conn[fd[q]].down
      BY <2>2, <2>5, <3>1 DEF ServerLets
    <3>4. conn[fd[q]].down \in Nat
      BY <1>2, <3>1, Size DEF Socket
    <3> QED
      BY <3>2, <3>3, <3>4
  <2> QED
    BY <2>1, <2>3, <2>4, <2>5 DEF FileIsSent, ServerLets
<1>8. Tally'
  BY <1>1 DEF ServerLets, Tally
<1>9. OneMessage'
  <2>1. \A j \in Conns : child'[j] = "write" => left'[j] <= msize
    <3>1. /\ \A j \in Conns : child[j] = "write" => left[j] <= msize
          /\ \A j \in Conns : left[j] \in Nat
          /\ msize \in Nat
      BY <1>1, Size DEF OneMessage, TypeOK
    <3>2. \A j \in Conns : child'[j] \in {child[j], "none"} /\ left'[j] \in {left[j], 0}
      BY DEF ServerLets
    <3> QED
      BY <3>1, <3>2 DEF ServerLets
  <2> SUFFICES ASSUME prog = "lat_tcp", msize = 1, NEW q \in Clients, fd[q] # 0,
                      conn'[fd[q]].srv \in {"queued", "open"}, cl[q] \in {"size", "write", "read"}
               PROVE  /\ cl[q] \in {"size", "write"} =>
                         conn'[fd[q]].up = 0 /\ conn'[fd[q]].down = 0 /\ Answering(fd[q])' = 0
                      /\ cl[q] = "read" =>
                         conn'[fd[q]].up + conn'[fd[q]].down + Answering(fd[q])' <= 1
    BY <2>1 DEF OneMessage, ServerLets, Answering
  <2>2. fd[q] \in Conns /\ conn'[fd[q]] = conn[fd[q]]
    BY <1>1, <1>2, FreeIsSocket, Size DEF ServerLets, ServerSide, ClientEnds, Using
  <2>3. /\ cl[q] \in {"size", "write"} =>
             conn[fd[q]].up = 0 /\ conn[fd[q]].down = 0 /\ Answering(fd[q]) = 0
        /\ cl[q] = "read" => conn[fd[q]].up + conn[fd[q]].down + Answering(fd[q]) <= 1
    BY <1>1, <2>2 DEF OneMessage
  <2>4. /\ Answering(fd[q])' \in {Answering(fd[q]), 0} /\ Answering(fd[q]) \in {0, 1}
        /\ conn[fd[q]].up \in Nat /\ conn[fd[q]].down \in Nat
    BY <1>2, <2>2, Size DEF ServerLets, Answering, Socket
  <2> QED
    BY <2>2, <2>3, <2>4
<1> QED
  BY <1>3, <1>4, <1>5, <1>6, <1>7, <1>8, <1>9

(* A client, or -S, leaves its connection. *)
ClientLets(p) ==
  /\ prog' = prog /\ msize' = msize /\ Team' = Team
  /\ \A q \in Parties : q # p => cl'[q] = cl[q]
  /\ cl'[p] \notin Using
  /\ \A j \in Conns :
       \/ conn'[j] = conn[j]
       \/ /\ cl[p] \in Using /\ j = fd[p] /\ ClientSide(conn[j], conn'[j])
          /\ conn'[j] = Free \/ conn'[j].ctl = conn[j].ctl
               \/ (asked /\ conn'[j].ctl \in {"none", "0", "EXIT"})
          /\ prog = "lat_tcp" /\ ByItself' => Told(j)
          /\ prog = "lat_http" /\ ByItself' => conn'[j] = Free
  /\ backlog' = backlog /\ wk' = wk /\ at' = at /\ child' = child /\ left' = left
  /\ fd' = fd /\ asked' = asked /\ faults \subseteq faults'
  /\ \A q \in Parties : q # p => todo'[q] = todo[q]

LEMMA ClientLetsKeeps ==
  ASSUME IInv, NEW p \in Parties, ClientLets(p)
  PROVE  ClientEnds' /\ ServerEnds' /\ Words' /\ SizeIsTold' /\ FileIsSent' /\ OneMessage'
<1>1. TypeOK /\ Labels /\ ClientEnds /\ ServerEnds /\ Words /\ SizeIsTold /\ FileIsSent
      /\ OneMessage
  BY DEF IInv
<1>2. /\ \A j \in Conns : conn[j] \in Socket
      /\ \A q \in Parties : fd[q] # 0 => fd[q] \in Conns
      /\ \A v \in 1 .. Workers : at[v] # 0 => at[v] \in Conns
      /\ \A i \in 1 .. Len(backlog) : backlog[i] \in Conns
  <2>1. \A i \in 1 .. Len(backlog) : backlog[i] \in Conns
    BY <1>1 DEF TypeOK
  <2> QED
    BY <1>1, <2>1, Size, ConnTyped DEF TypeOK
<1>3. /\ \A q \in Parties : cl'[q] \in Using => q # p /\ cl[q] = cl'[q]
      /\ \A q \in Parties : cl'[q] \in Using /\ fd[q] # 0 =>
           /\ fd[q] \in Conns /\ conn[fd[q]].cli = "open" /\ conn'[fd[q]] = conn[fd[q]]
  BY <1>1, <1>2 DEF ClientLets, ClientEnds
<1>4. \A j \in Conns : conn[j].srv \in {"queued", "open"} => conn'[j].srv = conn[j].srv
  BY <1>2 DEF ClientLets, ClientSide
<1>5. ClientEnds'
  <2>1. \A j \in Conns : conn'[j].cli = "free" => conn'[j] = Free
    BY <1>1 DEF ClientLets, ClientSide, ClientEnds
  <2>2. /\ \A q, r \in Parties :
             q # r /\ cl'[q] \in Using /\ cl'[r] \in Using /\ fd[q] # 0 => fd[q] # fd[r]
        /\ prog \in {"bw_tcp", "lat_unix_connect"} =>
             \A q \in Clients : cl'[q] \in Using => fd[q] # 0
        /\ cl'["-S"] = "ask" => fd["-S"] # 0
    BY <1>1, <1>3, Size DEF ClientEnds, Using
  <2> QED
    BY <1>3, <2>1, <2>2 DEF ClientEnds, ClientLets
<1>6. ServerEnds'
  BY <1>1, <1>2, <1>4 DEF ClientLets, ServerEnds
<1>7. Words'
  <2>1. cl'["-S"] = "ask" => asked
    BY <1>1, <1>3, Size DEF Words, Using
  <2>2. ASSUME NEW j \in Conns
        PROVE  /\ conn'[j].ctl \in {"0", "EXIT"} => asked
               /\ conn'[j].ctl = "size" => prog \in Forking
               /\ conn'[j].ctl = "GET" => prog = "lat_http"
    BY <1>1, <1>2, FreeIsSocket DEF ClientLets, Words
  <2> QED
    BY <2>1, <2>2 DEF Words, ClientLets
<1>8. SizeIsTold'
  <2> SUFFICES ASSUME prog = "lat_tcp" PROVE SizeIsTold'
    BY DEF SizeIsTold, ClientLets
  <2>1. \A q \in Clients, j \in Conns :
          cl'[q] \in {"write", "read", "cleanup"} /\ fd[q] # 0 /\ fd[q] = j => Told(j)'
    <3> SUFFICES ASSUME NEW q \in Clients, cl'[q] \in {"write", "read", "cleanup"},
                        fd[q] # 0, fd[q] \in Conns
                 PROVE  conn'[fd[q]].ctl = "size"
                          \/ (child'[fd[q]] # "control" /\ conn'[fd[q]].srv # "queued")
      BY DEF Told
    <3>1. conn'[fd[q]] = conn[fd[q]] /\ cl[q] = cl'[q]
      BY <1>3, Size DEF Using
    <3>2. Told(fd[q])
      BY <1>1, <3>1 DEF SizeIsTold
    <3> QED
      BY <3>1, <3>2 DEF Told, ClientLets
  <2>2. ASSUME ByItself', NEW j \in Conns, conn'[j].cli = "closed" PROVE Told(j)'
    <3>1. ByItself /\ ~asked
      BY <2>2 DEF ByItself, ClientLets
    <3>2. conn'[j] # Free
      BY <2>2, FreeIsSocket
    <3>3. CASE conn'[j] = conn[j]
      <4>1. Told(j)
        BY <1>1, <2>2, <3>1, <3>3 DEF SizeIsTold
      <4> QED
        BY <3>3, <4>1 DEF Told, ClientLets
    <3>4. CASE conn'[j] # conn[j]
      <4>1. Told(j) /\ ClientSide(conn[j], conn'[j]) /\ conn'[j].ctl = conn[j].ctl
        BY <2>2, <3>1, <3>2, <3>4 DEF ClientLets
      <4>2. conn'[j].srv = conn[j].srv /\ child' = child
        BY <3>2, <4>1 DEF ClientSide, ClientLets
      <4> QED
        BY <4>1, <4>2 DEF Told
    <3> QED
      BY <3>3, <3>4
  <2> QED
    BY <1>2, <2>1, <2>2, Size DEF SizeIsTold, ClientLets, Told
<1>9. FileIsSent'
  <2> SUFFICES ASSUME prog = "lat_http" PROVE FileIsSent'
    BY DEF FileIsSent, ClientLets
  <2>1. ByItself' => \A j \in Conns : conn'[j].cli # "closed"
    BY <1>1, FreeIsSocket DEF ByItself, ClientLets, FileIsSent
  <2>2. \A q \in Clients : fd[q] # 0 /\ cl'[q] \in {"get", "read"} =>
          cl[q] = cl'[q] /\ conn'[fd[q]] = conn[fd[q]] /\ todo'[q] = todo[q]
    BY <1>3, Size DEF Using, ClientLets
  <2>3. wk' = wk /\ at' = at /\ left' = left /\ fd' = fd /\ prog' = prog /\ msize' = msize
    BY DEF ClientLets
  <2> QED
    BY <1>1, <2>1, <2>2, <2>3 DEF FileIsSent
<1>10. OneMessage'
  <2>1. \A q \in Clients : fd[q] # 0 /\ cl'[q] \in {"size", "write", "read"} =>
          cl[q] = cl'[q] /\ conn'[fd[q]] = conn[fd[q]]
    BY <1>3, Size DEF Using, ClientLets
  <2>2. child' = child /\ left' = left /\ fd' = fd /\ prog' = prog /\ msize' = msize
    BY DEF ClientLets
  <2> QED
    BY <1>1, <2>1, <2>2 DEF OneMessage, Answering
<1> QED
  BY <1>5, <1>6, <1>7, <1>8, <1>9, <1>10

(* Somebody says, writes or reads something on a connection and both sides *)
(* stay.                                                                   *)
Goon == {"write", "read", "cleanup"}
Talks ==
  /\ prog' = prog /\ msize' = msize /\ Team' = Team
  /\ \A j \in Conns :
       /\ conn'[j] # conn[j] => conn[j].cli # "free"
       /\ conn'[j].cli = conn[j].cli
       /\ conn'[j].srv = conn[j].srv \/ (conn[j].srv \in {"reset", "dead"} /\ conn'[j].srv = "dead")
       /\ \/ conn'[j].ctl \in {conn[j].ctl, "none"}
          \/ conn'[j].ctl = "size" /\ prog \in Forking
          \/ conn'[j].ctl = "GET" /\ prog = "lat_http"
       /\ child'[j] = child[j] \/ (child[j] # "none" /\ child'[j] \in {"read", "write"})
       /\ conn'[j].ctl = conn[j].ctl \/ conn'[j].ctl = "size" \/ prog # "lat_tcp"
            \/ child'[j] = "read"
  /\ \A v \in 1 .. Workers : wk'[v] # wk[v] => {wk[v], wk'[v]} \subseteq {"serve", "send"}
     /\ prog = "lat_http"
  /\ \A q \in Parties : cl'[q] # cl[q] =>
       /\ q \in Clients /\ cl[q] \in Using \ {"ask"} /\ cl'[q] \in Goon
       /\ cl'[q] = "cleanup" => prog \in Forking
       /\ cl'[q] = "write" => prog = "lat_tcp"
       /\ cl'[q] = "read" => prog \notin Serial
  /\ prog = "lat_tcp" =>
       \A q \in Clients : cl'[q] \in Goon /\ fd[q] # 0 =>
         cl[q] \in Goon \/ conn'[fd[q]].ctl = "size"
  /\ backlog' = backlog /\ at' = at /\ fd' = fd /\ asked' = asked /\ faults' = faults
  /\ zombies' = zombies /\ sigchld' = sigchld

LEMMA TalksKeeps ==
  ASSUME IInv, Talks
  PROVE  /\ Labels' /\ ClientEnds' /\ ServerEnds' /\ Words' /\ SizeIsTold'
         /\ ServerOutlivesClients' /\ HandlerNeverBlocks'
         /\ prog # "lat_http" => FileIsSent'
<1>1. TypeOK /\ Labels /\ ClientEnds /\ ServerEnds /\ Words /\ SizeIsTold
  BY DEF IInv
<1>2. /\ \A j \in Conns : conn[j] \in Socket
      /\ \A q \in Parties : fd[q] # 0 => fd[q] \in Conns
      /\ \A v \in 1 .. Workers : at[v] # 0 => at[v] \in Conns
      /\ \A i \in 1 .. Len(backlog) : backlog[i] \in Conns
  <2>1. \A i \in 1 .. Len(backlog) : backlog[i] \in Conns
    BY <1>1 DEF TypeOK
  <2> QED
    BY <1>1, <2>1, Size, ConnTyped DEF TypeOK
<1>3. ClientEnds'
  <2>1. \A q \in Parties : cl'[q] \in Using => cl[q] \in Using
    BY DEF Talks, Using
  <2>2. \A j \in Conns : conn'[j].cli = conn[j].cli /\ (conn[j].cli = "free" => conn'[j] = conn[j])
    BY DEF Talks
  <2>3. /\ \A q \in Parties : cl'[q] \in Using /\ fd[q] # 0 => conn'[fd[q]].cli = "open"
        /\ \A j \in Conns : conn'[j].cli = "free" => conn'[j] = Free
    BY <1>1, <1>2, <2>1, <2>2 DEF ClientEnds
  <2>4. /\ \A q, r \in Parties :
             q # r /\ cl'[q] \in Using /\ cl'[r] \in Using /\ fd[q] # 0 => fd[q] # fd[r]
        /\ prog \in {"bw_tcp", "lat_unix_connect"} =>
             \A q \in Clients : cl'[q] \in Using => fd[q] # 0
    BY <1>1, <2>1, Size DEF ClientEnds
  <2>5. cl'["-S"] = "ask" => fd["-S"] # 0
    BY <1>1, Size DEF ClientEnds, Talks
  <2> QED
    BY <2>3, <2>4, <2>5 DEF ClientEnds, Talks
<1>4. ServerEnds'
  <2>1. /\ \A j \in Conns : conn[j].srv \in {"queued", "open"} => conn'[j].srv = conn[j].srv
        /\ \A j \in Conns : child'[j] # "none" => child[j] # "none"
    BY DEF Talks
  <2>2. \A v \in 1 .. Workers : wk'[v] \in {"serve", "send"} <=> wk[v] \in {"serve", "send"}
    BY DEF Talks
  <2>3. backlog' = backlog /\ at' = at
    BY DEF Talks
  <2> QED
    BY <1>1, <1>2, <2>1, <2>2, <2>3 DEF ServerEnds
<1>5. Words'
  <2>1. cl'["-S"] = "ask" => asked
    BY <1>1, Size DEF Words, Talks
  <2> QED
    BY <1>1, <2>1 DEF Words, Talks
<1>6. SizeIsTold'
  <2> SUFFICES ASSUME prog = "lat_tcp" PROVE SizeIsTold'
    BY DEF SizeIsTold, Talks
  <2>1. ASSUME NEW j \in Conns, Told(j) PROVE Told(j)'
    <3>1. conn[j].srv # "queued" => conn'[j].srv # "queued"
      BY DEF Talks
    <3>2. child'[j] = "read" => child[j] # "none" \/ child[j] = "read"
      BY DEF Talks
    <3>3. child'[j] = "read" => conn'[j].srv # "queued"
      BY <1>1, <3>1, <3>2 DEF ServerEnds
    <3>4. child'[j] = "control" => child[j] = "control"
      BY DEF Talks
    <3> QED
      BY <2>1, <3>1, <3>3, <3>4 DEF Told, Talks
  <2>2. \A q \in Clients, j \in Conns :
          cl'[q] \in Goon /\ fd[q] # 0 /\ fd[q] = j => Told(j)'
    <3> SUFFICES ASSUME NEW q \in Clients, NEW j \in Conns, cl'[q] \in Goon, fd[q] # 0, fd[q] = j
                 PROVE  Told(j)'
      OBVIOUS
    <3>1. CASE cl[q] \in Goon
      <4>1. Told(j)
        BY <1>1, <3>1 DEF SizeIsTold, Goon
      <4> QED
        BY <2>1, <4>1
    <3>2. CASE conn'[j].ctl = "size"
      BY <3>2 DEF Told
    <3> QED
      BY <3>1, <3>2 DEF Talks
  <2>3. ASSUME ByItself', NEW j \in Conns, conn'[j].cli = "closed" PROVE Told(j)'
    <3>1. ByItself /\ conn[j].cli = "closed"
      BY <2>3 DEF ByItself, Talks
    <3> QED
      BY <1>1, <2>1, <3>1 DEF SizeIsTold
  <2> QED
    BY <1>2, <2>2, <2>3, Size DEF SizeIsTold, Goon, Talks, Told
<1>7. Labels'
  <2>1. cl'["-S"] = cl["-S"]
    BY Size DEF Talks
  <2>2. ASSUME NEW q \in Clients
        PROVE  /\ cl'[q] # "ask"
               /\ cl'[q] \in {"size", "cleanup"} => prog \in Forking
               /\ cl'[q] = "write" => prog = "lat_tcp"
               /\ cl'[q] = "read" => prog \notin Serial
               /\ cl'[q] = "get" => prog = "lat_http"
               /\ cl'[q] = "close" => prog \in Serial
    BY <1>1, Size DEF Labels, Talks, Goon
  <2>3. /\ \A v \in 1 .. Workers :
             wk'[v] = wk[v] \/ (prog = "lat_http" /\ {wk[v], wk'[v]} \subseteq {"serve", "send"})
        /\ \A j \in Conns : child'[j] # "none" => child[j] # "none"
        /\ prog' = prog /\ Team' = Team
    BY DEF Talks
  <2> QED
    BY <1>1, <2>1, <2>2, <2>3 DEF Labels, Forking
<1>8. ServerOutlivesClients' /\ HandlerNeverBlocks'
  <2>1. \A v \in 1 .. Workers : wk'[v] = wk[v] \/ {wk[v], wk'[v]} \subseteq {"serve", "send"}
    BY DEF Talks
  <2> QED
    BY <2>1, Size DEF IInv, ServerOutlivesClients, HandlerNeverBlocks, Talks
<1>9. prog # "lat_http" => FileIsSent'
  BY DEF FileIsSent, Talks
<1> QED
  BY <1>3, <1>4, <1>5, <1>6, <1>7, <1>8, <1>9

LEMMA MessageSize ==
  ASSUME IInv
  PROVE  msize \in Nat /\ msize >= 1 /\ msize \in 0 .. MaxSize /\ 0 \in 0 .. MaxSize
<1>1. msize \in 1 .. MaxSize
  BY DEF IInv, TypeOK
<1> QED
  BY <1>1, Size

(* Where connections are. *)
LEMMA Ends ==
  ASSUME IInv
  PROVE  /\ conn \in [Conns -> Socket] /\ \A j \in Conns : conn[j] \in Socket
         /\ \A q \in Parties : fd[q] # 0 => fd[q] \in Conns
         /\ \A v \in 1 .. Workers : at[v] # 0 => at[v] \in Conns
         /\ \A j \in Conns : conn[j].srv = "open" => conn[j].cli # "free"
         /\ \A v \in 1 .. Workers : v \notin Team => at[v] = 0
         /\ \A v \in 1 .. Workers : wk[v] = "gone" => at[v] = 0
<1>1. TypeOK /\ ClientEnds /\ ServerEnds /\ Labels
  BY DEF IInv
<1>2. \A j \in Conns : conn[j].srv = "open" => conn[j].cli # "free"
  BY <1>1, FreeIsSocket DEF ClientEnds
<1>3. \A v \in 1 .. Workers : (v \notin Team => at[v] = 0) /\ (wk[v] = "gone" => at[v] = 0)
  BY <1>1 DEF Labels, ServerEnds
<1> QED
  BY <1>1, <1>2, <1>3, ConnTyped, Size DEF TypeOK

(* The server closes its side of one connection. *)
OneClosed(c, k) ==
  /\ c \in [Conns -> Socket]
  /\ \A j \in Conns : ServerSide(conn[j], c[j])
  /\ \A j \in Conns : c[j] # conn[j] => j = k /\ c[j].srv = "closed"

LEMMA SrvClosedCloses ==
  ASSUME IInv, NEW k \in Conns, conn[k].srv = "open"
  PROVE  OneClosed([conn EXCEPT ![k] = SrvClosed(@)], k)
<1> DEFINE d == SrvClosed(conn[k])
<1>1. conn[k] \in Socket /\ conn[k].cli \in {"open", "closed"} /\ d \in Socket
  BY Ends, SrvClosedFacts DEF Socket
<1>2. ServerSide(conn[k], d) /\ d.srv = "closed"
  BY <1>1, SrvClosedFacts, FreeIsSocket DEF ServerSide
<1> HIDE DEF d
<1>3. [conn EXCEPT ![k] = d] \in [Conns -> Socket]
  BY <1>1, Ends
<1>4. \A j \in Conns : [conn EXCEPT ![k] = d][j] = IF j = k THEN d ELSE conn[j]
  BY Ends
<1>5. OneClosed([conn EXCEPT ![k] = d], k)
  BY <1>2, <1>3, <1>4 DEF OneClosed, ServerSide
<1> QED
  BY <1>5 DEF d

LEMMA HangupCloses ==
  ASSUME IInv, NEW w \in 1 .. Workers
  PROVE  OneClosed(Hangup(w), at[w])
<1>1. CASE at[w] = 0
  BY <1>1, Ends DEF Hangup, OneClosed, ServerSide
<1>2. CASE at[w] # 0
  <2>1. at[w] \in Conns /\ conn[at[w]].srv = "open"
    BY <1>2, Ends DEF IInv, ServerEnds
  <2> QED
    BY <1>2, <2>1, SrvClosedCloses DEF Hangup
<1> QED
  BY <1>1, <1>2

(* Letting go of the listening socket and of what a failed fork has left   *)
(* resets connections that no worker and no child has.                     *)
LEMMA LetGoLets ==
  ASSUME IInv, NEW c, NEW k, OneClosed(c, k), NEW ws, NEW ks, LetGo(c, ws, ks)
  PROVE  /\ conn' \in [Conns -> Socket]
         /\ \A j \in Conns : ServerSide(conn[j], conn'[j])
         /\ backlog' \in {backlog, << >>}
         /\ \A j \in Conns : conn'[j] # conn[j] =>
              \/ j = k /\ c[j] # conn[j]
              \/ /\ child[j] = "none" /\ \A v \in ws : wk[v] = "gone"
                 /\ backlog' = << >> \/ conn[j].srv # "queued"
<1>1. CASE conn' = c /\ backlog' = backlog
  BY <1>1 DEF OneClosed
<1>2. ASSUME NEW S, S \subseteq Waiting(c) \cup Leaked(c), conn' = Reset(c, S),
             backlog' = << >> \/ S \subseteq Leaked(c)
      PROVE  /\ conn' \in [Conns -> Socket]
             /\ \A j \in Conns : ServerSide(conn[j], conn'[j])
             /\ \A j \in Conns : conn'[j] # conn[j] =>
                  \/ j = k /\ c[j] # conn[j]
                  \/ child[j] = "none" /\ (backlog' = << >> \/ conn[j].srv # "queued")
  <2>1. c \in [Conns -> Socket]
    BY DEF OneClosed
  <2>2. \A j \in S : /\ j \in Conns /\ c[j].cli # "free"
                     /\ \/ c[j].srv = "queued" /\ backlog' = << >>
                        \/ c[j].srv = "open" /\ child[j] = "none"
    BY <1>2 DEF Waiting, Leaked
  <2>3. conn' \in [Conns -> Socket]
    BY <1>2, <2>1, <2>2, ResetFacts
  <2>4. ASSUME NEW j \in Conns
        PROVE  /\ ServerSide(conn[j], conn'[j])
               /\ conn'[j] # conn[j] =>
                    \/ j = k /\ c[j] # conn[j]
                    \/ child[j] = "none" /\ (backlog' = << >> \/ conn[j].srv # "queued")
    <3>1. /\ ServerSide(conn[j], c[j])
          /\ c[j] # conn[j] => j = k /\ c[j].srv = "closed"
      BY DEF OneClosed
    <3>2. CASE j \notin S
      <4>1. conn'[j] = c[j]
        BY <1>2, <2>1, <2>2, <3>2, ResetFacts
      <4> QED
        BY <3>1, <4>1
    <3>3. CASE j \in S
      <4>1. c[j] = conn[j]
        BY <2>2, <3>1, <3>3
      <4>2. \/ conn[j].cli = "closed" /\ conn'[j] = Free
            \/ /\ conn[j].cli = "open" /\ conn'[j].cli = "open" /\ conn'[j].srv = "reset"
               /\ conn'[j].ctl = conn[j].ctl /\ conn'[j].up = conn[j].up
               /\ conn'[j].down = conn[j].down
        BY <1>2, <2>1, <2>2, <3>3, <4>1, ResetFacts
      <4>3. child[j] = "none" /\ (backlog' = << >> \/ conn[j].srv # "queued")
        BY <2>2, <3>3, <4>1 DEF IInv, ServerEnds
      <4> QED
        BY <4>2, <4>3 DEF ServerSide
    <3> QED
      BY <3>2, <3>3
  <2> QED
    BY <2>3, <2>4
<1>3. CASE /\ \A v \in ws : wk[v] = "gone"
           /\ backlog' = backlog
           /\ \E S \in SUBSET Leaked(c) : conn' = Reset(c, S)
  <2>1. PICK S \in SUBSET Leaked(c) : conn' = Reset(c, S)
    BY <1>3
  <2>2. S \subseteq Waiting(c) \cup Leaked(c) /\ S \subseteq Leaked(c)
    OBVIOUS
  <2>3. /\ conn' \in [Conns -> Socket]
        /\ \A j \in Conns : ServerSide(conn[j], conn'[j])
        /\ \A j \in Conns : conn'[j] # conn[j] =>
             \/ j = k /\ c[j] # conn[j]
             \/ child[j] = "none" /\ (backlog' = << >> \/ conn[j].srv # "queued")
    BY <1>2, <2>1, <2>2, Zenon
  <2> QED
    BY <1>3, <2>3, Zenon
<1>4. CASE /\ \A v \in ws : wk[v] = "gone"
           /\ backlog' = << >>
           /\ conn' = Reset(c, Waiting(c) \cup Leaked(c))
  <2> DEFINE S == Waiting(c) \cup Leaked(c)
  <2>1. S \subseteq Waiting(c) \cup Leaked(c) /\ conn' = Reset(c, S) /\ backlog' = << >>
    BY <1>4
  <2> HIDE DEF S
  <2>2. /\ conn' \in [Conns -> Socket]
        /\ \A j \in Conns : ServerSide(conn[j], conn'[j])
        /\ \A j \in Conns : conn'[j] # conn[j] =>
             \/ j = k /\ c[j] # conn[j]
             \/ child[j] = "none" /\ (backlog' = << >> \/ conn[j].srv # "queued")
    BY <1>2, <2>1, Zenon
  <2> QED
    BY <1>4, <2>2, Zenon
<1> QED
  BY <1>1, <1>3, <1>4 DEF LetGo

LEMMA LeaveLets ==
  ASSUME IInv, NEW w \in Team, NEW s, NEW c, NEW k, OneClosed(c, k), Leave(w, s, c)
  PROVE  /\ conn' \in [Conns -> Socket]
         /\ \A j \in Conns : ServerSide(conn[j], conn'[j])
         /\ backlog' \in {backlog, << >>}
         /\ \A j \in Conns : conn'[j] # conn[j] =>
              \/ j = k /\ c[j] # conn[j]
              \/ /\ child[j] = "none" /\ \A v \in 1 .. Workers : v # w => at[v] # j
                 /\ backlog' = << >> \/ conn[j].srv # "queued"
<1>1. LetGo(c, Team \ {w}, Conns)
  BY DEF Leave
<1>2. (\A v \in Team \ {w} : wk[v] = "gone") => \A v \in 1 .. Workers : v # w => at[v] = 0
  BY Ends
<1> QED
  BY <1>1, <1>2, LetGoLets, Size

(* A worker leaves its connection, or for good. *)
WorkerLets(w, s) ==
  /\ conn' \in [Conns -> Socket]
  /\ \A j \in Conns : ServerSide(conn[j], conn'[j])
  /\ backlog' \in {backlog, << >>}
  /\ \A j \in Conns : conn'[j] # conn[j] =>
       /\ child[j] = "none" /\ \A v \in 1 .. Workers : v # w => at[v] # j
       /\ backlog' = << >> \/ conn[j].srv # "queued"
  /\ wk' = [wk EXCEPT ![w] = s] /\ at' = [at EXCEPT ![w] = 0]

LEMMA WorkerLeaves ==
  ASSUME IInv, NEW w \in Team, NEW s,
         \/ Leave(w, s, Hangup(w))
         \/ conn' = Hangup(w) /\ Work(w, s, 0) /\ UNCHANGED backlog
  PROVE  WorkerLets(w, s)
<1>1. OneClosed(Hangup(w), at[w]) /\ w \in 1 .. Workers
  BY HangupCloses, Size
<1>2. ASSUME NEW j \in Conns, j = at[w]
      PROVE  child[j] = "none" /\ conn[j].srv = "open" /\ \A v \in 1 .. Workers : v # w => at[v] # j
  <2>1. at[w] # 0 /\ Labels /\ ServerEnds
    BY <1>2, Size DEF IInv
  <2>2. prog \notin Forking /\ conn[j].srv = "open" /\ \A v \in 1 .. Workers : v # w => at[v] # j
    BY <1>1, <1>2, <2>1 DEF Labels, ServerEnds, Forking
  <2> QED
    BY <2>1, <2>2 DEF Labels
<1>3. wk' = [wk EXCEPT ![w] = s] /\ at' = [at EXCEPT ![w] = 0]
  BY DEF Leave, Work
<1>4. CASE Leave(w, s, Hangup(w))
  <2>1. /\ conn' \in [Conns -> Socket]
        /\ \A j \in Conns : ServerSide(conn[j], conn'[j])
        /\ backlog' \in {backlog, << >>}
        /\ \A j \in Conns : conn'[j] # conn[j] =>
             \/ j = at[w]
             \/ /\ child[j] = "none" /\ \A v \in 1 .. Workers : v # w => at[v] # j
                /\ backlog' = << >> \/ conn[j].srv # "queued"
    BY <1>1, <1>4, LeaveLets
  <2> QED
    BY <1>2, <1>3, <2>1 DEF WorkerLets
<1>5. CASE conn' = Hangup(w) /\ UNCHANGED backlog
  BY <1>1, <1>2, <1>3, <1>5 DEF WorkerLets, OneClosed
<1> QED
  BY <1>4, <1>5

(* The rest of such a step. *)
LEMMA WorkerLetsKeeps ==
  ASSUME IInv, NEW w \in Team, NEW s \in {"accept", "gone", "unlink"}, WorkerLets(w, s),
         s = "unlink" => prog = "lat_unix_connect",
         left' \in [Conns -> 0 .. MaxSize], \A j \in Conns : left'[j] \in {left[j], 0},
         UNCHANGED <<program, child, cl, fd, todo, counted, real, asked>>,
                     faults \subseteq faults'
  PROVE  /\ conn' \in [Conns -> Socket] /\ backlog' \in Seq(Conns)
         /\ wk' \in [1 .. Workers -> {"starting", "accept", "serve", "send", "unlink", "gone"}]
         /\ at' \in [1 .. Workers -> 0 .. Slots]
         /\ Labels' /\ ClientEnds' /\ ServerEnds' /\ Words' /\ SizeIsTold' /\ FileIsSent'
         /\ Tally' /\ OneMessage'
<1>1. TypeOK /\ Labels /\ ServerEnds
  BY DEF IInv
<1>2. prog' = prog /\ msize' = msize /\ Team' = Team /\ w \in 1 .. Workers
  BY Size DEF program, Team
<1>3. /\ wk' \in [1 .. Workers -> {"starting", "accept", "serve", "send", "unlink", "gone"}]
      /\ at' \in [1 .. Workers -> 0 .. Slots]
      /\ wk'[w] = s /\ at'[w] = 0
      /\ \A v \in 1 .. Workers : v # w => wk'[v] = wk[v] /\ at'[v] = at[v]
  <2>1. /\ wk \in [1 .. Workers -> {"starting", "accept", "serve", "send", "unlink", "gone"}]
        /\ at \in [1 .. Workers -> 0 .. Slots]
    BY <1>1 DEF TypeOK
  <2>2. wk' = [wk EXCEPT ![w] = s] /\ at' = [at EXCEPT ![w] = 0]
    BY DEF WorkerLets
  <2> QED
    BY <1>2, <2>1, <2>2, Size
<1>4. Labels'
  BY <1>1, <1>2, <1>3 DEF Labels, Forking
<1>5. ServerLets
  <2>1. \A v \in 1 .. Workers :
          /\ at'[v] # 0 <=> wk'[v] \in {"serve", "send"}
          /\ at'[v] # 0 => at'[v] = at[v] /\ wk'[v] = wk[v]
    BY <1>1, <1>3 DEF ServerEnds
  <2>2. \A j \in Conns : conn'[j] # conn[j] =>
          /\ child'[j] = "none" /\ \A v \in 1 .. Workers : at'[v] # j
          /\ backlog' = << >> \/ conn[j].srv # "queued"
    BY <1>3, Size DEF WorkerLets
  <2>3. \A j \in Conns : child'[j] \in {child[j], "none"} /\ left'[j] \in {left[j], 0}
    OBVIOUS
  <2> QED
    BY <1>2, <2>1, <2>2, <2>3 DEF ServerLets, WorkerLets
<1>6. conn' \in [Conns -> Socket] /\ backlog' \in Seq(Conns)
  <2>1. backlog \in Seq(Conns) /\ << >> \in Seq(Conns)
    BY <1>1 DEF TypeOK
  <2> QED
    BY <2>1 DEF WorkerLets
<1> QED
  BY <1>3, <1>4, <1>5, <1>6, ServerLetsKeeps

----------------------------------------------------------------------------
(* The steps of the servers. *)

LEMMA ServerKilledKeeps ==
  ASSUME IInv, NEW w \in 1 .. Workers, ServerKilled(w)
  PROVE  IInv'
<1>1. /\ w \in Team /\ wk[w] # "gone" /\ Leave(w, "gone", Hangup(w))
      /\ faults' = faults \cup {"server"}
      /\ UNCHANGED <<program, path, left, kids, cl, sockets, tally, asked>>
  BY DEF ServerKilled, Fails
<1>2. WorkerLets(w, "gone")
  BY <1>1, WorkerLeaves
<1>3. /\ conn' \in [Conns -> Socket] /\ backlog' \in Seq(Conns)
      /\ wk' \in [1 .. Workers -> {"starting", "accept", "serve", "send", "unlink", "gone"}]
      /\ at' \in [1 .. Workers -> 0 .. Slots]
      /\ Labels' /\ ClientEnds' /\ ServerEnds' /\ Words' /\ SizeIsTold' /\ FileIsSent'
      /\ Tally' /\ OneMessage'
  <2>1. left \in [Conns -> 0 .. MaxSize]
    BY DEF IInv, TypeOK
  <2> QED
    BY <1>1, <1>2, <2>1, WorkerLetsKeeps DEF kids, tally, sockets
<1>4. TypeOK'
  BY <1>1, <1>3 DEF IInv, TypeOK, Socket, program, kids, sockets, tally
<1>5. ServerOutlivesClients'
  BY <1>1 DEF ServerOutlivesClients
<1>6. HandlerNeverBlocks'
  BY <1>1, <1>2, Size DEF IInv, HandlerNeverBlocks, WorkerLets, kids, TypeOK
<1> QED
  BY <1>3, <1>4, <1>5, <1>6 DEF IInv

(* A worker that goes has been asked to. *)
LEMMA SerialReadKeeps ==
  ASSUME IInv, NEW w \in 1 .. Workers, SerialRead(w)
  PROVE  IInv'
<1>1. /\ prog \in Serial /\ wk[w] = "serve" /\ w \in Team
      /\ UNCHANGED <<program, path, left, kids, cl, sockets, tally, history>>
  BY DEF SerialRead, ConnectRead, UnixRead, Serial, IInv, Labels
<1>2. conn[at[w]].ctl \in {"none"} \cup (IF prog = "lat_connect" THEN {} ELSE {"EXIT"}) \/ asked
  <2>1. at[w] \in Conns /\ conn[at[w]] \in Socket
    BY <1>1, Ends DEF IInv, ServerEnds
  <2> QED
    BY <1>1, <2>1 DEF IInv, Words, Socket, Serial, Forking
<1>3. PICK s \in {"accept", "gone", "unlink"} :
        /\ Leave(w, s, Hangup(w)) \/ (conn' = Hangup(w) /\ Work(w, s, 0) /\ UNCHANGED backlog)
        /\ s = "unlink" => prog = "lat_unix_connect"
        /\ s # "accept" => asked
  BY <1>1, <1>2 DEF SerialRead, ConnectRead, UnixRead
<1>4. WorkerLets(w, s)
  BY <1>1, <1>3, WorkerLeaves
<1>5. /\ conn' \in [Conns -> Socket] /\ backlog' \in Seq(Conns)
      /\ wk' \in [1 .. Workers -> {"starting", "accept", "serve", "send", "unlink", "gone"}]
      /\ at' \in [1 .. Workers -> 0 .. Slots]
      /\ Labels' /\ ClientEnds' /\ ServerEnds' /\ Words' /\ SizeIsTold' /\ FileIsSent'
      /\ Tally' /\ OneMessage'
  <2>1. left \in [Conns -> 0 .. MaxSize]
    BY DEF IInv, TypeOK
  <2> QED
    BY <1>1, <1>3, <1>4, <2>1, WorkerLetsKeeps DEF program, kids, tally, sockets, history
<1>6. TypeOK'
  BY <1>1, <1>5 DEF IInv, TypeOK, Socket, program, kids, sockets, tally, history
<1>7. ServerOutlivesClients'
  <2>1. /\ prog' = prog /\ msize' = msize /\ asked' = asked /\ faults' = faults /\ Team' = Team
    BY <1>1 DEF program, history, Team
  <2>2. \A v \in Team : wk'[v] = IF v = w THEN s ELSE wk[v]
    BY <1>4, Size DEF WorkerLets, IInv, TypeOK
  <2>3. ServerOutlivesClients /\ (asked \/ s = "accept")
    BY <1>3 DEF IInv
  <2> QED
    BY <2>1, <2>2, <2>3 DEF ServerOutlivesClients
<1>8. HandlerNeverBlocks'
  BY <1>1, <1>4, Size DEF IInv, HandlerNeverBlocks, WorkerLets, kids, TypeOK
<1> QED
  BY <1>5, <1>6, <1>7, <1>8 DEF IInv

LEMMA HttpSendFailsKeeps ==
  ASSUME IInv, NEW w \in 1 .. Workers, HttpSendFails(w)
  PROVE  IInv'
<1>1. /\ prog = "lat_http" /\ wk[w] = "send" /\ w \in Team /\ at[w] \in Conns
      /\ conn[at[w]].cli = "closed" /\ left' = [left EXCEPT ![at[w]] = 0]
      /\ UNCHANGED <<program, path, kids, cl, sockets, tally, history>>
  BY Ends DEF HttpSendFails, IInv, Labels, ServerEnds
<1>2. asked \/ "client" \in faults
  BY <1>1 DEF IInv, FileIsSent, ByItself
<1>3. PICK s \in {"accept", "gone"} :
        /\ Leave(w, s, Hangup(w)) \/ (conn' = Hangup(w) /\ Work(w, s, 0) /\ UNCHANGED backlog)
        /\ s = "gone" => msize = 1
  BY DEF HttpSendFails, RdwrSendFails, MmapSendFails
<1>4. WorkerLets(w, s)
  BY <1>1, <1>3, WorkerLeaves
<1>5. left' \in [Conns -> 0 .. MaxSize] /\ \A j \in Conns : left'[j] \in {left[j], 0}
  BY <1>1, Size DEF IInv, TypeOK
<1>6. /\ conn' \in [Conns -> Socket] /\ backlog' \in Seq(Conns)
      /\ wk' \in [1 .. Workers -> {"starting", "accept", "serve", "send", "unlink", "gone"}]
      /\ at' \in [1 .. Workers -> 0 .. Slots]
      /\ Labels' /\ ClientEnds' /\ ServerEnds' /\ Words' /\ SizeIsTold' /\ FileIsSent'
      /\ Tally' /\ OneMessage'
  BY <1>1, <1>3, <1>4, <1>5, WorkerLetsKeeps DEF program, kids, tally, sockets, history
<1>7. TypeOK'
  BY <1>1, <1>5, <1>6 DEF IInv, TypeOK, Socket, program, kids, sockets, tally, history
<1>8. ServerOutlivesClients'
  BY <1>1, <1>2, <1>3, <1>4, Size
     DEF IInv, ServerOutlivesClients, WorkerLets, program, history, TypeOK, Team
<1>9. HandlerNeverBlocks'
  BY <1>1, <1>4, Size DEF IInv, HandlerNeverBlocks, WorkerLets, kids, TypeOK
<1> QED
  BY <1>6, <1>7, <1>8, <1>9 DEF IInv

(* The end of the file a worker of lmhttp sends, or of the requests it     *)
(* reads.                                                                  *)
LEMMA HttpLeavesKeeps ==
  ASSUME IInv, NEW w \in 1 .. Workers, wk[w] \in {"serve", "send"}, prog = "lat_http",
         NEW s \in {"accept", "gone"}, s = "gone" => asked,
         Leave(w, s, Hangup(w)) \/ (conn' = Hangup(w) /\ Work(w, s, 0) /\ UNCHANGED backlog),
         UNCHANGED <<program, path, left, kids, cl, sockets, tally, history>>
  PROVE  IInv'
<1>1. w \in Team
  BY DEF IInv, Labels
<1>2. WorkerLets(w, s)
  BY <1>1, WorkerLeaves
<1>3. left \in [Conns -> 0 .. MaxSize]
  BY DEF IInv, TypeOK
<1>4. /\ conn' \in [Conns -> Socket] /\ backlog' \in Seq(Conns)
      /\ wk' \in [1 .. Workers -> {"starting", "accept", "serve", "send", "unlink", "gone"}]
      /\ at' \in [1 .. Workers -> 0 .. Slots]
      /\ Labels' /\ ClientEnds' /\ ServerEnds' /\ Words' /\ SizeIsTold' /\ FileIsSent'
      /\ Tally' /\ OneMessage'
  BY <1>1, <1>2, <1>3, WorkerLetsKeeps DEF program, kids, tally, sockets, history
<1>5. TypeOK'
  BY <1>4 DEF IInv, TypeOK, Socket, program, kids, sockets, tally, history
<1>6. ServerOutlivesClients'
  BY <1>1, <1>2, Size
     DEF IInv, ServerOutlivesClients, WorkerLets, program, history, TypeOK, Team
<1>7. HandlerNeverBlocks'
  BY <1>1, <1>2, Size DEF IInv, HandlerNeverBlocks, WorkerLets, kids, TypeOK
<1> QED
  BY <1>4, <1>5, <1>6, <1>7 DEF IInv

LEMMA TcpServerKeeps ==
  ASSUME IInv, TcpServer
  PROVE  IInv'
<1>1. /\ prog' = prog /\ msize' = msize /\ Team' = Team /\ conn' = conn /\ backlog' = backlog
      /\ child' = child /\ left' = left /\ cl' = cl /\ fd' = fd /\ todo' = todo
      /\ counted' = counted /\ real' = real /\ asked' = asked /\ faults' = faults
      /\ at' = at /\ zombies' = zombies /\ sigchld' = sigchld /\ tries' = tries /\ path' = path
  BY DEF TcpServer, program, kids, sockets, tally, history, Team
<1>2. /\ wk' = [v \in 1 .. Workers |-> IF v \in Team THEN "accept" ELSE wk[v]]
      /\ \A v \in Team : wk[v] = "starting"
      /\ \A v \in 1 .. Workers : v \notin Team => wk[v] = "starting"
  BY DEF TcpServer, IInv, Labels
<1>3. TypeOK'
  BY <1>1, <1>2 DEF IInv, TypeOK
<1>4. Labels'
  BY <1>1, <1>2 DEF IInv, Labels
<1>5. ClientEnds' /\ ServerEnds' /\ Words' /\ SizeIsTold' /\ FileIsSent' /\ Tally' /\ OneMessage'
  <2>1. \A v \in 1 .. Workers : at[v] = 0
    BY <1>2 DEF IInv, ServerEnds
  <2>2. \A j \in Conns : ServerSide(conn[j], conn'[j])
    BY <1>1 DEF ServerSide
  <2>3. ServerLets
    BY <1>1, <1>2, <2>1, <2>2 DEF ServerLets
  <2> QED
    BY <2>3, ServerLetsKeeps
<1>6. ServerOutlivesClients'
  BY <1>1, <1>2, Size DEF ServerOutlivesClients
<1>7. HandlerNeverBlocks'
  BY <1>1, <1>2, Size DEF IInv, HandlerNeverBlocks
<1> QED
  BY <1>3, <1>4, <1>5, <1>6, <1>7 DEF IInv

LEMMA UnixServerKeeps ==
  ASSUME IInv, UnixServer
  PROVE  IInv'
<1>1. /\ prog' = prog /\ msize' = msize /\ Team' = Team /\ conn' = conn /\ backlog' = backlog
      /\ child' = child /\ left' = left /\ cl' = cl /\ fd' = fd /\ todo' = todo
      /\ counted' = counted /\ real' = real /\ asked' = asked /\ faults' = faults
      /\ zombies' = zombies /\ sigchld' = sigchld /\ tries' = tries /\ path' = TRUE
      /\ wk' = [wk EXCEPT ![1] = "accept"] /\ at' = [at EXCEPT ![1] = 0] /\ wk[1] = "starting"
  BY DEF UnixServer, Work, program, kids, sockets, tally, history, Team
<1>2. 1 \in 1 .. Workers /\ 1 \in Team /\ TypeOK
  BY Size DEF IInv
<1>3. TypeOK'
  BY <1>1, <1>2, Size DEF TypeOK
<1>4. /\ wk'[1] = "accept" /\ at'[1] = 0
      /\ \A v \in 1 .. Workers : v # 1 => wk'[v] = wk[v] /\ at'[v] = at[v]
  BY <1>1, <1>2 DEF TypeOK
<1>5. Labels'
  BY <1>1, <1>2, <1>4 DEF IInv, Labels
<1>6. ClientEnds' /\ ServerEnds' /\ Words' /\ SizeIsTold' /\ FileIsSent' /\ Tally' /\ OneMessage'
  <2>1. \A j \in Conns : ServerSide(conn[j], conn'[j])
    BY <1>1 DEF ServerSide
  <2>2. \A v \in 1 .. Workers :
          /\ at'[v] # 0 <=> wk'[v] \in {"serve", "send"}
          /\ at'[v] # 0 => at'[v] = at[v] /\ wk'[v] = wk[v]
    BY <1>4 DEF IInv, ServerEnds
  <2>3. ServerLets
    BY <1>1, <2>1, <2>2 DEF ServerLets
  <2> QED
    BY <2>3, ServerLetsKeeps
<1>7. ServerOutlivesClients'
  BY <1>1, <1>4, Size DEF IInv, ServerOutlivesClients
<1>8. HandlerNeverBlocks'
  BY <1>1, Size DEF IInv, HandlerNeverBlocks
<1> QED
  BY <1>3, <1>5, <1>6, <1>7, <1>8 DEF IInv

LEMMA UnixDoneKeeps ==
  ASSUME IInv, NEW w \in 1 .. Workers, UnixDone(w)
  PROVE  IInv'
<1>1. /\ prog' = prog /\ msize' = msize /\ Team' = Team /\ conn' = conn /\ backlog' = backlog
      /\ child' = child /\ left' = left /\ cl' = cl /\ fd' = fd /\ todo' = todo
      /\ counted' = counted /\ real' = real /\ asked' = asked /\ faults' = faults
      /\ zombies' = zombies /\ sigchld' = sigchld /\ tries' = tries /\ path' = FALSE
      /\ wk' = [wk EXCEPT ![w] = "gone"] /\ at' = [at EXCEPT ![w] = 0] /\ wk[w] = "unlink"
  BY DEF UnixDone, Work, program, kids, sockets, tally, history, Team
<1>2. w \in Team /\ TypeOK
  BY <1>1 DEF IInv, Labels
<1>3. TypeOK'
  BY <1>1, <1>2, Size DEF TypeOK
<1>4. /\ wk'[w] = "gone" /\ at'[w] = 0
      /\ \A v \in 1 .. Workers : v # w => wk'[v] = wk[v] /\ at'[v] = at[v]
  BY <1>1, <1>2 DEF TypeOK
<1>5. Labels'
  BY <1>1, <1>2, <1>4 DEF IInv, Labels
<1>6. ClientEnds' /\ ServerEnds' /\ Words' /\ SizeIsTold' /\ FileIsSent' /\ Tally' /\ OneMessage'
  <2>1. \A j \in Conns : ServerSide(conn[j], conn'[j])
    BY <1>1 DEF ServerSide
  <2>2. \A v \in 1 .. Workers :
          /\ at'[v] # 0 <=> wk'[v] \in {"serve", "send"}
          /\ at'[v] # 0 => at'[v] = at[v] /\ wk'[v] = wk[v]
    BY <1>4 DEF IInv, ServerEnds
  <2>3. ServerLets
    BY <1>1, <2>1, <2>2 DEF ServerLets
  <2> QED
    BY <2>3, ServerLetsKeeps
<1>7. ServerOutlivesClients'
  <2>1. ServerOutlivesClients /\ wk[w] \in {"unlink", "gone"}
    BY <1>1 DEF IInv
  <2> QED
    BY <1>1, <1>2, <2>1 DEF ServerOutlivesClients
<1>8. HandlerNeverBlocks'
  BY <1>1, <1>2, Size DEF IInv, HandlerNeverBlocks, TypeOK
<1> QED
  BY <1>3, <1>5, <1>6, <1>7, <1>8 DEF IInv

LEMMA SigchldWaitKeeps ==
  ASSUME IInv, SigchldWait
  PROVE  IInv'
<1>1. /\ prog' = prog /\ msize' = msize /\ Team' = Team /\ conn' = conn /\ backlog' = backlog
      /\ child' = child /\ left' = left /\ cl' = cl /\ fd' = fd /\ todo' = todo
      /\ counted' = counted /\ real' = real /\ asked' = asked /\ faults' = faults
      /\ wk' = wk /\ at' = at /\ tries' = tries /\ path' = path
      /\ zombies' = zombies - 1 /\ sigchld' = FALSE
  BY DEF SigchldWait, program, server, sockets, tally, history, Team
<1>2. zombies - 1 \in Nat
  BY DEF SigchldWait, IInv, HandlerNeverBlocks, TypeOK
<1>3. TypeOK'
  BY <1>1, <1>2 DEF IInv, TypeOK
<1>4. Labels'
  BY <1>1 DEF IInv, Labels
<1>5. ClientEnds' /\ ServerEnds' /\ Words' /\ SizeIsTold' /\ FileIsSent' /\ Tally' /\ OneMessage'
  <2>1. \A j \in Conns : ServerSide(conn[j], conn'[j])
    BY <1>1 DEF ServerSide
  <2>2. ServerLets
    BY <1>1, <2>1 DEF ServerLets, IInv, ServerEnds
  <2> QED
    BY <2>2, ServerLetsKeeps
<1> QED
  BY <1>1, <1>3, <1>4, <1>5 DEF IInv, ServerOutlivesClients, HandlerNeverBlocks

----------------------------------------------------------------------------
(* The steps of the children. *)

LEMMA ChildEndsKeeps ==
  ASSUME IInv, NEW k \in Conns, child[k] # "none", ChildEnds(k)
  PROVE  IInv'
<1>1. /\ prog' = prog /\ msize' = msize /\ Team' = Team
      /\ cl' = cl /\ fd' = fd /\ todo' = todo
      /\ counted' = counted /\ real' = real /\ asked' = asked /\ faults' = faults
      /\ wk' = wk /\ at' = at /\ tries' = tries /\ path' = path
      /\ LetGo([conn EXCEPT ![k] = SrvClosed(@)], Team, Conns \ {k})
      /\ child' = [child EXCEPT ![k] = "none"] /\ left' = [left EXCEPT ![k] = 0]
  BY DEF ChildEnds, program, server, sockets, tally, history, Team
<1>2. prog \in Forking /\ conn[k].srv = "open" /\ TypeOK
  BY DEF IInv, Labels, ServerEnds
<1>3. /\ conn' \in [Conns -> Socket]
      /\ \A j \in Conns : ServerSide(conn[j], conn'[j])
      /\ backlog' \in {backlog, << >>}
      /\ \A j \in Conns : conn'[j] # conn[j] =>
           j = k \/ (child[j] = "none" /\ (backlog' = << >> \/ conn[j].srv # "queued"))
  <2> DEFINE c == [conn EXCEPT ![k] = SrvClosed(@)]
  <2>1. OneClosed(c, k) /\ LetGo(c, Team, Conns \ {k})
    BY <1>1, <1>2, SrvClosedCloses
  <2> HIDE DEF c
  <2> QED
    BY <2>1, LetGoLets
<1>4. child'[k] = "none" /\ left'[k] = 0 /\ \A j \in Conns : j # k => child'[j] = child[j]
      /\ left'[j] = left[j]
  BY <1>1, <1>2 DEF TypeOK
<1>5. zombies' \in Nat /\ sigchld' \in BOOLEAN /\ HandlerNeverBlocks'
  <2>1. IF wk[1] = "gone" THEN UNCHANGED <<zombies, sigchld>>
        ELSE zombies' = zombies + 1 /\ sigchld' = TRUE
    BY DEF ChildEnds
  <2>2. zombies \in Nat /\ sigchld \in BOOLEAN /\ HandlerNeverBlocks
    BY DEF IInv, TypeOK
  <2>3. CASE wk[1] = "gone"
    BY <1>1, <2>1, <2>2, <2>3 DEF HandlerNeverBlocks
  <2>4. CASE wk[1] # "gone"
    <3>1. zombies' \in Nat /\ zombies' > 0 /\ sigchld' = TRUE
      BY <2>1, <2>2, <2>4
    <3> QED
      BY <3>1 DEF HandlerNeverBlocks
  <2> QED
    BY <2>3, <2>4
<1>6. TypeOK'
  <2>1. backlog' \in Seq(Conns)
    <3>1. backlog \in Seq(Conns) /\ << >> \in Seq(Conns)
      BY <1>2 DEF TypeOK
    <3> QED
      BY <1>3, <3>1
  <2>2. /\ child' \in [Conns -> {"none", "control", "read", "write"}]
        /\ left' \in [Conns -> 0 .. MaxSize]
    <3>1. /\ child \in [Conns -> {"none", "control", "read", "write"}]
          /\ left \in [Conns -> 0 .. MaxSize]
      BY <1>2 DEF TypeOK
    <3>2. 0 \in 0 .. MaxSize
      BY Size
    <3> QED
      BY <1>1, <3>1, <3>2
  <2> QED
    BY <1>1, <1>2, <1>3, <1>5, <2>1, <2>2 DEF TypeOK, Socket
<1>7. Labels'
  BY <1>1, <1>4 DEF IInv, Labels
<1>8. ClientEnds' /\ ServerEnds' /\ Words' /\ SizeIsTold' /\ FileIsSent' /\ Tally' /\ OneMessage'
  <2>1. \A v \in 1 .. Workers : at[v] = 0
    BY <1>2 DEF IInv, ServerEnds, Labels, Forking
  <2>2. \A j \in Conns : conn'[j] # conn[j] =>
          child'[j] = "none" /\ (backlog' = << >> \/ conn[j].srv # "queued")
    BY <1>2, <1>3, <1>4
  <2>3. \A j \in Conns : child'[j] \in {child[j], "none"} /\ left'[j] \in {left[j], 0}
    BY <1>4
  <2>4. \A v \in 1 .. Workers : at[v] # 0 <=> wk[v] \in {"serve", "send"}
    BY DEF IInv, ServerEnds
  <2>5. ServerLets
    BY <1>1, <1>3, <2>1, <2>2, <2>3, <2>4, Size DEF ServerLets
  <2> QED
    BY <2>5, ServerLetsKeeps
<1>9. ServerOutlivesClients'
  BY <1>1 DEF IInv, ServerOutlivesClients
<1> QED
  BY <1>5, <1>6, <1>7, <1>8, <1>9 DEF IInv

(* It has been asked to, or a client of lat_tcp has been killed before it  *)
(* could send the size.                                                    *)
LEMMA ShutdownKeeps ==
  ASSUME IInv, NEW k \in Conns, Shutdown(k)
  PROVE  IInv'
<1>1. /\ prog' = prog /\ msize' = msize /\ Team' = Team
      /\ cl' = cl /\ fd' = fd /\ todo' = todo /\ left' = left
      /\ counted' = counted /\ real' = real /\ asked' = asked /\ faults' = faults
      /\ tries' = tries /\ path' = path /\ zombies' = zombies /\ sigchld' = sigchld
      /\ Work(1, "gone", 0) /\ LetGo([conn EXCEPT ![k] = SrvClosed(@)], {}, Conns \ {k})
      /\ child' = [child EXCEPT ![k] = "none"] /\ child[k] = "control"
  BY DEF Shutdown, program, sockets, tally, history, Team
<1>2. /\ prog \in Forking /\ conn[k].srv = "open" /\ TypeOK
      /\ 1 \in Team /\ 1 \in 1 .. Workers /\ Team = {1}
  BY <1>1, Size DEF IInv, Labels, ServerEnds, Forking
<1>3. OneClosed([conn EXCEPT ![k] = SrvClosed(@)], k)
  BY <1>2, SrvClosedCloses
<1>4. child'[k] = "none" /\ \A j \in Conns : j # k => child'[j] = child[j]
  BY <1>1, <1>2 DEF TypeOK
<1>5. /\ conn' \in [Conns -> Socket]
      /\ \A j \in Conns : ServerSide(conn[j], conn'[j])
      /\ backlog' \in {backlog, << >>}
      /\ \A j \in Conns : conn'[j] # conn[j] =>
           j = k \/ (child[j] = "none" /\ (backlog' = << >> \/ conn[j].srv # "queued"))
  <2> DEFINE c == [conn EXCEPT ![k] = SrvClosed(@)]
  <2>1. OneClosed(c, k) /\ LetGo(c, {}, Conns \ {k})
    BY <1>1, <1>3
  <2> HIDE DEF c
  <2> QED
    BY <2>1, LetGoLets
<1>6. /\ wk' = [wk EXCEPT ![1] = "gone"] /\ at' = [at EXCEPT ![1] = 0]
  BY <1>1 DEF Work
<1>7. TypeOK'
  <2>1. /\ child' \in [Conns -> {"none", "control", "read", "write"}]
        /\ wk' \in [1 .. Workers -> {"starting", "accept", "serve", "send", "unlink", "gone"}]
        /\ at' \in [1 .. Workers -> 0 .. Slots]
    BY <1>1, <1>2, <1>6, Size DEF TypeOK
  <2>2. backlog' \in Seq(Conns)
    <3>1. backlog \in Seq(Conns) /\ << >> \in Seq(Conns)
      BY <1>2 DEF TypeOK
    <3> QED
      BY <1>5, <3>1
  <2> QED
    BY <1>1, <1>2, <1>5, <2>1, <2>2 DEF TypeOK, Socket
<1>8. Labels'
  <2>1. \A v \in 1 .. Workers : v # 1 => wk'[v] = wk[v]
    BY <1>2, <1>6 DEF TypeOK
  <2>2. wk'[1] = "gone"
    BY <1>2, <1>6 DEF TypeOK
  <2> QED
    BY <1>1, <1>2, <1>4, <2>1, <2>2 DEF IInv, Labels
<1>9. ClientEnds' /\ ServerEnds' /\ Words' /\ SizeIsTold' /\ FileIsSent' /\ Tally' /\ OneMessage'
  <2>1. \A v \in 1 .. Workers : at'[v] = 0 /\ wk'[v] \notin {"serve", "send"}
    <3>1. \A v \in 1 .. Workers : v # 1 => wk[v] = "starting" /\ at[v] = 0
      BY <1>2 DEF IInv, ServerEnds, Labels
    <3>2. /\ wk \in [1 .. Workers -> {"starting", "accept", "serve", "send", "unlink", "gone"}]
          /\ at \in [1 .. Workers -> 0 .. Slots]
      BY <1>2 DEF TypeOK
    <3> QED
      BY <1>2, <1>6, <3>1, <3>2
  <2>2. \A j \in Conns : conn'[j] # conn[j] => child'[j] = "none"
            /\ (backlog' = << >> \/ conn[j].srv # "queued")
    BY <1>2, <1>4, <1>5
  <2>3. \A j \in Conns : child'[j] \in {child[j], "none"} /\ left'[j] \in {left[j], 0}
    BY <1>1, <1>4
  <2>4. ServerLets
    BY <1>1, <1>5, <2>1, <2>2, <2>3, Size DEF ServerLets
  <2> QED
    BY <2>4, ServerLetsKeeps
<1>10. ServerOutlivesClients'
  <2>1. asked \/ (prog = "lat_tcp" /\ "client" \in faults)
    <3>1. CASE prog = "lat_tcp"
      <4>1. conn[k].cli = "closed" /\ conn[k].ctl = "none"
        BY <3>1 DEF Shutdown, MeansShutdown
      <4>2. ~Told(k)
        BY <1>1, <4>1 DEF Told
      <4> QED
        BY <3>1, <4>1, <4>2 DEF IInv, SizeIsTold, ByItself
    <3>2. CASE prog # "lat_tcp"
      BY <3>2 DEF Shutdown, MeansShutdown, IInv, Words
    <3> QED
      BY <3>1, <3>2
  <2> QED
    BY <1>1, <2>1 DEF ServerOutlivesClients
<1>11. HandlerNeverBlocks'
  BY <1>1, <1>2, <1>6 DEF HandlerNeverBlocks, TypeOK
<1> QED
  BY <1>7, <1>8, <1>9, <1>10, <1>11 DEF IInv

----------------------------------------------------------------------------
(* Connections are accepted. *)

LEMMA AcceptFacts ==
  ASSUME IInv, NEW w \in 1 .. Workers, Accept(w)
  PROVE  \E b \in Conns :
           /\ b = Head(backlog) /\ conn[b].srv = "queued" /\ child[b] = "none"
           /\ conn' \in [Conns -> Socket]
           /\ conn'[b].srv = "open" /\ conn'[b].cli = conn[b].cli /\ conn'[b].ctl = conn[b].ctl
           /\ conn'[b].up = conn[b].up /\ conn'[b].down = conn[b].down /\ conn[b].cli # "free"
           /\ \A j \in Conns : j # b => conn'[j] = conn[j]
           /\ backlog' \in Seq(Conns)
           /\ \A i \in 1 .. Len(backlog') : backlog'[i] \in Conns /\ backlog'[i] # b
                                              /\ conn[backlog'[i]].srv = "queued"
           /\ \A i, j \in 1 .. Len(backlog') : i # j => backlog'[i] # backlog'[j]
<1>1. backlog \in Seq(Conns) /\ backlog # << >> /\ backlog' = Tail(backlog)
  BY DEF IInv, TypeOK, Accept
<1>2. /\ Len(backlog) \in Nat /\ Len(backlog) >= 1
      /\ \A i \in 1 .. Len(backlog) : backlog[i] \in Conns
  BY <1>1, LenProperties
<1>3. /\ Head(backlog) = backlog[1] /\ backlog' \in Seq(Conns) /\ Len(backlog') = Len(backlog) - 1
      /\ \A i \in 1 .. Len(backlog') : backlog'[i] = backlog[i+1]
  BY <1>1, HeadTailProperties
<1>4. /\ \A i \in 1 .. Len(backlog) : conn[backlog[i]].srv = "queued"
      /\ \A i, j \in 1 .. Len(backlog) : i # j => backlog[i] # backlog[j]
  BY DEF IInv, ServerEnds
<1> DEFINE b == backlog[1]
<1>5. b \in Conns /\ b = Head(backlog) /\ conn[b].srv = "queued"
  BY <1>2, <1>3, <1>4
<1>6. /\ \A i \in 1 .. Len(backlog') : backlog'[i] \in Conns /\ backlog'[i] # b
                                         /\ conn[backlog'[i]].srv = "queued"
      /\ \A i, j \in 1 .. Len(backlog') : i # j => backlog'[i] # backlog'[j]
  <2>1. \A i \in 1 .. Len(backlog') : i+1 \in 1 .. Len(backlog) /\ i+1 # 1
        /\ backlog'[i] = backlog[i+1]
    BY <1>2, <1>3
  <2>2. 1 \in 1 .. Len(backlog)
    BY <1>2
  <2>3. \A i, j \in 1 .. Len(backlog') : i # j => i+1 # j+1
    OBVIOUS
  <2> QED
    BY <1>2, <1>4, <2>1, <2>2, <2>3
<1> HIDE DEF b
<1>7. conn' = [conn EXCEPT ![b].srv = "open"]
  BY <1>5 DEF Accept
<1>8. conn \in [Conns -> Socket] /\ conn[b] \in Socket
  BY <1>5, Ends
<1>9. child[b] = "none" /\ conn[b].cli # "free"
  BY <1>5, FreeIsSocket DEF IInv, ServerEnds, ClientEnds
<1>10. /\ conn' \in [Conns -> Socket]
       /\ conn'[b].srv = "open" /\ conn'[b].cli = conn[b].cli /\ conn'[b].ctl = conn[b].ctl
       /\ conn'[b].up = conn[b].up /\ conn'[b].down = conn[b].down
       /\ \A j \in Conns : j # b => conn'[j] = conn[j]
  BY <1>5, <1>7, <1>8 DEF Socket
<1> QED
  BY <1>3, <1>5, <1>6, <1>9, <1>10

(* A connection the server takes up has not been used by it before. *)
Taken(b) ==
  /\ prog' = prog /\ msize' = msize /\ Team' = Team
  /\ cl' = cl /\ fd' = fd /\ todo' = todo /\ counted' = counted /\ real' = real
  /\ asked' = asked /\ faults \subseteq faults' /\ left' = left
  /\ \A j \in Conns : j # b => child'[j] = child[j]
  /\ child'[b] \in {"none", "control"}
  /\ \/ wk' = wk /\ at' = at
     \/ \E w \in Team : /\ wk' = [wk EXCEPT ![w] = "serve"] /\ at' = [at EXCEPT ![w] = b]
                        /\ wk[w] = "accept"

LEMMA TakenKeeps ==
  ASSUME IInv, NEW w \in 1 .. Workers, Accept(w), Taken(Head(backlog))
  PROVE  /\ conn' \in [Conns -> Socket] /\ backlog' \in Seq(Conns)
         /\ ClientEnds' /\ ServerEnds' /\ Words' /\ SizeIsTold' /\ FileIsSent' /\ Tally'
            /\ OneMessage'
<1>1. PICK b \in Conns :
           /\ b = Head(backlog) /\ conn[b].srv = "queued" /\ child[b] = "none"
           /\ conn' \in [Conns -> Socket]
           /\ conn'[b].srv = "open" /\ conn'[b].cli = conn[b].cli /\ conn'[b].ctl = conn[b].ctl
           /\ conn'[b].up = conn[b].up /\ conn'[b].down = conn[b].down /\ conn[b].cli # "free"
           /\ \A j \in Conns : j # b => conn'[j] = conn[j]
           /\ backlog' \in Seq(Conns)
           /\ \A i \in 1 .. Len(backlog') : backlog'[i] \in Conns /\ backlog'[i] # b
                                              /\ conn[backlog'[i]].srv = "queued"
           /\ \A i, j \in 1 .. Len(backlog') : i # j => backlog'[i] # backlog'[j]
  BY AcceptFacts
<1>2. Taken(b) /\ b # 0
  BY <1>1, Size
<1>3. /\ \A j \in Conns :
           /\ conn'[j].cli = conn[j].cli /\ conn'[j].ctl = conn[j].ctl
           /\ conn'[j].up = conn[j].up /\ conn'[j].down = conn[j].down
           /\ conn'[j].srv = conn[j].srv
                \/ (j = b /\ conn[j].srv = "queued" /\ conn'[j].srv = "open")
      /\ \A j \in Conns : conn'[j].cli = "free" => conn'[j] = conn[j]
  BY <1>1
<1>4. /\ cl' = cl /\ fd' = fd /\ prog' = prog /\ msize' = msize /\ Team' = Team
      /\ todo' = todo /\ left' = left /\ asked' = asked
  BY <1>2 DEF Taken
<1>5. ClientEnds'
  BY <1>3, <1>4, Ends DEF IInv, ClientEnds
<1>6. /\ \A v \in 1 .. Workers : at[v] # b
      /\ \A v \in 1 .. Workers :
           \/ wk'[v] = wk[v] /\ at'[v] = at[v]
           \/ /\ wk[v] = "accept" /\ wk'[v] = "serve" /\ at'[v] = b /\ at[v] = 0
              /\ \A u \in 1 .. Workers : u # v => wk'[u] = wk[u] /\ at'[u] = at[u]
  <2>1. \A v \in 1 .. Workers : at[v] # b
    BY <1>1, <1>2 DEF IInv, ServerEnds
  <2>2. \A v \in 1 .. Workers : wk[v] = "accept" => at[v] = 0
    BY DEF IInv, ServerEnds
  <2>3. DOMAIN wk = 1 .. Workers /\ DOMAIN at = 1 .. Workers /\ wk = [v \in DOMAIN wk |-> wk[v]]
          /\ at = [v \in DOMAIN at |-> at[v]]
    BY DEF IInv, TypeOK
  <2>4. CASE wk' = wk /\ at' = at
    BY <2>1, <2>4
  <2>5. ASSUME NEW u \in Team, wk' = [wk EXCEPT ![u] = "serve"], at' = [at EXCEPT ![u] = b],
               wk[u] = "accept"
        PROVE  \A v \in 1 .. Workers :
                 \/ wk'[v] = wk[v] /\ at'[v] = at[v]
                 \/ /\ wk[v] = "accept" /\ wk'[v] = "serve" /\ at'[v] = b /\ at[v] = 0
                    /\ \A x \in 1 .. Workers : x # v => wk'[x] = wk[x] /\ at'[x] = at[x]
    BY <2>2, <2>3, <2>5, Size
  <2> QED
    BY <1>2, <2>1, <2>4, <2>5 DEF Taken
<1>7. ServerEnds'
  <2>1. /\ \A i \in 1 .. Len(backlog') : conn'[backlog'[i]].srv = "queued"
        /\ \A i, j \in 1 .. Len(backlog') : i # j => backlog'[i] # backlog'[j]
    BY <1>1
  <2>2. \A v \in 1 .. Workers :
          /\ at'[v] # 0 <=> wk'[v] \in {"serve", "send"}
          /\ at'[v] # 0 => conn'[at'[v]].srv = "open"
    BY <1>1, <1>2, <1>6, Ends DEF IInv, ServerEnds
  <2>3. \A u, v \in 1 .. Workers : u # v /\ at'[v] # 0 => at'[v] # at'[u]
    BY <1>2, <1>6 DEF IInv, ServerEnds
  <2>4. \A j \in Conns : child'[j] # "none" => conn'[j].srv = "open"
    BY <1>1, <1>2 DEF Taken, IInv, ServerEnds
  <2> QED
    BY <2>1, <2>2, <2>3, <2>4 DEF ServerEnds
<1>8. Words'
  BY <1>3, <1>4 DEF IInv, Words
<1>9. SizeIsTold'
  <2>1. \A j \in Conns : Told(j) => Told(j)'
    BY <1>1, <1>2 DEF Told, Taken
  <2>2. ByItself' => ByItself
    BY <1>2 DEF ByItself, Taken
  <2>3. \A q \in Clients : fd[q] # 0 => fd[q] \in Conns
    BY Ends, Size
  <2>4. prog = "lat_tcp" => \A q \in Clients, j \in Conns :
          cl[q] \in {"write", "read", "cleanup"} /\ fd[q] # 0 /\ fd[q] = j => Told(j)'
    BY <2>1, <2>3 DEF IInv, SizeIsTold
  <2>5. prog = "lat_tcp" /\ ByItself' => \A j \in Conns : conn'[j].cli = "closed" => Told(j)'
    BY <1>3, <2>1, <2>2 DEF IInv, SizeIsTold
  <2> QED
    BY <1>4, <2>3, <2>4, <2>5 DEF SizeIsTold, Told
<1>10. FileIsSent'
  <2>1. ByItself' => ByItself
    BY <1>2 DEF ByItself, Taken
  <2>2. \A v \in 1 .. Workers : at'[v] \in Conns /\ wk'[v] # "serve" => at'[v] = at[v]
            /\ wk'[v] = wk[v]
    BY <1>6
  <2>3. \A q \in Clients : fd[q] # 0 => fd[q] \in Conns
    BY Ends, Size
  <2>4. \A v \in 1 .. Workers : at'[v] = at[v] \/ wk'[v] = "serve"
    BY <1>6
  <2> QED
    BY <1>3, <1>4, <2>1, <2>2, <2>3, <2>4 DEF IInv, FileIsSent
<1>11. Tally'
  BY <1>2 DEF IInv, Tally, Taken
<1>12. OneMessage'
  <2>1. \A j \in Conns : child'[j] = "write" => child[j] = "write"
    BY <1>2 DEF Taken
  <2>2. \A j \in Conns : Answering(j) \in {0, 1} /\ Answering(j)' \in {0, 1}
        /\ (Answering(j)' = 1 => Answering(j) = 1)
    BY <2>1 DEF Answering
  <2>3. \A q \in Clients : fd[q] # 0 => fd[q] \in Conns
    BY Ends, Size
  <2>4. \A j \in Conns : conn[j].up \in Nat /\ conn[j].down \in Nat
    BY Ends, Size DEF Socket
  <2>5. \A j \in Conns : child'[j] = "write" => left'[j] <= msize'
    BY <1>4, <2>1 DEF IInv, OneMessage
  <2> SUFFICES ASSUME prog = "lat_tcp", msize = 1, NEW q \in Clients, NEW j \in Conns,
                      fd[q] = j, j # 0,
                      conn'[j].srv \in {"queued", "open"}, cl[q] \in {"size", "write", "read"}
               PROVE  /\ cl[q] \in {"size", "write"} =>
                         conn'[j].up = 0 /\ conn'[j].down = 0 /\ Answering(j)' = 0
                      /\ cl[q] = "read" => conn'[j].up + conn'[j].down + Answering(j)' <= 1
    BY <1>4, <2>3, <2>5 DEF OneMessage, Answering
  <2>6. conn[j].srv \in {"queued", "open"}
    BY <1>3
  <2>7. /\ cl[q] \in {"size", "write"} => conn[j].up = 0 /\ conn[j].down = 0 /\ Answering(j) = 0
        /\ cl[q] = "read" => conn[j].up + conn[j].down + Answering(j) <= 1
    BY <2>6 DEF IInv, OneMessage
  <2> QED
    BY <1>3, <2>2, <2>4, <2>7
<1> QED
  BY <1>1, <1>5, <1>7, <1>8, <1>9, <1>10, <1>11, <1>12

LEMMA AcceptAndForkKeeps ==
  ASSUME IInv, NEW w \in 1 .. Workers, AcceptAndFork(w)
  PROVE  IInv'
<1>1. PICK b \in Conns : b = Head(backlog) /\ child[b] = "none"
  BY AcceptFacts DEF AcceptAndFork
<1>2. /\ prog' = prog /\ msize' = msize /\ Team' = Team
      /\ cl' = cl /\ fd' = fd /\ todo' = todo /\ left' = left
      /\ counted' = counted /\ real' = real /\ asked' = asked /\ faults' = faults
      /\ wk' = wk /\ at' = at /\ tries' = tries /\ path' = path
      /\ zombies' = zombies /\ sigchld' = sigchld
      /\ Accept(w) /\ prog \in Forking /\ child' = [child EXCEPT ![b] = "control"]
  BY <1>1 DEF AcceptAndFork, program, server, sockets, tally, history, Team
<1>3. /\ child' \in [Conns -> {"none", "control", "read", "write"}] /\ child'[b] = "control"
      /\ \A j \in Conns : j # b => child'[j] = child[j]
  BY <1>2 DEF IInv, TypeOK
<1>4. Taken(Head(backlog))
  BY <1>1, <1>2, <1>3 DEF Taken
<1>5. /\ conn' \in [Conns -> Socket] /\ backlog' \in Seq(Conns)
      /\ ClientEnds' /\ ServerEnds' /\ Words' /\ SizeIsTold' /\ FileIsSent' /\ Tally' /\ OneMessage'
  BY <1>2, <1>4, TakenKeeps
<1>6. TypeOK'
  BY <1>2, <1>3, <1>5 DEF IInv, TypeOK, Socket
<1>7. Labels'
  BY <1>2, <1>3 DEF IInv, Labels
<1> QED
  BY <1>2, <1>5, <1>6, <1>7 DEF IInv, ServerOutlivesClients, HandlerNeverBlocks

LEMMA AcceptForkFailsKeeps ==
  ASSUME IInv, NEW w \in 1 .. Workers, AcceptForkFails(w)
  PROVE  IInv'
<1>1. PICK b \in Conns : b = Head(backlog) /\ child[b] = "none"
  BY AcceptFacts DEF AcceptForkFails
<1>2. /\ prog' = prog /\ msize' = msize /\ Team' = Team
      /\ cl' = cl /\ fd' = fd /\ todo' = todo /\ left' = left
      /\ counted' = counted /\ real' = real /\ asked' = asked /\ faults' = faults \cup {"fork"}
      /\ wk' = wk /\ at' = at /\ tries' = tries /\ path' = path
      /\ zombies' = zombies /\ sigchld' = sigchld /\ child' = child /\ Accept(w)
  BY DEF AcceptForkFails, Fails, program, server, kids, sockets, tally, Team
<1>3. Taken(Head(backlog))
  BY <1>1, <1>2 DEF Taken
<1>4. /\ conn' \in [Conns -> Socket] /\ backlog' \in Seq(Conns)
      /\ ClientEnds' /\ ServerEnds' /\ Words' /\ SizeIsTold' /\ FileIsSent' /\ Tally' /\ OneMessage'
  BY <1>2, <1>3, TakenKeeps
<1>5. TypeOK'
  BY <1>2, <1>4 DEF IInv, TypeOK, Socket
<1>6. Labels'
  BY <1>2 DEF IInv, Labels
<1> QED
  BY <1>2, <1>4, <1>5, <1>6 DEF IInv, ServerOutlivesClients, HandlerNeverBlocks

LEMMA AcceptAndServeKeeps ==
  ASSUME IInv, NEW w \in 1 .. Workers, AcceptAndServe(w)
  PROVE  IInv'
<1>1. PICK b \in Conns : b = Head(backlog) /\ child[b] = "none"
  BY AcceptFacts DEF AcceptAndServe
<1>2. /\ prog' = prog /\ msize' = msize /\ Team' = Team
      /\ cl' = cl /\ fd' = fd /\ todo' = todo /\ left' = left
      /\ counted' = counted /\ real' = real /\ asked' = asked /\ faults' = faults
      /\ tries' = tries /\ path' = path
      /\ zombies' = zombies /\ sigchld' = sigchld /\ child' = child
      /\ Accept(w) /\ prog \notin Forking /\ w \in Team /\ wk[w] = "accept"
      /\ wk' = [wk EXCEPT ![w] = "serve"] /\ at' = [at EXCEPT ![w] = b]
  BY <1>1 DEF AcceptAndServe, Accept, Work, program, kids, sockets, tally, history, Team
<1>3. Taken(Head(backlog))
  BY <1>1, <1>2 DEF Taken
<1>4. /\ conn' \in [Conns -> Socket] /\ backlog' \in Seq(Conns)
      /\ ClientEnds' /\ ServerEnds' /\ Words' /\ SizeIsTold' /\ FileIsSent' /\ Tally' /\ OneMessage'
  BY <1>2, <1>3, TakenKeeps
<1>5. /\ wk' \in [1 .. Workers -> {"starting", "accept", "serve", "send", "unlink", "gone"}]
      /\ at' \in [1 .. Workers -> 0 .. Slots]
      /\ wk'[w] = "serve" /\ \A v \in 1 .. Workers : v # w => wk'[v] = wk[v]
  <2>1. /\ wk \in [1 .. Workers -> {"starting", "accept", "serve", "send", "unlink", "gone"}]
        /\ at \in [1 .. Workers -> 0 .. Slots] /\ b \in 0 .. Slots
    BY Size DEF IInv, TypeOK
  <2> QED
    BY <1>2, <2>1
<1>6. TypeOK'
  BY <1>2, <1>4, <1>5 DEF IInv, TypeOK, Socket
<1>7. Labels'
  BY <1>2, <1>5 DEF IInv, Labels
<1>8. ServerOutlivesClients'
  BY <1>2, <1>5, Size DEF IInv, ServerOutlivesClients
<1>9. HandlerNeverBlocks'
  BY <1>2, <1>5, Size DEF IInv, HandlerNeverBlocks
<1> QED
  BY <1>4, <1>6, <1>7, <1>8, <1>9 DEF IInv

----------------------------------------------------------------------------
(* Something is said, written or read. *)

(* What one side does to a connection it shares. *)
LEMMA Shared ==
  ASSUME IInv, NEW p \in Clients, cl[p] \in Using, fd[p] # 0
  PROVE  /\ fd[p] \in Conns /\ conn[fd[p]].cli = "open" /\ conn[fd[p]] \in Socket
         /\ \A q \in Clients : q # p /\ cl[q] \in Using => fd[q] # fd[p]
  BY Ends, Size DEF IInv, ClientEnds

LEMMA ReadSizeKeeps ==
  ASSUME IInv, NEW k \in Conns, ReadSize(k)
  PROVE  IInv'
<1>1. /\ prog' = prog /\ msize' = msize /\ Team' = Team /\ backlog' = backlog
      /\ cl' = cl /\ fd' = fd /\ todo' = todo
      /\ counted' = counted /\ real' = real /\ asked' = asked /\ faults' = faults
      /\ wk' = wk /\ at' = at /\ tries' = tries /\ path' = path
      /\ zombies' = zombies /\ sigchld' = sigchld
      /\ child[k] = "control" /\ conn[k].ctl = "size" /\ conn' = [conn EXCEPT ![k].ctl = "none"]
  BY DEF ReadSize, program, server, sockets, tally, history, Team
<1>2. prog \in Forking /\ conn[k].srv = "open" /\ conn[k].cli # "free" /\ TypeOK
  BY <1>1, Ends DEF IInv, Labels, ServerEnds
<1>3. /\ conn' \in [Conns -> Socket]
      /\ conn'[k].cli = conn[k].cli /\ conn'[k].srv = conn[k].srv /\ conn'[k].ctl = "none"
      /\ conn'[k].up = conn[k].up /\ conn'[k].down = conn[k].down
      /\ \A j \in Conns : j # k => conn'[j] = conn[j]
  BY <1>1, Ends DEF Socket
<1>4. /\ child' \in [Conns -> {"none", "control", "read", "write"}]
      /\ left' \in [Conns -> 0 .. MaxSize]
      /\ child'[k] = IF prog = "lat_tcp" THEN "read" ELSE "write"
      /\ prog = "bw_tcp" => left'[k] = msize
      /\ \A j \in Conns : j # k => child'[j] = child[j] /\ left'[j] = left[j]
  <2>1. /\ child \in [Conns -> {"none", "control", "read", "write"}]
        /\ left \in [Conns -> 0 .. MaxSize]
    BY <1>2 DEF TypeOK
  <2> QED
    BY <1>2, <2>1, MessageSize DEF ReadSize, Forking
<1>5. TypeOK'
  BY <1>1, <1>2, <1>3, <1>4 DEF TypeOK, Socket
<1>6. Talks
  BY <1>1, <1>2, <1>3, <1>4, Size DEF Talks, Forking
<1>7. Tally'
  BY <1>1 DEF IInv, Tally
<1>8. OneMessage'
  <2>1. \A j \in Conns : child'[j] = "write" => left'[j] <= msize
    <3>1. \A j \in Conns : child[j] = "write" => left[j] <= msize
      BY DEF IInv, OneMessage
    <3>2. child'[k] = "write" => left'[k] = msize
      BY <1>2, <1>4 DEF Forking
    <3> QED
      BY <1>4, <3>1, <3>2, MessageSize
  <2> SUFFICES ASSUME prog = "lat_tcp", msize = 1, NEW q \in Clients, NEW j \in Conns,
                      fd[q] = j, conn'[j].srv \in {"queued", "open"}
               PROVE  /\ cl[q] \in {"size", "write"} =>
                         conn'[j].up = 0 /\ conn'[j].down = 0 /\ Answering(j)' = 0
                      /\ cl[q] = "read" => conn'[j].up + conn'[j].down + Answering(j)' <= 1
    BY <1>1, <2>1, Ends, Size DEF OneMessage, Answering
  <2>2. Answering(j)' = Answering(j)
    BY <1>1, <1>4 DEF Answering
  <2>3. conn'[j].srv = conn[j].srv /\ conn'[j].up = conn[j].up /\ conn'[j].down = conn[j].down
    BY <1>3
  <2> QED
    BY <2>2, <2>3, Size DEF IInv, OneMessage
<1> QED
  BY <1>2, <1>5, <1>6, <1>7, <1>8, TalksKeeps DEF IInv, Forking

(* What lat_tcp reads it takes from the buffer and answers. *)
LEMMA EchoReadKeeps ==
  ASSUME IInv, NEW k \in Conns, EchoRead(k)
  PROVE  IInv'
<1> DEFINE e == conn[k].up - Min({conn[k].up, msize})
<1>1. /\ prog' = prog /\ msize' = msize /\ Team' = Team /\ backlog' = backlog
      /\ cl' = cl /\ fd' = fd /\ todo' = todo
      /\ counted' = counted /\ real' = real /\ asked' = asked /\ faults' = faults
      /\ wk' = wk /\ at' = at /\ tries' = tries /\ path' = path
      /\ zombies' = zombies /\ sigchld' = sigchld
      /\ child[k] = "read" /\ conn[k].up > 0 /\ conn' = [conn EXCEPT ![k].up = e]
      /\ left' = [left EXCEPT ![k] = msize] /\ child' = [child EXCEPT ![k] = "write"]
  BY DEF EchoRead, program, server, sockets, tally, history, Team
<1>2. prog \in Forking /\ conn[k].srv = "open" /\ conn[k].cli # "free" /\ TypeOK
  BY <1>1, Ends DEF IInv, Labels, ServerEnds
<1>3. e \in 0 .. Buffer /\ e < conn[k].up /\ conn[k].up \in Nat /\ msize \in 1 .. MaxSize
  <2>1. conn[k].up \in 0 .. Buffer /\ msize \in 1 .. MaxSize
    BY <1>2, Ends DEF Socket, TypeOK
  <2>2. conn[k].up \in Nat /\ msize \in Nat
    BY <2>1, Size
  <2>3. Min({conn[k].up, msize}) = IF conn[k].up <= msize THEN conn[k].up ELSE msize
    BY <2>2, MinOfTwo
  <2> QED
    BY <1>1, <2>1, <2>2, <2>3, Size
<1> HIDE DEF e
<1>4. /\ conn' \in [Conns -> Socket]
      /\ conn'[k].cli = conn[k].cli /\ conn'[k].srv = conn[k].srv /\ conn'[k].ctl = conn[k].ctl
      /\ conn'[k].up = e /\ conn'[k].down = conn[k].down
      /\ \A j \in Conns : j # k => conn'[j] = conn[j]
  BY <1>1, <1>3, Ends DEF Socket
<1>5. /\ child' \in [Conns -> {"none", "control", "read", "write"}]
      /\ left' \in [Conns -> 0 .. MaxSize] /\ child'[k] = "write" /\ left'[k] = msize
      /\ \A j \in Conns : j # k => child'[j] = child[j] /\ left'[j] = left[j]
  <2>1. /\ child \in [Conns -> {"none", "control", "read", "write"}]
        /\ left \in [Conns -> 0 .. MaxSize]
    BY <1>2 DEF TypeOK
  <2> QED
    BY <1>1, <2>1, MessageSize
<1>6. TypeOK'
  BY <1>1, <1>2, <1>4, <1>5 DEF TypeOK, Socket
<1>7. Talks
  BY <1>1, <1>2, <1>4, <1>5, Size DEF Talks, Forking
<1>8. Tally'
  BY <1>1 DEF IInv, Tally
<1>9. OneMessage'
  <2>1. \A j \in Conns : child'[j] = "write" => left'[j] <= msize
    BY <1>3, <1>5, Size DEF IInv, OneMessage
  <2> SUFFICES ASSUME prog = "lat_tcp", msize = 1, NEW q \in Clients, NEW j \in Conns,
                      fd[q] = j, conn'[j].srv \in {"queued", "open"}
               PROVE  /\ cl[q] \in {"size", "write"} =>
                         conn'[j].up = 0 /\ conn'[j].down = 0 /\ Answering(j)' = 0
                      /\ cl[q] = "read" => conn'[j].up + conn'[j].down + Answering(j)' <= 1
    BY <1>1, <2>1, Ends, Size DEF OneMessage, Answering
  <2>2. conn'[j].srv = conn[j].srv /\ conn[j].up \in Nat /\ conn[j].down \in Nat
        /\ conn[j] \in Socket
    BY <1>4, Ends, Size DEF Socket
  <2>3. /\ cl[q] \in {"size", "write"} =>
             conn[j].up = 0 /\ conn[j].down = 0 /\ Answering(j) = 0
        /\ cl[q] = "read" => conn[j].up + conn[j].down + Answering(j) <= 1
    BY <2>2, Size DEF IInv, OneMessage
  <2>4. CASE j = k
    <3>1. Answering(j) = 0 /\ Answering(j)' = 1
      BY <1>1, <1>5, <2>4 DEF Answering
    <3> QED
      BY <1>1, <1>3, <1>4, <2>2, <2>3, <2>4, <3>1, Size
  <2>5. CASE j # k
    <3>1. Answering(j)' = Answering(j) /\ conn'[j] = conn[j]
      BY <1>4, <1>5, <2>5 DEF Answering
    <3> QED
      BY <2>3, <3>1
  <2> QED
    BY <2>4, <2>5
<1> QED
  BY <1>2, <1>6, <1>7, <1>8, <1>9, TalksKeeps DEF IInv, Forking

LEMMA ChildWritesKeeps ==
  ASSUME IInv, NEW k \in Conns, ChildWrites(k)
  PROVE  IInv'
<1>1. /\ prog' = prog /\ msize' = msize /\ Team' = Team /\ backlog' = backlog
      /\ cl' = cl /\ fd' = fd /\ todo' = todo
      /\ counted' = counted /\ real' = real /\ asked' = asked /\ faults' = faults
      /\ wk' = wk /\ at' = at /\ tries' = tries /\ path' = path
      /\ zombies' = zombies /\ sigchld' = sigchld
      /\ child[k] = "write" /\ conn[k].down < Buffer
      /\ conn' = [conn EXCEPT ![k].down = @ + 1]
  BY DEF ChildWrites, program, server, sockets, tally, history, Team
<1>2. prog \in Forking /\ conn[k].srv = "open" /\ conn[k].cli # "free" /\ TypeOK
  BY <1>1, Ends DEF IInv, Labels, ServerEnds
<1>3. conn[k].down \in Nat /\ conn[k].down + 1 \in 0 .. Buffer
  BY <1>1, Ends, Size DEF Socket
<1>4. /\ conn' \in [Conns -> Socket]
      /\ conn'[k].cli = conn[k].cli /\ conn'[k].srv = conn[k].srv /\ conn'[k].ctl = conn[k].ctl
      /\ conn'[k].up = conn[k].up /\ conn'[k].down = conn[k].down + 1
      /\ \A j \in Conns : j # k => conn'[j] = conn[j]
  BY <1>1, <1>3, Ends DEF Socket
<1>5. left[k] <= msize /\ left[k] \in 0 .. MaxSize /\ msize \in 1 .. MaxSize
  BY <1>1, <1>2 DEF TypeOK, IInv, OneMessage
<1>6. /\ child' \in [Conns -> {"none", "control", "read", "write"}]
      /\ left' \in [Conns -> 0 .. MaxSize]
      /\ child'[k] \in {"read", "write"} /\ left'[k] <= msize
      /\ prog = "lat_tcp" /\ left[k] <= 1 => child'[k] = "read"
      /\ \A j \in Conns : j # k => child'[j] = child[j] /\ left'[j] = left[j]
  <2>1. /\ child \in [Conns -> {"none", "control", "read", "write"}]
        /\ left \in [Conns -> 0 .. MaxSize]
    BY <1>2 DEF TypeOK
  <2>2. CASE left[k] > 1
    <3>1. left' = [left EXCEPT ![k] = left[k] - 1] /\ child' = child
      BY <2>2 DEF ChildWrites
    <3>2. left[k] - 1 \in 0 .. MaxSize /\ left[k] - 1 <= msize
      BY <1>5, <2>2, Size
    <3>3. ~(left[k] <= 1)
      BY <1>5, <2>2, Size
    <3> QED
      BY <1>1, <2>1, <3>1, <3>2, <3>3
  <2>3. CASE ~(left[k] > 1)
    <3>1. EchoWritten(k) \/ SourceWritten(k)
      BY <2>3 DEF ChildWrites
    <3>2. 0 \in 0 .. MaxSize /\ msize \in 0 .. MaxSize /\ 0 <= msize /\ msize <= msize
      BY <1>5, Size
    <3> QED
      BY <1>1, <2>1, <3>1, <3>2 DEF EchoWritten, SourceWritten
  <2> QED
    BY <2>2, <2>3
<1>7. TypeOK'
  BY <1>1, <1>2, <1>4, <1>6 DEF TypeOK, Socket
<1>8. Talks
  BY <1>1, <1>2, <1>4, <1>6, Size DEF Talks, Forking
<1>9. Tally'
  BY <1>1 DEF IInv, Tally
<1>10. OneMessage'
  <2>1. \A j \in Conns : child'[j] = "write" => left'[j] <= msize
    BY <1>6, Size DEF IInv, OneMessage
  <2> SUFFICES ASSUME prog = "lat_tcp", msize = 1, NEW q \in Clients, NEW j \in Conns,
                      fd[q] = j, conn'[j].srv \in {"queued", "open"}
               PROVE  /\ cl[q] \in {"size", "write"} =>
                         conn'[j].up = 0 /\ conn'[j].down = 0 /\ Answering(j)' = 0
                      /\ cl[q] = "read" => conn'[j].up + conn'[j].down + Answering(j)' <= 1
    BY <1>1, <2>1, Ends, Size DEF OneMessage, Answering
  <2>2. conn'[j].srv = conn[j].srv /\ conn[j].up \in Nat /\ conn[j].down \in Nat
    BY <1>4, Ends, Size DEF Socket
  <2>3. /\ cl[q] \in {"size", "write"} =>
             conn[j].up = 0 /\ conn[j].down = 0 /\ Answering(j) = 0
        /\ cl[q] = "read" => conn[j].up + conn[j].down + Answering(j) <= 1
    BY <2>2, Size DEF IInv, OneMessage
  <2>4. CASE j = k
    <3>1. Answering(j) = 1 /\ Answering(j)' = 0
      BY <1>1, <1>5, <1>6, <2>4 DEF Answering
    <3> QED
      BY <1>4, <2>2, <2>3, <2>4, <3>1
  <2>5. CASE j # k
    <3>1. Answering(j)' = Answering(j) /\ conn'[j] = conn[j]
      BY <1>4, <1>6, <2>5 DEF Answering
    <3> QED
      BY <2>3, <3>1
  <2> QED
    BY <2>4, <2>5
<1> QED
  BY <1>2, <1>7, <1>8, <1>9, <1>10, TalksKeeps DEF IInv, Forking

(* A worker of lmhttp has what it has to send. *)
LEMMA HttpReadKeeps ==
  ASSUME IInv, NEW w \in 1 .. Workers, HttpRead(w)
  PROVE  IInv'
<1> DEFINE k == at[w]
<1>1. /\ prog = "lat_http" /\ wk[w] = "serve" /\ k \in Conns /\ k # 0
      /\ UNCHANGED <<program, path, kids, cl, sockets, tally, history>>
  BY Ends DEF HttpRead, IInv, ServerEnds
<1>2. CASE conn[k].ctl = "EXIT" /\ Leave(w, "gone", Hangup(w)) /\ UNCHANGED left
  <2>1. asked
    BY <1>1, <1>2 DEF IInv, Words
  <2> QED
    BY <1>1, <1>2, <2>1, HttpLeavesKeeps
<1>3. CASE conn' = Hangup(w) /\ Work(w, "accept", 0) /\ UNCHANGED <<backlog, left>>
  BY <1>1, <1>3, HttpLeavesKeeps
<1>4. CASE /\ conn[k].ctl = "GET" /\ conn' = [conn EXCEPT ![k].ctl = "none"]
           /\ left' = [left EXCEPT ![k] = msize] /\ Work(w, "send", k) /\ UNCHANGED backlog
  <2> HIDE DEF k
  <2>1. /\ prog' = prog /\ msize' = msize /\ Team' = Team /\ backlog' = backlog
        /\ cl' = cl /\ fd' = fd /\ todo' = todo /\ child' = child
        /\ counted' = counted /\ real' = real /\ asked' = asked /\ faults' = faults
        /\ tries' = tries /\ path' = path /\ zombies' = zombies /\ sigchld' = sigchld
        /\ wk' = [wk EXCEPT ![w] = "send"] /\ at' = [at EXCEPT ![w] = k]
    BY <1>1, <1>4 DEF Work, program, kids, sockets, tally, history, Team
  <2>2. TypeOK /\ conn[k].srv = "open" /\ conn[k].cli # "free"
        /\ \A v \in 1 .. Workers : v # w => at[v] # k
    BY <1>1, Ends DEF k, IInv, ServerEnds
  <2>3. /\ conn' \in [Conns -> Socket]
        /\ conn'[k].cli = conn[k].cli /\ conn'[k].srv = conn[k].srv /\ conn'[k].ctl = "none"
        /\ conn'[k].up = conn[k].up /\ conn'[k].down = conn[k].down
        /\ \A j \in Conns : j # k => conn'[j] = conn[j]
    BY <1>1, <1>4, Ends DEF Socket
  <2>4. left' \in [Conns -> 0 .. MaxSize] /\ left'[k] = msize
        /\ \A j \in Conns : j # k => left'[j] = left[j]
    BY <1>1, <1>4, <2>2, MessageSize DEF TypeOK
  <2>5. /\ wk' \in [1 .. Workers -> {"starting", "accept", "serve", "send", "unlink", "gone"}]
        /\ wk'[w] = "send" /\ \A v \in 1 .. Workers : v # w => wk'[v] = wk[v]
        /\ at' = at
    <3>1. /\ wk \in [1 .. Workers -> {"starting", "accept", "serve", "send", "unlink", "gone"}]
          /\ at \in [1 .. Workers -> 0 .. Slots]
      BY <2>2 DEF TypeOK
    <3> QED
      BY <2>1, <3>1 DEF k
  <2>6. TypeOK'
    BY <2>1, <2>2, <2>3, <2>4, <2>5 DEF TypeOK, Socket
  <2>7. Talks
    BY <1>1, <2>1, <2>2, <2>3, <2>5, Size DEF Talks
  <2>8. Tally'
    BY <2>1 DEF IInv, Tally
  <2>9. OneMessage'
    <3>1. child[k] = "none"
      BY <1>1 DEF IInv, Labels, Forking
    <3>2. \A j \in Conns : child'[j] = "write" => left'[j] <= msize
      BY <2>1, <2>4, <3>1 DEF IInv, OneMessage
    <3> QED
      BY <1>1, <2>1, <3>2 DEF OneMessage
  <2>10. FileIsSent'
    <3>1. ByItself' => \A j \in Conns : conn'[j].cli # "closed"
      BY <1>1, <2>1, <2>3 DEF ByItself, IInv, FileIsSent
    <3>2. ASSUME NEW q \in Clients, fd[q] # 0, cl[q] \in {"get", "read"}
          PROVE  /\ cl[q] = "get" =>
                      /\ conn'[fd[q]].ctl = "none" /\ conn'[fd[q]].down = 0
                      /\ \A v \in 1 .. Workers : at[v] = fd[q] => wk'[v] = "serve"
                 /\ cl[q] = "read" =>
                      /\ conn'[fd[q]].down <= todo[q]
                      /\ conn'[fd[q]].ctl = "GET" =>
                           /\ conn'[fd[q]].down = 0 /\ todo[q] = msize
                           /\ \A v \in 1 .. Workers : at[v] = fd[q] => wk'[v] = "serve"
                      /\ \A v \in 1 .. Workers : at[v] = fd[q] /\ wk'[v] = "send" =>
                           conn'[fd[q]].down + left'[fd[q]] <= todo[q]
      <4>1. fd[q] \in Conns
        BY <3>2, Ends, Size
      <4>2. /\ cl[q] = "get" =>
                 /\ conn[fd[q]].ctl = "none" /\ conn[fd[q]].down = 0
                 /\ \A v \in 1 .. Workers : at[v] = fd[q] => wk[v] = "serve"
            /\ cl[q] = "read" =>
                 /\ conn[fd[q]].down <= todo[q]
                 /\ conn[fd[q]].ctl = "GET" =>
                      /\ conn[fd[q]].down = 0 /\ todo[q] = msize
                      /\ \A v \in 1 .. Workers : at[v] = fd[q] => wk[v] = "serve"
                 /\ \A v \in 1 .. Workers : at[v] = fd[q] /\ wk[v] = "send" =>
                      conn[fd[q]].down + left[fd[q]] <= todo[q]
        BY <1>1, <3>2 DEF IInv, FileIsSent
      <4>3. CASE fd[q] # k
        BY <2>3, <2>4, <2>5, <4>1, <4>2, <4>3 DEF k
      <4>4. CASE fd[q] = k
        <5>1. cl[q] = "read" /\ conn[k].down = 0 /\ todo[q] = msize
          BY <1>4, <3>2, <4>2, <4>4
        <5>2. conn'[k].down = 0 /\ conn'[k].ctl = "none" /\ left'[k] = msize
          BY <2>3, <2>4, <5>1
        <5> QED
          BY <4>4, <5>1, <5>2, MessageSize
      <4> QED
        BY <4>3, <4>4
    <3> QED
      BY <2>1, <2>5, <3>1, <3>2 DEF FileIsSent
  <2> QED
    BY <2>6, <2>7, <2>8, <2>9, <2>10, TalksKeeps DEF IInv
<1> QED
  BY <1>1, <1>2, <1>3, <1>4 DEF HttpRead

LEMMA HttpSendKeeps ==
  ASSUME IInv, NEW w \in 1 .. Workers, HttpSend(w)
  PROVE  IInv'
<1> DEFINE k == at[w]
<1>1. /\ prog = "lat_http" /\ wk[w] = "send" /\ k \in Conns /\ k # 0
      /\ UNCHANGED <<program, path, backlog, kids, cl, sockets, tally, history>>
  BY Ends DEF HttpSend, IInv, ServerEnds, Labels
<1>2. CASE conn' = Hangup(w) /\ Work(w, "accept", 0) /\ UNCHANGED left
  BY <1>1, <1>2, HttpLeavesKeeps
<1>3. CASE /\ left[k] > 0 /\ conn[k].down < Buffer /\ conn' = [conn EXCEPT ![k].down = @ + 1]
           /\ left' = [left EXCEPT ![k] = @ - 1] /\ UNCHANGED <<wk, at>>
  <2> HIDE DEF k
  <2>1. /\ prog' = prog /\ msize' = msize /\ Team' = Team /\ backlog' = backlog
        /\ cl' = cl /\ fd' = fd /\ todo' = todo /\ child' = child
        /\ counted' = counted /\ real' = real /\ asked' = asked /\ faults' = faults
        /\ tries' = tries /\ path' = path /\ zombies' = zombies /\ sigchld' = sigchld
        /\ wk' = wk /\ at' = at
    BY <1>1, <1>3 DEF program, kids, sockets, tally, history, Team
  <2>2. /\ TypeOK /\ conn[k].srv = "open" /\ conn[k].cli # "free"
        /\ \A v \in 1 .. Workers : v # w => at[v] # k
    BY <1>1, Ends DEF k, IInv, ServerEnds
  <2>3. conn[k].down \in Nat /\ conn[k].down + 1 \in 0 .. Buffer
    BY <1>1, <1>3, Ends, Size DEF Socket
  <2>4. left[k] \in Nat /\ left[k] - 1 \in 0 .. MaxSize
    <3>1. left[k] \in 0 .. MaxSize
      BY <1>1, <2>2 DEF TypeOK
    <3> QED
      BY <1>3, <3>1, Size
  <2>5. /\ conn' \in [Conns -> Socket]
        /\ conn'[k].cli = conn[k].cli /\ conn'[k].srv = conn[k].srv /\ conn'[k].ctl = conn[k].ctl
        /\ conn'[k].up = conn[k].up /\ conn'[k].down = conn[k].down + 1
        /\ \A j \in Conns : j # k => conn'[j] = conn[j]
    BY <1>1, <1>3, <2>3, Ends DEF Socket
  <2>6. left' \in [Conns -> 0 .. MaxSize] /\ left'[k] = left[k] - 1
        /\ \A j \in Conns : j # k => left'[j] = left[j]
    BY <1>1, <1>3, <2>2, <2>4 DEF TypeOK
  <2>7. TypeOK'
    BY <2>1, <2>2, <2>5, <2>6 DEF TypeOK, Socket
  <2>8. Talks
    BY <1>1, <2>1, <2>2, <2>5, Size DEF Talks
  <2>9. Tally'
    BY <2>1 DEF IInv, Tally
  <2>10. OneMessage'
    <3>1. child[k] = "none"
      BY <1>1 DEF IInv, Labels, Forking
    <3>2. \A j \in Conns : child'[j] = "write" => left'[j] <= msize
      BY <2>1, <2>6, <3>1 DEF IInv, OneMessage
    <3> QED
      BY <1>1, <2>1, <3>2 DEF OneMessage
  <2>11. FileIsSent'
    <3>1. ByItself' => \A j \in Conns : conn'[j].cli # "closed"
      BY <1>1, <2>1, <2>5 DEF ByItself, IInv, FileIsSent
    <3>2. ASSUME NEW q \in Clients, fd[q] # 0, cl[q] \in {"get", "read"}
          PROVE  /\ cl[q] = "get" =>
                      /\ conn'[fd[q]].ctl = "none" /\ conn'[fd[q]].down = 0
                      /\ \A v \in 1 .. Workers : at[v] = fd[q] => wk[v] = "serve"
                 /\ cl[q] = "read" =>
                      /\ conn'[fd[q]].down <= todo[q]
                      /\ conn'[fd[q]].ctl = "GET" =>
                           /\ conn'[fd[q]].down = 0 /\ todo[q] = msize
                           /\ \A v \in 1 .. Workers : at[v] = fd[q] => wk[v] = "serve"
                      /\ \A v \in 1 .. Workers : at[v] = fd[q] /\ wk[v] = "send" =>
                           conn'[fd[q]].down + left'[fd[q]] <= todo[q]
      <4>1. fd[q] \in Conns
        BY <3>2, Ends, Size
      <4>2. /\ cl[q] = "get" =>
                 /\ conn[fd[q]].ctl = "none" /\ conn[fd[q]].down = 0
                 /\ \A v \in 1 .. Workers : at[v] = fd[q] => wk[v] = "serve"
            /\ cl[q] = "read" =>
                 /\ conn[fd[q]].down <= todo[q]
                 /\ conn[fd[q]].ctl = "GET" =>
                      /\ conn[fd[q]].down = 0 /\ todo[q] = msize
                      /\ \A v \in 1 .. Workers : at[v] = fd[q] => wk[v] = "serve"
                 /\ \A v \in 1 .. Workers : at[v] = fd[q] /\ wk[v] = "send" =>
                      conn[fd[q]].down + left[fd[q]] <= todo[q]
        BY <1>1, <3>2 DEF IInv, FileIsSent
      <4>3. CASE fd[q] # k
        BY <2>5, <2>6, <4>1, <4>2, <4>3
      <4>4. CASE fd[q] = k
        <5>1. cl[q] = "read" /\ conn[k].ctl # "GET" /\ conn[k].down + left[k] <= todo[q]
          BY <1>1, <3>2, <4>2, <4>4 DEF k
        <5>2. todo[q] \in Nat
          BY <2>2, Size DEF TypeOK
        <5>3. conn'[k].down + left'[k] <= todo[q] /\ conn'[k].down <= todo[q]
              /\ conn'[k].ctl # "GET"
          BY <1>3, <2>3, <2>4, <2>5, <2>6, <5>1, <5>2
        <5> QED
          BY <4>4, <5>1, <5>3
      <4> QED
        BY <4>3, <4>4
    <3> QED
      BY <2>1, <3>1, <3>2 DEF FileIsSent
  <2> QED
    BY <2>7, <2>8, <2>9, <2>10, <2>11, TalksKeeps DEF IInv
<1> QED
  BY <1>2, <1>3 DEF HttpSend

----------------------------------------------------------------------------
(* The steps of the clients. *)

LEMMA IsClient ==
  ASSUME IInv, NEW p \in Parties, cl[p] \notin {"connect", "ask", "gone"}
  PROVE  p \in Clients
  BY DEF IInv, Labels, Parties

(* A client says something. *)
LEMMA SayKeeps ==
  ASSUME IInv, NEW p \in Clients, NEW from \in {"size", "get"}, NEW word \in {"size", "GET"},
         NEW to \in {"write", "read"}, Say(p, from, word, to),
         from = "size" => word = "size" /\ to = IF prog = "lat_tcp" THEN "write" ELSE "read",
         from = "get" => word = "GET" /\ to = "read"
  PROVE  IInv'
<1>1. /\ prog' = prog /\ msize' = msize /\ Team' = Team /\ backlog' = backlog
      /\ fd' = fd /\ child' = child /\ left' = left
      /\ counted' = counted /\ real' = real /\ asked' = asked /\ faults' = faults
      /\ wk' = wk /\ at' = at /\ tries' = tries /\ path' = path
      /\ zombies' = zombies /\ sigchld' = sigchld
      /\ cl[p] = from /\ cl' = [cl EXCEPT ![p] = to] /\ todo' = [todo EXCEPT ![p] = msize]
      /\ conn' = IF fd[p] # 0 THEN [conn EXCEPT ![fd[p]].ctl = word] ELSE conn
  BY DEF Say, Goto, Connected, program, server, kids, sockets, history, Team
<1>2. /\ TypeOK /\ cl[p] \in Using /\ p \in Parties
      /\ from = "size" => prog \in Forking
      /\ from = "get" => prog = "lat_http"
      /\ fd[p] # 0 => fd[p] \in Conns /\ conn[fd[p]].cli = "open" /\ conn[fd[p]] \in Socket
  BY <1>1, Shared, Size DEF IInv, Labels, Using
<1>3. /\ conn' \in [Conns -> Socket]
      /\ \A j \in Conns :
           /\ conn'[j].cli = conn[j].cli /\ conn'[j].srv = conn[j].srv
           /\ conn'[j].up = conn[j].up /\ conn'[j].down = conn[j].down
           /\ j # fd[p] => conn'[j] = conn[j]
           /\ j = fd[p] => conn'[j].ctl = word
  <2>1. CASE fd[p] = 0
    BY <1>1, <2>1, Ends, Size
  <2>2. CASE fd[p] # 0
    BY <1>1, <1>2, <2>2, Ends DEF Socket
  <2> QED
    BY <2>1, <2>2
<1>4. /\ cl' \in [Parties -> {"connect", "ask", "size", "get", "write", "read", "close",
                              "cleanup", "done", "gone"}]
      /\ todo' \in [Parties -> 0 .. MaxSize]
      /\ cl'[p] = to /\ todo'[p] = msize
      /\ \A q \in Parties : q # p => cl'[q] = cl[q] /\ todo'[q] = todo[q]
  <2>1. /\ cl \in [Parties -> {"connect", "ask", "size", "get", "write", "read", "close",
                               "cleanup", "done", "gone"}]
        /\ todo \in [Parties -> 0 .. MaxSize]
    BY <1>2 DEF TypeOK
  <2> QED
    BY <1>1, <1>2, <2>1, MessageSize
<1>5. TypeOK'
  BY <1>1, <1>2, <1>3, <1>4 DEF TypeOK, Socket
<1>6. Talks
  <2>1. \A j \in Conns : conn'[j] # conn[j] => conn[j].cli # "free"
    BY <1>2, <1>3, Size
  <2>2. \A q \in Parties : cl'[q] # cl[q] =>
          /\ q \in Clients /\ cl[q] \in Using \ {"ask"} /\ cl'[q] \in Goon
          /\ cl'[q] = "cleanup" => prog \in Forking
          /\ cl'[q] = "write" => prog = "lat_tcp"
          /\ cl'[q] = "read" => prog \notin Serial
    BY <1>1, <1>2, <1>4 DEF Using, Goon, Forking, Serial
  <2>3. \A j \in Conns :
          /\ \/ conn'[j].ctl \in {conn[j].ctl, "none"}
             \/ conn'[j].ctl = "size" /\ prog \in Forking
             \/ conn'[j].ctl = "GET" /\ prog = "lat_http"
          /\ conn'[j].ctl = conn[j].ctl \/ conn'[j].ctl = "size" \/ prog # "lat_tcp"
    BY <1>2, <1>3
  <2>4. prog = "lat_tcp" =>
          \A q \in Clients : cl'[q] \in Goon /\ fd[q] # 0 =>
            cl[q] \in Goon \/ conn'[fd[q]].ctl = "size"
    BY <1>2, <1>3, <1>4, Size DEF Forking
  <2> QED
    BY <1>1, <1>3, <2>1, <2>2, <2>3, <2>4 DEF Talks
<1>7. Tally'
  BY <1>1, <1>4, Size DEF IInv, Tally
<1>8. OneMessage'
  <2>1. \A j \in Conns : child'[j] = "write" => left'[j] <= msize
    BY <1>1 DEF IInv, OneMessage
  <2>2. \A q \in Clients : cl'[q] \in {"size", "write"} /\ prog = "lat_tcp" =>
           cl[q] \in {"size", "write"}
    BY <1>1, <1>2, <1>4, Size DEF Forking
  <2>3. \A q \in Clients : cl'[q] = "read" /\ prog = "lat_tcp" => cl[q] = "read"
    BY <1>1, <1>2, <1>4, Size
  <2>4. \A q \in Clients : fd[q] # 0 => fd[q] \in Conns
    BY Ends, Size
  <2> QED
    BY <1>1, <1>3, <2>1, <2>2, <2>3, <2>4 DEF IInv, OneMessage, Answering
<1>9. FileIsSent'
  <2> SUFFICES ASSUME prog = "lat_http" PROVE FileIsSent'
    BY <1>1 DEF FileIsSent
  <2>1. from = "get" /\ to = "read" /\ cl[p] = "get"
    BY <1>1, <1>2 DEF Forking
  <2>2. ByItself' => \A j \in Conns : conn'[j].cli # "closed"
    BY <1>1, <1>3 DEF ByItself, IInv, FileIsSent
  <2>3. ASSUME fd[p] # 0
        PROVE  /\ conn'[fd[p]].down = 0 /\ todo'[p] = msize
               /\ \A v \in 1 .. Workers : at[v] = fd[p] => wk[v] = "serve"
    BY <1>2, <1>3, <1>4, <2>1, <2>3 DEF IInv, FileIsSent
  <2>4. ASSUME NEW q \in Clients, q # p, fd[q] # 0, cl[q] \in {"get", "read"}
        PROVE  conn'[fd[q]] = conn[fd[q]]
    <3>1. fd[q] # fd[p] /\ fd[q] \in Conns
      BY <1>2, <2>4, Ends, Size DEF IInv, ClientEnds, Using
    <3> QED
      BY <1>3, <3>1
  <2>5. \A q \in Clients : q # p => cl'[q] = cl[q] /\ todo'[q] = todo[q]
    BY <1>4, Size
  <2>6. ASSUME NEW q \in Clients, fd[q] # 0, cl'[q] \in {"get", "read"}
        PROVE  /\ cl'[q] = "get" =>
                    /\ conn'[fd[q]].ctl = "none" /\ conn'[fd[q]].down = 0
                    /\ \A v \in 1 .. Workers : at[v] = fd[q] => wk[v] = "serve"
               /\ cl'[q] = "read" =>
                    /\ conn'[fd[q]].down <= todo'[q]
                    /\ conn'[fd[q]].ctl = "GET" =>
                         /\ conn'[fd[q]].down = 0 /\ todo'[q] = msize
                         /\ \A v \in 1 .. Workers : at[v] = fd[q] => wk[v] = "serve"
                    /\ \A v \in 1 .. Workers : at[v] = fd[q] /\ wk[v] = "send" =>
                         conn'[fd[q]].down + left[fd[q]] <= todo'[q]
    <3>1. CASE q = p
      BY <1>4, <2>1, <2>3, <2>6, <3>1, MessageSize
    <3>2. CASE q # p
      <4>1. conn'[fd[q]] = conn[fd[q]] /\ cl'[q] = cl[q] /\ todo'[q] = todo[q]
        BY <2>4, <2>5, <2>6, <3>2
      <4> QED
        BY <2>6, <4>1 DEF IInv, FileIsSent
    <3> QED
      BY <3>1, <3>2
  <2> QED
    BY <1>1, <2>2, <2>6 DEF FileIsSent
<1> QED
  BY <1>5, <1>6, <1>7, <1>8, <1>9, TalksKeeps DEF IInv

LEMMA SaysKeeps ==
  ASSUME IInv, NEW p \in Parties, TcpSendSize(p) \/ BwSendSize(p) \/ HttpSendGet(p)
  PROVE  IInv'
<1>1. CASE TcpSendSize(p)
  <2>1. prog = "lat_tcp" /\ Say(p, "size", "size", "write") /\ p \in Clients
    BY <1>1, IsClient DEF TcpSendSize, Say
  <2> QED
    BY <2>1, SayKeeps
<1>2. CASE BwSendSize(p)
  <2>1. prog = "bw_tcp" /\ Say(p, "size", "size", "read") /\ p \in Clients
    BY <1>2, IsClient DEF BwSendSize, Say
  <2> QED
    BY <2>1, SayKeeps
<1>3. CASE HttpSendGet(p)
  <2>1. Say(p, "get", "GET", "read") /\ p \in Clients
    BY <1>3, IsClient DEF HttpSendGet, Say
  <2> QED
    BY <2>1, SayKeeps
<1> QED
  BY <1>1, <1>2, <1>3

(* An iteration is counted. *)
LEMMA CountFacts ==
  ASSUME IInv, NEW p \in Clients, cl[p] \in {"read", "close"}, NEW r \in {0, 1},
         NEW again \in {"connect", "write", "read"}, NEW done \in {"cleanup", "done"},
         Count(p, r, again, done), prog \in {"bw_tcp", "lat_unix_connect"} => r = 1
  PROVE  /\ Tally' /\ counted' \in [Parties -> 0 .. Rounds] /\ real' \in [Parties -> 0 .. Rounds]
         /\ cl' \in [Parties -> {"connect", "ask", "size", "get", "write", "read", "close",
                                 "cleanup", "done", "gone"}]
         /\ cl'[p] \in {again, done} /\ \A q \in Parties : q # p => cl'[q] = cl[q]
<1>1. /\ p \in Parties /\ TypeOK /\ Tally /\ prog' = prog
      /\ counted' = [counted EXCEPT ![p] = @ + 1] /\ real' = [real EXCEPT ![p] = @ + r]
      /\ cl' = [cl EXCEPT ![p] = IF counted[p] + 1 < Rounds THEN again ELSE done]
  BY Size DEF IInv, Count, Goto, program
<1>2. /\ counted \in [Parties -> 0 .. Rounds] /\ real \in [Parties -> 0 .. Rounds]
      /\ cl \in [Parties -> {"connect", "ask", "size", "get", "write", "read", "close",
                             "cleanup", "done", "gone"}]
  BY <1>1 DEF TypeOK
<1>3. /\ counted[p] \in Nat /\ real[p] \in Nat /\ counted[p] < Rounds /\ real[p] <= counted[p]
  <2>1. counted[p] \in 0 .. Rounds /\ real[p] \in 0 .. Rounds
    BY <1>1, <1>2
  <2> QED
    BY <1>1, <2>1, Size DEF Tally
<1>4. counted[p] + 1 \in 0 .. Rounds /\ real[p] + r \in 0 .. Rounds /\ real[p] + r <= counted[p] + 1
  BY <1>3, Size
<1>5. /\ counted' \in [Parties -> 0 .. Rounds] /\ real' \in [Parties -> 0 .. Rounds]
      /\ counted'[p] = counted[p] + 1 /\ real'[p] = real[p] + r
      /\ \A q \in Parties : q # p => counted'[q] = counted[q] /\ real'[q] = real[q]
  BY <1>1, <1>2, <1>4
<1>6. /\ cl' \in [Parties -> {"connect", "ask", "size", "get", "write", "read", "close",
                              "cleanup", "done", "gone"}]
      /\ cl'[p] = IF counted[p] + 1 < Rounds THEN again ELSE done
      /\ \A q \in Parties : q # p => cl'[q] = cl[q]
  BY <1>1, <1>2
<1>7. ASSUME NEW q \in Clients
      PROVE  /\ real'[q] <= counted'[q]
             /\ cl'[q] \in {"connect", "size", "get", "write", "read", "close"} =>
                  counted'[q] < Rounds
             /\ cl'[q] \in {"cleanup", "done"} => counted'[q] = Rounds
             /\ prog \in {"bw_tcp", "lat_unix_connect"} => real'[q] = counted'[q]
  <2>1. CASE q # p
    BY <1>1, <1>5, <1>6, <2>1, Size DEF Tally
  <2>2. CASE q = p
    <3>1. cl'[p] \in {"connect", "size", "get", "write", "read", "close"} => counted[p] + 1 < Rounds
      BY <1>6
    <3>2. cl'[p] \in {"cleanup", "done"} => counted[p] + 1 = Rounds
      BY <1>3, <1>6, Size
    <3>3. prog \in {"bw_tcp", "lat_unix_connect"} => real[p] = counted[p] /\ r = 1
      BY <1>1 DEF Tally
    <3> QED
      BY <1>3, <1>4, <1>5, <2>2, <3>1, <3>2, <3>3
  <2> QED
    BY <2>1, <2>2
<1> QED
  BY <1>1, <1>5, <1>6, <1>7 DEF Tally

(* A client of lat_tcp or bw_tcp writes, reads or fails to, and goes on.   *)
LEMMA StreamKeeps ==
  ASSUME IInv, NEW p \in Clients, prog \in Forking, cl[p] \in {"write", "read"},
         prog' = prog, msize' = msize, backlog' = backlog, child' = child, left' = left,
         fd' = fd, asked' = asked, faults' = faults, wk' = wk, at' = at, tries' = tries,
         path' = path,
         zombies' = zombies, sigchld' = sigchld,
         conn' \in [Conns -> Socket],
         \A j \in Conns :
           /\ j # fd[p] => conn'[j] = conn[j]
           /\ conn'[j].cli = conn[j].cli /\ conn'[j].ctl = conn[j].ctl
           /\ conn'[j].srv = conn[j].srv
                \/ (conn[j].srv \in {"reset", "dead"} /\ conn'[j].srv = "dead"),
         cl' \in [Parties -> {"connect", "ask", "size", "get", "write", "read", "close",
                              "cleanup", "done", "gone"}],
         cl'[p] \in Goon, cl'[p] = "write" => prog = "lat_tcp",
         \A q \in Parties : q # p => cl'[q] = cl[q],
         todo' \in [Parties -> 0 .. MaxSize],
         counted' \in [Parties -> 0 .. Rounds], real' \in [Parties -> 0 .. Rounds], Tally',
         (prog = "lat_tcp" /\ msize = 1) =>
           (fd[p] # 0 /\ conn'[fd[p]].srv \in {"queued", "open"} =>
              /\ cl'[p] = "write" =>
                   conn'[fd[p]].up = 0 /\ conn'[fd[p]].down = 0 /\ Answering(fd[p]) = 0
              /\ cl'[p] = "read" =>
                   conn'[fd[p]].up + conn'[fd[p]].down + Answering(fd[p]) <= 1)
  PROVE  IInv'
<1>1. Team' = Team /\ TypeOK /\ p \in Parties /\ prog # "lat_http" /\ prog \notin Serial
  BY Size DEF Team, IInv, Forking, Serial
<1>2. TypeOK'
  BY <1>1 DEF TypeOK, Socket
<1>3. fd[p] # 0 => fd[p] \in Conns /\ conn[fd[p]].cli = "open"
  BY Shared DEF Using
<1>4. Talks
  <2>1. \A j \in Conns : conn'[j] # conn[j] => conn[j].cli # "free"
    BY <1>3, Size
  <2>2. \A q \in Parties : cl'[q] # cl[q] =>
          /\ q \in Clients /\ cl[q] \in Using \ {"ask"} /\ cl'[q] \in Goon
          /\ cl'[q] = "cleanup" => prog \in Forking
          /\ cl'[q] = "write" => prog = "lat_tcp"
          /\ cl'[q] = "read" => prog \notin Serial
    BY <1>1 DEF Using
  <2>3. \A q \in Clients : cl'[q] \in Goon => cl[q] \in Goon
    BY Size DEF Goon
  <2> QED
    BY <1>1, <2>1, <2>2, <2>3 DEF Talks
<1>5. OneMessage'
  <2>1. \A j \in Conns : child'[j] = "write" => left'[j] <= msize
    BY DEF IInv, OneMessage
  <2> SUFFICES ASSUME prog = "lat_tcp", msize = 1, NEW q \in Clients, fd[q] # 0,
                      conn'[fd[q]].srv \in {"queued", "open"}, cl'[q] \in {"size", "write", "read"}
               PROVE  /\ cl'[q] \in {"size", "write"} =>
                         conn'[fd[q]].up = 0 /\ conn'[fd[q]].down = 0 /\ Answering(fd[q]) = 0
                      /\ cl'[q] = "read" =>
                         conn'[fd[q]].up + conn'[fd[q]].down + Answering(fd[q]) <= 1
    BY <2>1 DEF OneMessage, Answering
  <2>2. CASE q = p
    BY <2>2 DEF Goon
  <2>3. CASE q # p
    <3>1. cl'[q] = cl[q]
      BY <2>3, Size
    <3>2. fd[q] # fd[p] /\ fd[q] \in Conns
      BY <1>1, <2>3, <3>1, Ends, Size DEF IInv, ClientEnds, Using
    <3>3. conn'[fd[q]] = conn[fd[q]]
      BY <3>2
    <3> QED
      BY <3>1, <3>3 DEF IInv, OneMessage
  <2> QED
    BY <2>2, <2>3
<1> QED
  BY <1>1, <1>2, <1>4, <1>5, TalksKeeps DEF IInv

(* The variables a step of a client of lat_tcp or bw_tcp leaves alone. *)
Aside ==
  /\ prog' = prog /\ msize' = msize /\ backlog' = backlog /\ child' = child /\ left' = left
  /\ fd' = fd /\ asked' = asked /\ faults' = faults /\ wk' = wk /\ at' = at /\ tries' = tries
  /\ path' = path /\ zombies' = zombies /\ sigchld' = sigchld

LEMMA WriteMessageKeeps ==
  ASSUME IInv, NEW p \in Parties, WriteMessage(p)
  PROVE  IInv'
<1>1. /\ Aside /\ todo' = todo /\ counted' = counted /\ real' = real
      /\ cl[p] = "write" /\ fd[p] # 0 /\ conn[fd[p]].srv \in {"queued", "open"}
      /\ conn[fd[p]].up + msize <= Buffer /\ cl' = [cl EXCEPT ![p] = "read"]
      /\ conn' = [conn EXCEPT ![fd[p]].up = @ + msize]
  BY DEF WriteMessage, Goto, Connected, Sock, Aside, program, server, kids, sockets, tally,
         history
<1>2. p \in Clients /\ prog = "lat_tcp" /\ prog \in Forking /\ TypeOK
  BY <1>1, IsClient DEF IInv, Labels, Forking
<1>3. fd[p] \in Conns /\ conn[fd[p]] \in Socket
  BY <1>1, <1>2, Shared DEF Using
<1>4. conn[fd[p]].up \in Nat /\ conn[fd[p]].up + msize \in 0 .. Buffer
  BY <1>1, <1>3, MessageSize, Size DEF Socket
<1>5. /\ conn' \in [Conns -> Socket] /\ conn'[fd[p]].up = conn[fd[p]].up + msize
      /\ conn'[fd[p]].down = conn[fd[p]].down
      /\ \A j \in Conns :
           /\ j # fd[p] => conn'[j] = conn[j]
           /\ conn'[j].cli = conn[j].cli /\ conn'[j].ctl = conn[j].ctl
           /\ conn'[j].srv = conn[j].srv
  BY <1>1, <1>3, <1>4, Ends DEF Socket
<1>6. /\ cl' \in [Parties -> {"connect", "ask", "size", "get", "write", "read", "close",
                              "cleanup", "done", "gone"}]
      /\ cl'[p] = "read" /\ \A q \in Parties : q # p => cl'[q] = cl[q]
  BY <1>1, <1>2 DEF TypeOK
<1>7. todo' \in [Parties -> 0 .. MaxSize] /\ counted' \in [Parties -> 0 .. Rounds]
      /\ real' \in [Parties -> 0 .. Rounds]
  BY <1>1, <1>2 DEF TypeOK
<1>8. Tally'
  BY <1>1, <1>6, Size DEF IInv, Tally, Aside
<1>9. msize = 1 => conn'[fd[p]].up + conn'[fd[p]].down + Answering(fd[p]) <= 1
  <2>1. msize = 1 => conn[fd[p]].up = 0 /\ conn[fd[p]].down = 0 /\ Answering(fd[p]) = 0
    BY <1>1, <1>2 DEF IInv, OneMessage
  <2> QED
    BY <1>5, <2>1
<1>10. cl[p] \in {"write", "read"} /\ cl'[p] \in Goon /\ cl'[p] # "write"
  BY <1>1, <1>6 DEF Goon
<1> QED
  BY <1>1, <1>2, <1>5, <1>6, <1>7, <1>8, <1>9, <1>10, StreamKeeps DEF Aside

(* A read takes what is there, at most a message. *)
LEMMA WhatIsRead ==
  ASSUME IInv, NEW p \in Clients, cl[p] = "read", fd[p] # 0, conn[fd[p]].down > 0
  PROVE  LET c == Min({conn[fd[p]].down, msize})
         IN  /\ c \in Nat /\ c >= 1 /\ c <= msize /\ c <= conn[fd[p]].down
             /\ conn[fd[p]].down - c \in 0 .. Buffer /\ conn[fd[p]].down \in Nat
<1>1. conn[fd[p]].down \in 0 .. Buffer
  BY Shared DEF Using, Socket
<1>2. conn[fd[p]].down \in Nat /\ msize \in Nat /\ msize >= 1
  BY <1>1, MessageSize, Size
<1>3. Min({conn[fd[p]].down, msize}) = IF conn[fd[p]].down <= msize THEN conn[fd[p]].down ELSE msize
  BY <1>2, MinOfTwo
<1> QED
  BY <1>1, <1>2, <1>3, Size

LEMMA ReadAnswerKeeps ==
  ASSUME IInv, NEW p \in Parties, ReadAnswer(p)
  PROVE  IInv'
<1> DEFINE c == Min({conn[fd[p]].down, msize})
<1>1. /\ Aside /\ todo' = todo /\ Count(p, 1, "write", "cleanup")
      /\ cl[p] = "read" /\ prog = "lat_tcp" /\ fd[p] # 0 /\ conn[fd[p]].down > 0
      /\ conn' = [conn EXCEPT ![fd[p]].down = @ - c]
  BY DEF ReadAnswer, Count, Connected, Sock, Aside, program, server, kids, sockets, history
<1>2. p \in Clients /\ prog \in Forking /\ TypeOK
  BY <1>1, IsClient DEF IInv, Forking
<1>3. fd[p] \in Conns /\ conn[fd[p]] \in Socket
  BY <1>1, <1>2, Shared DEF Using
<1>4. c \in Nat /\ c >= 1 /\ conn[fd[p]].down - c \in 0 .. Buffer /\ c <= conn[fd[p]].down
  BY <1>1, <1>2, WhatIsRead
<1> HIDE DEF c
<1>5. /\ conn' \in [Conns -> Socket] /\ conn'[fd[p]].down = conn[fd[p]].down - c
      /\ conn'[fd[p]].up = conn[fd[p]].up
      /\ \A j \in Conns :
           /\ j # fd[p] => conn'[j] = conn[j]
           /\ conn'[j].cli = conn[j].cli /\ conn'[j].ctl = conn[j].ctl
           /\ conn'[j].srv = conn[j].srv
  BY <1>1, <1>3, <1>4, Ends DEF Socket
<1>6. /\ Tally' /\ counted' \in [Parties -> 0 .. Rounds] /\ real' \in [Parties -> 0 .. Rounds]
      /\ cl' \in [Parties -> {"connect", "ask", "size", "get", "write", "read", "close",
                              "cleanup", "done", "gone"}]
      /\ cl'[p] \in {"write", "cleanup"} /\ \A q \in Parties : q # p => cl'[q] = cl[q]
  BY <1>1, <1>2, CountFacts
<1>7. todo' \in [Parties -> 0 .. MaxSize]
  BY <1>1, <1>2 DEF TypeOK
<1>8. msize = 1 /\ conn[fd[p]].srv \in {"queued", "open"} =>
        conn'[fd[p]].up = 0 /\ conn'[fd[p]].down = 0 /\ Answering(fd[p]) = 0
  <2>1. msize = 1 /\ conn[fd[p]].srv \in {"queued", "open"} =>
          conn[fd[p]].up + conn[fd[p]].down + Answering(fd[p]) <= 1
    BY <1>1, <1>2 DEF IInv, OneMessage
  <2>2. conn[fd[p]].up \in Nat /\ conn[fd[p]].down \in Nat /\ Answering(fd[p]) \in {0, 1}
    BY <1>3, Size DEF Socket, Answering
  <2> QED
    BY <1>1, <1>4, <1>5, <2>1, <2>2
<1>9. cl[p] \in {"write", "read"} /\ cl'[p] \in Goon /\ cl'[p] # "read"
  BY <1>1, <1>6 DEF Goon
<1> QED
  BY <1>1, <1>2, <1>3, <1>5, <1>6, <1>7, <1>8, <1>9, StreamKeeps DEF Aside

LEMMA ReadFailsKeeps ==
  ASSUME IInv, NEW p \in Parties, ReadFails(p)
  PROVE  IInv'
<1>1. /\ Aside /\ todo' = todo /\ Count(p, 0, "write", "cleanup")
      /\ cl[p] = "read" /\ prog = "lat_tcp" /\ (fd[p] # 0 => conn[fd[p]].srv \in {"reset", "dead"})
      /\ conn' = IF fd[p] # 0 THEN [conn EXCEPT ![fd[p]].srv = "dead"] ELSE conn
  BY DEF ReadFails, Count, Connected, Sock, Aside, program, server, kids, sockets, history
<1>2. p \in Clients /\ prog \in Forking /\ TypeOK
  BY <1>1, IsClient DEF IInv, Forking
<1>3. fd[p] # 0 => fd[p] \in Conns /\ conn[fd[p]] \in Socket
  BY <1>1, <1>2, Shared DEF Using
<1>4. /\ conn' \in [Conns -> Socket]
      /\ fd[p] # 0 => conn'[fd[p]].srv = "dead"
      /\ \A j \in Conns :
           /\ j # fd[p] => conn'[j] = conn[j]
           /\ conn'[j].cli = conn[j].cli /\ conn'[j].ctl = conn[j].ctl
           /\ conn'[j].srv = conn[j].srv
                \/ (conn[j].srv \in {"reset", "dead"} /\ conn'[j].srv = "dead")
  <2>1. CASE fd[p] = 0
    BY <1>1, <2>1, Ends, Size
  <2>2. CASE fd[p] # 0
    BY <1>1, <1>3, <2>2, Ends DEF Socket
  <2> QED
    BY <2>1, <2>2
<1>5. /\ Tally' /\ counted' \in [Parties -> 0 .. Rounds] /\ real' \in [Parties -> 0 .. Rounds]
      /\ cl' \in [Parties -> {"connect", "ask", "size", "get", "write", "read", "close",
                              "cleanup", "done", "gone"}]
      /\ cl'[p] \in {"write", "cleanup"} /\ \A q \in Parties : q # p => cl'[q] = cl[q]
  BY <1>1, <1>2, CountFacts
<1>6. todo' \in [Parties -> 0 .. MaxSize]
  BY <1>1, <1>2 DEF TypeOK
<1>7. cl[p] \in {"write", "read"} /\ cl'[p] \in Goon
  BY <1>1, <1>5 DEF Goon
<1> QED
  BY <1>1, <1>2, <1>4, <1>5, <1>6, <1>7, StreamKeeps DEF Aside

(* A client of bw_tcp reads on until it has had all. *)
LEMMA LoopTransferKeeps ==
  ASSUME IInv, NEW p \in Parties, LoopTransfer(p)
  PROVE  IInv'
<1> DEFINE c == Min({conn[fd[p]].down, msize})
<1>1. /\ Aside /\ cl[p] = "read" /\ prog = "bw_tcp" /\ conn[fd[p]].down > 0
      /\ conn' = [conn EXCEPT ![fd[p]].down = @ - c]
      /\ \/ /\ c < todo[p] /\ todo' = [todo EXCEPT ![p] = @ - c]
            /\ cl' = cl /\ counted' = counted /\ real' = real
         \/ todo' = [todo EXCEPT ![p] = msize] /\ Count(p, 1, "read", "cleanup")
  BY DEF LoopTransfer, Count, Sock, Aside, program, server, kids, sockets, history
<1>2. p \in Clients /\ prog \in Forking /\ TypeOK /\ p \in Parties
  BY <1>1, IsClient DEF IInv, Forking
<1>3. fd[p] # 0 /\ fd[p] \in Conns /\ conn[fd[p]] \in Socket
  <2>1. fd[p] # 0
    BY <1>1, <1>2 DEF IInv, ClientEnds, Using
  <2> QED
    BY <1>1, <1>2, <2>1, Shared DEF Using
<1>4. c \in Nat /\ c >= 1 /\ conn[fd[p]].down - c \in 0 .. Buffer
  BY <1>1, <1>2, <1>3, WhatIsRead
<1> HIDE DEF c
<1>5. /\ conn' \in [Conns -> Socket]
      /\ \A j \in Conns :
           /\ j # fd[p] => conn'[j] = conn[j]
           /\ conn'[j].cli = conn[j].cli /\ conn'[j].ctl = conn[j].ctl
           /\ conn'[j].srv = conn[j].srv
  BY <1>1, <1>3, <1>4, Ends DEF Socket
<1>6. /\ Tally' /\ counted' \in [Parties -> 0 .. Rounds] /\ real' \in [Parties -> 0 .. Rounds]
      /\ cl' \in [Parties -> {"connect", "ask", "size", "get", "write", "read", "close",
                              "cleanup", "done", "gone"}]
      /\ cl'[p] \in {"read", "cleanup"} /\ \A q \in Parties : q # p => cl'[q] = cl[q]
  <2>1. CASE cl' = cl /\ counted' = counted /\ real' = real
    BY <1>1, <1>2, <2>1 DEF IInv, Tally, TypeOK, Aside
  <2>2. CASE Count(p, 1, "read", "cleanup")
    BY <1>1, <1>2, <2>2, CountFacts
  <2> QED
    BY <1>1, <2>1, <2>2
<1>7. todo' \in [Parties -> 0 .. MaxSize]
  <2>1. todo \in [Parties -> 0 .. MaxSize] /\ todo[p] \in 0 .. MaxSize
    BY <1>2 DEF TypeOK
  <2>2. c < todo[p] => todo[p] - c \in 0 .. MaxSize
    BY <1>4, <2>1, Size
  <2> QED
    BY <1>1, <1>2, <2>1, <2>2, MessageSize
<1>8. cl[p] \in {"write", "read"} /\ cl'[p] \in Goon /\ cl'[p] # "write"
  BY <1>1, <1>6 DEF Goon
<1> QED
  BY <1>1, <1>2, <1>5, <1>6, <1>7, <1>8, StreamKeeps DEF Aside

(* A client closes its connection, if it has one. *)
LEMMA CloseKeeps ==
  ASSUME IInv, NEW p \in Clients, cl[p] \in Using,
         prog' = prog, msize' = msize, backlog' = backlog, child' = child, left' = left,
         fd' = fd, asked' = asked, faults' \subseteq {"fork", "client", "server"},
         faults \subseteq faults',
         wk' = wk, at' = at, tries' = tries, path' = path,
         zombies' = zombies, sigchld' = sigchld, todo' = todo,
         conn' = IF fd[p] # 0 THEN [conn EXCEPT ![fd[p]] = CliClosed(@)] ELSE conn,
         fd[p] # 0 /\ ByItself' =>
           /\ prog = "lat_tcp" => Told(fd[p])
           /\ prog = "lat_http" => conn[fd[p]].srv \in {"closed", "reset", "dead"},
         cl' \in [Parties -> {"connect", "ask", "size", "get", "write", "read", "close",
                              "cleanup", "done", "gone"}],
         cl'[p] \in {"connect", "done", "gone"}, \A q \in Parties : q # p => cl'[q] = cl[q],
         counted' \in [Parties -> 0 .. Rounds], real' \in [Parties -> 0 .. Rounds], Tally'
  PROVE  IInv'
<1>1. Team' = Team /\ TypeOK /\ p \in Parties /\ p # "-S"
  BY Size DEF Team, IInv
<1>2. fd[p] # 0 => fd[p] \in Conns /\ conn[fd[p]] \in Socket
  BY Shared
<1>3. /\ conn' \in [Conns -> Socket]
      /\ \A j \in Conns : j # fd[p] => conn'[j] = conn[j]
      /\ fd[p] # 0 =>
           /\ ClientSide(conn[fd[p]], conn'[fd[p]])
           /\ conn'[fd[p]] = Free \/ conn'[fd[p]].ctl = conn[fd[p]].ctl
           /\ conn[fd[p]].srv \in {"closed", "reset", "dead"} => conn'[fd[p]] = Free
  <2>1. CASE fd[p] = 0
    BY <2>1, Ends, Size
  <2>2. CASE fd[p] # 0
    <3> DEFINE d == CliClosed(conn[fd[p]])
    <3>1. /\ d \in Socket /\ ClientSide(conn[fd[p]], d)
          /\ d = Free \/ d.ctl = conn[fd[p]].ctl
          /\ conn[fd[p]].srv \in {"closed", "reset", "dead"} => d = Free
      BY <1>2, <2>2, CliClosedFacts DEF ClientSide
    <3>2. conn' = [conn EXCEPT ![fd[p]] = d]
      BY <2>2
    <3> HIDE DEF d
    <3> QED
      BY <1>2, <2>2, <3>1, <3>2, Ends
  <2> QED
    BY <2>1, <2>2
<1>4. ClientLets(p)
  <2>1. cl'[p] \notin Using
    BY DEF Using
  <2>2. ASSUME NEW j \in Conns
        PROVE  \/ conn'[j] = conn[j]
               \/ /\ cl[p] \in Using /\ j = fd[p] /\ ClientSide(conn[j], conn'[j])
                  /\ conn'[j] = Free \/ conn'[j].ctl = conn[j].ctl
                       \/ (asked /\ conn'[j].ctl \in {"none", "0", "EXIT"})
                  /\ prog = "lat_tcp" /\ ByItself' => Told(j)
                  /\ prog = "lat_http" /\ ByItself' => conn'[j] = Free
    <3>1. CASE j # fd[p]
      BY <1>3, <3>1
    <3>2. CASE j = fd[p]
      BY <1>3, <3>2, Size
    <3> QED
      BY <3>1, <3>2
  <2> QED
    BY <1>1, <2>1, <2>2 DEF ClientLets
<1>5. TypeOK'
  BY <1>1, <1>3 DEF TypeOK, Socket
<1>6. Labels'
  BY <1>1, Size DEF IInv, Labels
<1>7. ServerOutlivesClients' /\ HandlerNeverBlocks'
  BY <1>1 DEF IInv, ServerOutlivesClients, HandlerNeverBlocks
<1> QED
  BY <1>1, <1>4, <1>5, <1>6, <1>7, ClientLetsKeeps DEF IInv

(* A client whose label changes and no more. *)
LEMMA MovedTally ==
  ASSUME IInv, NEW p \in Clients, prog' = prog, counted' = counted, real' = real,
         NEW to \in {"gone", "done"}, to = "done" => cl[p] = "cleanup", cl' = [cl EXCEPT ![p] = to]
  PROVE  /\ cl' \in [Parties -> {"connect", "ask", "size", "get", "write", "read", "close",
                                 "cleanup", "done", "gone"}]
         /\ cl'[p] = to /\ \A q \in Parties : q # p => cl'[q] = cl[q]
         /\ counted' \in [Parties -> 0 .. Rounds] /\ real' \in [Parties -> 0 .. Rounds] /\ Tally'
<1>1. TypeOK /\ Tally /\ p \in Parties /\ Clients \subseteq Parties
  BY Size DEF IInv
<1>2. /\ cl' \in [Parties -> {"connect", "ask", "size", "get", "write", "read", "close",
                              "cleanup", "done", "gone"}]
      /\ cl'[p] = to /\ \A q \in Parties : q # p => cl'[q] = cl[q]
      /\ counted' \in [Parties -> 0 .. Rounds] /\ real' \in [Parties -> 0 .. Rounds]
  BY <1>1 DEF TypeOK
<1> QED
  BY <1>1, <1>2 DEF Tally

(* Told is what a client of lat_tcp that leaves of itself has. *)
LEMMA GoingTold ==
  ASSUME IInv, NEW p \in Clients, cl[p] \in Goon, fd[p] # 0, prog = "lat_tcp"
  PROVE  Told(fd[p])
  BY DEF IInv, SizeIsTold, Goon

LEMMA CloseAtOnceKeeps ==
  ASSUME IInv, NEW p \in Parties, CloseAtOnce(p)
  PROVE  IInv'
<1>1. /\ Aside /\ todo' = todo /\ Count(p, IF fd[p] # 0 THEN 1 ELSE 0, "connect", "done")
      /\ cl[p] = "close" /\ prog \in Serial
      /\ conn' = IF fd[p] # 0 THEN [conn EXCEPT ![fd[p]] = CliClosed(@)] ELSE conn
  BY DEF CloseAtOnce, Count, Connected, Aside, program, server, kids, sockets, history
<1>2. p \in Clients /\ cl[p] \in Using /\ prog \notin {"lat_tcp", "lat_http", "bw_tcp"}
  BY <1>1, IsClient DEF Using, Serial
<1>3. prog = "lat_unix_connect" => fd[p] # 0
  BY <1>2 DEF IInv, ClientEnds
<1>4. /\ Tally' /\ counted' \in [Parties -> 0 .. Rounds] /\ real' \in [Parties -> 0 .. Rounds]
      /\ cl' \in [Parties -> {"connect", "ask", "size", "get", "write", "read", "close",
                              "cleanup", "done", "gone"}]
      /\ cl'[p] \in {"connect", "done"} /\ \A q \in Parties : q # p => cl'[q] = cl[q]
  <2> DEFINE r == IF fd[p] # 0 THEN 1 ELSE 0
  <2>1. r \in {0, 1} /\ (prog \in {"bw_tcp", "lat_unix_connect"} => r = 1)
        /\ Count(p, r, "connect", "done")
    BY <1>1, <1>2, <1>3
  <2> HIDE DEF r
  <2> QED
    BY <1>1, <1>2, <2>1, CountFacts
<1>5. faults \subseteq {"fork", "client", "server"}
  BY DEF IInv, TypeOK
<1> QED
  BY <1>1, <1>2, <1>4, <1>5, CloseKeeps DEF Aside

LEMMA CleanupKeeps ==
  ASSUME IInv, NEW p \in Parties, Cleanup(p)
  PROVE  IInv'
<1>1. /\ Aside /\ todo' = todo /\ counted' = counted /\ real' = real
      /\ cl[p] = "cleanup" /\ cl' = [cl EXCEPT ![p] = "done"]
      /\ conn' = IF fd[p] # 0 THEN [conn EXCEPT ![fd[p]] = CliClosed(@)] ELSE conn
  BY DEF Cleanup, Goto, Connected, Aside, program, server, kids, sockets, tally, history
<1>2. p \in Clients /\ cl[p] \in Using /\ cl[p] \in Goon /\ prog # "lat_http"
  BY <1>1, IsClient DEF Using, Goon, IInv, Labels, Forking
<1>3. /\ Tally' /\ counted' \in [Parties -> 0 .. Rounds] /\ real' \in [Parties -> 0 .. Rounds]
      /\ cl' \in [Parties -> {"connect", "ask", "size", "get", "write", "read", "close",
                              "cleanup", "done", "gone"}]
      /\ cl'[p] = "done" /\ \A q \in Parties : q # p => cl'[q] = cl[q]
  BY <1>1, <1>2, MovedTally DEF Aside
<1>4. /\ faults \subseteq {"fork", "client", "server"}
      /\ fd[p] # 0 /\ prog = "lat_tcp" => Told(fd[p])
  BY <1>2, GoingTold DEF IInv, TypeOK
<1> QED
  BY <1>1, <1>2, <1>3, <1>4, CloseKeeps DEF Aside

LEMMA TransferFailsKeeps ==
  ASSUME IInv, NEW p \in Parties, TransferFails(p)
  PROVE  IInv'
<1>1. /\ Aside /\ todo' = todo /\ counted' = counted /\ real' = real
      /\ cl[p] = "read" /\ cl' = [cl EXCEPT ![p] = "gone"] /\ prog = "bw_tcp"
      /\ conn' = [conn EXCEPT ![fd[p]] = CliClosed(@)]
  BY DEF TransferFails, Goto, Aside, program, server, kids, sockets, tally, history
<1>2. p \in Clients /\ cl[p] \in Using /\ fd[p] # 0
  BY <1>1, IsClient DEF Using, IInv, ClientEnds
<1>3. /\ Tally' /\ counted' \in [Parties -> 0 .. Rounds] /\ real' \in [Parties -> 0 .. Rounds]
      /\ cl' \in [Parties -> {"connect", "ask", "size", "get", "write", "read", "close",
                              "cleanup", "done", "gone"}]
      /\ cl'[p] = "gone" /\ \A q \in Parties : q # p => cl'[q] = cl[q]
  BY <1>1, <1>2, MovedTally DEF Aside
<1>4. faults \subseteq {"fork", "client", "server"}
  BY DEF IInv, TypeOK
<1> QED
  BY <1>1, <1>2, <1>3, <1>4, CloseKeeps DEF Aside

LEMMA WriteFailsKeeps ==
  ASSUME IInv, NEW p \in Parties, WriteFails(p)
  PROVE  IInv'
<1>1. /\ Aside /\ todo' = todo /\ counted' = counted /\ real' = real /\ cl[p] = "write"
      /\ fd[p] # 0 => conn[fd[p]].srv \in {"reset", "dead"}
  BY DEF WriteFails, Connected, Sock, Aside, program, server, kids, sockets, tally, history
<1>2. p \in Clients /\ cl[p] \in Using /\ cl[p] \in Goon /\ prog = "lat_tcp"
      /\ prog \in Forking /\ TypeOK
  BY <1>1, IsClient DEF Using, Goon, IInv, Labels, Forking
<1>3. CASE /\ fd[p] # 0 /\ cl' = [cl EXCEPT ![p] = "gone"]
           /\ conn' = [conn EXCEPT ![fd[p]] = CliClosed(@)]
  <2>1. /\ Tally' /\ counted' \in [Parties -> 0 .. Rounds] /\ real' \in [Parties -> 0 .. Rounds]
        /\ cl' \in [Parties -> {"connect", "ask", "size", "get", "write", "read", "close",
                                "cleanup", "done", "gone"}]
        /\ cl'[p] = "gone" /\ \A q \in Parties : q # p => cl'[q] = cl[q]
    BY <1>1, <1>2, <1>3, MovedTally DEF Aside
  <2>2. faults \subseteq {"fork", "client", "server"} /\ Told(fd[p])
    BY <1>2, <1>3, GoingTold DEF TypeOK
  <2> QED
    BY <1>1, <1>2, <1>3, <2>1, <2>2, CloseKeeps DEF Aside
<1>4. CASE /\ cl' = [cl EXCEPT ![p] = "read"]
           /\ conn' = IF fd[p] # 0 THEN [conn EXCEPT ![fd[p]].srv = "dead"] ELSE conn
  <2>1. fd[p] # 0 => fd[p] \in Conns /\ conn[fd[p]] \in Socket
    BY <1>2, Shared
  <2>2. /\ conn' \in [Conns -> Socket]
        /\ fd[p] # 0 => conn'[fd[p]].srv = "dead"
        /\ \A j \in Conns :
             /\ j # fd[p] => conn'[j] = conn[j]
             /\ conn'[j].cli = conn[j].cli /\ conn'[j].ctl = conn[j].ctl
             /\ conn'[j].srv = conn[j].srv
                  \/ (conn[j].srv \in {"reset", "dead"} /\ conn'[j].srv = "dead")
    <3>1. CASE fd[p] = 0
      BY <1>4, <3>1, Ends, Size
    <3>2. CASE fd[p] # 0
      BY <1>1, <1>4, <2>1, <3>2, Ends DEF Socket
    <3> QED
      BY <3>1, <3>2
  <2>3. /\ cl' \in [Parties -> {"connect", "ask", "size", "get", "write", "read", "close",
                                "cleanup", "done", "gone"}]
        /\ cl'[p] = "read" /\ \A q \in Parties : q # p => cl'[q] = cl[q]
    BY <1>2, <1>4 DEF TypeOK
  <2>4. /\ todo' \in [Parties -> 0 .. MaxSize]
        /\ counted' \in [Parties -> 0 .. Rounds] /\ real' \in [Parties -> 0 .. Rounds]
    BY <1>1, <1>2 DEF TypeOK
  <2>5. Tally'
    BY <1>1, <2>3, Size DEF IInv, Tally, Aside
  <2>6. cl[p] \in {"write", "read"} /\ cl'[p] \in Goon
    BY <1>1, <2>3 DEF Goon
  <2> QED
    BY <1>1, <1>2, <2>2, <2>3, <2>4, <2>5, <2>6, StreamKeeps DEF Aside
<1> QED
  BY <1>3, <1>4 DEF WriteFails, Goto, Connected, Sock

LEMMA ClientKilledKeeps ==
  ASSUME IInv, NEW p \in Parties, ClientKilled(p)
  PROVE  IInv'
<1>1. /\ prog' = prog /\ msize' = msize /\ backlog' = backlog /\ child' = child /\ left' = left
      /\ fd' = fd /\ asked' = asked /\ faults' = faults \cup {"client"} /\ wk' = wk /\ at' = at
      /\ tries' = tries /\ path' = path /\ zombies' = zombies /\ sigchld' = sigchld
      /\ todo' = todo /\ counted' = counted /\ real' = real
      /\ p \in Clients /\ cl[p] \notin {"done", "gone"} /\ cl' = [cl EXCEPT ![p] = "gone"]
      /\ conn' = IF fd[p] # 0 /\ conn[fd[p]].cli = "open" /\ cl[p] # "connect"
                   THEN [conn EXCEPT ![fd[p]] = CliClosed(@)] ELSE conn
  BY DEF ClientKilled, Goto, Connected, Sock, Fails, program, server, kids, sockets, tally
<1>2. /\ Tally' /\ counted' \in [Parties -> 0 .. Rounds] /\ real' \in [Parties -> 0 .. Rounds]
      /\ cl' \in [Parties -> {"connect", "ask", "size", "get", "write", "read", "close",
                              "cleanup", "done", "gone"}]
      /\ cl'[p] = "gone" /\ \A q \in Parties : q # p => cl'[q] = cl[q]
  BY <1>1, MovedTally
<1>3. faults' \subseteq {"fork", "client", "server"} /\ ~ByItself' /\ TypeOK
  BY <1>1 DEF IInv, TypeOK, ByItself
<1>4. CASE cl[p] \in Using
  <2>1. fd[p] # 0 => conn[fd[p]].cli = "open" /\ cl[p] # "connect"
    BY <1>1, <1>4, Shared DEF Using
  <2> QED
    BY <1>1, <1>2, <1>3, <1>4, <2>1, CloseKeeps
<1>5. CASE cl[p] \notin Using
  <2>1. cl[p] = "connect" /\ conn' = conn /\ Team' = Team
    BY <1>1, <1>3, <1>5, Size DEF TypeOK, Using, Team
  <2>2. ClientLets(p)
    BY <1>1, <1>2, <2>1 DEF ClientLets, Using
  <2>3. TypeOK'
    BY <1>1, <1>2, <1>3, <2>1 DEF TypeOK
  <2>4. Labels'
    BY <1>1, <1>2, <2>1, Size DEF IInv, Labels
  <2>5. ServerOutlivesClients' /\ HandlerNeverBlocks'
    BY <1>1, <2>1 DEF IInv, ServerOutlivesClients, HandlerNeverBlocks
  <2> QED
    BY <1>2, <2>2, <2>3, <2>4, <2>5, ClientLetsKeeps DEF IInv
<1> QED
  BY <1>4, <1>5

LEMMA AskShutdownKeeps ==
  ASSUME IInv, AskShutdown
  PROVE  IInv'
<1> DEFINE p == "-S"
<1> DEFINE k == fd[p]
<1> DEFINE word == IF prog = "lat_tcp" THEN "none" ELSE IF prog = "lat_http" THEN "EXIT" ELSE "0"
<1> DEFINE d == CliClosed([conn[k] EXCEPT !.ctl = word])
<1>1. /\ prog' = prog /\ msize' = msize /\ Team' = Team /\ backlog' = backlog
      /\ child' = child /\ left' = left /\ fd' = fd /\ asked' = asked /\ faults' = faults
      /\ wk' = wk /\ at' = at /\ tries' = tries /\ path' = path
      /\ zombies' = zombies /\ sigchld' = sigchld
      /\ todo' = todo /\ counted' = counted /\ real' = real
      /\ cl[p] = "ask" /\ cl' = [cl EXCEPT ![p] = "gone"] /\ conn' = [conn EXCEPT ![k] = d]
  BY DEF AskShutdown, Goto, program, server, kids, sockets, tally, history, Team
<1>2. p \in Parties /\ p \notin Clients /\ TypeOK /\ cl[p] \in Using /\ asked
  BY <1>1, Size DEF IInv, Using, Words
<1>3. k # 0 /\ k \in Conns /\ conn[k] \in Socket /\ word \in {"none", "0", "EXIT"}
  BY <1>1, <1>2, Ends DEF IInv, ClientEnds
<1>4. d \in Socket /\ ClientSide(conn[k], d) /\ (d = Free \/ d.ctl = word)
  <2> DEFINE c == [conn[k] EXCEPT !.ctl = word]
  <2>1. c \in Socket /\ c.cli = conn[k].cli /\ c.srv = conn[k].srv /\ c.ctl = word
        /\ c.up = conn[k].up /\ c.down = conn[k].down
    BY <1>3 DEF Socket
  <2>2. d = CliClosed(c)
    OBVIOUS
  <2> HIDE DEF c, d
  <2> QED
    BY <2>1, <2>2, CliClosedFacts DEF ClientSide
<1> HIDE DEF d
<1>5. conn' \in [Conns -> Socket] /\ conn'[k] = d /\ \A j \in Conns : j # k => conn'[j] = conn[j]
  BY <1>1, <1>3, <1>4, Ends
<1>6. /\ cl' \in [Parties -> {"connect", "ask", "size", "get", "write", "read", "close",
                              "cleanup", "done", "gone"}]
      /\ cl'[p] = "gone" /\ \A q \in Parties : q # p => cl'[q] = cl[q]
  BY <1>1, <1>2 DEF TypeOK
<1>7. ClientLets(p)
  <2>1. ~ByItself'
    BY <1>1, <1>2 DEF ByItself
  <2>2. \A j \in Conns :
          \/ conn'[j] = conn[j]
          \/ /\ cl[p] \in Using /\ j = fd[p] /\ ClientSide(conn[j], conn'[j])
             /\ conn'[j] = Free \/ conn'[j].ctl = conn[j].ctl
                  \/ (asked /\ conn'[j].ctl \in {"none", "0", "EXIT"})
    BY <1>2, <1>3, <1>4, <1>5
  <2>3. cl'[p] \notin Using
    BY <1>6 DEF Using
  <2> QED
    BY <1>1, <1>6, <2>1, <2>2, <2>3 DEF ClientLets
<1>8. TypeOK'
  BY <1>1, <1>2, <1>5, <1>6 DEF TypeOK, Socket
<1>9. Labels' /\ Tally'
  BY <1>1, <1>2, <1>6, Size DEF IInv, Labels, Tally
<1>10. ServerOutlivesClients' /\ HandlerNeverBlocks'
  BY <1>1 DEF IInv, ServerOutlivesClients, HandlerNeverBlocks
<1> QED
  BY <1>2, <1>7, <1>8, <1>9, <1>10, ClientLetsKeeps DEF IInv

LEMMA HttpReadsKeeps ==
  ASSUME IInv, NEW p \in Parties, HttpReads(p)
  PROVE  IInv'
<1>1. Aside /\ cl[p] = "read" /\ prog = "lat_http"
  BY DEF HttpReads, Count, Aside, program, server, kids, sockets, history
<1>2. p \in Clients /\ cl[p] \in Using /\ TypeOK /\ p \in Parties /\ Team' = Team
  BY <1>1, IsClient DEF Using, IInv, Aside, Team
<1>3. fd[p] # 0 => fd[p] \in Conns /\ conn[fd[p]] \in Socket /\ conn[fd[p]].cli = "open"
  BY <1>2, Shared
<1>4. CASE /\ fd[p] # 0 => conn[fd[p]].srv \in {"closed", "reset"}
           /\ conn' = IF fd[p] # 0 THEN [conn EXCEPT ![fd[p]] = CliClosed(@)] ELSE conn
           /\ Count(p, IF todo[p] = 0 THEN 1 ELSE 0, "connect", "done") /\ todo' = todo
  <2>1. /\ Tally' /\ counted' \in [Parties -> 0 .. Rounds] /\ real' \in [Parties -> 0 .. Rounds]
        /\ cl' \in [Parties -> {"connect", "ask", "size", "get", "write", "read", "close",
                                "cleanup", "done", "gone"}]
        /\ cl'[p] \in {"connect", "done"} /\ \A q \in Parties : q # p => cl'[q] = cl[q]
    <3> DEFINE r == IF todo[p] = 0 THEN 1 ELSE 0
    <3>1. r \in {0, 1} /\ Count(p, r, "connect", "done")
      BY <1>4
    <3> HIDE DEF r
    <3> QED
      BY <1>1, <1>2, <3>1, CountFacts
  <2>2. faults \subseteq {"fork", "client", "server"}
    BY <1>2 DEF TypeOK
  <2> QED
    BY <1>1, <1>2, <1>4, <2>1, <2>2, CloseKeeps DEF Aside
<1>5. CASE /\ fd[p] # 0 /\ conn[fd[p]].down > 0 /\ conn' = [conn EXCEPT ![fd[p]].down = 0]
           /\ todo' = [todo EXCEPT ![p] = @ - conn[fd[p]].down]
           /\ cl' = cl /\ counted' = counted /\ real' = real
  <2> DEFINE k == fd[p]
  <2>1. k \in Conns /\ conn[k] \in Socket /\ conn[k].cli = "open"
    BY <1>3, <1>5
  <2>2. conn[k].down \in Nat /\ todo[p] \in Nat /\ conn[k].down <= todo[p] /\ todo[p] <= MaxSize
    <3>1. conn[k].down \in 0 .. Buffer /\ todo[p] \in 0 .. MaxSize
      BY <1>2, <2>1 DEF Socket, TypeOK
    <3>2. conn[k].down <= todo[p]
      BY <1>1, <1>2, <1>5 DEF IInv, FileIsSent
    <3> QED
      BY <3>1, <3>2, Size
  <2>3. /\ conn' \in [Conns -> Socket] /\ conn'[k].down = 0
        /\ \A j \in Conns :
             /\ j # k => conn'[j] = conn[j]
             /\ conn'[j].cli = conn[j].cli /\ conn'[j].srv = conn[j].srv
             /\ conn'[j].ctl = conn[j].ctl /\ conn'[j].up = conn[j].up
    BY <1>5, <2>1, Ends, Size DEF Socket
  <2>4. /\ todo' \in [Parties -> 0 .. MaxSize] /\ todo'[p] = todo[p] - conn[k].down
        /\ \A q \in Parties : q # p => todo'[q] = todo[q]
    <3>1. todo[p] - conn[k].down \in 0 .. MaxSize
      BY <2>2, Size
    <3> HIDE DEF k
    <3>2. todo' = [todo EXCEPT ![p] = todo[p] - conn[k].down] /\ todo \in [Parties -> 0 .. MaxSize]
      BY <1>2, <1>5 DEF TypeOK, k
    <3> QED
      BY <1>2, <3>1, <3>2
  <2> HIDE DEF k
  <2>5. TypeOK'
    BY <1>1, <1>2, <1>5, <2>3, <2>4 DEF TypeOK, Socket, Aside
  <2>6. Talks
    BY <1>1, <1>2, <1>5, <2>1, <2>3 DEF Talks, Aside
  <2>7. Tally'
    BY <1>1, <1>5 DEF IInv, Tally, Aside
  <2>8. OneMessage'
    BY <1>1 DEF IInv, OneMessage, Aside
  <2>9. FileIsSent'
    <3>1. ByItself' => \A j \in Conns : conn'[j].cli # "closed"
      BY <1>1, <2>3 DEF ByItself, IInv, FileIsSent, Aside
    <3>2. ASSUME NEW q \in Clients, fd[q] # 0, cl[q] \in {"get", "read"}
          PROVE  /\ cl[q] = "get" =>
                      /\ conn'[fd[q]].ctl = "none" /\ conn'[fd[q]].down = 0
                      /\ \A v \in 1 .. Workers : at[v] = fd[q] => wk[v] = "serve"
                 /\ cl[q] = "read" =>
                      /\ conn'[fd[q]].down <= todo'[q]
                      /\ conn'[fd[q]].ctl = "GET" =>
                           /\ conn'[fd[q]].down = 0 /\ todo'[q] = msize
                           /\ \A v \in 1 .. Workers : at[v] = fd[q] => wk[v] = "serve"
                      /\ \A v \in 1 .. Workers : at[v] = fd[q] /\ wk[v] = "send" =>
                           conn'[fd[q]].down + left[fd[q]] <= todo'[q]
      <4>1. /\ cl[q] = "get" =>
                 /\ conn[fd[q]].ctl = "none" /\ conn[fd[q]].down = 0
                 /\ \A v \in 1 .. Workers : at[v] = fd[q] => wk[v] = "serve"
            /\ cl[q] = "read" =>
                 /\ conn[fd[q]].down <= todo[q]
                 /\ conn[fd[q]].ctl = "GET" =>
                      /\ conn[fd[q]].down = 0 /\ todo[q] = msize
                      /\ \A v \in 1 .. Workers : at[v] = fd[q] => wk[v] = "serve"
                 /\ \A v \in 1 .. Workers : at[v] = fd[q] /\ wk[v] = "send" =>
                      conn[fd[q]].down + left[fd[q]] <= todo[q]
        BY <1>1, <3>2 DEF IInv, FileIsSent
      <4>2. CASE q # p
        <5>1. fd[q] # k /\ fd[q] \in Conns /\ todo'[q] = todo[q]
          BY <1>2, <2>4, <3>2, <4>2, Ends, Size DEF k, IInv, ClientEnds, Using
        <5>2. conn'[fd[q]] = conn[fd[q]]
          BY <2>3, <5>1
        <5> QED
          BY <4>1, <5>1, <5>2
      <4>3. CASE q = p
        <5>1. cl[q] = "read" /\ fd[q] = k /\ conn[k].ctl # "GET" /\ conn'[k].ctl = conn[k].ctl
          BY <1>1, <1>5, <2>1, <2>2, <2>3, <4>1, <4>3 DEF k
        <5>2. left[k] \in Nat
          <6>1. left[k] \in 0 .. MaxSize
            BY <1>2, <2>1 DEF TypeOK
          <6> QED
            BY <6>1, Size
        <5>3. \A v \in 1 .. Workers : at[v] = k /\ wk[v] = "send" =>
                 conn[k].down + left[k] <= todo[p]
          BY <4>1, <4>3, <5>1
        <5>4. \A v \in 1 .. Workers : at[v] = k /\ wk[v] = "send" =>
                 0 + left[k] <= todo[p] - conn[k].down
          BY <2>2, <5>2, <5>3
        <5>5. 0 <= todo[p] - conn[k].down
          BY <2>2
        <5> QED
          BY <2>3, <2>4, <4>3, <5>1, <5>4, <5>5
      <4> QED
        BY <4>2, <4>3
    <3> QED
      BY <1>1, <1>5, <3>1, <3>2 DEF FileIsSent, Aside
  <2> QED
    BY <2>5, <2>6, <2>7, <2>8, <2>9, TalksKeeps DEF IInv
<1> QED
  <2>1. IF Connected(p) /\ Sock(p).down > 0
          THEN /\ conn' = [conn EXCEPT ![fd[p]].down = 0]
               /\ todo' = [todo EXCEPT ![p] = @ - Sock(p).down]
               /\ UNCHANGED <<program, server, backlog, left, kids, cl, sockets, counted, real,
                              history>>
          ELSE /\ Connected(p) => Sock(p).srv \in {"closed", "reset"}
               /\ conn' = IF Connected(p) THEN [conn EXCEPT ![fd[p]] = CliClosed(@)] ELSE conn
               /\ Count(p, IF todo[p] = 0 THEN 1 ELSE 0, "connect", "done")
               /\ UNCHANGED todo
    BY DEF HttpReads
  <2> QED
    BY <1>4, <1>5, <2>1 DEF Connected, Sock

(* A client that is refused has no connection. *)
LEMMA RefusedKeeps ==
  ASSUME IInv, NEW p \in Parties, Refused(p)
  PROVE  IInv'
<1> DEFINE again == prog # "lat_unix_connect" /\ tries[p] < Retries
<1> DEFINE to == IF again THEN "connect"
                 ELSE IF prog = "lat_unix_connect" THEN "gone" ELSE Unconnected(p)
<1>1. /\ prog' = prog /\ msize' = msize /\ Team' = Team /\ backlog' = backlog /\ conn' = conn
      /\ child' = child /\ left' = left /\ asked' = asked /\ faults' = faults
      /\ wk' = wk /\ at' = at /\ path' = path /\ zombies' = zombies /\ sigchld' = sigchld
      /\ todo' = todo /\ counted' = counted /\ real' = real
      /\ cl[p] = "connect" /\ cl' = [cl EXCEPT ![p] = to] /\ fd' = [fd EXCEPT ![p] = 0]
      /\ tries' = [tries EXCEPT ![p] = IF again THEN @ + 1 ELSE @]
  BY DEF Refused, Goto, program, server, kids, tally, history, Team
<1>2. TypeOK /\ Labels /\ prog \in Programs
  BY DEF IInv, TypeOK
<1>3. /\ to \in {"connect", "gone", "size", "close", "get"}
      /\ to \in {"size", "close", "get"} => p \in Clients
      /\ to = "size" => prog = "lat_tcp"
      /\ to = "close" => prog = "lat_connect"
      /\ to = "get" => prog = "lat_http"
  BY <1>2, StartFacts DEF Unconnected, Parties, Programs, Forking, Serial
<1>4. tries' \in [Parties -> 0 .. Retries]
  <2>1. tries \in [Parties -> 0 .. Retries] /\ tries[p] \in 0 .. Retries
    BY <1>2 DEF TypeOK
  <2>2. again => tries[p] + 1 \in 0 .. Retries
    BY <2>1, Size
  <2> HIDE DEF again
  <2> QED
    BY <1>1, <2>1, <2>2
<1> HIDE DEF to, again
<1>5. /\ cl' \in [Parties -> {"connect", "ask", "size", "get", "write", "read", "close",
                              "cleanup", "done", "gone"}]
      /\ cl'[p] = to /\ \A q \in Parties : q # p => cl'[q] = cl[q]
      /\ fd' \in [Parties -> 0 .. Slots]
      /\ fd'[p] = 0 /\ \A q \in Parties : q # p => fd'[q] = fd[q]
  BY <1>1, <1>2, <1>3, Size DEF TypeOK
<1>6. TypeOK'
  BY <1>1, <1>2, <1>4, <1>5 DEF TypeOK
<1>7. Labels'
  BY <1>1, <1>2, <1>3, <1>5, Size DEF Labels, Forking, Serial
<1>8. \A q \in Parties : fd'[q] # 0 => q # p /\ cl'[q] = cl[q] /\ fd'[q] = fd[q]
  BY <1>5
<1>9. ClientEnds'
  <2>1. /\ \A q \in Parties : cl'[q] \in Using /\ fd'[q] # 0 => conn[fd'[q]].cli = "open"
        /\ \A k \in Conns : conn[k].cli = "free" => conn[k] = Free
        /\ cl'["-S"] = "ask" => fd'["-S"] # 0
    BY <1>3, <1>5, <1>8, Size DEF IInv, ClientEnds
  <2>2. ASSUME NEW q \in Parties, NEW r \in Parties, q # r,
               cl'[q] \in Using, cl'[r] \in Using, fd'[q] # 0
        PROVE  fd'[q] # fd'[r]
    <3>1. q # p /\ cl[q] \in Using /\ fd[q] = fd'[q]
      BY <1>8, <2>2
    <3>2. CASE r = p
      BY <1>5, <2>2, <3>2
    <3>3. CASE r # p
      BY <1>5, <2>2, <3>1, <3>3 DEF IInv, ClientEnds
    <3> QED
      BY <3>2, <3>3
  <2>3. ASSUME prog \in {"bw_tcp", "lat_unix_connect"}, NEW q \in Clients, cl'[q] \in Using
        PROVE  fd'[q] # 0
    <3>1. q # p /\ q \in Parties
      BY <1>3, <1>5, <2>3, Size DEF Using
    <3> QED
      BY <1>5, <2>3, <3>1 DEF IInv, ClientEnds
  <2> QED
    BY <1>1, <2>1, <2>2, <2>3 DEF ClientEnds
<1>10. ServerEnds'
  BY <1>1 DEF IInv, ServerEnds
<1>11. Words' /\ Tally'
  BY <1>1, <1>3, <1>5, Size DEF IInv, Words, Tally
<1>12. SizeIsTold'
  <2>1. \A q \in Clients, j \in Conns \cup {0} :
          cl'[q] \in {"write", "read", "cleanup"} /\ fd'[q] # 0 /\ fd'[q] = j /\ prog = "lat_tcp" =>
            conn[j].ctl = "size" \/ (child[j] # "control" /\ conn[j].srv # "queued")
    BY <1>8, Size DEF IInv, SizeIsTold, Told
  <2>2. ByItself' = ByItself
    BY <1>1 DEF ByItself
  <2>3. \A q \in Clients : fd'[q] \in Conns \cup {0}
    BY <1>5, Size
  <2> QED
    BY <1>1, <2>1, <2>2, <2>3 DEF IInv, SizeIsTold, Told
<1>13. FileIsSent'
  <2>1. \A q \in Clients : fd'[q] # 0 => cl'[q] = cl[q] /\ fd'[q] = fd[q]
    BY <1>8, Size
  <2> QED
    BY <1>1, <2>1 DEF IInv, FileIsSent, ByItself
<1>14. OneMessage'
  <2>1. \A q \in Clients : fd'[q] # 0 => cl'[q] = cl[q] /\ fd'[q] = fd[q]
    BY <1>8, Size
  <2> QED
    BY <1>1, <2>1 DEF IInv, OneMessage, Answering
<1>15. ServerOutlivesClients' /\ HandlerNeverBlocks'
  BY <1>1 DEF IInv, ServerOutlivesClients, HandlerNeverBlocks
<1> QED
  BY <1>6, <1>7, <1>9, <1>10, <1>11, <1>12, <1>13, <1>14, <1>15 DEF IInv

(* A client that connects has a connection nobody else knows of. *)
LEMMA ConnectKeeps ==
  ASSUME IInv, NEW p \in Parties, Connect(p)
  PROVE  IInv'
<1> DEFINE to == IF p = "-S" THEN "ask" ELSE Start[prog]
<1> DEFINE new == [Free EXCEPT !.cli = "open", !.srv = "queued"]
<1>1. PICK k : /\ k \in Conns /\ conn[k].cli = "free"
               /\ conn' = [conn EXCEPT ![k] = new] /\ backlog' = Append(backlog, k)
               /\ fd' = [fd EXCEPT ![p] = k]
  <2>1. FreeSlots # {}
    BY DEF Connect
  <2>2. Min(FreeSlots) \in Conns /\ conn[Min(FreeSlots)].cli = "free"
    BY <2>1, FreeSlotFacts
  <2> QED
    BY <2>2 DEF Connect
<1>2. /\ prog' = prog /\ msize' = msize /\ Team' = Team
      /\ child' = child /\ left' = left /\ faults' = faults
      /\ wk' = wk /\ at' = at /\ path' = path /\ zombies' = zombies /\ sigchld' = sigchld
      /\ todo' = todo /\ counted' = counted /\ real' = real
      /\ cl[p] = "connect" /\ cl' = [cl EXCEPT ![p] = to]
      /\ tries' = [tries EXCEPT ![p] = 0] /\ asked' = (asked \/ p = "-S")
  BY DEF Connect, Goto, program, server, kids, tally, Team
<1>3. /\ TypeOK /\ Labels /\ ClientEnds /\ ServerEnds /\ Words /\ SizeIsTold /\ FileIsSent
      /\ Tally /\ OneMessage /\ prog \in Programs
  BY DEF IInv, TypeOK
<1>4. /\ to \in {"ask", "size", "close", "get"} /\ (to = "ask" <=> p = "-S")
      /\ to # "ask" => p \in Clients
      /\ to = "size" => prog \in Forking
      /\ to = "close" => prog \in Serial
      /\ to = "get" => prog = "lat_http"
  BY <1>3, StartFacts DEF Parties, Programs, Forking, Serial
<1>5. /\ new \in Socket /\ new.cli = "open" /\ new.srv = "queued" /\ new.ctl = "none"
      /\ new.up = 0 /\ new.down = 0
  BY FreeIsSocket DEF Socket
<1> HIDE DEF to, new
<1>6. /\ cl' \in [Parties -> {"connect", "ask", "size", "get", "write", "read", "close",
                              "cleanup", "done", "gone"}]
      /\ cl'[p] = to /\ \A q \in Parties : q # p => cl'[q] = cl[q]
      /\ fd' \in [Parties -> 0 .. Slots]
      /\ fd'[p] = k /\ \A q \in Parties : q # p => fd'[q] = fd[q]
      /\ tries' \in [Parties -> 0 .. Retries]
  <2>1. k \in 0 .. Slots /\ 0 \in 0 .. Retries
    BY <1>1, Size
  <2>2. /\ cl \in [Parties -> {"connect", "ask", "size", "get", "write", "read", "close",
                               "cleanup", "done", "gone"}]
        /\ fd \in [Parties -> 0 .. Slots] /\ tries \in [Parties -> 0 .. Retries]
    BY <1>3 DEF TypeOK
  <2> QED
    BY <1>1, <1>2, <1>4, <2>1, <2>2
<1>7. /\ conn \in [Conns -> Socket] /\ conn' \in [Conns -> Socket] /\ conn'[k] = new
      /\ \A j \in Conns : j # k => conn'[j] = conn[j]
  BY <1>1, <1>3, <1>5, ConnTyped
<1>8. /\ conn[k] = Free /\ child[k] = "none"
      /\ \A i \in 1 .. Len(backlog) : backlog[i] \in Conns /\ backlog[i] # k
      /\ \A v \in 1 .. Workers : at[v] # k
      /\ \A q \in Parties : cl[q] \in Using => fd[q] # k
  <2>1. conn[k] = Free /\ Free.srv = "closed" /\ Free.cli = "free" /\ k # 0
    BY <1>1, <1>3, FreeIsSocket, Size DEF ClientEnds
  <2>2. \A i \in 1 .. Len(backlog) : backlog[i] \in Conns
    BY <1>3 DEF TypeOK
  <2> QED
    BY <1>1, <1>3, <2>1, <2>2 DEF ClientEnds, ServerEnds
<1>9. /\ backlog' \in Seq(Conns) /\ Len(backlog') = Len(backlog) + 1 /\ Len(backlog) \in Nat
      /\ backlog'[Len(backlog) + 1] = k
      /\ \A i \in 1 .. Len(backlog) : backlog'[i] = backlog[i]
  BY <1>1, <1>3 DEF TypeOK
<1>10. TypeOK'
  <2>1. asked' \in BOOLEAN
    BY <1>2
  <2> QED
    BY <1>2, <1>3, <1>6, <1>7, <1>9, <2>1 DEF TypeOK, Socket
<1>11. Labels'
  BY <1>2, <1>3, <1>4, <1>6, Size DEF Labels
<1>12. \A q \in Parties : q # p /\ cl'[q] \in Using /\ fd'[q] # 0 =>
         /\ cl'[q] = cl[q] /\ fd'[q] = fd[q] /\ fd[q] \in Conns /\ fd[q] # k
         /\ conn'[fd[q]] = conn[fd[q]]
  <2> SUFFICES ASSUME NEW q \in Parties, q # p, cl'[q] \in Using, fd'[q] # 0
               PROVE  /\ cl'[q] = cl[q] /\ fd'[q] = fd[q] /\ fd[q] \in Conns /\ fd[q] # k
                      /\ conn'[fd[q]] = conn[fd[q]]
    OBVIOUS
  <2>1. cl'[q] = cl[q] /\ fd'[q] = fd[q] /\ fd'[q] \in 0 .. Slots
    BY <1>6
  <2>2. fd[q] \in Conns /\ fd[q] # k
    BY <1>8, <2>1, Size
  <2> QED
    BY <1>7, <2>1, <2>2
<1>13. ClientEnds'
  <2>1. \A j \in Conns : conn'[j].cli = "free" => conn'[j] = Free
    BY <1>3, <1>5, <1>7 DEF ClientEnds
  <2>2. \A q \in Parties : cl'[q] \in Using /\ fd'[q] # 0 => conn'[fd'[q]].cli = "open"
    BY <1>3, <1>5, <1>6, <1>7, <1>12 DEF ClientEnds
  <2>3. ASSUME NEW q \in Parties, NEW r \in Parties, q # r,
               cl'[q] \in Using, cl'[r] \in Using, fd'[q] # 0
        PROVE  fd'[q] # fd'[r]
    <3>1. CASE q = p
      BY <1>6, <1>8, <2>3, <3>1
    <3>2. CASE r = p
      BY <1>6, <1>8, <2>3, <3>2
    <3>3. CASE q # p /\ r # p
      BY <1>3, <1>6, <2>3, <3>3 DEF ClientEnds
    <3> QED
      BY <3>1, <3>2, <3>3
  <2>4. /\ prog \in {"bw_tcp", "lat_unix_connect"} =>
             \A q \in Clients : cl'[q] \in Using => fd'[q] # 0
        /\ cl'["-S"] = "ask" => fd'["-S"] # 0
    BY <1>1, <1>3, <1>6, Size DEF ClientEnds
  <2> QED
    BY <1>2, <2>1, <2>2, <2>3, <2>4 DEF ClientEnds
<1>14. ServerEnds'
  <2>1. /\ \A i \in 1 .. Len(backlog') : conn'[backlog'[i]].srv = "queued"
        /\ \A i, j \in 1 .. Len(backlog') : i # j => backlog'[i] # backlog'[j]
    <3>1. \A i \in 1 .. Len(backlog') : i \in 1 .. Len(backlog) \/ i = Len(backlog) + 1
      BY <1>9
    <3> QED
      BY <1>3, <1>5, <1>7, <1>8, <1>9, <3>1 DEF ServerEnds
  <2>2. \A v \in 1 .. Workers : at[v] # 0 => conn'[at[v]] = conn[at[v]]
    BY <1>3, <1>7, <1>8, Size DEF TypeOK
  <2>3. \A j \in Conns : child[j] # "none" => conn'[j] = conn[j]
    BY <1>7, <1>8
  <2> QED
    BY <1>2, <1>3, <2>1, <2>2, <2>3 DEF ServerEnds
<1>15. Words'
  <2>1. cl'["-S"] = "ask" => asked'
    BY <1>2, <1>3, <1>6, Size DEF Words
  <2> QED
    BY <1>2, <1>3, <1>5, <1>7, <2>1 DEF Words
<1>16. SizeIsTold'
  <2> SUFFICES ASSUME prog = "lat_tcp" PROVE SizeIsTold'
    BY <1>2 DEF SizeIsTold
  <2>1. \A q \in Clients, j \in Conns :
          cl'[q] \in {"write", "read", "cleanup"} /\ fd'[q] # 0 /\ fd'[q] = j =>
            conn'[j].ctl = "size" \/ (child[j] # "control" /\ conn'[j].srv # "queued")
    <3> SUFFICES ASSUME NEW q \in Clients, NEW j \in Conns,
                        cl'[q] \in {"write", "read", "cleanup"}, fd'[q] # 0, fd'[q] = j
                 PROVE  conn'[j].ctl = "size" \/ (child[j] # "control" /\ conn'[j].srv # "queued")
      OBVIOUS
    <3>1. q # p /\ q \in Parties /\ cl'[q] \in Using
      BY <1>4, <1>6, Size DEF Using
    <3>2. cl[q] = cl'[q] /\ fd[q] = j /\ conn'[j] = conn[j]
      BY <1>12, <3>1
    <3> QED
      BY <1>3, <3>2 DEF SizeIsTold, Told
  <2>2. ByItself' => ByItself
    BY <1>2 DEF ByItself
  <2>3. \A j \in Conns : conn'[j].cli = "closed" => conn[j].cli = "closed" /\ conn'[j] = conn[j]
    BY <1>5, <1>7
  <2>4. \A q \in Clients : fd'[q] # 0 => fd'[q] \in Conns
    BY <1>6, Size
  <2> QED
    BY <1>2, <1>3, <2>1, <2>2, <2>3, <2>4 DEF SizeIsTold, Told
<1>17. FileIsSent'
  <2> SUFFICES ASSUME prog = "lat_http" PROVE FileIsSent'
    BY <1>2 DEF FileIsSent
  <2>1. ByItself' => \A j \in Conns : conn'[j].cli # "closed"
    BY <1>2, <1>3, <1>5, <1>7 DEF FileIsSent, ByItself
  <2>2. \A q \in Clients : q # p /\ cl'[q] \in {"get", "read"} /\ fd'[q] # 0 =>
          cl'[q] = cl[q] /\ fd'[q] = fd[q] /\ conn'[fd[q]] = conn[fd[q]]
    BY <1>12, Size DEF Using
  <2>3. p \in Clients => /\ cl'[p] # "read" /\ fd'[p] = k
                         /\ conn'[fd'[p]].ctl = "none" /\ conn'[fd'[p]].down = 0
                         /\ \A v \in 1 .. Workers : at[v] # fd'[p]
    BY <1>4, <1>5, <1>6, <1>7, <1>8
  <2> QED
    BY <1>2, <1>3, <2>1, <2>2, <2>3 DEF FileIsSent
<1>18. Tally'
  BY <1>2, <1>3, <1>4, <1>6, Size DEF Tally
<1>19. OneMessage'
  <2> SUFFICES ASSUME prog = "lat_tcp", msize = 1 PROVE OneMessage'
    BY <1>2, <1>3 DEF OneMessage
  <2>1. \A q \in Clients : q # p /\ cl'[q] \in {"size", "write", "read"} /\ fd'[q] # 0 =>
          cl'[q] = cl[q] /\ fd'[q] = fd[q] /\ conn'[fd[q]] = conn[fd[q]]
    BY <1>12, Size DEF Using
  <2>2. p \in Clients => /\ cl'[p] # "read" /\ fd'[p] = k
                         /\ conn'[fd'[p]].up = 0 /\ conn'[fd'[p]].down = 0
                         /\ child[fd'[p]] = "none"
    BY <1>4, <1>5, <1>6, <1>7, <1>8
  <2> QED
    BY <1>2, <1>3, <2>1, <2>2 DEF OneMessage, Answering
<1>20. ServerOutlivesClients' /\ HandlerNeverBlocks'
  BY <1>2 DEF IInv, ServerOutlivesClients, HandlerNeverBlocks
<1> QED
  BY <1>10, <1>11, <1>13, <1>14, <1>15, <1>16, <1>17, <1>18, <1>19, <1>20 DEF IInv

----------------------------------------------------------------------------
(* The invariant holds. *)
LEMMA InitHolds == Init => IInv
<1> SUFFICES ASSUME Init PROVE IInv
  OBVIOUS
<1>1. /\ prog \in Programs /\ msize \in 1 .. MaxSize
      /\ wk = [w \in 1 .. Workers |-> "starting"] /\ at = [w \in 1 .. Workers |-> 0]
      /\ path = FALSE /\ backlog = << >> /\ conn = [k \in Conns |-> Free]
      /\ child = [k \in Conns |-> "none"] /\ left = [k \in Conns |-> 0]
      /\ zombies = 0 /\ sigchld = FALSE
      /\ fd = [p \in Parties |-> 0] /\ tries = [p \in Parties |-> 0]
      /\ todo = [p \in Parties |-> 0] /\ counted = [p \in Parties |-> 0]
      /\ real = [p \in Parties |-> 0] /\ asked = FALSE /\ faults = {}
  BY DEF Init
<1>2. cl \in [Parties -> {"connect", "gone"}]
  <2> DEFINE idle == IF Single THEN Clients \ {CHOOSE p \in Clients : TRUE} ELSE {}
  <2>1. cl = [p \in Parties |-> IF p \in idle THEN "gone" ELSE "connect"]
    BY DEF Init
  <2> HIDE DEF idle
  <2> QED
    BY <2>1
<1>3. cl["-S"] = "connect"
  <2> DEFINE idle == IF Single THEN Clients \ {CHOOSE p \in Clients : TRUE} ELSE {}
  <2>1. cl = [p \in Parties |-> IF p \in idle THEN "gone" ELSE "connect"]
    BY DEF Init
  <2>2. "-S" \notin idle
    BY Size
  <2> HIDE DEF idle
  <2> QED
    BY <2>1, <2>2, Size
<1>4. /\ \A p \in Parties : cl[p] \notin Using /\ cl[p] # "done" /\ fd[p] = 0
      /\ \A k \in Conns : conn[k] = Free /\ child[k] = "none"
      /\ \A w \in 1 .. Workers : wk[w] = "starting" /\ at[w] = 0
      /\ \A p \in Parties : counted[p] = 0 /\ real[p] = 0
  BY <1>1, <1>2 DEF Using
<1>5. TypeOK
  <2>1. 0 \in 0 .. Slots /\ 0 \in 0 .. Rounds /\ 0 \in 0 .. MaxSize /\ 0 \in 0 .. Retries
    BY Size
  <2>2. conn \in [Conns -> Socket]
    BY <1>1, FreeIsSocket
  <2>3. backlog \in Seq(Conns)
    BY <1>1
  <2> QED
    BY <1>1, <1>2, <2>1, <2>2, <2>3 DEF TypeOK, Socket
<1>6. Labels
  BY <1>2, <1>3, <1>4, Size DEF Labels
<1>7. ClientEnds /\ ServerEnds /\ Words
  <2>1. Len(backlog) = 0
    BY <1>1
  <2> QED
    BY <1>3, <1>4, <2>1, FreeIsSocket, Size DEF ClientEnds, ServerEnds, Words, Using
<1>8. SizeIsTold /\ FileIsSent /\ OneMessage
  BY <1>4, FreeIsSocket, Size DEF SizeIsTold, FileIsSent, OneMessage
<1>9. Tally
  BY <1>2, <1>4, Size DEF Tally
<1>10. ServerOutlivesClients /\ HandlerNeverBlocks
  BY <1>1, <1>4, Size DEF ServerOutlivesClients, HandlerNeverBlocks
<1> QED
  BY <1>5, <1>6, <1>7, <1>8, <1>9, <1>10 DEF IInv

LEMMA StepKeeps == IInv /\ [Next]_vars => IInv'
<1> SUFFICES ASSUME IInv, [Next]_vars PROVE IInv'
  OBVIOUS
<1>1. CASE TcpServer \/ UnixServer \/ SigchldWait
  BY <1>1, TcpServerKeeps, UnixServerKeeps, SigchldWaitKeeps
<1>2. ASSUME NEW w \in 1 .. Workers, Server(w) PROVE IInv'
  BY <1>2, AcceptAndForkKeeps, AcceptAndServeKeeps, SerialReadKeeps, UnixDoneKeeps,
     HttpReadKeeps, HttpSendKeeps, HttpSendFailsKeeps
     DEF Server
<1>3. ASSUME NEW k \in Conns, Child(k) PROVE IInv'
  <2>1. CASE NoControl(k) \/ ChildSeesEnd(k)
    <3>1. child[k] # "none" /\ ChildEnds(k)
      BY <2>1 DEF NoControl, ChildSeesEnd
    <3> QED
      BY <3>1, ChildEndsKeeps
  <2> QED
    BY <1>3, <2>1, ReadSizeKeeps, ShutdownKeeps, EchoReadKeeps, ChildWritesKeeps DEF Child
<1>4. ASSUME NEW p \in Parties, Client(p) PROVE IInv'
  <2>1. CASE TcpSendSize(p) \/ BwSendSize(p) \/ HttpSendGet(p)
    BY <2>1, SaysKeeps
  <2>2. CASE Connect(p) \/ Refused(p) \/ AskShutdown
    BY <2>2, ConnectKeeps, RefusedKeeps, AskShutdownKeeps
  <2>3. CASE CloseAtOnce(p) \/ WriteMessage(p) \/ ReadAnswer(p) \/ WriteFails(p) \/ ReadFails(p)
    BY <2>3, CloseAtOnceKeeps, WriteMessageKeeps, ReadAnswerKeeps, WriteFailsKeeps,
       ReadFailsKeeps
  <2>4. CASE LoopTransfer(p) \/ TransferFails(p) \/ HttpReads(p) \/ Cleanup(p)
    BY <2>4, LoopTransferKeeps, TransferFailsKeeps, HttpReadsKeeps, CleanupKeeps
  <2> QED
    BY <1>4, <2>1, <2>2, <2>3, <2>4 DEF Client
<1>5. ASSUME NEW w \in 1 .. Workers, AcceptForkFails(w) \/ ServerKilled(w) PROVE IInv'
  BY <1>5, AcceptForkFailsKeeps, ServerKilledKeeps
<1>6. ASSUME NEW p \in Parties, ClientKilled(p) PROVE IInv'
  BY <1>6, ClientKilledKeeps
<1>7. CASE UNCHANGED vars
  BY <1>7
     DEF vars, program, server, kids, sockets, tally, history, IInv, TypeOK, Labels,
         ClientEnds, ServerEnds, Words, SizeIsTold, Told, ByItself, FileIsSent, Tally,
         OneMessage, Answering, ServerOutlivesClients, HandlerNeverBlocks, Team
<1> QED
  BY <1>1, <1>2, <1>3, <1>4, <1>5, <1>6, <1>7 DEF Next, Progress, Failure

LEMMA IInvHolds == Spec => []IInv
<1> QED
  BY InitHolds, StepKeeps, PTL DEF Spec

(* No server goes because of what clients do, whatever they do and whenever *)
(* they are killed - except where the end of a connection means shutdown to *)
(* lat_tcp, or rdwr of lmhttp exits - and wait() never blocks the server in *)
(* its handler.  (server_main of the programs, sigchld_wait_handler.)       *)
THEOREM ServersKeepServing == Spec => []ServerKeepsServing
<1>1. IInv => ServerKeepsServing
  BY DEF IInv, ServerKeepsServing
<1> QED
  BY <1>1, IInvHolds, PTL

(* With a message that comes in one piece an iteration of lat_tcp is a      *)
(* round trip, and a client of bw_tcp or lat_unix_connect that reports a    *)
(* result has done all it counted, whatever servers, connections and other  *)
(* clients did.  (doclient, loop_transfer, unix_connect.)                   *)
THEOREM WhatIsCountedIsReal == Spec => []IterationsAreReal
<1>1. IInv => IterationIsRoundTrip
  <2> SUFFICES ASSUME IInv, prog = "lat_tcp", msize = 1, NEW p \in Clients,
                      cl[p] = "write", fd[p] # 0, conn[fd[p]].srv = "open"
               PROVE  /\ conn[fd[p]].up = 0 /\ conn[fd[p]].down = 0
                      /\ child[fd[p]] # "write"
    BY DEF IterationIsRoundTrip, Connected, Sock
  <2>1. conn[fd[p]].up = 0 /\ conn[fd[p]].down = 0 /\ Answering(fd[p]) = 0
    BY DEF IInv, OneMessage
  <2> QED
    BY <2>1 DEF Answering
<1>2. IInv => ResultIsMeasured
  BY DEF IInv, Tally, ResultIsMeasured
<1>3. IInv => IterationsAreReal
  BY <1>1, <1>2 DEF IterationsAreReal
<1> QED
  BY <1>3, IInvHolds, PTL

----------------------------------------------------------------------------
(***************************************************************************)
(* The datagram servers.  Their module is an instance, for both kinds of   *)
(* server have a program, iterations left and a -S; and so its assumption  *)
(* about the constants stands in front of what is proved.                  *)
(***************************************************************************)
CONSTANTS
  Sizes, Base, MaxDatagram, MaxDoits, MaxTrips, MaxLoss, MaxDup, Stops, MaxSends
VARIABLES
  dgProg, big, size, srv, port, job, dgWord, net, pc, seq, dgLeft, doits, need, sends,
  alarm, echo, dgAsked, lost, dup

D == INSTANCE DatagramServers
       WITH prog <- dgProg, left <- dgLeft, word <- dgWord, asked <- dgAsked

(* Labels of a client, and the types. *)
ClientLabels == {"init", "idle", "send", "recv", "gone"}
DatagramTypes ==
  /\ dgProg \in D!Programs /\ big \in BOOLEAN /\ size \in Sizes
  /\ srv \in BOOLEAN /\ port \in BOOLEAN /\ dgAsked \in BOOLEAN
  /\ job \in [to : Clients \cup {D!Stopper}, left : Int, sent : Nat]
  /\ dgWord \in 0 .. D!Word + MaxDoits * MaxTrips
  /\ pc \in [Clients -> ClientLabels]
  /\ seq \in [Clients -> Nat] /\ dgLeft \in [Clients -> 0 .. MaxTrips]
  /\ doits \in [Clients -> 0 .. MaxDoits] /\ need \in [Clients -> Int]
  /\ echo \in [Clients -> Int] /\ sends \in [Clients -> 0 .. MaxSends]
  /\ alarm \in [Clients -> BOOLEAN]
  /\ lost \in 0 .. MaxLoss /\ dup \in 0 .. MaxDup

(* Who sends what. *)
FromClient(d, c) ==
  /\ dgProg = "bw_udp" => d.n = D!Move /\ d.size = D!Msize
  /\ dgProg = "lat_udp" => d.n \in 0 .. seq[c] - 1
Known(d) ==
  \/ d.to = D!Server /\ d.from = D!Stopper /\ d.n \in Int /\ d.n < 0 /\ dgAsked
  \/ d.to = D!Server /\ d.from \in Clients /\ FromClient(d, d.from)
  \/ d.to \in Clients /\ d.from = D!Server /\ (dgProg = "lat_udp" => d.n \in 0 .. seq[d.to] - 1)
Posted == \A d \in net : Known(d)

(* What a bw_udp server works on, before -S, a client has asked for. *)
Requested == dgProg = "bw_udp" /\ job.left > 0 /\ ~dgAsked => dgWord = D!Msize

(* Iterations a client has still to begin. *)
ToBegin(c) ==
  IF pc[c] = "send" THEN dgLeft[c] ELSE IF pc[c] = "recv" THEN dgLeft[c] - 1 ELSE 0
TripsFit ==
  \A c \in Clients :
    /\ pc[c] = "init" => doits[c] = 0
    /\ pc[c] \in {"init", "idle"} => dgLeft[c] = 0
    /\ pc[c] \in {"send", "recv"} => dgLeft[c] > 0 /\ doits[c] > 0
    /\ seq[c] + ToBegin(c) <= doits[c] * MaxTrips

(* A client of bw_udp has taken what it no longer needs. *)
NeedFits ==
  dgProg = "bw_udp" =>
    \A c \in Clients :
      /\ pc[c] \in {"send", "recv"} => need[c] = D!Move - echo[c] * D!Msize
      /\ pc[c] = "recv" => need[c] > 0

(* The net has nothing of a client of lat_udp but the message, or the      *)
(* answer, that it waits for - as long as it doubles nothing.              *)
About(d, c) == d.to = c \/ d.from = c
OneUnderWay ==
  dgProg = "lat_udp" /\ dup = 0 =>
    \A c \in Clients : \A d \in net : About(d, c) /\ pc[c] # "gone" =>
      /\ pc[c] = "recv" /\ d.n = seq[c] - 1
      /\ \A e \in net : About(e, c) => e = d

(* What is under way of it, or about to be, the net has doubled.           *)
FewUnderWay ==
  dgProg = "lat_udp" =>
    \A c \in Clients : pc[c] # "gone" =>
      /\ IsFiniteSet(D!UnderWay(c))
      /\ Cardinality(D!UnderWay(c)) <= dup + D!Awaited(c)

DatagramIInv ==
  DatagramTypes /\ Posted /\ Requested /\ TripsFit /\ NeedFits /\ OneUnderWay /\ FewUnderWay

LEMMA Numbers ==
  ASSUME D!DatagramAssumption
  PROVE  /\ D!Server \notin Clients /\ D!Stopper \notin Clients /\ D!Server # D!Stopper
         /\ MaxTrips \in Nat /\ MaxDoits \in Nat /\ MaxDoits * MaxTrips \in Nat
         /\ Stops \in Nat /\ MaxDup \in Nat /\ MaxLoss \in Nat /\ MaxSends \in Nat /\ MaxSends > 0
         /\ Base \in Nat /\ Base > 0 /\ D!Word \in Nat
  BY DEF D!DatagramAssumption, D!Server, D!Stopper, D!Word

LEMMA Messages ==
  ASSUME D!DatagramAssumption, size \in Sizes
  PROVE  D!Msize \in Nat /\ D!Msize > 0 /\ D!Msize <= D!Word /\ D!Move \in Nat
<1>1. size \in (1 .. Base * Base - 1) \X (1 .. Base * Base - 1) /\ Base * Base \in Nat
  BY DEF D!DatagramAssumption
<1>2. PICK m, s \in 1 .. Base * Base - 1 : size = <<m, s>>
  BY <1>1
<1>3. m \in Nat /\ s \in Nat /\ s > 0 /\ s <= Base * Base
  BY <1>1, <1>2
<1>4. m % s \in 0 .. s - 1 /\ m % s <= m
  BY <1>3
<1> QED
  BY <1>2, <1>3, <1>4 DEF D!Msize, D!Move, D!Word

LEMMA TurnedAround ==
  ASSUME D!DatagramAssumption, big \in BOOLEAN, NEW x \in Nat
  PROVE  D!Ntohl(x) \in Int /\ (big => D!Ntohl(x) = x)
<1>1. Base \in Nat /\ Base > 0
  BY Numbers
<1>2. x % Base \in Nat /\ x \div Base \in Nat
  BY <1>1
<1>3. (x % Base) * Base \in Nat
  BY <1>1, <1>2
<1> QED
  BY <1>2, <1>3 DEF D!Ntohl

LEMMA Products ==
  ASSUME NEW a \in Nat, NEW b \in Nat
  PROVE  a * b \in Nat /\ \A c \in Nat : a <= c => a * b <= c * b
<1>1. a * b \in Nat
  OBVIOUS
<1>2. ASSUME NEW c \in Nat, a <= c PROVE a * b <= c * b
  <2>1. PICK k \in Nat : c = a + k
    <3>1. c - a \in Nat /\ c = a + (c - a)
      BY <1>2
    <3> QED
      BY <3>1
  <2>2. c * b = a * b + k * b /\ k * b \in Nat
    BY <2>1
  <2> QED
    BY <1>1, <2>2
<1> QED
  BY <1>1, <1>2

LEMMA OneMore ==
  ASSUME NEW a \in Int, NEW b \in Int
  PROVE  a * b \in Int /\ (a + 1) * b = a * b + b
  OBVIOUS

(* How far the numbers go. *)
LEMMA SeqBound ==
  ASSUME D!DatagramAssumption, DatagramIInv, NEW c \in Clients
  PROVE  seq[c] \in 0 .. MaxDoits * MaxTrips
<1>1. /\ seq[c] \in Nat /\ doits[c] \in Nat /\ doits[c] <= MaxDoits /\ dgLeft[c] \in Nat
      /\ seq[c] + ToBegin(c) <= doits[c] * MaxTrips
      /\ pc[c] \in {"send", "recv"} => dgLeft[c] > 0
  BY Numbers DEF DatagramIInv, DatagramTypes, TripsFit
<1>2. ToBegin(c) \in Nat
  BY <1>1 DEF ToBegin
<1>3. doits[c] * MaxTrips <= MaxDoits * MaxTrips /\ doits[c] * MaxTrips \in Nat
      /\ MaxDoits * MaxTrips \in Nat
  BY <1>1, Products, Numbers
<1> QED
  BY <1>1, <1>2, <1>3

----------------------------------------------------------------------------
(* What the conjuncts need to go on. *)

LEMMA PostedKeeps ==
  ASSUME D!DatagramAssumption, DatagramIInv, dgProg' = dgProg, size' = size,
         dgAsked => dgAsked', seq' \in [Clients -> Nat],
         \A c \in Clients : seq'[c] >= seq[c],
         \A d \in net' : d \in net \/ Known(d)'
  PROVE  Posted'
<1> SUFFICES ASSUME NEW d \in net' PROVE Known(d)'
  BY DEF Posted
<1>1. CASE d \in net
  <2>1. Known(d) /\ seq \in [Clients -> Nat]
    BY <1>1 DEF DatagramIInv, Posted, DatagramTypes
  <2>2. D!Move' = D!Move /\ D!Msize' = D!Msize
    BY DEF D!Move, D!Msize
  <2>3. \A c \in Clients : \A n \in 0 .. seq[c] - 1 : n \in 0 .. seq'[c] - 1
    BY <2>1
  <2> QED
    BY <2>1, <2>2, <2>3 DEF Known, FromClient
<1> QED
  BY <1>1

LEMMA NothingNewKeeps ==
  ASSUME DatagramIInv, dgProg' = dgProg, dup' = 0 => dup = 0,
         \A d \in net' : d \in net \/ \A c \in Clients : ~About(d, c),
         \A c \in Clients :
           \/ pc'[c] = "gone"
           \/ /\ seq'[c] = seq[c]
              /\ pc'[c] = pc[c] \/ {pc[c], pc'[c]} \subseteq {"init", "idle", "send"}
  PROVE  OneUnderWay'
<1> SUFFICES ASSUME dgProg = "lat_udp", dup' = 0, NEW c \in Clients, NEW d \in net',
                    About(d, c), pc'[c] # "gone"
             PROVE  /\ pc'[c] = "recv" /\ d.n = seq'[c] - 1
                    /\ \A e \in net' : About(e, c) => e = d
  BY DEF OneUnderWay, About
<1>1. d \in net /\ (\A e \in net' : About(e, c) => e \in net) /\ dup = 0
  OBVIOUS
<1>2. CASE pc[c] # "gone"
  <2>1. /\ pc[c] = "recv" /\ d.n = seq[c] - 1
        /\ \A e \in net : About(e, c) => e = d
    BY <1>1, <1>2 DEF DatagramIInv, OneUnderWay
  <2> QED
    BY <1>1, <2>1
<1>3. CASE pc[c] = "gone"
  BY <1>3
<1> QED
  BY <1>2, <1>3

(* Less, one more, one exchanged: how many there are then. *)
LEMMA Fewer ==
  ASSUME NEW S, NEW T, IsFiniteSet(S), T \subseteq S, NEW n \in Nat, Cardinality(S) <= n
  PROVE  IsFiniteSet(T) /\ Cardinality(T) \in Nat /\ Cardinality(T) <= n
<1>1. IsFiniteSet(T) /\ Cardinality(T) <= Cardinality(S)
  BY FS_Subset
<1>2. Cardinality(S) \in Nat /\ Cardinality(T) \in Nat
  BY <1>1, FS_CardinalityType
<1> QED
  BY <1>1, <1>2

LEMMA FewerByOne ==
  ASSUME NEW S, NEW T, NEW d \in S, IsFiniteSet(S), T \subseteq S \ {d}, NEW n \in Nat,
         Cardinality(S) <= n + 1
  PROVE  IsFiniteSet(T) /\ Cardinality(T) \in Nat /\ Cardinality(T) <= n
<1>1. /\ IsFiniteSet(S \ {d}) /\ Cardinality(S) \in Nat
      /\ Cardinality(S \ {d}) = Cardinality(S) - 1
  BY FS_RemoveElement, FS_CardinalityType
<1>2. Cardinality(S \ {d}) <= n
  BY <1>1
<1> QED
  BY <1>1, <1>2, Fewer

LEMMA OneAtMostMore ==
  ASSUME NEW S, NEW T, NEW d, IsFiniteSet(S), T \subseteq S \cup {d}, NEW n \in Nat,
         Cardinality(S) <= n
  PROVE  IsFiniteSet(T) /\ Cardinality(T) \in Nat /\ Cardinality(T) <= n + 1
<1>1. IsFiniteSet(S \cup {d}) /\ Cardinality(S) \in Nat
      /\ (Cardinality(S \cup {d}) = Cardinality(S) \/ Cardinality(S \cup {d}) = Cardinality(S) + 1)
  BY FS_AddElement, FS_CardinalityType
<1>2. Cardinality(S \cup {d}) <= n + 1 /\ n + 1 \in Nat
  BY <1>1
<1> QED
  BY <1>1, <1>2, Fewer

LEMMA FewFacts ==
  ASSUME DatagramIInv, dgProg = "lat_udp", NEW c \in Clients, pc[c] # "gone"
  PROVE  /\ IsFiniteSet(D!UnderWay(c)) /\ Cardinality(D!UnderWay(c)) <= dup + D!Awaited(c)
         /\ dup \in Nat /\ D!Awaited(c) \in Nat /\ dup + D!Awaited(c) \in Nat
<1>1. dup \in Nat /\ D!Awaited(c) \in Nat
  BY DEF DatagramIInv, DatagramTypes, D!Awaited
<1> QED
  BY <1>1 DEF DatagramIInv, FewUnderWay

LEMMA NothingMoreKeeps ==
  ASSUME DatagramIInv, dgProg' = dgProg, dup' = dup,
         \A d \in net' : d \in net \/ \A c \in Clients : ~About(d, c),
         \A c \in Clients :
           pc'[c] = "gone" \/ pc'[c] = pc[c] \/ {pc[c], pc'[c]} \subseteq {"init", "idle", "send"}
  PROVE  FewUnderWay'
<1> SUFFICES ASSUME dgProg = "lat_udp", NEW c \in Clients, pc'[c] # "gone"
             PROVE  IsFiniteSet(D!UnderWay(c)') /\ Cardinality(D!UnderWay(c)') <= dup' + D!Awaited(c)'
  BY DEF FewUnderWay
<1>1. pc[c] # "gone" /\ D!Awaited(c)' = D!Awaited(c)
  BY DEF D!Awaited
<1>2. D!UnderWay(c)' \subseteq D!UnderWay(c)
  BY DEF D!UnderWay, About
<1>3. /\ IsFiniteSet(D!UnderWay(c)) /\ Cardinality(D!UnderWay(c)) <= dup + D!Awaited(c)
      /\ dup + D!Awaited(c) \in Nat
  BY <1>1, FewFacts
<1> HIDE DEF DatagramIInv
<1>4. IsFiniteSet(D!UnderWay(c)') /\ Cardinality(D!UnderWay(c)') <= dup + D!Awaited(c)
  BY <1>2, <1>3, Fewer
<1> QED
  BY <1>1, <1>4

(* Nobody gets further. *)
LEMMA TripsStay ==
  ASSUME D!DatagramAssumption, DatagramIInv, doits' = doits, dgLeft' = dgLeft, seq' = seq,
         \A c \in Clients : pc'[c] = pc[c] \/ pc'[c] = "gone" \/ (pc[c] = "init" /\ pc'[c] = "idle")
  PROVE  TripsFit'
<1> SUFFICES ASSUME NEW c \in Clients
             PROVE  /\ pc'[c] = "init" => doits'[c] = 0
                    /\ pc'[c] \in {"init", "idle"} => dgLeft'[c] = 0
                    /\ pc'[c] \in {"send", "recv"} => dgLeft'[c] > 0 /\ doits'[c] > 0
                    /\ seq'[c] + ToBegin(c)' <= doits'[c] * MaxTrips
  BY DEF TripsFit
<1> DEFINE m == doits[c] * MaxTrips
<1>1. /\ pc[c] = "init" => doits[c] = 0
      /\ pc[c] \in {"init", "idle"} => dgLeft[c] = 0
      /\ pc[c] \in {"send", "recv"} => dgLeft[c] > 0 /\ doits[c] > 0
      /\ seq[c] + ToBegin(c) <= m
      /\ seq[c] \in Nat /\ dgLeft[c] \in Nat /\ doits[c] \in Nat
  BY Numbers DEF DatagramIInv, TripsFit, DatagramTypes
<1>2. m \in Nat
  BY <1>1, Products, Numbers
<1>3. ToBegin(c) \in Nat /\ (ToBegin(c)' = ToBegin(c) \/ ToBegin(c)' = 0)
  <2>1. ToBegin(c) \in Nat
    BY <1>1 DEF ToBegin
  <2>2. dgLeft'[c] = dgLeft[c]
    OBVIOUS
  <2>3. CASE pc'[c] = pc[c]
    BY <2>1, <2>2, <2>3 DEF ToBegin
  <2>4. CASE pc'[c] \in {"gone", "idle"}
    BY <2>1, <2>4 DEF ToBegin
  <2> QED
    BY <2>1, <2>3, <2>4
<1>4. doits'[c] * MaxTrips = m
  OBVIOUS
<1> HIDE DEF m
<1>5. seq[c] + ToBegin(c)' <= m
  BY <1>1, <1>2, <1>3
<1> QED
  BY <1>1, <1>4, <1>5

LEMMA NeedStays ==
  ASSUME DatagramIInv, dgProg' = dgProg, size' = size, need' = need, echo' = echo,
         \A c \in Clients : pc'[c] \in {"send", "recv"} => pc'[c] = pc[c]
  PROVE  NeedFits'
<1>1. D!Move' = D!Move /\ D!Msize' = D!Msize
  BY DEF D!Move, D!Msize
<1> QED
  BY <1>1 DEF DatagramIInv, NeedFits

----------------------------------------------------------------------------
(* The servers. *)

LEMMA Sent ==
  ASSUME DatagramIInv, NEW d, NEW out, D!Deliver(d, out)
  PROVE  /\ net' \subseteq net \cup out
         /\ dup' = dup => net' \subseteq (net \ {d}) \cup out
         /\ dup' = dup \/ (dup < MaxDup /\ dup' = dup + 1)
<1>1. \A ds : D!Net(ds) => net' \subseteq ds
  BY DEF D!Net
<1>2. dup # dup + 1
  BY DEF DatagramIInv, DatagramTypes
<1>3. \/ D!Net((net \ {d}) \cup out) /\ dup' = dup
      \/ dup < MaxDup /\ dup' = dup + 1 /\ D!Net(net \cup out)
  BY DEF D!Deliver
<1> QED
  BY <1>1, <1>2, <1>3

LEMMA DupFits ==
  ASSUME D!DatagramAssumption, DatagramIInv, dup' = dup \/ (dup < MaxDup /\ dup' = dup + 1)
  PROVE  dup' \in 0 .. MaxDup /\ (dup' = 0 => dup' = dup)
  BY Numbers DEF DatagramIInv, DatagramTypes

LEMMA UdpEchoKeeps ==
  ASSUME D!DatagramAssumption, DatagramIInv, D!UdpEcho
  PROVE  DatagramIInv'
<1>1. PICK d \in net :
        /\ dgProg = "lat_udp" /\ d.to = D!Server /\ ~D!Negative(d.n) /\ dgWord' = d.n
        /\ D!Deliver(d, {D!Datagram(d.from, D!Server, d.n, d.size)})
        /\ UNCHANGED <<dgProg, big, size, srv, port, job, D!client, dgAsked, lost>>
  BY DEF D!UdpEcho, D!ForServer
<1>2. /\ d.from \in Clients /\ d.n \in 0 .. seq[d.from] - 1 /\ DatagramTypes
  BY <1>1, Numbers DEF DatagramIInv, Posted, Known, FromClient, D!Negative
<1> DEFINE c == d.from
<1> DEFINE a == D!Datagram(c, D!Server, d.n, d.size)
<1>3. a.to = c /\ a.from = D!Server /\ a.n = d.n
  BY DEF D!Datagram
<1>4. /\ net' \subseteq net \cup {a} /\ (dup' = dup => net' \subseteq (net \ {d}) \cup {a})
      /\ dup' \in 0 .. MaxDup /\ (dup' = 0 => dup' = dup)
  BY <1>1, Sent, DupFits
<1>5. DatagramTypes'
  <2>1. seq[c] \in 0 .. MaxDoits * MaxTrips
    BY <1>2, SeqBound
  <2>2. d.n \in 0 .. D!Word + MaxDoits * MaxTrips
    BY <1>2, <2>1, Numbers
  <2> QED
    BY <1>1, <1>2, <1>4, <2>2 DEF DatagramTypes, D!client, D!Word
<1>6. Posted'
  <2>1. Known(a)'
    BY <1>1, <1>2, <1>3 DEF Known, D!client
  <2>2. seq' = seq /\ seq \in [Clients -> Nat] /\ \A p \in Clients : seq'[p] >= seq[p]
    BY <1>1, <1>2 DEF D!client, DatagramTypes
  <2> QED
    BY <1>1, <1>4, <2>1, <2>2, PostedKeeps
<1>7. Requested' /\ NeedFits'
  BY <1>1 DEF Requested, NeedFits
<1>8. TripsFit'
  BY <1>1, TripsStay DEF D!client
<1>9. OneUnderWay'
  <2> SUFFICES ASSUME dup' = 0, NEW p \in Clients, NEW x \in net', About(x, p), pc[p] # "gone"
               PROVE  /\ pc[p] = "recv" /\ x.n = seq[p] - 1
                      /\ \A e \in net' : About(e, p) => e = x
    BY <1>1 DEF OneUnderWay, About, D!client
  <2>1. dup = 0 /\ net' \subseteq (net \ {d}) \cup {a}
    BY <1>4
  <2>2. \A e \in net : About(e, p) =>
          /\ pc[p] = "recv" /\ e.n = seq[p] - 1
          /\ \A f \in net : About(f, p) => f = e
    BY <1>1, <2>1 DEF DatagramIInv, OneUnderWay
  <2>3. About(d, c) /\ About(a, c) /\ (p # c => ~About(a, p))
    BY <1>2, <1>3, Numbers DEF About
  <2> HIDE DEF a, c
  <2>4. CASE p = c
    BY <1>3, <2>1, <2>2, <2>3, <2>4
  <2>5. CASE p # c
    BY <2>1, <2>2, <2>3, <2>5
  <2> QED
    BY <2>4, <2>5
<1>10. FewUnderWay'
  <2> SUFFICES ASSUME NEW p \in Clients, pc[p] # "gone"
               PROVE  IsFiniteSet(D!UnderWay(p)') /\ Cardinality(D!UnderWay(p)') <= dup' + D!Awaited(p)
    BY <1>1 DEF FewUnderWay, D!client, D!Awaited
  <2> DEFINE S == D!UnderWay(p)
  <2> DEFINE T == D!UnderWay(p)'
  <2>1. /\ IsFiniteSet(S) /\ Cardinality(S) <= dup + D!Awaited(p)
        /\ dup \in Nat /\ D!Awaited(p) \in Nat /\ dup + D!Awaited(p) \in Nat
    BY <1>1, FewFacts
  <2>2. dup' = dup \/ dup' = dup + 1
    BY <1>1, Sent
  <2>3. /\ T \subseteq S \cup {a} /\ (dup' = dup => T \subseteq (S \ {d}) \cup {a})
        /\ p # c => T \subseteq S
    BY <1>2, <1>3, <1>4, Numbers DEF D!UnderWay
  <2>4. p = c => d \in S
    BY DEF D!UnderWay
  <2> HIDE DEF a, c, S, T
  <2>5. CASE p # c
    <3>1. IsFiniteSet(T) /\ Cardinality(T) \in Nat /\ Cardinality(T) <= dup + D!Awaited(p)
      BY <2>1, <2>3, <2>5, Fewer
    <3> QED
      BY <2>1, <2>2, <3>1 DEF T
  <2>6. CASE p = c /\ dup' = dup
    <3>1. IsFiniteSet(S \ {d}) /\ Cardinality(S \ {d}) = Cardinality(S) - 1 /\ Cardinality(S) \in Nat
          /\ Cardinality(S \ {d}) \in Nat
      BY <2>1, <2>4, <2>6, FS_RemoveElement, FS_CardinalityType
    <3> DEFINE R == S \ {d}
    <3>2. T \subseteq R \cup {a} /\ IsFiniteSet(R) /\ Cardinality(R) \in Nat
      BY <2>3, <2>6, <3>1
    <3> HIDE DEF R
    <3>3. Cardinality(R) <= Cardinality(R)
      BY <3>2
    <3>4. IsFiniteSet(T) /\ Cardinality(T) \in Nat /\ Cardinality(T) <= Cardinality(R) + 1
      BY <3>2, <3>3, OneAtMostMore
    <3>5. Cardinality(R) = Cardinality(S) - 1
      BY <3>1 DEF R
    <3> QED
      BY <2>1, <2>6, <3>1, <3>4, <3>5 DEF T
  <2>7. CASE dup' = dup + 1
    <3>1. IsFiniteSet(T) /\ Cardinality(T) \in Nat /\ Cardinality(T) <= (dup + D!Awaited(p)) + 1
      BY <2>1, <2>3, OneAtMostMore
    <3> QED
      BY <2>1, <2>7, <3>1 DEF T
  <2> QED
    BY <2>2, <2>5, <2>6, <2>7
<1> QED
  BY <1>5, <1>6, <1>7, <1>8, <1>9, <1>10 DEF DatagramIInv

LEMMA RpcAnswerKeeps ==
  ASSUME D!DatagramAssumption, DatagramIInv, D!RpcAnswer
  PROVE  DatagramIInv'
<1>1. PICK d \in net :
        /\ dgProg = "lat_rpc" /\ d.to = D!Server /\ d.from # D!Stopper
        /\ D!Deliver(d, {D!Datagram(d.from, D!Server, d.n, d.size)})
        /\ UNCHANGED <<dgProg, big, size, D!server, D!client, dgAsked, lost>>
  BY DEF D!RpcAnswer, D!ForServer
<1>2. d.from \in Clients /\ DatagramTypes
  BY <1>1, Numbers DEF DatagramIInv, Posted, Known
<1> DEFINE a == D!Datagram(d.from, D!Server, d.n, d.size)
<1>3. a.to = d.from /\ a.from = D!Server
  BY DEF D!Datagram
<1>4. net' \subseteq net \cup {a} /\ dup' \in 0 .. MaxDup
  BY <1>1, Sent, DupFits
<1>5. DatagramTypes'
  BY <1>1, <1>2, <1>4 DEF DatagramTypes, D!server, D!client, D!Word
<1>6. Posted'
  <2>1. Known(a)'
    BY <1>1, <1>2, <1>3 DEF Known, D!client
  <2>2. seq' = seq /\ seq \in [Clients -> Nat] /\ \A p \in Clients : seq'[p] >= seq[p]
    BY <1>1, <1>2 DEF D!client, DatagramTypes
  <2> QED
    BY <1>1, <1>4, <2>1, <2>2, PostedKeeps
<1>7. Requested' /\ NeedFits' /\ OneUnderWay' /\ FewUnderWay'
  BY <1>1 DEF Requested, NeedFits, OneUnderWay, FewUnderWay
<1>8. TripsFit'
  BY <1>1, TripsStay DEF D!client
<1> QED
  BY <1>5, <1>6, <1>7, <1>8 DEF DatagramIInv

(* A server that goes, a network that loses, -S that sends. *)
LEMMA RestKeeps ==
  ASSUME D!DatagramAssumption, DatagramIInv, UNCHANGED <<dgProg, big, size, job, dgWord,
                                                         D!client, dup>>,
         srv' \in BOOLEAN, port' \in BOOLEAN, dgAsked' \in BOOLEAN, dgAsked => dgAsked',
         lost' \in 0 .. MaxLoss,
         \A d \in net' : d \in net \/ (d.to = D!Server /\ d.from = D!Stopper /\ d.n \in Int /\ d.n < 0 /\ dgAsked')
  PROVE  DatagramIInv'
<1>1. DatagramTypes'
  BY DEF DatagramIInv, DatagramTypes, D!client, D!Word
<1>2. Posted'
  <2>1. \A d \in net' : d \in net \/ Known(d)'
    BY DEF Known
  <2>2. seq' = seq /\ seq \in [Clients -> Nat] /\ \A p \in Clients : seq'[p] >= seq[p]
    BY DEF D!client, DatagramIInv, DatagramTypes
  <2> QED
    BY <2>1, <2>2, PostedKeeps
<1>3. Requested'
  BY DEF DatagramIInv, Requested, D!Msize
<1>4. TripsFit' /\ NeedFits'
  BY TripsStay, NeedStays DEF D!client
<1>5. OneUnderWay' /\ FewUnderWay'
  <2>1. \A d \in net' : d \in net \/ \A c \in Clients : ~About(d, c)
    BY Numbers DEF About
  <2> QED
    BY <2>1, NothingNewKeeps, NothingMoreKeeps DEF D!client
<1> QED
  BY <1>1, <1>2, <1>3, <1>4, <1>5 DEF DatagramIInv

LEMMA ServerGoesKeeps ==
  ASSUME D!DatagramAssumption, DatagramIInv,
         D!UdpShutdown \/ D!RpcExit \/ D!BwSendFails \/ D!GoAway
  PROVE  DatagramIInv'
<1>1. /\ UNCHANGED <<dgProg, big, size, job, dgWord, D!client, dup, dgAsked, lost>>
      /\ srv' \in BOOLEAN /\ port' \in BOOLEAN /\ net' \subseteq net
  BY DEF D!UdpShutdown, D!RpcExit, D!BwSendFails, D!GoAway, D!Close, D!faults, DatagramIInv,
     DatagramTypes
<1>2. lost' \in 0 .. MaxLoss /\ dgAsked' \in BOOLEAN
  BY <1>1 DEF DatagramIInv, DatagramTypes
<1> QED
  BY <1>1, <1>2, RestKeeps

LEMMA LoseKeeps ==
  ASSUME D!DatagramAssumption, DatagramIInv, D!Lose
  PROVE  DatagramIInv'
<1>1. /\ UNCHANGED <<dgProg, big, size, srv, port, job, dgWord, D!client, dup, dgAsked>>
      /\ net' \subseteq net /\ lost < MaxLoss /\ lost' = lost + 1
  BY DEF D!Lose, D!server
<1>2. lost' \in 0 .. MaxLoss /\ dgAsked' \in BOOLEAN /\ srv' \in BOOLEAN /\ port' \in BOOLEAN
  BY <1>1, Numbers DEF DatagramIInv, DatagramTypes
<1> QED
  BY <1>1, <1>2, RestKeeps

LEMMA StopKeeps ==
  ASSUME D!DatagramAssumption, DatagramIInv, D!Stop
  PROVE  DatagramIInv'
<1>1. /\ UNCHANGED <<dgProg, big, size, srv, port, job, dgWord, D!client, dup, lost>> /\ dgAsked' = TRUE
      /\ net' \subseteq net \cup {D!Datagram(D!Server, D!Stopper, n, 0) : n \in D!StopNumbers}
  BY DEF D!Stop, D!server, D!faults, D!Net
<1>2. \A n \in D!StopNumbers : n \in Int /\ n < 0
  BY Numbers DEF D!StopNumbers
<1>3. \A d \in net' : d \in net \/ (d.to = D!Server /\ d.from = D!Stopper /\ d.n \in Int /\ d.n < 0 /\ dgAsked')
  BY <1>1, <1>2 DEF D!Datagram
<1>4. lost' \in 0 .. MaxLoss /\ srv' \in BOOLEAN /\ port' \in BOOLEAN
  BY <1>1 DEF DatagramIInv, DatagramTypes
<1> QED
  BY <1>1, <1>3, <1>4, RestKeeps

(* bw_udp is asked for something, by a client or by -S, and sends. *)
LEMMA BwWorksKeeps ==
  ASSUME D!DatagramAssumption, DatagramIInv, dgProg = "bw_udp",
         UNCHANGED <<dgProg, big, size, srv, port, D!client, dgAsked, lost>>,
         dup' \in 0 .. MaxDup, dgWord' \in 0 .. D!Word + MaxDoits * MaxTrips,
         job' \in [to : Clients \cup {D!Stopper}, left : Int, sent : Nat], Requested',
         \A d \in net' : d \in net \/ (d.to \in Clients /\ d.from = D!Server)
  PROVE  DatagramIInv'
<1>1. DatagramTypes'
  BY DEF DatagramIInv, DatagramTypes, D!client, D!Word
<1>2. Posted'
  <2>1. \A d \in net' : d \in net \/ Known(d)'
    BY DEF Known
  <2>2. seq' = seq /\ seq \in [Clients -> Nat] /\ \A p \in Clients : seq'[p] >= seq[p]
    BY DEF D!client, DatagramIInv, DatagramTypes
  <2> QED
    BY <2>1, <2>2, PostedKeeps
<1>3. TripsFit' /\ NeedFits' /\ OneUnderWay' /\ FewUnderWay'
  BY TripsStay, NeedStays DEF D!client, OneUnderWay, FewUnderWay
<1> QED
  BY <1>1, <1>2, <1>3 DEF DatagramIInv

LEMMA BwRequestKeeps ==
  ASSUME D!DatagramAssumption, DatagramIInv, D!BwRequest
  PROVE  DatagramIInv'
<1>1. PICK d \in net :
        /\ dgProg = "bw_udp" /\ d.to = D!Server /\ D!Deliver(d, {})
        /\ dgWord' = IF d.from = D!Stopper THEN dgWord ELSE d.size
        /\ job' = [to |-> d.from, sent |-> 0,
                   left |-> IF d.from = D!Stopper THEN D!Word + d.n ELSE D!Ntohl(d.n)]
        /\ UNCHANGED <<dgProg, big, size, srv, port, D!client, dgAsked, lost>>
  BY DEF D!BwRequest, D!ForServer
<1>2. /\ DatagramTypes /\ dgWord \in 0 .. D!Word + MaxDoits * MaxTrips
      /\ D!Msize \in Nat /\ D!Msize <= D!Word /\ D!Move \in Nat
      /\ \/ d.from = D!Stopper /\ d.n \in Int /\ dgAsked
         \/ d.from \in Clients /\ d.n = D!Move /\ d.size = D!Msize
  <2>1. /\ DatagramTypes
        /\ \/ d.from = D!Stopper /\ d.n \in Int /\ dgAsked
           \/ d.from \in Clients /\ d.n = D!Move /\ d.size = D!Msize
    <3>1. DatagramTypes /\ Known(d)
      BY <1>1 DEF DatagramIInv, Posted
    <3> QED
      BY <1>1, <3>1, Numbers DEF Known, FromClient
  <2> QED
    BY <2>1, Messages DEF DatagramTypes
<1>3. net' \subseteq net /\ dup' \in 0 .. MaxDup
  BY <1>1, Sent, DupFits
<1>4. dgWord' \in 0 .. D!Word + MaxDoits * MaxTrips
  BY <1>1, <1>2, Numbers
<1>5. job' \in [to : Clients \cup {D!Stopper}, left : Int, sent : Nat]
  <2>1. d.n \in Nat => D!Ntohl(d.n) \in Int
    BY <1>2, TurnedAround DEF DatagramTypes
  <2> QED
    BY <1>1, <1>2, <2>1, Numbers
<1>6. Requested'
  BY <1>1, <1>2, Numbers DEF Requested, D!Msize
<1> QED
  BY <1>1, <1>3, <1>4, <1>5, <1>6, BwWorksKeeps

LEMMA BwSendKeeps ==
  ASSUME D!DatagramAssumption, DatagramIInv, D!BwSend
  PROVE  DatagramIInv'
<1>1. /\ dgProg = "bw_udp" /\ job.left > 0
      /\ job' = [job EXCEPT !.left = @ - D!Ntohl(dgWord),
                            !.sent = IF job.to = D!Stopper THEN 0 ELSE @ + 1]
      /\ UNCHANGED <<dgProg, big, size, srv, port, dgWord, D!client, dgAsked, lost, dup>>
  BY DEF D!BwSend, D!faults
<1>2. DatagramTypes /\ dgWord \in Nat
  <2>1. DatagramTypes /\ dgWord \in 0 .. D!Word + MaxDoits * MaxTrips
    BY DEF DatagramIInv, DatagramTypes
  <2> QED
    BY <2>1, Numbers
<1>3. D!Ntohl(dgWord) \in Int
  BY <1>2, TurnedAround DEF DatagramTypes
<1>4. job' \in [to : Clients \cup {D!Stopper}, left : Int, sent : Nat]
  <2> DEFINE l == job.left - D!Ntohl(dgWord)
  <2> DEFINE s == IF job.to = D!Stopper THEN 0 ELSE job.sent + 1
  <2>1. job \in [to : Clients \cup {D!Stopper}, left : Int, sent : Nat] /\ l \in Int /\ s \in Nat
    BY <1>2, <1>3 DEF DatagramTypes
  <2>2. job' = [job EXCEPT !.left = l, !.sent = s]
    BY <1>1
  <2> HIDE DEF l, s
  <2> QED
    BY <2>1, <2>2
<1>5. Requested'
  BY <1>1 DEF DatagramIInv, Requested, D!Msize
<1>6. \A d \in net' : d \in net \/ (d.to \in Clients /\ d.from = D!Server)
  <2>1. CASE job.to = D!Stopper
    BY <2>1 DEF D!BwSend
  <2>2. CASE job.to # D!Stopper
    <3>1. job.to \in Clients
      BY <1>2, <2>2 DEF DatagramTypes
    <3>2. net' \subseteq net \cup {D!Datagram(job.to, D!Server, job.sent, D!Ntohl(dgWord))}
      BY <2>2 DEF D!BwSend, D!Net
    <3> QED
      BY <3>1, <3>2 DEF D!Datagram
  <2> QED
    BY <2>1, <2>2
<1>7. dgWord' \in 0 .. D!Word + MaxDoits * MaxTrips /\ dup' \in 0 .. MaxDup
  BY <1>1, <1>2 DEF DatagramTypes
<1> QED
  BY <1>1, <1>4, <1>5, <1>6, <1>7, BwWorksKeeps

----------------------------------------------------------------------------
(* The clients. *)

Others(c) ==
  \A p \in Clients : p # c =>
    /\ pc'[p] = pc[p] /\ seq'[p] = seq[p] /\ dgLeft'[p] = dgLeft[p] /\ doits'[p] = doits[p]
    /\ need'[p] = need[p] /\ echo'[p] = echo[p]

LEMMA TripsMove ==
  ASSUME DatagramIInv, NEW c \in Clients, Others(c),
         pc'[c] = "init" => doits'[c] = 0,
         pc'[c] \in {"init", "idle"} => dgLeft'[c] = 0,
         pc'[c] \in {"send", "recv"} => dgLeft'[c] > 0 /\ doits'[c] > 0,
         seq'[c] + ToBegin(c)' <= doits'[c] * MaxTrips
  PROVE  TripsFit'
<1> SUFFICES ASSUME NEW p \in Clients, p # c
             PROVE  /\ pc'[p] = "init" => doits'[p] = 0
                    /\ pc'[p] \in {"init", "idle"} => dgLeft'[p] = 0
                    /\ pc'[p] \in {"send", "recv"} => dgLeft'[p] > 0 /\ doits'[p] > 0
                    /\ seq'[p] + ToBegin(p)' <= doits'[p] * MaxTrips
  BY DEF TripsFit
<1>1. ToBegin(p)' = ToBegin(p) /\ doits'[p] * MaxTrips = doits[p] * MaxTrips /\ seq'[p] = seq[p]
  BY DEF Others, ToBegin
<1>2. seq[p] + ToBegin(p) <= doits[p] * MaxTrips
  BY DEF DatagramIInv, TripsFit
<1> QED
  BY <1>1, <1>2 DEF DatagramIInv, TripsFit, Others

LEMMA NeedMoves ==
  ASSUME DatagramIInv, NEW c \in Clients, Others(c), dgProg' = dgProg, size' = size,
         dgProg = "bw_udp" =>
           /\ pc'[c] \in {"send", "recv"} => need'[c] = D!Move - echo'[c] * D!Msize
           /\ pc'[c] = "recv" => need'[c] > 0
  PROVE  NeedFits'
<1>1. D!Move' = D!Move /\ D!Msize' = D!Msize
  BY DEF D!Move, D!Msize
<1> QED
  BY <1>1 DEF DatagramIInv, NeedFits, Others

LEMMA LeaveKeeps ==
  ASSUME D!DatagramAssumption, DatagramIInv, NEW c \in Clients, D!Leave(c),
         UNCHANGED <<dgProg, big, size, D!server, seq, dgLeft, doits, need, sends, echo,
                     dgAsked, D!faults>>
  PROVE  DatagramIInv'
<1>1. /\ UNCHANGED <<dgProg, big, size, srv, port, job, dgWord, seq, dgLeft, doits, need, sends,
                     echo,
                     dgAsked, lost, dup>>
      /\ pc' = [pc EXCEPT ![c] = "gone"] /\ alarm' = [alarm EXCEPT ![c] = FALSE]
      /\ net' \subseteq net
  BY DEF D!Leave, D!Goto, D!Close, D!server, D!faults
<1>2. DatagramTypes /\ DatagramTypes'
  BY <1>1 DEF DatagramIInv, DatagramTypes, ClientLabels, D!Word
<1>3. \A p \in Clients : pc'[p] = pc[p] \/ pc'[p] = "gone"
  BY <1>1, <1>2 DEF DatagramTypes
<1>4. Posted'
  <2>1. seq' = seq /\ seq \in [Clients -> Nat] /\ \A p \in Clients : seq'[p] >= seq[p]
    BY <1>1, <1>2 DEF DatagramTypes
  <2> QED
    BY <1>1, <2>1, PostedKeeps
<1>5. Requested' /\ TripsFit' /\ NeedFits'
  BY <1>1, <1>3, TripsStay, NeedStays DEF DatagramIInv, Requested, D!Msize
<1>6. OneUnderWay' /\ FewUnderWay'
  BY <1>1, <1>3, NothingNewKeeps, NothingMoreKeeps
<1> QED
  BY <1>2, <1>4, <1>5, <1>6 DEF DatagramIInv

LEMMA ClientLeavesKeeps ==
  ASSUME D!DatagramAssumption, DatagramIInv, NEW c \in Clients,
         D!ConnectFails(c) \/ D!Cleanup(c) \/ D!CallTimesOut(c) \/ D!Timeout(c) \/ D!Refused(c)
  PROVE  DatagramIInv'
<1>1. /\ D!Leave(c)
      /\ UNCHANGED <<dgProg, big, size, D!server, seq, dgLeft, doits, need, sends, echo,
                     dgAsked, D!faults>>
  BY DEF D!ConnectFails, D!Cleanup, D!CallTimesOut, D!Timeout, D!Refused
<1> QED
  BY <1>1, LeaveKeeps

LEMMA DatagramConnectKeeps ==
  ASSUME D!DatagramAssumption, DatagramIInv, NEW c \in Clients, D!Connect(c)
  PROVE  DatagramIInv'
<1>1. /\ UNCHANGED <<dgProg, big, size, srv, port, job, dgWord, net, seq, dgLeft, doits, need,
                     sends, echo,
                     dgAsked, lost, dup>>
      /\ pc[c] = "init" /\ pc' = [pc EXCEPT ![c] = "idle"]
      /\ alarm' = [alarm EXCEPT ![c] = dgProg = "lat_udp"]
  BY DEF D!Connect, D!Goto, D!server, D!faults
<1>2. DatagramTypes /\ DatagramTypes'
  <2>1. (dgProg = "lat_udp") \in BOOLEAN
    OBVIOUS
  <2>2. alarm' \in [Clients -> BOOLEAN]
    BY <1>1, <2>1 DEF DatagramIInv, DatagramTypes
  <2> QED
    BY <1>1, <2>2 DEF DatagramIInv, DatagramTypes, ClientLabels, D!Word
<1>3. \A p \in Clients : pc'[p] = pc[p] \/ (pc[p] = "init" /\ pc'[p] = "idle")
  BY <1>1, <1>2 DEF DatagramTypes
<1>4. Posted'
  <2>1. seq' = seq /\ seq \in [Clients -> Nat] /\ \A p \in Clients : seq'[p] >= seq[p]
    BY <1>1, <1>2 DEF DatagramTypes
  <2> QED
    BY <1>1, <2>1, PostedKeeps
<1>5. Requested' /\ TripsFit' /\ NeedFits'
  BY <1>1, <1>3, TripsStay, NeedStays DEF DatagramIInv, Requested, D!Msize
<1>6. OneUnderWay' /\ FewUnderWay'
  BY <1>1, <1>3, NothingNewKeeps, NothingMoreKeeps
<1> QED
  BY <1>2, <1>4, <1>5, <1>6 DEF DatagramIInv

LEMMA DoitKeeps ==
  ASSUME D!DatagramAssumption, DatagramIInv, NEW c \in Clients, D!Doit(c)
  PROVE  DatagramIInv'
<1>1. PICK n \in 1 .. MaxTrips :
        /\ UNCHANGED <<dgProg, big, size, srv, port, job, dgWord, net, seq, sends, dgAsked,
                       lost, dup>>
        /\ pc[c] = "idle" /\ pc' = [pc EXCEPT ![c] = "send"]
        /\ dgLeft' = [dgLeft EXCEPT ![c] = n]
        /\ doits[c] < MaxDoits /\ doits' = [doits EXCEPT ![c] = @ + 1]
        /\ alarm' = [alarm EXCEPT ![c] = @ \/ dgProg = "lat_udp"]
        /\ need' = [need EXCEPT ![c] = D!Move] /\ echo' = [echo EXCEPT ![c] = 0]
  BY DEF D!Doit, D!Goto, D!server, D!faults
<1>2. /\ DatagramTypes /\ seq[c] \in Nat /\ doits[c] \in Nat /\ dgLeft[c] = 0 /\ n \in Nat /\ n > 0
      /\ n <= MaxTrips /\ MaxTrips \in Nat /\ D!Move \in Nat /\ D!Msize \in Nat
      /\ seq[c] <= doits[c] * MaxTrips
  <2>1. /\ DatagramTypes /\ seq[c] \in Nat /\ doits[c] \in Nat /\ dgLeft[c] = 0
        /\ seq[c] + ToBegin(c) <= doits[c] * MaxTrips
    BY <1>1, Numbers DEF DatagramIInv, TripsFit, DatagramTypes
  <2>2. ToBegin(c) = 0
    BY <1>1 DEF ToBegin
  <2>3. seq[c] + 0 = seq[c]
    BY <2>1
  <2>4. D!Move \in Nat /\ D!Msize \in Nat
    BY <2>1, Messages DEF DatagramTypes
  <2> QED
    BY <1>1, <2>1, <2>2, <2>3, <2>4, Numbers
<1>3. /\ pc' \in [Clients -> ClientLabels] /\ pc'[c] = "send"
      /\ dgLeft' \in [Clients -> 0 .. MaxTrips] /\ dgLeft'[c] = n
      /\ doits' \in [Clients -> 0 .. MaxDoits] /\ doits'[c] = doits[c] + 1
      /\ need' \in [Clients -> Int] /\ need'[c] = D!Move
      /\ echo' \in [Clients -> Int] /\ echo'[c] = 0
  BY <1>1, <1>2, Numbers DEF DatagramTypes, ClientLabels
<1>4. Others(c)
  BY <1>1 , <1>2 DEF Others, DatagramTypes
<1>5. DatagramTypes'
  <2>1. (alarm[c] \/ dgProg = "lat_udp") \in BOOLEAN
    OBVIOUS
  <2>2. alarm' \in [Clients -> BOOLEAN]
    BY <1>1, <1>2, <2>1 DEF DatagramTypes
  <2> QED
    BY <1>1, <1>2, <1>3, <2>2 DEF DatagramTypes, D!Word
<1>6. Posted'
  <2>1. seq' = seq /\ seq \in [Clients -> Nat] /\ \A p \in Clients : seq'[p] >= seq[p]
    BY <1>1, <1>2 DEF DatagramTypes
  <2> QED
    BY <1>1, <2>1, PostedKeeps
<1>7. Requested'
  BY <1>1 DEF DatagramIInv, Requested, D!Msize
<1>8. TripsFit'
  <2>1. (doits[c] + 1) * MaxTrips = doits[c] * MaxTrips + MaxTrips /\ doits[c] * MaxTrips \in Nat
    BY <1>2, OneMore, Products
  <2>2. seq'[c] = seq[c] /\ ToBegin(c)' = n
    BY <1>1, <1>3 DEF ToBegin
  <2>3. seq[c] + n <= doits'[c] * MaxTrips
    BY <1>2, <1>3, <2>1
  <2> QED
    BY <1>2, <1>3, <1>4, <2>2, <2>3, TripsMove
<1>9. NeedFits'
  BY <1>1, <1>2, <1>3, <1>4, NeedMoves
<1>10. OneUnderWay' /\ FewUnderWay'
  <2>1. \A p \in Clients : seq'[p] = seq[p] /\ (pc'[p] = pc[p] \/ {pc[p], pc'[p]} \subseteq {"init", "idle", "send"})
    BY <1>1, <1>3, <1>4 DEF Others
  <2> QED
    BY <1>1, <2>1, NothingNewKeeps, NothingMoreKeeps
<1> QED
  BY <1>5, <1>6, <1>7, <1>8, <1>9, <1>10 DEF DatagramIInv

(* A client begins an iteration; to one of bw_udp that waits for nothing   *)
(* more it is also the end of it.                                          *)
LEMMA SendKeeps ==
  ASSUME D!DatagramAssumption, DatagramIInv, NEW c \in Clients, D!Send(c)
  PROVE  DatagramIInv'
<1>0. PICK d : d = IF dgProg = "bw_udp" THEN D!Datagram(D!Server, c, D!Move, D!Msize)
                   ELSE D!Datagram(D!Server, c, seq[c], 0)
  OBVIOUS
<1> DEFINE through == dgProg = "bw_udp" /\ need[c] <= 0
<1>1. /\ UNCHANGED <<dgProg, big, size, srv, port, job, dgWord, doits, need, alarm, echo,
                     dgAsked, lost, dup>>
      /\ pc[c] = "send" /\ net' \subseteq net \cup {d}
      /\ seq' = [seq EXCEPT ![c] = @ + 1] /\ sends' = [sends EXCEPT ![c] = 1]
      /\ IF through
           THEN /\ dgLeft' = [dgLeft EXCEPT ![c] = @ - 1]
                /\ pc' = [pc EXCEPT ![c] = IF dgLeft[c] = 1 THEN "idle" ELSE "send"]
           ELSE dgLeft' = dgLeft /\ pc' = [pc EXCEPT ![c] = "recv"]
  BY <1>0 DEF D!Send, D!Trip, D!Goto, D!Net, D!server, D!faults
<1>2. /\ DatagramTypes /\ seq[c] \in Nat /\ doits[c] \in Nat /\ doits[c] > 0 /\ dgLeft[c] \in Nat
      /\ dgLeft[c] > 0 /\ dgLeft[c] <= MaxTrips /\ MaxTrips \in Nat
      /\ seq[c] + dgLeft[c] <= doits[c] * MaxTrips /\ doits[c] * MaxTrips \in Nat
  <2>1. /\ DatagramTypes /\ seq[c] \in Nat /\ doits[c] \in Nat /\ doits[c] > 0 /\ dgLeft[c] \in Nat
        /\ dgLeft[c] > 0 /\ dgLeft[c] <= MaxTrips /\ MaxTrips \in Nat
        /\ seq[c] + ToBegin(c) <= doits[c] * MaxTrips
    BY <1>1, Numbers DEF DatagramIInv, TripsFit, DatagramTypes
  <2>2. ToBegin(c) = dgLeft[c]
    BY <1>1 DEF ToBegin
  <2> QED
    BY <2>1, <2>2, Products
<1>3. /\ d.to = D!Server /\ d.from = c
      /\ dgProg = "bw_udp" => d.n = D!Move /\ d.size = D!Msize
      /\ dgProg # "bw_udp" => d.n = seq[c]
  BY <1>0 DEF D!Datagram
<1> HIDE DEF through
<1>4. /\ pc' \in [Clients -> ClientLabels] /\ dgLeft' \in [Clients -> 0 .. MaxTrips]
      /\ \/ through /\ dgLeft'[c] = dgLeft[c] - 1 /\ pc'[c] = IF dgLeft[c] = 1 THEN "idle" ELSE "send"
         \/ ~through /\ dgLeft'[c] = dgLeft[c] /\ pc'[c] = "recv"
      /\ \A p \in Clients : p # c => pc'[p] = pc[p] /\ dgLeft'[p] = dgLeft[p]
  <2>1. CASE through
    <3> DEFINE l == dgLeft[c] - 1
    <3> DEFINE s == IF dgLeft[c] = 1 THEN "idle" ELSE "send"
    <3>1. l \in 0 .. MaxTrips /\ s \in ClientLabels
      BY <1>2 DEF ClientLabels
    <3>2. dgLeft' = [dgLeft EXCEPT ![c] = l] /\ pc' = [pc EXCEPT ![c] = s]
      BY <1>1, <2>1
    <3> HIDE DEF l, s
    <3>3. pc' \in [Clients -> ClientLabels] /\ dgLeft' \in [Clients -> 0 .. MaxTrips] /\ dgLeft'[c] = l /\ pc'[c] = s
          /\ \A p \in Clients : p # c => pc'[p] = pc[p] /\ dgLeft'[p] = dgLeft[p]
      BY <1>2, <3>1, <3>2 DEF DatagramTypes
    <3> QED
      BY <2>1, <3>3 DEF l, s
  <2>2. CASE ~through
    BY <1>1, <1>2, <2>2 DEF DatagramTypes, ClientLabels
  <2> QED
    BY <2>1, <2>2
<1>5. /\ seq' \in [Clients -> Nat] /\ seq'[c] = seq[c] + 1
      /\ sends' \in [Clients -> 0 .. MaxSends]
      /\ \A p \in Clients : p # c => seq'[p] = seq[p]
  BY <1>1, <1>2, Numbers DEF DatagramTypes
<1>6. Others(c)
  BY <1>1, <1>4, <1>5 DEF Others
<1>7. DatagramTypes'
  BY <1>1, <1>2, <1>4, <1>5 DEF DatagramTypes, D!Word
<1>8. Posted'
  <2>1. \A p \in Clients : seq'[p] >= seq[p]
    BY <1>2, <1>5 DEF DatagramTypes
  <2>2. seq[c] \in 0 .. seq'[c] - 1
    BY <1>2, <1>5
  <2>3. Known(d)'
    <3>1. D!Move' = D!Move /\ D!Msize' = D!Msize
      BY <1>1 DEF D!Move, D!Msize
    <3> QED
      BY <1>1, <1>3, <2>2, <3>1 DEF Known, FromClient
  <2> QED
    BY <1>1, <1>5, <2>1, <2>3, PostedKeeps
<1>9. Requested'
  BY <1>1 DEF DatagramIInv, Requested, D!Msize
<1>10. TripsFit'
  <2>1. ToBegin(c)' = dgLeft[c] - 1
    BY <1>2, <1>4 DEF ToBegin
  <2>2. seq'[c] + ToBegin(c)' <= doits'[c] * MaxTrips
    <3> DEFINE m == doits[c] * MaxTrips
    <3>1. m \in Nat /\ seq[c] + dgLeft[c] <= m /\ doits'[c] * MaxTrips = m
      BY <1>1, <1>2
    <3> HIDE DEF m
    <3> QED
      BY <1>2, <1>5, <2>1, <3>1
  <2>3. /\ pc'[c] = "init" => doits'[c] = 0
        /\ pc'[c] \in {"init", "idle"} => dgLeft'[c] = 0
        /\ pc'[c] \in {"send", "recv"} => dgLeft'[c] > 0 /\ doits'[c] > 0
    BY <1>1, <1>2, <1>4
  <2> QED
    BY <1>6, <2>2, <2>3, TripsMove
<1>11. NeedFits'
  <2>1. dgProg = "bw_udp" =>
          /\ pc'[c] \in {"send", "recv"} => need'[c] = D!Move - echo'[c] * D!Msize
          /\ pc'[c] = "recv" => need'[c] > 0
    <3>1. dgProg = "bw_udp" => need[c] = D!Move - echo[c] * D!Msize
      BY <1>1 DEF DatagramIInv, NeedFits
    <3>2. dgProg = "bw_udp" /\ ~through => need[c] > 0
      BY <1>2 DEF through, DatagramTypes
    <3> QED
      BY <1>1, <1>4, <3>1, <3>2
  <2> QED
    BY <1>1, <1>6, <2>1, NeedMoves
<1>12. OneUnderWay'
  <2> SUFFICES ASSUME dgProg = "lat_udp", dup = 0, NEW p \in Clients, NEW x \in net',
                      About(x, p), pc'[p] # "gone"
               PROVE  /\ pc'[p] = "recv" /\ x.n = seq'[p] - 1
                      /\ \A e \in net' : About(e, p) => e = x
    BY <1>1 DEF OneUnderWay, About
  <2>1. \A q \in Clients : \A e \in net : About(e, q) /\ pc[q] # "gone" =>
          /\ pc[q] = "recv" /\ e.n = seq[q] - 1
          /\ \A f \in net : About(f, q) => f = e
    BY DEF DatagramIInv, OneUnderWay
  <2>2. CASE p = c
    <3>1. \A e \in net : ~About(e, c)
      BY <1>1, <2>1
    <3>2. x = d /\ \A e \in net' : About(e, c) => e = d
      BY <1>1, <2>2, <3>1
    <3>3. seq[c] = seq'[c] - 1 /\ pc'[c] = "recv"
      BY <1>2, <1>4, <1>5 DEF through
    <3> QED
      BY <1>3, <2>2, <3>2, <3>3
  <2>3. CASE p # c
    <3>1. ~About(d, p)
      BY <1>3, <2>3, Numbers DEF About
    <3> QED
      BY <1>1, <1>4, <1>5, <2>1, <2>3, <3>1
  <2> QED
    BY <2>2, <2>3
<1>13. FewUnderWay'
  <2> SUFFICES ASSUME dgProg = "lat_udp", NEW p \in Clients, pc'[p] # "gone"
               PROVE  IsFiniteSet(D!UnderWay(p)') /\ Cardinality(D!UnderWay(p)') <= dup + D!Awaited(p)'
    BY <1>1 DEF FewUnderWay
  <2>1. pc[p] # "gone"
    BY <1>1, <1>4
  <2>2. /\ IsFiniteSet(D!UnderWay(p)) /\ Cardinality(D!UnderWay(p)) <= dup + D!Awaited(p)
        /\ dup \in Nat /\ dup + D!Awaited(p) \in Nat
    BY <2>1, FewFacts
  <2>3. CASE p = c
    <3>1. D!Awaited(p) = 0 /\ D!Awaited(p)' = 1
      BY <1>1, <1>4, <2>3 DEF through, D!Awaited
    <3>2. D!UnderWay(p)' \subseteq D!UnderWay(p) \cup {d}
      BY <1>1 DEF D!UnderWay
    <3>3. IsFiniteSet(D!UnderWay(p)') /\ Cardinality(D!UnderWay(p)') <= (dup + D!Awaited(p)) + 1
      BY <2>2, <3>2, OneAtMostMore
    <3> QED
      BY <2>2, <3>1, <3>3
  <2>4. CASE p # c
    <3>1. D!Awaited(p)' = D!Awaited(p)
      BY <1>4, <2>4 DEF D!Awaited
    <3>2. D!UnderWay(p)' \subseteq D!UnderWay(p)
      BY <1>1, <1>3, <2>4, Numbers DEF D!UnderWay
    <3>3. IsFiniteSet(D!UnderWay(p)') /\ Cardinality(D!UnderWay(p)') <= dup + D!Awaited(p)
      BY <2>2, <3>2, Fewer
    <3> QED
      BY <3>1, <3>3
  <2> QED
    BY <2>3, <2>4
<1> QED
  BY <1>7, <1>8, <1>9, <1>10, <1>11, <1>12, <1>13 DEF DatagramIInv

LEMMA RetransmitKeeps ==
  ASSUME D!DatagramAssumption, DatagramIInv, NEW c \in Clients, D!Retransmit(c)
  PROVE  DatagramIInv'
<1>0. PICK d : d = D!Datagram(D!Server, c, seq[c] - 1, 0)
  OBVIOUS
<1>1. /\ UNCHANGED <<dgProg, big, size, srv, port, job, dgWord, pc, seq, dgLeft, doits, need,
                     alarm, echo, dgAsked,
                     lost, dup>>
      /\ dgProg = "lat_rpc" /\ pc[c] = "recv" /\ sends[c] < MaxSends
      /\ net' \subseteq net \cup {d} /\ sends' = [sends EXCEPT ![c] = @ + 1]
  BY <1>0 DEF D!Retransmit, D!Net, D!server, D!faults
<1>2. DatagramTypes
  BY DEF DatagramIInv
<1>3. DatagramTypes'
  <2>1. sends[c] + 1 \in 0 .. MaxSends
    BY <1>1, <1>2, Numbers DEF DatagramTypes
  <2>2. sends' \in [Clients -> 0 .. MaxSends]
    BY <1>1, <1>2, <2>1 DEF DatagramTypes
  <2> QED
    BY <1>1, <1>2, <2>2 DEF DatagramTypes, D!Word
<1>4. Posted'
  <2>1. seq' = seq /\ seq \in [Clients -> Nat] /\ \A p \in Clients : seq'[p] >= seq[p]
    BY <1>1, <1>2 DEF DatagramTypes
  <2>2. Known(d)'
    BY <1>0, <1>1 DEF Known, FromClient, D!Datagram
  <2> QED
    BY <1>1, <2>1, <2>2, PostedKeeps
<1>5. Requested' /\ TripsFit' /\ NeedFits'
  BY <1>1, TripsStay, NeedStays DEF DatagramIInv, Requested, D!Msize
<1>6. OneUnderWay' /\ FewUnderWay'
  BY <1>1 DEF OneUnderWay, FewUnderWay
<1> QED
  BY <1>3, <1>4, <1>5, <1>6 DEF DatagramIInv

(* An iteration ends. *)
LEMMA TripMoves ==
  ASSUME D!DatagramAssumption, DatagramTypes, TripsFit, NEW c \in Clients, pc[c] \in {"send",
         "recv"}, D!Trip(c)
  PROVE  /\ dgLeft[c] \in Nat /\ dgLeft[c] > 0
         /\ dgLeft' \in [Clients -> 0 .. MaxTrips] /\ dgLeft'[c] = dgLeft[c] - 1
         /\ pc' \in [Clients -> ClientLabels] /\ pc'[c] = IF dgLeft[c] = 1 THEN "idle" ELSE "send"
         /\ \A p \in Clients : p # c => pc'[p] = pc[p] /\ dgLeft'[p] = dgLeft[p]
<1>1. dgLeft[c] \in 0 .. MaxTrips /\ MaxTrips \in Nat /\ dgLeft[c] > 0
  BY Numbers DEF DatagramTypes, TripsFit
<1>2. PICK l \in 0 .. MaxTrips : l = dgLeft[c] - 1
  BY <1>1
<1>3. PICK s \in ClientLabels : s = IF dgLeft[c] = 1 THEN "idle" ELSE "send"
  BY DEF ClientLabels
<1>4. dgLeft' = [dgLeft EXCEPT ![c] = l] /\ pc' = [pc EXCEPT ![c] = s]
  BY <1>2, <1>3 DEF D!Trip, D!Goto
<1>5. /\ dgLeft' \in [Clients -> 0 .. MaxTrips] /\ dgLeft'[c] = l
      /\ pc' \in [Clients -> ClientLabels] /\ pc'[c] = s
      /\ \A p \in Clients : p # c => pc'[p] = pc[p] /\ dgLeft'[p] = dgLeft[p]
  BY <1>4 DEF DatagramTypes
<1> QED
  BY <1>1, <1>2, <1>3, <1>5

(* What a client receives that is not one of bw_udp. *)
LEMMA Received ==
  ASSUME D!DatagramAssumption, DatagramIInv, NEW c \in Clients, D!Receive(c)
  PROVE  \E d \in net :
           /\ d.to = c /\ dgProg # "bw_udp" /\ pc[c] = "recv"
           /\ net' \subseteq net /\ (dup' = dup => net' \subseteq net \ {d})
           /\ dup' \in 0 .. MaxDup /\ (dup' = 0 => dup' = dup) /\ dup' \in {dup, dup + 1}
           /\ UNCHANGED <<dgProg, big, size, srv, port, job, dgWord, seq, doits, need, sends,
                          alarm, dgAsked, lost>>
           /\ \/ dgProg = "lat_rpc" /\ UNCHANGED <<pc, dgLeft, echo>>
              \/ D!Trip(c) /\ echo' = [echo EXCEPT ![c] = d.n] /\ (dgProg = "lat_rpc" => d.n = seq[c] - 1)
<1>1. PICK d \in net :
        /\ d.to = c /\ dgProg # "bw_udp" /\ pc[c] = "recv" /\ D!Deliver(d, {})
        /\ UNCHANGED <<dgProg, big, size, srv, port, job, dgWord, seq, doits, need, sends,
                       alarm, dgAsked, lost>>
        /\ IF dgProg = "lat_rpc" /\ d.n # seq[c] - 1
             THEN UNCHANGED <<pc, dgLeft, echo>>
             ELSE D!Trip(c) /\ echo' = [echo EXCEPT ![c] = d.n]
  BY DEF D!Receive, D!server
<1>2. /\ net' \subseteq net /\ (dup' = dup => net' \subseteq net \ {d})
      /\ dup' \in 0 .. MaxDup /\ (dup' = 0 => dup' = dup) /\ dup' \in {dup, dup + 1}
  BY <1>1, Sent, DupFits
<1> QED
  BY <1>1, <1>2

LEMMA ReceiveKeeps ==
  ASSUME D!DatagramAssumption, DatagramIInv, NEW c \in Clients, D!Receive(c)
  PROVE  DatagramIInv'
<1>1. PICK d \in net :
        /\ d.to = c /\ dgProg # "bw_udp" /\ pc[c] = "recv"
        /\ net' \subseteq net /\ (dup' = dup => net' \subseteq net \ {d})
        /\ dup' \in 0 .. MaxDup /\ (dup' = 0 => dup' = dup) /\ dup' \in {dup, dup + 1}
        /\ UNCHANGED <<dgProg, big, size, srv, port, job, dgWord, seq, doits, need, sends,
                       alarm, dgAsked, lost>>
        /\ \/ dgProg = "lat_rpc" /\ UNCHANGED <<pc, dgLeft, echo>>
           \/ D!Trip(c) /\ echo' = [echo EXCEPT ![c] = d.n] /\ (dgProg = "lat_rpc" => d.n = seq[c] - 1)
  BY Received
<1>2. /\ DatagramTypes /\ TripsFit /\ seq[c] \in Nat
      /\ seq[c] + ToBegin(c) <= doits[c] * MaxTrips /\ doits[c] > 0
  BY <1>1 DEF DatagramIInv, DatagramTypes, TripsFit
<1>3. pc' \in [Clients -> ClientLabels] /\ dgLeft' \in [Clients -> 0 .. MaxTrips] /\ echo' \in [Clients -> Int]
      /\ Others(c)
      /\ \/ UNCHANGED <<pc, dgLeft>>
         \/ dgLeft[c] \in Nat /\ dgLeft[c] > 0 /\ dgLeft'[c] = dgLeft[c] - 1
            /\ pc'[c] = IF dgLeft[c] = 1 THEN "idle" ELSE "send"
  <2>1. CASE UNCHANGED <<pc, dgLeft, echo>>
    BY <1>1, <1>2, <2>1 DEF DatagramTypes, Others
  <2>2. CASE D!Trip(c) /\ echo' = [echo EXCEPT ![c] = d.n] /\ (dgProg = "lat_rpc" => d.n = seq[c] - 1)
    <3>1. d.n \in Int
      <4>1. CASE dgProg = "lat_rpc"
        BY <1>2, <2>2, <4>1
      <4>2. CASE dgProg # "lat_rpc"
        <5>1. dgProg = "lat_udp" /\ Known(d)
          BY <1>1, <1>2, <4>2 DEF DatagramIInv, Posted, DatagramTypes, D!Programs
        <5>2. d.to # D!Server
          BY <1>1, Numbers
        <5> QED
          BY <1>1, <1>2, <5>1, <5>2 DEF Known
      <4> QED
        BY <4>1, <4>2
    <3>2. echo' \in [Clients -> Int] /\ \A p \in Clients : p # c => echo'[p] = echo[p]
      BY <1>2, <2>2, <3>1 DEF DatagramTypes
    <3>3. /\ dgLeft[c] \in Nat /\ dgLeft[c] > 0
          /\ dgLeft' \in [Clients -> 0 .. MaxTrips] /\ dgLeft'[c] = dgLeft[c] - 1
          /\ pc' \in [Clients -> ClientLabels] /\ pc'[c] = IF dgLeft[c] = 1 THEN "idle" ELSE "send"
          /\ \A p \in Clients : p # c => pc'[p] = pc[p] /\ dgLeft'[p] = dgLeft[p]
      BY <1>1, <1>2, <2>2, TripMoves
    <3> QED
      BY <1>1, <3>2, <3>3 DEF Others
  <2> QED
    BY <1>1, <2>1, <2>2
<1>4. DatagramTypes'
  BY <1>1, <1>2, <1>3 DEF DatagramTypes, D!Word
<1>5. Posted'
  <2>1. seq' = seq /\ seq \in [Clients -> Nat] /\ \A p \in Clients : seq'[p] >= seq[p]
    BY <1>1, <1>2 DEF DatagramTypes
  <2> QED
    BY <1>1, <2>1, PostedKeeps
<1>6. Requested' /\ NeedFits'
  BY <1>1 DEF Requested, NeedFits
<1>7. TripsFit'
  <2>1. CASE UNCHANGED <<pc, dgLeft>>
    BY <1>1, <2>1, TripsStay
  <2>2. CASE dgLeft[c] \in Nat /\ dgLeft[c] > 0 /\ dgLeft'[c] = dgLeft[c] - 1
             /\ pc'[c] = IF dgLeft[c] = 1 THEN "idle" ELSE "send"
    <3>1. ToBegin(c)' = ToBegin(c) /\ seq'[c] = seq[c] /\ doits'[c] = doits[c]
      BY <1>1, <2>2 DEF ToBegin
    <3>2. seq'[c] + ToBegin(c)' <= doits'[c] * MaxTrips
      BY <1>2, <3>1
    <3>3. /\ pc'[c] = "init" => doits'[c] = 0
          /\ pc'[c] \in {"init", "idle"} => dgLeft'[c] = 0
          /\ pc'[c] \in {"send", "recv"} => dgLeft'[c] > 0 /\ doits'[c] > 0
      BY <1>2, <2>2, <3>1
    <3> QED
      BY <1>3, <3>2, <3>3, TripsMove
  <2> QED
    BY <1>3, <2>1, <2>2
<1>8. OneUnderWay'
  <2> SUFFICES ASSUME dgProg = "lat_udp", dup = 0, dup' = dup, NEW p \in Clients, NEW x \in net',
                      About(x, p), pc'[p] # "gone"
               PROVE  /\ pc'[p] = "recv" /\ x.n = seq'[p] - 1
                      /\ \A e \in net' : About(e, p) => e = x
    BY <1>1 DEF OneUnderWay, About
  <2>1. \A q \in Clients : \A e \in net : About(e, q) /\ pc[q] # "gone" =>
          /\ pc[q] = "recv" /\ e.n = seq[q] - 1
          /\ \A f \in net : About(f, q) => f = e
    BY DEF DatagramIInv, OneUnderWay
  <2>2. p # c
    <3>1. About(d, c) /\ pc[c] # "gone" /\ net' \subseteq net \ {d}
      BY <1>1 DEF About
    <3> QED
      BY <2>1, <3>1
  <2> QED
    BY <1>1, <1>3, <2>1, <2>2 DEF Others
<1>9. FewUnderWay'
  <2> SUFFICES ASSUME dgProg = "lat_udp", NEW p \in Clients, pc'[p] # "gone"
               PROVE  IsFiniteSet(D!UnderWay(p)') /\ Cardinality(D!UnderWay(p)') <= dup' + D!Awaited(p)'
    BY <1>1 DEF FewUnderWay
  <2> DEFINE S == D!UnderWay(p)
  <2> DEFINE T == D!UnderWay(p)'
  <2>1. pc[p] # "gone" /\ D!Awaited(p)' \in Nat
    BY <1>1, <1>3 DEF Others, D!Awaited
  <2>2. /\ IsFiniteSet(S) /\ Cardinality(S) <= dup + D!Awaited(p)
        /\ dup \in Nat /\ D!Awaited(p) \in Nat /\ dup + D!Awaited(p) \in Nat
    BY <2>1, FewFacts
  <2>3. T \subseteq S /\ (dup' = dup => T \subseteq S \ {d}) /\ (p = c => d \in S)
    BY <1>1 DEF D!UnderWay
  <2>4. IF p = c THEN D!Awaited(p) = 1 /\ D!Awaited(p)' = 0 ELSE D!Awaited(p)' = D!Awaited(p)
    <3>1. p = c => pc'[c] # "recv"
      BY <1>1, <1>2, TripMoves
    <3> QED
      BY <1>1, <1>3, <3>1 DEF Others, D!Awaited
  <2> HIDE DEF S, T
  <2>5. IsFiniteSet(T) /\ Cardinality(T) \in Nat /\ Cardinality(T) <= dup + D!Awaited(p)
    BY <2>2, <2>3, Fewer
  <2>6. CASE p # c \/ dup' = dup + 1
    BY <1>1, <2>2, <2>4, <2>5, <2>6 DEF T
  <2>7. CASE p = c /\ dup' = dup
    <3>1. IsFiniteSet(T) /\ Cardinality(T) \in Nat /\ Cardinality(T) <= dup
      BY <2>2, <2>3, <2>4, <2>7, FewerByOne
    <3> QED
      BY <2>1, <2>2, <2>4, <2>7, <3>1 DEF T
  <2> QED
    BY <1>1, <2>6, <2>7
<1> QED
  BY <1>4, <1>5, <1>6, <1>7, <1>8, <1>9 DEF DatagramIInv

(* A client of bw_udp receives a message, cut to msize. *)
LEMMA BwReceived ==
  ASSUME D!DatagramAssumption, DatagramIInv, NEW c \in Clients, D!BwReceive(c)
  PROVE  /\ dgProg = "bw_udp" /\ pc[c] = "recv"
         /\ \/ /\ D!Leave(c)
               /\ UNCHANGED <<dgProg, big, size, D!server, seq, dgLeft, doits, need, sends,
                              echo, dgAsked, D!faults>>
            \/ /\ UNCHANGED <<dgProg, big, size, srv, port, job, dgWord, seq, doits, sends,
                              alarm, dgAsked, lost>>
               /\ net' \subseteq net /\ dup' \in 0 .. MaxDup
               /\ need' = [need EXCEPT ![c] = @ - D!Msize] /\ echo' = [echo EXCEPT ![c] = @ + 1]
               /\ \/ need'[c] <= 0 /\ D!Trip(c)
                  \/ ~(need'[c] <= 0) /\ UNCHANGED <<pc, dgLeft>>
<1>1. PICK d \in net :
        /\ dgProg = "bw_udp" /\ pc[c] = "recv"
        /\ UNCHANGED <<dgProg, big, size, D!server, seq, doits, sends, dgAsked, lost>>
        /\ \/ D!Leave(c) /\ UNCHANGED <<dgLeft, need, echo, dup>>
           \/ /\ D!Deliver(d, {})
              /\ need' = [need EXCEPT ![c] = @ - D!Msize] /\ echo' = [echo EXCEPT ![c] = @ + 1]
              /\ IF need'[c] <= 0 THEN D!Trip(c) ELSE UNCHANGED <<pc, dgLeft>>
              /\ UNCHANGED alarm
  BY DEF D!BwReceive
<1>2. CASE D!Leave(c) /\ UNCHANGED <<dgLeft, need, echo, dup>>
  BY <1>1, <1>2 DEF D!faults
<1>3. CASE /\ D!Deliver(d, {})
           /\ need' = [need EXCEPT ![c] = @ - D!Msize] /\ echo' = [echo EXCEPT ![c] = @ + 1]
           /\ IF need'[c] <= 0 THEN D!Trip(c) ELSE UNCHANGED <<pc, dgLeft>>
           /\ UNCHANGED alarm
  <2>1. net' \subseteq net /\ dup' \in 0 .. MaxDup
    BY <1>3, Sent, DupFits
  <2> QED
    BY <1>1, <1>3, <2>1 DEF D!server
<1> QED
  BY <1>1, <1>2, <1>3

LEMMA BwReceiveKeeps ==
  ASSUME D!DatagramAssumption, DatagramIInv, NEW c \in Clients, D!BwReceive(c)
  PROVE  DatagramIInv'
<1>1. CASE /\ D!Leave(c)
           /\ UNCHANGED <<dgProg, big, size, D!server, seq, dgLeft, doits, need, sends, echo,
                          dgAsked, D!faults>>
  BY <1>1, LeaveKeeps
<1>2. ASSUME dgProg = "bw_udp", pc[c] = "recv",
             UNCHANGED <<dgProg, big, size, srv, port, job, dgWord, seq, doits, sends, alarm,
                         dgAsked, lost>>,
             net' \subseteq net, dup' \in 0 .. MaxDup,
             need' = [need EXCEPT ![c] = @ - D!Msize], echo' = [echo EXCEPT ![c] = @ + 1],
             \/ need'[c] <= 0 /\ D!Trip(c)
             \/ ~(need'[c] <= 0) /\ UNCHANGED <<pc, dgLeft>>
      PROVE  DatagramIInv'
  <2>1. /\ DatagramTypes /\ TripsFit /\ seq[c] \in Nat /\ D!Msize \in Nat /\ D!Move \in Nat
        /\ need[c] \in Int /\ echo[c] \in Int /\ need[c] = D!Move - echo[c] * D!Msize
        /\ seq[c] + ToBegin(c) <= doits[c] * MaxTrips /\ doits[c] > 0
    BY <1>2, Messages DEF DatagramIInv, DatagramTypes, TripsFit, NeedFits
  <2>2. PICK n \in Int : n = need[c] - D!Msize
    BY <2>1
  <2>3. PICK e \in Int : e = echo[c] + 1
    BY <2>1
  <2>4. /\ need' \in [Clients -> Int] /\ need'[c] = n /\ echo' \in [Clients -> Int] /\ echo'[c] = e
        /\ \A p \in Clients : p # c => need'[p] = need[p] /\ echo'[p] = echo[p]
    <3>1. need' = [need EXCEPT ![c] = n] /\ echo' = [echo EXCEPT ![c] = e]
      BY <1>2, <2>2, <2>3
    <3> QED
      BY <2>1, <3>1 DEF DatagramTypes
  <2>5. pc' \in [Clients -> ClientLabels] /\ dgLeft' \in [Clients -> 0 .. MaxTrips] /\ Others(c)
        /\ \/ UNCHANGED <<pc, dgLeft>> /\ n > 0
           \/ dgLeft[c] \in Nat /\ dgLeft[c] > 0 /\ dgLeft'[c] = dgLeft[c] - 1
              /\ pc'[c] = IF dgLeft[c] = 1 THEN "idle" ELSE "send"
    <3>1. CASE ~(need'[c] <= 0) /\ UNCHANGED <<pc, dgLeft>>
      BY <1>2, <2>1, <2>2, <2>4, <3>1 DEF DatagramTypes, Others
    <3>2. CASE D!Trip(c)
      <4>1. /\ dgLeft[c] \in Nat /\ dgLeft[c] > 0
            /\ dgLeft' \in [Clients -> 0 .. MaxTrips] /\ dgLeft'[c] = dgLeft[c] - 1
            /\ pc' \in [Clients -> ClientLabels] /\ pc'[c] = IF dgLeft[c] = 1 THEN "idle" ELSE "send"
            /\ \A p \in Clients : p # c => pc'[p] = pc[p] /\ dgLeft'[p] = dgLeft[p]
        BY <1>2, <2>1, <3>2, TripMoves
      <4> QED
        BY <1>2, <2>4, <4>1 DEF Others
    <3> QED
      BY <1>2, <3>1, <3>2
  <2>6. DatagramTypes'
    BY <1>2, <2>1, <2>4, <2>5 DEF DatagramTypes, D!Word
  <2>7. Posted'
    <3>1. seq' = seq /\ seq \in [Clients -> Nat] /\ \A p \in Clients : seq'[p] >= seq[p]
      BY <1>2, <2>1 DEF DatagramTypes
    <3> QED
      BY <1>2, <3>1, PostedKeeps
  <2>8. Requested'
    BY <1>2 DEF DatagramIInv, Requested, D!Msize
  <2>9. TripsFit'
    <3>1. CASE UNCHANGED <<pc, dgLeft>>
      BY <1>2, <3>1, TripsStay
    <3>2. CASE dgLeft[c] \in Nat /\ dgLeft[c] > 0 /\ dgLeft'[c] = dgLeft[c] - 1
               /\ pc'[c] = IF dgLeft[c] = 1 THEN "idle" ELSE "send"
      <4>1. ToBegin(c)' = ToBegin(c) /\ seq'[c] = seq[c] /\ doits'[c] = doits[c]
        BY <1>2, <3>2 DEF ToBegin
      <4>2. seq'[c] + ToBegin(c)' <= doits'[c] * MaxTrips
        BY <2>1, <4>1
      <4>3. /\ pc'[c] = "init" => doits'[c] = 0
            /\ pc'[c] \in {"init", "idle"} => dgLeft'[c] = 0
            /\ pc'[c] \in {"send", "recv"} => dgLeft'[c] > 0 /\ doits'[c] > 0
        BY <2>1, <3>2, <4>1
      <4> QED
        BY <2>5, <4>2, <4>3, TripsMove
    <3> QED
      BY <2>5, <3>1, <3>2
  <2>10. NeedFits'
    <3>1. n = D!Move - e * D!Msize
      <4>1. PICK m \in Nat : m = D!Msize
        BY <2>1
      <4>2. PICK x \in Int : x = echo[c]
        BY <2>1
      <4>3. (x + 1) * m = x * m + m /\ x * m \in Int
        BY OneMore
      <4>4. e * m = x * m + m
        BY <2>3, <4>2, <4>3
      <4>5. n = D!Move - x * m - m
        BY <2>1, <2>2, <4>1, <4>2, <4>3
      <4> QED
        BY <2>1, <4>1, <4>3, <4>4, <4>5
    <3>2. pc'[c] = "recv" => need'[c] > 0
      BY <2>4, <2>5
    <3> QED
      BY <1>2, <2>4, <2>5, <3>1, <3>2, NeedMoves
  <2>11. OneUnderWay' /\ FewUnderWay'
    BY <1>2 DEF OneUnderWay, FewUnderWay
  <2> QED
    BY <2>6, <2>7, <2>8, <2>9, <2>10, <2>11 DEF DatagramIInv
<1> QED
  BY <1>1, <1>2, BwReceived

----------------------------------------------------------------------------
(* The whole system. *)

LEMMA DatagramInitHolds == D!DatagramAssumption /\ D!Init => DatagramIInv
<1> SUFFICES ASSUME D!DatagramAssumption, D!Init PROVE DatagramIInv
  OBVIOUS
<1>1. DatagramTypes
  <2>1. job \in [to : Clients \cup {D!Stopper}, left : Int, sent : Nat]
    BY DEF D!Init, D!NoJob
  <2>2. dgWord \in 0 .. D!Word + MaxDoits * MaxTrips
    BY Numbers DEF D!Init
  <2>3. pc \in [Clients -> ClientLabels]
    BY DEF D!Init, ClientLabels
  <2>4. size \in Sizes /\ dgProg \in D!Programs /\ big \in BOOLEAN
    BY DEF D!Init
  <2>5. /\ seq \in [Clients -> Nat] /\ dgLeft \in [Clients -> 0 .. MaxTrips]
        /\ doits \in [Clients -> 0 .. MaxDoits] /\ need \in [Clients -> Int]
        /\ echo \in [Clients -> Int] /\ sends \in [Clients -> 0 .. MaxSends]
    BY Numbers DEF D!Init
  <2>6. alarm \in [Clients -> BOOLEAN] /\ lost \in 0 .. MaxLoss /\ dup \in 0 .. MaxDup
    BY Numbers DEF D!Init
  <2> QED
    BY <2>1, <2>2, <2>3, <2>4, <2>5, <2>6 DEF DatagramTypes, D!Init
<1>2. Posted /\ Requested /\ OneUnderWay
  BY DEF D!Init, Posted, Requested, OneUnderWay, D!NoJob
<1>3. \A c \in Clients : pc[c] \in {"init", "gone"} /\ seq[c] = 0 /\ dgLeft[c] = 0 /\ doits[c] = 0
  BY DEF D!Init
<1>4. TripsFit
  <2>1. \A c \in Clients : ToBegin(c) = 0 /\ doits[c] * MaxTrips = 0
    BY <1>3, Numbers DEF ToBegin
  <2> QED
    BY <1>3, <2>1 DEF TripsFit
<1>5. NeedFits
  BY <1>3 DEF NeedFits
<1>6. FewUnderWay
  <2>1. \A c \in Clients : D!UnderWay(c) = {} /\ D!Awaited(c) = 0
    BY <1>3 DEF D!Init, D!UnderWay, D!Awaited
  <2>2. dup = 0 /\ IsFiniteSet({}) /\ Cardinality({}) = 0
    BY FS_EmptySet DEF D!Init
  <2>3. ASSUME NEW c \in Clients
        PROVE  IsFiniteSet(D!UnderWay(c)) /\ Cardinality(D!UnderWay(c)) <= dup + D!Awaited(c)
    <3>1. D!UnderWay(c) = {} /\ D!Awaited(c) = 0
      BY <2>1
    <3>2. IsFiniteSet(D!UnderWay(c)) /\ Cardinality(D!UnderWay(c)) = 0
      BY <2>2, <3>1
    <3> QED
      BY <2>2, <3>1, <3>2
  <2> QED
    BY <2>3 DEF FewUnderWay
<1> QED
  BY <1>1, <1>2, <1>4, <1>5, <1>6 DEF DatagramIInv

LEMMA DatagramStepKeeps ==
  ASSUME D!DatagramAssumption, DatagramIInv, [D!Next]_(D!vars)
  PROVE  DatagramIInv'
<1>1. CASE D!ServerStep
  BY <1>1, UdpEchoKeeps, RpcAnswerKeeps, ServerGoesKeeps, BwRequestKeeps,
     BwSendKeeps DEF D!ServerStep
<1>2. ASSUME NEW c \in Clients, D!ClientStep(c) \/ D!Refused(c) PROVE DatagramIInv'
  BY <1>2, ClientLeavesKeeps, DatagramConnectKeeps, DoitKeeps, SendKeeps, RetransmitKeeps,
     ReceiveKeeps,
     BwReceiveKeeps DEF D!ClientStep
<1>3. CASE D!GoAway \/ D!Stop \/ D!Lose
  BY <1>3, ServerGoesKeeps, StopKeeps, LoseKeeps
<1>4. CASE UNCHANGED D!vars
  <2>1. /\ UNCHANGED <<dgProg, big, size, srv, port, job, dgWord, net, pc, seq, dgLeft, doits,
                       need>>
        /\ UNCHANGED <<sends, alarm, echo, dgAsked, lost, dup>>
    BY <1>4 DEF D!vars, D!server, D!client, D!faults
  <2> QED
    BY <2>1 DEF DatagramIInv, DatagramTypes, Posted, Known, FromClient, D!Move, D!Msize,
       Requested, TripsFit, ToBegin,
                NeedFits, OneUnderWay, FewUnderWay, D!UnderWay, D!Awaited, About
<1> QED
  BY <1>1, <1>2, <1>3, <1>4 DEF D!Next, D!Progress

LEMMA DatagramIInvHolds == D!DatagramAssumption => (D!Spec => []DatagramIInv)
<1>1. D!DatagramAssumption /\ DatagramIInv /\ [D!Next]_(D!vars) => DatagramIInv'
  BY DatagramStepKeeps
<1>2. ASSUME D!DatagramAssumption PROVE D!Spec => []DatagramIInv
  <2>1. DatagramIInv /\ [D!Next]_(D!vars) => DatagramIInv'
    BY <1>1, <1>2
  <2>2. D!Init => DatagramIInv
    BY <1>2, DatagramInitHolds
  <2> QED
    BY <2>1, <2>2, PTL DEF D!Spec
<1> QED
  BY <1>2

LEMMA TypesFollow ==
  ASSUME D!DatagramAssumption, DatagramIInv
  PROVE  D!TypeOK
<1>1. /\ dgProg \in D!Programs /\ big \in BOOLEAN /\ size \in Sizes
      /\ srv \in BOOLEAN /\ port \in BOOLEAN /\ dgAsked \in BOOLEAN
      /\ job.to \in Clients \cup {D!Stopper} /\ job.left \in Int /\ job.sent \in Nat
  BY DEF DatagramIInv, DatagramTypes
<1>2. dgWord \in -1 .. D!Word + MaxDoits * MaxTrips
  BY Numbers DEF DatagramIInv, DatagramTypes
<1>3. \A d \in net : d.to \in Clients \cup {D!Server}
  BY DEF DatagramIInv, Posted, Known
<1>4. pc \in [Clients -> {"init", "idle", "send", "recv", "gone"}]
  BY DEF DatagramIInv, DatagramTypes, ClientLabels
<1>5. seq \in [Clients -> 0 .. MaxDoits * MaxTrips]
  BY SeqBound DEF DatagramIInv, DatagramTypes
<1>6. /\ dgLeft \in [Clients -> 0 .. MaxTrips] /\ doits \in [Clients -> 0 .. MaxDoits]
      /\ sends \in [Clients -> 0 .. MaxSends] /\ alarm \in [Clients -> BOOLEAN]
      /\ lost \in 0 .. MaxLoss /\ dup \in 0 .. MaxDup
  BY DEF DatagramIInv, DatagramTypes
<1> QED
  BY <1>1, <1>2, <1>3, <1>4, <1>5, <1>6 DEF D!TypeOK

(* Steps in which no iteration ends. *)
LEMMA NoTrip ==
  ASSUME DatagramIInv, [D!Next]_(D!vars), NEW c \in Clients, ~D!Receive(c), ~D!BwReceive(c),
         ~D!Send(c), ~D!Doit(c)
  PROVE  /\ dgLeft'[c] = dgLeft[c] /\ echo'[c] = echo[c]
         /\ pc'[c] = pc[c] \/ pc'[c] = "gone" \/ pc[c] = "init"
<1>0. DatagramTypes
  BY DEF DatagramIInv
<1>1. CASE D!ServerStep
  BY <1>1 DEF D!ServerStep, D!UdpEcho, D!UdpShutdown, D!RpcAnswer, D!RpcExit, D!BwRequest,
     D!BwSend, D!BwSendFails,
              D!client
<1>2. ASSUME NEW p \in Clients, D!ClientStep(p) \/ D!Refused(p)
      PROVE  /\ dgLeft'[c] = dgLeft[c] /\ echo'[c] = echo[c]
             /\ pc'[c] = pc[c] \/ pc'[c] = "gone" \/ pc[c] = "init"
  <2>1. CASE D!ConnectFails(p) \/ D!Cleanup(p) \/ D!CallTimesOut(p) \/ D!Timeout(p) \/ D!Refused(p)
    BY <1>0, <2>1 DEF D!ConnectFails, D!Cleanup, D!CallTimesOut, D!Timeout, D!Refused, D!Leave,
       D!Goto, DatagramTypes
  <2>2. CASE D!Connect(p)
    BY <1>0, <2>2 DEF D!Connect, D!Goto, DatagramTypes
  <2>3. CASE D!Retransmit(p)
    BY <2>3 DEF D!Retransmit
  <2>4. CASE D!Doit(p)
    <3>1. p # c
      BY <2>4
    <3> QED
      BY <1>0, <2>4, <3>1 DEF D!Doit, D!Goto, DatagramTypes
  <2>5. CASE D!Send(p)
    <3>1. p # c
      BY <2>5
    <3> QED
      BY <1>0, <2>5, <3>1 DEF D!Send, D!Trip, D!Goto, DatagramTypes
  <2>6. CASE D!Receive(p)
    <3>1. p # c
      BY <2>6
    <3> QED
      BY <1>0, <2>6, <3>1 DEF D!Receive, D!Trip, D!Goto, DatagramTypes
  <2>7. CASE D!BwReceive(p)
    <3>1. p # c
      BY <2>7
    <3> QED
      BY <1>0, <2>7, <3>1 DEF D!BwReceive, D!Trip, D!Leave, D!Goto, DatagramTypes
  <2> QED
    BY <1>2, <2>1, <2>2, <2>3, <2>4, <2>5, <2>6, <2>7 DEF D!ClientStep
<1>3. CASE D!GoAway \/ D!Stop \/ D!Lose
  BY <1>3 DEF D!GoAway, D!Stop, D!Lose, D!client
<1>4. CASE UNCHANGED D!vars
  BY <1>4 DEF D!vars, D!client
<1> QED
  BY <1>1, <1>2, <1>3, <1>4 DEF D!Next, D!Progress

LEMMA RoundTrips ==
  ASSUME D!DatagramAssumption, DatagramIInv, [D!Next]_(D!vars), NEW c \in Clients,
         dgProg # "bw_udp",
         dgLeft'[c] < dgLeft[c]
  PROVE  /\ dgProg = "lat_rpc" \/ dup = 0 => echo'[c] = seq'[c] - 1
         /\ dgProg = "lat_udp" => echo'[c] \in 0 .. seq'[c] - 1
<1>1. /\ DatagramTypes /\ TripsFit /\ dgLeft[c] \in Nat
  BY DEF DatagramIInv, DatagramTypes
<1>2. ~D!Doit(c)
  <2>1. ASSUME D!Doit(c) PROVE FALSE
    <3>1. PICK n \in 1 .. MaxTrips : pc[c] = "idle" /\ dgLeft' = [dgLeft EXCEPT ![c] = n]
      BY <2>1 DEF D!Doit
    <3>2. dgLeft[c] = 0 /\ dgLeft'[c] = n /\ n > 0
      BY <1>1, <3>1, Numbers DEF DatagramTypes, TripsFit
    <3> QED
      BY <3>1, <3>2, Numbers
  <2> QED
    BY <2>1
<1>3. ~D!BwReceive(c) /\ ~D!Send(c)
  <2>1. ASSUME D!Send(c) PROVE FALSE
    <3>1. dgLeft' = dgLeft
      BY <2>1 DEF D!Send
    <3> QED
      BY <1>1, <3>1
  <2> QED
    BY <2>1 DEF D!BwReceive
<1>4. D!Receive(c)
  <2>1. ASSUME ~D!Receive(c) PROVE dgLeft'[c] = dgLeft[c]
    BY <1>2, <1>3, <2>1, NoTrip
  <2> QED
    BY <1>1, <2>1
<1>5. PICK d \in net :
        /\ d.to = c /\ pc[c] = "recv" /\ seq' = seq
        /\ \/ dgProg = "lat_rpc" /\ UNCHANGED <<pc, dgLeft, echo>>
           \/ echo' = [echo EXCEPT ![c] = d.n] /\ (dgProg = "lat_rpc" => d.n = seq[c] - 1)
  BY <1>4, Received
<1>6. echo'[c] = d.n /\ (dgProg = "lat_rpc" => d.n = seq[c] - 1)
  <2>1. ~UNCHANGED <<pc, dgLeft, echo>>
    BY <1>1
  <2> QED
    BY <1>1, <1>5, <2>1 DEF DatagramTypes
<1>7. dgProg = "lat_udp" /\ dup = 0 => d.n = seq[c] - 1
  BY <1>5 DEF DatagramIInv, OneUnderWay, About
<1>8. dgProg = "lat_udp" => d.n \in 0 .. seq[c] - 1
  <2>1. Known(d) /\ d.to # D!Server
    BY <1>5, Numbers DEF DatagramIInv, Posted
  <2> QED
    BY <1>5, <2>1 DEF Known
<1> QED
  BY <1>1, <1>5, <1>6, <1>7, <1>8 DEF DatagramTypes, D!Programs

LEMMA MovesAll ==
  ASSUME D!DatagramAssumption, DatagramIInv, [D!Next]_(D!vars), NEW c \in Clients,
         dgProg = "bw_udp",
         pc[c] # "idle", pc'[c] = "idle", doits[c] > 0
  PROVE  echo'[c] * D!Msize >= D!Move
<1>1. /\ DatagramTypes /\ TripsFit /\ D!Msize \in Nat /\ D!Move \in Nat /\ pc[c] # "init"
      /\ need[c] \in Int /\ echo[c] \in Int
  <2>1. DatagramTypes /\ TripsFit /\ need[c] \in Int /\ echo[c] \in Int /\ doits[c] \in Nat
    BY DEF DatagramIInv, DatagramTypes
  <2> QED
    BY <2>1, Messages DEF DatagramTypes, TripsFit
<1>2. ~D!Doit(c) /\ ~D!Receive(c)
  BY DEF D!Doit, D!Receive
<1>3. D!Send(c) \/ D!BwReceive(c)
  BY <1>1, <1>2, NoTrip
<1>4. PICK m \in Nat : m = D!Msize
  BY <1>1
<1>5. PICK x \in Int : x = echo[c]
  BY <1>1
<1>6. (x + 1) * m = x * m + m /\ x * m \in Int
  BY OneMore
<1>7. pc[c] \in {"send", "recv"} => need[c] = D!Move - x * m
  BY <1>4, <1>5 DEF DatagramIInv, NeedFits
<1>8. CASE D!Send(c)
  <2>1. need[c] <= 0 /\ pc[c] = "send" /\ echo' = echo
    <3>1. ASSUME ~(need[c] <= 0) PROVE FALSE
      <4>1. pc' = [pc EXCEPT ![c] = "recv"]
        BY <1>8, <3>1 DEF D!Send, D!Goto
      <4> QED
        BY <1>1, <4>1 DEF DatagramTypes
    <3> QED
      BY <1>8, <3>1 DEF D!Send
  <2> QED
    BY <1>1, <1>4, <1>5, <1>6, <1>7, <2>1
<1>9. CASE D!BwReceive(c)
  <2>1. /\ pc[c] = "recv"
        /\ \/ D!Leave(c)
           \/ /\ need' = [need EXCEPT ![c] = @ - D!Msize] /\ echo' = [echo EXCEPT ![c] = @ + 1]
              /\ need'[c] <= 0 \/ pc' = pc
    BY <1>9, BwReceived
  <2>2. ~D!Leave(c)
    BY <1>1 DEF D!Leave, D!Goto, DatagramTypes
  <2>3. need'[c] = need[c] - m /\ echo'[c] = x + 1 /\ need'[c] <= 0
    BY <1>1, <1>4, <1>5, <2>1, <2>2 DEF DatagramTypes
  <2>4. x * m + m >= D!Move
    BY <1>1, <1>6, <1>7, <2>1, <2>3
  <2> QED
    BY <1>4, <1>6, <2>3, <2>4
<1> QED
  BY <1>3, <1>8, <1>9

LEMMA ServerStays ==
  ASSUME D!DatagramAssumption, DatagramIInv, D!ServerStep, ~srv'
  PROVE  dgAsked \/ ~big \/ (dgProg = "bw_udp" /\ D!Msize > MaxDatagram)
<1>1. DatagramTypes /\ Posted /\ Requested
  BY DEF DatagramIInv
<1>2. ~D!UdpEcho /\ ~D!RpcAnswer /\ ~D!BwRequest /\ ~D!BwSend
  <2>1. D!UdpEcho \/ D!RpcAnswer \/ D!BwRequest \/ D!BwSend => srv' = srv
    BY DEF D!UdpEcho, D!RpcAnswer, D!BwRequest, D!BwSend, D!server
  <2>2. D!UdpEcho \/ D!RpcAnswer \/ D!BwRequest \/ D!BwSend => srv
    BY DEF D!UdpEcho, D!RpcAnswer, D!BwRequest, D!BwSend, D!ForServer
  <2> QED
    BY <2>1, <2>2
<1>3. CASE D!UdpShutdown
  <2>1. PICK d \in net : dgProg = "lat_udp" /\ d.to = D!Server /\ D!Negative(d.n)
    BY <1>3 DEF D!UdpShutdown, D!ForServer
  <2>2. ASSUME d.from \in Clients, FromClient(d, d.from) PROVE FALSE
    BY <1>1, <2>1, <2>2 DEF FromClient, D!Negative, DatagramTypes
  <2> QED
    BY <1>1, <2>1, <2>2, Numbers DEF Posted, Known
<1>4. CASE D!RpcExit
  <2>1. PICK d \in net : d.to = D!Server /\ d.from = D!Stopper
    BY <1>4 DEF D!RpcExit, D!ForServer
  <2> QED
    BY <1>1, <2>1, Numbers DEF Posted, Known
<1>5. CASE D!BwSendFails
  <2>1. dgProg = "bw_udp" /\ job.left > 0 /\ D!Ntohl(dgWord) > MaxDatagram
    BY <1>5 DEF D!BwSendFails
  <2>2. ~dgAsked => dgWord = D!Msize
    BY <1>1, <2>1 DEF Requested
  <2> QED
    BY <2>1, <2>2 DEF D!Ntohl
<1> QED
  BY <1>2, <1>3, <1>4, <1>5 DEF D!ServerStep

(* Whatever is lost, late, doubled or out of order: an iteration of        *)
(* lat_rpc ends with the answer to its own call; one of lat_udp does until *)
(* a datagram was doubled, and then the client is never further ahead of   *)
(* the answers than datagrams were doubled; a call of bw_udp that returns  *)
(* has taken the bytes of ONE iteration, however many it is credited with; *)
(* and no client ends a server, but that of bw_udp where the server turns  *)
(* words around or a message is too long for a datagram.  (doit,           *)
(* loop_transfer, benchmark and server_main of the three programs.)        *)
THEOREM DatagramAnswers == D!DatagramAssumption => (D!Spec => D!FaultsStayContained)
<1> SUFFICES ASSUME D!DatagramAssumption PROVE D!Spec => D!FaultsStayContained
  OBVIOUS
<1>1. D!Spec => []DatagramIInv
  BY DatagramIInvHolds
<1>2. DatagramIInv => D!TypeOK /\ D!AheadByDoublings
  <2>1. ASSUME DatagramIInv PROVE D!AheadByDoublings
    <3>1. ASSUME dgProg = "lat_udp", NEW c \in Clients, pc[c] # "gone"
          PROVE  Cardinality(D!UnderWay(c)) <= dup + D!Awaited(c)
      BY <2>1, <3>1, FewFacts
    <3>2. \A S : D!Cardinality(S) = Cardinality(S)
      BY Zenon DEF D!Cardinality, Cardinality
    <3> QED
      BY <3>1, <3>2 DEF D!AheadByDoublings
  <2> QED
    BY <2>1, TypesFollow
<1>3. DatagramIInv /\ [D!Next]_(D!vars) => [\A c \in Clients :
        dgProg # "bw_udp" /\ dgLeft'[c] < dgLeft[c] =>
          /\ dgProg = "lat_rpc" \/ dup = 0 => echo'[c] = seq'[c] - 1
          /\ dgProg = "lat_udp" => echo'[c] \in 0 .. seq'[c] - 1]_(D!vars)
  BY RoundTrips
<1>4. DatagramIInv /\ [D!Next]_(D!vars) => [\A c \in Clients :
        dgProg = "bw_udp" /\ pc[c] # "idle" /\ pc'[c] = "idle" /\ doits[c] > 0 =>
          echo'[c] * D!Msize >= D!Move]_(D!vars)
  BY MovesAll
<1>5. DatagramIInv /\ [D!Next]_(D!vars) =>
        [D!ServerStep /\ ~srv' => dgAsked \/ ~big \/ (dgProg = "bw_udp" /\ D!Msize > MaxDatagram)]_(D!vars)
  BY ServerStays
<1>6. D!Spec => [](D!TypeOK /\ D!AheadByDoublings)
  BY <1>1, <1>2, PTL
<1>7. D!Spec => D!IterationIsRoundTrip
  BY <1>1, <1>3, PTL DEF D!IterationIsRoundTrip, D!Spec
<1>8. D!Spec => D!CallMovesAll
  BY <1>1, <1>4, PTL DEF D!CallMovesAll, D!Spec
<1>9. D!Spec => D!ServerOutlivesClients
  BY <1>1, <1>5, PTL DEF D!ServerOutlivesClients, D!Spec
<1> QED
  BY <1>6, <1>7, <1>8, <1>9, PTL DEF D!FaultsStayContained
=============================================================================
