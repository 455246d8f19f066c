--------------------------------- MODULE Udp ---------------------------------
(***************************************************************************)
(* UDP (proxy/udp.go): UdpListener and the connections it makes, one at a  *)
(* time, each with the listen goroutine of its UdpProxy and the            *)
(* handlePacket goroutine of its container.  The listener and the proxy    *)
(* use the same socket by turns; when a connection is dead the listener    *)
(* closes its socket and opens another one at the same address.            *)
(*                                                                         *)
(* A datagram is who sent it and its number, in the order of arrival.  The *)
(* life of the contexts, and AddConnection in detail, are in Spawner.      *)
(***************************************************************************)
EXTENDS Naturals, Sequences, FiniteSets

CONSTANTS
  Clients, Server,   \* who sends to the proxy's address
  MaxDatagrams,      \* bound: the datagrams they send
  MaxConns           \* bound: the connections made

Hosts == Clients \cup {Server}

ASSUME ServerAssumption == Server \notin Clients
ASSUME BoundsAssumption == MaxDatagrams \in Nat /\ MaxConns \in Nat

VARIABLES
  alive,        \* the listener's context is not cancelled
  sock, open,   \* the latest socket, and whether it is open
  arrived,      \* how many datagrams were sent there
  buffer,       \* those the socket has received and nobody has read
  lpc, first,   \* where the listener is, and the first datagram of a new client
  id,           \* its local id: the connection it waits for, or 0 (-1)
  conns,        \* the connections, in the order they were made
  out           \* what has been sent to each host

sockVars   == <<sock, open, arrived, buffer>>
listenVars == <<lpc, first, id>>
vars == <<alive, sockVars, listenVars, conns, out>>

Datagrams == [from : Hosts, num : 1..MaxDatagrams]

(* A connection: its client and its socket, whether its context is alive,  *)
(* where its listen and its handlePacket are, and the datagram each has.   *)
Connections == [client : Clients, sock : Nat, alive : BOOLEAN,
                rpc : {"offering", "looping", "reading", "ended"}, read : Datagrams,
                hpc : {"select", "asking", "writing", "exited"}, packet : Datagrams]

(* One invariant of types for the whole module.                            *)
TypeOK ==
  /\ alive \in BOOLEAN /\ sock \in Nat /\ open \in BOOLEAN
  /\ arrived \in 0..MaxDatagrams
  /\ buffer \in Seq(Datagrams)
  /\ lpc \in {"loop", "looking", "reading", "got", "making", "adding", "closed", "ended"}
  /\ first \in Datagrams \cup {<<>>}
  /\ id \in 0..Len(conns)
  /\ conns \in Seq(Connections)
  /\ out \in [Hosts -> Seq(Datagrams)]

Init ==
  /\ alive = TRUE /\ sock = 1 /\ open = TRUE
  /\ arrived = 0 /\ buffer = <<>>
  /\ lpc = "loop" /\ first = <<>> /\ id = 0
  /\ conns = <<>>
  /\ out = [x \in Hosts |-> <<>>]

(* A datagram for the proxy's address; without a socket it is lost.        *)
Arrive(x) ==
  /\ arrived < MaxDatagrams /\ arrived' = arrived + 1
  /\ buffer' = IF open THEN Append(buffer, [from |-> x, num |-> arrived']) ELSE buffer
  /\ UNCHANGED <<alive, sock, open, listenVars, conns, out>>

(* The spawner dies, and every context with it.                            *)
AllDead == [c \in DOMAIN conns |-> [conns[c] EXCEPT !.alive = FALSE]]

Shutdown ==
  /\ alive /\ alive' = FALSE
  /\ conns' = AllDead
  /\ UNCHANGED <<sockVars, listenVars, out>>

-----------------------------------------------------------------------------
(* UdpListener.                                                            *)

(* The lookup by id finds nothing, or a container that is dead.  (Mutants: *)
(* a connection that was found is taken for dead; or for alive.)           *)
MutAnyConn == id # 0
MutNoConn  == FALSE
ConnGone   == id # 0 /\ ~conns[id].alive

(* The head of the loop, and GetProxy, which waits for connectionLock.  As *)
(* long as its connection lives, the listener then only sleeps.            *)
(* (Mutant: it sleeps without looking at the context.)                     *)
MutSleep == ~alive /\ id = 0
CtxDone  == ~alive

LoopEnd ==
  /\ lpc = "loop" /\ CtxDone /\ lpc' = "ended"
  /\ UNCHANGED <<alive, sockVars, first, id, conns, out>>

LoopRead ==
  /\ lpc = "loop" /\ alive /\ id = 0 /\ lpc' = "reading"
  /\ UNCHANGED <<alive, sockVars, first, id, conns, out>>

LoopLook ==
  /\ lpc = "loop" /\ alive /\ id # 0 /\ lpc' = "looking"
  /\ UNCHANGED <<alive, sockVars, first, id, conns, out>>

StillThere ==
  /\ lpc = "looking" /\ ~ConnGone /\ lpc' = "loop"
  /\ UNCHANGED <<alive, sockVars, first, id, conns, out>>

LoopClose ==
  /\ lpc = "looking" /\ ConnGone /\ lpc' = "closed"
  /\ open' = FALSE /\ buffer' = <<>>
  /\ UNCHANGED <<alive, sock, arrived, first, id, conns, out>>

(* Mutant: the old socket is used again.                                   *)
MutSameSocket == sock
NewSocket == sock + 1

Reopen ==
  /\ lpc = "closed" /\ lpc' = "reading"
  /\ sock' = NewSocket /\ open' = TRUE /\ id' = 0
  /\ UNCHANGED <<alive, arrived, buffer, first, conns, out>>

(* It cancels its context and returns, and addListener ends the spawner.   *)
ReopenFailed ==
  /\ lpc = "closed" /\ lpc' = "ended"
  /\ alive' = FALSE /\ conns' = AllDead
  /\ UNCHANGED <<sockVars, first, id, out>>

(* A datagram from the server is ignored.                                  *)
ListenerRead ==
  /\ lpc = "reading" /\ buffer # <<>>
  /\ buffer' = Tail(buffer)
  /\ IF Head(buffer).from = Server
     THEN lpc' = "loop" /\ UNCHANGED first
     ELSE lpc' = "got" /\ first' = Head(buffer)
  /\ UNCHANGED <<alive, sock, open, arrived, id, conns, out>>

ReadNothing ==
  /\ lpc = "reading" /\ lpc' = "loop"
  /\ UNCHANGED <<alive, sockVars, first, id, conns, out>>

AddRefused ==
  /\ lpc = "got" /\ ~alive /\ lpc' = "loop"
  /\ first' = <<>> /\ id' = 0
  /\ UNCHANGED <<alive, sockVars, conns, out>>

AddCheck ==
  /\ lpc = "got" /\ alive /\ Len(conns) < MaxConns
  /\ lpc' = "making"
  /\ UNCHANGED <<alive, sockVars, first, id, conns, out>>

(* The connection is dead from its start if the spawner has died since the *)
(* check; its goroutines run before the listener knows its id, as it waits *)
(* for connectionLock to enter it in the table.                            *)
AddConnection ==
  /\ lpc = "making" /\ lpc' = "adding" /\ first' = <<>>
  /\ conns' = Append(conns, [client |-> first.from, sock |-> sock, alive |-> alive,
                             rpc |-> "offering", read |-> first,
                             hpc |-> "select", packet |-> first])
  /\ UNCHANGED <<alive, sockVars, id, out>>

(* Mutants: the id is forgotten, or that of the next one.                  *)
MutForgetId == 0
MutNextId   == Len(conns) + 1
NewId       == Len(conns)

Added ==
  /\ lpc = "adding" /\ lpc' = "loop"
  /\ id' = NewId
  /\ UNCHANGED <<alive, sockVars, first, conns, out>>

(* What it does by itself, and what takes connectionLock.                  *)
OwnStep ==
  \/ LoopEnd \/ LoopRead \/ LoopLook \/ Reopen \/ ReopenFailed
  \/ ListenerRead \/ ReadNothing \/ AddRefused
  \/ AddCheck \/ AddConnection
LockStep == StillThere \/ LoopClose \/ Added

ListenerStep == OwnStep \/ LockStep

-----------------------------------------------------------------------------
(* listen of a UdpProxy, which offers the first datagram before its loop.  *)

Usable(c) == open /\ conns[c].sock = sock

ListenGo(c, from, to) ==
  conns[c].rpc = from /\ conns' = [conns EXCEPT ![c].rpc = to]

ListenCheck(c) ==
  /\ ListenGo(c, "looping", IF conns[c].alive THEN "reading" ELSE "ended")
  /\ UNCHANGED <<alive, sockVars, listenVars, out>>

(* Others than its client and the server are ignored.                      *)
Receive(c) ==
  /\ conns[c].rpc = "reading" /\ Usable(c) /\ buffer # <<>>
  /\ buffer' = Tail(buffer)
  /\ conns' = IF Head(buffer).from \in {conns[c].client, Server}
              THEN [conns EXCEPT ![c].rpc = "offering", ![c].read = Head(buffer)]
              ELSE [conns EXCEPT ![c].rpc = "looping"]
  /\ UNCHANGED <<alive, sock, open, arrived, listenVars, out>>

ReceiveTimeout(c) ==
  /\ ListenGo(c, "reading", "looping")
  /\ UNCHANGED <<alive, sockVars, listenVars, out>>

(* The socket was closed, or any other error: it cancels the context.      *)
ReceiveError(c) ==
  /\ conns[c].rpc = "reading"
  /\ conns' = [conns EXCEPT ![c].rpc = "ended", ![c].alive = FALSE]
  /\ UNCHANGED <<alive, sockVars, listenVars, out>>

-----------------------------------------------------------------------------
(* handlePacket of its container, as in Relay; CloseProxy.                 *)

HandleGo(c, from, to) ==
  conns[c].hpc = from /\ conns' = [conns EXCEPT ![c].hpc = to]

HandleTake(c) ==
  /\ conns[c].hpc = "select" /\ conns[c].rpc = "offering"
  /\ conns' = [conns EXCEPT ![c].hpc = "asking", ![c].packet = conns[c].read,
                            ![c].rpc = "looping"]
  /\ UNCHANGED <<alive, sockVars, listenVars, out>>

HandleExit(c) ==
  /\ ~conns[c].alive /\ HandleGo(c, "select", "exited")
  /\ UNCHANGED <<alive, sockVars, listenVars, out>>

HandleVerdict(c, send) ==
  /\ HandleGo(c, "asking", IF send THEN "writing" ELSE "select")
  /\ UNCHANGED <<alive, sockVars, listenVars, out>>

Target(c) == IF conns[c].packet.from = Server THEN conns[c].client ELSE Server

HandleWrite(c) ==
  /\ Usable(c) /\ HandleGo(c, "writing", "select")
  /\ out' = [out EXCEPT ![Target(c)] = Append(@, conns[c].packet)]
  /\ UNCHANGED <<alive, sockVars, listenVars>>

HandleWriteFailed(c) ==
  /\ HandleGo(c, "writing", "select")
  /\ UNCHANGED <<alive, sockVars, listenVars, out>>

CloseProxy(c) ==
  /\ conns[c].alive /\ conns' = [conns EXCEPT ![c].alive = FALSE]
  /\ UNCHANGED <<alive, sockVars, listenVars, out>>

ConnStep(c) ==
  \/ ListenCheck(c) \/ Receive(c) \/ ReceiveTimeout(c) \/ ReceiveError(c)
  \/ HandleTake(c) \/ HandleExit(c) \/ \E send \in BOOLEAN : HandleVerdict(c, send)
  \/ HandleWrite(c) \/ HandleWriteFailed(c) \/ CloseProxy(c)

Next ==
  \/ Shutdown \/ ListenerStep
  \/ \E x \in Hosts : Arrive(x)
  \/ \E c \in DOMAIN conns : ConnStep(c)

Spec == Init /\ [][Next]_vars

(* The listener keeps running: its reads have a deadline and its sleep     *)
(* ends.  But a SendToAll* may keep connectionLock for ever (Commands).    *)
(* Nobody has to send, and no connection has to die.                       *)
FairSpec == Spec /\ WF_vars(OwnStep)

-----------------------------------------------------------------------------
(* Properties.                                                             *)

(* No datagram leaves out of order or twice, even when a client is cut off *)
(* and starts a new connection while handlePacket of the old one is still  *)
(* waiting for its filter: its socket is closed under it.                  *)
InOrder ==
  \A x \in Hosts : \A i, j \in DOMAIN out[x] :
    i < j /\ out[x][i].from = out[x][j].from => out[x][i].num < out[x][j].num

Readers(s) ==
  {c \in DOMAIN conns : conns[c].sock = s /\ conns[c].rpc # "ended"}
    \cup IF lpc = "reading" /\ sock = s THEN {0} ELSE {}

(* Nobody takes another's datagrams: a socket has one reader, the listener *)
(* or the listen of one connection, alive or not.                          *)
OneReader == \A s \in 1..sock : Cardinality(Readers(s)) <= 1

(* The listener does not close the socket under a living connection,       *)
(* although it knows the connection by its id only, and learns it late.    *)
LiveKeepsSocket == \A c \in DOMAIN conns : conns[c].alive => Usable(c)

(* Why these hold.  Sockets: every connection has a socket of its own, and *)
(* the listener does nothing but wait for the one that has the latest.     *)
(* Order: a datagram on its way through that socket is ahead of those that *)
(* wait in it, and behind all that were sent.                              *)
Unsent(d) == \A x \in Hosts : \A i \in DOMAIN out[x] : out[x][i].num < d.num
Ahead(d) ==
  /\ d.num <= arrived /\ Unsent(d)
  /\ \A i \in DOMAIN buffer : d.num < buffer[i].num

Sockets ==
  /\ lpc \notin {"closed", "ended"} => open
  /\ lpc = "closed" => ~open
  /\ id # 0 => id = Len(conns) /\ lpc \in {"loop", "looking", "closed", "ended"}
  /\ \A c \in DOMAIN conns :
       /\ conns[c].sock <= sock
       /\ conns[c].sock = sock =>
            /\ c = Len(conns) /\ lpc \in {"adding", "loop", "looking", "closed", "ended"}
            /\ lpc # "adding" => id = c
       /\ \A d \in DOMAIN conns : conns[d].sock = conns[c].sock => d = c

Order ==
  /\ \A x \in Hosts : \A i, j \in DOMAIN out[x] :
       out[x][i].num <= arrived /\ (i < j => out[x][i].num < out[x][j].num)
  /\ \A i, j \in DOMAIN buffer :
       /\ buffer[i].num <= arrived /\ Unsent(buffer[i])
       /\ i < j => buffer[i].num < buffer[j].num
  /\ lpc \in {"got", "making"} => first \in Datagrams /\ first.from # Server /\ Ahead(first)
  /\ \A c \in DOMAIN conns : Usable(c) =>
       /\ conns[c].rpc = "offering" => Ahead(conns[c].read)
       /\ conns[c].hpc \in {"asking", "writing"} =>
            /\ Ahead(conns[c].packet)
            /\ conns[c].rpc = "offering" => conns[c].packet.num < conns[c].read.num

(* And whatever a connection has is from its client or the server.         *)
Routes ==
  \A c \in DOMAIN conns :
    {conns[c].read.from, conns[c].packet.from} \subseteq {conns[c].client, Server}

PathInv == TypeOK /\ Sockets /\ LiveKeepsSocket /\ Order
IInv    == PathInv /\ Routes

(* The listener and its connections serve one client after the other, as   *)
(* Session promises it: what handlePacket of a connection sends reaches    *)
(* the other end of the connection that was made last, even when it was    *)
(* cut off meanwhile, and nothing of an older one is sent any more.        *)
Path == INSTANCE Session WITH
  client <- IF conns = <<>> THEN {} ELSE {conns[Len(conns)].client},
  live   <- conns # <<>> /\ conns[Len(conns)].alive

SessionSpec == Path!Spec

(* When its connection is dead the listener reads again, or has ended,     *)
(* unless it waits for connectionLock for ever.                            *)
AcceptsAgain ==
  (id # 0 /\ ~conns[id].alive) ~>
    (lpc = "ended" \/ (lpc = "reading" /\ id = 0) \/ [](lpc = "looking"))

(* The listener ends when its context does, wherever it is; only a wait    *)
(* for connectionLock does not end with the context.                       *)
ListenerEnds == ~alive ~> (lpc = "ended" \/ [](lpc \in {"looking", "adding"}))
==============================================================================
