------------------------------ MODULE Commands ------------------------------
(***************************************************************************)
(* What requests do to the connections of a spawner: the HTTP endpoint     *)
(* inject, the inject and close messages of a WebSocket, and the functions *)
(* of a Lua script come down to GetProxy, GetAllProxies, Cancel, the two   *)
(* SendTo* of a container and the two SendToAll* of the spawner, which     *)
(* hold connectionLock while they send.  The pruner, AddConnection and the *)
(* recv of a WebSocket want the same lock.                                 *)
(*                                                                         *)
(* A request stands for its packet.  HandleSend is the question to the     *)
(* filter (FilterSlot) and the offer to the watchers (RecvChans).  The     *)
(* filter may take for ever: a WebSocket that does not read, a script      *)
(* without end.  So may a write: neither socket of a TcpProxy has a        *)
(* deadline for writes, and Cancel closes neither.                         *)
(***************************************************************************)
EXTENDS Naturals, Sequences

CONSTANTS
  Conns,      \* the connections, each enters the table once
  Requests,   \* the goroutines with a request
  Watchers,   \* the recv goroutines of WebSockets
  Wishes,     \* what each may ask for, a set of Commands
  NoConn, NoRequest

Sides == {"client", "server"}
Other(x) == IF x = "client" THEN "server" ELSE "client"

(* Whom a packet goes to: every connection, or one.  An inject for both    *)
(* sides begins with one of them: the endpoint with the clients, the       *)
(* WebSocket with the servers.  Lua's inject_to_both stops after the first.*)
Injects  == [kind : {"sendAll"}, target : {NoConn}, first : Sides, both : BOOLEAN]
              \cup [kind : {"sendOne"}, target : Conns, first : Sides, both : BOOLEAN]
Closes   == [kind : {"closeAll", "list"}, target : {NoConn}]
              \cup [kind : {"closeOne"}, target : Conns]
Commands == Injects \cup Closes
NoWish   == [kind |-> "none", target |-> NoConn]

ASSUME WishesAssumption == Wishes \in [Requests -> SUBSET Commands]
ASSUME NoConnAssumption == NoConn \notin Conns
ASSUME NoRequestAssumption == NoRequest \notin Requests

VARIABLES
  table,     \* p.connections
  status,    \* the context of each connection's container
  lock,      \* who holds connectionLock across steps
  wish,      \* what each request asks for,
  pc,        \* where it is,
  todo, at,  \* the connections it has still to look at, and the one in hand
  side,      \* the side it is sending to,
  later,     \* and those it has still to send to
  out,       \* the packets written to each side of each connection
  failed,    \* the connections at which the current call met an error
  wpc,       \* where each watcher is
  barred     \* history: the connections that were dead when a request began

connVars    == <<table, status>>
requestVars == <<wish, pc, todo, at, side, later>>
outVars     == <<out, failed>>
vars == <<connVars, lock, requestVars, outVars, wpc, barred>>

(* One invariant of types for the whole module.                            *)
TypeOK ==
  /\ table \subseteq Conns
  /\ status \in [Conns -> {"new", "alive", "dead"}]
  /\ lock \in Requests \cup {NoRequest}
  /\ wish \in [Requests -> Commands \cup {NoWish}]
  /\ pc \in [Requests -> {"idle", "waiting", "looping", "entering", "asking", "calling",
                          "called", "offering", "writing", "cancelling", "done"}]
  /\ todo \in [Requests -> SUBSET Conns]
  /\ at \in [Requests -> Conns \cup {NoConn}]
  /\ side \in [Requests -> Sides] /\ later \in [Requests -> SUBSET Sides]
  /\ out \in [Sides -> [Conns -> Seq(Requests)]]
  /\ failed \in [Requests -> SUBSET Conns]
  /\ wpc \in [Watchers -> {"ready", "looking"}]
  /\ barred \in [Requests -> SUBSET Conns]

Init ==
  /\ table = {} /\ status = [c \in Conns |-> "new"]
  /\ lock = NoRequest
  /\ wish = [r \in Requests |-> NoWish]
  /\ pc = [r \in Requests |-> "idle"]
  /\ todo = [r \in Requests |-> {}] /\ at = [r \in Requests |-> NoConn]
  /\ side = [r \in Requests |-> "client"] /\ later = [r \in Requests |-> {}]
  /\ out = [x \in Sides |-> [c \in Conns |-> <<>>]]
  /\ failed = [r \in Requests |-> {}]
  /\ wpc = [w \in Watchers |-> "ready"]
  /\ barred = [r \in Requests |-> {}]

LockFree == lock = NoRequest
Goto(r, from, to) == pc[r] = from /\ pc' = [pc EXCEPT ![r] = to]

-----------------------------------------------------------------------------
(* The table and its pruner.                                               *)

AddConnection(c) ==
  /\ status[c] = "new" /\ LockFree
  /\ status' = [status EXCEPT ![c] = "alive"]
  /\ table' = table \cup {c}
  /\ UNCHANGED <<lock, requestVars, outVars, wpc, barred>>

(* The connection's own goroutines, or the death of the spawner.           *)
Die(c) ==
  /\ status[c] = "alive"
  /\ status' = [status EXCEPT ![c] = "dead"]
  /\ UNCHANGED <<table, lock, requestVars, outVars, wpc, barred>>

(* One tick: nobody else sees the table between its looks.                 *)
Prune ==
  /\ LockFree
  /\ \E c \in table : status[c] = "dead"
  /\ table' = {c \in table : status[c] # "dead"}
  /\ UNCHANGED <<status, lock, requestVars, outVars, wpc, barred>>

-----------------------------------------------------------------------------
(* A request arrives.  Whatever it wants, it wants connectionLock first.   *)

Begin(r, k) ==
  /\ Goto(r, "idle", "waiting")
  /\ wish' = [wish EXCEPT ![r] = k]
  /\ IF k \in Injects
     THEN /\ side'  = [side EXCEPT ![r] = k.first]
          /\ later' = [later EXCEPT ![r] = IF k.both THEN Sides \ {k.first} ELSE {}]
     ELSE UNCHANGED <<side, later>>
  /\ barred' = [barred EXCEPT ![r] = {c \in Conns : status[c] = "dead"}]
  /\ UNCHANGED <<connVars, lock, todo, at, outVars, wpc>>

(* SendToAllClients, SendToAllServers: the lock is kept.  (Mutant: they    *)
(* work on a copy of the table, like those that call GetAllProxies.)       *)
MutCopy(r) == UNCHANGED lock
Keep(r)    == lock' = r

LockAll(r) ==
  /\ wish[r].kind = "sendAll" /\ LockFree
  /\ Goto(r, "waiting", "looping")
  /\ Keep(r)
  /\ todo' = [todo EXCEPT ![r] = table]
  /\ UNCHANGED <<connVars, wish, at, side, later, outVars, wpc, barred>>

(* GetProxy: the lock is taken and given back.                             *)
Find(r) ==
  /\ wish[r].kind \in {"sendOne", "closeOne"} /\ LockFree
  /\ Goto(r, "waiting", IF wish[r].target \notin table THEN "done"
                        ELSE IF wish[r].kind = "sendOne" THEN "looping" ELSE "cancelling")
  /\ todo' = [todo EXCEPT ![r] = table \cap {wish[r].target}]
  /\ UNCHANGED <<connVars, lock, wish, at, side, later, outVars, wpc, barred>>

(* GetAllProxies: a copy of the table.  The status needs no more.          *)
List(r) ==
  /\ wish[r].kind \in {"closeAll", "list"} /\ LockFree
  /\ Goto(r, "waiting", IF wish[r].kind = "list" \/ table = {} THEN "done" ELSE "cancelling")
  /\ todo' = [todo EXCEPT ![r] = IF wish[r].kind = "list" THEN {} ELSE table]
  /\ UNCHANGED <<connVars, lock, wish, at, side, later, outVars, wpc, barred>>

(* Cancel, for each connection that was found.                             *)
Cancel(r, c) ==
  /\ c \in todo[r]
  /\ Goto(r, "cancelling", IF todo[r] = {c} THEN "done" ELSE "cancelling")
  /\ status' = [status EXCEPT ![c] = "dead"]
  /\ todo' = [todo EXCEPT ![r] = @ \ {c}]
  /\ UNCHANGED <<table, lock, wish, at, side, later, outVars, wpc, barred>>

-----------------------------------------------------------------------------
(* SendToClient and SendToServer of one connection.                        *)

(* A SendToAll* skips a connection that is dead (IsAlive).                  *)
Take(r, c) ==
  /\ c \in todo[r]
  /\ LET skips == wish[r].kind = "sendAll" /\ status[c] # "alive"
     IN  /\ Goto(r, "looping", IF skips THEN "looping" ELSE "entering")
         /\ at' = [at EXCEPT ![r] = IF skips THEN NoConn ELSE c]
  /\ todo' = [todo EXCEPT ![r] = @ \ {c}]
  /\ UNCHANGED <<connVars, lock, wish, side, later, outVars, wpc, barred>>

(* SendTo* of the container looks at its context again: the connection may *)
(* have died in between, and that is an error.  (Mutant: it does not look.)*)
MutAnyway(c) == TRUE
Sendable(c)  == status[c] = "alive"

Enter(r) ==
  LET c == at[r]
  IN  /\ Goto(r, "entering", IF Sendable(c) THEN "asking" ELSE "looping")
      /\ IF Sendable(c)
         THEN UNCHANGED <<at, failed>>
         ELSE /\ at' = [at EXCEPT ![r] = NoConn]
              /\ failed' = [failed EXCEPT ![r] = @ \cup {c}]
      /\ UNCHANGED <<connVars, lock, wish, todo, side, later, out, wpc, barred>>

(* The verdict on an injected packet counts for nothing.  (Mutant: it      *)
(* does, as the comment at proxy.go:66 says.)                              *)
MutHonoured(send) == send
Passes(send) == TRUE

Answer(r, send) ==
  /\ pc[r] \in {"asking", "called"}
  /\ pc' = [pc EXCEPT ![r] = IF Passes(send) THEN "offering" ELSE "looping"]
  /\ UNCHANGED <<connVars, lock, wish, todo, at, side, later, outVars, wpc, barred>>

(* The filter is a script, and calls GetProxy before it answers.           *)
CallBack(r) ==
  /\ Goto(r, "asking", "calling")
  /\ UNCHANGED <<connVars, lock, wish, todo, at, side, later, outVars, wpc, barred>>

Return(r) ==
  /\ LockFree
  /\ Goto(r, "calling", "called")
  /\ UNCHANGED <<connVars, lock, wish, todo, at, side, later, outVars, wpc, barred>>

(* After the filter the packet is offered to the watchers; those that are  *)
(* not in their select do not get it.  (Mutant: it waits for them.)        *)
MutAllReady(W) == W = Watchers
Offered(W)     == TRUE

Offer(r) ==
  \E W \in SUBSET {w \in Watchers : wpc[w] = "ready"} :
    /\ Offered(W)
    /\ Goto(r, "offering", "writing")
    /\ wpc' = [w \in Watchers |-> IF w \in W THEN "looking" ELSE wpc[w]]
    /\ UNCHANGED <<connVars, lock, wish, todo, at, side, later, outVars, barred>>

Write(r) ==
  /\ Goto(r, "writing", "looping")
  /\ out' = [out EXCEPT ![side[r]][at[r]] = Append(@, r)]
  /\ at' = [at EXCEPT ![r] = NoConn]
  /\ UNCHANGED <<connVars, lock, wish, todo, side, later, failed, wpc, barred>>

(* The error is kept for the caller; the loop goes on.  (Mutant: the first *)
(* one ends it.)                                                           *)
MutGiveUp(r) == {}
GoOn(r) == todo[r]

WriteFails(r) ==
  /\ Goto(r, "writing", "looping")
  /\ failed' = [failed EXCEPT ![r] = @ \cup {at[r]}]
  /\ at' = [at EXCEPT ![r] = NoConn]
  /\ todo' = [todo EXCEPT ![r] = GoOn(r)]
  /\ UNCHANGED <<connVars, lock, wish, side, later, out, wpc, barred>>

-----------------------------------------------------------------------------
(* The deferred Unlock.  (Mutant: it is forgotten where there was an       *)
(* error.)                                                                 *)
MutKeepOnError(r) == IF failed[r] = {} THEN NoRequest ELSE lock
Unlocked(r) == NoRequest

(* The loop is over: the other side's turn, with a new look at the table   *)
(* if the packet goes to all, or the end.                                  *)
NextSide(r) ==
  /\ todo[r] = {}
  /\ Goto(r, "looping", IF later[r] = {} THEN "done"
                        ELSE IF wish[r].kind = "sendAll" THEN "waiting" ELSE "looping")
  /\ lock' = IF wish[r].kind = "sendAll" THEN Unlocked(r) ELSE lock
  /\ later' = [later EXCEPT ![r] = {}]
  /\ IF later[r] = {}
     THEN side' = [side EXCEPT ![r] = "client"] /\ UNCHANGED todo
     ELSE /\ side' = [side EXCEPT ![r] = Other(side[r])]
          /\ todo' = [todo EXCEPT ![r] = IF wish[r].kind = "sendOne" THEN {wish[r].target} ELSE {}]
  /\ failed' = [failed EXCEPT ![r] = {}]
  /\ UNCHANGED <<connVars, wish, at, out, wpc, barred>>

(* recv looks the connection of its packet up, and sends the packet on or  *)
(* drops it.                                                               *)
Watch(w) ==
  /\ wpc[w] = "looking" /\ LockFree
  /\ wpc' = [wpc EXCEPT ![w] = "ready"]
  /\ UNCHANGED <<connVars, lock, requestVars, outVars, barred>>

-----------------------------------------------------------------------------
LockStep(r)   == LockAll(r) \/ Find(r) \/ List(r) \/ Return(r)
OwnStep(r)    ==
  \/ \E c \in todo[r] : Take(r, c) \/ Cancel(r, c)
  \/ Enter(r) \/ Offer(r) \/ NextSide(r)
FilterStep(r) == CallBack(r) \/ \E send \in BOOLEAN : Answer(r, send)
WriteStep(r)  == Write(r) \/ WriteFails(r)

Next ==
  \/ \E c \in Conns : AddConnection(c) \/ Die(c)
  \/ Prune
  \/ \E r \in Requests :
       \/ \E k \in Wishes[r] : Begin(r, k)
       \/ LockStep(r) \/ OwnStep(r) \/ FilterStep(r) \/ WriteStep(r)
  \/ \E w \in Watchers : Watch(w)

Spec == Init /\ [][Next]_vars

(* A goroutine that is not blocked goes on, and the mutex is               *)
(* starvation-free for all that want it.  Nothing makes a filter answer or *)
(* a peer read: of FilterStep and WriteStep no fairness is assumed.        *)
Fairness ==
  /\ \A r \in Requests : WF_vars(OwnStep(r)) /\ SF_vars(LockStep(r))
  /\ \A w \in Watchers : SF_vars(Watch(w))

FairSpec == Spec /\ Fairness

-----------------------------------------------------------------------------
(* Properties.                                                             *)

ForAll(r) == wish[r].kind = "sendAll"

Before(x, c, r, s) ==
  \E i, j \in DOMAIN out[x][c] : i < j /\ out[x][c][i] = r /\ out[x][c][j] = s

(* Two packets that were injected into all connections at once come to     *)
(* every client, and to every server, in the same order (SendToAll* keep   *)
(* connectionLock over their loop).                                        *)
AllSameOrder ==
  \A x \in Sides, c, d \in Conns, r, s \in Requests :
    ForAll(r) /\ ForAll(s) => ~(Before(x, c, r, s) /\ Before(x, d, s, r))

(* On each side a packet for all has its turn, from the lock to the unlock  *)
(* of one SendToAll*, once, and comes to each connection once; one for a   *)
(* single connection, or for the other side, may come between them.        *)
For(r, x) == ForAll(r) /\ (wish[r].first = x \/ wish[r].both)

Turn(x)    == {r \in Requests : lock = r /\ side[r] = x}
Over(x)    == {r \in Requests :
                 For(r, x) /\ x \notin later[r] /\ (pc[r] = "done" \/ side[r] # x)}
Private(x) == {r \in Requests : pc[r] # "idle" /\ ~For(r, x)}

Clients == INSTANCE Broadcast WITH
  Packets <- Requests, Readers <- Conns, turn <- Turn("client"), over <- Over("client"),
  private <- Private("client"), got <- out["client"]
Servers == INSTANCE Broadcast WITH
  Packets <- Requests, Readers <- Conns, turn <- Turn("server"), over <- Over("server"),
  private <- Private("server"), got <- out["server"]
BothFeeds == Clients!Spec /\ Servers!Spec

(* When the loop of a SendToAll* ends, every living connection of the      *)
(* table has the packet, once, or an error to show for it: none is lost    *)
(* to a filter, to another's error, or to one that came or went meanwhile. *)
Got(r, x, c)   == \E i \in DOMAIN out[x][c] : out[x][c][i] = r
Twice(r, x, c) == \E i, j \in DOMAIN out[x][c] : i # j /\ out[x][c][i] = r /\ out[x][c][j] = r

AllReached ==
  \A r \in Requests : ForAll(r) /\ pc[r] = "looping" /\ todo[r] = {} =>
    \A c \in table : status[c] = "alive" =>
      (Got(r, side[r], c) <=> c \notin failed[r]) /\ ~Twice(r, side[r], c)

(* A connection that was closed before a request came gets nothing of it,  *)
(* even if the pruner has not seen it yet and the request still finds it.  *)
NothingAfterClose ==
  \A r \in Requests, x \in Sides : \A c \in barred[r] : ~Got(r, x, c)

(* A request comes to its end: if one is under way for ever, its own       *)
(* filter or its own write never ends, or that of a SendToAll* that has    *)
(* connectionLock, a callback for the very lock it holds among them.  So a *)
(* peer or a filter that never answers holds up no other request while     *)
(* packets are injected one by one; and a watcher that waits for the lock  *)
(* does not hold up the request that has it.                               *)
UnderWay(r) == pc[r] \notin {"idle", "done"}
Outside(r)  == pc[r] \in {"asking", "called", "writing"}
Wedges(s)   == lock = s /\ (Outside(s) \/ pc[s] = "calling")

RequestsEnd ==
  \A r \in Requests :
    <>[]UnderWay(r) => <>[]Outside(r) \/ \E s \in Requests : <>[]Wedges(s)

-----------------------------------------------------------------------------
(* The inductive invariant.                                                *)

Sending == {"looping", "entering", "asking", "calling", "called", "offering", "writing"}
Asked   == Sending \ {"looping", "entering"}

(* connectionLock is held by the one SendToAll* that is in its loop.       *)
LockInv == \A r \in Requests : lock = r <=> ForAll(r) /\ pc[r] \in Sending

(* The connection that r is busy with.                                     *)
InHand(r, c) == pc[r] \in Sending \ {"looping"} /\ at[r] = c

HandInv ==
  \A r \in Requests :
    /\ pc[r] \in Sending \ {"looping"} => at[r] \in Conns /\ at[r] \notin todo[r]
    /\ pc[r] \in Asked => at[r] \notin barred[r]
    /\ later[r] \subseteq {Other(side[r])}
    /\ pc[r] = "idle" => wish[r] = NoWish

(* Where r has still to go, its packet has not been.                       *)
Ahead(r, x, c) ==
  \/ pc[r] = "idle" \/ x \in later[r]
  \/ x = side[r] /\ (pc[r] = "waiting" \/ InHand(r, c) \/ (pc[r] \in Sending /\ c \in todo[r]))

OnceInv ==
  \A r \in Requests, x \in Sides, c \in Conns :
    ~Twice(r, x, c) /\ (Ahead(r, x, c) => ~Got(r, x, c))

(* What a SendToAll* has behind it has the packet, or an error, or died.   *)
Behind(r, c) == c \notin todo[r] /\ ~InHand(r, c)

ReachInv ==
  \A r \in Requests, c \in Conns :
    /\ c \in failed[r] => pc[r] \in Sending /\ Behind(r, c)
    /\ ForAll(r) /\ pc[r] \in Sending /\ c \in table /\ status[c] = "alive" /\ Behind(r, c) =>
         (Got(r, side[r], c) <=> c \notin failed[r])

BarredInv ==
  \A r \in Requests : \A c \in barred[r] :
    status[c] = "dead" /\ \A x \in Sides : ~Got(r, x, c)

(* One that another has overtaken anywhere on a side is done there.        *)
OrderInv ==
  \A x \in Sides, c \in Conns, r, s \in Requests :
    ForAll(r) /\ ForAll(s) /\ Before(x, c, r, s) => ~(lock = r /\ side[r] = x)

(* A request for all goes where it was to go.                              *)
ForInv ==
  \A r \in Requests : ForAll(r) =>
    /\ pc[r] \in {"waiting", "done"} \cup Sending
    /\ pc[r] # "done" => \A x \in {side[r]} \cup later[r] : For(r, x)

IInv == /\ TypeOK /\ LockInv /\ HandInv /\ OnceInv /\ ReachInv /\ BarredInv /\ OrderInv
        /\ ForInv /\ AllSameOrder
==============================================================================
