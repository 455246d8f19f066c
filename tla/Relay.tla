-------------------------------- MODULE Relay --------------------------------
(***************************************************************************)
(* One TCP connection: the two listen goroutines of a TcpProxy             *)
(* (proxy/tcp.go), the handlePacket goroutine of its ProxyContainer        *)
(* (handler/proxy.go) that takes their packets from the unbuffered         *)
(* pktChan, and injections from other goroutines.                          *)
(*                                                                         *)
(* The n-th chunk read from a side is the number n.  HandleSend is its     *)
(* verdict (FilterSlot).  A write succeeds as a whole, or loses the chunk. *)
(* The container's statistics are left out.                                *)
(***************************************************************************)
EXTENDS Naturals, Sequences

CONSTANTS
  Injectors,  \* the goroutines that inject one packet
  MaxChunks   \* bound: the chunks each side sends

ASSUME MaxChunksAssumption == MaxChunks \in Nat

Sides == {"client", "server"}
Other(x) == IF x = "client" THEN "server" ELSE "client"

VARIABLES
  alive,    \* the container's context is not cancelled
  lpc,      \* where the listen of each side is
  nread,    \* how many chunks it has read
  hpc,      \* where handlePacket is,
  hside,    \* the side its packet came from,
  hnum,     \* and the packet's number
  out,      \* what was relayed to each side
  ipc,      \* where each injector is, and the side it writes to
  iside,
  injected, \* how many injected packets each side has got
  late      \* history: packets relayed since the context died

listenVars == <<lpc, nread>>
handleVars == <<hpc, hside, hnum>>
injectVars == <<ipc, iside, injected>>
vars == <<alive, listenVars, handleVars, out, injectVars, late>>

(* One invariant of types for the whole module.                            *)
TypeOK ==
  /\ alive \in BOOLEAN
  /\ lpc \in [Sides -> {"looping", "reading", "offering", "ended"}]
  /\ nread \in [Sides -> 0..MaxChunks]
  /\ hpc \in {"select", "asking", "writing", "exited"}
  /\ hside \in Sides /\ hnum \in 0..MaxChunks
  /\ out \in [Sides -> Seq(Nat)]
  /\ ipc \in [Injectors -> {"idle", "asking", "writing", "done", "refused"}]
  /\ iside \in [Injectors -> Sides]
  /\ injected \in [Sides -> Nat] /\ late \in Nat

Init ==
  /\ alive = TRUE
  /\ lpc = [x \in Sides |-> "looping"] /\ nread = [x \in Sides |-> 0]
  /\ hpc = "select" /\ hside = "client" /\ hnum = 0
  /\ out = [x \in Sides |-> <<>>]
  /\ ipc = [i \in Injectors |-> "idle"] /\ iside = [i \in Injectors |-> "client"]
  /\ injected = [x \in Sides |-> 0] /\ late = 0

(* The context is cancelled from outside: CloseProxy, the spawner.         *)
Cancel ==
  /\ alive /\ alive' = FALSE
  /\ UNCHANGED <<listenVars, handleVars, out, injectVars, late>>

-----------------------------------------------------------------------------
(* listen, one goroutine for each side.                                    *)

Goto(x, from, to) == lpc[x] = from /\ lpc' = [lpc EXCEPT ![x] = to]

(* Mutant: it does not look at the context.                                *)
MutForEver == TRUE
GoOn == alive

LoopCheck(x) ==
  /\ Goto(x, "looping", IF GoOn THEN "reading" ELSE "ended")
  /\ UNCHANGED <<alive, nread, handleVars, out, injectVars, late>>

ReadChunk(x) ==
  /\ nread[x] < MaxChunks
  /\ Goto(x, "reading", "offering")
  /\ nread' = [nread EXCEPT ![x] = @ + 1]
  /\ UNCHANGED <<alive, handleVars, out, injectVars, late>>

ReadTimeout(x) ==
  /\ Goto(x, "reading", "looping")
  /\ UNCHANGED <<alive, nread, handleVars, out, injectVars, late>>

(* The end of the stream or an error: it cancels the context.              *)
ReadEnd(x) ==
  /\ Goto(x, "reading", "ended")
  /\ alive' = FALSE
  /\ UNCHANGED <<nread, handleVars, out, injectVars, late>>

-----------------------------------------------------------------------------
(* handlePacket.                                                           *)

(* The rendezvous on pktChan.  (Mutants: the packet stays with listen,     *)
(* that sends it again; handlePacket gets the one after it.)               *)
MutSendAgain(x) == "offering"
AfterSend(x) == "looping"
MutNextOne(x) == nread[x] + 1
Handed(x) == nread[x]

HandleTake(x) ==
  /\ hpc = "select" /\ hpc' = "asking"
  /\ Goto(x, "offering", AfterSend(x))
  /\ hside' = x /\ hnum' = Handed(x)
  /\ UNCHANGED <<alive, nread, out, injectVars, late>>

(* Mutant: the select has no case for the context.                         *)
MutNotDone == FALSE
Done == ~alive

HandleExit ==
  /\ hpc = "select" /\ Done
  /\ hpc' = "exited"
  /\ UNCHANGED <<alive, listenVars, hside, hnum, out, injectVars, late>>

HandleVerdict(send) ==
  /\ hpc = "asking"
  /\ hpc' = IF send THEN "writing" ELSE "select"
  /\ UNCHANGED <<alive, listenVars, hside, hnum, out, injectVars, late>>

(* Mutant: back to where it came from.                                     *)
MutEcho(x) == x
Target(x) == Other(x)

HandleWrite ==
  /\ hpc = "writing" /\ hpc' = "select"
  /\ out' = [out EXCEPT ![Target(hside)] = Append(@, hnum)]
  /\ late' = IF alive THEN late ELSE late + 1
  /\ UNCHANGED <<alive, listenVars, hside, hnum, injectVars>>

(* The error is reported, and nothing else.                                *)
HandleWriteFailed ==
  /\ hpc = "writing" /\ hpc' = "select"
  /\ UNCHANGED <<alive, listenVars, hside, hnum, out, injectVars, late>>

-----------------------------------------------------------------------------
(* SendToClient and SendToServer.  An injected packet passes any filter.   *)

Inject(i, x) ==
  /\ ipc[i] = "idle"
  /\ ipc' = [ipc EXCEPT ![i] = IF alive THEN "asking" ELSE "refused"]
  /\ iside' = [iside EXCEPT ![i] = x]
  /\ UNCHANGED <<alive, listenVars, handleVars, out, injected, late>>

InjectVerdict(i) ==
  /\ ipc[i] = "asking"
  /\ ipc' = [ipc EXCEPT ![i] = "writing"]
  /\ UNCHANGED <<alive, listenVars, handleVars, out, iside, injected, late>>

InjectWrite(i) ==
  /\ ipc[i] = "writing"
  /\ ipc' = [ipc EXCEPT ![i] = "done"]
  /\ injected' = [injected EXCEPT ![iside[i]] = @ + 1] \/ UNCHANGED injected
  /\ UNCHANGED <<alive, listenVars, handleVars, out, iside, late>>

-----------------------------------------------------------------------------
ListenStep(x) == LoopCheck(x) \/ ReadChunk(x) \/ ReadTimeout(x) \/ ReadEnd(x)
HandleStep ==
  \/ \E x \in Sides : HandleTake(x)
  \/ HandleExit \/ HandleWrite \/ HandleWriteFailed
  \/ \E send \in BOOLEAN : HandleVerdict(send)
InjectStep(i) == InjectVerdict(i) \/ InjectWrite(i) \/ \E x \in Sides : Inject(i, x)

Next ==
  \/ Cancel \/ HandleStep
  \/ \E x \in Sides : ListenStep(x)
  \/ \E i \in Injectors : InjectStep(i)

Spec == Init /\ [][Next]_vars

(* The goroutines keep running: a read returns within its deadline, and    *)
(* handlePacket leaves its select.  No side has to send or to end, and a   *)
(* filter or a write, which has no deadline, need not return.              *)
Fairness ==
  /\ \A x \in Sides : WF_vars(ListenStep(x))
  /\ WF_vars(HandleExit \/ \E x \in Sides : HandleTake(x))

FairSpec == Spec /\ Fairness

-----------------------------------------------------------------------------
(* Properties.                                                             *)

Held(x) == hpc \in {"asking", "writing"} /\ hside = x
Offered(x) == lpc[x] = "offering"

Under(x) ==
  CASE Held(x) /\ Offered(x)   -> <<hnum, nread[x]>>
    [] Held(x) /\ ~Offered(x)  -> <<hnum>>
    [] ~Held(x) /\ Offered(x)  -> <<nread[x]>>
    [] ~Held(x) /\ ~Offered(x) -> <<>>

(* Each direction is a Pipe, whatever the other direction, the filter, the *)
(* failures of writes and the injections do.                               *)
Up   == INSTANCE Pipe WITH taken <- nread["client"], flight <- Under("client"), out <- out["server"]
Down == INSTANCE Pipe WITH taken <- nread["server"], flight <- Under("server"), out <- out["client"]
TwoPipes == Up!Spec /\ Down!Spec

(* Once its context is dead, a proxy relays three packets at most: the one *)
(* handlePacket has, and one of each listen.                               *)
FewAfterDeath == late <= 3

(* And it comes to an end: each further step of a listen or handlePacket   *)
(* is one less of those that are left, so that packets that keep coming,   *)
(* which select may prefer, do not keep it alive.                          *)
ListenLeft == [reading |-> 3, offering |-> 2, looping |-> 1, ended |-> 0]
HandleLeft == [asking |-> 3, writing |-> 2, select |-> 1, exited |-> 0]
StepsLeft ==
  3 * (ListenLeft[lpc["client"]] + ListenLeft[lpc["server"]]) + HandleLeft[hpc]

RunsOut ==
  [][~alive =>
       /\ ~alive'
       /\ <<lpc, hpc, out>>' # <<lpc, hpc, out>> =>
            0 <= StepsLeft' /\ StepsLeft' < StepsLeft]_vars

(* A proxy that is closed stops relaying: handlePacket ends, although its  *)
(* select may take packets as long as listen has any, unless the filter or *)
(* a write never returns: the cancelled context ends neither.              *)
HandlerEnds == ~alive ~> (hpc = "exited" \/ [](hpc \in {"asking", "writing"}))
==============================================================================
