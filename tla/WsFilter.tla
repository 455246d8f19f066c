------------------------------ MODULE WsFilter ------------------------------
(***************************************************************************)
(* A WebSocket that filters (api/websocket.go, api/ws_client.go): the      *)
(* callback handleRecvFilter, run by one goroutine per packet, and the     *)
(* listen goroutine that takes the client's answers.  They share filterMap *)
(* without a lock, and one unbuffered channel, filterChan, on which listen *)
(* tells some waiting packet, not a particular one, that the map changed.  *)
(*                                                                         *)
(* A packet stands for its PktNum, which is unique (pktIdLock).  A panic   *)
(* stops the program.                                                      *)
(***************************************************************************)
EXTENDS Naturals, FiniteSets

CONSTANTS
  Packets,   \* the packets handed to the callback
  Injected,  \* those of them that were injected
  Default,   \* the verdict of the 'default' parameter
  NoPacket

Verdicts == {"allow", "drop"}

ASSUME InjectedAssumption == Injected \subseteq Packets
ASSUME DefaultAssumption == Default \in Verdicts
ASSUME NoPacketAssumption == NoPacket \notin Packets

VARIABLES
  pc, verdict,   \* where each packet's goroutine is, and what it returned
  byAnswer,      \* the packets decided by the client's answer
  filterMap,     \* PktNum -> "wait" or the answer, "absent" without an entry
  lpc, lmsg,     \* where listen is, and the packet whose answer it has
  ws,            \* the handshake is through: w.ws is not nil
  alive,         \* the WebSocket's context is not cancelled
  connected,     \* the client is there
  crash

packetVars == <<pc, verdict, byAnswer>>
listenVars == <<lpc, lmsg, ws>>
vars == <<packetVars, filterMap, listenVars, alive, connected, crash>>

Waiters == {p \in Packets : pc[p] = "waiting"}

(* One invariant of types for the whole module.                            *)
TypeOK ==
  /\ pc \in [Packets -> {"new", "numbered", "sending", "waiting", "woken", "erring", "decided"}]
  /\ verdict \in [Packets -> Verdicts \cup {"none"}]
  /\ byAnswer \subseteq Packets
  /\ filterMap \in [Packets -> Verdicts \cup {"absent", "wait"}]
  /\ lpc \in {"accepting", "reading", "answering", "refusing", "offering", "stopped"}
  /\ lmsg \in Packets \cup {NoPacket}
  /\ {ws, alive, connected, crash} \subseteq BOOLEAN

Init ==
  /\ pc = [p \in Packets |-> "new"] /\ verdict = [p \in Packets |-> "none"]
  /\ byAnswer = {}
  /\ filterMap = [p \in Packets |-> "absent"]
  /\ lpc = "accepting" /\ lmsg = NoPacket /\ ws = FALSE
  /\ alive = TRUE /\ connected = TRUE /\ crash = FALSE

Goto(p, from, to) == pc[p] = from /\ pc' = [pc EXCEPT ![p] = to]

Decide(p, from, v) ==
  /\ Goto(p, from, "decided")
  /\ verdict' = [verdict EXCEPT ![p] = v]

-----------------------------------------------------------------------------
(* handleRecvFilter.                                                       *)

Mismatch(p) ==
  /\ Decide(p, "new", Default)
  /\ UNCHANGED <<byAnswer, filterMap, listenVars, alive, connected, crash>>

Number(p) ==
  /\ Goto(p, "new", IF p \in Injected THEN "sending" ELSE "numbered")
  /\ UNCHANGED <<verdict, byAnswer, filterMap, listenVars, alive, connected, crash>>

Enter(p) ==
  /\ Goto(p, "numbered", "sending")
  /\ filterMap' = [filterMap EXCEPT ![p] = "wait"]
  /\ UNCHANGED <<verdict, byAnswer, listenVars, alive, connected, crash>>

(* The callback is set before the WebSocket is accepted, which may fail:   *)
(* w.ws may be nil, and stay so.                                           *)
SendNil(p) ==
  /\ pc[p] = "sending" /\ ~ws
  /\ crash' = TRUE
  /\ UNCHANGED <<packetVars, filterMap, listenVars, alive, connected>>

Sent(p) ==
  /\ ws /\ connected
  /\ IF p \in Injected
     THEN Decide(p, "sending", "allow")
     ELSE Goto(p, "sending", "waiting") /\ UNCHANGED verdict
  /\ UNCHANGED <<byAnswer, filterMap, listenVars, alive, connected, crash>>

SendFailed(p) ==
  /\ ws
  /\ Decide(p, "sending", Default)
  /\ UNCHANGED <<byAnswer, filterMap, listenVars, alive, connected, crash>>

(* The select: the context, the timer, or the channel (Offer).             *)
ContextDone(p) ==
  /\ ~alive
  /\ Decide(p, "waiting", Default)
  /\ UNCHANGED <<byAnswer, filterMap, listenVars, alive, connected, crash>>

(* Mutant: nobody waits for the timer.                                     *)
MutNoTimer(p) == FALSE
TimerFires(p) == pc[p] = "waiting"

(* The client is told before the packet is decided.                        *)
TimeOut(p) ==
  /\ TimerFires(p)
  /\ Goto(p, "waiting", "erring")
  /\ UNCHANGED <<verdict, byAnswer, filterMap, listenVars, alive, connected, crash>>

ErrorSent(p) ==
  /\ Decide(p, "erring", Default)
  /\ UNCHANGED <<byAnswer, filterMap, listenVars, alive, connected, crash>>

(* Something in the map changed.  (Mutant: any change will do.)            *)
MutAnyChange(p) == filterMap[p] # "absent"
Answered(p) == filterMap[p] \in Verdicts

Woken(p) ==
  /\ IF Answered(p)
     THEN Decide(p, "woken", filterMap[p]) /\ byAnswer' = byAnswer \cup {p}
     ELSE Goto(p, "woken", "waiting") /\ UNCHANGED <<verdict, byAnswer>>
  /\ UNCHANGED <<filterMap, listenVars, alive, connected, crash>>

-----------------------------------------------------------------------------
(* newWebSocket and listen.                                                *)

Accept ==
  /\ lpc = "accepting" /\ lpc' = "reading" /\ ws' = TRUE
  /\ UNCHANGED <<packetVars, filterMap, lmsg, alive, connected, crash>>

(* An invalid parameter, a failed handshake; later, a failed read: Close.  *)
Stop ==
  /\ lpc \in {"accepting", "reading"}
  /\ lpc = "reading" => ~connected \/ ~alive
  /\ lpc' = "stopped" /\ alive' = FALSE
  /\ UNCHANGED <<packetVars, filterMap, lmsg, ws, connected, crash>>

(* handleClientAction with a filter message, for any number and verdict.   *)
(* Unknown and handled packets are refused.  (Mutant: handled ones are     *)
(* not.)                                                                   *)
MutAnyTime(p) == filterMap[p] # "absent"
MayAnswer(p) == filterMap[p] = "wait"

ReadAnswer(p) ==
  /\ lpc = "reading" /\ connected /\ alive
  /\ lpc' = "answering" /\ lmsg' = p
  /\ UNCHANGED <<packetVars, filterMap, ws, alive, connected, crash>>

Answer(v) ==
  /\ lpc = "answering"
  /\ IF MayAnswer(lmsg)
     THEN filterMap' = [filterMap EXCEPT ![lmsg] = v] /\ lpc' = "offering" /\ UNCHANGED lmsg
     ELSE lpc' = "refusing" /\ lmsg' = NoPacket /\ UNCHANGED filterMap
  /\ UNCHANGED <<packetVars, ws, alive, connected, crash>>

(* The client was told (sendError), or the write failed.                   *)
Refused ==
  /\ lpc = "refusing" /\ lpc' = "reading"
  /\ UNCHANGED <<packetVars, filterMap, lmsg, ws, alive, connected, crash>>

(* filterChan: whoever waits takes it; with nobody waiting, listen blocks. *)
Offer(p) ==
  /\ lpc = "offering"
  /\ Goto(p, "waiting", "woken")
  /\ lpc' = "reading" /\ lmsg' = NoPacket
  /\ UNCHANGED <<verdict, byAnswer, filterMap, ws, alive, connected, crash>>

(* The runtime may notice two goroutines in the map, one of them writing.  *)
InMap(p) == pc[p] \in {"numbered", "woken"}
MapFault ==
  /\ \/ \E p, q \in Packets : p # q /\ pc[p] = "numbered" /\ InMap(q)
     \/ lpc = "answering" /\ \E p \in Packets : pc[p] = "numbered" \/ (InMap(p) /\ MayAnswer(lmsg))
  /\ crash' = TRUE
  /\ UNCHANGED <<packetVars, filterMap, listenVars, alive, connected>>

Disconnect ==
  /\ connected /\ connected' = FALSE
  /\ UNCHANGED <<packetVars, filterMap, listenVars, alive, crash>>

(* The API's context, the parent of the WebSocket's, ends.                 *)
Shutdown ==
  /\ alive /\ alive' = FALSE
  /\ UNCHANGED <<packetVars, filterMap, listenVars, connected, crash>>

-----------------------------------------------------------------------------
PacketStep(p) ==
  \/ Mismatch(p) \/ Number(p) \/ Enter(p) \/ SendNil(p) \/ Sent(p) \/ SendFailed(p)
  \/ ContextDone(p) \/ TimeOut(p) \/ ErrorSent(p) \/ Woken(p)

ListenStep ==
  \/ Accept \/ Stop \/ Refused \/ \E p \in Packets : ReadAnswer(p) \/ Offer(p)
  \/ \E v \in Verdicts : Answer(v)

Next ==
  /\ ~crash
  /\ \/ \E p \in Packets : PacketStep(p)
     \/ ListenStep \/ MapFault \/ Disconnect \/ Shutdown

Spec == Init /\ [][Next]_vars

Running(A) == ~crash /\ A

(* A packet's goroutine keeps running and its timer fires in the end.  No  *)
(* client need answer, nor read: a write has no deadline, and only the end *)
(* of the connection or of the context is sure to end it.                  *)
Fairness ==
  \A p \in Packets :
    /\ WF_vars(Running(Enter(p))) /\ WF_vars(Running(Woken(p)))
    /\ WF_vars(Running(ContextDone(p) \/ TimeOut(p)))
    /\ WF_vars(Running(SendNil(p)))
    /\ WF_vars(Running((~connected \/ ~alive) /\ (Sent(p) \/ SendFailed(p) \/ ErrorSent(p))))

FairSpec == Spec /\ Fairness

-----------------------------------------------------------------------------
(* Properties.                                                             *)

(* A packet decided by an answer was decided by the only one there will    *)
(* ever be: no later message changes it ("packet already handled").        *)
AnswerIsFinal == \A p \in byAnswer : verdict[p] = filterMap[p]

(* listen is left without anyone to tell only if some answer was ignored:  *)
(* it came too late, or another packet had taken the wake-up it was to     *)
(* get, and the answered packet went by the default.                       *)
StuckOnlyIfIgnored ==
  lpc = "offering" /\ (\A p \in Packets : pc[p] \in {"new", "erring", "decided"}) =>
    \E p \in Packets :
      pc[p] \in {"erring", "decided"} /\ filterMap[p] \in Verdicts /\ p \notin byAnswer

(* Every wake-up is paid for by an answer: MapInv, AnswerInv and ListenInv *)
(* say where the goroutines are when they use the map, and CountInv that   *)
(* no more packets were woken, and are still awake or decided by an        *)
(* answer, than were answered.                                             *)
Heard == {p \in Packets : filterMap[p] \in Verdicts}
Woke == byAnswer \cup {p \in Packets : pc[p] = "woken"}

MapInv == \A p \in Packets : pc[p] \in {"new", "numbered"} => filterMap[p] = "absent"
AnswerInv == AnswerIsFinal /\ \A p \in byAnswer : pc[p] = "decided" /\ p \in Heard
ListenInv == lpc \in {"answering", "offering"} => lmsg \in Packets

CountInv ==
  /\ IsFiniteSet(Heard) /\ IsFiniteSet(Woke)
  /\ lpc # "offering" => Cardinality(Woke) <= Cardinality(Heard)
  /\ lpc = "offering" => Cardinality(Woke) + 1 <= Cardinality(Heard)

(* No injected packet is ever in the map, nor in the select.               *)
InjectedInv ==
  \A p \in Injected :
    pc[p] \notin {"numbered", "waiting", "woken"} /\ filterMap[p] = "absent"

WakeInv == TypeOK /\ MapInv /\ AnswerInv /\ ListenInv /\ CountInv
IInv    == WakeInv /\ InjectedInv

(* The callback, listen and the map they share keep what Verdict promises: *)
(* no timer, late answer or wake-up for another packet decides one twice,  *)
(* or by anything but its first answer or the default.                     *)
Ruling == INSTANCE Verdict WITH
  asked   <- {p \in Packets : filterMap[p] # "absent"},
  heard   <- [p \in {q \in Packets : filterMap[q] \in Verdicts} |-> filterMap[p]],
  decided <- [p \in {q \in Packets : pc[q] = "decided"} |-> verdict[p]]

VerdictSpec == Ruling!Spec

(* No client can hold a packet for ever by silence, by answering others or *)
(* by leaving (the timer of handleRecvFilter): only by staying connected   *)
(* without reading what is written to it, about the packet or its timeout. *)
Unread(p) == pc[p] \in {"sending", "erring"} /\ connected /\ alive

EveryPacketDecided ==
  \A p \in Packets : pc[p] # "new" ~> (pc[p] = "decided" \/ crash \/ []Unread(p))

(* Said in WS.md:93, and not so with two packets: an answer in time        *)
(* counts.  A packet times out although listen is through with its answer. *)
AnswerInTimeCounts ==
  [][\A p \in Packets : TimeOut(p) /\ lmsg # p => filterMap[p] = "wait"]_vars
==============================================================================
