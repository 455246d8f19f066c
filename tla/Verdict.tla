------------------------------- MODULE Verdict -------------------------------
(***************************************************************************)
(* What a filtering WebSocket promises, whatever channel, map and timer it *)
(* uses: a packet is put to the client at most once, the client's first    *)
(* answer to it is the only one, and comes only if it was asked; every     *)
(* packet is decided at most once and for ever, by that answer or by       *)
(* default; what was injected is let through without asking.               *)
(***************************************************************************)
CONSTANTS Packets, Injected, Default

VARIABLES
  asked,      \* the packets put to the client
  heard,      \* packet -> the client's answer
  decided,    \* packet -> the verdict
  byAnswer    \* the packets that were decided by the answer

vars == <<asked, heard, decided, byAnswer>>

Extend(f, x, v) == [y \in DOMAIN f \cup {x} |-> IF y = x THEN v ELSE f[y]]

Init == /\ asked = {} /\ byAnswer = {}
        /\ heard = [p \in {} |-> p] /\ decided = [p \in {} |-> p]

Ask(p) ==
  /\ p \notin asked \cup Injected \cup DOMAIN decided
  /\ asked' = asked \cup {p}
  /\ UNCHANGED <<heard, decided, byAnswer>>

Hear(p, v) ==
  /\ p \in asked /\ p \notin DOMAIN heard
  /\ heard' = Extend(heard, p, v)
  /\ UNCHANGED <<asked, decided, byAnswer>>

DecideByAnswer(p) ==
  /\ p \in DOMAIN heard /\ p \notin DOMAIN decided
  /\ decided' = Extend(decided, p, heard[p])
  /\ byAnswer' = byAnswer \cup {p}
  /\ UNCHANGED <<asked, heard>>

DecideAlone(p, v) ==
  /\ p \notin DOMAIN decided
  /\ v = Default \/ (p \in Injected /\ v = "allow")
  /\ decided' = Extend(decided, p, v)
  /\ UNCHANGED <<asked, heard, byAnswer>>

Next ==
  \E p \in Packets :
    \/ Ask(p) \/ DecideByAnswer(p)
    \/ \E v \in {"allow", "drop"} : Hear(p, v) \/ DecideAlone(p, v)

Spec == Init /\ [][Next]_vars
==============================================================================
