------------------------------ MODULE Broadcast ------------------------------
(***************************************************************************)
(* What the spawner promises of packets that go to many, whatever locks,   *)
(* slices and loops it uses to hand them out: they have their turns, one   *)
(* at a time and each once; in its turn a packet is given to a reader at   *)
(* most once.  So all readers see one order.  A packet that is not for all *)
(* is private: it goes to readers when it likes, and never has a turn.     *)
(***************************************************************************)
EXTENDS Sequences

CONSTANTS Packets, Readers

VARIABLES
  turn,      \* the packet whose turn it is, if any
  over,      \* those whose turn is over
  private,   \* those that are not for all
  got        \* the packets each reader was given

vars == <<turn, over, private, got>>

Init ==
  /\ turn = {} /\ over = {} /\ private = {}
  /\ got = [c \in Readers |-> <<>>]

Unknown(p) == p \notin turn \cup over \cup private

Begin(p) ==
  /\ Unknown(p) /\ turn = {}
  /\ turn' = {p}
  /\ UNCHANGED <<over, private, got>>

Give(c, p) ==
  /\ p \in turn \cup private
  /\ \A i \in DOMAIN got[c] : got[c][i] # p
  /\ got' = [got EXCEPT ![c] = Append(@, p)]
  /\ UNCHANGED <<turn, over, private>>

End(p) ==
  /\ p \in turn
  /\ turn' = {} /\ over' = over \cup {p}
  /\ UNCHANGED <<private, got>>

Alone(p) ==
  /\ Unknown(p)
  /\ private' = private \cup {p}
  /\ UNCHANGED <<turn, over, got>>

Next ==
  \/ \E p \in Packets : Begin(p) \/ End(p) \/ Alone(p)
  \/ \E c \in Readers, p \in Packets : Give(c, p)

Spec == Init /\ [][Next]_vars
==============================================================================
