------------------------------- MODULE Session -------------------------------
(***************************************************************************)
(* What the UDP proxy promises to those who send datagrams to its address: *)
(* it serves one client at a time, passes on only what the client and the  *)
(* server send each other, each to the other one, none twice and none      *)
(* behind a later one, over all the clients that it serves in turn.  What  *)
(* it does not pass on is lost.                                            *)
(***************************************************************************)
EXTENDS Naturals, Sequences

CONSTANTS Clients, Server

VARIABLES
  arrived,   \* how many datagrams have been sent to the address
  client,    \* who is served, or was last: one client, or nobody yet
  live,      \* whether it still is
  out        \* what has been sent to each host

vars == <<arrived, client, live, out>>

Hosts == Clients \cup {Server}

Init ==
  /\ arrived = 0 /\ client = {} /\ live = FALSE
  /\ out = [x \in Hosts |-> <<>>]

Arrive == arrived' = arrived + 1 /\ UNCHANGED <<client, live, out>>

Serve(c) ==
  /\ ~live /\ live' \in BOOLEAN /\ client' = {c}
  /\ UNCHANGED <<arrived, out>>

Drop == live /\ live' = FALSE /\ UNCHANGED <<arrived, client, out>>

Relay(x, y, n) ==
  /\ x # y /\ {x, y} = client \cup {Server}
  /\ \A z \in Hosts : \A i \in DOMAIN out[z] : out[z][i].num < n
  /\ out' = [out EXCEPT ![y] = Append(@, [from |-> x, num |-> n])]
  /\ UNCHANGED <<arrived, client, live>>

Next ==
  \/ Arrive \/ Drop
  \/ \E c \in Clients : Serve(c)
  \/ \E x, y \in Hosts : \E n \in 1..arrived : Relay(x, y, n)

Spec == Init /\ [][Next]_vars
==============================================================================
