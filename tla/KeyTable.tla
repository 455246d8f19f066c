------------------------------ MODULE KeyTable ------------------------------
(***************************************************************************)
(* What the API promises of its keys, however many requests make new ones  *)
(* and open WebSockets at once: each key is made, and each WebSocket       *)
(* opened, as if in one moment, in which a key vouches for it that can do  *)
(* as much; what was once given to a key or a WebSocket never changes.     *)
(***************************************************************************)
CONSTANTS
  Initial,   \* the first keys, with their permissions
  Named      \* the permissions that can be passed on

VARIABLES
  keys,      \* key -> permissions
  maker,     \* key -> the key it was made with
  sockets    \* WebSocket -> its key and its rights

vars == <<keys, maker, sockets>>

Extend(f, x, v) == [y \in DOMAIN f \cup {x} |-> IF y = x THEN v ELSE f[y]]

Init ==
  /\ keys = Initial
  /\ maker = [k \in {} |-> k]
  /\ sockets = [s \in {} |-> s]

Make(m, k, P) ==
  /\ k \notin DOMAIN keys
  /\ "make" \in keys[m] /\ P \subseteq Named
  /\ "make" \in P => "duplicate" \in keys[m]
  /\ keys' = Extend(keys, k, P)
  /\ maker' = Extend(maker, k, m)
  /\ UNCHANGED sockets

Open(s, k, P) ==
  /\ s \notin DOMAIN sockets
  /\ "websocket" \in keys[k]
  /\ sockets' = Extend(sockets, s, <<k, P>>)
  /\ UNCHANGED <<keys, maker>>

Next ==
  \E m \in DOMAIN keys : \E P \in SUBSET keys[m] :
    \/ \E k \in DOMAIN keys' : Make(m, k, P)
    \/ \E s \in DOMAIN sockets' : Open(s, m, P)

Spec == Init /\ [][Next]_vars
==============================================================================
