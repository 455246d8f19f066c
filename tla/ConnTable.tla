------------------------------ MODULE ConnTable ------------------------------
(***************************************************************************)
(* What a spawner promises of its table of connections, whatever locks,    *)
(* goroutines and timers it uses to keep it: a proxy is entered at most    *)
(* once, under an id that was never used before; a dead proxy stays dead;  *)
(* only a dead proxy is ever taken out; when the spawner goes down all its *)
(* proxies die at once, and one that is entered later is dead; once it is  *)
(* closed the table is empty and stays so.                                 *)
(***************************************************************************)
CONSTANT Proxies

VARIABLES
  table,     \* id -> proxy, the connections GetProxy can find
  issued,    \* the ids under which a proxy was ever entered
  entered,   \* the proxies that were ever entered
  dead,      \* the proxies whose context is cancelled
  down,      \* the spawner's own context is cancelled
  closed     \* some Close has returned nil

vars == <<table, issued, entered, dead, down, closed>>

Init == /\ table = [i \in {} |-> {}]
        /\ issued = {} /\ entered = {} /\ dead = {}
        /\ down = FALSE /\ closed = FALSE

Enter(p, i) ==
  /\ ~closed /\ (down => p \in dead)
  /\ p \notin entered
  /\ i \notin issued
  /\ table' = [j \in DOMAIN table \cup {i} |-> IF j = i THEN p ELSE table[j]]
  /\ issued' = issued \cup {i}
  /\ entered' = entered \cup {p}
  /\ UNCHANGED <<dead, down, closed>>

Die(P) ==
  /\ dead' = dead \cup P
  /\ UNCHANGED <<table, issued, entered, down, closed>>

Fall(P) ==
  /\ down' = TRUE
  /\ dead' = dead \cup P /\ entered \subseteq dead'
  /\ UNCHANGED <<table, issued, entered, closed>>

Remove(i) ==
  /\ i \in DOMAIN table
  /\ table[i] \in dead
  /\ table' = [j \in DOMAIN table \ {i} |-> table[j]]
  /\ UNCHANGED <<issued, entered, dead, down, closed>>

Close ==
  /\ down /\ DOMAIN table = {}
  /\ closed' = TRUE
  /\ UNCHANGED <<table, issued, entered, dead, down>>

(* An id may be anything: it is the one under which the proxy is found.    *)
Next == \/ \E p \in Proxies, i \in DOMAIN table' : Enter(p, i)
        \/ \E P \in SUBSET Proxies : Die(P) \/ Fall(P)
        \/ \E i \in DOMAIN table : Remove(i)
        \/ Close

Spec == Init /\ [][Next]_vars
==============================================================================
