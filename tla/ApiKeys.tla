------------------------------- MODULE ApiKeys -------------------------------
(***************************************************************************)
(* The keys of the API (api/auth.go, api/endpoints.go): requests that make *)
(* new keys out of old ones, and those that open a WebSocket with rights   *)
(* of its own (api/websocket.go).  Each is served by a goroutine; they     *)
(* share the map of keys, without a lock.  The runtime may stop the        *)
(* program when it is written and used at once.                            *)
(*                                                                         *)
(* A bitfield of permissions is the set of its bits.  A key is never taken *)
(* away.  Authentication is enabled.                                       *)
(***************************************************************************)
CONSTANTS
  Keys,       \* the numbers newKeyInt can draw
  Initial,    \* the keys of AddAuth, with their permissions
  Ordinary,   \* the permissions that follow the general rule
  Wishes,     \* what requests may ask for
  Requests    \* the goroutines, each serving one request

(* AuthCanMakeKeys and AuthCanDuplicateKeys have rules of their own, the   *)
(* bits that mean nothing (AuthAll has them set) are one.                  *)
Named == Ordinary \cup {"make", "duplicate"}
Bits  == Named \cup {"reserved"}

(* What a WebSocket can be given by its query.                             *)
Rights == Ordinary \ {"websocket", "status"}

ASSUME InitialAssumption ==
  /\ DOMAIN Initial \subseteq Keys
  /\ Initial \in [DOMAIN Initial -> SUBSET Bits]
ASSUME WishesAssumption == Wishes \subseteq SUBSET Bits
ASSUME OrdinaryAssumption == "reserved" \notin Ordinary
ASSUME KeysAssumption == Keys # {}

VARIABLES
  keys,      \* authLookup.keys: key -> permissions
  creator,   \* history: the key each new key was made with
  pc,        \* where each request is,
  used,      \* the key it came with,
  wish,      \* what it asks for,
  perms,     \* the permissions of the key it makes, or its WebSocket's rights,
  drawn,     \* and the number drawn for its key
  crash

reqVars == <<pc, used, wish, perms, drawn>>
vars == <<keys, creator, reqVars, crash>>

(* One invariant of types for the whole module.                            *)
TypeOK ==
  /\ DOMAIN keys \subseteq Keys /\ keys \in [DOMAIN keys -> SUBSET Bits]
  /\ DOMAIN Initial \subseteq DOMAIN keys
  /\ DOMAIN creator = DOMAIN keys \ DOMAIN Initial
  /\ creator \in [DOMAIN creator -> DOMAIN keys]
  /\ pc \in [Requests -> {"idle", "making", "drawing", "adding", "opening", "open", "done"}]
  /\ used \in [Requests -> Keys] /\ drawn \in [Requests -> Keys]
  /\ wish \in [Requests -> SUBSET Bits] /\ perms \in [Requests -> SUBSET Bits]
  /\ crash \in BOOLEAN

Init ==
  /\ keys = Initial
  /\ creator = [k \in {} |-> k]
  /\ pc = [r \in Requests |-> "idle"]
  /\ used \in [Requests -> {CHOOSE k \in Keys : TRUE}]
  /\ drawn = used
  /\ wish = [r \in Requests |-> {}] /\ perms = wish
  /\ crash = FALSE

-----------------------------------------------------------------------------
(* addEndpoint checks the key before it calls the handler.  (Mutant: the   *)
(* endpoint was registered without its permission.)                        *)
MutAnyKey(k, perm) == k \in DOMAIN keys
CheckPermission(k, perm) == k \in DOMAIN keys /\ perm \in keys[k]

Request(r, k, w, perm, handler) ==
  /\ pc[r] = "idle"
  /\ pc' = [pc EXCEPT ![r] = IF CheckPermission(k, perm) THEN handler ELSE "done"]
  /\ used' = [used EXCEPT ![r] = k] /\ wish' = [wish EXCEPT ![r] = w]
  /\ UNCHANGED <<keys, creator, perms, drawn, crash>>

NewKey(r, k, w)     == Request(r, k, w, "make", "making")
OpenSocket(r, k, w) == Request(r, k, w \cap Rights, "websocket", "opening")

Answer(r, to, granted) ==
  /\ pc' = [pc EXCEPT ![r] = to]
  /\ perms' = [perms EXCEPT ![r] = granted]
  /\ wish' = [wish EXCEPT ![r] = {}]
  /\ UNCHANGED <<keys, creator, used, drawn, crash>>

-----------------------------------------------------------------------------
(* epGetKey.  createNewPerms: everything asked for must be the user's, but *)
(* to pass on "make" takes "duplicate" (mutant: takes nothing).            *)
MutPassOn(user, desired) == desired \cap (Named \ {"make"}) \subseteq user
MayCreate(user, desired) ==
  /\ desired \cap (Named \ {"make"}) \subseteq user
  /\ "make" \in desired => "duplicate" \in user

(* Bits without a name are left out.  (Mutant: copied.)                    *)
MutAllBits(desired) == desired
NewPerms(desired) == desired \cap Named

Make(r) ==
  LET granted == NewPerms(wish[r]) IN
  /\ pc[r] = "making"
  /\ IF MayCreate(keys[used[r]], wish[r]) /\ granted # {}
     THEN Answer(r, "drawing", granted)
     ELSE Answer(r, "done", {})

(* newKeyInt draws until addKeyInt finds the number unused (mutant: does   *)
(* not look).  That two goroutines draw the same new number at the same    *)
(* time, one out of 2^63, is left out.                                     *)
MutOverwrite(k) == TRUE
Unused(k) == k \notin DOMAIN keys

Draw(r, k) ==
  /\ pc[r] = "drawing" /\ Unused(k)
  /\ \A s \in Requests : pc[s] = "adding" => drawn[s] # k
  /\ pc' = [pc EXCEPT ![r] = "adding"]
  /\ drawn' = [drawn EXCEPT ![r] = k]
  /\ UNCHANGED <<keys, creator, used, wish, perms, crash>>

Add(r) ==
  LET k == drawn[r] IN
  /\ pc[r] = "adding"
  /\ pc' = [pc EXCEPT ![r] = "done"]
  /\ keys' = [j \in DOMAIN keys \cup {k} |-> IF j = k THEN perms[r] ELSE keys[j]]
  /\ creator' = [j \in DOMAIN creator \cup {k} |-> IF j = k THEN used[r] ELSE creator[j]]
  /\ UNCHANGED <<used, wish, perms, drawn, crash>>

-----------------------------------------------------------------------------
(* newWebSocket: each right asked for in the query must be the key's       *)
(* (mutant: the handler does not look); it may refuse for other reasons,   *)
(* as when there is a filter already.                                      *)
MutAnyRight(r) == TRUE
RightsOk(r) == wish[r] \subseteq keys[used[r]]

Open(r) ==
  /\ pc[r] = "opening"
  /\ \/ RightsOk(r) /\ Answer(r, "open", wish[r])
     \/ Answer(r, "done", {})

(* A map that is written and used by two goroutines at once.               *)
InMap(r) == pc[r] \in {"idle", "making", "drawing", "adding", "opening"}
MapFault ==
  /\ \E r, s \in Requests : r # s /\ pc[r] = "adding" /\ InMap(s)
  /\ crash' = TRUE
  /\ UNCHANGED <<keys, creator, reqVars>>

RequestStep(r) ==
  \/ \E k \in Keys, w \in Wishes : NewKey(r, k, w) \/ OpenSocket(r, k, w)
  \/ Make(r) \/ Open(r) \/ Add(r)
  \/ \E k \in Keys : Draw(r, k)

Next ==
  /\ ~crash
  /\ MapFault \/ \E r \in Requests : RequestStep(r)

Spec == Init /\ [][Next]_vars

-----------------------------------------------------------------------------
(* Properties.                                                             *)

(* No chain of new keys gains a permission: a key that was made has none   *)
(* that the key it was made with does not have, "make" included, which     *)
(* createNewPerms does not look for itself, and which is passed on by      *)
(* duplicators only (auth.go:24).                                          *)
NoEscalation ==
  \A k \in DOMAIN creator :
    /\ keys[k] \subseteq keys[creator[k]] \cap Named
    /\ "make" \in keys[k] => "duplicate" \in keys[creator[k]]

(* What a WebSocket may do, for as long as it lives, its key may do, too.  *)
SocketWithinKey ==
  \A r \in Requests : pc[r] = "open" => perms[r] \cup {"websocket"} \subseteq keys[used[r]]

(* Between the check of a request and what comes of it other requests make *)
(* keys and draw numbers; yet each key and each WebSocket comes as if the  *)
(* check were made at that moment (endpoints.go:184, websocket.go:291).    *)
Table == INSTANCE KeyTable WITH
  maker   <- creator,
  sockets <- [r \in {s \in Requests : pc[s] = "open"} |-> <<used[r], perms[r]>>]
TableSpec == Table!Spec

(* Whatever chain of keys led to it, a new key can do no more than one of  *)
(* the first keys that may make keys, and make keys only if that one is a  *)
(* duplicator.                                                             *)
Rooted ==
  \A k \in DOMAIN creator : \E i \in DOMAIN Initial :
    /\ "make" \in Initial[i] /\ keys[k] \subseteq Initial[i] \cap Named
    /\ "make" \in keys[k] => "duplicate" \in Initial[i]

(* A key keeps its permissions: no other request that draws its number     *)
(* replaces them (newKeyInt).                                              *)
KeysAreFinal == [][\A k \in DOMAIN keys : k \in DOMAIN keys' /\ keys'[k] = keys[k]]_vars
==============================================================================
