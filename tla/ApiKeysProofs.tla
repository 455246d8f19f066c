--------------------------- MODULE ApiKeysProofs ---------------------------
(***************************************************************************)
(* For any keys, permissions and number of requests: no chain of requests  *)
(* makes a key that can do more than the one it began with.                *)
(***************************************************************************)
EXTENDS ApiKeys, TLAPS

(* The inductive invariant.  What a request was checked for still holds of *)
(* its key when it is acted on, and the numbers drawn are still unused.    *)
Checked ==
  \A r \in Requests :
    /\ pc[r] \in {"making", "drawing", "adding"} => CheckPermission(used[r], "make")
    /\ pc[r] \in {"opening", "open"} => CheckPermission(used[r], "websocket")

Granted ==
  \A r \in Requests : pc[r] \in {"drawing", "adding"} =>
    /\ perms[r] \subseteq keys[used[r]] \cap Named
    /\ "make" \in perms[r] => "duplicate" \in keys[used[r]]

Fresh ==
  \A r, s \in Requests : pc[r] = "adding" =>
    /\ drawn[r] \notin DOMAIN keys
    /\ s # r /\ pc[s] = "adding" => drawn[s] # drawn[r]

IInv ==
  /\ TypeOK /\ Checked /\ Granted /\ Fresh
  /\ NoEscalation /\ SocketWithinKey

(* Without new keys and requests there is nothing to show.                 *)
LEMMA InitInv == Init => IInv
  <1> SUFFICES ASSUME Init PROVE IInv
    OBVIOUS
  <1>1. (CHOOSE k \in Keys : TRUE) \in Keys
    BY KeysAssumption
  <1>2. TypeOK
    BY <1>1, InitialAssumption DEF Init, TypeOK
  <1>3. Checked /\ Granted /\ Fresh /\ NoEscalation /\ SocketWithinKey
    BY DEF Init, Checked, Granted, Fresh, NoEscalation, SocketWithinKey
  <1>4. QED BY <1>2, <1>3 DEF IInv

(* A request comes in, and its key is looked up (addEndpoint).             *)
LEMMA RequestInv ==
  ASSUME IInv, NEW r \in Requests, NEW k \in Keys, NEW w \in SUBSET Bits,
         NEW perm, NEW handler,
         Request(r, k, w, perm, handler),
         \/ perm = "make" /\ handler = "making"
         \/ perm = "websocket" /\ handler = "opening"
  PROVE  IInv'
  <1> USE DEF IInv
  <1>1. TypeOK'
    BY DEF TypeOK, Request
  <1>2. Checked'
    BY DEF Checked, TypeOK, Request, CheckPermission
  <1>3. Granted' /\ Fresh' /\ SocketWithinKey'
    BY DEF Granted, Fresh, SocketWithinKey, TypeOK, Request
  <1>4. NoEscalation'
    BY DEF NoEscalation, Request
  <1>5. QED BY <1>1, <1>2, <1>3, <1>4

(* createNewPerms asks for everything but "make", which the endpoint has   *)
(* asked for.                                                              *)
LEMMA MakeInv ==
  ASSUME IInv, NEW r \in Requests, Make(r)
  PROVE  IInv'
  <1> USE DEF IInv
  <1> DEFINE granted == NewPerms(wish[r])
  <1>1. CheckPermission(used[r], "make")
    BY DEF Checked, Make
  <1>2. ASSUME MayCreate(keys[used[r]], wish[r])
        PROVE  /\ granted \subseteq keys[used[r]] \cap Named
               /\ "make" \in granted => "duplicate" \in keys[used[r]]
    BY <1>1, <1>2 DEF NewPerms, MayCreate, CheckPermission, Named
  <1>3. granted \in SUBSET Bits
    BY DEF NewPerms, Bits
  <1>4. TypeOK'
    BY <1>3 DEF TypeOK, Make, Answer
  <1>5. Checked'
    BY <1>1 DEF Checked, TypeOK, Make, Answer, CheckPermission
  <1>6. Granted'
    BY <1>2 DEF Granted, TypeOK, Make, Answer
  <1>7. Fresh' /\ SocketWithinKey'
    BY DEF Fresh, SocketWithinKey, TypeOK, Make, Answer
  <1>8. NoEscalation'
    BY DEF NoEscalation, Make, Answer
  <1>9. QED BY <1>4, <1>5, <1>6, <1>7, <1>8

(* newWebSocket gives no right that the key does not have.                 *)
LEMMA OpenInv ==
  ASSUME IInv, NEW r \in Requests, Open(r)
  PROVE  IInv'
  <1> USE DEF IInv
  <1>1. TypeOK'
    BY DEF TypeOK, Open, Answer
  <1>2. Checked'
    BY DEF Checked, TypeOK, Open, Answer, CheckPermission
  <1>3. Granted' /\ Fresh'
    BY DEF Granted, Fresh, TypeOK, Open, Answer
  <1>4. SocketWithinKey'
    BY DEF SocketWithinKey, Checked, CheckPermission, TypeOK, Open, Answer, RightsOk
  <1>5. NoEscalation'
    BY DEF NoEscalation, Open, Answer
  <1>6. QED BY <1>1, <1>2, <1>3, <1>4, <1>5

(* The number that newKeyInt draws is unused, and stays so until it is     *)
(* added.                                                                  *)
LEMMA DrawInv ==
  ASSUME IInv, NEW r \in Requests, NEW k \in Keys, Draw(r, k)
  PROVE  IInv'
  <1> USE DEF IInv
  <1>1. TypeOK'
    BY DEF TypeOK, Draw
  <1>2. Checked' /\ Granted'
    BY DEF Checked, Granted, TypeOK, Draw, CheckPermission
  <1>3. Fresh'
    BY DEF Fresh, TypeOK, Draw, Unused
  <1>4. NoEscalation' /\ SocketWithinKey'
    BY DEF NoEscalation, SocketWithinKey, TypeOK, Draw
  <1>5. QED BY <1>1, <1>2, <1>3, <1>4

(* addKeyInt leaves the other keys alone.                                  *)
LEMMA AddKeeps ==
  ASSUME IInv, NEW r \in Requests, Add(r)
  PROVE  /\ drawn[r] \in Keys \ DOMAIN keys
         /\ DOMAIN keys' = DOMAIN keys \cup {drawn[r]}
         /\ \A j \in DOMAIN keys : keys'[j] = keys[j]
         /\ keys'[drawn[r]] = perms[r]
         /\ DOMAIN creator' = DOMAIN creator \cup {drawn[r]}
         /\ \A j \in DOMAIN creator : creator'[j] = creator[j]
         /\ creator'[drawn[r]] = used[r] /\ used[r] \in DOMAIN keys
  BY DEF Add, IInv, TypeOK, Fresh, Checked, CheckPermission

(* The new key is within the one it is made with, which is still there.    *)
LEMMA AddInv ==
  ASSUME IInv, NEW r \in Requests, Add(r)
  PROVE  IInv'
  <1> USE DEF IInv
  <1> DEFINE k == drawn[r]
  <1>1. /\ k \in Keys \ DOMAIN keys
        /\ DOMAIN keys' = DOMAIN keys \cup {k}
        /\ \A j \in DOMAIN keys : keys'[j] = keys[j]
        /\ keys'[k] = perms[r]
        /\ DOMAIN creator' = DOMAIN creator \cup {k}
        /\ \A j \in DOMAIN creator : creator'[j] = creator[j]
        /\ creator'[k] = used[r] /\ used[r] \in DOMAIN keys
    BY AddKeeps
  <1>2. TypeOK'
    <2>1. keys' \in [DOMAIN keys' -> SUBSET Bits]
      BY <1>1 DEF TypeOK, Add
    <2>2. creator' \in [DOMAIN creator' -> DOMAIN keys']
      BY <1>1 DEF TypeOK, Add
    <2>3. /\ DOMAIN keys' \subseteq Keys /\ DOMAIN Initial \subseteq DOMAIN keys'
          /\ DOMAIN creator' = DOMAIN keys' \ DOMAIN Initial
      BY <1>1 DEF TypeOK
    <2>4. QED BY <2>1, <2>2, <2>3 DEF TypeOK, Add
  <1>3. \A s \in Requests : pc'[s] = IF s = r THEN "done" ELSE pc[s]
    BY DEF TypeOK, Add
  <1>4. UNCHANGED <<used, wish, perms, drawn>>
    BY DEF Add
  <1>5. Checked'
    BY <1>1, <1>3, <1>4 DEF Checked, CheckPermission
  <1>6. Granted'
    BY <1>1, <1>3, <1>4 DEF Granted, Checked, CheckPermission
  <1>7. Fresh'
    BY <1>1, <1>3, <1>4 DEF Fresh, Add
  <1>8. SocketWithinKey'
    BY <1>1, <1>3, <1>4 DEF SocketWithinKey, Checked, CheckPermission
  <1>9. perms[r] \subseteq keys[used[r]] \cap Named /\ ("make" \in perms[r] => "duplicate" \in keys[used[r]])
    BY DEF Granted, Add
  <1>10. NoEscalation'
    BY <1>1, <1>9 DEF NoEscalation, TypeOK
  <1>11. QED BY <1>2, <1>5, <1>6, <1>7, <1>8, <1>10

(* Every step keeps the inductive invariant.                               *)
LEMMA NextInv ==
  ASSUME IInv, [Next]_vars
  PROVE  IInv'
  <1>1. CASE UNCHANGED vars \/ MapFault
    <2>1. UNCHANGED <<keys, creator, reqVars>> /\ crash' \in BOOLEAN
      BY <1>1 DEF vars, MapFault, IInv, TypeOK
    <2>2. QED
      BY <2>1 DEF IInv, TypeOK, Checked, Granted, Fresh, NoEscalation,
                  SocketWithinKey, CheckPermission, reqVars
  <1>2. ASSUME NEW r \in Requests, NEW k \in Keys, NEW w \in Wishes,
               NewKey(r, k, w) \/ OpenSocket(r, k, w)
        PROVE  IInv'
    <2>1. w \in SUBSET Bits /\ w \cap Rights \in SUBSET Bits
      BY WishesAssumption
    <2>2. CASE NewKey(r, k, w)
      BY <2>1, <2>2, RequestInv DEF NewKey
    <2>3. CASE OpenSocket(r, k, w)
      BY <2>1, <2>3, RequestInv DEF OpenSocket
    <2>4. QED BY <1>2, <2>2, <2>3
  <1>3. QED
    BY <1>1, <1>2, MakeInv, OpenInv, AddInv, DrawInv DEF Next, RequestStep

-----------------------------------------------------------------------------
(* The inductive invariant holds of every behaviour.                       *)
THEOREM Inductive == Spec => []IInv
  BY InitInv, NextInv, PTL DEF Spec

(* Every variable keeps its type.                                          *)
THEOREM TypeCorrect == Spec => []TypeOK
  BY Inductive, PTL DEF IInv

(* A key that was made has no permission that its maker does not have, and *)
(* can make keys only if its maker is a duplicator.                        *)
THEOREM NoKeyEscalates == Spec => []NoEscalation
  BY Inductive, PTL DEF IInv

(* A WebSocket can do what its key can do, at most.                        *)
THEOREM SocketsWithinKeys == Spec => []SocketWithinKey
  BY Inductive, PTL DEF IInv

(* No step changes the permissions of a key.                               *)
THEOREM FinalKeys == Spec => KeysAreFinal
  <1>1. ASSUME IInv, [Next]_vars
        PROVE  [\A k \in DOMAIN keys : k \in DOMAIN keys' /\ keys'[k] = keys[k]]_vars
    <2>1. ASSUME NEW r \in Requests, Add(r)
          PROVE  \A k \in DOMAIN keys : k \in DOMAIN keys' /\ keys'[k] = keys[k]
      BY <1>1, <2>1, AddKeeps
    <2>2. UNCHANGED keys \/ \E r \in Requests : Add(r)
      BY <1>1 DEF Next, RequestStep, MapFault, NewKey, OpenSocket, Request, Make, Open,
                  Answer, Draw, vars
    <2>3. QED BY <2>1, <2>2
  <1>2. QED BY <1>1, Inductive, PTL DEF Spec, KeysAreFinal

-----------------------------------------------------------------------------
(* Only Add changes the table, and only Open opens a WebSocket.            *)
LEMMA OnlyAdd ==
  ASSUME IInv, [Next]_vars
  PROVE  UNCHANGED <<keys, creator>> \/ \E r \in Requests : Add(r)
  BY DEF Next, RequestStep, MapFault, NewKey, OpenSocket, Request, Make, Open, Answer, Draw, vars

(* The first keys keep what they had.                                      *)
FirstKept == \A i \in DOMAIN Initial : i \in DOMAIN keys /\ keys[i] = Initial[i]

(* A new key is rooted, because the key it is made with is, or is a first  *)
(* one.                                                                    *)
LEMMA AddRooted ==
  ASSUME IInv, Rooted, FirstKept, NEW r \in Requests, Add(r)
  PROVE  Rooted' /\ FirstKept'
  <1> DEFINE k == drawn[r]
             m == used[r]
  <1>1. /\ k \notin DOMAIN keys /\ DOMAIN keys' = DOMAIN keys \cup {k}
        /\ \A j \in DOMAIN keys : keys'[j] = keys[j]
        /\ keys'[k] = perms[r] /\ DOMAIN creator' = DOMAIN creator \cup {k}
        /\ m \in DOMAIN keys
    BY AddKeeps
  <1>2. /\ perms[r] \subseteq keys[m] \cap Named /\ "make" \in keys[m]
        /\ "make" \in perms[r] => "duplicate" \in keys[m]
    BY DEF IInv, Granted, Checked, CheckPermission, Add
  <1>3. DOMAIN creator = DOMAIN keys \ DOMAIN Initial
    BY DEF IInv, TypeOK
  <1>4. FirstKept'
    BY <1>1 DEF FirstKept
  <1>5. \E i \in DOMAIN Initial :
          /\ "make" \in Initial[i] /\ perms[r] \subseteq Initial[i] \cap Named
          /\ "make" \in perms[r] => "duplicate" \in Initial[i]
    <2>1. CASE m \in DOMAIN Initial
      BY <1>2, <2>1 DEF FirstKept
    <2>2. CASE m \in DOMAIN creator
      <3>1. PICK i \in DOMAIN Initial :
              /\ "make" \in Initial[i] /\ keys[m] \subseteq Initial[i] \cap Named
              /\ ("make" \in keys[m] => "duplicate" \in Initial[i])
        BY <2>2 DEF Rooted
      <3>2. QED BY <1>2, <3>1
    <2>3. QED BY <1>1, <1>3, <2>1, <2>2
  <1>6. QED BY <1>1, <1>3, <1>4, <1>5 DEF Rooted

(* However long the chain of keys that led to it, a new key can do no more *)
(* than a first key that makes keys.                                       *)
THEOREM KeysRooted == Spec => []Rooted
  <1>1. Init => Rooted /\ FirstKept
    BY DEF Init, Rooted, FirstKept
  <1>2. IInv /\ Rooted /\ FirstKept /\ [Next]_vars => Rooted' /\ FirstKept'
    <2>1. ASSUME Rooted, FirstKept, UNCHANGED <<keys, creator>>
          PROVE  Rooted' /\ FirstKept'
      BY <2>1 DEF Rooted, FirstKept
    <2>2. QED BY <2>1, AddRooted, OnlyAdd
  <1>3. QED BY <1>1, <1>2, Inductive, PTL DEF Spec

(* The open WebSockets, with their keys and rights.                        *)
IsOpen  == {s \in Requests : pc[s] = "open"}
Sockets == [r \in IsOpen |-> <<used[r], perms[r]>>]

LEMMA SocketsKept ==
  ASSUME IInv, IsOpen' = IsOpen, \A r \in IsOpen : used'[r] = used[r] /\ perms'[r] = perms[r]
  PROVE  Sockets' = Sockets
  BY DEF Sockets

(* A key is made while the one it is made with may make it, now as when    *)
(* the request was checked.                                                *)
LEMMA AddIsMake ==
  ASSUME IInv, NEW r \in Requests, Add(r)
  PROVE  Table!Next
  <1> DEFINE k == drawn[r]
             m == used[r]
  <1>1. /\ m \in DOMAIN keys /\ perms[r] \subseteq keys[m] \cap Named /\ "make" \in keys[m]
        /\ "make" \in perms[r] => "duplicate" \in keys[m]
    BY DEF IInv, Granted, Checked, CheckPermission, Add
  <1>2. k \notin DOMAIN keys /\ k \in DOMAIN keys'
    BY AddKeeps
  <1>3. Sockets' = Sockets
    <2>1. IsOpen' = IsOpen /\ UNCHANGED <<used, perms>>
      BY DEF Add, IsOpen, IInv, TypeOK
    <2>2. QED BY <2>1, SocketsKept
  <1>4. /\ keys' = Table!Extend(keys, k, perms[r])
        /\ creator' = Table!Extend(creator, k, m)
    BY DEF Add, Table!Extend
  <1>5. Table!Make(m, k, perms[r])
    BY <1>1, <1>2, <1>3, <1>4 DEF Table!Make, Sockets, IsOpen
  <1>6. QED BY <1>1, <1>2, <1>5 DEF Table!Next

(* A WebSocket is opened while its key has its rights.                     *)
LEMMA OpenIsOpen ==
  ASSUME IInv, NEW r \in Requests, Open(r)
  PROVE  [Table!Next]_(Table!vars)
  <1> USE DEF IInv, TypeOK
  <1>1. UNCHANGED <<keys, creator, used>> /\ pc[r] = "opening"
    BY DEF Open, Answer
  <1>2. CASE Answer(r, "done", {})
    <2>1. IsOpen' = IsOpen /\ \A s \in IsOpen : perms'[s] = perms[s]
      BY <1>1, <1>2 DEF Answer, IsOpen
    <2>2. Sockets' = Sockets
      BY <1>1, <2>1, SocketsKept DEF IsOpen
    <2>3. QED BY <1>1, <2>2 DEF Table!vars, Sockets, IsOpen
  <1>3. CASE RightsOk(r) /\ Answer(r, "open", wish[r])
    <2>1. /\ wish[r] \subseteq keys[used[r]] /\ "websocket" \in keys[used[r]]
          /\ used[r] \in DOMAIN keys
      BY <1>1, <1>3 DEF RightsOk, Checked, CheckPermission
    <2>2. /\ IsOpen' = IsOpen \cup {r} /\ r \notin IsOpen
          /\ perms'[r] = wish[r] /\ \A s \in IsOpen : perms'[s] = perms[s]
      BY <1>1, <1>3 DEF Answer, IsOpen
    <2>3. Sockets' = Table!Extend(Sockets, r, <<used[r], wish[r]>>)
      BY <1>1, <2>2 DEF Sockets, Table!Extend
    <2>4. r \notin DOMAIN Sockets /\ r \in DOMAIN Sockets'
      BY <2>2 DEF Sockets
    <2>5. PICK k, P : k = used[r] /\ P = wish[r]
      OBVIOUS
    <2>6. Table!Open(r, k, P)
      BY <1>1, <2>1, <2>3, <2>4, <2>5 DEF Table!Open, Sockets, IsOpen
    <2>7. k \in DOMAIN keys /\ P \in SUBSET keys[k]
      BY <2>1, <2>5
    <2>8. \E s \in DOMAIN Sockets' : Table!Open(s, k, P)
      BY <2>4, <2>6
    <2>9. QED BY ONLY <2>7, <2>8 DEF Table!Next, Sockets, IsOpen
  <1>4. QED BY <1>2, <1>3 DEF Open

(* Keys and WebSockets come as if each were checked when it is made.       *)
THEOREM Refinement == Spec => TableSpec
  <1>1. Init => Table!Init
    BY DEF Init, Table!Init
  <1>2. IInv /\ [Next]_vars => [Table!Next]_(Table!vars)
    <2> SUFFICES ASSUME IInv, [Next]_vars PROVE [Table!Next]_(Table!vars)
      OBVIOUS
    <2>1. ASSUME NEW r \in Requests, NEW k \in Keys, NEW w \in Wishes,
                 NewKey(r, k, w) \/ OpenSocket(r, k, w)
          PROVE  IsOpen' = IsOpen /\ \A s \in IsOpen : used'[s] = used[s] /\ perms'[s] = perms[s]
      BY <2>1 DEF NewKey, OpenSocket, Request, IsOpen, IInv, TypeOK
    <2>2. ASSUME NEW r \in Requests, Make(r) \/ \E k \in Keys : Draw(r, k)
          PROVE  IsOpen' = IsOpen /\ \A s \in IsOpen : used'[s] = used[s] /\ perms'[s] = perms[s]
      BY <2>2 DEF Make, Answer, Draw, IsOpen, IInv, TypeOK
    <2>3. CASE UNCHANGED <<keys, creator>> /\ IsOpen' = IsOpen
               /\ \A s \in IsOpen : used'[s] = used[s] /\ perms'[s] = perms[s]
      <3>1. Sockets' = Sockets
        BY <2>3, SocketsKept
      <3>2. QED BY <2>3, <3>1 DEF Table!vars, Sockets, IsOpen
    <2>4. CASE UNCHANGED vars \/ MapFault
      <3>1. UNCHANGED <<keys, creator, pc, used, perms>>
        BY <2>4 DEF vars, MapFault, reqVars
      <3>2. QED BY <3>1, <2>3 DEF IsOpen
    <2>5. ASSUME NEW r \in Requests, RequestStep(r)
          PROVE  [Table!Next]_(Table!vars)
      <3>1. CASE Add(r)
        BY <3>1, AddIsMake
      <3>2. CASE Open(r)
        BY <3>2, OpenIsOpen
      <3>3. CASE \E k \in Keys, w \in Wishes : NewKey(r, k, w) \/ OpenSocket(r, k, w)
        <4>1. UNCHANGED <<keys, creator>>
          BY <3>3 DEF NewKey, OpenSocket, Request
        <4>2. QED BY <2>1, <2>3, <3>3, <4>1
      <3>4. CASE Make(r) \/ \E k \in Keys : Draw(r, k)
        <4>1. UNCHANGED <<keys, creator>>
          BY <3>4 DEF Make, Answer, Draw
        <4>2. QED BY <2>2, <2>3, <3>4, <4>1
      <3>5. QED BY <2>5, <3>1, <3>2, <3>3, <3>4 DEF RequestStep
    <2>6. QED BY <2>4, <2>5 DEF Next
  <1>3. QED BY <1>1, <1>2, Inductive, PTL DEF Spec, TableSpec, Table!Spec
==============================================================================
