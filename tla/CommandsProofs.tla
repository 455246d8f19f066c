--------------------------- MODULE CommandsProofs ---------------------------
(***************************************************************************)
(* For any connections, requests, watchers and wishes: what is injected    *)
(* into all connections comes to all, once, in one order; what is injected *)
(* after a connection was closed does not come there.                      *)
(***************************************************************************)
EXTENDS Commands, TLAPS

(* Nothing has been asked for, and nothing is connected, at the start.     *)
LEMMA InitInv == Init => IInv
  <1> SUFFICES ASSUME Init PROVE IInv
    OBVIOUS
  <1> USE DEF Init
  <1>1. TypeOK
    BY DEF TypeOK, Sides
  <1>2. LockInv /\ ReachInv /\ BarredInv
    BY NoRequestAssumption DEF LockInv, ReachInv, BarredInv, ForAll, NoWish, Sending
  <1>3. HandInv
    BY DEF HandInv, Sending, Asked
  <1>4. \A r, x, c : x \in Sides /\ c \in Conns =>
          ~Got(r, x, c) /\ ~Twice(r, x, c) /\ \A s : ~Before(x, c, r, s)
    BY DEF Got, Twice, Before
  <1>5. OnceInv /\ OrderInv /\ AllSameOrder
    BY <1>4 DEF OnceInv, OrderInv, AllSameOrder
  <1>6. ForInv
    BY DEF ForInv, ForAll, NoWish
  <1>7. QED BY <1>1, <1>2, <1>3, <1>5, <1>6 DEF IInv

(* A request for one connection names it.                                  *)
LEMMA WishTypes ==
  ASSUME NEW k \in Commands \cup {NoWish}
  PROVE  /\ k.kind \in {"sendOne", "closeOne"} => k.target \in Conns
         /\ k.kind = "sendAll" => k \in Injects
  BY DEF Commands, Injects, Closes, NoWish

(* Every step keeps the types.                                             *)
LEMMA TypeStep ==
  ASSUME IInv, [Next]_vars
  PROVE  TypeOK'
  <1> USE WishesAssumption DEF IInv, TypeOK, connVars, requestVars, outVars
  <1>1. CASE UNCHANGED vars
    BY <1>1 DEF vars
  <1>2. ASSUME NEW c \in Conns, AddConnection(c) \/ Die(c)
        PROVE  TypeOK'
    BY <1>2 DEF AddConnection, Die
  <1>10. CASE Prune
    BY <1>10 DEF Prune
  <1>3. ASSUME NEW r \in Requests, NEW k \in Wishes[r], Begin(r, k)
        PROVE  TypeOK'
    <2>1. k \in Commands /\ (k \in Injects => k.first \in Sides)
      BY DEF Injects
    <2>2. side' \in [Requests -> Sides] /\ later' \in [Requests -> SUBSET Sides]
      <3>1. CASE k \in Injects
        <4>1. (IF k.both THEN Sides \ {k.first} ELSE {}) \in SUBSET Sides
          OBVIOUS
        <4>2. QED BY <1>3, <2>1, <3>1, <4>1 DEF Begin
      <3>2. CASE k \notin Injects
        BY <1>3, <3>2 DEF Begin
      <3>3. QED BY <3>1, <3>2
    <2>3. QED BY <1>3, <2>1, <2>2 DEF Begin, Goto
  <1>4. ASSUME NEW r \in Requests, LockStep(r)
        PROVE  TypeOK'
    <2>1. CASE LockAll(r)
      BY <2>1 DEF LockAll, Keep, Goto
    <2>2. CASE Find(r)
      <3>1. table \cap {wish[r].target} \in SUBSET Conns
        OBVIOUS
      <3>2. QED BY <2>2, <3>1 DEF Find, Goto
    <2>5. CASE List(r)
      <3>1. (IF wish[r].kind = "list" THEN {} ELSE table) \in SUBSET Conns
        OBVIOUS
      <3>2. QED BY <2>5, <3>1 DEF List, Goto
    <2>3. CASE Return(r)
      BY <2>3 DEF Return, Goto
    <2>4. QED BY <1>4, <2>1, <2>2, <2>3, <2>5 DEF LockStep
  <1>5. ASSUME NEW r \in Requests, OwnStep(r)
        PROVE  TypeOK'
    <2>1. ASSUME NEW c \in todo[r], Take(r, c) \/ Cancel(r, c)
          PROVE  TypeOK'
      <3>1. c \in Conns
        OBVIOUS
      <3>2. CASE Take(r, c)
        <4>1. \E to \in {"looping", "entering"}, d \in {NoConn, c} :
                pc' = [pc EXCEPT ![r] = to] /\ at' = [at EXCEPT ![r] = d]
          BY <3>2 DEF Take, Goto
        <4>2. QED BY <3>1, <3>2, <4>1 DEF Take
      <3>3. CASE Cancel(r, c)
        BY <3>1, <3>3 DEF Cancel, Goto
      <3>4. QED BY <2>1, <3>2, <3>3
    <2>2. CASE Enter(r)
      <3>1. at[r] \in Conns
        BY <2>2 DEF Enter, Goto, HandInv, Sending
      <3>2. at' \in [Requests -> Conns \cup {NoConn}] /\ failed' \in [Requests -> SUBSET Conns]
        <4>1. CASE Sendable(at[r])
          BY <2>2, <4>1 DEF Enter
        <4>2. CASE ~Sendable(at[r])
          <5>1. failed[r] \cup {at[r]} \in SUBSET Conns
            BY <3>1
          <5>2. /\ at' = [at EXCEPT ![r] = NoConn]
                /\ failed' = [failed EXCEPT ![r] = failed[r] \cup {at[r]}]
            BY <2>2, <4>2 DEF Enter
          <5>3. QED BY <5>1, <5>2
        <4>3. QED BY <4>1, <4>2
      <3>3. QED BY <2>2, <3>2 DEF Enter, Goto
    <2>5. CASE Offer(r)
      BY <2>5 DEF Offer, Goto
    <2>3. CASE NextSide(r)
      <3>1. wish[r].kind = "sendOne" => wish[r].target \in Conns
        BY WishTypes
      <3>2. Other(side[r]) \in Sides
        BY DEF Other, Sides
      <3>3. (IF wish[r].kind = "sendOne" THEN {wish[r].target} ELSE {}) \in SUBSET Conns
        BY <3>1
      <3>5. side' \in [Requests -> Sides] /\ todo' \in [Requests -> SUBSET Conns]
        <4>1. CASE later[r] = {}
          BY <2>3, <4>1 DEF NextSide, Sides
        <4>2. CASE later[r] # {}
          BY <2>3, <4>2, <3>2, <3>3 DEF NextSide
        <4>3. QED BY <4>1, <4>2
      <3>4. QED BY <2>3, <3>5 DEF NextSide, Unlocked, Goto
    <2>4. QED BY <1>5, <2>1, <2>2, <2>3, <2>5 DEF OwnStep
  <1>6. ASSUME NEW r \in Requests, WriteStep(r)
        PROVE  TypeOK'
    <2>1. pc[r] = "writing" /\ at[r] \in Conns /\ side[r] \in Sides
      BY <1>6 DEF WriteStep, Write, WriteFails, Goto, HandInv, Sending, Asked
    <2>2. CASE Write(r)
      <3>1. Append(out[side[r]][at[r]], r) \in Seq(Requests)
        BY <2>1
      <3>2. out' \in [Sides -> [Conns -> Seq(Requests)]]
        BY <2>1, <2>2, <3>1 DEF Write
      <3>3. QED BY <2>2, <3>2 DEF Write, Goto
    <2>3. CASE WriteFails(r)
      BY <2>1, <2>3 DEF WriteFails, Goto, GoOn
    <2>4. QED BY <1>6, <2>2, <2>3 DEF WriteStep
  <1>7. ASSUME NEW r \in Requests, FilterStep(r)
        PROVE  TypeOK'
    BY <1>7 DEF FilterStep, CallBack, Answer, Goto
  <1>8. ASSUME NEW w \in Watchers, Watch(w)
        PROVE  TypeOK'
    BY <1>8 DEF Watch
  <1>9. QED BY <1>1, <1>2, <1>3, <1>4, <1>5, <1>6, <1>7, <1>8, <1>10 DEF Next

-----------------------------------------------------------------------------
(* What a write adds to a queue, and that nothing else touches one.        *)

LEMMA BeforeGot ==
  ASSUME NEW x, NEW c, NEW r, NEW s, Before(x, c, r, s)
  PROVE  Got(r, x, c) /\ Got(s, x, c)
  BY DEF Before, Got

LEMMA OutSame ==
  ASSUME out' = out
  PROVE  \A x, c, r, s : /\ Got(r, x, c)' <=> Got(r, x, c)
                         /\ Twice(r, x, c)' <=> Twice(r, x, c)
                         /\ Before(x, c, r, s)' <=> Before(x, c, r, s)
  BY DEF Got, Twice, Before

LEMMA WriteFacts ==
  ASSUME IInv, NEW r \in Requests, Write(r),
         NEW x \in Sides, NEW c \in Conns, NEW q \in Requests, NEW s \in Requests
  PROVE  LET here == x = side[r] /\ c = at[r]
         IN  /\ Got(q, x, c)' <=> (Got(q, x, c) \/ (q = r /\ here))
             /\ Twice(q, x, c)' => (Twice(q, x, c) \/ (q = r /\ here /\ Got(q, x, c)))
             /\ Before(x, c, q, s)' => (Before(x, c, q, s) \/ (s = r /\ here /\ Got(q, x, c)))
  <1> DEFINE old == out[x][c]
             new == out'[x][c]
  <1>1. old \in Seq(Requests) /\ side[r] \in Sides /\ at[r] \in Conns
    BY DEF IInv, TypeOK, HandInv, Write, Goto, Sending
  <1>2. CASE x = side[r] /\ c = at[r]
    <2>1. new = Append(old, r)
      BY <1>1, <1>2 DEF Write, IInv, TypeOK
    <2>2. /\ DOMAIN new = 1..Len(old) + 1 /\ DOMAIN old = 1..Len(old) /\ Len(old) \in Nat
          /\ \A i \in DOMAIN old : new[i] = old[i]
          /\ new[Len(old) + 1] = r
      BY <1>1, <2>1
    <2>3. \A i \in DOMAIN new : i \in DOMAIN old \/ i = Len(old) + 1
      BY <2>2
    <2> HIDE DEF old, new
    <2>4. \A i, j \in DOMAIN new : i < j => i \in DOMAIN old
      BY <2>2
    <2>5. DOMAIN old \subseteq DOMAIN new /\ Len(old) + 1 \in DOMAIN new
      BY <2>2
    <2>6. (\E i \in DOMAIN new : new[i] = q) <=> (\E i \in DOMAIN old : old[i] = q) \/ q = r
      BY <2>2, <2>3, <2>5
    <2>7. (\E i, j \in DOMAIN new : i # j /\ new[i] = q /\ new[j] = q)
            => \/ \E i, j \in DOMAIN old : i # j /\ old[i] = q /\ old[j] = q
               \/ q = r /\ \E i \in DOMAIN old : old[i] = q
      BY <2>2, <2>3
    <2>8. (\E i, j \in DOMAIN new : i < j /\ new[i] = q /\ new[j] = s)
            => \/ \E i, j \in DOMAIN old : i < j /\ old[i] = q /\ old[j] = s
               \/ s = r /\ \E i \in DOMAIN old : old[i] = q
      BY <2>2, <2>3, <2>4
    <2>9. QED BY <1>2, <2>6, <2>7, <2>8 DEF Got, Twice, Before, old, new
  <1>3. CASE ~(x = side[r] /\ c = at[r])
    <2>1. new = old
      BY <1>1, <1>3 DEF Write, IInv, TypeOK
    <2>2. QED BY <1>3, <2>1 DEF Got, Twice, Before
  <1>4. QED BY <1>2, <1>3

-----------------------------------------------------------------------------
(* The five parts that speak of one request, action by action.             *)

Parts == LockInv /\ HandInv /\ OnceInv /\ ReachInv /\ BarredInv

(* Where no queue changes, it is enough that nobody is sent back.          *)
LEMMA OnceKept ==
  ASSUME OnceInv, out' = out,
         \A q \in Requests, x \in Sides, c \in Conns :
           Ahead(q, x, c)' => Ahead(q, x, c) \/ ~Got(q, x, c)
  PROVE  OnceInv'
  <1>1. \A q \in Requests, x \in Sides, c \in Conns :
          /\ Got(q, x, c)' <=> Got(q, x, c)
          /\ Twice(q, x, c)' <=> Twice(q, x, c)
    BY OutSame
  <1>2. QED BY <1>1 DEF OnceInv

LEMMA TableParts ==
  ASSUME IInv,
         \/ \E c \in Conns : AddConnection(c) \/ Die(c)
         \/ Prune \/ (\E w \in Watchers : Watch(w)) \/ UNCHANGED vars
  PROVE  Parts'
  <1>1. UNCHANGED <<lock, requestVars, outVars, barred>>
    BY DEF AddConnection, Die, Prune, Watch, vars, connVars
  <1>2. \A c \in Conns : /\ status[c] = "dead" => status'[c] = "dead"
                         /\ status'[c] = "alive" /\ lock # NoRequest => status[c] = "alive"
    BY DEF AddConnection, Die, Prune, Watch, vars, connVars, LockFree, IInv, TypeOK
  <1>3. lock # NoRequest => table' \subseteq table
    BY DEF AddConnection, Die, Prune, Watch, vars, connVars, LockFree
  <1> USE <1>1 DEF IInv, requestVars, outVars
  <1>4. LockInv' /\ HandInv'
    BY DEF LockInv, HandInv, ForAll, Sending
  <1>5. OnceInv'
    BY OutSame DEF OnceInv, Ahead, InHand, Sending
  <1>6. ReachInv'
    <2>1. \A r \in Requests : lock = r => lock # NoRequest
      BY NoRequestAssumption
    <2>2. \A r \in Requests, c \in Conns : InHand(r, c)' <=> InHand(r, c)
      BY DEF InHand, Sending
    <2>3. QED BY <2>1, <2>2, <1>2, <1>3, OutSame
                 DEF ReachInv, Behind, LockInv, ForAll, Sending, TypeOK
  <1>7. BarredInv'
    BY <1>2, OutSame DEF BarredInv, TypeOK
  <1>8. QED BY <1>4, <1>5, <1>6, <1>7 DEF Parts

LEMMA BeginParts ==
  ASSUME IInv, NEW r \in Requests, NEW k \in Wishes[r], Begin(r, k)
  PROVE  Parts'
  <1> USE DEF IInv, TypeOK, connVars, outVars
  <1>1. /\ pc[r] = "idle" /\ ~ForAll(r) /\ pc' = [pc EXCEPT ![r] = "waiting"]
        /\ \A q \in Requests \ {r} : wish'[q] = wish[q] /\ side'[q] = side[q] /\ later'[q] = later[q]
                                      /\ barred'[q] = barred[q]
    BY DEF Begin, Goto, HandInv, ForAll, NoWish
  <1>2. UNCHANGED <<table, status, lock, todo, at, out, failed>>
    BY DEF Begin
  <1>3. \A x \in Sides, c \in Conns : ~Got(r, x, c)
    BY <1>1 DEF OnceInv, Ahead
  <1>4. LockInv'
    BY <1>1, <1>2 DEF LockInv, ForAll, Sending
  <1>5. later'[r] \subseteq {Other(side'[r])}
    <2>1. CASE k \in Injects
      <3>1. k.first \in Sides /\ side'[r] = k.first
            /\ later'[r] = IF k.both THEN Sides \ {k.first} ELSE {}
        BY <2>1 DEF Begin, Injects
      <3>2. QED BY <3>1 DEF Other, Sides
    <2>2. CASE k \notin Injects
      BY <2>2 DEF Begin, HandInv
    <2>3. QED BY <2>1, <2>2
  <1>6. HandInv'
    BY <1>1, <1>2, <1>5 DEF HandInv, Sending, Asked
  <1>7. OnceInv'
    <2>1. \A q \in Requests, x \in Sides, c \in Conns :
            Ahead(q, x, c)' => Ahead(q, x, c) \/ ~Got(q, x, c)
      BY <1>1, <1>2, <1>3 DEF Ahead, InHand, Sending
    <2>2. QED BY <1>2, <2>1, OnceKept
  <1>8. ReachInv'
    <2>1. \A q \in Requests, c \in Conns : InHand(q, c)' <=> InHand(q, c)
      BY <1>1, <1>2 DEF InHand, Sending
    <2>2. QED BY <2>1, <1>1, <1>2, OutSame DEF ReachInv, Behind, ForAll, Sending
  <1>9. BarredInv'
    <2>1. barred'[r] = {c \in Conns : status[c] = "dead"}
      BY DEF Begin
    <2>2. \A q \in Requests, x \in Sides, c \in Conns : Got(q, x, c)' <=> Got(q, x, c)
      BY <1>2, OutSame
    <2>3. \A q \in Requests \ {r} : barred'[q] = barred[q]
      BY <1>1
    <2>4. ASSUME NEW q \in Requests, NEW c \in barred'[q]
          PROVE  status'[c] = "dead" /\ \A x \in Sides : ~Got(q, x, c)'
      <3>1. CASE q = r
        BY <3>1, <2>1, <2>2, <1>2, <1>3
      <3>2. CASE q # r
        <4>1. c \in barred[q] /\ c \in Conns
          BY <2>3, <3>2
        <4>2. QED BY <4>1, <2>2, <1>2 DEF BarredInv
      <3>3. QED BY <3>1, <3>2
    <2>5. QED BY <2>4 DEF BarredInv
  <1>10. QED BY <1>4, <1>6, <1>7, <1>8, <1>9 DEF Parts

(* A SendToAll* takes the lock, and has all of the table before it.        *)
LEMMA LockAllParts ==
  ASSUME IInv, NEW r \in Requests, LockAll(r)
  PROVE  Parts'
  <1> USE DEF IInv, TypeOK, connVars, outVars
  <1>1. /\ pc[r] = "waiting" /\ pc' = [pc EXCEPT ![r] = "looping"]
        /\ todo' = [todo EXCEPT ![r] = table] /\ lock = NoRequest /\ lock' = r /\ ForAll(r)
    BY DEF LockAll, Goto, LockFree, Keep, ForAll
  <1>2. UNCHANGED <<table, status, wish, at, side, later, out, failed, barred>>
    BY DEF LockAll
  <1>3. LockInv'
    BY <1>1, <1>2, NoRequestAssumption DEF LockInv, ForAll, Sending
  <1>4. HandInv'
    BY <1>1, <1>2 DEF HandInv, Sending, Asked
  <1>5. OnceInv'
    BY <1>1, <1>2, OutSame DEF OnceInv, Ahead, InHand, Sending
  <1>6. ReachInv'
    <2>1. \A q \in Requests, c \in Conns : InHand(q, c)' <=> InHand(q, c)
      BY <1>1, <1>2 DEF InHand, Sending
    <2>2. QED BY <2>1, <1>1, <1>2, OutSame DEF ReachInv, Behind, ForAll, Sending
  <1>7. BarredInv'
    BY <1>2, OutSame DEF BarredInv
  <1>8. QED BY <1>3, <1>4, <1>5, <1>6, <1>7 DEF Parts

(* GetProxy and GetAllProxies are for those that send to one, or to none.  *)
LEMMA FindParts ==
  ASSUME IInv, NEW r \in Requests, Find(r) \/ List(r)
  PROVE  Parts'
  <1> USE DEF IInv, TypeOK, connVars, outVars
  <1>1. /\ pc[r] = "waiting" /\ ~ForAll(r)
        /\ \E to \in {"done", "looping", "cancelling"} : pc' = [pc EXCEPT ![r] = to]
        /\ \A q \in Requests \ {r} : todo'[q] = todo[q]
    BY DEF Find, List, Goto, ForAll
  <1>2. UNCHANGED <<table, status, lock, wish, at, side, later, out, failed, barred>>
    BY DEF Find, List
  <1>3. LockInv'
    BY <1>1, <1>2 DEF LockInv, ForAll, Sending
  <1>4. HandInv'
    BY <1>1, <1>2 DEF HandInv, Sending, Asked
  <1>5. OnceInv'
    <2>1. \A q \in Requests, x \in Sides, d \in Conns : Ahead(q, x, d)' => Ahead(q, x, d)
      BY <1>1, <1>2 DEF Ahead, InHand, Sending
    <2>2. QED BY <1>2, <2>1, OnceKept
  <1>6. ReachInv'
    <2>1. \A q \in Requests, c \in Conns : InHand(q, c)' <=> InHand(q, c)
      BY <1>1, <1>2 DEF InHand, Sending
    <2>2. failed[r] = {}
      BY <1>1 DEF ReachInv, Behind, Sending
    <2>3. QED BY <2>1, <2>2, <1>1, <1>2, OutSame DEF ReachInv, Behind, ForAll, Sending
  <1>7. BarredInv'
    BY <1>2, OutSame DEF BarredInv
  <1>8. QED BY <1>3, <1>4, <1>5, <1>6, <1>7 DEF Parts

LEMMA CancelParts ==
  ASSUME IInv, NEW r \in Requests, NEW c \in todo[r], Cancel(r, c)
  PROVE  Parts'
  <1> USE DEF IInv, TypeOK, connVars, outVars
  <1>1. /\ pc[r] = "cancelling"
        /\ \E to \in {"done", "cancelling"} : pc' = [pc EXCEPT ![r] = to]
        /\ \A q \in Requests \ {r} : todo'[q] = todo[q]
        /\ c \in Conns /\ status' = [status EXCEPT ![c] = "dead"]
    BY DEF Cancel, Goto
  <1>2. UNCHANGED <<table, lock, wish, at, side, later, out, failed, barred>>
    BY DEF Cancel
  <1>3. LockInv'
    BY <1>1, <1>2 DEF LockInv, ForAll, Sending
  <1>4. HandInv'
    BY <1>1, <1>2 DEF HandInv, Sending, Asked
  <1>5. OnceInv'
    <2>1. \A q \in Requests, x \in Sides, d \in Conns : Ahead(q, x, d)' => Ahead(q, x, d)
      BY <1>1, <1>2 DEF Ahead, InHand, Sending
    <2>2. QED BY <1>2, <2>1, OnceKept
  <1>6. ReachInv'
    <2>1. \A q \in Requests, d \in Conns : InHand(q, d)' <=> InHand(q, d)
      BY <1>1, <1>2 DEF InHand, Sending
    <2>2. failed[r] = {}
      BY <1>1 DEF ReachInv, Behind, Sending
    <2>3. \A d \in Conns : status'[d] = "alive" => status[d] = "alive"
      BY <1>1
    <2>4. \A q \in Requests, x \in Sides, d \in Conns : Got(q, x, d)' <=> Got(q, x, d)
      BY <1>2, OutSame
    <2>5. pc'[r] \notin Sending /\ \A q \in Requests \ {r} : pc'[q] = pc[q] /\ todo'[q] = todo[q]
      BY <1>1 DEF Sending
    <2>6. QED BY <2>1, <2>2, <2>3, <2>4, <2>5, <1>2 DEF ReachInv, Behind, ForAll
  <1>7. BarredInv'
    BY <1>1, <1>2, OutSame DEF BarredInv
  <1>8. QED BY <1>3, <1>4, <1>5, <1>6, <1>7 DEF Parts

(* The next connection of the loop; a SendToAll* skips one that is dead.   *)
LEMMA TakeParts ==
  ASSUME IInv, NEW r \in Requests, NEW c \in todo[r], Take(r, c)
  PROVE  Parts'
  <1> USE DEF IInv, TypeOK, connVars, outVars
  <1> DEFINE skips == wish[r].kind = "sendAll" /\ status[c] # "alive"
  <1>1. /\ pc[r] = "looping" /\ c \in Conns
        /\ pc' = [pc EXCEPT ![r] = IF skips THEN "looping" ELSE "entering"]
        /\ todo' = [todo EXCEPT ![r] = @ \ {c}]
        /\ at' = [at EXCEPT ![r] = IF skips THEN NoConn ELSE c]
    BY DEF Take, Goto
  <1>2. UNCHANGED <<table, status, lock, wish, side, later, out, failed, barred>>
    BY DEF Take
  <1>10. skips <=> ForAll(r) /\ status[c] # "alive"
    BY DEF ForAll
  <1> HIDE DEF skips
  <1>3. LockInv'
    BY <1>1, <1>2 DEF LockInv, ForAll, Sending
  <1>4. HandInv'
    BY <1>1, <1>2 DEF HandInv, Sending, Asked
  <1>5. /\ \A q \in Requests \ {r}, d \in Conns : InHand(q, d)' <=> InHand(q, d)
        /\ \A d \in Conns : InHand(r, d)' <=> d = c /\ ~skips
        /\ \A q \in Requests \ {r} : todo'[q] = todo[q] /\ pc'[q] = pc[q]
        /\ todo'[r] = todo[r] \ {c} /\ pc'[r] \in Sending /\ pc[r] \in Sending
        /\ \A d \in Conns : ~InHand(r, d)
    BY <1>1, NoConnAssumption DEF InHand, Sending
  <1>6. OnceInv'
    <2>1. \A q \in Requests, x \in Sides, d \in Conns : Ahead(q, x, d)' => Ahead(q, x, d)
      BY <1>1, <1>2, <1>5 DEF Ahead, Sending
    <2>2. QED BY <1>2, <2>1, OnceKept
  <1>7. ReachInv'
    <2>1. \A q \in Requests, x \in Sides, d \in Conns : Got(q, x, d)' <=> Got(q, x, d)
      BY <1>2, OutSame
    <2>2. \A q \in Requests, d \in Conns : Behind(q, d)' => Behind(q, d) \/ (q = r /\ d = c)
      BY <1>5 DEF Behind
    <2>3. c \notin failed[r]
      BY <1>1 DEF ReachInv, Behind
    <2>4. ASSUME NEW q \in Requests, NEW d \in Conns, d \in failed[q]
          PROVE  Behind(q, d)'
      <3>1. Behind(q, d) /\ ~(q = r /\ d = c)
        BY <2>3, <2>4 DEF ReachInv
      <3>2. CASE q = r
        BY <3>1, <3>2, <1>5 DEF Behind
      <3>3. CASE q # r
        BY <3>1, <3>3, <1>5 DEF Behind
      <3>4. QED BY <3>2, <3>3
    <2>5. Behind(r, c)' => status[c] # "alive"
      BY <1>5, <1>10 DEF Behind
    <2>6. \A q \in Requests : ForAll(q)' = ForAll(q) /\ (pc'[q] \in Sending <=> pc[q] \in Sending)
      BY <1>2, <1>5 DEF ForAll
    <2>7. QED BY <2>1, <2>2, <2>3, <2>4, <2>5, <2>6, <1>2 DEF ReachInv
  <1>8. BarredInv'
    BY <1>2, OutSame DEF BarredInv
  <1>9. QED BY <1>3, <1>4, <1>6, <1>7, <1>8 DEF Parts

(* The filter and the watchers: the connection stays in hand.              *)
LEMMA AskParts ==
  ASSUME IInv, NEW r \in Requests,
         FilterStep(r) \/ Return(r) \/ Offer(r) \/ (Enter(r) /\ Sendable(at[r]))
  PROVE  Parts'
  <1> USE DEF IInv, TypeOK, connVars, requestVars, outVars
  <1>1. /\ pc[r] \in Sending \ {"looping"}
        /\ \E to \in Asked : pc' = [pc EXCEPT ![r] = to]
    BY DEF FilterStep, Answer, Passes, CallBack, Return, Offer, Enter, Goto, Sending, Asked
  <1>2. UNCHANGED <<table, status, lock, wish, todo, at, side, later, out, failed, barred>>
    BY DEF FilterStep, Answer, CallBack, Return, Offer, Enter
  <1>10. pc'[r] \in Asked /\ \A q \in Requests \ {r} : pc'[q] = pc[q]
    BY <1>1
  <1>11. pc[r] \notin Asked => at[r] \notin barred[r]
    <2>1. pc[r] \notin Asked => status[at[r]] = "alive" /\ at[r] \in Conns
      BY <1>1 DEF FilterStep, Answer, CallBack, Return, Offer, Enter, Sendable, Goto, Asked, HandInv
    <2>2. QED BY <2>1 DEF BarredInv
  <1>3. \A q \in Requests : /\ pc'[q] \in Sending <=> pc[q] \in Sending
                            /\ pc'[q] = "looping" <=> pc[q] = "looping"
                            /\ pc'[q] \in {"idle", "waiting"} => pc'[q] = pc[q]
    BY <1>1 DEF Sending, Asked
  <1>4. \A q \in Requests, d \in Conns : InHand(q, d)' <=> InHand(q, d)
    BY <1>2, <1>3 DEF InHand
  <1>5. LockInv' /\ HandInv'
    <2>1. LockInv'
      BY <1>2, <1>3 DEF LockInv, ForAll
    <2>2. \A q \in Requests : pc'[q] = "idle" => pc[q] = "idle"
      BY <1>1 DEF Sending, Asked
    <2>3. \A q \in Requests : pc'[q] \in Asked => at'[q] \notin barred'[q]
      BY <1>2, <1>10, <1>11 DEF HandInv
    <2>4. QED BY <2>1, <2>2, <2>3, <1>2, <1>3 DEF HandInv
  <1>6. OnceInv'
    <2>1. \A q \in Requests, x \in Sides, d \in Conns : Ahead(q, x, d)' => Ahead(q, x, d)
      BY <1>2, <1>3, <1>4 DEF Ahead
    <2>2. QED BY <1>2, <2>1, OnceKept
  <1>7. ReachInv'
    <2>1. \A q \in Requests, x \in Sides, d \in Conns : Got(q, x, d)' <=> Got(q, x, d)
      BY <1>2, OutSame
    <2>2. QED BY <2>1, <1>2, <1>3, <1>4 DEF ReachInv, Behind, ForAll
  <1>8. BarredInv'
    BY <1>2, OutSame DEF BarredInv
  <1>9. QED BY <1>5, <1>6, <1>7, <1>8 DEF Parts

(* A packet that was written was not there before, and is behind now.      *)
LEMMA WriteParts ==
  ASSUME IInv, NEW r \in Requests, Write(r)
  PROVE  Parts'
  <1> USE DEF IInv, TypeOK, connVars
  <1>1. /\ pc[r] \in Sending \ {"looping"} /\ pc' = [pc EXCEPT ![r] = "looping"]
        /\ at' = [at EXCEPT ![r] = NoConn]
    BY DEF Write, Goto, Sending, Asked
  <1>2. UNCHANGED <<table, status, lock, wish, todo, side, later, failed, barred>>
    BY DEF Write
  <1>3. /\ InHand(r, at[r]) /\ at[r] \in Conns /\ at[r] \notin todo[r] /\ at[r] \notin barred[r]
        /\ side[r] \in Sides /\ side[r] \notin later[r]
    BY <1>1 DEF InHand, HandInv, Other, Sides, Write, Goto, Asked
  <1>4. ~Got(r, side[r], at[r]) /\ at[r] \notin failed[r]
    BY <1>3 DEF OnceInv, Ahead, ReachInv, Behind
  <1>5. /\ \A q \in Requests \ {r}, d \in Conns : InHand(q, d)' <=> InHand(q, d)
        /\ \A d \in Conns : ~InHand(r, d)' /\ (InHand(r, d) <=> d = at[r])
        /\ \A q \in Requests \ {r} : pc'[q] = pc[q]
        /\ pc'[r] = "looping" /\ pc'[r] \in Sending /\ pc[r] \in Sending
    BY <1>1 DEF InHand, Sending
  <1>6. LockInv' /\ HandInv'
    BY <1>1, <1>2, <1>5 DEF LockInv, HandInv, ForAll, Asked
  <1>7. \A q \in Requests, x \in Sides, d \in Conns :
          /\ Got(q, x, d)' <=> (Got(q, x, d) \/ (q = r /\ x = side[r] /\ d = at[r]))
          /\ ~Twice(q, x, d)'
    BY <1>4, WriteFacts DEF OnceInv
  <1>8. OnceInv'
    <2>1. \A q \in Requests, x \in Sides, d \in Conns : Ahead(q, x, d)' => Ahead(q, x, d)
      BY <1>2, <1>5 DEF Ahead
    <2>2. \A x, d : x = side[r] /\ d = at[r] => ~Ahead(r, x, d)'
      BY <1>2, <1>3, <1>5 DEF Ahead
    <2>3. QED BY <1>7, <2>1, <2>2 DEF OnceInv
  <1>9. ReachInv'
    <2>1. \A q \in Requests, d \in Conns : Behind(q, d)' <=> Behind(q, d) \/ (q = r /\ d = at[r])
      BY <1>2, <1>3, <1>5 DEF Behind
    <2>2. \A q \in Requests : ForAll(q)' = ForAll(q) /\ (pc'[q] \in Sending <=> pc[q] \in Sending)
      BY <1>2, <1>5 DEF ForAll
    <2>3. QED BY <2>1, <2>2, <1>2, <1>3, <1>4, <1>7 DEF ReachInv
  <1>10. BarredInv'
    BY <1>2, <1>3, <1>7 DEF BarredInv
  <1>11. QED BY <1>6, <1>8, <1>9, <1>10 DEF Parts

(* A write that failed, or a connection that died in the request's hand,   *)
(* leaves an error behind instead.                                         *)
LEMMA WriteFailsParts ==
  ASSUME IInv, NEW r \in Requests, WriteFails(r) \/ (Enter(r) /\ ~Sendable(at[r]))
  PROVE  Parts'
  <1> USE DEF IInv, TypeOK, connVars
  <1>1. /\ pc[r] \in Sending \ {"looping"} /\ pc' = [pc EXCEPT ![r] = "looping"]
        /\ at' = [at EXCEPT ![r] = NoConn] /\ failed' = [failed EXCEPT ![r] = @ \cup {at[r]}]
    BY DEF WriteFails, Enter, Goto, Sending, Asked
  <1>2. UNCHANGED <<table, status, lock, wish, side, later, out, barred>> /\ todo' = todo
    BY DEF WriteFails, Enter, GoOn
  <1>3. /\ InHand(r, at[r]) /\ at[r] \in Conns /\ at[r] \notin todo[r] /\ side[r] \in Sides
    BY <1>1 DEF InHand, HandInv
  <1>4. ~Got(r, side[r], at[r])
    BY <1>3 DEF OnceInv, Ahead
  <1>5. /\ \A q \in Requests \ {r}, d \in Conns : InHand(q, d)' <=> InHand(q, d)
        /\ \A d \in Conns : ~InHand(r, d)' /\ (InHand(r, d) <=> d = at[r])
        /\ \A q \in Requests \ {r} : pc'[q] = pc[q]
        /\ pc'[r] = "looping" /\ pc'[r] \in Sending /\ pc[r] \in Sending
    BY <1>1 DEF InHand, Sending
  <1>6. LockInv' /\ HandInv'
    BY <1>1, <1>2, <1>5 DEF LockInv, HandInv, ForAll, Asked
  <1>7. \A q \in Requests, x \in Sides, d \in Conns : Got(q, x, d)' <=> Got(q, x, d)
    BY <1>2, OutSame
  <1>8. OnceInv'
    <2>1. \A q \in Requests, x \in Sides, d \in Conns : Ahead(q, x, d)' => Ahead(q, x, d)
      BY <1>2, <1>5 DEF Ahead
    <2>2. QED BY <1>2, <2>1, OnceKept
  <1>9. ReachInv'
    <2>1. \A q \in Requests, d \in Conns : Behind(q, d)' <=> Behind(q, d) \/ (q = r /\ d = at[r])
      BY <1>2, <1>3, <1>5 DEF Behind
    <2>2. \A q \in Requests : ForAll(q)' = ForAll(q) /\ (pc'[q] \in Sending <=> pc[q] \in Sending)
      BY <1>2, <1>5 DEF ForAll
    <2>3. \A q \in Requests, d \in Conns : d \in failed'[q] <=> d \in failed[q] \/ (q = r /\ d = at[r])
      BY <1>1
    <2>4. QED BY <2>1, <2>2, <2>3, <1>2, <1>3, <1>4, <1>5, <1>7 DEF ReachInv
  <1>10. BarredInv'
    BY <1>2, <1>7 DEF BarredInv
  <1>11. QED BY <1>6, <1>8, <1>9, <1>10 DEF Parts

(* The loop of one side is over, and the lock is given back.               *)
LEMMA NextSideParts ==
  ASSUME IInv, NEW r \in Requests, NextSide(r)
  PROVE  Parts'
  <1> USE DEF IInv, TypeOK, connVars
  <1>1. /\ pc[r] = "looping" /\ todo[r] = {}
        /\ later' = [later EXCEPT ![r] = {}] /\ failed' = [failed EXCEPT ![r] = {}]
        /\ lock' = IF ForAll(r) THEN NoRequest ELSE lock
    BY DEF NextSide, Goto, Unlocked, ForAll
  <1>2. UNCHANGED <<table, status, wish, at, out, barred>>
    BY DEF NextSide
  <1>3. /\ \A q \in Requests \ {r} : pc'[q] = pc[q] /\ todo'[q] = todo[q] /\ side'[q] = side[q]
                                      /\ later'[q] = later[q] /\ failed'[q] = failed[q]
        /\ later'[r] = {} /\ failed'[r] = {} /\ pc[r] \in Sending
    BY DEF NextSide, Goto, Sending
  <1>4. \/ later[r] = {} /\ pc'[r] = "done"
        \/ /\ later[r] # {} /\ side'[r] = Other(side[r]) /\ side'[r] \in later[r]
           /\ pc'[r] \in {"waiting", "looping"} /\ (ForAll(r) => pc'[r] = "waiting")
    <2>1. CASE later[r] = {}
      BY <2>1 DEF NextSide, Goto
    <2>2. CASE later[r] # {}
      <3>1. later[r] = {Other(side[r])}
        BY <2>2 DEF HandInv
      <3>2. QED BY <2>2, <3>1 DEF NextSide, Goto, ForAll
    <2>3. QED BY <2>1, <2>2
  <1>5. \A q \in Requests : ForAll(q)' = ForAll(q)
    BY <1>2 DEF ForAll
  <1>6. \A q \in Requests, d \in Conns : InHand(q, d)' => InHand(q, d) /\ q # r
    BY <1>2, <1>3, <1>4 DEF InHand, Sending
  <1>7. LockInv'
    <2>1. CASE ForAll(r)
      <3>1. lock = r /\ lock' = NoRequest /\ pc'[r] \notin Sending
        BY <2>1, <1>1, <1>3, <1>4 DEF LockInv, Sending
      <3>2. QED BY <3>1, <1>3, <1>5, NoRequestAssumption DEF LockInv
    <2>2. CASE ~ForAll(r)
      BY <2>2, <1>1, <1>3, <1>5 DEF LockInv
    <2>3. QED BY <2>1, <2>2
  <1>8. HandInv'
    BY <1>2, <1>3, <1>4 DEF HandInv, Sending, Asked
  <1>9. OnceInv'
    <2>1. \A q \in Requests, x \in Sides, d \in Conns : Ahead(q, x, d)' => Ahead(q, x, d)
      BY <1>2, <1>3, <1>4, <1>6 DEF Ahead, Sending
    <2>2. QED BY <1>2, <2>1, OnceKept
  <1>10. ReachInv'
    <2>1. \A q \in Requests, x \in Sides, d \in Conns : Got(q, x, d)' <=> Got(q, x, d)
      BY <1>2, OutSame
    <2>2. \A q \in Requests \ {r}, d \in Conns : Behind(q, d)' <=> Behind(q, d)
      BY <1>2, <1>3 DEF Behind, InHand
    <2>3. ForAll(r) => pc'[r] \notin Sending
      BY <1>4 DEF Sending
    <2>4. ASSUME NEW q \in Requests, NEW d \in Conns, q # r
          PROVE  /\ d \in failed'[q] => pc'[q] \in Sending /\ Behind(q, d)'
                 /\ ForAll(q)' /\ pc'[q] \in Sending /\ d \in table' /\ status'[d] = "alive" /\ Behind(q, d)'
                      => (Got(q, side[q], d)' <=> d \notin failed'[q])
      <3>1. \A x : x = side[q] => (Got(q, x, d)' <=> Got(q, x, d))
        BY <2>1
      <3>2. QED BY <3>1, <2>2, <2>4, <1>2, <1>3, <1>5 DEF ReachInv
    <2>5. QED BY <2>3, <2>4, <1>3, <1>5 DEF ReachInv
  <1>11. BarredInv'
    BY <1>2, OutSame DEF BarredInv
  <1>12. QED BY <1>7, <1>8, <1>9, <1>10, <1>11 DEF Parts

-----------------------------------------------------------------------------
(* The order.                                                              *)

(* A packet comes behind another's only while its request has the lock, so *)
(* it is enough to look at writes, and at who takes the lock.              *)
LEMMA OrderStep ==
  ASSUME IInv, [Next]_vars
  PROVE  OrderInv' /\ AllSameOrder'
  <1> USE DEF IInv, TypeOK
  <1>1. ASSUME NEW r \in Requests, Write(r)
        PROVE  OrderInv' /\ AllSameOrder'
    <2>1. /\ side[r] \in Sides /\ at[r] \in Conns /\ ~Got(r, side[r], at[r])
          /\ ForAll(r) => lock = r
      BY <1>1 DEF Write, Goto, Sending, Asked, HandInv, OnceInv, Ahead, InHand, LockInv
    <2>2. UNCHANGED <<lock, wish, side>>
      BY <1>1 DEF Write
    <2>3. \A q \in Requests : ForAll(q)' = ForAll(q)
      BY <2>2 DEF ForAll
    <2>4. \A x \in Sides, c \in Conns, q, s \in Requests :
            Before(x, c, q, s)' => Before(x, c, q, s) \/ (s = r /\ x = side[r] /\ q # r)
      BY <1>1, <2>1, WriteFacts
    <2>5. OrderInv'
      BY <2>1, <2>2, <2>3, <2>4 DEF OrderInv
    <2>6. \A x \in Sides, c \in Conns, q \in Requests :
            ForAll(r) /\ ForAll(q) /\ x = side[r] => ~Before(x, c, r, q)
      BY <2>1 DEF OrderInv
    <2>7. AllSameOrder'
      <3>1. ASSUME NEW x \in Sides, NEW c \in Conns, NEW d \in Conns,
                   NEW q \in Requests, NEW s \in Requests,
                   ForAll(q), ForAll(s), Before(x, c, q, s)', Before(x, d, s, q)'
            PROVE  FALSE
        <4>1. ~(Before(x, c, q, s) /\ Before(x, d, s, q))
          BY <3>1 DEF AllSameOrder
        <4>2. \/ Before(x, c, q, s)
              \/ s = r /\ x = side[r] /\ q # r
          BY <3>1, <2>4
        <4>3. \/ Before(x, d, s, q)
              \/ q = r /\ x = side[r] /\ s # r
          BY <3>1, <2>4
        <4>4. QED BY <3>1, <4>1, <4>2, <4>3, <2>6
      <3>2. QED BY <3>1, <2>3 DEF AllSameOrder
    <2>8. QED BY <2>5, <2>7
  <1>2. ASSUME out' = out, \A q \in Requests : ForAll(q)' = ForAll(q)
        PROVE  /\ AllSameOrder'
               /\ (\A q \in Requests : lock' = q =>
                     \/ lock = q /\ side'[q] = side[q]
                     \/ \A c \in Conns : ~Got(q, side'[q], c))
                  => OrderInv'
    <2>1. \A x \in Sides, c \in Conns, q, s \in Requests : Before(x, c, q, s)' <=> Before(x, c, q, s)
      BY <1>2, OutSame
    <2>2. AllSameOrder'
      BY <1>2, <2>1 DEF AllSameOrder
    <2>3. QED BY <1>2, <2>1, <2>2, BeforeGot DEF OrderInv
  <1>3. ASSUME NEW r \in Requests, LockAll(r)
        PROVE  OrderInv' /\ AllSameOrder'
    <2>1. out' = out /\ wish' = wish /\ side' = side /\ lock' = r
      BY <1>3 DEF LockAll, Keep, outVars
    <2>2. \A c \in Conns : ~Got(r, side[r], c)
      BY <1>3 DEF LockAll, Goto, OnceInv, Ahead
    <2>3. QED BY <1>2, <2>1, <2>2 DEF ForAll
  <1>4. ASSUME NEW r \in Requests, NEW k \in Wishes[r], Begin(r, k)
        PROVE  OrderInv' /\ AllSameOrder'
    <2>1. /\ pc[r] = "idle" /\ lock # r /\ lock' = lock /\ out' = out
          /\ \A q \in Requests \ {r} : wish'[q] = wish[q] /\ side'[q] = side[q]
      BY <1>4 DEF Begin, Goto, LockInv, Sending, outVars
    <2>2. \A x \in Sides, c \in Conns : ~Got(r, x, c)
      BY <2>1 DEF OnceInv, Ahead
    <2>3. \A x \in Sides, c \in Conns, q, s \in Requests :
            Before(x, c, q, s)' => Before(x, c, q, s) /\ q # r /\ s # r
      BY <2>1, <2>2, OutSame, BeforeGot
    <2>4. \A q \in Requests \ {r} : ForAll(q)' = ForAll(q)
      BY <2>1 DEF ForAll
    <2>5. OrderInv'
      BY <2>1, <2>3, <2>4 DEF OrderInv
    <2>6. AllSameOrder'
      BY <2>3, <2>4 DEF AllSameOrder
    <2>7. QED BY <2>5, <2>6
  <1>5. ASSUME NEW r \in Requests, NextSide(r)
        PROVE  OrderInv' /\ AllSameOrder'
    <2>1. out' = out /\ wish' = wish /\ \A q \in Requests \ {r} : side'[q] = side[q]
      BY <1>5 DEF NextSide
    <2>2. lock' # r /\ (lock' = lock \/ lock' = NoRequest)
      BY <1>5, NoRequestAssumption DEF NextSide, Unlocked, LockInv, Goto, ForAll, Sending
    <2>3. QED BY <1>2, <2>1, <2>2, NoRequestAssumption DEF ForAll
  <1>6. ASSUME UNCHANGED <<lock, wish, side, out>>
        PROVE  OrderInv' /\ AllSameOrder'
    BY <1>2, <1>6 DEF ForAll
  <1>7. QED
    <2> USE <1>6 DEF connVars, requestVars, outVars
    <2>1. CASE UNCHANGED vars
      BY <2>1 DEF vars
    <2>2. CASE Next
      BY <2>2, <1>1, <1>3, <1>4, <1>5
         DEF Next, LockStep, OwnStep, WriteStep, AddConnection, Die, Prune, Find, List, Cancel,
             Take, Enter, Offer, FilterStep, Answer, CallBack, Return, WriteFails, Watch
    <2>3. QED BY <2>1, <2>2

-----------------------------------------------------------------------------
(* Where a request goes: only Begin and NextSide change it.                *)
LEMMA ForStep ==
  ASSUME IInv, [Next]_vars
  PROVE  ForInv'
  <1> USE DEF IInv, TypeOK
  <1>1. ASSUME NEW r \in Requests, NEW k \in Wishes[r], Begin(r, k)
        PROVE  ForInv'
    <2>1. /\ pc' = [pc EXCEPT ![r] = "waiting"] /\ wish' = [wish EXCEPT ![r] = k]
          /\ \A q \in Requests \ {r} : side'[q] = side[q] /\ later'[q] = later[q]
      BY <1>1 DEF Begin, Goto
    <2>2. \A q \in Requests \ {r}, x \in Sides :
            pc'[q] = pc[q] /\ ForAll(q)' = ForAll(q) /\ For(q, x)' = For(q, x)
      BY <2>1 DEF ForAll, For
    <2>3. ASSUME ForAll(r)', NEW x \in {side'[r]} \cup later'[r]
          PROVE  For(r, x)'
      <3>1. k \in Injects /\ wish'[r] = k
        BY <2>1, <2>3, WishTypes, WishesAssumption DEF ForAll
      <3>2. x = k.first \/ k.both
        BY <1>1, <2>3, <3>1 DEF Begin
      <3>3. QED BY <2>3, <3>1, <3>2 DEF For
    <2>4. QED BY <2>1, <2>2, <2>3 DEF ForInv, Sending
  <1>2. ASSUME NEW r \in Requests, NextSide(r)
        PROVE  ForInv'
    <2>1. /\ wish' = wish /\ pc[r] = "looping" /\ later' = [later EXCEPT ![r] = {}]
          /\ \A q \in Requests \ {r} : pc'[q] = pc[q] /\ side'[q] = side[q]
          /\ later[r] = {} => pc'[r] = "done"
          /\ later[r] # {} => pc'[r] \in {"waiting", "looping"} /\ side'[r] = Other(side[r])
      BY <1>2 DEF NextSide, Goto
    <2>2. \A q, x : ForAll(q)' = ForAll(q) /\ For(q, x)' = For(q, x)
      BY <2>1 DEF ForAll, For
    <2>3. later[r] # {} => Other(side[r]) \in later[r]
      BY DEF HandInv
    <2>4. QED BY <2>1, <2>2, <2>3 DEF ForInv, Sending
  <1>3. ASSUME NEW r \in Requests, UNCHANGED <<wish, side, later>>,
               \A q \in Requests \ {r} : pc'[q] = pc[q],
               ForAll(r) => pc'[r] \in {"done"} \cup Sending /\ pc[r] # "done"
        PROVE  ForInv'
    BY <1>3 DEF ForInv, ForAll, For, Sending
  <1>4. ASSUME NEW r \in Requests,
               LockStep(r) \/ WriteStep(r) \/ FilterStep(r) \/ Enter(r) \/ Offer(r)
                 \/ \E c \in todo[r] : Take(r, c)
        PROVE  ForInv'
    <2>1. UNCHANGED <<wish, side, later>> /\ \A q \in Requests \ {r} : pc'[q] = pc[q]
      BY <1>4 DEF LockStep, LockAll, Find, List, Return, FilterStep, Answer, CallBack, Passes, WriteStep,
                  Write, WriteFails, Enter, Offer, Take, Goto, requestVars
    <2>2. pc[r] # "done"
      BY <1>4 DEF LockStep, LockAll, Find, List, Return, FilterStep, Answer, CallBack, WriteStep,
                  Write, WriteFails, Enter, Offer, Take, Goto
    <2>3. ForAll(r) => pc'[r] \in Sending
      BY <1>4 DEF LockStep, LockAll, Find, List, Return, FilterStep, Answer, CallBack, Passes, WriteStep,
                  Write, WriteFails, Enter, Offer, Take, Goto, ForAll, Sending
    <2>4. QED BY <1>3, <2>1, <2>2, <2>3
  <1>5. ASSUME NEW r \in Requests, NEW c \in todo[r], Cancel(r, c)
        PROVE  ForInv'
    <2>1. ~ForAll(r)
      BY <1>5 DEF Cancel, Goto, ForInv, Sending
    <2>2. UNCHANGED <<wish, side, later>> /\ \A q \in Requests \ {r} : pc'[q] = pc[q]
      BY <1>5 DEF Cancel, Goto
    <2>3. QED BY <1>3, <2>1, <2>2
  <1>6. CASE UNCHANGED requestVars
    BY <1>6 DEF requestVars, ForInv, ForAll, For
  <1>7. QED
    BY <1>1, <1>2, <1>4, <1>5, <1>6
       DEF Next, vars, OwnStep, AddConnection, Die, Prune, Watch

-----------------------------------------------------------------------------
(* Every step keeps the invariant.                                         *)
LEMMA Step == IInv /\ [Next]_vars => IInv'
  <1> SUFFICES ASSUME IInv, [Next]_vars PROVE IInv'
    OBVIOUS
  <1>1. Parts'
    <2>1. CASE UNCHANGED vars
      BY <2>1, TableParts
    <2>2. CASE Next
      BY <2>2, TableParts, BeginParts, LockAllParts, FindParts, CancelParts, TakeParts, AskParts,
         WriteParts, WriteFailsParts, NextSideParts
         DEF Next, LockStep, OwnStep, WriteStep
    <2>3. QED BY <2>1, <2>2
  <1>2. QED BY <1>1, TypeStep, OrderStep, ForStep DEF IInv, Parts

(* The inductive invariant: connectionLock belongs to the SendToAll* in    *)
(* its loop (spawner.go:329-360), what is ahead of a request has not its   *)
(* packet, what is behind it has.                                          *)
THEOREM Inductive == Spec => []IInv
  <1>1. Init => IInv
    BY InitInv
  <1>2. IInv /\ [Next]_vars => IInv'
    BY Step
  <1>3. QED BY <1>1, <1>2, PTL DEF Spec

(* Every variable keeps its type.                                          *)
THEOREM TypeCorrect == Spec => []TypeOK
  <1>1. IInv => TypeOK
    BY DEF IInv
  <1>2. QED BY <1>1, Inductive, PTL

(* The packets of two SendToAll* come to all connections in one order.     *)
THEOREM OneOrder == Spec => []AllSameOrder
  <1>1. IInv => AllSameOrder
    BY DEF IInv
  <1>2. QED BY <1>1, Inductive, PTL

(* A SendToAll* leaves no living connection without packet or error.       *)
THEOREM NobodyLeftOut == Spec => []AllReached
  <1>1. IInv => AllReached
    <2>1. ASSUME IInv, NEW r \in Requests, NEW c \in table,
                 ForAll(r), pc[r] = "looping", todo[r] = {}, status[c] = "alive"
          PROVE  (Got(r, side[r], c) <=> c \notin failed[r]) /\ ~Twice(r, side[r], c)
      <3>1. c \in Conns /\ side[r] \in Sides /\ pc[r] \in Sending /\ Behind(r, c)
        BY <2>1 DEF IInv, TypeOK, Sending, Behind, InHand
      <3>2. QED BY <2>1, <3>1 DEF IInv, ReachInv, OnceInv
    <2>2. QED BY <2>1 DEF AllReached
  <1>2. QED BY <1>1, Inductive, PTL

(* A closed connection gets nothing of a later request.                    *)
THEOREM ClosedIsClosed == Spec => []NothingAfterClose
  <1>1. IInv => NothingAfterClose
    BY DEF IInv, TypeOK, BarredInv, NothingAfterClose
  <1>2. QED BY <1>1, Inductive, PTL

-----------------------------------------------------------------------------
(* The requests implement Broadcast, once for each side.  What a step does *)
(* to the turns of side x is one of these.                                 *)
Stays(x)     == UNCHANGED <<Turn(x), Over(x), Private(x), out[x]>>
Begins(x, r) == /\ Turn(x) = {} /\ r \notin Over(x) \cup Private(x) /\ Turn(x)' = {r}
                /\ UNCHANGED <<Over(x), Private(x), out[x]>>
Ends(x, r)   == /\ r \in Turn(x) /\ Turn(x)' = {} /\ Over(x)' = Over(x) \cup {r}
                /\ UNCHANGED <<Private(x), out[x]>>
Apart(x, r)  == /\ r \notin Turn(x) \cup Over(x) \cup Private(x)
                /\ Private(x)' = Private(x) \cup {r}
                /\ UNCHANGED <<Turn(x), Over(x), out[x]>>
Gives(x, r)  == /\ r \in Turn(x) \cup Private(x)
                /\ \E c \in Conns : ~Got(r, x, c) /\ out'[x] = [out[x] EXCEPT ![c] = Append(@, r)]
                /\ UNCHANGED <<Turn(x), Over(x), Private(x)>>

(* A step of r moves r only.                                               *)
LEMMA OthersStay ==
  ASSUME IInv, NEW r \in Requests, NEW x \in Sides, lock' = lock,
         \A q \in Requests \ {r} :
           pc'[q] = pc[q] /\ wish'[q] = wish[q] /\ side'[q] = side[q] /\ later'[q] = later[q],
         lock = r => side'[r] = side[r]
  PROVE  /\ Turn(x)' = Turn(x)
         /\ \A q \in Requests \ {r} :
              (q \in Over(x)' <=> q \in Over(x)) /\ (q \in Private(x)' <=> q \in Private(x))
  BY DEF Turn, Over, Private, For, ForAll

(* A step that moves r within its request leaves the turns as they are.    *)
LEMMA WithinStays ==
  ASSUME IInv, NEW r \in Requests, NEW x \in Sides, UNCHANGED <<lock, wish, side, later>>,
         \A q \in Requests \ {r} : pc'[q] = pc[q],
         pc[r] # "idle", pc'[r] # "idle",
         ForAll(r) => (pc[r] = "done" <=> pc'[r] = "done")
  PROVE  UNCHANGED <<Turn(x), Over(x), Private(x)>>
  <1>1. Turn(x)' = Turn(x)
    BY DEF Turn
  <1>2. \A q : ForAll(q)' = ForAll(q) /\ For(q, x)' = For(q, x) /\ (For(q, x) => ForAll(q))
    BY DEF For, ForAll
  <1>3. Over(x)' = Over(x)
    BY <1>2 DEF Over
  <1>4. Private(x)' = Private(x)
    BY <1>2 DEF Private
  <1>5. QED BY <1>1, <1>3, <1>4

LEMMA BeginTurns ==
  ASSUME IInv, NEW r \in Requests, NEW k \in Wishes[r], Begin(r, k), NEW x \in Sides
  PROVE  Stays(x) \/ Apart(x, r)
  <1> USE DEF IInv, TypeOK
  <1>1. /\ pc[r] = "idle" /\ ~ForAll(r) /\ lock # r
        /\ pc' = [pc EXCEPT ![r] = "waiting"] /\ wish' = [wish EXCEPT ![r] = k]
        /\ lock' = lock /\ out' = out
        /\ \A q \in Requests \ {r} : side'[q] = side[q] /\ later'[q] = later[q]
    BY DEF Begin, Goto, HandInv, NoWish, ForAll, LockInv, outVars
  <1>2. /\ Turn(x)' = Turn(x)
        /\ \A q \in Requests \ {r} :
              (q \in Over(x)' <=> q \in Over(x)) /\ (q \in Private(x)' <=> q \in Private(x))
    BY <1>1, OthersStay
  <1>3. r \notin Turn(x) \cup Over(x) \cup Private(x)
    BY <1>1 DEF Turn, Over, Private, For
  <1>4. r \notin Over(x)'
    <2>1. ASSUME For(r, x)', side'[r] # x
          PROVE  x \in later'[r]
      <3>1. k \in Injects /\ wish'[r] = k
        BY <1>1, <2>1, WishTypes, WishesAssumption DEF For, ForAll
      <3>2. side'[r] = k.first /\ later'[r] = IF k.both THEN Sides \ {k.first} ELSE {}
        BY <3>1 DEF Begin, Injects
      <3>3. x # k.first /\ k.both
        BY <2>1, <3>1, <3>2 DEF For
      <3>4. QED BY <3>2, <3>3
    <2>2. pc'[r] # "done"
      BY <1>1
    <2>3. QED BY <2>1, <2>2 DEF Over
  <1>5. Over(x)' = Over(x)
    BY <1>2, <1>3, <1>4 DEF Over
  <1>6. Private(x)' = Private(x) \/ Private(x)' = Private(x) \cup {r}
    BY <1>2, <1>3 DEF Private
  <1>7. QED BY <1>1, <1>2, <1>3, <1>5, <1>6 DEF Stays, Apart

LEMMA LockAllTurns ==
  ASSUME IInv, NEW r \in Requests, LockAll(r), NEW x \in Sides
  PROVE  Stays(x) \/ Begins(x, r)
  <1> USE DEF IInv, TypeOK
  <1>1. /\ pc[r] = "waiting" /\ pc' = [pc EXCEPT ![r] = "looping"] /\ ForAll(r)
        /\ lock = NoRequest /\ lock' = r /\ UNCHANGED <<wish, side, later, out>>
    BY DEF LockAll, LockFree, Goto, Keep, ForAll, outVars
  <1>2. Turn(x) = {} /\ Turn(x)' = IF side[r] = x THEN {r} ELSE {}
    BY <1>1, NoRequestAssumption DEF Turn
  <1>3. \A q : ForAll(q)' = ForAll(q) /\ For(q, x)' = For(q, x)
    BY <1>1 DEF For, ForAll
  <1>4. Over(x)' = Over(x) /\ Private(x)' = Private(x)
    BY <1>1, <1>3 DEF Over, Private
  <1>5. side[r] = x => r \notin Over(x) \cup Private(x)
    BY <1>1 DEF Over, Private, ForInv
  <1>6. QED BY <1>1, <1>2, <1>4, <1>5 DEF Stays, Begins

LEMMA NextSideTurns ==
  ASSUME IInv, NEW r \in Requests, NextSide(r), NEW x \in Sides
  PROVE  Stays(x) \/ Ends(x, r)
  <1> USE DEF IInv, TypeOK
  <1>1. /\ pc[r] = "looping" /\ wish' = wish /\ out' = out /\ pc'[r] # "idle"
        /\ later' = [later EXCEPT ![r] = {}]
        /\ \A q \in Requests \ {r} : pc'[q] = pc[q] /\ side'[q] = side[q]
        /\ later[r] = {} => pc'[r] = "done"
        /\ later[r] # {} => pc'[r] # "done" /\ side'[r] = Other(side[r])
    BY DEF NextSide, Goto
  <1>2. \A q : ForAll(q)' = ForAll(q) /\ For(q, x)' = For(q, x) /\ (For(q, x) => ForAll(q))
    BY <1>1 DEF For, ForAll
  <1>3. Private(x)' = Private(x)
    BY <1>1, <1>2 DEF Private
  <1>4. \A q \in Requests \ {r} : q \in Over(x)' <=> q \in Over(x)
    BY <1>1, <1>2 DEF Over
  <1>5. CASE ~ForAll(r)
    <2>1. lock' = lock /\ lock # r
      BY <1>5 DEF NextSide, ForAll, LockInv
    <2>2. Turn(x)' = Turn(x)
      BY <1>1, <2>1 DEF Turn
    <2>3. Over(x)' = Over(x)
      BY <1>2, <1>4, <1>5 DEF Over
    <2>4. QED BY <1>1, <1>3, <2>2, <2>3 DEF Stays
  <1>6. CASE ForAll(r)
    <2>1. lock = r /\ lock' = NoRequest
      BY <1>1, <1>6 DEF NextSide, Unlocked, ForAll, LockInv, Sending
    <2>2. Turn(x) = (IF side[r] = x THEN {r} ELSE {}) /\ Turn(x)' = {}
      BY <2>1, NoRequestAssumption DEF Turn
    <2>3. later[r] \subseteq {Other(side[r])} /\ side[r] \in Sides /\ Other(side[r]) # side[r]
      BY DEF HandInv, Other, Sides
    <2>4. CASE side[r] = x
      <3>1. r \in Over(x)' /\ r \notin Over(x)
        <4>1. For(r, x)' /\ x \notin later'[r]
          BY <1>1, <1>2, <1>6, <2>4 DEF ForInv
        <4>2. pc'[r] = "done" \/ side'[r] # x
          BY <1>1, <2>3, <2>4
        <4>3. QED BY <1>1, <2>4, <4>1, <4>2 DEF Over
      <3>2. Over(x)' = Over(x) \cup {r}
        BY <1>4, <3>1 DEF Over
      <3>3. QED BY <1>1, <1>3, <2>2, <2>4, <3>2 DEF Ends
    <2>5. CASE side[r] # x
      <3>1. later[r] = {} \/ (later[r] = {x} /\ Other(side[r]) = x)
        BY <2>3, <2>5 DEF Sides, Other
      <3>2. r \in Over(x)' <=> r \in Over(x)
        BY <1>1, <1>2, <2>5, <3>1 DEF Over
      <3>3. Over(x)' = Over(x)
        BY <1>4, <3>2 DEF Over
      <3>4. QED BY <1>1, <1>3, <2>2, <2>5, <3>3 DEF Stays
    <2>6. QED BY <2>4, <2>5
  <1>7. QED BY <1>5, <1>6

LEMMA WriteTurns ==
  ASSUME IInv, NEW r \in Requests, Write(r), NEW x \in Sides
  PROVE  Stays(x) \/ Gives(x, r)
  <1> USE DEF IInv, TypeOK
  <1>1. /\ pc[r] = "writing" /\ pc' = [pc EXCEPT ![r] = "looping"]
        /\ UNCHANGED <<lock, wish, side, later>> /\ side[r] \in Sides /\ at[r] \in Conns
        /\ out' = [out EXCEPT ![side[r]][at[r]] = Append(@, r)]
    BY DEF Write, Goto, HandInv, Sending, Asked
  <1>2. UNCHANGED <<Turn(x), Over(x), Private(x)>>
    BY <1>1, WithinStays
  <1>3. CASE side[r] # x
    BY <1>1, <1>2, <1>3 DEF Stays
  <1>4. CASE side[r] = x
    <2>1. out'[x] = [out[x] EXCEPT ![at[r]] = Append(@, r)]
      BY <1>1, <1>4
    <2>2. ~Got(r, x, at[r])
      BY <1>1, <1>4 DEF OnceInv, Ahead, InHand, Sending
    <2>3. r \in Turn(x) \cup Private(x)
      BY <1>1, <1>4 DEF Turn, Private, For, LockInv, Sending
    <2>4. QED BY <1>1, <1>2, <2>1, <2>2, <2>3 DEF Gives
  <1>5. QED BY <1>3, <1>4

LEMMA TurnStep ==
  ASSUME IInv, [Next]_vars, NEW x \in Sides
  PROVE  \/ Stays(x)
         \/ \E r \in Requests : Begins(x, r) \/ Ends(x, r) \/ Apart(x, r) \/ Gives(x, r)
  <1> USE DEF IInv, TypeOK
  <1>1. CASE UNCHANGED <<lock, requestVars, outVars>>
    BY <1>1 DEF requestVars, outVars, Stays, Turn, Over, Private, For, ForAll
  <1>2. ASSUME NEW r \in Requests,
               (\E c \in todo[r] : Take(r, c) \/ Cancel(r, c)) \/ Find(r) \/ List(r)
                 \/ Enter(r) \/ FilterStep(r) \/ Return(r) \/ Offer(r) \/ WriteFails(r)
        PROVE  Stays(x)
    <2>1. /\ UNCHANGED <<lock, wish, side, later, out>>
          /\ \A q \in Requests \ {r} : pc'[q] = pc[q]
          /\ pc[r] # "idle" /\ pc'[r] # "idle"
      BY <1>2 DEF Take, Cancel, Find, List, Enter, FilterStep, Answer, CallBack, Return, Offer,
                  WriteFails, Goto, outVars
    <2>2. ForAll(r) => (pc[r] = "done" <=> pc'[r] = "done")
      BY <1>2 DEF Take, Cancel, Find, List, Enter, FilterStep, Answer, CallBack, Return, Offer,
                  WriteFails, Goto, ForAll, ForInv, Sending
    <2>3. QED BY <2>1, <2>2, WithinStays DEF Stays
  <1>3. QED
    BY <1>1, <1>2, BeginTurns, LockAllTurns, NextSideTurns, WriteTurns
       DEF Next, vars, LockStep, OwnStep, WriteStep, AddConnection, Die, Prune, Watch, connVars

(* What is injected comes to the clients as through a Broadcast.           *)
LEMMA ClientsFeed == Spec => Clients!Spec
  <1>1. Init => Clients!Init
    BY NoRequestAssumption
       DEF Init, Clients!Init, Turn, Over, Private, For, ForAll, NoWish, Sides
  <1>2. IInv /\ [Next]_vars => [Clients!Next]_(Clients!vars)
    <2> SUFFICES ASSUME IInv, [Next]_vars PROVE [Clients!Next]_(Clients!vars)
      OBVIOUS
    <2>1. "client" \in Sides
      BY DEF Sides
    <2>2. CASE Stays("client")
      BY <2>2 DEF Stays, Clients!vars
    <2>3. ASSUME NEW r \in Requests,
                 Begins("client", r) \/ Ends("client", r) \/ Apart("client", r) \/ Gives("client", r)
          PROVE  Clients!Next
      <3>1. CASE Begins("client", r)
        BY <3>1 DEF Begins, Clients!Begin, Clients!Unknown, Clients!Next
      <3>2. CASE Ends("client", r)
        BY <3>2 DEF Ends, Clients!End, Clients!Next
      <3>3. CASE Apart("client", r)
        BY <3>3 DEF Apart, Clients!Alone, Clients!Unknown, Clients!Next
      <3>4. CASE Gives("client", r)
        BY <3>4 DEF Gives, Got, Clients!Give, Clients!Next
      <3>5. QED BY <2>3, <3>1, <3>2, <3>3, <3>4
    <2>4. QED BY <2>1, <2>2, <2>3, TurnStep
  <1>3. QED BY <1>1, <1>2, Inductive, PTL DEF Spec, Clients!Spec

(* And so it comes to the servers.                                         *)
LEMMA ServersFeed == Spec => Servers!Spec
  <1>1. Init => Servers!Init
    BY NoRequestAssumption
       DEF Init, Servers!Init, Turn, Over, Private, For, ForAll, NoWish, Sides
  <1>2. IInv /\ [Next]_vars => [Servers!Next]_(Servers!vars)
    <2> SUFFICES ASSUME IInv, [Next]_vars PROVE [Servers!Next]_(Servers!vars)
      OBVIOUS
    <2>1. "server" \in Sides
      BY DEF Sides
    <2>2. CASE Stays("server")
      BY <2>2 DEF Stays, Servers!vars
    <2>3. ASSUME NEW r \in Requests,
                 Begins("server", r) \/ Ends("server", r) \/ Apart("server", r) \/ Gives("server", r)
          PROVE  Servers!Next
      <3>1. CASE Begins("server", r)
        BY <3>1 DEF Begins, Servers!Begin, Servers!Unknown, Servers!Next
      <3>2. CASE Ends("server", r)
        BY <3>2 DEF Ends, Servers!End, Servers!Next
      <3>3. CASE Apart("server", r)
        BY <3>3 DEF Apart, Servers!Alone, Servers!Unknown, Servers!Next
      <3>4. CASE Gives("server", r)
        BY <3>4 DEF Gives, Got, Servers!Give, Servers!Next
      <3>5. QED BY <2>3, <3>1, <3>2, <3>3, <3>4
    <2>4. QED BY <2>1, <2>2, <2>3, TurnStep
  <1>3. QED BY <1>1, <1>2, Inductive, PTL DEF Spec, Servers!Spec

(* On each side the packets for all have their turns, one at a time, and   *)
(* come to each connection once.                                           *)
THEOREM Refinement == Spec => BothFeeds
  BY ClientsFeed, ServersFeed DEF BothFeeds
==============================================================================
