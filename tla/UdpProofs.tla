------------------------------ MODULE UdpProofs ------------------------------
(***************************************************************************)
(* For any clients, and any number of datagrams and connections: the       *)
(* listener and its connections never meet at a socket, and no datagram    *)
(* is overtaken.                                                           *)
(***************************************************************************)
EXTENDS Udp, FiniteSetTheorems, TLAPS

-----------------------------------------------------------------------------
(* Sequences that are changed at one place, at the front or at the end.    *)

LEMMA NumNat == \A d \in Datagrams : d.num \in Nat /\ d.num <= MaxDatagrams
  BY BoundsAssumption DEF Datagrams

LEMMA SeqExcept ==
  ASSUME NEW S, NEW s \in Seq(S), NEW i \in DOMAIN s, NEW e \in S
  PROVE  LET t == [s EXCEPT ![i] = e]
         IN  /\ t \in Seq(S) /\ Len(t) = Len(s) /\ DOMAIN t = DOMAIN s
             /\ \A j \in DOMAIN s : t[j] = IF j = i THEN e ELSE s[j]
  OBVIOUS

LEMMA SeqTail ==
  ASSUME NEW S, NEW s \in Seq(S), s # <<>>
  PROVE  /\ Tail(s) \in Seq(S) /\ Head(s) \in S
         /\ 1 \in DOMAIN s /\ Head(s) = s[1]
         /\ \A i \in DOMAIN Tail(s) : i \in Nat /\ i + 1 \in DOMAIN s /\ Tail(s)[i] = s[i + 1]
         /\ \A i \in DOMAIN Tail(s) : 1 < i + 1
  OBVIOUS

LEMMA SeqAppend ==
  ASSUME NEW S, NEW s \in Seq(S), NEW e \in S
  PROVE  /\ Append(s, e) \in Seq(S) /\ Len(Append(s, e)) = Len(s) + 1
         /\ DOMAIN Append(s, e) = DOMAIN s \cup {Len(s) + 1}
         /\ \A i \in DOMAIN s : i \in 1..Len(s) /\ Append(s, e)[i] = s[i]
         /\ Append(s, e)[Len(s) + 1] = e
  OBVIOUS

(* When the spawner dies nothing of a connection changes but its context.  *)
LEMMA DeadConns ==
  ASSUME TypeOK
  PROVE  /\ AllDead \in Seq(Connections) /\ Len(AllDead) = Len(conns)
         /\ DOMAIN AllDead = DOMAIN conns
         /\ \A c \in DOMAIN conns :
              /\ ~AllDead[c].alive /\ AllDead[c].client = conns[c].client
              /\ AllDead[c].sock = conns[c].sock
              /\ AllDead[c].rpc = conns[c].rpc /\ AllDead[c].read = conns[c].read
              /\ AllDead[c].hpc = conns[c].hpc /\ AllDead[c].packet = conns[c].packet
  <1>1. conns \in Seq(Connections)
    BY DEF TypeOK
  <1>2. \A c \in DOMAIN conns : [conns[c] EXCEPT !.alive = FALSE] \in Connections
    <2> SUFFICES ASSUME NEW c \in DOMAIN conns
                 PROVE  [conns[c] EXCEPT !.alive = FALSE] \in Connections
      OBVIOUS
    <2>1. conns[c] \in Connections
      BY <1>1
    <2>2. QED BY <2>1 DEF Connections
  <1>3. AllDead \in Seq(Connections) /\ Len(AllDead) = Len(conns) /\ DOMAIN AllDead = DOMAIN conns
    <2>1. DOMAIN conns = 1..Len(conns) /\ Len(conns) \in Nat
      BY <1>1
    <2>2. AllDead \in [1..Len(conns) -> Connections]
      BY <1>2, <2>1 DEF AllDead
    <2>3. QED BY <2>1, <2>2
  <1>4. \A c \in DOMAIN conns : conns[c] \in Connections
    BY <1>1
  <1>5. QED BY <1>3, <1>4 DEF AllDead, Connections

LEMMA InitInv == Init => PathInv
  <1> SUFFICES ASSUME Init PROVE PathInv
    OBVIOUS
  <1>1. TypeOK
    BY BoundsAssumption DEF Init, TypeOK
  <1>2. Sockets /\ LiveKeepsSocket /\ Order
    BY DEF Init, Sockets, LiveKeepsSocket, Order
  <1>3. QED BY <1>1, <1>2 DEF PathInv

-----------------------------------------------------------------------------
(* What a connection does with its own record leaves the sockets alone.    *)

LEMMA ConnFrame ==
  ASSUME PathInv, NEW c \in DOMAIN conns, NEW r \in Connections,
         r.sock = conns[c].sock, r.alive => conns[c].alive,
         conns' = [conns EXCEPT ![c] = r],
         UNCHANGED <<alive, sock, open, listenVars>>
  PROVE  /\ conns' \in Seq(Connections) /\ id' \in 0..Len(conns')
         /\ Sockets' /\ LiveKeepsSocket'
         /\ DOMAIN conns' = DOMAIN conns
         /\ \A d \in DOMAIN conns : conns'[d] = IF d = c THEN r ELSE conns[d]
         /\ \A d \in DOMAIN conns : (Usable(d))' <=> Usable(d)
  <1>1. conns \in Seq(Connections) /\ id \in 0..Len(conns)
    BY DEF PathInv, TypeOK
  <1>2. /\ conns' \in Seq(Connections) /\ Len(conns') = Len(conns)
        /\ DOMAIN conns' = DOMAIN conns
        /\ \A d \in DOMAIN conns : conns'[d] = IF d = c THEN r ELSE conns[d]
    BY <1>1, SeqExcept
  <1>3. Sockets'
    BY <1>2 DEF PathInv, Sockets, listenVars
  <1>4. \A d \in DOMAIN conns : (Usable(d))' <=> Usable(d)
    BY <1>2 DEF Usable
  <1>5. LiveKeepsSocket'
    BY <1>2, <1>4 DEF PathInv, LiveKeepsSocket
  <1>6. QED BY <1>1, <1>2, <1>3, <1>4, <1>5 DEF listenVars

(* A connection that takes up no datagram disturbs no order.               *)
LEMMA QuietInv ==
  ASSUME PathInv, NEW c \in DOMAIN conns, NEW r \in Connections,
         r.sock = conns[c].sock, r.alive => conns[c].alive,
         r.read = conns[c].read, r.packet = conns[c].packet,
         r.rpc = "offering" => conns[c].rpc = "offering",
         r.hpc \in {"asking", "writing"} => conns[c].hpc \in {"asking", "writing"},
         conns' = [conns EXCEPT ![c] = r],
         UNCHANGED <<alive, sockVars, listenVars, out>>
  PROVE  PathInv'
  <1>1. UNCHANGED <<alive, sock, open, arrived, buffer, lpc, first, id, out>>
    BY DEF sockVars, listenVars
  <1>2. /\ conns' \in Seq(Connections) /\ id' \in 0..Len(conns')
        /\ Sockets' /\ LiveKeepsSocket'
        /\ DOMAIN conns' = DOMAIN conns
        /\ \A d \in DOMAIN conns : conns'[d] = IF d = c THEN r ELSE conns[d]
        /\ \A d \in DOMAIN conns : (Usable(d))' <=> Usable(d)
    BY <1>1, ConnFrame DEF listenVars
  <1>3. TypeOK'
    BY <1>1, <1>2 DEF PathInv, TypeOK
  <1>4. Order'
    BY <1>1, <1>2 DEF PathInv, Order, Ahead, Unsent
  <1>5. QED BY <1>2, <1>3, <1>4 DEF PathInv

(* The client's or the server's next datagram is behind all that were read *)
(* from this socket.                                                       *)
LEMMA ReceiveInv ==
  ASSUME PathInv, NEW c \in DOMAIN conns, Receive(c)
  PROVE  PathInv'
  <1> DEFINE d == Head(buffer)
             r == IF d.from \in {conns[c].client, Server}
                  THEN [conns[c] EXCEPT !.rpc = "offering", !.read = d]
                  ELSE [conns[c] EXCEPT !.rpc = "looping"]
  <1>1. conns \in Seq(Connections) /\ conns[c] \in Connections /\ buffer \in Seq(Datagrams)
    BY DEF PathInv, TypeOK
  <1>2. /\ buffer' \in Seq(Datagrams) /\ d \in Datagrams /\ 1 \in DOMAIN buffer /\ d = buffer[1]
        /\ \A i \in DOMAIN buffer' :
             i \in Nat /\ i + 1 \in DOMAIN buffer /\ buffer'[i] = buffer[i + 1]
        /\ \A i \in DOMAIN buffer' : 1 < i + 1
    BY <1>1, SeqTail DEF Receive
  <1>3. r \in Connections
    BY <1>1, <1>2 DEF Connections
  <1>4. /\ r.sock = conns[c].sock /\ r.alive = conns[c].alive
        /\ r.hpc = conns[c].hpc /\ r.packet = conns[c].packet
        /\ r.rpc = "offering" => r.read = d
    BY <1>1 DEF Connections
  <1>5. conns' = [conns EXCEPT ![c] = r]
    BY DEF Receive
  <1>6. UNCHANGED <<alive, sock, open, arrived, lpc, first, id, out>> /\ Usable(c)
    BY DEF Receive, listenVars
  <1> HIDE DEF r, d
  <1>7. /\ conns' \in Seq(Connections) /\ id' \in 0..Len(conns')
        /\ Sockets' /\ LiveKeepsSocket'
        /\ DOMAIN conns' = DOMAIN conns
        /\ \A e \in DOMAIN conns : conns'[e] = IF e = c THEN r ELSE conns[e]
        /\ \A e \in DOMAIN conns : (Usable(e))' <=> Usable(e)
    BY <1>3, <1>4, <1>5, <1>6, ConnFrame DEF listenVars
  <1>8. TypeOK'
    BY <1>2, <1>6, <1>7 DEF PathInv, TypeOK
  <1>9. Order'
    <2> USE <1>1, <1>2, <1>6 DEF PathInv
    <2>1. \A x \in Hosts : \A i, j \in DOMAIN out'[x] :
            out'[x][i].num <= arrived' /\ (i < j => out'[x][i].num < out'[x][j].num)
      BY DEF Order
    <2>2. \A i, j \in DOMAIN buffer' :
            /\ buffer'[i].num <= arrived' /\ Unsent(buffer'[i])
            /\ i < j => buffer'[i].num < buffer'[j].num
      BY DEF Order
    <2>3. \A i \in DOMAIN buffer' : d.num < buffer'[i].num
      BY DEF Order
    <2>4. d.num <= arrived' /\ Unsent(d)
      BY DEF Order
    <2>5. lpc \notin {"got", "making"}
      BY DEF Sockets, Usable
    <2>6. \A e \in DOMAIN conns : Usable(e) => e = c
      BY DEF Sockets, Usable
    <2>7. conns[c].hpc \in {"asking", "writing"} =>
            Ahead(conns[c].packet) /\ conns[c].packet.num < d.num
      BY DEF Order, Ahead
    <2>8. conns[c].packet.num \in Nat /\ \A i \in DOMAIN buffer : buffer[i].num \in Nat
      <3>1. conns[c].packet \in Datagrams /\ \A i \in DOMAIN buffer : buffer[i] \in Datagrams
        BY DEF Connections
      <3>2. QED BY <3>1, NumNat
    <2>9. conns[c].hpc \in {"asking", "writing"} =>
            /\ conns[c].packet.num <= arrived' /\ Unsent(conns[c].packet)
            /\ \A i \in DOMAIN buffer' : conns[c].packet.num < buffer'[i].num
      BY <2>7 DEF Ahead
    <2>10. QED
      BY <1>4, <1>7, <2>1, <2>2, <2>3, <2>4, <2>5, <2>6, <2>7, <2>8, <2>9 DEF Order, Ahead, Unsent
  <1>10. QED BY <1>7, <1>8, <1>9 DEF PathInv

(* handlePacket takes what listen offers: it has sent what it took before. *)
LEMMA TakeInv ==
  ASSUME PathInv, NEW c \in DOMAIN conns, HandleTake(c)
  PROVE  PathInv'
  <1> DEFINE r == [conns[c] EXCEPT !.hpc = "asking", !.packet = conns[c].read, !.rpc = "looping"]
  <1>1. conns \in Seq(Connections) /\ conns[c] \in Connections
    BY DEF PathInv, TypeOK
  <1>2. /\ r \in Connections /\ r.sock = conns[c].sock /\ r.alive = conns[c].alive
        /\ r.rpc = "looping" /\ r.packet = conns[c].read
    BY <1>1 DEF Connections
  <1>3. conns' = [conns EXCEPT ![c] = r] /\ conns[c].rpc = "offering"
    BY <1>1 DEF HandleTake, Connections
  <1>4. UNCHANGED <<alive, sock, open, arrived, buffer, lpc, first, id, out>>
    BY DEF HandleTake, sockVars, listenVars
  <1> HIDE DEF r
  <1>5. /\ conns' \in Seq(Connections) /\ id' \in 0..Len(conns')
        /\ Sockets' /\ LiveKeepsSocket'
        /\ DOMAIN conns' = DOMAIN conns
        /\ \A e \in DOMAIN conns : conns'[e] = IF e = c THEN r ELSE conns[e]
        /\ \A e \in DOMAIN conns : (Usable(e))' <=> Usable(e)
    BY <1>2, <1>3, <1>4, ConnFrame DEF listenVars
  <1>6. TypeOK'
    BY <1>4, <1>5 DEF PathInv, TypeOK
  <1>7. Order'
    BY <1>2, <1>3, <1>4, <1>5 DEF PathInv, Order, Ahead, Unsent
  <1>8. QED BY <1>5, <1>6, <1>7 DEF PathInv

(* It writes what is behind all that was sent, and ahead of all that is on *)
(* its way.                                                                *)
LEMMA WriteInv ==
  ASSUME PathInv, NEW c \in DOMAIN conns, HandleWrite(c)
  PROVE  PathInv'
  <1> DEFINE r == [conns[c] EXCEPT !.hpc = "select"]
             d == conns[c].packet
             t == Target(c)
  <1>1. conns \in Seq(Connections) /\ conns[c] \in Connections /\ out \in [Hosts -> Seq(Datagrams)]
    BY DEF PathInv, TypeOK
  <1>2. /\ r \in Connections /\ r.sock = conns[c].sock /\ r.alive = conns[c].alive
        /\ r.rpc = conns[c].rpc /\ r.read = conns[c].read /\ r.hpc = "select"
        /\ d \in Datagrams /\ t \in Hosts
    BY <1>1 DEF Connections, Target, Hosts
  <1>3. /\ conns' = [conns EXCEPT ![c] = r] /\ conns[c].hpc = "writing" /\ Usable(c)
        /\ out' = [out EXCEPT ![t] = Append(out[t], d)]
    BY DEF HandleWrite, HandleGo
  <1>4. UNCHANGED <<alive, sock, open, arrived, buffer, lpc, first, id>>
    BY DEF HandleWrite, sockVars, listenVars
  <1> HIDE DEF r, d, t
  <1>5. /\ conns' \in Seq(Connections) /\ id' \in 0..Len(conns')
        /\ Sockets' /\ LiveKeepsSocket'
        /\ DOMAIN conns' = DOMAIN conns
        /\ \A e \in DOMAIN conns : conns'[e] = IF e = c THEN r ELSE conns[e]
        /\ \A e \in DOMAIN conns : (Usable(e))' <=> Usable(e)
    BY <1>2, <1>3, <1>4, ConnFrame DEF listenVars
  <1>6. /\ out' \in [Hosts -> Seq(Datagrams)]
        /\ DOMAIN out'[t] = DOMAIN out[t] \cup {Len(out[t]) + 1}
        /\ \A i \in DOMAIN out[t] : i \in 1..Len(out[t]) /\ out'[t][i] = out[t][i]
        /\ out'[t][Len(out[t]) + 1] = d
        /\ \A x \in Hosts : x # t => out'[x] = out[x]
    BY <1>1, <1>2, <1>3, SeqAppend
  <1>7. TypeOK'
    BY <1>4, <1>5, <1>6 DEF PathInv, TypeOK
  <1>8. Order'
    <2>1. Ahead(d) /\ (conns[c].rpc = "offering" => d.num < conns[c].read.num)
      BY <1>3 DEF PathInv, Order, d
    <2>2. \A x \in Hosts : \A i, j \in DOMAIN out'[x] :
            out'[x][i].num <= arrived' /\ (i < j => out'[x][i].num < out'[x][j].num)
      <3> SUFFICES ASSUME NEW x \in Hosts, NEW i \in DOMAIN out'[x], NEW j \in DOMAIN out'[x]
                   PROVE  out'[x][i].num <= arrived' /\ (i < j => out'[x][i].num < out'[x][j].num)
        OBVIOUS
      <3>1. CASE x # t
        BY <1>4, <1>6, <3>1 DEF PathInv, Order
      <3>2. CASE x = t /\ i \in DOMAIN out[t] /\ j \in DOMAIN out[t]
        BY <1>2, <1>4, <1>6, <3>2 DEF PathInv, Order
      <3>3. CASE x = t /\ i \in DOMAIN out[t] /\ j = Len(out[t]) + 1
        BY <1>2, <1>4, <1>6, <2>1, <3>3 DEF PathInv, Order, Ahead, Unsent
      <3>4. CASE x = t /\ i = Len(out[t]) + 1
        <4>1. Len(out[t]) \in Nat
          BY <1>1, <1>2
        <4>2. ~(i < j)
          BY <1>6, <3>4, <4>1
        <4>3. QED BY <1>4, <1>6, <2>1, <3>4, <4>2 DEF Ahead
      <3>5. QED BY <1>6, <3>1, <3>2, <3>3, <3>4
    <2>3. \A e \in Datagrams : Unsent(e) /\ d.num < e.num => (Unsent(e))'
      BY <1>2, <1>6 DEF Unsent
    <2>4. \A i \in DOMAIN buffer :
            buffer[i] \in Datagrams /\ Unsent(buffer[i]) /\ d.num < buffer[i].num
      BY <2>1 DEF PathInv, TypeOK, Order, Ahead
    <2>5. \A i, j \in DOMAIN buffer' :
            /\ buffer'[i].num <= arrived' /\ (Unsent(buffer[i]))'
            /\ i < j => buffer'[i].num < buffer'[j].num
      BY <1>4, <2>3, <2>4 DEF PathInv, Order
    <2>6. lpc' \notin {"got", "making"}
      BY <1>3, <1>4 DEF PathInv, Sockets, Usable
    <2>7. \A e \in DOMAIN conns : Usable(e) => e = c
      BY <1>3 DEF PathInv, Sockets, Usable
    <2>8. ASSUME conns[c].rpc = "offering", NEW e \in Datagrams, e = conns[c].read
          PROVE  /\ e.num <= arrived' /\ (Unsent(e))'
                 /\ \A i \in DOMAIN buffer' : e.num < buffer'[i].num
      BY <1>3, <1>4, <2>1, <2>3, <2>8 DEF PathInv, Order, Ahead
    <2>9. conns[c].read \in Datagrams
      BY <1>1 DEF Connections
    <2>10. QED
      BY <1>2, <1>5, <2>2, <2>5, <2>6, <2>7, <2>8, <2>9 DEF Order, Ahead, Unsent
  <1>9. QED BY <1>5, <1>7, <1>8 DEF PathInv

LEMMA ConnInv ==
  ASSUME PathInv, NEW c \in DOMAIN conns, ConnStep(c)
  PROVE  PathInv'
  <1>1. conns[c] \in Connections
    BY DEF PathInv, TypeOK
  <1>2. ASSUME NEW rpc \in {"looping", "reading", "ended"}, NEW up \in BOOLEAN,
               up => conns[c].alive,
               conns' = [conns EXCEPT ![c].rpc = rpc, ![c].alive = up],
               UNCHANGED <<alive, sockVars, listenVars, out>>
        PROVE  PathInv'
    <2> DEFINE r == [conns[c] EXCEPT !.rpc = rpc, !.alive = up]
    <2>1. /\ r \in Connections /\ r.sock = conns[c].sock /\ (r.alive => conns[c].alive)
          /\ r.read = conns[c].read /\ r.packet = conns[c].packet
          /\ r.rpc # "offering" /\ r.hpc = conns[c].hpc
      BY <1>1, <1>2 DEF Connections
    <2>2. conns' = [conns EXCEPT ![c] = r]
      BY <1>1, <1>2 DEF Connections
    <2> HIDE DEF r
    <2>3. QED BY <1>2, <2>1, <2>2, QuietInv
  <1>3. ASSUME NEW hpc \in {"select", "asking", "writing", "exited"}, NEW up \in BOOLEAN,
               up => conns[c].alive,
               hpc \in {"asking", "writing"} => conns[c].hpc \in {"asking", "writing"},
               conns' = [conns EXCEPT ![c].hpc = hpc, ![c].alive = up],
               UNCHANGED <<alive, sockVars, listenVars, out>>
        PROVE  PathInv'
    <2> DEFINE r == [conns[c] EXCEPT !.hpc = hpc, !.alive = up]
    <2>1. /\ r \in Connections /\ r.sock = conns[c].sock /\ (r.alive => conns[c].alive)
          /\ r.read = conns[c].read /\ r.packet = conns[c].packet
          /\ r.rpc = "offering" => conns[c].rpc = "offering"
          /\ r.hpc \in {"asking", "writing"} => conns[c].hpc \in {"asking", "writing"}
      BY <1>1, <1>3 DEF Connections
    <2>2. conns' = [conns EXCEPT ![c] = r]
      BY <1>1, <1>3 DEF Connections
    <2> HIDE DEF r
    <2>3. QED BY <1>3, <2>1, <2>2, QuietInv
  <1>4. CASE ListenCheck(c)
    BY <1>1, <1>2, <1>4 DEF ListenCheck, ListenGo, Connections
  <1>5. CASE Receive(c)
    BY <1>5, ReceiveInv
  <1>6. CASE ReceiveTimeout(c)
    BY <1>1, <1>2, <1>6 DEF ReceiveTimeout, ListenGo, Connections
  <1>7. CASE ReceiveError(c)
    BY <1>1, <1>2, <1>7 DEF ReceiveError, Connections
  <1>8. CASE HandleTake(c)
    BY <1>8, TakeInv
  <1>9. CASE HandleExit(c)
    BY <1>1, <1>3, <1>9 DEF HandleExit, HandleGo, Connections
  <1>10. ASSUME NEW send \in BOOLEAN, HandleVerdict(c, send) PROVE PathInv'
    <2>1. conns[c].alive \in BOOLEAN /\ conns[c].hpc = "asking"
      BY <1>1, <1>10 DEF HandleVerdict, HandleGo, Connections
    <2>2. PICK hpc \in {"select", "writing"} : conns' = [conns EXCEPT ![c].hpc = hpc]
      BY <1>10 DEF HandleVerdict, HandleGo
    <2>3. conns' = [conns EXCEPT ![c].hpc = hpc, ![c].alive = conns[c].alive]
      BY <1>1, <2>2 DEF Connections
    <2>4. UNCHANGED <<alive, sockVars, listenVars, out>>
      BY <1>10 DEF HandleVerdict
    <2>5. QED BY <1>3, <2>1, <2>3, <2>4
  <1>11. CASE HandleWrite(c)
    BY <1>11, WriteInv
  <1>12. CASE HandleWriteFailed(c)
    BY <1>1, <1>3, <1>12 DEF HandleWriteFailed, HandleGo, Connections
  <1>13. CASE CloseProxy(c)
    BY <1>1, <1>3, <1>13 DEF CloseProxy, Connections
  <1>14. QED
    BY <1>4, <1>5, <1>6, <1>7, <1>8, <1>9, <1>10, <1>11, <1>12, <1>13 DEF ConnStep

-----------------------------------------------------------------------------
(* A datagram arrives behind all the others.                               *)
LEMMA ArriveInv ==
  ASSUME PathInv, NEW x \in Hosts, Arrive(x)
  PROVE  PathInv'
  <1> DEFINE d == [from |-> x, num |-> arrived']
  <1>1. UNCHANGED <<alive, sock, open, lpc, first, id, conns, out>>
    BY DEF Arrive, listenVars
  <1>2. /\ arrived' = arrived + 1 /\ arrived \in 0..MaxDatagrams /\ arrived' \in 0..MaxDatagrams
        /\ d \in Datagrams /\ d.num = arrived'
    BY BoundsAssumption DEF PathInv, TypeOK, Arrive, Datagrams
  <1>3. buffer' = buffer \/ buffer' = Append(buffer, d)
    BY DEF Arrive
  <1> HIDE DEF d
  <1>4. buffer \in Seq(Datagrams)
    BY DEF PathInv, TypeOK
  <1>5. /\ buffer' \in Seq(Datagrams)
        /\ \A i \in DOMAIN buffer' :
             \/ i \in DOMAIN buffer /\ i \in 1..Len(buffer) /\ buffer'[i] = buffer[i]
             \/ i = Len(buffer) + 1 /\ buffer'[i] = d
    <2>1. CASE buffer' = buffer
      BY <1>4, <2>1
    <2>2. CASE buffer' = Append(buffer, d)
      BY <1>2, <1>4, <2>2, SeqAppend
    <2>3. QED BY <1>3, <2>1, <2>2
  <1>6. TypeOK' /\ Sockets' /\ LiveKeepsSocket'
    BY <1>1, <1>2, <1>5 DEF PathInv, TypeOK, Sockets, LiveKeepsSocket, Usable
  <1>7. Order'
    <2>1. \A e \in Datagrams : Ahead(e) => (Ahead(e))'
      <3> SUFFICES ASSUME NEW e \in Datagrams, Ahead(e) PROVE (Ahead(e))'
        OBVIOUS
      <3>1. e.num \in Nat
        BY NumNat
      <3>2. QED BY <1>1, <1>2, <1>5, <3>1 DEF Ahead, Unsent
    <2>2. \A y \in Hosts : \A i, j \in DOMAIN out'[y] :
            /\ out'[y][i].num <= arrived' /\ out'[y][i].num < arrived'
            /\ i < j => out'[y][i].num < out'[y][j].num
      <3>1. \A y \in Hosts : \A i \in DOMAIN out[y] : out[y][i] \in Datagrams
        BY DEF PathInv, TypeOK
      <3>2. \A y \in Hosts : \A i \in DOMAIN out[y] : out[y][i].num \in Nat
        BY <3>1, NumNat
      <3>3. QED BY <1>1, <1>2, <3>2 DEF PathInv, Order
    <2>3. \A i, j \in DOMAIN buffer' :
            /\ buffer'[i].num <= arrived' /\ (Unsent(buffer[i]))'
            /\ i < j => buffer'[i].num < buffer'[j].num
      <3>1. \A i \in DOMAIN buffer : buffer[i] \in Datagrams
        BY <1>4
      <3>2. \A i \in DOMAIN buffer : buffer[i].num \in Nat
        BY <3>1, NumNat
      <3>3. Len(buffer) \in Nat
        BY <1>4
      <3>4. QED BY <1>1, <1>2, <1>5, <2>2, <3>2, <3>3 DEF PathInv, Order, Unsent
    <2>4. \A c \in DOMAIN conns : conns[c].read \in Datagrams /\ conns[c].packet \in Datagrams
      <3>1. \A c \in DOMAIN conns : conns[c] \in Connections
        BY DEF PathInv, TypeOK
      <3>2. QED BY <3>1 DEF Connections
    <2>5. QED
      BY <1>1, <2>1, <2>2, <2>3, <2>4 DEF PathInv, Order, Usable
  <1>8. QED BY <1>6, <1>7 DEF PathInv

(* The spawner dies: the connections go where they would have gone.        *)
LEMMA DeadInv ==
  ASSUME PathInv, conns' = AllDead, alive' = FALSE,
         UNCHANGED <<sockVars, first, id, out>>,
         lpc' = lpc \/ (lpc = "closed" /\ lpc' = "ended")
  PROVE  PathInv'
  <1>1. UNCHANGED <<sock, open, arrived, buffer, first, id, out>>
    BY DEF sockVars
  <1>2. /\ conns' \in Seq(Connections) /\ Len(conns') = Len(conns) /\ DOMAIN conns' = DOMAIN conns
        /\ \A c \in DOMAIN conns :
             /\ ~conns'[c].alive
             /\ conns'[c].sock = conns[c].sock
             /\ conns'[c].rpc = conns[c].rpc /\ conns'[c].read = conns[c].read
             /\ conns'[c].hpc = conns[c].hpc /\ conns'[c].packet = conns[c].packet
    BY DeadConns DEF PathInv
  <1>3. TypeOK' /\ LiveKeepsSocket'
    BY <1>1, <1>2 DEF PathInv, TypeOK, LiveKeepsSocket
  <1>4. Sockets'
    BY <1>1, <1>2 DEF PathInv, Sockets
  <1>5. Order'
    BY <1>1, <1>2 DEF PathInv, Order, Ahead, Unsent, Usable
  <1>6. QED BY <1>3, <1>4, <1>5 DEF PathInv

-----------------------------------------------------------------------------
(* The listener moves on without touching its socket, or forgets an id.    *)
LEMMA MoveInv ==
  ASSUME PathInv, lpc \notin {"closed", "ended"}, id' \in {0, id},
         \/ lpc = "loop" /\ id = 0 /\ lpc' = "reading"
                         /\ \A c \in DOMAIN conns : conns[c].sock # sock
         \/ lpc \in {"reading", "got"} /\ lpc' = "loop"
         \/ lpc = "got" /\ lpc' = "making"
         \/ lpc = "loop" /\ id' = id /\ lpc' \in {"looking", "ended"}
         \/ lpc = "looking" /\ id' = id /\ lpc' = "loop",
         first' \in {first, <<>>}, lpc' = "making" => first' = first,
         UNCHANGED <<alive, sockVars, conns, out>>
  PROVE  PathInv'
  <1>1. UNCHANGED <<alive, sock, open, arrived, buffer, conns, out>>
    BY DEF sockVars
  <1>2. TypeOK' /\ LiveKeepsSocket'
    BY <1>1 DEF PathInv, TypeOK, LiveKeepsSocket, Usable
  <1>3. Sockets'
    BY <1>1 DEF PathInv, Sockets
  <1>4. Order'
    BY <1>1 DEF PathInv, Order, Ahead, Unsent, Usable
  <1>5. QED BY <1>2, <1>3, <1>4 DEF PathInv

(* It closes the socket only when it knows its connection to be dead, and  *)
(* no other one has that socket.                                           *)
LEMMA CloseInv ==
  ASSUME PathInv, LoopClose
  PROVE  PathInv'
  <1>1. /\ UNCHANGED <<alive, sock, arrived, first, id, conns, out>>
        /\ buffer' = <<>> /\ buffer' \in Seq(Datagrams) /\ open' = FALSE /\ lpc' = "closed"
    BY DEF LoopClose
  <1>2. \A c \in DOMAIN conns : ~conns[c].alive
    BY DEF PathInv, Sockets, LiveKeepsSocket, Usable, LoopClose, ConnGone
  <1>3. TypeOK' /\ LiveKeepsSocket'
    <2>1. TypeOK'
      BY <1>1 DEF PathInv, TypeOK
    <2>2. LiveKeepsSocket'
      BY <1>1, <1>2 DEF LiveKeepsSocket
    <2>3. QED BY <2>1, <2>2
  <1>4. Sockets'
    BY <1>1 DEF PathInv, Sockets, LoopClose
  <1>5. Order'
    BY <1>1 DEF PathInv, Order, Ahead, Unsent, Usable, LoopClose
  <1>6. QED BY <1>3, <1>4, <1>5 DEF PathInv

(* Nobody has the socket that it opens.                                    *)
LEMMA ReopenInv ==
  ASSUME PathInv, Reopen
  PROVE  PathInv'
  <1>1. UNCHANGED <<alive, arrived, buffer, first, conns, out>> /\ sock' = sock + 1 /\ sock \in Nat
    BY DEF PathInv, TypeOK, Reopen, NewSocket
  <1>2. \A c \in DOMAIN conns : ~conns[c].alive /\ conns[c].sock # sock'
    <2>1. \A c \in DOMAIN conns : ~conns[c].alive
      BY DEF PathInv, Sockets, LiveKeepsSocket, Usable, Reopen
    <2>2. \A c \in DOMAIN conns : conns[c] \in Connections
      BY DEF PathInv, TypeOK
    <2>3. \A c \in DOMAIN conns : conns[c].sock \in Nat /\ conns[c].sock <= sock
      BY <2>2 DEF PathInv, Sockets, Connections
    <2>4. QED BY <1>1, <2>1, <2>3
  <1>3. TypeOK' /\ LiveKeepsSocket'
    BY <1>1, <1>2 DEF PathInv, TypeOK, LiveKeepsSocket, Reopen
  <1>4. Sockets'
    <2>1. \A c \in DOMAIN conns : conns[c] \in Connections
      BY DEF PathInv, TypeOK
    <2>2. \A c \in DOMAIN conns : conns[c].sock <= sock'
      BY <1>1, <2>1 DEF PathInv, Sockets, Connections
    <2>3. QED BY <1>1, <1>2, <2>2 DEF PathInv, Sockets, Reopen
  <1>5. Order'
    BY <1>1, <1>2 DEF PathInv, Order, Ahead, Unsent, Usable, Reopen
  <1>6. QED BY <1>3, <1>4, <1>5 DEF PathInv

(* What it reads itself is behind what its last connection has sent.       *)
LEMMA ListenerReadInv ==
  ASSUME PathInv, ListenerRead
  PROVE  PathInv'
  <1> DEFINE d == Head(buffer)
  <1>1. buffer \in Seq(Datagrams) /\ buffer # <<>>
    BY DEF PathInv, TypeOK, ListenerRead
  <1>2. /\ buffer' \in Seq(Datagrams) /\ d \in Datagrams /\ 1 \in DOMAIN buffer /\ d = buffer[1]
        /\ \A i \in DOMAIN buffer' :
             i \in Nat /\ i + 1 \in DOMAIN buffer /\ buffer'[i] = buffer[i + 1]
        /\ \A i \in DOMAIN buffer' : 1 < i + 1
    BY <1>1, SeqTail DEF ListenerRead
  <1>3. /\ UNCHANGED <<alive, sock, open, arrived, id, conns, out>> /\ lpc = "reading"
        /\ \/ lpc' = "loop" /\ first' = first
           \/ lpc' = "got" /\ first' = d /\ d.from # Server
    BY DEF ListenerRead
  <1> HIDE DEF d
  <1>4. TypeOK' /\ LiveKeepsSocket'
    BY <1>2, <1>3 DEF PathInv, TypeOK, LiveKeepsSocket, Usable
  <1>5. Sockets'
    BY <1>3 DEF PathInv, Sockets
  <1>6. Order'
    <2>1. d.num <= arrived /\ Unsent(d) /\ \A i \in DOMAIN buffer' : d.num < buffer'[i].num
      BY <1>2 DEF PathInv, Order
    <2>2. \A i, j \in DOMAIN buffer' :
            /\ buffer'[i].num <= arrived /\ Unsent(buffer'[i])
            /\ i < j => buffer'[i].num < buffer'[j].num
      BY <1>2 DEF PathInv, Order
    <2>3. \A c \in DOMAIN conns : ~Usable(c)
      BY <1>3 DEF PathInv, Sockets, Usable
    <2>4. QED
      BY <1>2, <1>3, <2>1, <2>2, <2>3 DEF PathInv, Order, Ahead, Unsent, Usable
  <1>7. QED BY <1>4, <1>5, <1>6 DEF PathInv

(* The new connection has the latest socket to itself, and the first       *)
(* datagram of its client.                                                 *)
LEMMA AddConnectionInv ==
  ASSUME PathInv, AddConnection
  PROVE  PathInv'
  <1> DEFINE n == Len(conns) + 1
             r == [client |-> first.from, sock |-> sock, alive |-> alive,
                   rpc |-> "offering", read |-> first, hpc |-> "select", packet |-> first]
  <1>1. /\ conns \in Seq(Connections) /\ sock \in Nat /\ alive \in BOOLEAN
        /\ first \in Datagrams /\ first.from \in Clients /\ Ahead(first) /\ lpc = "making"
    BY DEF PathInv, TypeOK, Order, AddConnection, Datagrams, Hosts
  <1>2. /\ r \in Connections /\ r.sock = sock /\ r.alive = alive
        /\ r.hpc = "select" /\ r.read = first
    BY <1>1 DEF Connections
  <1>3. /\ conns' = Append(conns, r) /\ lpc' = "adding" /\ first' = <<>>
        /\ UNCHANGED <<alive, sock, open, arrived, buffer, id, out>>
    BY DEF AddConnection, sockVars
  <1>4. Len(conns) \in Nat /\ DOMAIN conns = 1..Len(conns) /\ n \notin DOMAIN conns
    BY <1>1
  <1> HIDE DEF r
  <1>5. /\ conns' \in Seq(Connections) /\ Len(conns') = n
        /\ DOMAIN conns' = DOMAIN conns \cup {n}
        /\ \A c \in DOMAIN conns : conns'[c] = conns[c]
        /\ conns'[n] = r
    BY <1>1, <1>2, <1>3, SeqAppend
  <1>6. id = 0 /\ open /\ \A c \in DOMAIN conns : conns[c].sock # sock /\ conns[c].sock <= sock
    BY <1>1 DEF PathInv, Sockets
  <1> HIDE DEF n
  <1>7. TypeOK'
    <2>1. id' \in 0..Len(conns')
      BY <1>3, <1>4, <1>5, <1>6 DEF n
    <2>2. QED BY <1>3, <1>5, <2>1 DEF PathInv, TypeOK
  <1>8. Sockets'
    BY <1>1, <1>2, <1>3, <1>4, <1>5, <1>6 DEF PathInv, Sockets
  <1>9. LiveKeepsSocket'
    BY <1>2, <1>3, <1>5, <1>6 DEF PathInv, LiveKeepsSocket, Usable
  <1>10. Order'
    BY <1>1, <1>2, <1>3, <1>5, <1>6 DEF PathInv, Order, Ahead, Unsent, Usable
  <1>11. QED BY <1>7, <1>8, <1>9, <1>10 DEF PathInv

(* It learns the id of the connection it made last.                        *)
LEMMA AddedInv ==
  ASSUME PathInv, Added
  PROVE  PathInv'
  <1>1. UNCHANGED <<alive, sock, open, arrived, buffer, first, conns, out>>
    BY DEF Added, sockVars
  <1>2. conns \in Seq(Connections) /\ Len(conns) \in Nat /\ id' = Len(conns)
    BY DEF PathInv, TypeOK, Added, NewId
  <1>3. TypeOK' /\ LiveKeepsSocket'
    BY <1>1, <1>2 DEF PathInv, TypeOK, LiveKeepsSocket, Usable, Added
  <1>4. Sockets'
    BY <1>1, <1>2 DEF PathInv, Sockets, Added
  <1>5. Order'
    BY <1>1 DEF PathInv, Order, Ahead, Unsent, Usable, Added
  <1>6. QED BY <1>3, <1>4, <1>5 DEF PathInv

LEMMA ListenerInv ==
  ASSUME PathInv, ListenerStep
  PROVE  PathInv'
  <1>1. CASE LoopEnd
    BY <1>1, MoveInv DEF LoopEnd
  <1>2. CASE LoopRead
    <2>1. \A c \in DOMAIN conns : conns[c].sock # sock
      BY <1>2 DEF PathInv, TypeOK, Sockets, LoopRead
    <2>2. QED BY <1>2, <2>1, MoveInv DEF LoopRead
  <1>3. CASE LoopClose
    BY <1>3, CloseInv
  <1>4. CASE Reopen
    BY <1>4, ReopenInv
  <1>5. CASE ReopenFailed
    BY <1>5, DeadInv DEF ReopenFailed
  <1>6. CASE ListenerRead
    BY <1>6, ListenerReadInv
  <1>7. CASE ReadNothing
    BY <1>7, MoveInv DEF ReadNothing
  <1>8. CASE AddRefused
    BY <1>8, MoveInv DEF AddRefused
  <1>9. CASE AddCheck
    BY <1>9, MoveInv DEF AddCheck
  <1>10. CASE AddConnection
    BY <1>10, AddConnectionInv
  <1>11. CASE Added
    BY <1>11, AddedInv
  <1>12. CASE LoopLook
    BY <1>12, MoveInv DEF LoopLook
  <1>13. CASE StillThere
    BY <1>13, MoveInv DEF StillThere
  <1>14. QED
    BY <1>1, <1>2, <1>3, <1>4, <1>5, <1>6, <1>7, <1>8, <1>9, <1>10, <1>11, <1>12, <1>13
       DEF ListenerStep, OwnStep, LockStep

LEMMA StutterInv ==
  ASSUME PathInv, UNCHANGED vars
  PROVE  PathInv'
  <1>1. UNCHANGED <<alive, sock, open, arrived, buffer, lpc, first, id, conns, out>>
    BY DEF vars, sockVars, listenVars
  <1>2. TypeOK' /\ Sockets' /\ LiveKeepsSocket'
    BY <1>1 DEF PathInv, TypeOK, Sockets, LiveKeepsSocket, Usable
  <1>3. Order'
    BY <1>1 DEF PathInv, Order, Ahead, Unsent, Usable
  <1>4. QED BY <1>2, <1>3 DEF PathInv

(* The listener closes only sockets of dead connections (LiveKeepsSocket), *)
(* and the datagrams on their way stay in order.                           *)
LEMMA PathStep ==
  ASSUME PathInv, [Next]_vars
  PROVE  PathInv'
  <1>1. CASE Shutdown
    BY <1>1, DeadInv DEF Shutdown, listenVars
  <1>2. CASE ListenerStep
    BY <1>2, ListenerInv
  <1>3. ASSUME NEW x \in Hosts, Arrive(x) PROVE PathInv'
    BY <1>3, ArriveInv
  <1>4. ASSUME NEW c \in DOMAIN conns, ConnStep(c) PROVE PathInv'
    BY <1>4, ConnInv
  <1>5. CASE UNCHANGED vars
    BY <1>5, StutterInv
  <1>6. QED BY <1>1, <1>2, <1>3, <1>4, <1>5 DEF Next

-----------------------------------------------------------------------------
(* A connection keeps its client, does not come to life again, and has     *)
(* nothing but what its client and the server sent.                        *)
LEMMA ConnKept ==
  ASSUME PathInv, NEW c \in DOMAIN conns, ConnStep(c)
  PROVE  /\ conns' \in Seq(Connections) /\ Len(conns') = Len(conns)
         /\ DOMAIN conns' = DOMAIN conns
         /\ \A e \in DOMAIN conns : e # c => conns'[e] = conns[e]
         /\ conns'[c].client = conns[c].client /\ (conns'[c].alive => conns[c].alive)
         /\ conns'[c].packet \in {conns[c].packet, conns[c].read}
         /\ \/ conns'[c].read = conns[c].read
            \/ conns'[c].read.from \in {conns[c].client, Server}
         /\ arrived' = arrived
  <1>1. conns \in Seq(Connections) /\ conns[c] \in Connections
    BY DEF PathInv, TypeOK
  <1> DEFINE Kept == /\ DOMAIN conns' = DOMAIN conns
                     /\ \A e \in DOMAIN conns : e # c => conns'[e] = conns[e]
                     /\ conns'[c].client = conns[c].client
                     /\ conns'[c].alive => conns[c].alive
                     /\ conns'[c].packet \in {conns[c].packet, conns[c].read}
                     /\ \/ conns'[c].read = conns[c].read
                        \/ conns'[c].read.from \in {conns[c].client, Server}
  <1>2. Kept
    <2> USE <1>1 DEF Connections, ListenGo, HandleGo
    <2>1. CASE ListenCheck(c)
      BY <2>1 DEF ListenCheck
    <2>2. CASE Receive(c)
      BY <2>2 DEF Receive
    <2>3. CASE ReceiveTimeout(c)
      BY <2>3 DEF ReceiveTimeout
    <2>4. CASE ReceiveError(c)
      BY <2>4 DEF ReceiveError
    <2>5. CASE HandleTake(c)
      BY <2>5 DEF HandleTake
    <2>6. CASE HandleExit(c)
      BY <2>6 DEF HandleExit
    <2>7. ASSUME NEW send \in BOOLEAN, HandleVerdict(c, send) PROVE Kept
      BY <2>7 DEF HandleVerdict
    <2>8. CASE HandleWrite(c)
      BY <2>8 DEF HandleWrite
    <2>9. CASE HandleWriteFailed(c)
      BY <2>9 DEF HandleWriteFailed
    <2>10. CASE CloseProxy(c)
      BY <2>10 DEF CloseProxy
    <2> HIDE DEF Kept
    <2>11. QED
      BY <2>1, <2>2, <2>3, <2>4, <2>5, <2>6, <2>7, <2>8, <2>9, <2>10 DEF ConnStep
  <1>3. conns' \in Seq(Connections)
    BY ConnInv DEF PathInv, TypeOK
  <1>4. Len(conns') = Len(conns)
    BY <1>1, <1>2, <1>3
  <1>5. arrived' = arrived
    BY DEF ConnStep, ListenCheck, Receive, ReceiveTimeout, ReceiveError, HandleTake,
           HandleExit, HandleVerdict, HandleWrite, HandleWriteFailed, CloseProxy, sockVars
  <1>6. QED BY <1>2, <1>3, <1>4, <1>5

(* The other steps leave the connections, end them, or make one that has   *)
(* its client's first datagram.                                            *)
LEMMA OtherStep ==
  ASSUME PathInv, [Next]_vars, \A c \in DOMAIN conns : ~ConnStep(c)
  PROVE  /\ out' = out
         /\ \/ conns' = conns
            \/ conns' = AllDead
            \/ AddConnection
         /\ arrived' = arrived \/ (arrived' = arrived + 1 /\ conns' = conns)
  <1>1. CASE Shutdown
    BY <1>1 DEF Shutdown, sockVars
  <1>2. CASE ListenerStep
    BY <1>2 DEF ListenerStep, OwnStep, LockStep, LoopEnd, LoopRead, LoopLook, StillThere,
       LoopClose, Reopen, ReopenFailed, ListenerRead,
       ReadNothing, AddRefused, AddCheck, AddConnection, Added, sockVars
  <1>3. ASSUME NEW x \in Hosts, Arrive(x)
        PROVE  out' = out /\ arrived' = arrived + 1 /\ conns' = conns
    BY <1>3 DEF Arrive
  <1>4. CASE UNCHANGED vars
    BY <1>4 DEF vars, sockVars
  <1>5. QED BY <1>1, <1>2, <1>3, <1>4 DEF Next

LEMMA RoutesStep ==
  ASSUME PathInv, Routes, [Next]_vars
  PROVE  Routes'
  <1>1. ASSUME NEW c \in DOMAIN conns, ConnStep(c) PROVE Routes'
    BY <1>1, ConnKept DEF Routes
  <1>2. CASE conns' = conns
    BY <1>2 DEF Routes
  <1>3. CASE conns' = AllDead
    <2>1. /\ DOMAIN AllDead = DOMAIN conns
          /\ \A c \in DOMAIN conns :
               /\ AllDead[c].client = conns[c].client
               /\ AllDead[c].read = conns[c].read /\ AllDead[c].packet = conns[c].packet
      BY DeadConns DEF PathInv
    <2>2. QED BY <1>3, <2>1 DEF Routes
  <1>4. CASE AddConnection
    <2> DEFINE r == [client |-> first.from, sock |-> sock, alive |-> alive,
                     rpc |-> "offering", read |-> first, hpc |-> "select", packet |-> first]
    <2>1. conns \in Seq(Connections) /\ conns' = Append(conns, r)
      BY <1>4 DEF PathInv, TypeOK, AddConnection
    <2>2. r.client = first.from /\ r.read = first /\ r.packet = first
      OBVIOUS
    <2> HIDE DEF r
    <2>3. /\ DOMAIN conns' = DOMAIN conns \cup {Len(conns) + 1}
          /\ \A c \in DOMAIN conns : conns'[c] = conns[c]
          /\ conns'[Len(conns) + 1] = r
      BY <2>1
    <2>4. QED BY <2>2, <2>3 DEF Routes
  <1>5. QED BY <1>1, <1>2, <1>3, <1>4, OtherStep

(* IInv is inductive: PathInv by itself, and Routes beside it.             *)
THEOREM Inductive == Spec => []IInv
  <1>1. Init => IInv
    BY InitInv DEF Init, IInv, Routes
  <1>2. IInv /\ [Next]_vars => IInv'
    BY PathStep, RoutesStep DEF IInv
  <1>3. QED BY <1>1, <1>2, PTL DEF Spec

(* Every variable of the listener and its connections keeps its type.      *)
THEOREM TypeCorrect == Spec => []TypeOK
  <1>1. IInv => TypeOK
    BY DEF IInv, PathInv
  <1>2. QED BY <1>1, Inductive, PTL

(* The listener never closes the socket under a living connection.         *)
THEOREM LiveSocket == Spec => []LiveKeepsSocket
  <1>1. IInv => LiveKeepsSocket
    BY DEF IInv, PathInv
  <1>2. QED BY <1>1, Inductive, PTL

(* No datagram leaves twice or out of order, however often clients are cut *)
(* off and come again.                                                     *)
THEOREM NoneOvertaken == Spec => []InOrder
  <1>1. IInv => InOrder
    BY DEF IInv, PathInv, Order, InOrder
  <1>2. QED BY <1>1, Inductive, PTL

(* A socket has one reader: the connections have one each, and the         *)
(* listener reads from the latest before it is anybody's.                  *)
THEOREM OneAtASocket == Spec => []OneReader
  <1>1. IInv => OneReader
    <2> SUFFICES ASSUME IInv, NEW s \in 1..sock PROVE Cardinality(Readers(s)) <= 1
      BY DEF OneReader
    <2>1. \A a, b \in Readers(s) : a = b
      BY DEF IInv, PathInv, TypeOK, Sockets, Readers
    <2>2. CASE Readers(s) = {}
      BY <2>2, FS_EmptySet
    <2>3. CASE Readers(s) # {}
      <3>1. PICK a \in Readers(s) : TRUE
        BY <2>3
      <3>2. Readers(s) = {a}
        BY <2>1, <3>1
      <3>3. Cardinality({a}) = 1
        BY FS_Singleton
      <3>4. Cardinality(Readers(s)) = 1
        BY <3>2, <3>3
      <3>5. QED BY <3>4
    <2>4. QED BY <2>2, <2>3
  <1>2. QED BY <1>1, Inductive, PTL

-----------------------------------------------------------------------------
(* One session after the other.                                            *)

(* The latest connection keeps its client while nobody makes another one.  *)
LEMMA SameClient ==
  ASSUME PathInv, conns' \in Seq(Connections), Len(conns') = Len(conns),
         \A c \in DOMAIN conns : /\ conns'[c].client = conns[c].client
                                 /\ conns'[c].alive => conns[c].alive,
         arrived' = arrived, out' = out
  PROVE  [Path!Next]_Path!vars
  <1>1. conns \in Seq(Connections)
    BY DEF PathInv, TypeOK
  <1>2. CASE conns = <<>>
    <2>1. conns' = <<>>
      BY <1>1, <1>2
    <2>2. QED BY <1>2, <2>1 DEF Path!vars
  <1>3. CASE conns # <<>>
    <2>1. /\ Len(conns) \in DOMAIN conns /\ conns' # <<>>
          /\ conns[Len(conns)] \in Connections /\ conns'[Len(conns')] \in Connections
      BY <1>1, <1>3
    <2>2. conns'[Len(conns')].client = conns[Len(conns)].client
      BY <2>1
    <2>3. /\ conns[Len(conns)].alive \in BOOLEAN /\ conns'[Len(conns')].alive \in BOOLEAN
          /\ conns'[Len(conns')].alive => conns[Len(conns)].alive
      BY <2>1 DEF Connections
    <2>4. CASE conns'[Len(conns')].alive = conns[Len(conns)].alive
      BY <1>3, <2>1, <2>2, <2>4 DEF Path!vars
    <2>5. CASE conns'[Len(conns')].alive # conns[Len(conns)].alive
      <3>1. Path!Drop
        BY <1>3, <2>1, <2>2, <2>3, <2>5 DEF Path!Drop
      <3>2. QED BY <3>1 DEF Path!Next
    <2>6. QED BY <2>4, <2>5
  <1>4. QED BY <1>2, <1>3

(* A new one is made only when the others are dead.                        *)
LEMMA AddServes ==
  ASSUME PathInv, AddConnection
  PROVE  Path!Next
  <1>1. /\ conns \in Seq(Connections) /\ alive \in BOOLEAN
        /\ first \in Datagrams /\ first.from \in Clients
        /\ \A c \in DOMAIN conns : ~conns[c].alive
    BY DEF PathInv, TypeOK, Order, Sockets, LiveKeepsSocket, Usable, AddConnection, Datagrams, Hosts
  <1> DEFINE r == [client |-> first.from, sock |-> sock, alive |-> alive,
                   rpc |-> "offering", read |-> first, hpc |-> "select", packet |-> first]
  <1>2. conns' = Append(conns, r) /\ r.client = first.from /\ r.alive = alive
    BY DEF AddConnection
  <1> HIDE DEF r
  <1>3. conns' # <<>> /\ conns'[Len(conns')] = r
    BY <1>1, <1>2
  <1>4. ~(conns # <<>> /\ conns[Len(conns)].alive)
    <2>1. conns # <<>> => Len(conns) \in DOMAIN conns
      BY <1>1
    <2>2. QED BY <1>1, <2>1
  <1>5. arrived' = arrived /\ out' = out
    BY DEF AddConnection, sockVars
  <1>6. Path!Serve(first.from)
    BY <1>1, <1>2, <1>3, <1>4, <1>5 DEF Path!Serve
  <1>7. QED BY <1>1, <1>6 DEF Path!Next

(* Only the latest one still has a socket, and what it writes is from one  *)
(* end and goes to the other.                                              *)
LEMMA WriteRelays ==
  ASSUME PathInv, Routes, NEW c \in DOMAIN conns, HandleWrite(c)
  PROVE  Path!Next
  <1> DEFINE d == conns[c].packet
             t == Target(c)
  <1>1. conns \in Seq(Connections) /\ conns[c] \in Connections /\ arrived \in 0..MaxDatagrams
    BY DEF PathInv, TypeOK
  <1>2. c = Len(conns) /\ conns # <<>>
    BY <1>1 DEF PathInv, Sockets, Usable, HandleWrite
  <1>3. /\ d \in Datagrams /\ conns[c].client \in Clients
        /\ d = [from |-> d.from, num |-> d.num] /\ d.from \in Hosts /\ t \in Hosts
        /\ d.num \in Nat /\ 1 <= d.num
    BY <1>1, BoundsAssumption DEF Connections, Datagrams, Target, Hosts
  <1>4. d.from # t /\ {d.from, t} = {conns[c].client, Server}
    BY <1>3, ServerAssumption DEF Routes, Target
  <1>5. d.num <= arrived /\ Unsent(d)
    BY DEF PathInv, Order, Ahead, HandleWrite, HandleGo
  <1>6. out' = [out EXCEPT ![t] = Append(out[t], d)] /\ arrived' = arrived
    BY DEF HandleWrite, sockVars
  <1>7. /\ conns' # <<>> /\ conns'[Len(conns')].client = conns[c].client
        /\ conns'[Len(conns')].alive = conns[c].alive
    BY <1>1, <1>2 DEF HandleWrite, HandleGo, Connections
  <1>8. PICK x \in Hosts, y \in Hosts, n \in 1..arrived : x = d.from /\ y = t /\ n = d.num
    BY <1>1, <1>3, <1>5
  <1> HIDE DEF d, t
  <1>9. d = [from |-> x, num |-> n]
    BY <1>3, <1>8
  <1>10. Path!Relay(x, y, n)
    <2>1. x # y /\ {x, y} = {conns[Len(conns)].client} \cup {Server}
      BY <1>2, <1>4, <1>8
    <2>2. \A z \in Path!Hosts : \A i \in DOMAIN out[z] : out[z][i].num < n
      BY <1>5, <1>8 DEF Path!Hosts, Hosts, Unsent
    <2>3. out' = [out EXCEPT ![y] = Append(@, [from |-> x, num |-> n])]
      BY <1>6, <1>8, <1>9
    <2>4. QED BY <1>2, <1>6, <1>7, <2>1, <2>2, <2>3 DEF Path!Relay
  <1>11. QED BY <1>10 DEF Path!Next, Path!Hosts, Hosts

LEMMA SessionStep ==
  ASSUME PathInv, Routes, [Next]_vars
  PROVE  [Path!Next]_Path!vars
  <1>1. conns \in Seq(Connections) /\ conns' \in Seq(Connections)
    BY PathStep DEF PathInv, TypeOK
  <1>2. ASSUME NEW c \in DOMAIN conns, HandleWrite(c) PROVE [Path!Next]_Path!vars
    BY <1>2, WriteRelays
  <1>3. ASSUME NEW c \in DOMAIN conns, ConnStep(c), ~HandleWrite(c)
        PROVE  [Path!Next]_Path!vars
    <2>1. out' = out
      BY <1>3 DEF ConnStep, ListenCheck, Receive, ReceiveTimeout, ReceiveError, HandleTake,
           HandleExit, HandleVerdict, HandleWriteFailed, CloseProxy
    <2>2. /\ Len(conns') = Len(conns) /\ arrived' = arrived
          /\ \A e \in DOMAIN conns : /\ conns'[e].client = conns[e].client
                                     /\ conns'[e].alive => conns[e].alive
      BY <1>3, ConnKept
    <2>3. QED BY <1>1, <2>1, <2>2, SameClient
  <1>4. CASE AddConnection
    BY <1>4, AddServes
  <1>5. CASE conns' = conns /\ arrived' = arrived /\ out' = out
    BY <1>1, <1>5, SameClient
  <1>6. CASE conns' = conns /\ arrived' = arrived + 1 /\ out' = out
    <2>1. Path!Arrive
      BY <1>6 DEF Path!Arrive
    <2>2. QED BY <2>1 DEF Path!Next
  <1>7. CASE conns' = AllDead /\ arrived' = arrived /\ out' = out
    <2>1. /\ Len(conns') = Len(conns)
          /\ \A e \in DOMAIN conns : /\ conns'[e].client = conns[e].client
                                     /\ conns'[e].alive => conns[e].alive
      BY <1>7, DeadConns DEF PathInv
    <2>2. QED BY <1>1, <1>7, <2>1, SameClient
  <1>8. CASE conns' = AllDead /\ arrived' = arrived + 1 /\ conns' = conns /\ out' = out
    BY <1>6, <1>8
  <1>9. QED BY <1>2, <1>3, <1>4, <1>5, <1>6, <1>7, <1>8, OtherStep

(* The UDP listener and its connections implement Session: one client at a *)
(* time, and each datagram at most once, in order, to the other end.       *)
THEOREM Refinement == Spec => SessionSpec
  <1>1. Init => Path!Init
    BY DEF Init, Path!Init, Path!Hosts, Hosts
  <1>2. IInv /\ [Next]_vars => [Path!Next]_Path!vars
    BY SessionStep DEF IInv
  <1>3. QED BY <1>1, <1>2, Inductive, PTL DEF Spec, SessionSpec, Path!Spec
==============================================================================
