----------------------------- MODULE RelayProofs -----------------------------
(***************************************************************************)
(* For any number of injectors and any number of chunks: each direction of *)
(* a connection implements a Pipe, and a dead proxy relays little more.    *)
(***************************************************************************)
EXTENDS Relay, TLAPS

InHand == IF hpc \in {"asking", "writing"} THEN 1 ELSE 0
Coming(x) == IF lpc[x] \in {"reading", "offering"} THEN 1 ELSE 0

(* Whatever a dead proxy may still relay is in the hands of handlePacket,  *)
(* or of a listen that has passed its check of the context.                *)
LateInv ==
  /\ alive => late = 0
  /\ ~alive => late + InHand + Coming("client") + Coming("server") <= 3

(* The inductive invariant of Relay.                                       *)
IInv == TypeOK /\ LateInv

-----------------------------------------------------------------------------
(* A proxy starts alive, with nothing read.                                *)
LEMMA InitInv == Init => IInv
  BY MaxChunksAssumption DEF Init, IInv, TypeOK, LateInv, Sides

(* Every step keeps the types, as long as listen reads no more than        *)
(* MaxChunks chunks.                                                       *)
LEMMA TypeStep ==
  ASSUME TypeOK, [Next]_vars
  PROVE  TypeOK'
  <1> USE MaxChunksAssumption DEF TypeOK, Sides, listenVars, handleVars, injectVars
  <1>1. CASE UNCHANGED vars
    BY <1>1 DEF vars
  <1>2. CASE Cancel
    BY <1>2 DEF Cancel
  <1>3. CASE HandleStep
    <2>1. ASSUME NEW x \in Sides, HandleTake(x)
          PROVE  TypeOK'
      BY <2>1 DEF HandleTake, Goto, AfterSend, Handed
    <2>2. CASE HandleExit \/ HandleWriteFailed \/ \E send \in BOOLEAN : HandleVerdict(send)
      BY <2>2 DEF HandleExit, HandleWriteFailed, HandleVerdict
    <2>3. CASE HandleWrite
      <3>1. out' = [out EXCEPT ![Other(hside)] = Append(@, hnum)] /\ Other(hside) \in Sides
        BY <2>3 DEF HandleWrite, Target, Other
      <3>2. Append(out[Other(hside)], hnum) \in Seq(Nat)
        BY <3>1
      <3>3. out' \in [Sides -> Seq(Nat)]
        BY <3>1, <3>2
      <3>4. QED BY <2>3, <3>3 DEF HandleWrite
    <2>4. QED BY <1>3, <2>1, <2>2, <2>3 DEF HandleStep
  <1>4. ASSUME NEW x \in Sides, ListenStep(x)
        PROVE  TypeOK'
    <2>1. CASE LoopCheck(x)
      BY <2>1 DEF LoopCheck, Goto
    <2>2. CASE ReadChunk(x)
      <3>1. nread[x] + 1 \in 0..MaxChunks
        BY <2>2 DEF ReadChunk
      <3>2. QED BY <2>2, <3>1 DEF ReadChunk, Goto
    <2>3. CASE ReadTimeout(x)
      BY <2>3 DEF ReadTimeout, Goto
    <2>4. CASE ReadEnd(x)
      BY <2>4 DEF ReadEnd, Goto
    <2>5. QED BY <1>4, <2>1, <2>2, <2>3, <2>4 DEF ListenStep
  <1>5. ASSUME NEW i \in Injectors, InjectStep(i)
        PROVE  TypeOK'
    <2>1. ASSUME NEW x \in Sides, Inject(i, x)
          PROVE  TypeOK'
      BY <2>1 DEF Inject
    <2>2. CASE InjectVerdict(i)
      BY <2>2 DEF InjectVerdict
    <2>3. CASE InjectWrite(i)
      <3>1. injected' \in [Sides -> Nat]
        BY <2>3 DEF InjectWrite
      <3>2. QED BY <2>3, <3>1 DEF InjectWrite
    <2>4. QED BY <1>5, <2>1, <2>2, <2>3 DEF InjectStep
  <1>6. QED BY <1>1, <1>2, <1>3, <1>4, <1>5 DEF Next

(* A packet relayed after the death was one of those LateInv counts; a     *)
(* listen that has not passed its check by then never will.                *)
LEMMA LateStep ==
  ASSUME IInv, [Next]_vars
  PROVE  LateInv'
  <1> USE DEF IInv, TypeOK, LateInv, InHand, Coming, Sides, listenVars, handleVars, injectVars
  <1>1. CASE UNCHANGED vars
    BY <1>1 DEF vars
  <1>2. CASE Cancel
    BY <1>2 DEF Cancel
  <1>3. CASE HandleStep
    <2>1. ASSUME NEW x \in Sides, HandleTake(x)
          PROVE  LateInv'
      BY <2>1 DEF HandleTake, Goto, AfterSend
    <2>2. CASE HandleExit \/ HandleWriteFailed \/ \E send \in BOOLEAN : HandleVerdict(send)
      BY <2>2 DEF HandleExit, HandleWriteFailed, HandleVerdict
    <2>3. CASE HandleWrite
      BY <2>3 DEF HandleWrite
    <2>4. QED BY <1>3, <2>1, <2>2, <2>3 DEF HandleStep
  <1>4. ASSUME NEW x \in Sides, ListenStep(x)
        PROVE  LateInv'
    BY <1>4 DEF ListenStep, LoopCheck, ReadChunk, ReadTimeout, ReadEnd, Goto, GoOn
  <1>5. ASSUME NEW i \in Injectors, InjectStep(i)
        PROVE  LateInv'
    BY <1>5 DEF InjectStep, Inject, InjectVerdict, InjectWrite
  <1>6. QED BY <1>1, <1>2, <1>3, <1>4, <1>5 DEF Next

(* The inductive invariant holds in every state of a connection.           *)
THEOREM Inductive == Spec => []IInv
  <1>1. IInv /\ [Next]_vars => IInv'
    BY TypeStep, LateStep DEF IInv
  <1>2. QED BY InitInv, <1>1, PTL DEF Spec

(* Every variable keeps its type.                                          *)
THEOREM TypeCorrect == Spec => []TypeOK
  <1>1. IInv => TypeOK
    BY DEF IInv
  <1>2. QED BY <1>1, Inductive, PTL

(* A proxy whose context is dead relays three packets at most.             *)
THEOREM LittleAfterDeath == Spec => []FewAfterDeath
  <1>1. IInv => FewAfterDeath
    BY DEF IInv, TypeOK, LateInv, InHand, Coming, FewAfterDeath
  <1>2. QED BY <1>1, Inductive, PTL

-----------------------------------------------------------------------------
(* A dead proxy winds down: a listen goes on by fewer and fewer steps, and *)
(* what handlePacket has to do for a packet is less than what the packet   *)
(* costs the listen that gives it away.                                    *)
LEMMA ListenFewer ==
  ASSUME TypeOK, ~alive, NEW x \in Sides, ListenStep(x)
  PROVE  /\ ~alive' /\ UNCHANGED <<hpc, out>>
         /\ \A y \in Sides : y # x => lpc'[y] = lpc[y]
         /\ ListenLeft[lpc'[x]] < ListenLeft[lpc[x]]
  <1> USE DEF TypeOK, Goto, ListenLeft, handleVars
  <1>1. CASE LoopCheck(x)
    BY <1>1 DEF LoopCheck, GoOn
  <1>2. CASE ReadChunk(x)
    BY <1>2 DEF ReadChunk
  <1>3. CASE ReadTimeout(x)
    BY <1>3 DEF ReadTimeout
  <1>4. CASE ReadEnd(x)
    BY <1>4 DEF ReadEnd
  <1>5. QED BY <1>1, <1>2, <1>3, <1>4 DEF ListenStep

LEMMA HandleFewer ==
  ASSUME TypeOK, ~alive, HandleStep
  PROVE  /\ ~alive'
         /\ \/ lpc' = lpc /\ HandleLeft[hpc'] < HandleLeft[hpc]
            \/ \E x \in Sides : /\ \A y \in Sides : y # x => lpc'[y] = lpc[y]
                               /\ lpc[x] = "offering" /\ lpc'[x] = "looping"
                               /\ hpc = "select" /\ hpc' = "asking"
  <1> USE DEF TypeOK, Goto, HandleLeft, listenVars
  <1>1. ASSUME NEW x \in Sides, HandleTake(x)
        PROVE  /\ ~alive'
               /\ \A y \in Sides : y # x => lpc'[y] = lpc[y]
               /\ lpc[x] = "offering" /\ lpc'[x] = "looping"
               /\ hpc = "select" /\ hpc' = "asking"
    BY <1>1 DEF HandleTake, AfterSend
  <1>2. CASE HandleExit \/ HandleWrite \/ HandleWriteFailed
    BY <1>2 DEF HandleExit, HandleWrite, HandleWriteFailed
  <1>3. ASSUME NEW send \in BOOLEAN, HandleVerdict(send)
        PROVE  ~alive' /\ lpc' = lpc /\ HandleLeft[hpc'] < HandleLeft[hpc]
    BY <1>3 DEF HandleVerdict
  <1>4. QED BY <1>1, <1>2, <1>3 DEF HandleStep

(* After the death of a proxy the steps of its three goroutines that are   *)
(* left become fewer: twenty-one at most, whoever sends and injects.       *)
THEOREM WindsDown == Spec => RunsOut
  <1> DEFINE Fewer == 0 <= StepsLeft' /\ StepsLeft' < StepsLeft
  <1>1. ASSUME TypeOK, TypeOK', [Next]_vars, ~alive
        PROVE  ~alive' /\ (<<lpc, hpc, out>>' # <<lpc, hpc, out>> => Fewer)
    <2>1. /\ \A x \in Sides : ListenLeft[lpc[x]] \in 0..3 /\ ListenLeft[lpc'[x]] \in 0..3
          /\ HandleLeft[hpc] \in 0..3 /\ HandleLeft[hpc'] \in 0..3
      <3>1. \A pc \in {"looping", "reading", "offering", "ended"} : ListenLeft[pc] \in 0..3
        BY DEF ListenLeft
      <3>2. \A pc \in {"select", "asking", "writing", "exited"} : HandleLeft[pc] \in 0..3
        BY DEF HandleLeft
      <3>3. QED BY <1>1, <3>1, <3>2 DEF TypeOK
    <2>2. ASSUME NEW x \in Sides, ListenStep(x) PROVE ~alive' /\ Fewer
      BY <1>1, <2>1, <2>2, ListenFewer DEF StepsLeft, Sides
    <2>3. CASE HandleStep
      <3>1. CASE lpc' = lpc /\ HandleLeft[hpc'] < HandleLeft[hpc]
        BY <1>1, <2>1, <2>3, <3>1, HandleFewer DEF StepsLeft, Sides
      <3>2. ASSUME NEW x \in Sides, \A y \in Sides : y # x => lpc'[y] = lpc[y],
                   lpc[x] = "offering", lpc'[x] = "looping", hpc = "select", hpc' = "asking"
            PROVE  Fewer
        BY <2>1, <3>2 DEF StepsLeft, Sides, ListenLeft, HandleLeft
      <3>3. QED BY <1>1, <2>3, <3>1, <3>2, HandleFewer
    <2>4. CASE (\E i \in Injectors : InjectStep(i)) \/ UNCHANGED vars
      BY <1>1, <2>4 DEF InjectStep, Inject, InjectVerdict, InjectWrite, listenVars, handleVars, vars
    <2>5. ~Cancel
      BY <1>1 DEF Cancel
    <2>6. QED BY <1>1, <2>2, <2>3, <2>4, <2>5 DEF Next
  <1>2. QED BY <1>1, TypeCorrect, PTL DEF Spec, RunsOut

-----------------------------------------------------------------------------
(* What one step does to the packets under way from side x: it leaves them *)
(* and what was relayed alone, adds the next chunk, or takes the oldest    *)
(* away, relayed or not.                                                   *)
LEMMA DirectionStep ==
  ASSUME TypeOK, [Next]_vars, NEW x \in Sides
  PROVE  \/ UNCHANGED <<nread[x], Under(x), out[Other(x)]>>
         \/ /\ Len(Under(x)) < 2
            /\ nread'[x] = nread[x] + 1 /\ Under(x)' = Append(Under(x), nread[x] + 1)
            /\ UNCHANGED out[Other(x)]
         \/ /\ Under(x) # <<>> /\ Under(x)' = Tail(Under(x))
            /\ \/ out'[Other(x)] = Append(out[Other(x)], Head(Under(x)))
               \/ UNCHANGED out[Other(x)]
            /\ UNCHANGED nread[x]
  <1> USE DEF TypeOK, Sides, listenVars, handleVars, injectVars
  <1>1. CASE UNCHANGED <<listenVars, handleVars, out>>
    BY <1>1 DEF Under, Held, Offered
  <1>2. ASSUME NEW y \in Sides, HandleTake(y)
        PROVE  UNCHANGED <<nread[x], Under(x), out[Other(x)]>>
    BY <1>2 DEF HandleTake, Goto, AfterSend, Handed, Under, Held, Offered
  <1>3. CASE HandleExit
    BY <1>3 DEF HandleExit, Under, Held, Offered
  <1>4. ASSUME NEW send \in BOOLEAN, HandleVerdict(send)
        PROVE  \/ UNCHANGED <<nread[x], Under(x), out[Other(x)]>>
               \/ /\ Under(x) # <<>> /\ Under(x)' = Tail(Under(x))
                  /\ UNCHANGED <<nread[x], out[Other(x)]>>
    BY <1>4 DEF HandleVerdict, Under, Held, Offered
  <1>5. CASE HandleWrite \/ HandleWriteFailed
    BY <1>5 DEF HandleWrite, HandleWriteFailed, Target, Other, Under, Held, Offered
  <1>6. ASSUME NEW y \in Sides, ListenStep(y)
        PROVE  \/ UNCHANGED <<nread[x], Under(x), out[Other(x)]>>
               \/ /\ Len(Under(x)) < 2
                  /\ nread'[x] = nread[x] + 1 /\ Under(x)' = Append(Under(x), nread[x] + 1)
                  /\ UNCHANGED out[Other(x)]
    <2>1. CASE LoopCheck(y) \/ ReadTimeout(y) \/ ReadEnd(y)
      BY <2>1 DEF LoopCheck, ReadTimeout, ReadEnd, Goto, Under, Held, Offered
    <2>2. ASSUME ReadChunk(y), x = y
          PROVE  /\ Len(Under(x)) < 2
                 /\ nread'[x] = nread[x] + 1 /\ Under(x)' = Append(Under(x), nread[x] + 1)
                 /\ UNCHANGED out[Other(x)]
      <3>1. /\ ~Offered(x) /\ Offered(x)' /\ Held(x)' = Held(x)
            /\ nread'[x] = nread[x] + 1 /\ UNCHANGED <<hnum, out>>
        BY <2>2 DEF ReadChunk, Goto, Held, Offered
      <3>2. CASE Held(x)
        BY ONLY <3>1, <3>2 DEF Under
      <3>3. CASE ~Held(x)
        BY ONLY <3>1, <3>3 DEF Under
      <3>4. QED BY <3>2, <3>3, <3>1
    <2>3. ASSUME ReadChunk(y), x # y
          PROVE  UNCHANGED <<nread[x], Under(x), out[Other(x)]>>
      BY <2>3 DEF ReadChunk, Goto, Under, Held, Offered
    <2>4. QED BY <1>6, <2>1, <2>2, <2>3 DEF ListenStep
  <1>7. QED
    BY <1>1, <1>2, <1>3, <1>4, <1>5, <1>6
       DEF Next, vars, Cancel, HandleStep, InjectStep, Inject, InjectVerdict, InjectWrite

(* What the client sends leaves for the server as through a Pipe.          *)
LEMMA UpIsPipe == Spec => Up!Spec
  <1>1. Init => Up!Init
    BY DEF Init, Up!Init, Under, Held, Offered, Sides
  <1>2. TypeOK /\ [Next]_vars => [Up!Next]_(Up!vars)
    <2> SUFFICES ASSUME TypeOK, [Next]_vars PROVE [Up!Next]_(Up!vars)
      OBVIOUS
    <2>1. "client" \in Sides /\ Other("client") = "server"
      BY DEF Sides, Other
    <2>2. QED BY <2>1, DirectionStep DEF Up!Next, Up!Take, Up!Put, Up!Lose, Up!vars
  <1>3. QED BY <1>1, <1>2, TypeCorrect, PTL DEF Spec, Up!Spec

(* What the server sends leaves for the client as through a Pipe.          *)
LEMMA DownIsPipe == Spec => Down!Spec
  <1>1. Init => Down!Init
    BY DEF Init, Down!Init, Under, Held, Offered, Sides
  <1>2. TypeOK /\ [Next]_vars => [Down!Next]_(Down!vars)
    <2> SUFFICES ASSUME TypeOK, [Next]_vars PROVE [Down!Next]_(Down!vars)
      OBVIOUS
    <2>1. "server" \in Sides /\ Other("server") = "client"
      BY DEF Sides, Other
    <2>2. QED BY <2>1, DirectionStep DEF Down!Next, Down!Take, Down!Put, Down!Lose, Down!vars
  <1>3. QED BY <1>1, <1>2, TypeCorrect, PTL DEF Spec, Down!Spec

(* A connection implements two pipes, one for each direction.              *)
THEOREM Refinement == Spec => TwoPipes
  BY UpIsPipe, DownIsPipe DEF TwoPipes
==============================================================================
