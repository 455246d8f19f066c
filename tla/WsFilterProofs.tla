--------------------------- MODULE WsFilterProofs ---------------------------
(***************************************************************************)
(* For any number of packets, which need not be finite: every wake-up is   *)
(* paid for by an answer of the client.                                    *)
(***************************************************************************)
EXTENDS WsFilter, FiniteSetTheorems, TLAPS

LEMMA InitInv == Init => WakeInv
  <1> SUFFICES ASSUME Init PROVE WakeInv
    OBVIOUS
  <1>1. TypeOK /\ MapInv /\ AnswerInv /\ ListenInv
    BY DefaultAssumption
       DEF Init, TypeOK, MapInv, AnswerInv, AnswerIsFinal, ListenInv, Heard, Verdicts
  <1>2. Heard = {} /\ Woke = {} /\ lpc = "accepting"
    BY DEF Init, Heard, Woke, Verdicts
  <1>3. CountInv
    BY <1>2, FS_EmptySet DEF CountInv
  <1>4. QED BY <1>1, <1>3 DEF WakeInv

(* The count does not change with steps that neither wake nor answer.      *)
LEMMA CountKept ==
  ASSUME CountInv, Heard' = Heard, Woke' = Woke, (lpc' = "offering") <=> (lpc = "offering")
  PROVE  CountInv'
  BY DEF CountInv

(* A packet enters the map before it is sent, and nobody can answer it or  *)
(* wake it up before.                                                      *)
LEMMA EnterInv ==
  ASSUME WakeInv, NEW p \in Packets, Enter(p)
  PROVE  WakeInv'
  <1> USE DEF WakeInv
  <1>1. TypeOK' /\ MapInv' /\ ListenInv'
    BY DEF TypeOK, MapInv, ListenInv, Enter, Goto, listenVars
  <1>2. p \notin byAnswer /\ filterMap[p] = "absent"
    BY DEF AnswerInv, MapInv, Enter, Goto
  <1>3. Heard' = Heard /\ Woke' = Woke
    BY <1>2 DEF TypeOK, Heard, Woke, Verdicts, Enter, Goto
  <1>4. AnswerInv'
    BY <1>2, <1>3 DEF TypeOK, AnswerInv, AnswerIsFinal, Enter, Goto
  <1>5. CountInv'
    BY <1>3, CountKept DEF Enter, listenVars
  <1>6. QED BY <1>1, <1>4, <1>5

(* A packet that is not awake moves on, to be decided without an answer,   *)
(* or to be sent and wait.                                                 *)
LEMMA MoveInv ==
  ASSUME WakeInv, NEW p \in Packets, NEW from, NEW to, NEW v \in Verdicts \cup {"none"},
         from \in {"new", "sending", "waiting", "erring"},
         to \in {"numbered", "sending", "waiting", "erring", "decided"},
         to = "numbered" => from = "new",
         Goto(p, from, to), verdict' = [verdict EXCEPT ![p] = v],
         UNCHANGED <<byAnswer, filterMap, listenVars, alive, connected, crash>>
  PROVE  WakeInv'
  <1> USE DEF WakeInv
  <1>1. TypeOK' /\ MapInv' /\ ListenInv'
    BY DEF TypeOK, MapInv, ListenInv, Goto, listenVars
  <1>2. p \notin byAnswer
    BY DEF AnswerInv, Goto
  <1>3. Heard' = Heard /\ Woke' = Woke
    BY DEF TypeOK, Heard, Woke, Goto
  <1>4. AnswerInv'
    BY <1>2, <1>3 DEF TypeOK, AnswerInv, AnswerIsFinal, Goto
  <1>5. CountInv'
    BY <1>3, CountKept DEF listenVars
  <1>6. QED BY <1>1, <1>4, <1>5

(* A packet that was woken up is decided, if it was answered, or was woken *)
(* up for another's answer and waits again.                                *)
LEMMA WokenInv ==
  ASSUME WakeInv, NEW p \in Packets, Woken(p)
  PROVE  WakeInv'
  <1> USE DEF WakeInv
  <1>1. pc[p] = "woken" /\ p \notin byAnswer /\ p \in Woke
    BY DEF AnswerInv, Woken, Decide, Goto, Woke
  <1>2. Heard' = Heard /\ UNCHANGED <<lpc, lmsg, filterMap>>
    BY DEF Woken, Heard, listenVars
  <1>3. ListenInv'
    BY <1>2 DEF ListenInv
  <1>4. CASE Answered(p)
    <2>1. TypeOK' /\ MapInv'
      BY <1>4 DEF TypeOK, MapInv, Woken, Answered, Decide, Goto, listenVars
    <2>2. AnswerInv'
      BY <1>4 DEF TypeOK, AnswerInv, AnswerIsFinal, Heard, Woken, Answered, Decide, Goto
    <2>3. Woke' = Woke
      BY <1>1, <1>4 DEF TypeOK, Woke, Woken, Decide, Goto
    <2>4. CountInv'
      BY <1>2, <2>3, CountKept
    <2>5. QED BY <1>3, <2>1, <2>2, <2>4
  <1>5. CASE ~Answered(p)
    <2>1. TypeOK' /\ MapInv'
      BY <1>5 DEF TypeOK, MapInv, Woken, Goto, listenVars
    <2>2. AnswerInv'
      BY <1>1, <1>2, <1>5 DEF TypeOK, AnswerInv, AnswerIsFinal, Woken, Goto
    <2>3. Woke' \in SUBSET Woke
      BY <1>5 DEF TypeOK, Woke, Woken, Goto
    <2>4. IsFiniteSet(Woke') /\ Cardinality(Woke') <= Cardinality(Woke)
      BY <2>3, FS_Subset DEF CountInv
    <2>5. /\ Cardinality(Woke) \in Nat /\ Cardinality(Woke') \in Nat
          /\ Cardinality(Heard) \in Nat
      BY <2>4, FS_CardinalityType DEF CountInv
    <2>6. CountInv'
      BY <1>2, <2>4, <2>5 DEF CountInv
    <2>7. QED BY <1>3, <2>1, <2>2, <2>6
  <1>6. QED BY <1>4, <1>5

(* The client's answer is entered for a packet that waits for one, and one *)
(* wake-up more is due.                                                    *)
LEMMA AnswerStep ==
  ASSUME WakeInv, NEW v \in Verdicts, Answer(v), MayAnswer(lmsg)
  PROVE  WakeInv'
  <1> USE DEF WakeInv
  <1>1. lmsg \in Packets /\ lmsg \notin Heard
    BY DEF ListenInv, Answer, MayAnswer, Heard, Verdicts
  <1>2. TypeOK' /\ ListenInv'
    BY <1>1 DEF TypeOK, ListenInv, Answer, packetVars
  <1>3. MapInv'
    BY <1>1 DEF TypeOK, MapInv, Answer, MayAnswer, packetVars
  <1>4. Heard' = Heard \cup {lmsg} /\ Woke' = Woke
    BY <1>1 DEF TypeOK, Heard, Woke, Answer, packetVars
  <1>5. AnswerInv'
    BY <1>1, <1>4 DEF TypeOK, AnswerInv, AnswerIsFinal, Answer, packetVars
  <1>6. IsFiniteSet(Heard') /\ Cardinality(Heard') = Cardinality(Heard) + 1
    BY <1>1, <1>4, FS_AddElement DEF CountInv
  <1>7. Cardinality(Woke) \in Nat /\ Cardinality(Heard) \in Nat
    BY FS_CardinalityType DEF CountInv
  <1>8. CountInv'
    BY <1>4, <1>6, <1>7 DEF CountInv, Answer
  <1>9. QED BY <1>2, <1>3, <1>5, <1>8

(* One waiting packet takes the wake-up.                                   *)
LEMMA OfferInv ==
  ASSUME WakeInv, NEW p \in Packets, Offer(p)
  PROVE  WakeInv'
  <1> USE DEF WakeInv
  <1>1. p \notin Woke /\ p \notin byAnswer
    BY DEF AnswerInv, Woke, Offer, Goto
  <1>2. TypeOK' /\ MapInv' /\ ListenInv'
    BY DEF TypeOK, MapInv, ListenInv, Offer, Goto
  <1>3. Heard' = Heard /\ Woke' = Woke \cup {p}
    BY DEF TypeOK, Heard, Woke, Offer, Goto
  <1>4. AnswerInv'
    BY <1>1, <1>3 DEF TypeOK, AnswerInv, AnswerIsFinal, Offer, Goto
  <1>5. IsFiniteSet(Woke') /\ Cardinality(Woke') = Cardinality(Woke) + 1
    BY <1>1, <1>3, FS_AddElement DEF CountInv
  <1>6. Cardinality(Woke) \in Nat /\ Cardinality(Heard) \in Nat
    BY FS_CardinalityType DEF CountInv
  <1>7. CountInv'
    BY <1>3, <1>5, <1>6 DEF CountInv, Offer
  <1>8. QED BY <1>2, <1>4, <1>7

(* The rest of listen, the client's leaving and a panic touch no packet.   *)
LEMMA OtherInv ==
  ASSUME WakeInv, UNCHANGED <<packetVars, filterMap>>,
         lpc' \in {"accepting", "reading", "answering", "refusing", "stopped"},
         lpc # "offering", lmsg' \in Packets \cup {NoPacket},
         lpc' = "answering" => lmsg' \in Packets,
         {ws', alive', connected', crash'} \subseteq BOOLEAN
  PROVE  WakeInv'
  <1> USE DEF WakeInv
  <1>1. TypeOK' /\ MapInv' /\ ListenInv'
    BY DEF TypeOK, MapInv, ListenInv, packetVars
  <1>2. Heard' = Heard /\ Woke' = Woke
    BY DEF Heard, Woke, packetVars
  <1>3. AnswerInv'
    BY <1>2 DEF AnswerInv, AnswerIsFinal, packetVars
  <1>4. CountInv'
    BY <1>2, CountKept
  <1>5. QED BY <1>1, <1>3, <1>4

(* The program stops, the client leaves or the context ends: no goroutine  *)
(* of the WebSocket moves.                                                 *)
LEMMA StillInv ==
  ASSUME WakeInv, UNCHANGED <<packetVars, filterMap, listenVars>>,
         {alive', connected', crash'} \subseteq BOOLEAN
  PROVE  WakeInv'
  <1> USE DEF WakeInv
  <1>1. TypeOK' /\ MapInv' /\ ListenInv'
    BY DEF TypeOK, MapInv, ListenInv, packetVars, listenVars
  <1>2. Heard' = Heard /\ Woke' = Woke
    BY DEF Heard, Woke, packetVars
  <1>3. AnswerInv'
    BY <1>2 DEF AnswerInv, AnswerIsFinal, packetVars
  <1>4. CountInv'
    BY <1>2, CountKept DEF listenVars
  <1>5. QED BY <1>1, <1>3, <1>4

LEMMA PacketInv ==
  ASSUME WakeInv, NEW p \in Packets, PacketStep(p)
  PROVE  WakeInv'
  <1>1. Default \in Verdicts \cup {"none"} /\ "allow" \in Verdicts
    BY DefaultAssumption DEF Verdicts
  <1>2. verdict = [verdict EXCEPT ![p] = verdict[p]] /\ verdict[p] \in Verdicts \cup {"none"}
    BY DEF WakeInv, TypeOK
  <1>3. CASE Mismatch(p)
    BY <1>1, <1>3, MoveInv DEF Mismatch, Decide
  <1>4. CASE Number(p)
    BY <1>2, <1>4, MoveInv DEF Number
  <1>5. CASE Enter(p)
    BY <1>5, EnterInv
  <1>6. CASE SendNil(p)
    BY <1>6, StillInv DEF SendNil, WakeInv, TypeOK
  <1>7. CASE Sent(p)
    <2>1. UNCHANGED <<byAnswer, filterMap, listenVars, alive, connected, crash>>
      BY <1>7 DEF Sent
    <2>2. CASE p \in Injected
      BY <1>1, <1>7, <2>1, <2>2, MoveInv DEF Sent, Decide
    <2>3. CASE p \notin Injected
      BY <1>2, <1>7, <2>1, <2>3, MoveInv DEF Sent
    <2>4. QED BY <2>2, <2>3
  <1>8. CASE SendFailed(p)
    BY <1>1, <1>8, MoveInv DEF SendFailed, Decide
  <1>9. CASE ContextDone(p)
    BY <1>1, <1>9, MoveInv DEF ContextDone, Decide
  <1>10. CASE TimeOut(p)
    BY <1>2, <1>10, MoveInv DEF TimeOut
  <1>11. CASE ErrorSent(p)
    BY <1>1, <1>11, MoveInv DEF ErrorSent, Decide
  <1>12. CASE Woken(p)
    BY <1>12, WokenInv
  <1>13. QED
    BY <1>3, <1>4, <1>5, <1>6, <1>7, <1>8, <1>9, <1>10, <1>11, <1>12 DEF PacketStep

LEMMA ListenStepInv ==
  ASSUME WakeInv, ListenStep
  PROVE  WakeInv'
  <1>1. TypeOK
    BY DEF WakeInv
  <1>2. CASE Accept
    BY <1>1, <1>2, OtherInv DEF Accept, TypeOK
  <1>3. CASE Stop
    BY <1>1, <1>3, OtherInv DEF Stop, TypeOK
  <1>4. ASSUME NEW p \in Packets, ReadAnswer(p) PROVE WakeInv'
    BY <1>1, <1>4, OtherInv DEF ReadAnswer, TypeOK
  <1>5. ASSUME NEW p \in Packets, Offer(p) PROVE WakeInv'
    BY <1>5, OfferInv
  <1>6. ASSUME NEW v \in Verdicts, Answer(v) PROVE WakeInv'
    <2>1. CASE MayAnswer(lmsg)
      BY <1>6, <2>1, AnswerStep
    <2>2. CASE ~MayAnswer(lmsg)
      BY <1>1, <1>6, <2>2, OtherInv DEF Answer, TypeOK
    <2>3. QED BY <2>1, <2>2
  <1>7. CASE Refused
    BY <1>1, <1>7, OtherInv DEF Refused, TypeOK
  <1>8. QED BY <1>2, <1>3, <1>4, <1>5, <1>6, <1>7 DEF ListenStep

LEMMA WakeStep ==
  ASSUME WakeInv, [Next]_vars
  PROVE  WakeInv'
  <1>1. TypeOK
    BY DEF WakeInv
  <1>2. ASSUME NEW p \in Packets, PacketStep(p) PROVE WakeInv'
    BY <1>2, PacketInv
  <1>3. CASE ListenStep
    BY <1>3, ListenStepInv
  <1>4. CASE MapFault
    BY <1>1, <1>4, StillInv DEF MapFault, TypeOK
  <1>5. CASE Disconnect
    BY <1>1, <1>5, StillInv DEF Disconnect, TypeOK
  <1>6. CASE Shutdown
    BY <1>1, <1>6, StillInv DEF Shutdown, TypeOK
  <1>7. CASE UNCHANGED vars
    BY <1>1, <1>7, StillInv DEF vars, TypeOK
  <1>8. QED BY <1>2, <1>3, <1>4, <1>5, <1>6, <1>7 DEF Next

-----------------------------------------------------------------------------
(* What the steps are to the client and to the waiting packets.            *)

(* Every step asks about a packet, hears an answer, decides a packet, or   *)
(* does none of this.                                                      *)
Deciders(p) ==
  \/ \E from \in {"new", "sending", "waiting", "erring"} : Decide(p, from, Default)
  \/ p \in Injected /\ Decide(p, "sending", "allow")

Moves(p, from, to) == Goto(p, from, to) /\ UNCHANGED verdict

LEMMA StepKinds ==
  ASSUME WakeInv, [Next]_vars
  PROVE  \/ \E p \in Packets : Enter(p)
         \/ \E v \in Verdicts : Answer(v) /\ MayAnswer(lmsg)
         \/ \E p \in Packets : Woken(p) /\ Answered(p)
         \/ UNCHANGED <<filterMap, byAnswer>> /\ \E p \in Packets : Deciders(p)
         \/ UNCHANGED <<filterMap, byAnswer, pc, verdict>>
         \/ /\ UNCHANGED <<filterMap, byAnswer>>
            /\ \E p \in Packets :
                 \/ p \in Injected /\ Moves(p, "new", "sending")
                 \/ p \notin Injected /\ Moves(p, "new", "numbered")
                 \/ p \notin Injected /\ Moves(p, "sending", "waiting")
                 \/ Moves(p, "waiting", "erring")
                 \/ Moves(p, "waiting", "woken") \/ Moves(p, "woken", "waiting")
  <1>1. ASSUME NEW p \in Packets, Mismatch(p) \/ SendFailed(p) \/ ContextDone(p) \/ ErrorSent(p)
        PROVE  UNCHANGED <<filterMap, byAnswer>> /\ Deciders(p)
    BY <1>1 DEF Mismatch, SendFailed, ContextDone, ErrorSent, Deciders
  <1>2. ASSUME NEW p \in Packets, Sent(p)
        PROVE  /\ UNCHANGED <<filterMap, byAnswer>>
               /\ Deciders(p) \/ (p \notin Injected /\ Moves(p, "sending", "waiting"))
    BY <1>2 DEF Sent, Deciders, Moves
  <1>3. ASSUME NEW p \in Packets, Number(p)
        PROVE  /\ UNCHANGED <<filterMap, byAnswer>>
               /\ \/ p \in Injected /\ Moves(p, "new", "sending")
                  \/ p \notin Injected /\ Moves(p, "new", "numbered")
    BY <1>3 DEF Number, Moves
  <1>4. ASSUME NEW p \in Packets, Woken(p), ~Answered(p)
        PROVE  UNCHANGED <<filterMap, byAnswer>> /\ Moves(p, "woken", "waiting")
    BY <1>4 DEF Woken, Moves
  <1>5. ASSUME NEW p \in Packets, Offer(p)
        PROVE  UNCHANGED <<filterMap, byAnswer>> /\ Moves(p, "waiting", "woken")
    BY <1>5 DEF Offer, Moves
  <1>6. ASSUME \/ \E p \in Packets : SendNil(p) \/ ReadAnswer(p)
               \/ Accept \/ Stop \/ Refused \/ MapFault \/ Disconnect \/ Shutdown \/ UNCHANGED vars
               \/ \E v \in Verdicts : Answer(v) /\ ~MayAnswer(lmsg)
        PROVE  UNCHANGED <<filterMap, byAnswer, pc, verdict>>
    BY <1>6 DEF SendNil, ReadAnswer, Accept, Stop, Refused, MapFault, Disconnect, Shutdown, vars,
                packetVars, Answer
  <1>7. ASSUME NEW p \in Packets, TimeOut(p)
        PROVE  UNCHANGED <<filterMap, byAnswer>> /\ Moves(p, "waiting", "erring")
    BY <1>7 DEF TimeOut, Moves
  <1>8. QED
    BY <1>1, <1>2, <1>3, <1>4, <1>5, <1>6, <1>7 DEF Next, PacketStep, ListenStep

LEMMA InjectedStep ==
  ASSUME WakeInv, InjectedInv, [Next]_vars
  PROVE  InjectedInv'
  <1>0. TypeOK
    BY DEF WakeInv
  <1> USE <1>0, InjectedAssumption DEF TypeOK, InjectedInv, Goto
  <1>1. ASSUME NEW p \in Packets, Enter(p) PROVE InjectedInv'
    BY <1>1 DEF Enter
  <1>2. ASSUME NEW v \in Verdicts, Answer(v), MayAnswer(lmsg) PROVE InjectedInv'
    BY <1>2 DEF WakeInv, ListenInv, Answer, MayAnswer, packetVars
  <1>3. ASSUME NEW p \in Packets, Woken(p), Answered(p) PROVE InjectedInv'
    BY <1>3 DEF Woken, Decide
  <1>4. ASSUME NEW p \in Packets, Deciders(p), filterMap' = filterMap PROVE InjectedInv'
    BY <1>4 DEF Deciders, Decide
  <1>5. CASE UNCHANGED <<filterMap, pc>>
    BY <1>5
  <1>6. ASSUME NEW p \in Packets, filterMap' = filterMap,
               \/ p \in Injected /\ Moves(p, "new", "sending")
               \/ p \notin Injected /\ Moves(p, "new", "numbered")
               \/ p \notin Injected /\ Moves(p, "sending", "waiting")
               \/ Moves(p, "waiting", "erring")
               \/ Moves(p, "waiting", "woken") \/ Moves(p, "woken", "waiting")
        PROVE  InjectedInv'
    BY <1>6 DEF Moves
  <1>7. QED BY <1>1, <1>2, <1>3, <1>4, <1>5, <1>6, StepKinds

(* IInv is inductive: it holds in every state of a filtering WebSocket, so *)
(* that never more packets were decided by an answer, or are awake, than   *)
(* the client has answered, and the client is asked of no injected one.    *)
THEOREM Inductive == Spec => []IInv
  <1>1. Init => IInv
    <2>1. Init => InjectedInv
      BY InjectedAssumption DEF Init, InjectedInv
    <2>2. QED BY <2>1, InitInv DEF IInv
  <1>2. IInv /\ [Next]_vars => IInv'
    BY WakeStep, InjectedStep DEF IInv
  <1>3. QED BY <1>1, <1>2, PTL DEF Spec

(* Every variable of a filtering WebSocket keeps its type.                 *)
THEOREM TypeCorrect == Spec => []TypeOK
  <1>1. IInv => TypeOK
    BY DEF IInv, WakeInv
  <1>2. QED BY <1>1, Inductive, PTL

(* listen is left with nobody to tell only if some answer was ignored:     *)
(* otherwise every answered packet was woken, and there would be fewer     *)
(* answers than the wake-ups and the one listen still has to give.         *)
THEOREM OnlyIfIgnored == Spec => []StuckOnlyIfIgnored
  <1>1. IInv => StuckOnlyIfIgnored
    <2> SUFFICES ASSUME IInv, lpc = "offering",
                        \A p \in Packets : pc[p] \in {"new", "erring", "decided"}
                 PROVE  \E p \in Packets :
                          /\ pc[p] \in {"erring", "decided"} /\ filterMap[p] \in Verdicts
                          /\ p \notin byAnswer
      BY DEF StuckOnlyIfIgnored
    <2>1. Woke = byAnswer
      BY DEF Woke
    <2>2. byAnswer \subseteq Heard
      BY DEF IInv, WakeInv, AnswerInv
    <2>3. /\ IsFiniteSet(Heard) /\ IsFiniteSet(byAnswer)
          /\ Cardinality(byAnswer) + 1 <= Cardinality(Heard)
      BY <2>1 DEF IInv, WakeInv, CountInv
    <2>4. Cardinality(Heard) \in Nat /\ Cardinality(byAnswer) \in Nat
      BY <2>3, FS_CardinalityType
    <2>5. byAnswer # Heard
      BY <2>3, <2>4
    <2>6. PICK p \in Heard : p \notin byAnswer
      BY <2>2, <2>5
    <2>7. p \in Packets /\ filterMap[p] \in Verdicts
      BY DEF Heard
    <2>8. pc[p] # "new"
      BY <2>7 DEF IInv, WakeInv, MapInv, Verdicts
    <2>9. QED BY <2>6, <2>7, <2>8
  <1>2. QED BY <1>1, Inductive, PTL

(* No later message of the client changes what a packet was decided by.    *)
THEOREM AnswersStay == Spec => []AnswerIsFinal
  <1>1. IInv => AnswerIsFinal
    BY DEF IInv, WakeInv, AnswerInv
  <1>2. QED BY <1>1, Inductive, PTL

-----------------------------------------------------------------------------
(* Decided once, by the only answer or by default.                         *)

DecidedNow == [p \in {q \in Packets : pc[q] = "decided"} |-> verdict[p]]
HeardNow   == [p \in {q \in Packets : filterMap[q] \in Verdicts} |-> filterMap[p]]
AskedNow   == {p \in Packets : filterMap[p] # "absent"}

LEMMA DecideExtends ==
  ASSUME TypeOK, NEW p \in Packets, NEW from, from # "decided", NEW v, Decide(p, from, v)
  PROVE  p \notin DOMAIN DecidedNow /\ DecidedNow' = Ruling!Extend(DecidedNow, p, v)
  <1>1. /\ pc[p] = from /\ pc' = [pc EXCEPT ![p] = "decided"]
        /\ verdict' = [verdict EXCEPT ![p] = v]
    BY DEF Decide, Goto
  <1>2. {q \in Packets : pc'[q] = "decided"} = {q \in Packets : pc[q] = "decided"} \cup {p}
    BY <1>1 DEF TypeOK
  <1>3. \A q \in Packets : verdict'[q] = IF q = p THEN v ELSE verdict[q]
    BY <1>1 DEF TypeOK
  <1>4. QED BY <1>1, <1>2, <1>3 DEF DecidedNow, Ruling!Extend

LEMMA MoveDecides ==
  ASSUME TypeOK, NEW p \in Packets, NEW from, NEW to, from # "decided", to # "decided",
         Goto(p, from, to), verdict' = verdict
  PROVE  DecidedNow' = DecidedNow
  <1>1. {q \in Packets : pc'[q] = "decided"} = {q \in Packets : pc[q] = "decided"}
    BY DEF TypeOK, Goto
  <1>2. QED BY <1>1 DEF DecidedNow

LEMMA RulingStep ==
  ASSUME WakeInv, InjectedInv, [Next]_vars
  PROVE  [Ruling!Next]_Ruling!vars
  <1>0. TypeOK /\ {"allow", "drop"} = Verdicts /\ Default \in Verdicts
    BY DefaultAssumption DEF WakeInv, Verdicts
  <1>1. ASSUME NEW p \in Packets, Enter(p) PROVE Ruling!Next
    <2>1. /\ pc[p] = "numbered" /\ filterMap[p] = "absent" /\ p \notin Injected
          /\ filterMap' = [filterMap EXCEPT ![p] = "wait"] /\ byAnswer' = byAnswer
      BY <1>1 DEF Enter, Goto, WakeInv, MapInv, InjectedInv
    <2>2. AskedNow' = AskedNow \cup {p} /\ p \notin AskedNow
      BY <1>0, <2>1 DEF AskedNow, TypeOK
    <2>3. HeardNow' = HeardNow
      <3>1. /\ {q \in Packets : filterMap'[q] \in Verdicts}
                 = {q \in Packets : filterMap[q] \in Verdicts}
            /\ \A q \in Packets : filterMap[q] \in Verdicts => filterMap'[q] = filterMap[q]
        BY <1>0, <2>1 DEF TypeOK, Verdicts
      <3>2. QED BY <3>1 DEF HeardNow
    <2>4. DecidedNow' = DecidedNow /\ p \notin DOMAIN DecidedNow
      BY <1>0, <1>1, <2>1, MoveDecides DEF Enter, DecidedNow
    <2>5. Ruling!Ask(p)
      BY <2>1, <2>2, <2>3, <2>4 DEF Ruling!Ask, AskedNow, HeardNow, DecidedNow
    <2>6. QED BY <2>5 DEF Ruling!Next
  <1>2. ASSUME NEW v \in Verdicts, Answer(v), MayAnswer(lmsg) PROVE Ruling!Next
    <2>1. PICK p \in Packets : p = lmsg
      BY <1>2 DEF WakeInv, ListenInv, Answer
    <2>2. /\ filterMap[p] = "wait" /\ filterMap' = [filterMap EXCEPT ![p] = v]
          /\ UNCHANGED <<pc, verdict, byAnswer>>
      BY <1>2, <2>1 DEF Answer, MayAnswer, packetVars
    <2>3. AskedNow' = AskedNow /\ p \in AskedNow
      BY <1>0, <1>2, <2>2 DEF AskedNow, TypeOK, Verdicts
    <2>4. HeardNow' = Ruling!Extend(HeardNow, p, v) /\ p \notin DOMAIN HeardNow
      <3>1. /\ {q \in Packets : filterMap'[q] \in Verdicts}
                 = {q \in Packets : filterMap[q] \in Verdicts} \cup {p}
            /\ filterMap[p] \notin Verdicts
            /\ \A q \in Packets : filterMap'[q] = IF q = p THEN v ELSE filterMap[q]
        BY <1>0, <2>2 DEF TypeOK, Verdicts
      <3>2. QED BY <3>1 DEF HeardNow, Ruling!Extend
    <2>5. DecidedNow' = DecidedNow
      BY <2>2 DEF DecidedNow
    <2>6. Ruling!Hear(p, v)
      BY <2>2, <2>3, <2>4, <2>5 DEF Ruling!Hear, AskedNow, HeardNow, DecidedNow
    <2>7. QED BY <1>0, <2>6 DEF Ruling!Next
  <1>3. ASSUME NEW p \in Packets, Woken(p), Answered(p) PROVE Ruling!Next
    <2>1. /\ Decide(p, "woken", filterMap[p]) /\ filterMap[p] \in Verdicts
          /\ byAnswer' = byAnswer \cup {p} /\ filterMap' = filterMap
      BY <1>3 DEF Woken, Answered
    <2>2. p \in DOMAIN HeardNow /\ HeardNow[p] = filterMap[p]
      BY <2>1 DEF HeardNow
    <2>3. DecidedNow' = Ruling!Extend(DecidedNow, p, HeardNow[p]) /\ p \notin DOMAIN DecidedNow
      BY <1>0, <2>1, <2>2, DecideExtends
    <2>4. AskedNow' = AskedNow /\ HeardNow' = HeardNow
      BY <2>1 DEF AskedNow, HeardNow
    <2>5. Ruling!DecideByAnswer(p)
      BY <2>1, <2>2, <2>3, <2>4 DEF Ruling!DecideByAnswer, AskedNow, HeardNow, DecidedNow
    <2>6. QED BY <2>5 DEF Ruling!Next
  <1>4. ASSUME NEW p \in Packets, Deciders(p), UNCHANGED <<filterMap, byAnswer>>
        PROVE  Ruling!Next
    <2>1. PICK v \in Verdicts : /\ v = Default \/ (p \in Injected /\ v = "allow")
                                /\ \E from \in {"new", "sending", "waiting", "erring"} : Decide(p, from, v)
      BY <1>0, <1>4 DEF Deciders, Verdicts
    <2>2. DecidedNow' = Ruling!Extend(DecidedNow, p, v) /\ p \notin DOMAIN DecidedNow
      BY <1>0, <2>1, DecideExtends
    <2>3. AskedNow' = AskedNow /\ HeardNow' = HeardNow
      BY <1>4 DEF AskedNow, HeardNow
    <2>4. Ruling!DecideAlone(p, v)
      BY <1>4, <2>1, <2>2, <2>3 DEF Ruling!DecideAlone, AskedNow, HeardNow, DecidedNow
    <2>5. QED BY <1>0, <2>4 DEF Ruling!Next
  <1>5. ASSUME UNCHANGED <<filterMap, byAnswer>>, DecidedNow' = DecidedNow
        PROVE  UNCHANGED Ruling!vars
    BY <1>5 DEF Ruling!vars, DecidedNow
  <1>6. CASE UNCHANGED <<filterMap, byAnswer, pc, verdict>>
    BY <1>5, <1>6 DEF DecidedNow
  <1>7. ASSUME NEW p \in Packets, UNCHANGED <<filterMap, byAnswer>>,
               \/ Moves(p, "new", "sending") \/ Moves(p, "new", "numbered")
               \/ Moves(p, "sending", "waiting") \/ Moves(p, "waiting", "erring")
               \/ Moves(p, "waiting", "woken") \/ Moves(p, "woken", "waiting")
        PROVE  UNCHANGED Ruling!vars
    <2>1. DecidedNow' = DecidedNow
      BY <1>0, <1>7, MoveDecides DEF Moves
    <2>2. QED BY <1>5, <1>7, <2>1
  <1>8. QED BY <1>1, <1>2, <1>3, <1>4, <1>6, <1>7, StepKinds

(* A filtering WebSocket implements Verdict: every packet is decided once, *)
(* by the client's first and only answer or by default.                    *)
THEOREM Refinement == Spec => VerdictSpec
  <1>1. Init => Ruling!Init
    <2> SUFFICES ASSUME Init PROVE Ruling!Init
      OBVIOUS
    <2>1. /\ {q \in Packets : filterMap[q] \in Verdicts} = {}
          /\ {q \in Packets : pc[q] = "decided"} = {}
          /\ {q \in Packets : filterMap[q] # "absent"} = {} /\ byAnswer = {}
      BY DEF Init, Verdicts
    <2>2. QED BY <2>1 DEF Ruling!Init
  <1>2. IInv /\ [Next]_vars => [Ruling!Next]_Ruling!vars
    BY RulingStep DEF IInv
  <1>3. QED BY <1>1, <1>2, Inductive, PTL DEF Spec, VerdictSpec, Ruling!Spec
==============================================================================
