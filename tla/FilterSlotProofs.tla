-------------------------- MODULE FilterSlotProofs --------------------------
(***************************************************************************)
(* For any filters and senders: what the unlocked fields of the filter     *)
(* callback guarantee, and what takes a dead filter to break.              *)
(***************************************************************************)
EXTENDS FilterSlot, TLAPS

(* The history of every step of Next.                                      *)
Race == raced' = (raced \/ \E f \in Filters \cap Changing' : Changing' # {f})

LEMMA AloneNext ==
  ASSUME TypeOK, Race
  PROVE  Alone'
  <1> SUFFICES ASSUME ~raced', NEW f \in Filters, NEW a \in Filters \cup Senders,
                      f \in Changing', a \in Changing'
               PROVE  a = f
    BY DEF Alone
  <1>1. Changing' = {f}
    BY DEF Race, TypeOK
  <1>2. QED BY <1>1

LEMMA InitInv == Init => IInv
  <1> SUFFICES ASSUME Init PROVE IInv
    OBVIOUS
  <1> USE DisjointAssumption, NilAssumption DEF Init, FreePcs
  <1>1. TypeOK
    BY DEF TypeOK, TrySetPcs, SendPcs
  <1>2. Alone /\ Life /\ Orphan /\ Slot /\ Owner
    BY DEF Alone, Life, Orphan, Slot, Owner, Changing
  <1>3. AcceptedStays /\ FreedByNextPacket
    BY DEF AcceptedStays, FreedByNextPacket
  <1>4. QED BY <1>1, <1>2, <1>3 DEF IInv

(* A filter dies: nothing else has to change.                              *)
LEMMA LeaveInv ==
  ASSUME IInv, ~crash, NEW f \in Filters, Leave(f), Race
  PROVE  IInv'
  <1> USE DisjointAssumption, NilAssumption
      DEF IInv, TypeOK, Leave, Goto, slot, FreePcs
  <1>1. TypeOK'
    BY DEF TrySetPcs, SendPcs, Race
  <1>2. Alone'
    BY AloneNext
  <1>3. Life' /\ Orphan'
    BY DEF Life, Orphan
  <1>4. Slot' /\ FreedByNextPacket'
    BY DEF Slot, FreedByNextPacket, Orphan, Alone, Changing, Race
  <1>5. Owner' /\ AcceptedStays'
    BY DEF Owner, AcceptedStays, Alone, Changing, Race
  <1>6. QED BY <1>1, <1>2, <1>3, <1>4, <1>5

(* TrySetFilterCallback finds the slot empty, or a context in it.          *)
LEMMA TryInv ==
  ASSUME IInv, ~crash, NEW f \in Filters, Try(f), Race
  PROVE  IInv'
  <1> USE DisjointAssumption, NilAssumption
      DEF IInv, TypeOK, Try, Goto, slot, FreePcs
  <1>1. TypeOK'
    BY DEF TrySetPcs, SendPcs, Race
  <1>2. Alone'
    BY AloneNext
  <1>3. Life' /\ Orphan'
    BY DEF Life, Orphan
  <1>4. Slot' /\ FreedByNextPacket'
    BY DEF Slot, FreedByNextPacket, Orphan, Alone, Changing, Race
  <1>5. Owner' /\ AcceptedStays'
    BY DEF Owner, AcceptedStays, Alone, Changing, Race
  <1>6. QED BY <1>1, <1>2, <1>3, <1>4, <1>5

(* A filter is turned away while the one in charge lives, and may free the *)
(* slot when it is dead.                                                   *)
LEMMA TryErrInv ==
  ASSUME IInv, ~crash, NEW f \in Filters, TryErr(f), Race
  PROVE  IInv'
  <1> USE DisjointAssumption, NilAssumption
      DEF IInv, TypeOK, TryErr, Goto, Alive, Panic, slot, FreePcs
  <1>1. TypeOK'
    BY DEF TrySetPcs, SendPcs, Race
  <1>2. Alone'
    BY AloneNext
  <1>3. Life' /\ Orphan'
    BY DEF Life, Orphan
  <1>4. Slot' /\ FreedByNextPacket'
    BY DEF Slot, FreedByNextPacket, Orphan, Alone, Changing, Race
  <1>5. Owner' /\ AcceptedStays'
    BY DEF Owner, AcceptedStays, Alone, Changing, Race
  <1>6. QED BY <1>1, <1>2, <1>3, <1>4, <1>5

(* The slot is freed only when the filter in charge is dead ...            *)
LEMMA FreeLogInv ==
  ASSUME IInv, ~crash, NEW a \in Filters \cup Senders, FreeLog(a), Race
  PROVE  IInv'
  <1> USE DisjointAssumption, NilAssumption
      DEF IInv, TypeOK, FreeLog, Goto, Alive, Panic, slot, FreePcs
  <1>1. TypeOK'
    BY DEF TrySetPcs, SendPcs, Race
  <1>2. Alone'
    BY AloneNext
  <1>3. Life' /\ Orphan'
    BY DEF Life, Orphan
  <1>4. Slot' /\ FreedByNextPacket'
    BY DEF Slot, FreedByNextPacket, Orphan, Alone, Changing, Race
  <1>5. Owner' /\ AcceptedStays'
    BY DEF Owner, AcceptedStays, Alone, Changing, Race
  <1>6. QED BY <1>1, <1>2, <1>3, <1>4, <1>5

(* ... by cancelling its derived context, which is in nobody else's slot ...*)
LEMMA FreeCancelInv ==
  ASSUME IInv, ~crash, NEW a \in Filters \cup Senders, FreeCancel(a), Race
  PROVE  IInv'
  <1> USE DisjointAssumption, NilAssumption
      DEF IInv, TypeOK, FreeCancel, Goto, Panic, slot, FreePcs
  <1>1. TypeOK'
    BY DEF TrySetPcs, SendPcs, Race
  <1>2. Alone'
    BY AloneNext
  <1>3. Life' /\ Orphan'
    BY DEF Life, Orphan
  <1>4. Slot' /\ FreedByNextPacket'
    BY DEF Slot, FreedByNextPacket, Orphan, Alone, Changing, Race
  <1>5. Owner' /\ AcceptedStays'
    BY DEF Owner, AcceptedStays, Alone, Changing, Race
  <1>6. QED BY <1>1, <1>2, <1>3, <1>4, <1>5

(* ... and by emptying the fields in the order that Slot speaks of.        *)
LEMMA FreeClear1Inv ==
  ASSUME IInv, ~crash, NEW a \in Filters \cup Senders, FreeClear1(a), Race
  PROVE  IInv'
  <1> USE DisjointAssumption, NilAssumption
      DEF IInv, TypeOK, FreeClear1, Goto, FreePcs
  <1>1. TypeOK'
    BY DEF TrySetPcs, SendPcs, Race
  <1>2. Alone'
    BY AloneNext
  <1>3. Life' /\ Orphan'
    BY DEF Life, Orphan
  <1>4. Slot' /\ FreedByNextPacket'
    BY DEF Slot, FreedByNextPacket, Orphan, Alone, Changing, Race
  <1>5. Owner' /\ AcceptedStays'
    BY DEF Owner, AcceptedStays, Alone, Changing, Race
  <1>6. QED BY <1>1, <1>2, <1>3, <1>4, <1>5

LEMMA FreeClear2Inv ==
  ASSUME IInv, ~crash, NEW a \in Filters \cup Senders, FreeClear2(a), Race
  PROVE  IInv'
  <1> USE DisjointAssumption, NilAssumption
      DEF IInv, TypeOK, FreeClear2, Goto, FreePcs
  <1>1. TypeOK'
    BY DEF TrySetPcs, SendPcs, Race
  <1>2. Alone'
    BY AloneNext
  <1>3. Life' /\ Orphan'
    BY DEF Life, Orphan
  <1>4. Slot' /\ FreedByNextPacket'
    BY DEF Slot, FreedByNextPacket, Orphan, Alone, Changing, Race
  <1>5. Owner' /\ AcceptedStays'
    BY DEF Owner, AcceptedStays, Alone, Changing, Race
  <1>6. QED BY <1>1, <1>2, <1>3, <1>4, <1>5

LEMMA FreeClear3Inv ==
  ASSUME IInv, ~crash, NEW a \in Filters \cup Senders, FreeClear3(a), Race
  PROVE  IInv'
  <1> USE DisjointAssumption, NilAssumption
      DEF IInv, TypeOK, FreeClear3, Goto, ClearedCallback, AfterFree, FreePcs
  <1>1. TypeOK'
    BY DEF TrySetPcs, SendPcs, Race
  <1>2. Alone'
    BY AloneNext
  <1>3. Life' /\ Orphan'
    BY DEF Life, Orphan
  <1>4. Slot' /\ FreedByNextPacket'
    BY DEF Slot, FreedByNextPacket, Orphan, Alone, Changing, Race
  <1>5. Owner' /\ AcceptedStays'
    BY DEF Owner, AcceptedStays, Alone, Changing, Race
  <1>6. QED BY <1>1, <1>2, <1>3, <1>4, <1>5

(* A filter fills the slot, alone unless two raced: context first ...      *)
LEMMA Set1Inv ==
  ASSUME IInv, ~crash, NEW f \in Filters, Set1(f), Race
  PROVE  IInv'
  <1> USE DisjointAssumption, NilAssumption
      DEF IInv, TypeOK, Set1, Goto, KeepContext, FreePcs
  <1>1. TypeOK'
    BY DEF TrySetPcs, SendPcs, Race
  <1>2. Alone'
    BY AloneNext
  <1>3. Life' /\ Orphan'
    BY DEF Life, Orphan
  <1>4. Slot' /\ FreedByNextPacket'
    BY DEF Slot, FreedByNextPacket, Orphan, Alone, Changing, Race
  <1>5. Owner' /\ AcceptedStays'
    BY DEF Owner, AcceptedStays, Alone, Changing, Race
  <1>6. QED BY <1>1, <1>2, <1>3, <1>4, <1>5

LEMMA Set2Inv ==
  ASSUME IInv, ~crash, NEW f \in Filters, Set2(f), Race
  PROVE  IInv'
  <1> USE DisjointAssumption, NilAssumption
      DEF IInv, TypeOK, Set2, Goto, FreePcs
  <1>1. TypeOK'
    BY DEF TrySetPcs, SendPcs, Race
  <1>2. Alone'
    BY AloneNext
  <1>3. Life' /\ Orphan'
    BY DEF Life, Orphan
  <1>4. Slot' /\ FreedByNextPacket'
    BY DEF Slot, FreedByNextPacket, Orphan, Alone, Changing, Race
  <1>5. Owner' /\ AcceptedStays'
    BY DEF Owner, AcceptedStays, Alone, Changing, Race
  <1>6. QED BY <1>1, <1>2, <1>3, <1>4, <1>5

(* ... and callback last.                                                  *)
LEMMA Set3Inv ==
  ASSUME IInv, ~crash, NEW f \in Filters, Set3(f), Race
  PROVE  IInv'
  <1> USE DisjointAssumption, NilAssumption
      DEF IInv, TypeOK, Set3, Goto, FreePcs
  <1>1. TypeOK'
    BY DEF TrySetPcs, SendPcs, Race
  <1>2. Alone'
    BY AloneNext
  <1>3. Life' /\ Orphan'
    BY DEF Life, Orphan
  <1>4. ~raced' => ~raced /\ Changing = {f} /\ Changing' = {}
    <2> SUFFICES ASSUME ~raced' PROVE ~raced /\ Changing = {f} /\ Changing' = {}
      OBVIOUS
    <2>1. ~raced
      BY DEF Race
    <2>2. f \in Changing /\ Changing \subseteq Filters \cup Senders
      BY DEF Changing
    <2>3. Changing = {f}
      BY <2>1, <2>2 DEF Alone
    <2>4. Changing' = {}
      BY <2>3 DEF Changing
    <2>5. QED BY <2>1, <2>3, <2>4
  <1>5. Slot' /\ FreedByNextPacket'
    BY <1>4 DEF Slot, Owner, FreedByNextPacket, Orphan, Changing
  <1>6. Owner' /\ AcceptedStays'
    BY <1>4 DEF Owner, AcceptedStays, Changing
  <1>7. QED BY <1>1, <1>2, <1>3, <1>5, <1>6

(* HandleSend reads the callback.                                          *)
LEMMA BeginInv ==
  ASSUME IInv, ~crash, NEW s \in Senders, Begin(s), Race
  PROVE  IInv'
  <1> USE DisjointAssumption, NilAssumption
      DEF IInv, TypeOK, Begin, Goto, slot, FreePcs
  <1>1. TypeOK'
    BY DEF TrySetPcs, SendPcs, Race
  <1>2. Alone'
    BY AloneNext
  <1>3. Life' /\ Orphan'
    BY DEF Life, Orphan
  <1>4. Slot' /\ FreedByNextPacket'
    BY DEF Slot, FreedByNextPacket, Orphan, Alone, Changing, Race
  <1>5. Owner' /\ AcceptedStays'
    BY DEF Owner, AcceptedStays, Alone, Changing, Race
  <1>6. QED BY <1>1, <1>2, <1>3, <1>4, <1>5

(* It looks whether the filter lives, before it calls.                     *)
LEMMA SendErrInv ==
  ASSUME IInv, ~crash, NEW s \in Senders, SendErr(s), Race
  PROVE  IInv'
  <1> USE DisjointAssumption, NilAssumption
      DEF IInv, TypeOK, SendErr, Goto, Alive, Panic, slot, FreePcs
  <1>1. TypeOK'
    BY DEF TrySetPcs, SendPcs, Race
  <1>2. Alone'
    BY AloneNext
  <1>3. Life' /\ Orphan'
    BY DEF Life, Orphan
  <1>4. Slot' /\ FreedByNextPacket'
    BY DEF Slot, FreedByNextPacket, Orphan, Alone, Changing, Race
  <1>5. Owner' /\ AcceptedStays'
    BY DEF Owner, AcceptedStays, Alone, Changing, Race
  <1>6. QED BY <1>1, <1>2, <1>3, <1>4, <1>5

LEMMA CallInv ==
  ASSUME IInv, ~crash, NEW s \in Senders, Call(s), Race
  PROVE  IInv'
  <1> USE DisjointAssumption, NilAssumption
      DEF IInv, TypeOK, Call, Goto, Panic, slot, FreePcs
  <1>1. TypeOK'
    BY DEF TrySetPcs, SendPcs, Race
  <1>2. Alone'
    BY AloneNext
  <1>3. Life' /\ Orphan'
    BY DEF Life, Orphan
  <1>4. Slot' /\ FreedByNextPacket'
    BY DEF Slot, FreedByNextPacket, Orphan, Alone, Changing, Race
  <1>5. Owner' /\ AcceptedStays'
    BY DEF Owner, AcceptedStays, Alone, Changing, Race
  <1>6. QED BY <1>1, <1>2, <1>3, <1>4, <1>5

LEMMA VerdictInv ==
  ASSUME IInv, ~crash, NEW s \in Senders, Verdict(s), Race
  PROVE  IInv'
  <1> USE DisjointAssumption, NilAssumption
      DEF IInv, TypeOK, Verdict, Goto, slot, FreePcs
  <1>1. TypeOK'
    BY DEF TrySetPcs, SendPcs, Race
  <1>2. Alone'
    BY AloneNext
  <1>3. Life' /\ Orphan'
    BY DEF Life, Orphan
  <1>4. Slot' /\ FreedByNextPacket'
    BY DEF Slot, FreedByNextPacket, Orphan, Alone, Changing, Race
  <1>5. Owner' /\ AcceptedStays'
    BY DEF Owner, AcceptedStays, Alone, Changing, Race
  <1>6. QED BY <1>1, <1>2, <1>3, <1>4, <1>5

LEMMA NextPacketInv ==
  ASSUME IInv, ~crash, NEW s \in Senders, NextPacket(s), Race
  PROVE  IInv'
  <1> USE DisjointAssumption, NilAssumption
      DEF IInv, TypeOK, NextPacket, Goto, slot, FreePcs
  <1>1. TypeOK'
    BY DEF TrySetPcs, SendPcs, Race
  <1>2. Alone'
    BY AloneNext
  <1>3. Life' /\ Orphan'
    BY DEF Life, Orphan
  <1>4. Slot' /\ FreedByNextPacket'
    BY DEF Slot, FreedByNextPacket, Orphan, Alone, Changing, Race
  <1>5. Owner' /\ AcceptedStays'
    BY DEF Owner, AcceptedStays, Alone, Changing, Race
  <1>6. QED BY <1>1, <1>2, <1>3, <1>4, <1>5

LEMMA FreeInv ==
  ASSUME IInv, ~crash, NEW a \in Filters \cup Senders, FreeStep(a), Race
  PROVE  IInv'
  BY FreeLogInv, FreeCancelInv, FreeClear1Inv, FreeClear2Inv, FreeClear3Inv DEF FreeStep

LEMMA FilterInv ==
  ASSUME IInv, ~crash, NEW f \in Filters, FilterStep(f), Race
  PROVE  IInv'
  BY LeaveInv, TryInv, TryErrInv, Set1Inv, Set2Inv, Set3Inv, FreeInv DEF FilterStep

LEMMA SenderInv ==
  ASSUME IInv, ~crash, NEW s \in Senders, SenderStep(s), Race
  PROVE  IInv'
  BY BeginInv, SendErrInv, CallInv, VerdictInv, NextPacketInv, FreeInv DEF SenderStep

LEMMA StutterInv ==
  ASSUME IInv, UNCHANGED vars
  PROVE  IInv'
  <1> USE DEF IInv, vars, slot
  <1>1. TypeOK' /\ Changing' = Changing
    BY DEF TypeOK, Changing
  <1>2. Alone' /\ Life' /\ Orphan' /\ Slot' /\ Owner'
    BY <1>1 DEF Alone, Life, Orphan, Slot, Owner
  <1>3. AcceptedStays' /\ FreedByNextPacket'
    BY DEF AcceptedStays, FreedByNextPacket
  <1>4. QED BY <1>1, <1>2, <1>3

(* IInv is inductive, so that each of its parts holds of the slot always,  *)
(* however TrySetFilterCallback and HandleSend interleave.                 *)
THEOREM Inductive == Spec => []IInv
  <1>1. Init => IInv
    BY InitInv
  <1>2. IInv /\ [Next]_vars => IInv'
    BY FilterInv, SenderInv, StutterInv DEF Next, Race
  <1>3. QED BY <1>1, <1>2, PTL DEF Spec

(* Every variable of the filter's slot keeps its type.                     *)
THEOREM TypeCorrect == Spec => []TypeOK
  <1>1. IInv => TypeOK
    BY DEF IInv
  <1>2. QED BY <1>1, Inductive, PTL

(* A filter that was accepted is in charge, and the only one, until its    *)
(* own context ends, unless two goroutines were at the slot at once.       *)
THEOREM Accepted == Spec => []AcceptedStays
  <1>1. IInv => AcceptedStays
    BY DEF IInv
  <1>2. QED BY <1>1, Inductive, PTL

(* The first packet that is let through after the last filter died leaves  *)
(* the slot empty, unless two goroutines filled and freed it at once.      *)
THEOREM Freed == Spec => []FreedByNextPacket
  <1>1. IInv => FreedByNextPacket
    BY DEF IInv
  <1>2. QED BY <1>1, Inductive, PTL

(* A dead filter drops no packet, raced or not: HandleSend looks at the    *)
(* context that belongs to the callback before it calls.                   *)
THEOREM OrphansSent == Spec => []OrphansAreSent
  <1>1. IInv => OrphansAreSent
    BY DEF IInv, Orphan, OrphansAreSent
  <1>2. QED BY <1>1, Inductive, PTL

(* No goroutine meets a nil field of the slot before a filter has died,    *)
(* raced or not.                                                           *)
THEOREM NoEarlyCrash == Spec => []CrashOnlyAfterDeath
  <1>1. IInv => CrashOnlyAfterDeath
    BY DEF IInv, Life, CrashOnlyAfterDeath
  <1>2. QED BY <1>1, Inductive, PTL
==============================================================================
