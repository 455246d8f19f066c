-------------------------- MODULE RecvChansProofs ---------------------------
(***************************************************************************)
(* For any subscribers, senders and calls of Close: the packets come in    *)
(* one order and once, pruning spares the living channels, and only two    *)
(* dead channels or a Close can stop the program.                          *)
(***************************************************************************)
EXTENDS RecvChans, SequenceTheorems, TLAPS

(* Nobody has subscribed at the start.                                     *)
LEMMA InitInv == Init => IInv
  <1> SUFFICES ASSUME Init PROVE IInv
    OBVIOUS
  <1> USE DEF Init
  <1>1. TypeOK
    BY DEF TypeOK
  <1>2. MutexInv /\ SliceInv /\ CloseInv
    BY DEF MutexInv, Holds, SliceInv, IsInjective, CloseInv
  <1>3. \A c \in Subs, s, t \in Senders : ~Given(c, s) /\ ~Before(c, s, t)
    BY DEF Given, Before
  <1>4. SendInv /\ OvertakenInv /\ SameOrder
    BY <1>3 DEF SendInv, OvertakenInv, SameOrder
  <1>5. PrunerInv /\ LiveStaysSubscribed /\ CrashCauses /\ SoloInv
    BY DEF PrunerInv, LiveStaysSubscribed, CrashCauses, SoloInv
  <1>6. QED BY <1>1, <1>2, <1>4, <1>5 DEF IInv

(* The slice after the pruner has removed the i-th channel: the last one   *)
(* is in its place, the others stay.                                       *)
LEMMA Removal ==
  ASSUME rcChan \in Seq(Subs), NEW i \in 1..Len(rcChan)
  PROVE  /\ SwapRemove(i) \in Seq(Subs)
         /\ Len(SwapRemove(i)) = Len(rcChan) - 1
         /\ \A j \in 1..Len(rcChan) - 1 :
              SwapRemove(i)[j] = IF j = i THEN rcChan[Len(rcChan)] ELSE rcChan[j]
  <1> DEFINE n == Len(rcChan)
             moved == [rcChan EXCEPT ![i] = rcChan[n]]
  <1>1. n \in Nat /\ n >= 1 /\ rcChan \in [1..n -> Subs]
    BY LenProperties
  <1>2. moved \in [1..n -> Subs] /\ \A j \in 1..n : moved[j] = IF j = i THEN rcChan[n] ELSE rcChan[j]
    BY <1>1
  <1>3. moved \in Seq(Subs) /\ Len(moved) = n
    BY <1>1, <1>2
  <1>4. SwapRemove(i) = SubSeq(moved, 1, n - 1)
    BY <1>3 DEF SwapRemove, Front, Last
  <1> HIDE DEF moved
  <1>5. /\ SubSeq(moved, 1, n - 1) \in Seq(Subs) /\ Len(SubSeq(moved, 1, n - 1)) = n - 1
        /\ \A j \in 1..n - 1 : SubSeq(moved, 1, n - 1)[j] = moved[j]
    BY <1>1, <1>3
  <1>6. QED BY <1>1, <1>2, <1>4, <1>5

LEMMA Deletion ==
  ASSUME TypeOK, PrunerInv, NEW i \in range, PrunerDelete(i), i <= Len(rcChan)
  PROVE  /\ i \in 1..Len(rcChan) /\ rcChan[i] \in cancelled
         /\ DOMAIN rcChan = 1..Len(rcChan) /\ DOMAIN rcChan' = 1..Len(rcChan) - 1
         /\ Len(rcChan') = Len(rcChan) - 1 /\ Len(rcChan) \in Nat
         /\ \A j \in 1..Len(rcChan) - 1 : rcChan'[j] = IF j = i THEN rcChan[Len(rcChan)] ELSE rcChan[j]
         /\ UNCHANGED <<cancelled, sub>>
  <1>1. rcChan \in Seq(Subs) /\ i \in 1..Len(rcChan) /\ rcChan[i] \in cancelled
    BY DEF TypeOK, PrunerInv, PrunerDelete
  <1>2. rcChan' = SwapRemove(i) /\ UNCHANGED <<cancelled, sub>>
    BY DEF PrunerDelete, subVars
  <1>3. /\ rcChan' \in Seq(Subs) /\ Len(rcChan') = Len(rcChan) - 1
        /\ \A j \in 1..Len(rcChan) - 1 : rcChan'[j] = IF j = i THEN rcChan[Len(rcChan)] ELSE rcChan[j]
    BY <1>1, <1>2, Removal
  <1>4. QED BY <1>1, <1>2, <1>3

(* Who touches what.                                                       *)
LEMMA Frame ==
  ASSUME [Next]_vars
  PROVE  /\ \/ rcChan' = rcChan
            \/ \E c \in Subs : Subscribe(c)
            \/ \E i \in range : PrunerDelete(i) /\ i <= Len(rcChan)
         /\ UNCHANGED <<spc, si, got>> \/ \E s \in Senders : SenderStep(s)
         /\ crash' = crash \/ crash = "no"
         /\ cancelled \subseteq cancelled'
         /\ UNCHANGED <<ppc, keys, range>> \/ PrunerStep
         /\ UNCHANGED <<kpc, kv, closed>> \/ \E k \in Closers : CloseStep(k)
  <1> USE DEF subVars, senderVars, prunerVars, closeVars
  <1>1. CASE UNCHANGED vars
    BY <1>1 DEF vars
  <1>2. ASSUME NEW c \in Subs, SubStep(c), crash = "no"
        PROVE  UNCHANGED <<senderVars, got, prunerVars, kpc, kv, closed>> /\ cancelled \subseteq cancelled'
               /\ (rcChan' = rcChan \/ Subscribe(c))
    BY <1>2 DEF SubStep, Subscribe, Wait, ReadZero, ScriptReadsZero, Leave, ScriptEnds, Cancelled,
                WritesThrough
  <1>3. ASSUME NEW s \in Senders, SenderStep(s)
        PROVE  UNCHANGED <<rcChan, cancelled, closed, prunerVars, closeVars>>
    BY <1>3 DEF SenderStep, Publish, Look, Send, Published
  <1>4. ASSUME PrunerStep
        PROVE  /\ UNCHANGED <<cancelled, closed, subVars, senderVars, kpc, kv>>
               /\ rcChan' = rcChan \/ \E i \in range : PrunerDelete(i) /\ i <= Len(rcChan)
    BY <1>4 DEF PrunerStep, PrunerWork, PrunerTick, PrunerConns, PrunerExit, PrunerLock, PrunerUnlock,
                PrunerLook, PrunerDelete, WritesThrough
  <1>5. ASSUME NEW k \in Closers, CloseStep(k)
        PROVE  UNCHANGED <<rcChan, subVars, senderVars, prunerVars>> /\ cancelled \subseteq cancelled'
    BY <1>5 DEF CloseStep, CloseStart, CloseCancel, CloseClose, CloseDone
  <1>6. CASE Next
    BY <1>2, <1>3, <1>4, <1>5, <1>6 DEF Next
  <1>7. QED BY <1>1, <1>6

-----------------------------------------------------------------------------
(* Every step keeps the types.                                             *)
LEMMA ThroughType ==
  ASSUME TypeOK, NEW i \in Nat, NEW c \in Subs, WritesThrough(i, c)
  PROVE  kslice' \in [Closers -> Seq(Subs)] /\ kpc' = kpc /\ kv' = kv /\ ki' = ki
  <1>1. ASSUME NEW k \in Closers, i \in DOMAIN kslice[k]
        PROVE  [kslice[k] EXCEPT ![i] = c] \in Seq(Subs)
    <2>1. kslice[k] \in Seq(Subs)
      BY DEF TypeOK
    <2>2. kslice[k] \in [1..Len(kslice[k]) -> Subs] /\ Len(kslice[k]) \in Nat
      BY <2>1, LenProperties
    <2>3. [kslice[k] EXCEPT ![i] = c] \in [1..Len(kslice[k]) -> Subs]
      BY <2>2
    <2>4. QED BY <2>2, <2>3
  <1>2. kslice' \in [Closers -> Seq(Subs)]
    BY <1>1 DEF WritesThrough, TypeOK
  <1>3. QED BY <1>2 DEF WritesThrough

SliceTypes  == rcChan \in Seq(Subs) /\ cancelled \subseteq Subs /\ closed \subseteq Subs
SubTypes    == sub \in [Subs -> {"none", "busy", "waiting", "gone"}]
GotTypes    == got \in [Subs -> Seq(Senders)]
SenderTypes == spc \in [Senders -> {"idle", "publishing", "sending", "done"}] /\ si \in [Senders -> Nat]
PrunerTypes == /\ ppc \in {"select", "waiting", "looking", "deleting", "exited"}
               /\ keys \subseteq Nat /\ range \subseteq Nat
CloseTypes  == /\ kpc \in [Closers -> {"idle", "closing", "cancelled", "done"}]
               /\ kv \in [Closers -> SUBSET Subs] /\ ki \in [Closers -> Nat]
               /\ kslice \in [Closers -> Seq(Subs)]
CrashTypes  == crash \in {"no", "sendOnClosed", "closeOfClosed", "indexOutOfRange", "nilAddress"}
Types == SliceTypes /\ SubTypes /\ GotTypes /\ SenderTypes /\ PrunerTypes /\ CloseTypes /\ CrashTypes

LEMMA TypeParts == (TypeOK <=> Types) /\ (TypeOK' <=> Types')
  BY DEF TypeOK, Types, SliceTypes, SubTypes, GotTypes, SenderTypes, PrunerTypes, CloseTypes,
         CrashTypes

LEMMA SubStepTypes ==
  ASSUME Types, NEW c \in Subs, SubStep(c)
  PROVE  Types'
  <1> USE DEF Types
  <1>1. CASE Subscribe(c)
    <2>1. UNCHANGED <<cancelled, closed, got, senderVars, prunerVars, crash>>
          /\ sub' = [sub EXCEPT ![c] = "busy"] /\ rcChan' = Append(rcChan, c)
          /\ WritesThrough(Len(rcChan) + 1, c)
      BY <1>1 DEF Subscribe
    <2>2. SliceTypes' /\ SubTypes' /\ Len(rcChan) + 1 \in Nat
      BY <2>1 DEF SliceTypes, SubTypes
    <2>3. CloseTypes'
      BY <2>1, <2>2, ThroughType, TypeParts DEF CloseTypes
    <2>4. GotTypes' /\ SenderTypes' /\ PrunerTypes' /\ CrashTypes'
      BY <2>1 DEF GotTypes, SenderTypes, PrunerTypes, CrashTypes, senderVars, prunerVars
    <2>5. QED BY <2>2, <2>3, <2>4
  <1>2. CASE Wait(c) \/ ReadZero(c) \/ ScriptReadsZero(c) \/ Leave(c) \/ ScriptEnds(c)
    <2>1. UNCHANGED <<rcChan, closed, got, senderVars, prunerVars, closeVars>>
      BY <1>2 DEF Wait, ReadZero, ScriptReadsZero, Leave, ScriptEnds, Cancelled, subVars
    <2>2. SliceTypes' /\ SubTypes' /\ CrashTypes'
      BY <1>2, <2>1 DEF Wait, ReadZero, ScriptReadsZero, Leave, ScriptEnds, Cancelled, subVars,
                        SliceTypes, SubTypes, CrashTypes
    <2>3. GotTypes' /\ SenderTypes' /\ PrunerTypes' /\ CloseTypes'
      BY <2>1
         DEF GotTypes, SenderTypes, PrunerTypes, CloseTypes, senderVars, prunerVars, closeVars
    <2>4. QED BY <2>2, <2>3
  <1>3. QED BY <1>1, <1>2 DEF SubStep

LEMMA SenderStepTypes ==
  ASSUME Types, SendInv, NEW s \in Senders, SenderStep(s)
  PROVE  Types'
  <1> USE DEF Types
  <1>1. UNCHANGED <<rcChan, cancelled, closed, prunerVars, closeVars>>
        /\ (crash' = crash \/ crash' = "sendOnClosed")
    BY DEF SenderStep, Publish, Look, Send, Published
  <1>2. /\ \/ spc' = spc
           \/ \E to \in {"publishing", "sending", "done"} : spc' = [spc EXCEPT ![s] = to]
        /\ \/ si' = si \/ si' = [si EXCEPT ![s] = si[s] + 1] \/ si' = [si EXCEPT ![s] = 1]
    BY DEF SenderStep, Publish, Look, Send, Published
  <1>3. SenderTypes'
    BY <1>2 DEF SenderTypes
  <1>4. SubTypes' /\ GotTypes'
    <2>1. CASE UNCHANGED <<sub, got>>
      BY <2>1 DEF SubTypes, GotTypes
    <2>2. CASE Send(s) /\ ~UNCHANGED <<sub, got>>
      <3>1. /\ si[s] <= Len(rcChan)
            /\ got' = [got EXCEPT ![rcChan[si[s]]] = Append(@, s)]
            /\ sub' = [sub EXCEPT ![rcChan[si[s]]] = "busy"]
        BY <2>2 DEF Send, SendInv
      <3>2. rcChan[si[s]] \in Subs
        BY <3>1 DEF SliceTypes, SenderTypes, SendInv
      <3>3. QED BY <3>1, <3>2 DEF SubTypes, GotTypes
    <2>3. QED BY <2>1, <2>2 DEF SenderStep, Publish, Look, Published, subVars
  <1>5. SliceTypes' /\ PrunerTypes' /\ CloseTypes' /\ CrashTypes'
    BY <1>1 DEF SliceTypes, PrunerTypes, CloseTypes, CrashTypes, prunerVars, closeVars
  <1>6. QED BY <1>3, <1>4, <1>5

LEMMA PrunerStepTypes ==
  ASSUME Types, PrunerInv, PrunerStep
  PROVE  Types'
  <1> USE DEF Types
  <1>1. UNCHANGED <<cancelled, closed, subVars, senderVars>>
        /\ (crash' = crash \/ crash' = "indexOutOfRange")
    BY DEF PrunerStep, PrunerWork, PrunerTick, PrunerConns, PrunerExit, PrunerLock, PrunerUnlock, PrunerLook,
           PrunerDelete
  <1>2. PrunerTypes'
    <2>1. DOMAIN rcChan \subseteq Nat
      BY DEF SliceTypes
    <2>2. QED BY <2>1 DEF PrunerStep, PrunerWork, PrunerTick, PrunerConns, PrunerExit, PrunerLock,
                          PrunerUnlock, PrunerLook, PrunerDelete, PrunerTypes, Key
  <1>3. SliceTypes' /\ CloseTypes'
    <2>1. CASE UNCHANGED <<rcChan, closeVars>>
      BY <2>1, <1>1 DEF SliceTypes, CloseTypes, closeVars
    <2>2. ASSUME NEW i \in range, PrunerDelete(i), i <= Len(rcChan)
          PROVE  SliceTypes' /\ CloseTypes'
      <3>1. i \in 1..Len(rcChan) /\ rcChan' = SwapRemove(i) /\ WritesThrough(i, Last(rcChan))
        BY <2>2 DEF PrunerDelete, PrunerInv, PrunerTypes
      <3>2. i \in Nat /\ Last(rcChan) \in Subs
        BY <3>1 DEF SliceTypes, Last
      <3>3. SliceTypes'
        BY <1>1, <3>1, Removal DEF SliceTypes
      <3>4. CloseTypes'
        BY <3>1, <3>2, ThroughType, TypeParts DEF CloseTypes
      <3>5. QED BY <3>3, <3>4
    <2>3. QED BY <2>1, <2>2 DEF PrunerStep, PrunerWork, PrunerTick, PrunerConns, PrunerExit, PrunerLock,
                                PrunerUnlock, PrunerLook, PrunerDelete
  <1>4. SubTypes' /\ GotTypes' /\ SenderTypes' /\ CrashTypes'
    BY <1>1 DEF SubTypes, GotTypes, SenderTypes, CrashTypes, subVars, senderVars
  <1>5. QED BY <1>2, <1>3, <1>4

LEMMA CloseStepTypes ==
  ASSUME Types, CloseInv, NEW k \in Closers, CloseStep(k)
  PROVE  Types'
  <1> USE DEF Types
  <1>1. UNCHANGED <<rcChan, subVars, senderVars, prunerVars>>
    BY DEF CloseStep, CloseStart, CloseCancel, CloseClose, CloseDone
  <1>2. CASE CloseStart(k)
    BY <1>2 DEF CloseStart, SliceTypes, CloseTypes, CrashTypes, SubTypes, GotTypes, SenderTypes,
                PrunerTypes, subVars, senderVars, prunerVars
  <1>3. CASE CloseDone(k)
    <2>1. <<>> \in Seq(Subs)
      OBVIOUS
    <2>2. QED BY <1>3, <2>1
                 DEF CloseDone, SliceTypes, CloseTypes, CrashTypes, SubTypes, GotTypes,
                     SenderTypes, PrunerTypes, subVars, senderVars, prunerVars
  <1>4. CASE CloseCancel(k)
    <2>1. kslice[k][ki[k]] \in Subs
      BY <1>4 DEF CloseCancel, CloseInv, CloseTypes
    <2>2. SliceTypes' /\ CloseTypes' /\ CrashTypes'
      BY <1>4, <2>1 DEF CloseCancel, CancelledFirst, SliceTypes, CloseTypes, CrashTypes
    <2>3. QED BY <1>1, <2>2
                 DEF SubTypes, GotTypes, SenderTypes, PrunerTypes, subVars, senderVars, prunerVars
  <1>5. CASE CloseClose(k)
    <2>1. SliceTypes' /\ CloseTypes' /\ CrashTypes'
      BY <1>5 DEF CloseClose, SliceTypes, CloseTypes, CrashTypes
    <2>2. QED BY <1>1, <2>1
                 DEF SubTypes, GotTypes, SenderTypes, PrunerTypes, subVars, senderVars, prunerVars
  <1>6. QED BY <1>2, <1>3, <1>4, <1>5 DEF CloseStep

LEMMA TypeStep ==
  ASSUME IInv, [Next]_vars
  PROVE  TypeOK'
  <1>1. CASE UNCHANGED vars
    BY <1>1 DEF IInv, TypeOK, vars, subVars, senderVars, prunerVars, closeVars
  <1>2. CASE Next
    BY <1>2, SubStepTypes, SenderStepTypes, PrunerStepTypes, CloseStepTypes, TypeParts
       DEF Next, IInv
  <1>3. QED BY <1>1, <1>2

-----------------------------------------------------------------------------
(* The lock, and the slice under it.                                       *)

LEMMA MutexStep ==
  ASSUME IInv, [Next]_vars
  PROVE  MutexInv'
  <1> USE DEF IInv, TypeOK, MutexInv, Holds
  <1>1. CASE spc' = spc /\ (ppc' = ppc \/ ppc' # "deleting")
    BY <1>1
  <1>2. ASSUME NEW s \in Senders, SenderStep(s)
        PROVE  MutexInv'
    <2>1. ppc' = ppc /\ \A t \in Senders \ {s} : spc'[t] = spc[t]
      BY <1>2 DEF SenderStep, Publish, Look, Send, Published, prunerVars, senderVars
    <2>2. CASE Publish(s)
      BY <2>1, <2>2 DEF Publish, MayPublish, LockFree
    <2>3. CASE Look(s) \/ Send(s) \/ Published(s)
      BY <2>1, <2>3 DEF Look, Send, Published
    <2>4. QED BY <1>2, <2>2, <2>3 DEF SenderStep
  <1>3. CASE PrunerLock
    BY <1>3 DEF PrunerLock, LockFree, senderVars
  <1>4. QED
    <2>1. CASE UNCHANGED vars
      BY <2>1, <1>1 DEF vars, senderVars, prunerVars
    <2>2. CASE Next
      BY <2>2, <1>1, <1>2, <1>3
         DEF Next, SubStep, Subscribe, Wait, ReadZero, ScriptReadsZero, Leave, ScriptEnds,
             Cancelled, PrunerStep, PrunerWork, PrunerTick, PrunerConns, PrunerExit, PrunerUnlock, PrunerLook,
             PrunerDelete, CloseStep, CloseStart, CloseCancel, CloseClose, CloseDone, senderVars,
             prunerVars
    <2>3. QED BY <2>1, <2>2

LEMMA SubMonotone ==
  ASSUME IInv, [Next]_vars
  PROVE  \A c \in Subs : sub[c] # "none" => sub'[c] # "none"
  BY DEF IInv, TypeOK, Next, vars, SubStep, Subscribe, Wait, ReadZero, ScriptReadsZero, Leave,
         ScriptEnds, Cancelled, SenderStep, Publish, Look, Send, Published, PrunerStep,
         PrunerWork, PrunerTick, PrunerConns, PrunerExit, PrunerLock, PrunerUnlock, PrunerLook, PrunerDelete,
         CloseStep, CloseStart, CloseCancel, CloseClose, CloseDone, subVars

LEMMA SliceDelete ==
  ASSUME IInv, NEW i \in range, PrunerDelete(i), i <= Len(rcChan)
  PROVE  SliceInv'
  <1> DEFINE n == Len(rcChan)
  <1>1. /\ i \in 1..n /\ DOMAIN rcChan = 1..n /\ DOMAIN rcChan' = 1..n - 1 /\ n \in Nat /\ sub' = sub
        /\ \A j \in 1..n - 1 : rcChan'[j] = IF j = i THEN rcChan[n] ELSE rcChan[j]
    BY Deletion DEF IInv
  <1>2. /\ \A j, l \in 1..n : rcChan[j] = rcChan[l] => j = l
        /\ \A j \in 1..n : sub[rcChan[j]] # "none"
    BY <1>1 DEF IInv, SliceInv, IsInjective
  <1> HIDE DEF n
  <1>3. ASSUME NEW j \in 1..n - 1
        PROVE  \E k \in 1..n : rcChan'[j] = rcChan[k] /\ k = IF j = i THEN n ELSE j
    BY <1>1
  <1>4. \A j, l \in 1..n - 1 : rcChan'[j] = rcChan'[l] => j = l
    BY <1>1, <1>2, <1>3
  <1>5. \A j \in 1..n - 1 : sub'[rcChan'[j]] # "none"
    BY <1>1, <1>2, <1>3
  <1>6. QED BY <1>1, <1>4, <1>5 DEF SliceInv, IsInjective

LEMMA SliceStep ==
  ASSUME IInv, [Next]_vars
  PROVE  SliceInv'
  <1> USE DEF IInv, TypeOK, SliceInv, IsInjective
  <1>1. CASE rcChan' = rcChan
    BY <1>1, SubMonotone
  <1>2. ASSUME NEW c \in Subs, Subscribe(c)
        PROVE  SliceInv'
    <2>1. /\ rcChan' = Append(rcChan, c) /\ sub[c] = "none" /\ sub'[c] # "none"
      BY <1>2 DEF Subscribe
    <2>2. /\ DOMAIN rcChan' = 1..Len(rcChan) + 1 /\ DOMAIN rcChan = 1..Len(rcChan)
          /\ \A i \in DOMAIN rcChan : rcChan'[i] = rcChan[i] /\ rcChan[i] \in Subs
          /\ rcChan'[Len(rcChan) + 1] = c
      BY <2>1
    <2>3. QED BY <2>1, <2>2, SubMonotone
  <1>3. QED BY <1>1, <1>2, SliceDelete, Frame

(* A living channel is not among those that are removed.                   *)
LEMMA LiveDelete ==
  ASSUME IInv, NEW i \in range, PrunerDelete(i), i <= Len(rcChan)
  PROVE  LiveStaysSubscribed'
  <1> DEFINE n == Len(rcChan)
  <1>1. /\ i \in 1..n /\ DOMAIN rcChan = 1..n /\ DOMAIN rcChan' = 1..n - 1 /\ n \in Nat
        /\ \A j \in 1..n - 1 : rcChan'[j] = IF j = i THEN rcChan[n] ELSE rcChan[j]
        /\ rcChan[i] \in cancelled /\ UNCHANGED <<cancelled, sub>>
    BY Deletion DEF IInv
  <1> HIDE DEF n
  <1>2. ASSUME NEW j \in 1..n, j # i
        PROVE  \E k \in 1..n - 1 : rcChan'[k] = rcChan[j]
    <2>1. CASE j = n
      BY <1>1, <1>2, <2>1
    <2>2. CASE j # n
      BY <1>1, <1>2, <2>2
    <2>3. QED BY <2>1, <2>2
  <1>3. ASSUME NEW c \in Subs, sub'[c] # "none", c \notin cancelled'
        PROVE  \E k \in DOMAIN rcChan' : rcChan'[k] = c
    <2>1. PICK j \in 1..n : rcChan[j] = c
      BY <1>1, <1>3 DEF IInv, LiveStaysSubscribed
    <2>2. j # i
      BY <1>1, <1>3, <2>1
    <2>3. QED BY <1>1, <1>2, <2>1, <2>2
  <1>4. QED BY <1>3 DEF LiveStaysSubscribed

LEMMA LiveStep ==
  ASSUME IInv, [Next]_vars
  PROVE  LiveStaysSubscribed'
  <1> USE DEF IInv, TypeOK, LiveStaysSubscribed
  <1>1. \A c \in Subs : c \notin cancelled' => c \notin cancelled
    BY Frame
  <1>2. \A c \in Subs : sub'[c] # "none" => sub[c] # "none" \/ Subscribe(c)
    BY DEF Next, vars, SubStep, Subscribe, Wait, ReadZero, ScriptReadsZero, Leave, ScriptEnds,
           Cancelled, SenderStep, Publish, Look, Send, Published, PrunerStep, PrunerWork,
           PrunerTick, PrunerConns, PrunerExit, PrunerLock, PrunerUnlock, PrunerLook, PrunerDelete, CloseStep,
           CloseStart, CloseCancel, CloseClose, CloseDone, subVars
  <1>3. CASE rcChan' = rcChan /\ \A c \in Subs : ~Subscribe(c)
    BY <1>1, <1>2, <1>3
  <1>4. ASSUME NEW c \in Subs, Subscribe(c)
        PROVE  LiveStaysSubscribed'
    <2>1. rcChan' = Append(rcChan, c) /\ sub' = [sub EXCEPT ![c] = "busy"]
      BY <1>4 DEF Subscribe
    <2>2. /\ DOMAIN rcChan \subseteq DOMAIN rcChan' /\ Len(rcChan) + 1 \in DOMAIN rcChan'
          /\ \A i \in DOMAIN rcChan : rcChan'[i] = rcChan[i]
          /\ rcChan'[Len(rcChan) + 1] = c
      BY <2>1
    <2>3. \A d \in Subs \ {c} : sub'[d] = sub[d]
      BY <2>1
    <2>4. QED BY <1>1, <2>2, <2>3
  <1>5. QED BY <1>3, <1>4, LiveDelete, Frame

-----------------------------------------------------------------------------
(* The order of the packets.                                               *)

LEMMA GotSame ==
  ASSUME got' = got
  PROVE  \A c, s, t : (Given(c, s)' <=> Given(c, s)) /\ (Before(c, s, t)' <=> Before(c, s, t))
  BY DEF Given, Before

(* A sender gives its packet to the channel at its index, and goes on.     *)
LEMMA Delivery ==
  ASSUME IInv, NEW s \in Senders, Send(s), NEW c \in Subs, NEW q \in Senders, NEW t \in Senders
  PROVE  LET here == c = rcChan[si[s]] /\ si' = [si EXCEPT ![s] = si[s] + 1]
         IN  /\ Given(c, q)' => Given(c, q) \/ (q = s /\ here)
             /\ Before(c, q, t)' => Before(c, q, t) \/ (t = s /\ here /\ Given(c, q))
  <1> DEFINE old == got[c]
             new == got'[c]
  <1>1. got \in [Subs -> Seq(Senders)] /\ old \in Seq(Senders)
    BY DEF IInv, TypeOK
  <1>2. \/ got' = got
        \/ got' = [got EXCEPT ![rcChan[si[s]]] = Append(@, s)] /\ si' = [si EXCEPT ![s] = si[s] + 1]
    BY DEF Send
  <1>3. CASE new = old
    BY <1>3 DEF Given, Before
  <1>4. CASE new # old
    <2>1. new = Append(old, s) /\ c = rcChan[si[s]] /\ si' = [si EXCEPT ![s] = si[s] + 1]
      BY <1>1, <1>2, <1>4
    <2>2. /\ DOMAIN new = 1..Len(old) + 1 /\ DOMAIN old = 1..Len(old) /\ Len(old) \in Nat
          /\ \A i \in DOMAIN old : new[i] = old[i]
          /\ new[Len(old) + 1] = s
      BY <1>1, <2>1
    <2>3. \A i \in DOMAIN new : i \in DOMAIN old \/ i = Len(old) + 1
      BY <2>2
    <2> HIDE DEF old, new
    <2>4. \A i, j \in DOMAIN new : i < j => i \in DOMAIN old
      BY <2>2
    <2>5. (\E i \in DOMAIN new : new[i] = q) => (\E i \in DOMAIN old : old[i] = q) \/ q = s
      BY <2>2, <2>3
    <2>6. (\E i, j \in DOMAIN new : i < j /\ new[i] = q /\ new[j] = t)
            => \/ \E i, j \in DOMAIN old : i < j /\ old[i] = q /\ old[j] = t
               \/ t = s /\ \E i \in DOMAIN old : old[i] = q
      BY <2>2, <2>3, <2>4
    <2>7. QED BY <2>1, <2>5, <2>6 DEF Given, Before, old, new
  <1>5. QED BY <1>3, <1>4

(* While a sender is at it, nobody touches the slice.                      *)
LEMMA Locked ==
  ASSUME IInv, [Next]_vars
  PROVE  rcChan' = rcChan \/ \A s \in Senders : ~Holds(s)
  <1>1. \A c \in Subs : Subscribe(c) => \A s \in Senders : ~Holds(s)
    BY DEF Subscribe, LockFree, Holds
  <1>2. \A i \in range : PrunerDelete(i) => \A s \in Senders : ~Holds(s)
    BY DEF PrunerDelete, IInv, MutexInv
  <1>3. QED BY <1>1, <1>2, Frame

LEMMA SendStep ==
  ASSUME IInv, [Next]_vars
  PROVE  SendInv'
  <1>1. CASE spc' = spc /\ si' = si /\ got' = got
    <2>1. \A s \in Senders : Holds(s)' <=> Holds(s)
      BY <1>1 DEF Holds
    <2>2. \A c \in Subs, s \in Senders : Given(c, s)' <=> Given(c, s)
      BY <1>1, GotSame
    <2>3. CASE rcChan' = rcChan
      BY <2>1, <2>2, <2>3, <1>1 DEF IInv, SendInv
    <2>4. CASE \A s \in Senders : ~Holds(s)
      BY <2>1, <2>2, <2>4, <1>1 DEF IInv, SendInv, Holds
    <2>5. QED BY <2>3, <2>4, Locked
  <1>2. ASSUME NEW s \in Senders, SenderStep(s)
        PROVE  SendInv'
    <2>1. /\ rcChan' = rcChan /\ rcChan \in Seq(Subs) /\ Len(rcChan) \in Nat /\ si[s] \in Nat /\ si[s] >= 1
          /\ \A t \in Senders \ {s} : spc'[t] = spc[t] /\ si'[t] = si[t]
      BY <1>2 DEF SenderStep, Publish, Look, Send, Published, IInv, TypeOK, SendInv
    <2>2. \/ spc[s] = "idle" /\ spc'[s] = "publishing" /\ si'[s] = si[s] /\ got' = got
          \/ /\ spc[s] = "publishing" /\ spc'[s] = "publishing" /\ si'[s] = si[s] + 1 /\ got' = got
          \/ /\ spc[s] = "publishing" /\ spc'[s] = "sending" /\ si'[s] = si[s] /\ got' = got
             /\ si[s] <= Len(rcChan)
          \/ Send(s) /\ spc[s] = "sending" /\ spc'[s] = spc[s] /\ si' = si /\ got' = got
          \/ Send(s) /\ spc[s] = "sending" /\ spc'[s] = "publishing" /\ si'[s] = si[s] + 1
          \/ spc[s] = "publishing" /\ spc'[s] = "done" /\ si'[s] = 1 /\ got' = got
      BY <1>2 DEF SenderStep, Publish, Look, Send, Published, IInv, TypeOK, subVars
    <2>3. \A c \in Subs, t \in Senders :
            Given(c, t)' => Given(c, t) \/ (t = s /\ c = rcChan[si[s]] /\ si'[s] = si[s] + 1
                                                   /\ spc[s] = "sending" /\ spc'[s] = "publishing")
      <3>1. CASE got' = got
        BY <3>1, GotSame
      <3>2. CASE Send(s) /\ spc[s] = "sending" /\ spc'[s] = "publishing" /\ si'[s] = si[s] + 1
        BY <3>2, Delivery
      <3>3. QED BY <3>1, <3>2, <2>2
    <2>4. ASSUME NEW t \in Senders, NEW c \in Subs, Given(c, t)'
          PROVE  spc'[t] = "done" \/ (Holds(t)' /\ \E i \in DOMAIN rcChan' : i < si'[t] /\ rcChan'[i] = c)
      <3>1. CASE t # s
        BY <3>1, <2>1, <2>3, <2>4 DEF IInv, SendInv, Holds
      <3>2. CASE t = s /\ Given(c, s)
        <4>1. spc[s] = "done" \/ (Holds(s) /\ \E i \in DOMAIN rcChan : i < si[s] /\ rcChan[i] = c)
          BY <3>2 DEF IInv, SendInv
        <4>2. PICK i \in DOMAIN rcChan : i < si[s] /\ rcChan[i] = c
          BY <4>1, <2>2 DEF Holds
        <4>3. i < si'[s] \/ spc'[s] = "done"
          BY <4>2, <2>1, <2>2
        <4>4. QED BY <3>2, <4>2, <4>3, <2>1, <2>2 DEF Holds
      <3>3. CASE t = s /\ c = rcChan[si[s]] /\ si'[s] = si[s] + 1 /\ spc[s] = "sending" /\ spc'[s] = "publishing"
        <4>1. si[s] \in DOMAIN rcChan /\ si[s] < si'[s]
          BY <3>3, <2>1 DEF IInv, SendInv
        <4>2. QED BY <3>3, <4>1, <2>1 DEF Holds
      <3>4. QED BY <3>1, <3>2, <3>3, <2>3, <2>4
    <2>5. ASSUME NEW t \in Senders
          PROVE  si'[t] >= 1 /\ (spc'[t] = "sending" => si'[t] <= Len(rcChan'))
      BY <2>1, <2>2 DEF IInv, SendInv
    <2>6. QED BY <2>4, <2>5 DEF SendInv
  <1>3. QED BY <1>1, <1>2, Frame

LEMMA OrderStep ==
  ASSUME IInv, [Next]_vars
  PROVE  OvertakenInv' /\ SameOrder'
  <1>1. \A s \in Senders : spc[s] = "done" => spc'[s] = "done"
    <2>1. ASSUME NEW s \in Senders, SenderStep(s), NEW t \in Senders, spc[t] = "done"
          PROVE  spc'[t] = "done"
      BY <2>1 DEF SenderStep, Publish, Look, Send, Published, IInv, TypeOK
    <2>2. QED BY <2>1, Frame
  <1>2. CASE got' = got
    BY <1>1, <1>2, GotSame DEF IInv, OvertakenInv, SameOrder
  <1>3. ASSUME NEW s \in Senders, Send(s)
        PROVE  OvertakenInv' /\ SameOrder'
    <2>1. spc[s] = "sending" /\ Holds(s) /\ si[s] \in DOMAIN rcChan
      BY <1>3 DEF Send, Holds, IInv, SendInv, TypeOK
    <2>2. \A c \in Subs : c = rcChan[si[s]] => ~Given(c, s)
      <3>1. \A i \in DOMAIN rcChan : i < si[s] => rcChan[i] # rcChan[si[s]]
        BY <2>1 DEF IInv, TypeOK, SliceInv, IsInjective
      <3>2. QED BY <2>1, <3>1 DEF IInv, SendInv
    <2>3. \A c \in Subs, q \in Senders : Given(c, q) /\ q # s => spc[q] = "done"
      BY <2>1 DEF IInv, SendInv, MutexInv
    <2>4. \A c \in Subs, q, t \in Senders :
            Before(c, q, t)' => Before(c, q, t) \/ (t = s /\ q # s /\ spc[q] = "done")
      BY <1>3, <2>2, <2>3, Delivery
    <2>5. OvertakenInv'
      BY <1>1, <2>4 DEF IInv, OvertakenInv
    <2>6. ASSUME NEW c \in Subs, NEW d \in Subs, NEW q \in Senders, NEW t \in Senders,
                 Before(c, q, t)', Before(d, t, q)'
          PROVE  FALSE
      <3>1. Before(c, q, t) => q # t /\ spc[q] = "done"
        BY DEF IInv, OvertakenInv
      <3>2. Before(d, t, q) => q # t /\ spc[t] = "done"
        BY DEF IInv, OvertakenInv
      <3>3. ~(Before(c, q, t) /\ Before(d, t, q))
        BY DEF IInv, SameOrder
      <3>4. QED BY <2>1, <2>4, <2>6, <3>1, <3>2, <3>3
    <2>7. QED BY <2>5, <2>6 DEF SameOrder
  <1>4. QED BY <1>2, <1>3, Frame DEF SenderStep, Publish, Look, Published, subVars

-----------------------------------------------------------------------------
(* The pruner's indices, and what can stop the program.                    *)

LEMMA PrunerStepInv ==
  ASSUME IInv, [Next]_vars
  PROVE  PrunerInv'
  <1>1. cancelled \subseteq cancelled'
    BY Frame
  <1>2. ASSUME NEW c \in Subs, Subscribe(c)
        PROVE  PrunerInv'
    <2>1. rcChan' = Append(rcChan, c) /\ UNCHANGED <<ppc, keys, range>> /\ ppc # "deleting"
      BY <1>2 DEF Subscribe, prunerVars, LockFree
    <2>2. /\ DOMAIN rcChan \subseteq DOMAIN rcChan'
          /\ \A i \in DOMAIN rcChan : rcChan'[i] = rcChan[i]
      BY <2>1 DEF IInv, TypeOK
    <2>3. QED BY <1>1, <2>1, <2>2 DEF IInv, PrunerInv
  <1>3. CASE rcChan' = rcChan /\ UNCHANGED <<ppc, keys, range>>
    BY <1>1, <1>3 DEF IInv, PrunerInv, TwoDead
  <1>4. CASE PrunerConns
    BY <1>4 DEF PrunerConns, IInv, PrunerInv
  <1>5. CASE PrunerTick \/ PrunerExit \/ PrunerUnlock
    BY <1>5 DEF PrunerTick, PrunerExit, PrunerUnlock, IInv, PrunerInv
  <1>6. CASE PrunerLock
    <2>1. keys \subseteq DOMAIN rcChan /\ DOMAIN rcChan = 1..Len(rcChan) /\ Len(rcChan) \in Nat
          /\ \A i \in keys : rcChan[i] \in cancelled
      BY <1>6 DEF PrunerLock, IInv, TypeOK, PrunerInv
    <2>2. QED BY <1>6, <2>1 DEF PrunerLock, PrunerInv
  <1>7. ASSUME NEW i \in range, PrunerLook(i)
        PROVE  PrunerInv'
    <2>1. /\ rcChan' = rcChan /\ cancelled' = cancelled /\ range' \subseteq range
          /\ ppc = "looking" /\ ppc' = ppc
      BY <1>7 DEF PrunerLook
    <2>2. keys' \subseteq keys \cup {i} /\ (i \in keys' => i \in keys \/ rcChan[i] \in cancelled)
      BY <1>7 DEF PrunerLook, Key
    <2>3. QED BY <2>1, <2>2 DEF IInv, PrunerInv
  <1>8. ASSUME NEW i \in range, PrunerDelete(i)
        PROVE  PrunerInv'
    <2>1. /\ ppc = "deleting" /\ ppc' = ppc /\ keys' = keys /\ range' = range \ {i}
          /\ range \subseteq keys /\ cancelled' = cancelled
      BY <1>8 DEF PrunerDelete, IInv, PrunerInv
    <2>2. CASE ~(i <= Len(rcChan))
      <3>1. rcChan' = rcChan
        BY <1>8, <2>2 DEF PrunerDelete
      <3>2. QED BY <2>1, <3>1 DEF IInv, PrunerInv, TwoDead
    <2>3. CASE i <= Len(rcChan)
      <3>1. /\ Len(rcChan) \in Nat /\ Len(rcChan') = Len(rcChan) - 1
            /\ \A j \in 1..Len(rcChan) - 1 :
                 rcChan'[j] = IF j = i THEN rcChan[Len(rcChan)] ELSE rcChan[j]
        BY <1>8, <2>3, Deletion DEF IInv
      <3>2. ASSUME NEW j \in range'
            PROVE  j \in Nat /\ j # i /\ j >= 1 /\ (j <= Len(rcChan) => rcChan[j] \in cancelled)
        BY <2>1 DEF IInv, TypeOK, PrunerInv
      <3>3. ASSUME NEW j \in range'
            PROVE  TwoDead'
        BY <2>1, <3>2 DEF TwoDead
      <3>4. ASSUME NEW j \in range', j <= Len(rcChan')
            PROVE  rcChan'[j] \in cancelled'
        BY <2>1, <3>1, <3>2, <3>4
      <3>5. QED BY <2>1, <3>2, <3>3, <3>4 DEF PrunerInv
    <2>4. QED BY <2>2, <2>3
  <1>9. CASE UNCHANGED <<ppc, keys, range>>
    BY <1>2, <1>3, <1>8, <1>9, Frame
  <1>10. QED BY <1>4, <1>5, <1>6, <1>7, <1>8, <1>9, Frame DEF PrunerStep, PrunerWork

-----------------------------------------------------------------------------
(* What Close ranges over.                                                 *)

(* A write to the slice, as a Close sees it.                               *)
LEMMA Through ==
  ASSUME TypeOK, NEW i \in Nat, NEW c \in Subs, WritesThrough(i, c), NEW k \in Closers
  PROVE  /\ DOMAIN kslice'[k] = DOMAIN kslice[k]
         /\ \A j \in DOMAIN kslice[k] :
              kslice'[k][j] = kslice[k][j] \/ (j = i /\ kslice'[k][j] = c)
         /\ UNCHANGED <<kpc, kv, ki>>
  <1>1. kslice[k] \in Seq(Subs)
    BY DEF TypeOK
  <1>2. kslice'[k] = kslice[k] \/ kslice'[k] = [kslice[k] EXCEPT ![i] = c]
    BY DEF WritesThrough
  <1>3. QED BY <1>1, <1>2 DEF WritesThrough

(* The channel that the pruner moves has subscribed.                       *)
LEMMA Moved ==
  ASSUME IInv, NEW i \in range, PrunerDelete(i), i <= Len(rcChan)
  PROVE  /\ i \in Nat /\ WritesThrough(i, Last(rcChan))
         /\ Last(rcChan) = rcChan[Len(rcChan)] /\ Last(rcChan) \in Subs
         /\ sub[Last(rcChan)] # "none"
  <1>1. i \in 1..Len(rcChan) /\ DOMAIN rcChan = 1..Len(rcChan) /\ Len(rcChan) \in Nat
    BY Deletion DEF IInv
  <1>2. Last(rcChan) = rcChan[Len(rcChan)] /\ Len(rcChan) \in DOMAIN rcChan
    BY <1>1 DEF Last
  <1>3. QED BY <1>1, <1>2 DEF PrunerDelete, IInv, TypeOK, SliceInv

LEMMA CloseStepInv ==
  ASSUME IInv, [Next]_vars
  PROVE  CloseInv'
  <1> USE DEF subVars, senderVars, prunerVars, closeVars
  <1>1. ASSUME UNCHANGED <<kpc, kv, kslice, ki, cancelled, closed>>
        PROVE  CloseInv'
    BY <1>1, SubMonotone DEF IInv, TypeOK, CloseInv
  <1>2. ASSUME NEW i \in Nat, NEW c \in Subs, WritesThrough(i, c), sub'[c] # "none",
               UNCHANGED <<cancelled, closed>>
        PROVE  CloseInv'
    <2>1. \A k \in Closers : DOMAIN kslice'[k] = DOMAIN kslice[k]
          /\ \A j \in DOMAIN kslice[k] : kslice'[k][j] = kslice[k][j] \/ kslice'[k][j] = c
      BY <1>2, Through DEF IInv
    <2>2. \A k \in Closers : \A j \in DOMAIN kslice[k] : kslice[k][j] \in Subs
      BY DEF IInv, TypeOK
    <2>3. UNCHANGED <<kpc, kv, ki>>
      BY <1>2 DEF WritesThrough
    <2>4. \A k \in Closers : \A j \in DOMAIN kslice'[k] : sub'[kslice'[k][j]] # "none"
      BY <1>2, <2>1, <2>2, SubMonotone DEF IInv, CloseInv
    <2>5. QED BY <1>2, <2>3, <2>4, SubMonotone DEF IInv, TypeOK, CloseInv
  <1>3. ASSUME NEW c \in Subs, SubStep(c)
        PROVE  CloseInv'
    <2>1. CASE Subscribe(c)
      <3>1. Len(rcChan) + 1 \in Nat /\ sub'[c] # "none"
        BY <2>1 DEF Subscribe, IInv, TypeOK
      <3>2. QED BY <1>2, <2>1, <3>1 DEF Subscribe
    <2>2. CASE Wait(c) \/ ReadZero(c) \/ ScriptReadsZero(c)
      BY <1>1, <2>2 DEF Wait, ReadZero, ScriptReadsZero
    <2>3. CASE Leave(c) \/ ScriptEnds(c)
      <3>1. /\ UNCHANGED <<closed, kpc, kv, kslice, ki>> /\ cancelled' = cancelled \cup {c}
            /\ sub'[c] # "none"
        BY <2>3 DEF Leave, ScriptEnds, Cancelled, IInv, TypeOK
      <3>2. QED BY <3>1, SubMonotone DEF IInv, TypeOK, CloseInv
    <2>4. QED BY <1>3, <2>1, <2>2, <2>3 DEF SubStep
  <1>4. ASSUME NEW s \in Senders, SenderStep(s)
        PROVE  CloseInv'
    BY <1>1, <1>4 DEF SenderStep, Publish, Look, Send, Published
  <1>5. ASSUME PrunerStep
        PROVE  CloseInv'
    <2>1. ASSUME NEW i \in range, PrunerDelete(i), i <= Len(rcChan)
          PROVE  CloseInv'
      <3>1. sub' = sub /\ UNCHANGED <<cancelled, closed>>
        BY <2>1 DEF PrunerDelete
      <3>2. QED BY <1>2, <2>1, <3>1, Moved
    <2>2. QED BY <1>1, <1>5, <2>1
              DEF PrunerStep, PrunerWork, PrunerTick, PrunerConns, PrunerExit, PrunerLock,
                  PrunerUnlock, PrunerLook, PrunerDelete
  <1>6. ASSUME NEW k \in Closers, CloseStep(k)
        PROVE  CloseInv'
    <2> USE DEF IInv, TypeOK, CloseInv
    <2>1. CASE CloseStart(k)
      BY <2>1 DEF CloseStart, SliceInv
    <2>2. CASE CloseCancel(k)
      BY <2>2 DEF CloseCancel, CancelledFirst
    <2>3. CASE CloseClose(k)
      BY <2>3 DEF CloseClose
    <2>4. CASE CloseDone(k)
      BY <2>4 DEF CloseDone
    <2>5. QED BY <1>6, <2>1, <2>2, <2>3, <2>4 DEF CloseStep
  <1>7. QED
    <2>1. CASE UNCHANGED vars
      BY <1>1, <2>1 DEF vars
    <2>2. CASE Next
      BY <1>3, <1>4, <1>5, <1>6, <2>2 DEF Next
    <2>3. QED BY <2>1, <2>2

-----------------------------------------------------------------------------
(* A Close that is alone, and what can stop the program.                   *)

Ranging(k) ==
  /\ \A i \in DOMAIN rcChan : rcChan[i] \in cancelled => Passed(k, i)
  /\ \A i \in ToCome(k) :
       /\ kslice[k][i] \notin cancelled
       /\ \A j \in ToCome(k) : kslice[k][j] = kslice[k][i] => j = i
       /\ \A j \in DOMAIN rcChan : rcChan[j] = kslice[k][i] => j <= i

Alone(k) ==
  /\ kpc[k] = "idle" => cancelled = {}
  /\ kpc[k] = "cancelled" => ~(kv[k] \subseteq closed)
  /\ kpc[k] \in {"closing", "cancelled"} => Ranging(k)

LEMMA SoloAlone ==
  /\ SoloInv <=> \A k \in Closers : Solo(k) => Alone(k)
  /\ SoloInv' <=> \A k \in Closers : Solo(k)' => Alone(k)'
  BY DEF SoloInv, Alone, Ranging

(* Who is alone has always been.                                           *)
LEMMA SoloBefore ==
  ASSUME IInv, [Next]_vars, NEW k \in Closers, Solo(k)'
  PROVE  Solo(k) /\ \A l \in Closers \ {k} : kpc[l] = kpc'[l] /\ ~CloseStep(l)
  <1> USE DEF IInv, TypeOK
  <1>1. \A c \in Subs : sub[c] = "gone" => sub'[c] = "gone"
    BY DEF Next, vars, SubStep, Subscribe, Wait, ReadZero, ScriptReadsZero, Leave,
           ScriptEnds, Cancelled, SenderStep, Publish, Look, Send, Published, PrunerStep,
           PrunerWork, PrunerTick, PrunerConns, PrunerExit, PrunerLock, PrunerUnlock,
           PrunerLook, PrunerDelete, CloseStep, CloseStart, CloseCancel, CloseClose, CloseDone,
           subVars
  <1>2. ASSUME NEW l \in Closers, CloseStep(l)
        PROVE  Started(l)' /\ \A m \in Closers \ {l} : kpc'[m] = kpc[m]
    BY <1>2 DEF CloseStep, CloseStart, CloseCancel, CloseClose, CloseDone, Started
  <1>3. \A l \in Closers : Started(l) => Started(l)'
    BY <1>2, Frame DEF Started
  <1>4. QED BY <1>1, <1>2, <1>3, Frame DEF Solo, SomeLeft, Started

(* A new channel is alive, and nobody has seen it before.                  *)
LEMMA SoloSubscribe ==
  ASSUME IInv, NEW c \in Subs, Subscribe(c), NEW k \in Closers, Alone(k)
  PROVE  Alone(k)'
  <1> DEFINE n == Len(rcChan)
  <1>1. /\ rcChan' = Append(rcChan, c) /\ WritesThrough(n + 1, c) /\ n + 1 \in Nat
        /\ sub[c] = "none" /\ UNCHANGED <<cancelled, closed>>
    BY DEF Subscribe, IInv, TypeOK
  <1>2. /\ DOMAIN rcChan = 1..n /\ DOMAIN rcChan' = 1..n + 1 /\ n \in Nat /\ rcChan'[n + 1] = c
        /\ \A j \in 1..n : rcChan'[j] = rcChan[j] /\ rcChan[j] # c
    BY <1>1 DEF IInv, TypeOK, SliceInv
  <1>3. /\ DOMAIN kslice'[k] = DOMAIN kslice[k] /\ UNCHANGED <<kpc, kv, ki>>
        /\ \A j \in DOMAIN kslice[k] :
             kslice'[k][j] = kslice[k][j] \/ (j = n + 1 /\ kslice'[k][j] = c)
    BY <1>1, Through DEF IInv
  <1>4. c \notin cancelled /\ \A j \in DOMAIN kslice[k] : kslice[k][j] # c
    BY <1>1 DEF IInv, CloseInv
  <1> HIDE DEF n
  <1>5. ToCome(k)' = ToCome(k) /\ ToCome(k) \subseteq DOMAIN kslice[k]
        /\ \A i : Passed(k, i)' <=> Passed(k, i)
    BY <1>3 DEF ToCome, Passed
  <1>6. ASSUME Ranging(k)
        PROVE  Ranging(k)'
    <2>1. \A i \in DOMAIN rcChan' : rcChan'[i] \in cancelled' => Passed(k, i)'
      BY <1>1, <1>2, <1>4, <1>5, <1>6 DEF Ranging
    <2>2. ASSUME NEW i \in ToCome(k)
          PROVE  kslice'[k][i] \notin cancelled'
      BY <1>1, <1>3, <1>4, <1>5, <1>6 DEF Ranging
    <2>3. ASSUME NEW i \in ToCome(k), NEW j \in ToCome(k), kslice'[k][j] = kslice'[k][i]
          PROVE  j = i
      BY <1>3, <1>4, <1>5, <1>6, <2>3 DEF Ranging
    <2>4. ASSUME NEW i \in ToCome(k), NEW j \in DOMAIN rcChan', rcChan'[j] = kslice'[k][i]
          PROVE  j <= i
      <3>1. CASE kslice'[k][i] = kslice[k][i]
        <4>1. j \in 1..n
          BY <1>2, <1>4, <1>5, <2>4, <3>1
        <4>2. QED BY <1>2, <1>5, <1>6, <2>4, <3>1, <4>1 DEF Ranging
      <3>2. CASE i = n + 1 /\ kslice'[k][i] = c
        BY <1>2, <2>4, <3>2
      <3>3. QED BY <1>3, <1>5, <3>1, <3>2
    <2>5. QED BY <1>5, <2>1, <2>2, <2>3, <2>4 DEF Ranging
  <1>7. QED BY <1>1, <1>3, <1>6 DEF Alone

(* The pruner puts a living channel where Close has passed.                *)
LEMMA SoloDelete ==
  ASSUME IInv, NEW i \in range, PrunerDelete(i), i <= Len(rcChan), NEW k \in Closers, Alone(k)
  PROVE  Alone(k)'
  <1> DEFINE n == Len(rcChan)
  <1>1. /\ i \in 1..n /\ DOMAIN rcChan = 1..n /\ DOMAIN rcChan' = 1..n - 1 /\ n \in Nat
        /\ \A j \in 1..n - 1 : rcChan'[j] = IF j = i THEN rcChan[n] ELSE rcChan[j]
        /\ rcChan[i] \in cancelled /\ cancelled' = cancelled
    BY Deletion DEF IInv
  <1>2. /\ DOMAIN kslice'[k] = DOMAIN kslice[k] /\ UNCHANGED <<kpc, kv, ki>>
        /\ \A j \in DOMAIN kslice[k] : j # i => kslice'[k][j] = kslice[k][j]
    BY Moved, Through DEF IInv
  <1>3. closed' = closed
    BY DEF PrunerDelete
  <1> HIDE DEF n
  <1>4. ToCome(k)' = ToCome(k) /\ ToCome(k) \subseteq DOMAIN kslice[k]
        /\ \A j : Passed(k, j)' <=> Passed(k, j)
    BY <1>2 DEF ToCome, Passed
  <1>5. ASSUME Ranging(k)
        PROVE  Ranging(k)'
    <2>1. Passed(k, i) /\ i \notin ToCome(k)
      BY <1>1, <1>5 DEF Ranging, ToCome
    <2>2. \A j \in ToCome(k) : kslice'[k][j] = kslice[k][j]
      BY <1>2, <1>4, <2>1
    <2>3. \A j \in DOMAIN rcChan' : rcChan'[j] \in cancelled' => Passed(k, j)'
      BY <1>1, <1>4, <1>5, <2>1 DEF Ranging
    <2>4. ASSUME NEW x \in ToCome(k), NEW j \in DOMAIN rcChan', rcChan'[j] = kslice[k][x]
          PROVE  j <= x
      <3>1. x \in Nat
        BY <1>4 DEF IInv, TypeOK
      <3>2. CASE j = i
        <4>1. rcChan[n] = kslice[k][x] /\ n \in DOMAIN rcChan
          BY <1>1, <2>4, <3>2
        <4>2. n <= x
          BY <1>5, <4>1 DEF Ranging
        <4>3. QED BY <1>1, <3>1, <3>2, <4>2
      <3>3. CASE j # i
        BY <1>1, <1>5, <2>4, <3>3 DEF Ranging
      <3>4. QED BY <3>2, <3>3
    <2>5. QED BY <1>1, <1>4, <1>5, <2>2, <2>3, <2>4 DEF Ranging
  <1>6. QED BY <1>1, <1>2, <1>3, <1>5 DEF Alone

LEMMA SoloClose ==
  ASSUME IInv, NEW k \in Closers, CloseStep(k), Alone(k)
  PROVE  Alone(k)'
  <1> USE DEF Ranging, Passed, ToCome
  <1>1. /\ ki[k] \in Nat /\ DOMAIN kslice[k] = 1..Len(kslice[k]) /\ Len(kslice[k]) \in Nat
        /\ DOMAIN rcChan = 1..Len(rcChan) /\ Len(rcChan) \in Nat
        /\ closed \subseteq cancelled /\ ki[k] >= 1
    BY DEF IInv, TypeOK, CloseInv
  <1>2. rcChan' = rcChan
    BY DEF CloseStep, CloseStart, CloseCancel, CloseClose, CloseDone
  <1>3. CASE CloseStart(k)
    <2>1. kpc'[k] = "closing" /\ kslice'[k] = rcChan /\ cancelled = {} /\ cancelled' = {}
      BY <1>3 DEF CloseStart, Alone, IInv, TypeOK
    <2>2. QED BY <1>1, <1>2, <2>1 DEF Alone, IInv, SliceInv, IsInjective
  <1>4. CASE CloseCancel(k)
    <2> DEFINE c == kslice[k][ki[k]]
    <2>1. /\ kpc[k] = "closing" /\ kpc'[k] = "cancelled" /\ UNCHANGED <<kslice, ki, closed>>
          /\ cancelled' = cancelled \cup {c} /\ kv'[k] = {c} /\ ki[k] \in DOMAIN kslice[k]
      BY <1>1, <1>4 DEF CloseCancel, CancelledFirst, IInv, TypeOK
    <2>2. Ranging(k) /\ ki[k] \in ToCome(k)
      BY <1>1, <2>1 DEF Alone
    <2>3. /\ c \notin cancelled
          /\ \A j \in ToCome(k) : kslice[k][j] = c => j = ki[k]
          /\ \A j \in DOMAIN rcChan : rcChan[j] = c => j <= ki[k]
      BY <2>2
    <2> HIDE DEF c
    <2>4. \A i \in Nat : Passed(k, i)' <=> i <= ki[k]
      BY <1>1, <2>1
    <2>5. \A i \in Nat : Passed(k, i) <=> i < ki[k]
      BY <1>1, <2>1
    <2>6. ToCome(k)' = ToCome(k) \ {ki[k]}
      BY <1>1, <2>1
    <2>7. \A i \in DOMAIN rcChan' : rcChan'[i] \in cancelled' => Passed(k, i)'
      BY <1>1, <1>2, <2>1, <2>2, <2>3, <2>4, <2>5
    <2>8. ASSUME NEW i \in ToCome(k)'
          PROVE  /\ kslice'[k][i] \notin cancelled'
                 /\ \A j \in ToCome(k)' : kslice'[k][j] = kslice'[k][i] => j = i
                 /\ \A j \in DOMAIN rcChan' : rcChan'[j] = kslice'[k][i] => j <= i
      <3>1. i \in ToCome(k) /\ i # ki[k] /\ ToCome(k)' \subseteq ToCome(k)
        BY <2>6
      <3> HIDE DEF ToCome, Passed
      <3>2. QED BY <1>2, <2>1, <2>2, <2>3, <3>1
    <2>9. ~(kv'[k] \subseteq closed')
      BY <1>1, <2>1, <2>3
    <2> HIDE DEF ToCome, Passed
    <2>10. QED BY <2>1, <2>7, <2>8, <2>9 DEF Alone
  <1>5. CASE CloseClose(k)
    <2>1. /\ kpc[k] = "cancelled" /\ kpc'[k] = "closing" /\ ki'[k] = ki[k] + 1
          /\ UNCHANGED <<kslice, cancelled>>
      BY <1>5 DEF CloseClose, IInv, TypeOK
    <2>2. ToCome(k)' = ToCome(k) /\ \A i \in Nat : Passed(k, i)' <=> Passed(k, i)
      BY <1>1, <2>1
    <2>3. Ranging(k)
      BY <2>1 DEF Alone
    <2> HIDE DEF ToCome, Passed
    <2>4. QED BY <1>1, <1>2, <2>1, <2>2, <2>3 DEF Alone
  <1>6. CASE CloseDone(k)
    BY <1>6 DEF CloseDone, Alone, IInv, TypeOK
  <1>7. QED BY <1>3, <1>4, <1>5, <1>6 DEF CloseStep

LEMMA SoloStep ==
  ASSUME IInv, [Next]_vars
  PROVE  SoloInv'
  <1> USE DEF subVars, senderVars, prunerVars, closeVars
  <1> SUFFICES ASSUME NEW k \in Closers, Solo(k)' PROVE Alone(k)'
    BY SoloAlone
  <1>1. Solo(k) /\ Alone(k) /\ \A l \in Closers \ {k} : ~CloseStep(l)
    BY SoloBefore, SoloAlone DEF IInv
  <1>2. ASSUME UNCHANGED <<rcChan, cancelled, closed, kpc, kv, kslice, ki>>
        PROVE  Alone(k)'
    BY <1>1, <1>2 DEF Alone, Ranging, Passed, ToCome
  <1>3. ASSUME NEW c \in Subs, SubStep(c)
        PROVE  Alone(k)'
    <2>1. CASE Wait(c) \/ ReadZero(c) \/ ScriptReadsZero(c)
      BY <1>2, <2>1 DEF Wait, ReadZero, ScriptReadsZero
    <2>2. CASE Leave(c) \/ ScriptEnds(c)
      <3>1. sub'[c] = "gone"
        BY <2>2 DEF Leave, ScriptEnds, Cancelled, IInv, TypeOK
      <3>2. QED BY <3>1 DEF Solo, SomeLeft
    <2>3. QED BY <1>1, <1>3, <2>1, <2>2, SoloSubscribe DEF SubStep
  <1>4. ASSUME NEW s \in Senders, SenderStep(s)
        PROVE  Alone(k)'
    BY <1>2, <1>4 DEF SenderStep, Publish, Look, Send, Published
  <1>5. ASSUME PrunerStep
        PROVE  Alone(k)'
    <2>1. ASSUME NEW i \in range, PrunerDelete(i), i <= Len(rcChan)
          PROVE  Alone(k)'
      BY <1>1, <2>1, SoloDelete
    <2>2. QED BY <1>2, <1>5, <2>1
              DEF PrunerStep, PrunerWork, PrunerTick, PrunerConns, PrunerExit, PrunerLock,
                  PrunerUnlock, PrunerLook, PrunerDelete
  <1>6. QED
    <2>1. CASE UNCHANGED vars
      BY <1>2, <2>1 DEF vars
    <2>2. CASE Next
      BY <1>1, <1>3, <1>4, <1>5, <2>2, SoloClose DEF Next
    <2>3. QED BY <2>1, <2>2

LEMMA CrashStep ==
  ASSUME IInv, [Next]_vars
  PROVE  CrashCauses'
  <1> USE DEF subVars, senderVars, prunerVars, closeVars
  <1>1. CASE UNCHANGED vars
    BY <1>1 DEF IInv, CrashCauses, vars, TwoDead, TwoCloses, Started, SomeLeft
  <1>2. CASE crash' = "no"
    BY <1>2 DEF CrashCauses
  <1>3. ASSUME crash = "no", NEW c \in Subs, SubStep(c), crash' # "no"
        PROVE  CrashCauses'
    BY <1>3 DEF SubStep, Subscribe, Wait, ReadZero, ScriptReadsZero, Leave, ScriptEnds,
                Cancelled, CrashCauses
  <1>4. ASSUME crash = "no", NEW s \in Senders, SenderStep(s), crash' # "no"
        PROVE  CrashCauses'
    BY <1>4 DEF SenderStep, Publish, Look, Send, Published, CrashCauses
  <1>5. ASSUME crash = "no", PrunerStep, crash' # "no"
        PROVE  CrashCauses'
    <2>1. PICK i \in range : PrunerDelete(i) /\ ~(i <= Len(rcChan)) /\ crash' = "indexOutOfRange"
      BY <1>5 DEF PrunerStep, PrunerWork, PrunerTick, PrunerConns, PrunerExit, PrunerLock,
                  PrunerUnlock, PrunerLook, PrunerDelete
    <2>2. TwoDead /\ keys' = keys
      BY <2>1 DEF PrunerDelete, IInv, PrunerInv
    <2>3. QED BY <2>1, <2>2 DEF CrashCauses, TwoDead
  <1>6. ASSUME crash = "no", NEW k \in Closers, CloseStep(k), crash' # "no"
        PROVE  CrashCauses'
    <2>1. /\ kpc[k] = "cancelled" /\ kv[k] \subseteq closed /\ crash' = "closeOfClosed"
          /\ kpc' = [kpc EXCEPT ![k] = "closing"] /\ sub' = sub
      BY <1>6 DEF CloseStep, CloseStart, CloseCancel, CloseClose, CloseDone
    <2>2. ~Solo(k)
      BY <2>1 DEF IInv, SoloInv
    <2>3. SomeLeft \/ \E l \in Closers \ {k} : Started(l)
      BY <2>2 DEF Solo
    <2>4. (TwoCloses \/ SomeLeft)'
      BY <2>1, <2>3 DEF TwoCloses, Started, SomeLeft, IInv, TypeOK
    <2>5. QED BY <2>1, <2>4 DEF CrashCauses
  <1>7. QED BY <1>1, <1>2, <1>3, <1>4, <1>5, <1>6 DEF Next

-----------------------------------------------------------------------------
(* Every step keeps the invariant.                                         *)
LEMMA Step == IInv /\ [Next]_vars => IInv'
  <1> SUFFICES ASSUME IInv, [Next]_vars PROVE IInv'
    OBVIOUS
  <1>1. QED BY TypeStep, MutexStep, SliceStep, LiveStep, SendStep, OrderStep, PrunerStepInv,
               CloseStepInv, SoloStep, CrashStep DEF IInv

(* The inductive invariant: a sender has the slice to itself from its      *)
(* first look to its last (spawner.go:150), and the pruner's indices stay  *)
(* those of dead channels until it has removed one.                        *)
THEOREM Inductive == Spec => []IInv
  <1>1. Init => IInv
    BY InitInv
  <1>2. IInv /\ [Next]_vars => IInv'
    BY Step
  <1>3. QED BY <1>1, <1>2, PTL DEF Spec

(* Every variable keeps its type.                                          *)
THEOREM TypeCorrect == Spec => []TypeOK
  <1>1. IInv => TypeOK
    BY DEF IInv
  <1>2. QED BY <1>1, Inductive, PTL

(* All subscribers see the packets in one order, and none twice.           *)
THEOREM OneOrder == Spec => []SameOrder
  <1>1. IInv => SameOrder
    BY DEF IInv
  <1>2. QED BY <1>1, Inductive, PTL

(* Pruning spares the living channels, whatever indices it took.           *)
THEOREM LiveStays == Spec => []LiveStaysSubscribed
  <1>1. IInv => LiveStaysSubscribed
    BY DEF IInv
  <1>2. QED BY <1>1, Inductive, PTL

(* Only two channels that one tick found dead, or a Close, can stop the    *)
(* program; and one Close closes nothing twice, if no subscriber had left. *)
THEOREM WhatStopsIt == Spec => []CrashCauses
  <1>1. IInv => CrashCauses
    BY DEF IInv
  <1>2. QED BY <1>1, Inductive, PTL

(* Who begins to send has just seen that the channel is not cancelled, and *)
(* Close cancels before it closes.                                         *)
THEOREM NotChosen == Spec => ClosedNotChosen
  <1> DEFINE NoneChosen ==
        \A s \in Senders : spc[s] # "sending" /\ spc'[s] = "sending" => rcChan[si[s]] \notin closed
  <1>1. ASSUME IInv, [Next]_vars
        PROVE  NoneChosen
    <2> SUFFICES ASSUME NEW s \in Senders, spc[s] # "sending", spc'[s] = "sending"
                 PROVE  rcChan[si[s]] \notin closed
      OBVIOUS
    <2>1. PICK t \in Senders : SenderStep(t)
      BY <1>1, Frame
    <2>2. Look(s) /\ rcChan[si[s]] \notin cancelled
      BY <1>1, <2>1 DEF SenderStep, Publish, Look, Send, Published, IInv, TypeOK
    <2>3. QED BY <1>1, <2>2 DEF IInv, CloseInv
  <1>2. IInv /\ [Next]_vars => [NoneChosen]_vars
    BY <1>1
  <1>3. QED BY <1>2, Inductive, PTL DEF Spec, ClosedNotChosen

-----------------------------------------------------------------------------
(* The receive channels implement Broadcast: a turn begins when a sender   *)
(* takes rcChanLock, and ends when it has come to the end of the slice.    *)
AtWork   == {s \in Senders : Holds(s)}
Finished == {s \in Senders : spc[s] = "done"}

(* A packet that is being sent to a channel has not been given to it.      *)
LEMMA NotYetGiven ==
  ASSUME IInv, NEW s \in Senders, spc[s] = "sending"
  PROVE  rcChan[si[s]] \in Subs /\ ~Given(rcChan[si[s]], s)
  <1>1. rcChan \in Seq(Subs) /\ si[s] \in Nat /\ si[s] >= 1 /\ si[s] <= Len(rcChan)
    BY DEF IInv, TypeOK, SendInv
  <1>2. si[s] \in DOMAIN rcChan /\ rcChan[si[s]] \in Subs
    BY <1>1
  <1>3. ASSUME NEW i \in DOMAIN rcChan, i < si[s], rcChan[i] = rcChan[si[s]]
        PROVE  FALSE
    BY <1>1, <1>2, <1>3 DEF IInv, SliceInv, IsInjective
  <1>4. QED BY <1>2, <1>3 DEF IInv, SendInv

(* Where a sender goes, and what it has then done to the turns.            *)
LEMMA TurnStep ==
  ASSUME IInv, NEW s \in Senders, SenderStep(s)
  PROVE  \/ /\ s \notin Finished /\ AtWork = {} /\ AtWork' = {s}
            /\ Finished' = Finished /\ got' = got
         \/ /\ s \in AtWork /\ AtWork' = {} /\ Finished' = Finished \cup {s} /\ got' = got
         \/ /\ s \in AtWork /\ AtWork' = AtWork /\ Finished' = Finished
            /\ \/ got' = got
               \/ \E c \in Subs : ~Given(c, s) /\ got' = [got EXCEPT ![c] = Append(@, s)]
  <1>1. spc \in [Senders -> {"idle", "publishing", "sending", "done"}]
    BY DEF IInv, TypeOK
  <1>2. \A t, u \in AtWork : t = u
    BY DEF IInv, MutexInv, AtWork
  <1>3. CASE Publish(s)
    <2>1. AtWork = {} /\ got' = got /\ spc[s] = "idle" /\ spc' = [spc EXCEPT ![s] = "publishing"]
      BY <1>3 DEF Publish, MayPublish, LockFree, AtWork, Holds, subVars
    <2>2. AtWork' = {s} /\ Finished' = Finished /\ s \notin Finished
      BY <1>1, <2>1 DEF AtWork, Finished, Holds
    <2>3. QED BY <2>1, <2>2
  <1>4. CASE Look(s)
    <2>1. /\ got' = got /\ spc[s] = "publishing"
          /\ spc' = spc \/ spc' = [spc EXCEPT ![s] = "sending"]
      BY <1>4 DEF Look, subVars
    <2>2. AtWork' = AtWork /\ Finished' = Finished /\ s \in AtWork
      BY <1>1, <2>1 DEF AtWork, Finished, Holds
    <2>3. QED BY <2>1, <2>2
  <1>5. CASE Send(s)
    <2>1. /\ spc[s] = "sending"
          /\ spc' = spc \/ spc' = [spc EXCEPT ![s] = "publishing"]
          /\ \/ got' = got
             \/ got' = [got EXCEPT ![rcChan[si[s]]] = Append(@, s)]
      BY <1>5 DEF Send
    <2>2. AtWork' = AtWork /\ Finished' = Finished /\ s \in AtWork
      BY <1>1, <2>1 DEF AtWork, Finished, Holds
    <2>3. rcChan[si[s]] \in Subs /\ ~Given(rcChan[si[s]], s)
      BY <2>1, NotYetGiven
    <2>4. QED BY <2>1, <2>2, <2>3
  <1>6. CASE Published(s)
    <2>1. got' = got /\ spc[s] = "publishing" /\ spc' = [spc EXCEPT ![s] = "done"]
      BY <1>6 DEF Published, subVars
    <2>2. s \in AtWork /\ s \notin AtWork' /\ Finished' = Finished \cup {s} /\ AtWork' \subseteq AtWork
      BY <1>1, <2>1 DEF AtWork, Finished, Holds
    <2>3. AtWork' = {}
      BY <1>2, <2>2
    <2>4. QED BY <2>1, <2>2, <2>3
  <1>7. QED BY <1>3, <1>4, <1>5, <1>6 DEF SenderStep

(* Every packet has its turn, once, and every subscriber is given it once. *)
THEOREM Refinement == Spec => FeedSpec
  <1>1. Init => Feed!Init
    BY DEF Init, Feed!Init, Holds
  <1>2. IInv /\ [Next]_vars => [Feed!Next]_(Feed!vars)
    <2> SUFFICES ASSUME IInv, [Next]_vars PROVE [Feed!Next]_(Feed!vars)
      OBVIOUS
    <2>1. CASE UNCHANGED <<spc, si, got>>
      BY <2>1 DEF Feed!vars, Holds
    <2>2. ASSUME NEW s \in Senders, SenderStep(s)
          PROVE  [Feed!Next]_(Feed!vars)
      <3>1. CASE s \notin Finished /\ AtWork = {} /\ AtWork' = {s} /\ Finished' = Finished /\ got' = got
        <4>1. Feed!Begin(s)
          BY <3>1 DEF Feed!Begin, Feed!Unknown, AtWork, Finished
        <4>2. QED BY <4>1 DEF Feed!Next
      <3>2. CASE s \in AtWork /\ AtWork' = {} /\ Finished' = Finished \cup {s} /\ got' = got
        <4>1. Feed!End(s)
          BY <3>2 DEF Feed!End, AtWork, Finished
        <4>2. QED BY <4>1 DEF Feed!Next
      <3>3. CASE AtWork' = AtWork /\ Finished' = Finished /\ got' = got
        BY <3>3 DEF Feed!vars, AtWork, Finished
      <3>4. ASSUME s \in AtWork, AtWork' = AtWork, Finished' = Finished,
                   NEW c \in Subs, ~Given(c, s), got' = [got EXCEPT ![c] = Append(@, s)]
            PROVE  Feed!Next
        <4>1. Feed!Give(c, s)
          BY <3>4 DEF Feed!Give, AtWork, Finished, Given
        <4>2. QED BY <4>1 DEF Feed!Next
      <3>5. QED BY <2>2, <3>1, <3>2, <3>3, <3>4, TurnStep
    <2>3. QED BY <2>1, <2>2, Frame
  <1>3. QED BY <1>1, <1>2, Inductive, PTL DEF Spec, FeedSpec, Feed!Spec
==============================================================================
