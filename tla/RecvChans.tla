------------------------------ MODULE RecvChans ------------------------------
(***************************************************************************)
(* The receive channels of a ProxySpawner: GetRecvChan, the publishing     *)
(* loop at the end of HandleSend, the second half of a pruner tick, and    *)
(* the loop of Close that closes the channels without taking rcChanLock.   *)
(* A subscriber reads its channel the way the WebSocket's recv does, or    *)
(* the run of a Lua script's EzpOnPacket.                                  *)
(*                                                                         *)
(* A subscriber stands for its channel, a sender for the packet it         *)
(* publishes.  A Go panic stops the program: crash names it, and no action *)
(* is enabled after it.                                                    *)
(***************************************************************************)
EXTENDS Naturals, FiniteSets, Sequences, SequencesExt

CONSTANTS
  Subs,      \* the subscribers, each calls GetRecvChan once
  Scripts,   \* those that are Lua scripts
  Senders,   \* the goroutines in HandleSend, each with one packet
  Closers    \* the goroutines that call Close

ASSUME ScriptsAssumption == Scripts \subseteq Subs

VARIABLES
  rcChan,        \* the slice of channels
  cancelled,     \* the channels whose context is cancelled
  closed,        \* the closed channels
  sub, got,      \* what each subscriber is doing, and the packets it was given
  spc, si,       \* where each sender is, and its index into rcChan
  ppc, keys,     \* where the pruner is, and its deleteKeys
  range,         \* the indices it has still to look at, or to delete
  kpc, kv,       \* where each Close is, and the channel it has in hand
  kslice, ki,    \* what it ranges over, and its index
  crash

subVars    == <<sub, got>>
senderVars == <<spc, si>>
prunerVars == <<ppc, keys, range>>
closeVars  == <<kpc, kv, kslice, ki>>
vars == <<rcChan, cancelled, closed, subVars, senderVars, prunerVars, closeVars, crash>>

(* One invariant of types for the whole module.                            *)
TypeOK ==
  /\ rcChan \in Seq(Subs)
  /\ cancelled \subseteq Subs /\ closed \subseteq Subs
  /\ sub \in [Subs -> {"none", "busy", "waiting", "gone"}]
  /\ got \in [Subs -> Seq(Senders)]
  /\ spc \in [Senders -> {"idle", "publishing", "sending", "done"}]
  /\ si \in [Senders -> Nat]
  /\ ppc \in {"select", "waiting", "looking", "deleting", "exited"}
  /\ keys \subseteq Nat /\ range \subseteq Nat
  /\ kpc \in [Closers -> {"idle", "closing", "cancelled", "done"}]
  /\ kv \in [Closers -> SUBSET Subs] /\ ki \in [Closers -> Nat]
  /\ kslice \in [Closers -> Seq(Subs)]
  /\ crash \in {"no", "sendOnClosed", "closeOfClosed",
                "indexOutOfRange", "nilAddress"}

Init ==
  /\ rcChan = <<>> /\ cancelled = {} /\ closed = {}
  /\ sub = [c \in Subs |-> "none"] /\ got = [c \in Subs |-> <<>>]
  /\ spc = [s \in Senders |-> "idle"] /\ si = [s \in Senders |-> 1]
  /\ ppc = "select" /\ keys = {} /\ range = {}
  /\ kpc = [k \in Closers |-> "idle"] /\ kv = [k \in Closers |-> {}]
  /\ kslice = [k \in Closers |-> <<>>] /\ ki = [k \in Closers |-> 1]
  /\ crash = "no"

(* rcChanLock is held by a sender from its first look at the slice to its  *)
(* last, and by the pruner while it deletes.  (Mutant: senders share it,   *)
(* like readers.)                                                          *)
LockFree ==
  /\ \A s \in Senders : spc[s] \notin {"publishing", "sending"}
  /\ ppc # "deleting"
MutShared  == ppc # "deleting"
MayPublish == LockFree

(* A write to the i-th place of the slice.  A Close that is ranging over   *)
(* it has the same array, unless an append has moved the slice since, and  *)
(* sees the write at its next look, or not.                                *)
WritesThrough(i, c) ==
  /\ \/ UNCHANGED kslice
     \/ kslice' = [k \in Closers |->
                     IF kpc[k] \in {"closing", "cancelled"} /\ i \in DOMAIN kslice[k]
                     THEN [kslice[k] EXCEPT ![i] = c] ELSE kslice[k]]
  /\ UNCHANGED <<kpc, kv, ki>>

-----------------------------------------------------------------------------
(* Subscribers.                                                            *)

Subscribe(c) ==
  /\ sub[c] = "none" /\ LockFree
  /\ rcChan' = Append(rcChan, c)
  /\ WritesThrough(Len(rcChan) + 1, c)
  /\ sub' = [sub EXCEPT ![c] = "busy"]
  /\ UNCHANGED <<cancelled, closed, got, senderVars, prunerVars, crash>>

(* Back in the select of recv, ready for a rendezvous.                     *)
Wait(c) ==
  /\ sub[c] = "busy"
  /\ sub' = [sub EXCEPT ![c] = "waiting"]
  /\ UNCHANGED <<rcChan, cancelled, closed, got, senderVars, prunerVars, closeVars, crash>>

(* A closed channel is always ready, with a packet that is all zeroes: a   *)
(* WebSocket takes it for one of connection 0, if there is that one; a     *)
(* script asks its nil address for its name, outside the protected call.   *)
ReadZero(c) ==
  /\ sub[c] = "waiting" /\ c \in closed \ Scripts
  /\ sub' = [sub EXCEPT ![c] = "busy"]
  /\ UNCHANGED <<rcChan, cancelled, closed, got, senderVars, prunerVars, closeVars, crash>>

ScriptReadsZero(c) ==
  /\ sub[c] = "waiting" /\ c \in closed \cap Scripts
  /\ crash' = "nilAddress"
  /\ UNCHANGED <<rcChan, cancelled, closed, subVars, senderVars, prunerVars, closeVars>>

Cancelled(c) ==
  /\ sub' = [sub EXCEPT ![c] = "gone"]
  /\ cancelled' = cancelled \cup {c}
  /\ UNCHANGED <<rcChan, closed, got, senderVars, prunerVars, closeVars, crash>>

(* The WebSocket ends: its context and then its channel's are cancelled.   *)
Leave(c) == c \notin Scripts /\ sub[c] \in {"busy", "waiting"} /\ Cancelled(c)

(* The script's function asks for it or fails; or run sees, in its select, *)
(* the end of its context or of its channel's.                             *)
ScriptEnds(c) == c \in Scripts /\ sub[c] \in {"busy", "waiting"} /\ Cancelled(c)

-----------------------------------------------------------------------------
(* HandleSend: one packet, offered to every channel of the slice.          *)

Publish(s) ==
  /\ spc[s] = "idle" /\ MayPublish
  /\ spc' = [spc EXCEPT ![s] = "publishing"]
  /\ UNCHANGED <<rcChan, cancelled, closed, subVars, si, prunerVars, closeVars, crash>>

(* The check of the channel's context.                                     *)
Look(s) ==
  /\ spc[s] = "publishing" /\ si[s] <= Len(rcChan)
  /\ IF rcChan[si[s]] \in cancelled
     THEN si' = [si EXCEPT ![s] = @ + 1] /\ UNCHANGED spc
     ELSE spc' = [spc EXCEPT ![s] = "sending"] /\ UNCHANGED si
  /\ UNCHANGED <<rcChan, cancelled, closed, subVars, prunerVars, closeVars, crash>>

(* The select with a default.  (Mutant: a plain, blocking send.)           *)
MutBlocking(c) == FALSE
SkipUnready(c) == sub[c] # "waiting"

Send(s) ==
  LET c == rcChan[si[s]] IN
  /\ spc[s] = "sending"
  /\ \/ /\ c \in closed
        /\ crash' = "sendOnClosed"
        /\ UNCHANGED <<sub, got, spc, si>>
     \/ /\ c \notin closed /\ sub[c] = "waiting"
        /\ got' = [got EXCEPT ![c] = Append(@, s)]
        /\ sub' = [sub EXCEPT ![c] = "busy"]
        /\ spc' = [spc EXCEPT ![s] = "publishing"] /\ si' = [si EXCEPT ![s] = @ + 1]
        /\ UNCHANGED crash
     \/ /\ c \notin closed /\ SkipUnready(c)
        /\ spc' = [spc EXCEPT ![s] = "publishing"] /\ si' = [si EXCEPT ![s] = @ + 1]
        /\ UNCHANGED <<sub, got, crash>>
  /\ UNCHANGED <<rcChan, cancelled, closed, prunerVars, closeVars>>

Published(s) ==
  /\ spc[s] = "publishing" /\ si[s] > Len(rcChan)
  /\ spc' = [spc EXCEPT ![s] = "done"]
  /\ si' = [si EXCEPT ![s] = 1]
  /\ UNCHANGED <<rcChan, cancelled, closed, subVars, prunerVars, closeVars, crash>>

-----------------------------------------------------------------------------
(* The pruner, which lives until it sees the death of the spawner (the     *)
(* causes of that are those of the module Spawner).                        *)

PrunerExit ==
  /\ ppc = "select" /\ ppc' = "exited"
  /\ UNCHANGED <<rcChan, cancelled, closed, subVars, senderVars, keys, range, closeVars, crash>>

(* A tick begins with the connections, for which it takes connectionLock.  *)
PrunerTick ==
  /\ ppc = "select" /\ ppc' = "waiting"
  /\ UNCHANGED <<rcChan, cancelled, closed, subVars, senderVars, keys, range, closeVars, crash>>

PrunerConns ==
  /\ ppc = "waiting" /\ ppc' = "looking"
  /\ range' = DOMAIN rcChan
  /\ UNCHANGED <<rcChan, cancelled, closed, subVars, senderVars, keys, closeVars, crash>>

(* The indices of the dead channels are collected without the lock.        *)
(* (Mutant: counted from one.)                                             *)
MutNextKey(i) == i + 1
Key(i) == i

PrunerLook(i) ==
  /\ ppc = "looking" /\ i \in range /\ \A j \in range : i <= j
  /\ keys' = IF rcChan[i] \in cancelled THEN keys \cup {Key(i)} ELSE keys
  /\ range' = range \ {i}
  /\ UNCHANGED <<rcChan, cancelled, closed, subVars, senderVars, ppc, closeVars, crash>>

PrunerLock ==
  /\ ppc = "looking" /\ range = {} /\ LockFree
  /\ ppc' = "deleting" /\ range' = keys
  /\ UNCHANGED <<rcChan, cancelled, closed, subVars, senderVars, keys, closeVars, crash>>

(* The last channel takes the place of the dead one.  (Mutants: the slice  *)
(* is not shortened; the last one is not moved; a nil is left.)            *)
MutLeaveNil(i)  == [rcChan EXCEPT ![i] = "nil"]
MutKeepLast(i)  == [rcChan EXCEPT ![i] = Last(rcChan)]
MutDropLast(i)  == Front(rcChan)
SwapRemove(i)   == Front([rcChan EXCEPT ![i] = Last(rcChan)])

PrunerDelete(i) ==
  /\ ppc = "deleting" /\ i \in range /\ \A j \in range : i <= j
  /\ range' = range \ {i}
  /\ IF i <= Len(rcChan)
     THEN rcChan' = SwapRemove(i) /\ WritesThrough(i, Last(rcChan)) /\ UNCHANGED crash
     ELSE crash' = "indexOutOfRange" /\ UNCHANGED <<rcChan, closeVars>>
  /\ UNCHANGED <<cancelled, closed, subVars, senderVars, ppc, keys>>

PrunerUnlock ==
  /\ ppc = "deleting" /\ range = {}
  /\ ppc' = "select" /\ keys' = {}
  /\ UNCHANGED <<rcChan, cancelled, closed, subVars, senderVars, range, closeVars, crash>>

-----------------------------------------------------------------------------
(* Close ranges over the slice it found, without the lock.                 *)

CloseStart(k) ==
  /\ kpc[k] = "idle"
  /\ kpc' = [kpc EXCEPT ![k] = "closing"]
  /\ kslice' = [kslice EXCEPT ![k] = rcChan]
  /\ UNCHANGED <<rcChan, cancelled, closed, subVars, senderVars, prunerVars, kv, ki, crash>>

(* Mutant: the channel's context is not cancelled first.                   *)
MutNotCancelled(c) == {}
CancelledFirst(c)  == {c}

CloseCancel(k) ==
  /\ kpc[k] = "closing" /\ ki[k] <= Len(kslice[k])
  /\ kv' = [kv EXCEPT ![k] = {kslice[k][ki[k]]}]
  /\ cancelled' = cancelled \cup CancelledFirst(kslice[k][ki[k]])
  /\ kpc' = [kpc EXCEPT ![k] = "cancelled"]
  /\ UNCHANGED <<rcChan, closed, subVars, senderVars, prunerVars, kslice, ki, crash>>

CloseClose(k) ==
  /\ kpc[k] = "cancelled"
  /\ crash' = IF kv[k] \subseteq closed THEN "closeOfClosed" ELSE crash
  /\ closed' = closed \cup kv[k]
  /\ kv' = [kv EXCEPT ![k] = {}]
  /\ ki' = [ki EXCEPT ![k] = @ + 1]
  /\ kpc' = [kpc EXCEPT ![k] = "closing"]
  /\ UNCHANGED <<rcChan, cancelled, subVars, senderVars, prunerVars, kslice>>

CloseDone(k) ==
  /\ kpc[k] = "closing" /\ ki[k] > Len(kslice[k])
  /\ kpc' = [kpc EXCEPT ![k] = "done"]
  /\ kslice' = [kslice EXCEPT ![k] = <<>>] /\ ki' = [ki EXCEPT ![k] = 1]
  /\ UNCHANGED <<rcChan, cancelled, closed, subVars, senderVars, prunerVars, kv, crash>>

-----------------------------------------------------------------------------
SenderStep(s) == Publish(s) \/ Look(s) \/ Send(s) \/ Published(s)
SubStep(c) ==
  \/ Subscribe(c) \/ Wait(c) \/ ReadZero(c) \/ Leave(c)
  \/ ScriptReadsZero(c) \/ ScriptEnds(c)
PrunerWork ==
  \/ PrunerTick \/ PrunerUnlock
  \/ \E i \in range : PrunerLook(i) \/ PrunerDelete(i)
PrunerStep   == PrunerWork \/ PrunerExit \/ PrunerConns \/ PrunerLock
CloseStep(k) == CloseStart(k) \/ CloseCancel(k) \/ CloseClose(k) \/ CloseDone(k)

Next ==
  /\ crash = "no"
  /\ \/ \E c \in Subs : SubStep(c)
     \/ \E s \in Senders : SenderStep(s)
     \/ PrunerStep
     \/ \E k \in Closers : CloseStep(k)

Spec == Init /\ [][Next]_vars

Running(A) == crash = "no" /\ A

(* Senders and the pruner keep running, a tick always comes, rcChanLock is *)
(* starvation-free.  Not so connectionLock, which a SendToAll* may keep    *)
(* for ever (Commands).  No subscriber has to read, or to leave.           *)
Fairness ==
  /\ \A s \in Senders : WF_vars(Running(Look(s) \/ Send(s) \/ Published(s)))
  /\ WF_vars(Running(PrunerWork)) /\ SF_vars(Running(PrunerLock))

FairSpec == Spec /\ Fairness

-----------------------------------------------------------------------------
(* Properties.                                                             *)

Before(c, s, t) == \E i, j \in DOMAIN got[c] : i < j /\ got[c][i] = s /\ got[c][j] = t

(* Any two subscribers see the packets they both get in the same order,    *)
(* and none twice, whatever the two directions and the injections do and   *)
(* however the pruner moves channels about in the slice (HandleSend holds  *)
(* rcChanLock over its loop).                                              *)
SameOrder ==
  \A c, d \in Subs, s, t \in Senders : ~(Before(c, s, t) /\ Before(d, t, s))

(* Every packet has its turn, with rcChanLock from the first look at the    *)
(* slice to the last, and is given to a subscriber once, however channels  *)
(* come, die and are moved about in the slice meanwhile.                   *)
Holds(s) == spc[s] \in {"publishing", "sending"}

Feed == INSTANCE Broadcast WITH
  Packets <- Senders, Readers <- Subs,
  turn    <- {s \in Senders : Holds(s)},
  over    <- {s \in Senders : spc[s] = "done"},
  private <- {}
FeedSpec == Feed!Spec

(* Pruning never loses a channel whose context is alive: the removal of    *)
(* several dead ones, by indices taken earlier, spares the others.         *)
LiveStaysSubscribed ==
  \A c \in Subs : sub[c] # "none" /\ c \notin cancelled => \E i \in DOMAIN rcChan : rcChan[i] = c

(* What can stop the program: two channels that one tick found dead, or a  *)
(* Close.  One Close closes no channel twice, although the pruner moves    *)
(* channels about in the array it goes through, unless a subscriber had    *)
(* left: the pruner may then move one to a place Close has still to see.   *)
(* Subscribers that leave one by one do no harm.                           *)
TwoDead    == \E i, j \in keys : i # j
Started(k) == kpc[k] # "idle"
TwoCloses  == \E k, l \in Closers : k # l /\ Started(k) /\ Started(l)
SomeLeft   == \E c \in Subs : sub[c] = "gone"

CrashCauses ==
  /\ crash = "indexOutOfRange" => TwoDead
  /\ crash = "closeOfClosed" => TwoCloses \/ SomeLeft
  /\ crash \in {"sendOnClosed", "nilAddress"} => closed # {}

(* Nobody begins to send on a closed channel, since Close cancels it first *)
(* and HandleSend looks: only a Close between look and send can hit one.   *)
ClosedNotChosen ==
  [][\A s \in Senders :
       spc[s] # "sending" /\ spc'[s] = "sending" => rcChan[si[s]] \notin closed]_vars

(* No subscriber can hold up the packets: what HandleSend has begun to     *)
(* publish it ends, even if nobody ever reads (the select with a default). *)
Publishing  == \E s \in Senders : spc[s] \in {"publishing", "sending"}
PublishEnds == []<>(crash # "no" \/ ~Publishing)

(* Dead channels leave the slice while the spawner lives, unless the       *)
(* pruner waits for connectionLock for ever.                               *)
DeadIn == \E i \in DOMAIN rcChan : rcChan[i] \in cancelled
DeadChannelPruned ==
  <>[](DeadIn /\ crash = "no" /\ ppc # "exited") => <>[](ppc = "waiting")

(* Said in spawner.go:182, and not so: the pruner removes anything that is *)
(* dead; with two dead channels its indices can run off the slice.         *)
PrunerRemovesAnything == crash # "indexOutOfRange"

-----------------------------------------------------------------------------
(* The inductive invariant.                                                *)

(* rcChanLock: one sender, or the pruner.                                  *)
MutexInv ==
  \A s \in Senders : Holds(s) => ppc # "deleting" /\ \A t \in Senders \ {s} : ~Holds(t)

(* Each channel is in the slice once.                                      *)
SliceInv ==
  /\ IsInjective(rcChan)
  /\ \A i \in DOMAIN rcChan : sub[rcChan[i]] # "none"

(* What a sender has behind it may have its packet, nobody else has it.    *)
Given(c, s) == \E i \in DOMAIN got[c] : got[c][i] = s

SendInv ==
  \A s \in Senders :
    /\ si[s] >= 1 /\ (spc[s] = "sending" => si[s] <= Len(rcChan))
    /\ \A c \in Subs : Given(c, s) =>
         spc[s] = "done" \/ (Holds(s) /\ \E i \in DOMAIN rcChan : i < si[s] /\ rcChan[i] = c)

(* One that was overtaken is done.                                         *)
OvertakenInv ==
  \A c \in Subs, s, t \in Senders : Before(c, s, t) => s # t /\ spc[s] = "done"

(* The pruner's indices are of dead channels, or past the end, which takes *)
(* two of them.                                                            *)
PrunerInv ==
  /\ ppc \in {"select", "waiting", "exited"} => keys = {} /\ range = {}
  /\ ppc = "looking" => /\ range \subseteq DOMAIN rcChan /\ keys \subseteq DOMAIN rcChan
                        /\ \A i \in keys : rcChan[i] \in cancelled
  /\ ppc = "deleting" => /\ range \subseteq keys
                         /\ \A i \in range : i >= 1 /\ IF i <= Len(rcChan)
                                                       THEN rcChan[i] \in cancelled ELSE TwoDead

(* Only a Close closes, and it cancels first.                              *)
CloseInv ==
  /\ \A k \in Closers :
       /\ ki[k] >= 1 /\ (kpc[k] = "idle" => kv[k] = {})
       /\ kv[k] \subseteq cancelled
       /\ \A i \in DOMAIN kslice[k] : sub[kslice[k][i]] # "none"
  /\ closed \subseteq cancelled
  /\ \A c \in cancelled : sub[c] # "none"

(* A Close that is alone, with no subscriber gone: whatever is dead is     *)
(* behind it in the slice, and what it has still to see is alive, each     *)
(* channel once.  For a channel only ever moves forward, to the place of a *)
(* dead one, and so the place where Close will see it is not before that   *)
(* where it is.                                                            *)
Passed(k, i) == i < ki[k] \/ (i = ki[k] /\ kpc[k] = "cancelled")
ToCome(k)    == {i \in DOMAIN kslice[k] : ~Passed(k, i)}
Solo(k)      == ~SomeLeft /\ \A l \in Closers \ {k} : ~Started(l)

SoloInv ==
  \A k \in Closers : Solo(k) =>
    /\ kpc[k] = "idle" => cancelled = {}
    /\ kpc[k] = "cancelled" => ~(kv[k] \subseteq closed)
    /\ kpc[k] \in {"closing", "cancelled"} =>
         /\ \A i \in DOMAIN rcChan : rcChan[i] \in cancelled => Passed(k, i)
         /\ \A i \in ToCome(k) :
              /\ kslice[k][i] \notin cancelled
              /\ \A j \in ToCome(k) : kslice[k][j] = kslice[k][i] => j = i
              /\ \A j \in DOMAIN rcChan : rcChan[j] = kslice[k][i] => j <= i

IInv == /\ TypeOK /\ MutexInv /\ SliceInv /\ SendInv /\ OvertakenInv /\ PrunerInv
        /\ CloseInv /\ SoloInv /\ SameOrder /\ LiveStaysSubscribed /\ CrashCauses
==============================================================================
