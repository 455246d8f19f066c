----------------------------- MODULE FilterSlot -----------------------------
(***************************************************************************)
(* The one filter callback of a ProxySpawner: TrySetFilterCallback, and    *)
(* what HandleSend does with sendCallback, callbackCtx and callbackCancel  *)
(* before it publishes a packet (module RecvChans).  No lock guards the    *)
(* three fields.                                                           *)
(*                                                                         *)
(* Every read or write of one of them is a step.  A data race on one field *)
(* yields its old or its new value, and the writes of one goroutine are    *)
(* seen in program order, as on amd64.  Using a nil context, cancel        *)
(* function or callback panics and stops the program.                      *)
(***************************************************************************)
CONSTANTS
  Filters,   \* those that call TrySetFilterCallback, each once, with a context
  Senders,   \* the goroutines that call HandleSend, one packet after another
  Injected,  \* the senders whose packets are injected
  Nil

ASSUME InjectedAssumption == Injected \subseteq Senders
ASSUME DisjointAssumption == Filters \cap Senders = {}
ASSUME NilAssumption == Nil \notin Filters

VARIABLES
  sendCallback, callbackCtx, callbackCancel,   \* the slot: whose they are
  gone,       \* the filters whose own context is cancelled
  cancelled,  \* those whose derived callbackCtx was cancelled by the spawner
  pc,         \* where each filter and each sender is
  orphaned,   \* history: all filters were in and dead when the packet began
  raced,      \* history: a TrySetFilterCallback changed the slot with another
  crash       \* goroutine doing so, too

slot == <<sendCallback, callbackCtx, callbackCancel>>
vars == <<slot, gone, cancelled, pc, orphaned, raced, crash>>

TrySetPcs == {"idle", "erring", "set1", "set2", "set3", "accepted", "rejected"}
SendPcs   == {"idle", "err", "call", "asking", "sent", "dropped"}
FreePcs   == {"log", "cancel", "clear1", "clear2", "clear3"}

(* One invariant of types for the whole module.                            *)
TypeOK ==
  /\ {sendCallback, callbackCtx, callbackCancel} \subseteq Filters \cup {Nil}
  /\ gone \subseteq Filters /\ cancelled \subseteq Filters
  /\ pc \in [Filters \cup Senders -> TrySetPcs \cup SendPcs \cup FreePcs]
  /\ \A f \in Filters : pc[f] \in TrySetPcs \cup FreePcs
  /\ \A s \in Senders : pc[s] \in SendPcs \cup FreePcs
  /\ orphaned \in [Senders -> BOOLEAN]
  /\ {raced, crash} \subseteq BOOLEAN

Init ==
  /\ sendCallback = Nil /\ callbackCtx = Nil /\ callbackCancel = Nil
  /\ gone = {} /\ cancelled = {}
  /\ pc = [a \in Filters \cup Senders |-> "idle"]
  /\ orphaned = [s \in Senders |-> FALSE]
  /\ raced = FALSE /\ crash = FALSE

Goto(a, to) == pc' = [pc EXCEPT ![a] = to]
Panic == crash' = TRUE /\ UNCHANGED pc

(* callbackCtx.Err() == nil.  (Mutants: not looked at; the wrong way       *)
(* round.)                                                                 *)
MutUnchecked(f) == TRUE
MutInverted(f)  == f \in gone \cup cancelled
Alive(f) == f \notin gone \cup cancelled

(* The filter's own context ends: its WebSocket, or the whole API.         *)
Leave(f) ==
  /\ f \notin gone
  /\ gone' = gone \cup {f}
  /\ UNCHANGED <<slot, cancelled, pc, orphaned, crash>>

-----------------------------------------------------------------------------
(* Freeing the slot, the same lines in both functions.                     *)

(* The arguments of the log line are evaluated even if it is not written.  *)
FreeLog(a) ==
  /\ pc[a] = "log"
  /\ IF callbackCtx = Nil \/ Alive(callbackCtx)
     THEN Panic
     ELSE Goto(a, "cancel") /\ UNCHANGED crash
  /\ UNCHANGED <<slot, gone, cancelled, orphaned>>

FreeCancel(a) ==
  /\ pc[a] = "cancel"
  /\ IF callbackCancel = Nil
     THEN Panic /\ UNCHANGED cancelled
     ELSE cancelled' = cancelled \cup {callbackCancel} /\ Goto(a, "clear1") /\ UNCHANGED crash
  /\ UNCHANGED <<slot, gone, orphaned>>

FreeClear1(a) ==
  /\ pc[a] = "clear1" /\ Goto(a, "clear2")
  /\ callbackCancel' = Nil
  /\ UNCHANGED <<sendCallback, callbackCtx, gone, cancelled, orphaned, crash>>

FreeClear2(a) ==
  /\ pc[a] = "clear2" /\ Goto(a, "clear3")
  /\ callbackCtx' = Nil
  /\ UNCHANGED <<sendCallback, callbackCancel, gone, cancelled, orphaned, crash>>

(* Mutants: the callback stays; a sender goes on as if it were a filter.   *)
MutKeepCallback == sendCallback
ClearedCallback == Nil
MutFallThrough(a) == "set1"
AfterFree(a) == IF a \in Filters THEN "set1" ELSE "sent"

FreeClear3(a) ==
  /\ pc[a] = "clear3" /\ Goto(a, AfterFree(a))
  /\ sendCallback' = ClearedCallback
  /\ UNCHANGED <<callbackCtx, callbackCancel, gone, cancelled, orphaned, crash>>

FreeStep(a) ==
  FreeLog(a) \/ FreeCancel(a) \/ FreeClear1(a) \/ FreeClear2(a) \/ FreeClear3(a)

-----------------------------------------------------------------------------
(* TrySetFilterCallback.                                                   *)

Try(f) ==
  /\ pc[f] = "idle" /\ Goto(f, IF callbackCtx = Nil THEN "set1" ELSE "erring")
  /\ UNCHANGED <<slot, gone, cancelled, orphaned, crash>>

TryErr(f) ==
  /\ pc[f] = "erring"
  /\ IF callbackCtx = Nil
     THEN Panic
     ELSE Goto(f, IF Alive(callbackCtx) THEN "rejected" ELSE "log") /\ UNCHANGED crash
  /\ UNCHANGED <<slot, gone, cancelled, orphaned>>

(* Mutant: the context is not kept.                                        *)
MutNoContext(f) == UNCHANGED callbackCtx
KeepContext(f) == callbackCtx' = f

Set1(f) ==
  /\ pc[f] = "set1" /\ Goto(f, "set2")
  /\ KeepContext(f)
  /\ UNCHANGED <<sendCallback, callbackCancel, gone, cancelled, orphaned, crash>>

Set2(f) ==
  /\ pc[f] = "set2" /\ Goto(f, "set3")
  /\ callbackCancel' = f
  /\ UNCHANGED <<sendCallback, callbackCtx, gone, cancelled, orphaned, crash>>

Set3(f) ==
  /\ pc[f] = "set3" /\ Goto(f, "accepted")
  /\ sendCallback' = f
  /\ UNCHANGED <<callbackCtx, callbackCancel, gone, cancelled, orphaned, crash>>

FilterStep(f) ==
  Leave(f) \/ Try(f) \/ TryErr(f) \/ Set1(f) \/ Set2(f) \/ Set3(f) \/ FreeStep(f)

-----------------------------------------------------------------------------
(* HandleSend, up to its verdict.                                          *)

Begin(s) ==
  /\ pc[s] = "idle" /\ Goto(s, IF sendCallback = Nil THEN "sent" ELSE "err")
  /\ orphaned' = [orphaned EXCEPT ![s] = \A f \in Filters : f \in gone /\ pc[f] = "accepted"]
  /\ UNCHANGED <<slot, gone, cancelled, crash>>

SendErr(s) ==
  /\ pc[s] = "err"
  /\ IF callbackCtx = Nil
     THEN Panic
     ELSE Goto(s, IF Alive(callbackCtx) THEN "call" ELSE "log") /\ UNCHANGED crash
  /\ UNCHANGED <<slot, gone, cancelled, orphaned>>

Call(s) ==
  /\ pc[s] = "call"
  /\ IF sendCallback = Nil THEN Panic ELSE Goto(s, "asking") /\ UNCHANGED crash
  /\ UNCHANGED <<slot, gone, cancelled, orphaned>>

(* The callback may say anything; an injected packet is sent all the same. *)
Verdict(s) ==
  /\ pc[s] = "asking"
  /\ Goto(s, "sent") \/ (s \notin Injected /\ Goto(s, "dropped"))
  /\ UNCHANGED <<slot, gone, cancelled, orphaned, crash>>

NextPacket(s) ==
  /\ pc[s] \in {"sent", "dropped"} /\ Goto(s, "idle")
  /\ UNCHANGED <<slot, gone, cancelled, orphaned, crash>>

SenderStep(s) ==
  Begin(s) \/ SendErr(s) \/ Call(s) \/ Verdict(s) \/ NextPacket(s) \/ FreeStep(s)

-----------------------------------------------------------------------------
(* The goroutines that free or fill the slot.                              *)
Changing == {a \in Filters \cup Senders : pc[a] \in {"set1", "set2", "set3"} \cup FreePcs}

Next ==
  /\ ~crash
  /\ \/ \E f \in Filters : FilterStep(f)
     \/ \E s \in Senders : SenderStep(s)
  /\ raced' = (raced \/ \E f \in Filters \cap Changing' : Changing' # {f})

Spec == Init /\ [][Next]_vars

-----------------------------------------------------------------------------
(* Properties.                                                             *)

(* The three fields need no lock while the filter lives: however its       *)
(* TrySetFilterCallback and several HandleSend interleave, nobody meets a  *)
(* nil one, because the context is written first and the callback last.    *)
CrashOnlyAfterDeath == crash => gone # {}

(* A filter that died decides nothing: once all are dead no packet is      *)
(* dropped, however often they took over from each other.                  *)
OrphansAreSent == \A s \in Senders : orphaned[s] => pc[s] # "dropped"

(* Several senders may free the slot of a dead filter at once: the first   *)
(* packet that is let through finds it empty.                              *)
FreedByNextPacket ==
  \A s \in Senders : orphaned[s] /\ pc[s] = "sent" /\ ~raced =>
    sendCallback = Nil /\ callbackCtx = Nil /\ callbackCancel = Nil

(* A filter that was accepted stays in charge until its own context ends,  *)
(* and no other one is accepted meanwhile, as long as no two goroutines    *)
(* were at the slot at once.                                               *)
AcceptedStays ==
  \A f \in Filters : pc[f] = "accepted" /\ f \notin gone /\ ~raced =>
    sendCallback = f /\ callbackCtx = f /\ f \notin cancelled

(* Why these hold.  Alone: the goroutine that sets a filter is the only    *)
(* one at the slot, unless two raced.  Life: while no filter has died      *)
(* nobody frees the slot, and the callback's context is there whenever     *)
(* somebody may look at it.  Orphan: with all filters dead no packet gets  *)
(* as far as a callback.  Slot: the slot is emptied in the order cancel    *)
(* function, context, callback.  Owner: a filter that sets the slot finds  *)
(* it as it left it, and the slot of a live one is not touched.            *)
Alone ==
  ~raced => \A f \in Filters, a \in Filters \cup Senders :
    f \in Changing /\ a \in Changing => a = f

Life ==
  gone = {} =>
    /\ ~crash /\ cancelled = {}
    /\ \A a \in Filters \cup Senders :
         /\ pc[a] \notin FreePcs
         /\ pc[a] \in {"erring", "set2", "set3", "accepted", "err", "call"} => callbackCtx # Nil
         /\ pc[a] \in {"err", "call"} => sendCallback # Nil
    /\ sendCallback # Nil => callbackCtx # Nil

Orphan ==
  \A s \in Senders : orphaned[s] =>
    /\ \A f \in Filters : f \in gone /\ pc[f] = "accepted"
    /\ pc[s] \notin {"call", "asking", "dropped"}

Slot ==
  ~raced /\ Filters \cap Changing = {} =>
    /\ sendCallback = Nil => callbackCtx = Nil
    /\ callbackCtx = Nil => callbackCancel = Nil
    /\ \A s \in Senders :
         /\ pc[s] = "clear2" => callbackCancel = Nil
         /\ pc[s] = "clear3" => callbackCtx = Nil

Owner ==
  \A f \in Filters :
    /\ f \in cancelled \/ callbackCancel = f => pc[f] \in {"set3", "accepted"}
    /\ ~raced =>
         /\ pc[f] \in {"set2", "set3"} => callbackCtx = f /\ f \notin cancelled
         /\ pc[f] = "set3" => callbackCancel = f
         /\ pc[f] = "accepted" /\ f \notin gone => Changing = {} /\ callbackCancel = f

IInv == TypeOK /\ Alone /\ Life /\ Orphan /\ Slot /\ Owner /\ AcceptedStays /\ FreedByNextPacket
==============================================================================
