---------------------------- MODULE SpawnerProofs ----------------------------
(***************************************************************************)
(* The safety properties of Spawner for any finite set of listeners and    *)
(* any sets of proxies and callers: an inductive invariant, proved one     *)
(* named part at a time, and what follows from it.                         *)
(***************************************************************************)
EXTENDS Spawner, FiniteSetTheorems, TLAPS

(* The proxy a listener is adding is its own, at the stage its pc says,    *)
(* and one container is made at a time.                                    *)
AddInv ==
  /\ \A l \in Listeners :
       /\ lpc[l] \in AddPcs => lpx[l] \in Proxies
       /\ lpc[l] = "checked" => stage[lpx[l]] = "new"
       /\ lpc[l] = "making" => stage[lpx[l]] = "making"
       /\ lpc[l] = "made" => stage[lpx[l]] = "made"
       /\ lpc[l] = "inserted" => stage[lpx[l]] = "added"
  /\ \A l, m \in Listeners :
       lpc[l] \in AddPcs /\ lpc[m] \in AddPcs /\ lpx[l] = lpx[m] => l = m
  /\ \A l, m \in Listeners : lpc[l] = "making" /\ lpc[m] = "making" => l = m

(* The id of the container being made is the next one; all ids handed out  *)
(* are smaller, and the table is indexed by them.                          *)
IdInv ==
  /\ \A l \in Listeners : lpc[l] = "making" => idOf[lpx[l]] = currentId
  /\ \A p \in Proxies : stage[p] \in {"made", "added"} => idOf[p] < currentId
  /\ UniqueIds
  /\ \A i \in DOMAIN connections :
       stage[connections[i]] = "added" /\ idOf[connections[i]] = i

(* A proxy has a context from the making of its container on; every        *)
(* context dies with the spawner's; a listener that ends without asking    *)
(* for it has cancelled the spawner; and so has a Close.                   *)
ContextInv ==
  /\ \A p \in Proxies : stage[p] \in {"none", "new"} <=> pctx[p] = "none"
  /\ NoLiveProxyAfterDeath
  /\ \A l \in Listeners :
       /\ lpc[l] \notin {"spawned", "refused", "entering", "looping"} => lctx[l] # "none"
       /\ lpc[l] \in {"leaving", "done"} => ctx # "alive" \/ lctx[l] = "proxyClosedOk"
  /\ \A u \in Callers : upc[u] # "idle" => ctx # "alive"

(* The keys of a tick are in the table, whose lock the pruner holds, and   *)
(* those to delete belong to dead proxies.  Before the pruner has started, *)
(* nothing has left the table.                                             *)
PrunerInv ==
  /\ IF ppc = "scan" THEN ~busy ELSE scan = {} /\ deleteKeys = {}
  /\ scan \subseteq DOMAIN connections /\ deleteKeys \subseteq DOMAIN connections
  /\ scan \cap deleteKeys = {}
  /\ \A i \in deleteKeys : pctx[connections[i]] = "dead"
  /\ ppc \in {"new", "refused", "spawned"} =>
       \A l \in Listeners : lpc[l] = "inserted" => idOf[lpx[l]] \in DOMAIN connections

CountedListeners == {l \in Listeners : lpc[l] \in Counted}
Uncounted == {l \in Listeners : lpc[l] = "inserted"}
PrunerShare == IF ppc \in {"select", "waiting", "scan", "exited"} THEN 1 ELSE 0

(* What the WaitGroup counts: the listeners, the pruner, which never calls *)
(* wg.Done, and the connections, but for those whose listener has still to *)
(* call wg.Add.                                                            *)
WgInv ==
  /\ IsFiniteSet(DOMAIN connections)
  /\ wg = PrunerShare + Cardinality(CountedListeners)
          + Cardinality(DOMAIN connections) - Cardinality(Uncounted)

(* The inductive invariant of Spawner.                                     *)
IInv == TypeOK /\ AddInv /\ IdInv /\ ContextInv /\ PrunerInv /\ WgInv /\ CloseOkMeansEmpty

-----------------------------------------------------------------------------
(* contextCancel: afterwards the context is dead, the containers that were *)
(* alive are dead, and a listener's context only went from alive to that   *)
(* cause.                                                                  *)
LEMMA CancelFacts ==
  ASSUME TypeOK, NEW cause \in Causes, CancelSpawner(cause)
  PROVE  /\ ctx' \in Causes
         /\ ctx # "alive" => ctx' = ctx /\ lctx' = lctx /\ pctx' = pctx
         /\ lctx' \in [Listeners -> Causes \cup {"alive", "none"}]
         /\ pctx' \in [Proxies -> {"none", "alive", "dead"}]
         /\ \A l \in Listeners : lctx'[l] = lctx[l] \/ (lctx[l] = "alive" /\ lctx'[l] = cause)
         /\ \A p \in Proxies : pctx'[p] = pctx[p] \/ (pctx[p] = "alive" /\ pctx'[p] = "dead")
         /\ ctx = "alive" => \A p \in Proxies : pctx'[p] # "alive"
  <1>1. CASE ctx = "alive"
    BY <1>1 DEF TypeOK, CancelSpawner, CancelAll, Causes
  <1>2. CASE ctx # "alive"
    BY <1>2 DEF TypeOK, CancelSpawner, Causes, ctxVars
  <1>3. QED BY <1>1, <1>2

(* What a listener's last cancellation of the spawner is given.            *)
LEMMA KillFacts ==
  ASSUME TypeOK, ContextInv, NEW l \in Listeners, ListenerKill(l)
  PROVE  (IF lctx[l] = "alive" THEN "failed" ELSE lctx[l]) \in Causes
  BY DEF TypeOK, ContextInv, ListenerKill, Goto, Causes

(* Every step keeps the types: a retry is counted only below MaxRetries,   *)
(* and what enters the table is the proxy its listener holds.              *)
LEMMA TypeStep ==
  ASSUME IInv, [Next]_vars
  PROVE  TypeOK'
  <1> USE DEF IInv, TypeOK, listenerVars, tableVars, prunerVars, ctxVars, AddPcs, Counted
  <1>1. CASE UNCHANGED vars
    BY <1>1 DEF vars
  <1>2. CASE NewCheck
    BY <1>2 DEF NewCheck
  <1>2a. CASE SendAllStep
    BY <1>2a DEF SendAllStep, SendAllLock, SendAllUnlock, ConnLockFree
  <1>3. CASE ParentCancelled
    BY <1>3, CancelFacts DEF ParentCancelled, Causes
  <1>4. ASSUME NEW l \in Listeners, ListenerStep(l)
        PROVE  TypeOK'
    <2>1. CASE ListenerCheck(l)
      BY <2>1 DEF ListenerCheck, Goto
    <2>2. CASE ListenerEnter(l)
      BY <2>2 DEF ListenerEnter, Goto
    <2>3. CASE ListenerRun(l)
      BY <2>3 DEF ListenerRun, Goto, ChildContext
    <2>4. ASSUME NEW cause \in {"retry", "proxyClosedOk", "failed"}, ListenerCancel(l, cause)
          PROVE  TypeOK'
      BY <2>4 DEF ListenerCancel, Causes
    <2>5. CASE ListenerReturn(l) \/ ListenerClosedOk(l) \/ ListenerFatal(l)
      BY <2>5 DEF ListenerReturn, ListenerClosedOk, ListenerFatal, AfterFatal, Goto
    <2>6. CASE ListenerRetry(l)
      BY <2>6, MaxRetriesAssumption DEF ListenerRetry, MayRetry, Goto
    <2>7. CASE ListenerKill(l)
      BY <2>7, CancelFacts, KillFacts DEF ListenerKill, Goto
    <2>8. CASE ListenerDone(l)
      BY <2>8 DEF ListenerDone, Goto
    <2>9. QED BY <1>4, <2>1, <2>2, <2>3, <2>4, <2>5, <2>6, <2>7, <2>8 DEF ListenerStep
  <1>5. ASSUME NEW l \in Listeners, AddStep(l)
        PROVE  TypeOK'
    <2>0. lpc[l] \in AddPcs => lpx[l] \in Proxies
      BY DEF AddInv
    <2>1. ASSUME NEW p \in Proxies, AddCheck(l, p)
          PROVE  TypeOK'
      BY <2>1 DEF AddCheck, Goto
    <2>2. CASE AddMake(l)
      BY <2>2, <2>0 DEF AddMake, Goto, ChildContext
    <2>3. CASE AddInitFailed(l)
      BY <2>3, <2>0 DEF AddInitFailed, Goto
    <2>4. CASE AddMade(l)
      BY <2>4, <2>0 DEF AddMade, Goto
    <2>5. CASE AddInsert(l)
      BY <2>5, <2>0 DEF AddInsert, Goto
    <2>6. CASE AddWg(l)
      BY <2>6 DEF AddWg, Goto, CountConnection
    <2>7. QED BY <1>5, <2>1, <2>2, <2>3, <2>4, <2>5, <2>6 DEF AddStep
  <1>6. ASSUME NEW p \in Proxies, CancelProxy(p)
        PROVE  TypeOK'
    BY <1>6 DEF CancelProxy
  <1>7. CASE PrunerStep
    <2>1. CASE PrunerStart \/ PrunerTick \/ PrunerLock \/ PrunerUnlock \/ PrunerExit
      BY <2>1 DEF PrunerStart, PrunerTick, PrunerLock, PrunerUnlock, PrunerExit
    <2>2. ASSUME NEW i \in scan, PrunerLook(i)
          PROVE  TypeOK'
      BY <2>2 DEF PrunerLook
    <2>3. ASSUME NEW i \in deleteKeys, PrunerDelete(i)
          PROVE  TypeOK'
      BY <2>3 DEF PrunerDelete
    <2>4. QED BY <1>7, <2>1, <2>2, <2>3 DEF PrunerStep
  <1>8. ASSUME NEW u \in Callers, CloseCall(u) \/ CloseOk(u) \/ CloseTimeout(u)
        PROVE  TypeOK'
    <2>1. CASE CloseCall(u)
      BY <2>1, CancelFacts DEF CloseCall, Causes
    <2>2. CASE CloseOk(u) \/ CloseTimeout(u)
      BY <2>2 DEF CloseOk, CloseTimeout
    <2>3. QED BY <1>8, <2>1, <2>2
  <1>9. QED BY <1>1, <1>2, <1>3, <1>4, <1>5, <1>6, <1>7, <1>8, <1>2a DEF Next

(* AddConnection takes a proxy nobody else has, and its stage follows the  *)
(* listener's pc; currentIdLock lets one container be made at a time.      *)
LEMMA AddInvStep ==
  ASSUME IInv, [Next]_vars
  PROVE  AddInv'
  <1> USE DEF IInv, TypeOK, AddInv, listenerVars, tableVars, AddPcs, Counted
  <1>1. CASE UNCHANGED <<lpc, lpx, stage>>
    BY <1>1
  <1>2. ASSUME NEW l \in Listeners, ListenerStep(l)
        PROVE  AddInv'
    <2>1. /\ lpc[l] \notin AddPcs
          /\ \E pc \in {"refused", "entering", "looping", "running", "returned", "leaving", "dying", "done"} :
               lpc' = [lpc EXCEPT ![l] = pc] \/ UNCHANGED lpc
      BY <1>2 DEF ListenerStep, ListenerCheck, ListenerEnter, ListenerRun, ListenerCancel,
                  ListenerReturn, ListenerRetry, ListenerClosedOk, ListenerFatal, ListenerKill,
                  ListenerDone, Goto, AfterFatal
    <2>2. UNCHANGED <<lpx, stage>>
      BY <1>2 DEF ListenerStep, ListenerCheck, ListenerEnter, ListenerRun, ListenerCancel,
                  ListenerReturn, ListenerRetry, ListenerClosedOk, ListenerFatal, ListenerKill,
                  ListenerDone
    <2>3. QED BY <2>1, <2>2
  <1>3. ASSUME NEW l \in Listeners, AddStep(l)
        PROVE  AddInv'
    <2>1. ASSUME NEW p \in Proxies, AddCheck(l, p)
          PROVE  AddInv'
      BY <2>1 DEF AddCheck, Goto
    <2>2. CASE AddMake(l)
      BY <2>2 DEF AddMake, Goto, IdLockFree
    <2>3. CASE AddInitFailed(l)
      BY <2>3 DEF AddInitFailed, Goto
    <2>4. CASE AddMade(l)
      BY <2>4 DEF AddMade, Goto
    <2>5. CASE AddInsert(l)
      BY <2>5 DEF AddInsert, Goto
    <2>6. CASE AddWg(l)
      BY <2>6 DEF AddWg, Goto
    <2>7. QED BY <1>3, <2>1, <2>2, <2>3, <2>4, <2>5, <2>6 DEF AddStep
  <1>4. QED
    BY <1>1, <1>2, <1>3 DEF Next, vars, NewCheck, SendAllStep, SendAllLock, SendAllUnlock,
       ParentCancelled, CancelProxy, PrunerStep,
       PrunerStart, PrunerTick, PrunerLock, PrunerUnlock, PrunerExit, PrunerLook, PrunerDelete,
       CloseCall, CloseOk, CloseTimeout

(* An id is handed out by currentId++ while currentIdLock is still held,   *)
(* and never again after that.                                             *)
LEMMA IdInvStep ==
  ASSUME IInv, [Next]_vars
  PROVE  IdInv'
  <1> USE DEF IInv, TypeOK, AddInv, IdInv, UniqueIds, listenerVars, tableVars, AddPcs
  <1>1. CASE UNCHANGED <<lpc, lpx, stage, idOf, currentId, connections>>
    BY <1>1
  <1>2. ASSUME NEW l \in Listeners, ListenerStep(l)
        PROVE  IdInv'
    <2>1. \A m \in Listeners : lpc'[m] = "making" => lpc[m] = "making"
      BY <1>2 DEF ListenerStep, ListenerCheck, ListenerEnter, ListenerRun, ListenerCancel,
                  ListenerReturn, ListenerRetry, ListenerClosedOk, ListenerFatal, ListenerKill,
                  ListenerDone, Goto, AfterFatal
    <2>2. UNCHANGED <<lpx, stage, idOf, currentId, connections>>
      BY <1>2 DEF ListenerStep, ListenerCheck, ListenerEnter, ListenerRun, ListenerCancel,
                  ListenerReturn, ListenerRetry, ListenerClosedOk, ListenerFatal, ListenerKill,
                  ListenerDone
    <2>3. QED BY <2>1, <2>2
  <1>3. ASSUME NEW l \in Listeners, AddStep(l)
        PROVE  IdInv'
    <2>1. ASSUME NEW p \in Proxies, AddCheck(l, p)
          PROVE  IdInv'
      BY <2>1 DEF AddCheck, Goto
    <2>2. CASE AddMake(l)
      BY <2>2 DEF AddMake, Goto, IdLockFree
    <2>3. CASE AddInitFailed(l)
      BY <2>3 DEF AddInitFailed, Goto
    <2>4. CASE AddMade(l)
      BY <2>4 DEF AddMade, Goto
    <2>5. CASE AddInsert(l)
      BY <2>5 DEF AddInsert, Goto
    <2>6. CASE AddWg(l)
      BY <2>6 DEF AddWg, Goto
    <2>7. QED BY <1>3, <2>1, <2>2, <2>3, <2>4, <2>5, <2>6 DEF AddStep
  <1>4. ASSUME NEW i \in deleteKeys, PrunerDelete(i)
        PROVE  IdInv'
    BY <1>4 DEF PrunerDelete
  <1>5. QED
    BY <1>1, <1>2, <1>3, <1>4 DEF Next, vars, NewCheck, SendAllStep, SendAllLock, SendAllUnlock,
       ParentCancelled, CancelProxy, PrunerStep,
       PrunerStart, PrunerTick, PrunerLock, PrunerUnlock, PrunerExit, PrunerLook, CloseCall, CloseOk, CloseTimeout

(* A cancelled spawner takes every context with it, and a container made   *)
(* afterwards is born dead; a listener ends after it has cancelled the     *)
(* spawner, or has asked to end.                                           *)
LEMMA ContextInvStep ==
  ASSUME IInv, [Next]_vars
  PROVE  ContextInv'
  <1> USE DEF IInv, TypeOK, AddInv, ContextInv, NoLiveProxyAfterDeath, listenerVars, tableVars,
              ctxVars, AddPcs, Counted
  <1>0. "none" \notin Causes /\ "alive" \notin Causes /\ "failed" \in Causes /\ "spawnerClosedOk" \in Causes
    BY DEF Causes
  <1>1. CASE UNCHANGED <<ctx, lctx, pctx, lpc, stage, upc>>
    BY <1>1
  <1>2. CASE ParentCancelled
    BY <1>2, <1>0, CancelFacts DEF ParentCancelled
  <1>3. ASSUME NEW l \in Listeners, ListenerStep(l)
        PROVE  ContextInv'
    <2>1. CASE ListenerCheck(l) \/ ListenerEnter(l) \/ ListenerReturn(l) \/ ListenerRetry(l) \/ ListenerDone(l)
      BY <2>1 DEF ListenerCheck, ListenerEnter, ListenerReturn, ListenerRetry, ListenerDone, Goto
    <2>2. CASE ListenerRun(l)
      BY <2>2, <1>0 DEF ListenerRun, Goto, ChildContext
    <2>3. ASSUME NEW cause \in {"retry", "proxyClosedOk", "failed"}, ListenerCancel(l, cause)
          PROVE  ContextInv'
      BY <2>3 DEF ListenerCancel
    <2>4. CASE ListenerClosedOk(l) \/ ListenerFatal(l)
      BY <2>4 DEF ListenerClosedOk, ListenerFatal, AfterFatal, Goto
    <2>5. CASE ListenerKill(l)
      BY <2>5, <1>0, CancelFacts, KillFacts DEF ListenerKill, Goto
    <2>6. QED BY <1>3, <2>1, <2>2, <2>3, <2>4, <2>5 DEF ListenerStep
  <1>4. ASSUME NEW l \in Listeners, AddStep(l)
        PROVE  ContextInv'
    <2>1. ASSUME NEW p \in Proxies, AddCheck(l, p)
          PROVE  ContextInv'
      BY <2>1 DEF AddCheck, Goto
    <2>2. CASE AddMake(l)
      BY <2>2 DEF AddMake, Goto, ChildContext
    <2>3. CASE AddInitFailed(l)
      BY <2>3 DEF AddInitFailed, Goto
    <2>4. CASE AddMade(l)
      BY <2>4 DEF AddMade, Goto
    <2>5. CASE AddInsert(l)
      BY <2>5 DEF AddInsert, Goto
    <2>6. CASE AddWg(l)
      BY <2>6 DEF AddWg, Goto
    <2>7. QED BY <1>4, <2>1, <2>2, <2>3, <2>4, <2>5, <2>6 DEF AddStep
  <1>5. ASSUME NEW p \in Proxies, CancelProxy(p)
        PROVE  ContextInv'
    BY <1>5 DEF CancelProxy
  <1>6. ASSUME NEW u \in Callers, CloseCall(u) \/ CloseOk(u) \/ CloseTimeout(u)
        PROVE  ContextInv'
    <2>1. CASE CloseCall(u)
      BY <2>1, <1>0, CancelFacts DEF CloseCall
    <2>2. CASE CloseOk(u) \/ CloseTimeout(u)
      BY <2>2 DEF CloseOk, CloseTimeout
    <2>3. QED BY <1>6, <2>1, <2>2
  <1>7. QED
    BY <1>1, <1>2, <1>3, <1>4, <1>5, <1>6 DEF Next, vars, NewCheck, SendAllStep, SendAllLock, SendAllUnlock,
       PrunerStep,
       PrunerStart, PrunerTick, PrunerLock, PrunerUnlock, PrunerExit, PrunerLook, PrunerDelete

(* No connection enters the table while the pruner holds its lock, and no  *)
(* container comes back to life.                                           *)
LEMMA PrunerInvStep ==
  ASSUME IInv, [Next]_vars
  PROVE  PrunerInv'
  <1> USE DEF IInv, TypeOK, AddInv, PrunerInv, listenerVars, tableVars, prunerVars, ctxVars, AddPcs
  <1>1. CASE UNCHANGED <<lpc, lpx, pctx, stage, idOf, connections, prunerVars>>
    BY <1>1
  <1>2. CASE NewCheck
    BY <1>2 DEF NewCheck
  <1>2a. CASE SendAllStep
    BY <1>2a DEF SendAllStep, SendAllLock, SendAllUnlock, ConnLockFree
  <1>3. CASE ParentCancelled
    BY <1>3, CancelFacts DEF ParentCancelled, Causes
  <1>4. ASSUME NEW l \in Listeners, ListenerStep(l)
        PROVE  PrunerInv'
    <2>1. \A m \in Listeners : lpc'[m] = "inserted" => lpc[m] = "inserted"
      BY <1>4 DEF ListenerStep, ListenerCheck, ListenerEnter, ListenerRun, ListenerCancel,
                  ListenerReturn, ListenerRetry, ListenerClosedOk, ListenerFatal, ListenerKill,
                  ListenerDone, Goto, AfterFatal
    <2>2. UNCHANGED <<lpx, idOf, connections, prunerVars>>
      BY <1>4 DEF ListenerStep, ListenerCheck, ListenerEnter, ListenerRun, ListenerCancel,
                  ListenerReturn, ListenerRetry, ListenerClosedOk, ListenerFatal, ListenerKill,
                  ListenerDone
    <2>3. \A p \in Proxies : pctx[p] = "dead" => pctx'[p] = "dead"
      BY <1>4, CancelFacts, KillFacts
         DEF ListenerStep, ListenerCheck, ListenerEnter, ListenerRun, ListenerCancel,
             ListenerReturn, ListenerRetry, ListenerClosedOk, ListenerFatal, ListenerKill, ListenerDone
    <2>4. QED BY <2>1, <2>2, <2>3
  <1>5. ASSUME NEW l \in Listeners, AddStep(l)
        PROVE  PrunerInv'
    <2>1. ASSUME NEW p \in Proxies, AddCheck(l, p)
          PROVE  PrunerInv'
      BY <2>1 DEF AddCheck, Goto
    <2>2. CASE AddMake(l) \/ AddInitFailed(l)
      <3>1. \A i \in DOMAIN connections : connections[i] # lpx[l]
        BY <2>2 DEF IdInv, AddMake, AddInitFailed, Goto
      <3>2. \A m \in Listeners : lpc[m] = "inserted" => lpx[m] # lpx[l]
        BY <2>2 DEF AddMake, AddInitFailed, Goto
      <3>3. QED BY <2>2, <3>1, <3>2 DEF AddMake, AddInitFailed, Goto
    <2>3. CASE AddMade(l)
      BY <2>3 DEF AddMade, Goto
    <2>4. CASE AddInsert(l)
      BY <2>4 DEF AddInsert, Goto, ConnLockFree
    <2>5. CASE AddWg(l)
      BY <2>5 DEF AddWg, Goto
    <2>6. QED BY <1>5, <2>1, <2>2, <2>3, <2>4, <2>5 DEF AddStep
  <1>6. ASSUME NEW p \in Proxies, CancelProxy(p)
        PROVE  PrunerInv'
    BY <1>6 DEF CancelProxy
  <1>7. CASE PrunerStep
    <2>1. CASE PrunerStart \/ PrunerTick \/ PrunerLock \/ PrunerUnlock \/ PrunerExit
      BY <2>1 DEF PrunerStart, PrunerTick, PrunerLock, PrunerUnlock, PrunerExit, ConnLockFree
    <2>2. ASSUME NEW i \in scan, PrunerLook(i)
          PROVE  PrunerInv'
      BY <2>2 DEF PrunerLook, FoundDead, IdInv, ContextInv
    <2>3. ASSUME NEW i \in deleteKeys, PrunerDelete(i)
          PROVE  PrunerInv'
      BY <2>3 DEF PrunerDelete
    <2>4. QED BY <1>7, <2>1, <2>2, <2>3 DEF PrunerStep
  <1>8. ASSUME NEW u \in Callers, CloseCall(u) \/ CloseOk(u) \/ CloseTimeout(u)
        PROVE  PrunerInv'
    BY <1>8, CancelFacts DEF CloseCall, CloseOk, CloseTimeout, Causes
  <1>9. QED BY <1>1, <1>2, <1>3, <1>4, <1>5, <1>6, <1>7, <1>8, <1>2a DEF Next, vars

(* The sets WgInv counts are finite, and a counted listener stays one      *)
(* while it is inside AddConnection.                                       *)
LEMMA CountFacts ==
  /\ IsFiniteSet(CountedListeners) /\ Cardinality(CountedListeners) \in Nat
  /\ IsFiniteSet(Uncounted) /\ Cardinality(Uncounted) \in Nat
  /\ Cardinality(Uncounted) <= Cardinality(CountedListeners)
  <1>1. IsFiniteSet(CountedListeners)
    BY ListenersAssumption, FS_Subset DEF CountedListeners
  <1>2. Uncounted \subseteq CountedListeners
    BY DEF Uncounted, CountedListeners, Counted, AddPcs
  <1>3. IsFiniteSet(Uncounted) /\ Cardinality(Uncounted) <= Cardinality(CountedListeners)
    BY <1>1, <1>2, FS_Subset
  <1>4. QED BY <1>1, <1>3, FS_CardinalityType

(* Each wg.Add and wg.Done goes with one element entering or leaving one   *)
(* of the sets counted.                                                    *)
LEMMA WgInvStep ==
  ASSUME IInv, [Next]_vars
  PROVE  WgInv'
  <1> USE DEF IInv, listenerVars, tableVars, prunerVars, ctxVars
  <1>0. /\ IsFiniteSet(CountedListeners) /\ Cardinality(CountedListeners) \in Nat
        /\ IsFiniteSet(Uncounted) /\ Cardinality(Uncounted) \in Nat
        /\ IsFiniteSet(DOMAIN connections) /\ Cardinality(DOMAIN connections) \in Nat
        /\ lpc \in [Listeners -> {"spawned", "refused", "entering", "done"} \cup Counted]
        /\ wg \in Int /\ PrunerShare \in Int
    BY CountFacts, FS_CardinalityType DEF TypeOK, WgInv, PrunerShare
  <1>1. CASE UNCHANGED <<lpc, wg, connections, PrunerShare>>
    BY <1>1 DEF WgInv, CountedListeners, Uncounted
  <1>2. ASSUME NEW l \in Listeners, ListenerStep(l)
        PROVE  WgInv'
    <2>0. UNCHANGED <<connections, PrunerShare>>
      BY <1>2 DEF ListenerStep, ListenerCheck, ListenerEnter, ListenerRun, ListenerCancel,
                  ListenerReturn, ListenerRetry, ListenerClosedOk, ListenerFatal, ListenerKill,
                  ListenerDone, PrunerShare
    <2>1. CASE ListenerEnter(l)
      <3>1. l \notin CountedListeners /\ CountedListeners' = CountedListeners \cup {l} /\ Uncounted' = Uncounted
        BY <2>1, <1>0 DEF ListenerEnter, Goto, CountedListeners, Uncounted, Counted, AddPcs
      <3>2. Cardinality(CountedListeners') = Cardinality(CountedListeners) + 1
        BY <3>1, <1>0, FS_AddElement
      <3>3. wg' = wg + 1
        BY <2>1 DEF ListenerEnter
      <3>4. QED BY <2>0, <3>1, <3>2, <3>3, <1>0 DEF WgInv
    <2>2. CASE ListenerDone(l)
      <3>1. l \in CountedListeners /\ CountedListeners' = CountedListeners \ {l} /\ Uncounted' = Uncounted
        BY <2>2, <1>0 DEF ListenerDone, Goto, CountedListeners, Uncounted, Counted, AddPcs
      <3>2. Cardinality(CountedListeners') = Cardinality(CountedListeners) - 1
        BY <3>1, <1>0, FS_RemoveElement
      <3>3. wg' = wg - 1
        BY <2>2 DEF ListenerDone
      <3>4. QED BY <2>0, <3>1, <3>2, <3>3, <1>0 DEF WgInv
    <2>3. CASE ~ListenerEnter(l) /\ ~ListenerDone(l)
      <3>1. /\ UNCHANGED wg
            /\ \/ UNCHANGED lpc
               \/ /\ lpc[l] \in {"spawned"} /\ \E pc \in {"entering", "refused"} : lpc' = [lpc EXCEPT ![l] = pc]
               \/ /\ lpc[l] \in Counted \ {"inserted"}
                  /\ \E pc \in Counted \ {"inserted"} : lpc' = [lpc EXCEPT ![l] = pc]
        BY <1>2, <2>3 DEF ListenerStep, ListenerCheck, ListenerRun, ListenerCancel, ListenerReturn,
             ListenerRetry, ListenerClosedOk, ListenerFatal, ListenerKill, Goto, AfterFatal, Counted, AddPcs
      <3>2. CountedListeners' = CountedListeners /\ Uncounted' = Uncounted
        BY <3>1, <1>0 DEF CountedListeners, Uncounted, Counted, AddPcs
      <3>3. QED BY <2>0, <3>1, <3>2 DEF WgInv
    <2>4. QED BY <2>1, <2>2, <2>3
  <1>3. ASSUME NEW l \in Listeners, AddStep(l)
        PROVE  WgInv'
    <2>0. UNCHANGED PrunerShare
      BY <1>3 DEF AddStep, AddCheck, AddMake, AddInitFailed, AddMade, AddInsert, AddWg, PrunerShare
    <2>1. CASE AddInsert(l)
      <3>1. /\ l \notin Uncounted /\ Uncounted' = Uncounted \cup {l}
            /\ CountedListeners' = CountedListeners
        BY <2>1, <1>0 DEF AddInsert, Goto, CountedListeners, Uncounted, Counted, AddPcs
      <3>2. idOf[lpx[l]] \notin DOMAIN connections
        BY <2>1 DEF TypeOK, AddInsert, Goto, AddInv, IdInv, UniqueIds, AddPcs
      <3>3. DOMAIN connections' = DOMAIN connections \cup {idOf[lpx[l]]} /\ wg' = wg
        BY <2>1 DEF AddInsert
      <3>4. /\ IsFiniteSet(DOMAIN connections')
            /\ Cardinality(DOMAIN connections') = Cardinality(DOMAIN connections) + 1
        BY <3>2, <3>3, <1>0, FS_AddElement
      <3>5. Cardinality(Uncounted') = Cardinality(Uncounted) + 1
        BY <3>1, <1>0, FS_AddElement
      <3>6. QED BY <2>0, <3>1, <3>3, <3>4, <3>5, <1>0 DEF WgInv
    <2>2. CASE AddWg(l)
      <3>1. /\ l \in Uncounted /\ Uncounted' = Uncounted \ {l}
            /\ CountedListeners' = CountedListeners
        BY <2>2, <1>0 DEF AddWg, Goto, CountedListeners, Uncounted, Counted, AddPcs
      <3>2. Cardinality(Uncounted') = Cardinality(Uncounted) - 1
        BY <3>1, <1>0, FS_RemoveElement
      <3>3. connections' = connections /\ wg' = wg + 1
        BY <2>2 DEF AddWg, CountConnection
      <3>4. QED BY <2>0, <3>1, <3>2, <3>3, <1>0 DEF WgInv
    <2>3. CASE ~AddInsert(l) /\ ~AddWg(l)
      <3>1. /\ UNCHANGED <<wg, connections>>
            /\ lpc[l] \in Counted \ {"inserted"}
            /\ \E pc \in Counted \ {"inserted"} : lpc' = [lpc EXCEPT ![l] = pc]
        BY <1>3, <2>3 DEF AddStep, AddCheck, AddMake, AddInitFailed, AddMade, Goto, Counted, AddPcs
      <3>2. CountedListeners' = CountedListeners /\ Uncounted' = Uncounted
        BY <3>1, <1>0 DEF CountedListeners, Uncounted, Counted, AddPcs
      <3>3. QED BY <2>0, <3>1, <3>2 DEF WgInv
    <2>4. QED BY <2>1, <2>2, <2>3
  <1>4. CASE PrunerStart
    <2>1. PrunerShare = 0 /\ PrunerShare' = 1
      BY <1>4 DEF PrunerStart, PrunerShare
    <2>2. wg' = wg + 1 /\ UNCHANGED <<lpc, connections>>
      BY <1>4 DEF PrunerStart
    <2>3. UNCHANGED <<CountedListeners, Uncounted>>
      BY <2>2 DEF CountedListeners, Uncounted
    <2>4. QED BY <2>1, <2>2, <2>3, <1>0 DEF WgInv
  <1>5. ASSUME NEW i \in deleteKeys, PrunerDelete(i)
        PROVE  WgInv'
    <2>1. i \in DOMAIN connections
      BY DEF PrunerInv
    <2>2. /\ wg' = wg - 1 /\ UNCHANGED <<lpc, PrunerShare>>
          /\ DOMAIN connections' = DOMAIN connections \ {i}
      BY <1>5 DEF PrunerDelete, PrunerShare
    <2>3. /\ IsFiniteSet(DOMAIN connections')
          /\ Cardinality(DOMAIN connections') = Cardinality(DOMAIN connections) - 1
      BY <2>1, <2>2, <1>0, FS_RemoveElement
    <2>4. UNCHANGED <<CountedListeners, Uncounted>>
      BY <2>2 DEF CountedListeners, Uncounted
    <2>5. QED BY <2>2, <2>3, <2>4, <1>0 DEF WgInv
  <1>6. QED
    BY <1>1, <1>2, <1>3, <1>4, <1>5 DEF Next, vars, PrunerShare, NewCheck, SendAllStep, SendAllLock, SendAllUnlock,
       ParentCancelled, CancelProxy,
       PrunerStep, PrunerTick, PrunerLock, PrunerUnlock, PrunerExit, PrunerLook, CloseCall, CloseOk, CloseTimeout

(* CloseOk is taken only when the WaitGroup counts nothing: then nothing   *)
(* is in the table, and as no listener is counted none is adding to it.    *)
(* Afterwards the context is dead and AddCheck fails.                      *)
LEMMA CloseOkStep ==
  ASSUME IInv, [Next]_vars
  PROVE  CloseOkMeansEmpty'
  <1> USE DEF CloseOkMeansEmpty, listenerVars, tableVars, prunerVars, ctxVars, AddPcs
  <1>0. TypeOK /\ AddInv /\ ContextInv /\ PrunerInv /\ WgInv /\ CloseOkMeansEmpty
    BY DEF IInv
  <1>1. ASSUME NEW u \in Callers, CloseOk(u)
        PROVE  CloseOkMeansEmpty'
    <2>1. wg = 0 /\ UNCHANGED <<lpc, connections>>
      BY <1>1 DEF CloseOk
    <2>2. /\ Cardinality(CountedListeners) \in Nat /\ Cardinality(Uncounted) \in Nat
          /\ Cardinality(Uncounted) <= Cardinality(CountedListeners)
          /\ IsFiniteSet(CountedListeners) /\ IsFiniteSet(Uncounted)
      BY CountFacts
    <2>3. Cardinality(DOMAIN connections) \in Nat /\ IsFiniteSet(DOMAIN connections)
      BY <1>0, FS_CardinalityType DEF WgInv
    <2>4. PrunerShare = 0 /\ Cardinality(DOMAIN connections) = 0
      BY <1>0, <2>1, <2>2, <2>3 DEF WgInv, PrunerShare
    <2>5. DOMAIN connections = {}
      BY <2>3, <2>4, FS_EmptySet
    <2>6. Uncounted = {}
      BY <1>0, <2>4, <2>5 DEF PrunerInv, PrunerShare, TypeOK, Uncounted
    <2>7. CountedListeners = {}
      <3>1. Cardinality(Uncounted) = 0
        BY <2>6, FS_EmptySet
      <3>2. Cardinality(CountedListeners) = 0
        BY <1>0, <2>1, <2>2, <2>4, <3>1 DEF WgInv
      <3>3. QED BY <2>2, <3>2, FS_EmptySet
    <2>8. QED BY <2>1, <2>5, <2>7 DEF CountedListeners, Counted
  <1>2. CASE \E u \in Callers : upc[u] = "ok"
    <2>1. ctx # "alive" /\ DOMAIN connections = {} /\ \A l \in Listeners : lpc[l] \notin AddPcs
      BY <1>0, <1>2 DEF ContextInv
    <2>2. deleteKeys = {}
      BY <1>0, <2>1 DEF PrunerInv
    <2>3. DOMAIN connections' = {} /\ \A l \in Listeners : lpc'[l] \notin AddPcs
      <3>1. CASE UNCHANGED <<lpc, connections>>
        BY <3>1, <2>1
      <3>2. ASSUME NEW l \in Listeners, ListenerStep(l)
            PROVE  DOMAIN connections' = {} /\ \A m \in Listeners : lpc'[m] \notin AddPcs
        BY <3>2, <2>1, <1>0
           DEF TypeOK, ListenerStep, ListenerCheck, ListenerEnter, ListenerRun, ListenerCancel,
               ListenerReturn, ListenerRetry, ListenerClosedOk, ListenerFatal, ListenerKill,
               ListenerDone, Goto, AfterFatal
      <3>3. ASSUME NEW l \in Listeners, AddStep(l)
            PROVE  FALSE
        BY <3>3, <2>1 DEF AddStep, AddCheck, AddMake, AddInitFailed, AddMade, AddInsert, AddWg, Goto
      <3>4. QED
        BY <2>2, <3>1, <3>2, <3>3 DEF Next, vars, NewCheck, SendAllStep, SendAllLock, SendAllUnlock,
           ParentCancelled, CancelProxy, PrunerStep,
           PrunerStart, PrunerTick, PrunerLock, PrunerUnlock, PrunerExit, PrunerLook, PrunerDelete,
           CloseCall, CloseOk, CloseTimeout
    <2>4. QED BY <2>3
  <1>3. CASE ~(\E u \in Callers : upc[u] = "ok") /\ ~(\E u \in Callers : CloseOk(u))
    <2>1. ~(\E u \in Callers : upc'[u] = "ok")
      <3>1. ASSUME NEW v \in Callers, CloseCall(v) \/ CloseTimeout(v)
            PROVE  ~(\E u \in Callers : upc'[u] = "ok")
        BY <3>1, <1>0, <1>3 DEF TypeOK, CloseCall, CloseTimeout
      <3>2. CASE UNCHANGED upc
        BY <3>2, <1>3
      <3>3. QED
        BY <1>3, <3>1, <3>2 DEF Next, vars, NewCheck, SendAllStep, SendAllLock, SendAllUnlock,
           ParentCancelled, CancelProxy, ListenerStep, AddStep,
           ListenerCheck, ListenerEnter, ListenerRun, ListenerCancel, ListenerReturn, ListenerRetry,
           ListenerClosedOk, ListenerFatal, ListenerKill, ListenerDone, AddCheck, AddMake,
           AddInitFailed, AddMade, AddInsert, AddWg, PrunerStep, PrunerStart, PrunerTick, PrunerLock,
           PrunerUnlock, PrunerExit, PrunerLook, PrunerDelete
    <2>2. QED BY <2>1
  <1>4. QED BY <1>1, <1>2, <1>3

-----------------------------------------------------------------------------
(* A spawner starts with one goroutine per listener and nothing counted.   *)
LEMMA InitInv == Init => IInv
  <1> SUFFICES ASSUME Init PROVE IInv
    OBVIOUS
  <1>0. busy = FALSE
    BY DEF Init
  <1> USE DEF Init
  <1>1. TypeOK
    <2>1. lpc \in [Listeners -> {"spawned", "refused", "entering", "done"} \cup Counted]
      OBVIOUS
    <2>2. busy \in BOOLEAN
      BY <1>0
    <2>3. QED BY <2>1, <2>2, MaxRetriesAssumption DEF TypeOK
  <1>2. AddInv /\ IdInv /\ ContextInv /\ PrunerInv /\ CloseOkMeansEmpty
    BY DEF AddInv, IdInv, UniqueIds, ContextInv, NoLiveProxyAfterDeath, PrunerInv,
           CloseOkMeansEmpty, AddPcs
  <1>3. CountedListeners = {} /\ Uncounted = {} /\ DOMAIN connections = {}
    BY DEF CountedListeners, Uncounted, Counted, AddPcs
  <1>4. WgInv
    BY <1>3, FS_EmptySet DEF WgInv, PrunerShare
  <1>5. QED BY <1>1, <1>2, <1>4 DEF IInv

(* The inductive invariant holds in every state of the spawner.            *)
THEOREM Inductive == Spec => []IInv
  <1>1. IInv /\ [Next]_vars => IInv'
    BY TypeStep, AddInvStep, IdInvStep, ContextInvStep, PrunerInvStep, WgInvStep, CloseOkStep DEF IInv
  <1>2. QED BY InitInv, <1>1, PTL DEF Spec

(* Every variable keeps its type; in particular no listener is run again   *)
(* more often than MaxRetries.                                             *)
THEOREM TypeCorrect == Spec => []TypeOK
  <1>1. IInv => TypeOK
    BY DEF IInv
  <1>2. QED BY <1>1, Inductive, PTL

(* The WaitGroup never panics: a connection that the pruner removes before *)
(* AddConnection has counted it is covered by its listener's own count.    *)
THEOREM WgSafe == Spec => []WgNeverNegative
  <1>1. ASSUME IInv
        PROVE  WgNeverNegative
    <2>1. IsFiniteSet(DOMAIN connections) => Cardinality(DOMAIN connections) \in Nat
      BY FS_CardinalityType
    <2>2. QED BY <1>1, <2>1, CountFacts DEF IInv, WgInv, PrunerShare, WgNeverNegative
  <1>2. QED BY <1>1, Inductive, PTL

(* No two initialised proxies share an id, pruned ones included.           *)
THEOREM IdsUnique == Spec => []UniqueIds
  <1>1. IInv => UniqueIds
    BY DEF IInv, IdInv
  <1>2. QED BY <1>1, Inductive, PTL

(* A dead spawner has no live container.                                   *)
THEOREM DeathReachesAll == Spec => []NoLiveProxyAfterDeath
  <1>1. IInv => NoLiveProxyAfterDeath
    BY DEF IInv, ContextInv
  <1>2. QED BY <1>1, Inductive, PTL

(* A listener goroutine that ends without ErrProxyClosedOk leaves a dead   *)
(* spawner behind.                                                         *)
THEOREM ListenersFate == Spec => []ListenerFate
  <1>1. IInv => ListenerFate
    BY DEF IInv, ContextInv, ListenerFate
  <1>2. QED BY <1>1, Inductive, PTL

(* What a Close that returned nil may rely on.                             *)
THEOREM CloseMeansEmpty == Spec => []CloseOkMeansEmpty
  <1>1. IInv => CloseOkMeansEmpty
    BY DEF IInv
  <1>2. QED BY <1>1, Inductive, PTL

-----------------------------------------------------------------------------
(* A dead spawner winds down.                                              *)

(* The pcs of addListener by the steps that are left in a run.             *)
Left == [spawned |-> 9, refused |-> 0, entering |-> 8, looping |-> 7,
         checked |-> 12, making |-> 11, made |-> 10, inserted |-> 9, running |-> 6,
         returned |-> 5, dying |-> 4, leaving |-> 3, done |-> 0]

LEMMA LeftSmall ==
  \A pc \in {"spawned", "refused", "entering", "done"} \cup Counted : Left[pc] \in 0..12
  BY DEF Left, Counted, AddPcs

(* Where a goroutine can go once the context is dead: down, or, while it   *)
(* still has a retry, to the start of its loop.                            *)
LEMMA DownOrRetry ==
  ASSUME IInv, ctx # "alive", NEW l \in Listeners, ListenerStep(l) \/ AddStep(l)
  PROVE  /\ ctx' = ctx
         /\ \A m \in Listeners : m # l => lpc'[m] = lpc[m] /\ retryCount'[m] = retryCount[m]
         /\ \/ retryCount'[l] = retryCount[l] /\ Left[lpc'[l]] < Left[lpc[l]]
            \/ retryCount'[l] = retryCount[l] /\ lpc'[l] = lpc[l]
            \/ /\ retryCount[l] < MaxRetries /\ retryCount'[l] = retryCount[l] + 1
               /\ lpc[l] = "returned" /\ lpc'[l] = "looping"
  <1>1. TypeOK
    BY DEF IInv
  <1>2. lpc \in [Listeners -> {"spawned", "refused", "entering", "done"} \cup Counted]
    BY <1>1 DEF TypeOK
  <1>3. ASSUME NEW from, NEW to, Goto(l, from, to), UNCHANGED <<ctx, retryCount>>,
               Left[to] < Left[from]
        PROVE  /\ ctx' = ctx
               /\ \A m \in Listeners : m # l => lpc'[m] = lpc[m] /\ retryCount'[m] = retryCount[m]
               /\ retryCount'[l] = retryCount[l] /\ Left[lpc'[l]] < Left[lpc[l]]
    BY <1>2, <1>3 DEF Goto
  <1>4. CASE ListenerCheck(l)
    BY <1>3, <1>4 DEF ListenerCheck, ctxVars, Left
  <1>5. CASE ListenerEnter(l)
    BY <1>3, <1>5 DEF ListenerEnter, ctxVars, Left
  <1>6. CASE ListenerRun(l)
    BY <1>3, <1>6 DEF ListenerRun, Left
  <1>7. ASSUME NEW cause, ListenerCancel(l, cause)
        PROVE  ctx' = ctx /\ lpc' = lpc /\ retryCount' = retryCount
    BY <1>7 DEF ListenerCancel, listenerVars
  <1>8. CASE ListenerReturn(l)
    BY <1>3, <1>8 DEF ListenerReturn, ctxVars, Left
  <1>9. CASE ListenerRetry(l)
    <2>1. Goto(l, "returned", "looping") /\ retryCount[l] < MaxRetries /\ ctx' = ctx
      BY <1>9 DEF ListenerRetry, MayRetry, ctxVars
    <2>2. retryCount' = [retryCount EXCEPT ![l] = retryCount[l] + 1]
      BY <1>9 DEF ListenerRetry
    <2>3. QED BY <1>1, <2>1, <2>2 DEF TypeOK, Goto
  <1>10. CASE ListenerClosedOk(l)
    BY <1>3, <1>10 DEF ListenerClosedOk, ctxVars, Left
  <1>11. CASE ListenerFatal(l)
    BY <1>3, <1>11 DEF ListenerFatal, AfterFatal, ctxVars, Left
  <1>12. CASE ListenerKill(l)
    <2>1. ctx' = ctx
      BY <1>1, <1>12, CancelFacts, KillFacts DEF ListenerKill, IInv
    <2>2. QED BY <1>3, <1>12, <2>1 DEF ListenerKill, Left
  <1>13. CASE ListenerDone(l)
    BY <1>3, <1>13 DEF ListenerDone, ctxVars, Left
  <1>14. ASSUME NEW p \in Proxies, AddCheck(l, p) PROVE FALSE
    BY <1>14 DEF AddCheck
  <1>15. CASE AddMake(l)
    BY <1>3, <1>15 DEF AddMake, Left
  <1>16. CASE AddInitFailed(l)
    BY <1>3, <1>16 DEF AddInitFailed, Left
  <1>17. CASE AddMade(l)
    BY <1>3, <1>17 DEF AddMade, ctxVars, Left
  <1>18. CASE AddInsert(l)
    BY <1>3, <1>18 DEF AddInsert, ctxVars, Left
  <1>19. CASE AddWg(l)
    BY <1>3, <1>19 DEF AddWg, ctxVars, Left
  <1>20. QED
    BY <1>4, <1>5, <1>6, <1>7, <1>8, <1>9, <1>10, <1>11, <1>12, <1>13, <1>14, <1>15, <1>16,
       <1>17, <1>18, <1>19 DEF ListenerStep, AddStep

(* The other goroutines leave those of the listeners alone, and a dead     *)
(* context keeps its cause.                                                *)
LEMMA OthersLeave ==
  ASSUME IInv, ctx # "alive", [Next]_vars,
         \A l \in Listeners : ~ListenerStep(l) /\ ~AddStep(l)
  PROVE  ctx' = ctx /\ lpc' = lpc
  <1>1. CASE NewCheck \/ PrunerStep \/ SendAllStep \/ UNCHANGED vars
    BY <1>1 DEF NewCheck, SendAllStep, SendAllLock, SendAllUnlock,
       PrunerStep, PrunerStart, PrunerTick, PrunerLock, PrunerUnlock, PrunerExit,
       PrunerLook, PrunerDelete, vars, ctxVars, listenerVars
  <1>2. ASSUME NEW p \in Proxies, CancelProxy(p) PROVE ctx' = ctx /\ lpc' = lpc
    BY <1>2 DEF CancelProxy, listenerVars
  <1>3. ASSUME NEW u \in Callers, CloseCall(u) \/ CloseOk(u) \/ CloseTimeout(u)
        PROVE  ctx' = ctx /\ lpc' = lpc
    BY <1>3, CancelFacts DEF IInv, CloseCall, CloseOk, CloseTimeout, Causes, ctxVars, listenerVars
  <1>4. ~ParentCancelled
    BY DEF ParentCancelled
  <1>5. QED BY <1>1, <1>2, <1>3, <1>4 DEF Next

(* No listener goroutine keeps a dead spawner busy for ever, however many  *)
(* retries it has: the steps that are left become fewer.                   *)
THEOREM WindsDown == Spec => RunsOut
  <1> DEFINE Fewer(l) == 0 <= StepsLeft(l)' /\ StepsLeft(l)' < StepsLeft(l)
  <1>1. ASSUME IInv, IInv', [Next]_vars, ctx # "alive"
        PROVE  ctx' = ctx /\ \A l \in Listeners : lpc'[l] # lpc[l] => Fewer(l)
    <2>1. CASE \A l \in Listeners : ~ListenerStep(l) /\ ~AddStep(l)
      BY <1>1, <2>1, OthersLeave
    <2>2. ASSUME NEW l \in Listeners, ListenerStep(l) \/ AddStep(l)
          PROVE  ctx' = ctx /\ \A m \in Listeners : lpc'[m] # lpc[m] => Fewer(m)
      <3>1. ctx' = ctx /\ \A m \in Listeners : m # l => lpc'[m] = lpc[m]
        BY <1>1, <2>2, DownOrRetry
      <3>2. ASSUME lpc'[l] # lpc[l] PROVE Fewer(l)
        <4>1. /\ MaxRetries \in Nat
              /\ retryCount[l] \in 0..MaxRetries /\ retryCount'[l] \in 0..MaxRetries
          BY <1>1, MaxRetriesAssumption DEF IInv, TypeOK
        <4>2. Left[lpc[l]] \in 0..12 /\ Left[lpc'[l]] \in 0..12
          <5>1. {lpc[l], lpc'[l]} \subseteq {"spawned", "refused", "entering", "done"} \cup Counted
            BY <1>1 DEF IInv, TypeOK
          <5>2. QED BY <5>1, LeftSmall
        <4>3. /\ StepsLeft(l) = 12 * (MaxRetries - retryCount[l]) + Left[lpc[l]]
              /\ StepsLeft(l)' = 12 * (MaxRetries - retryCount'[l]) + Left[lpc'[l]]
          BY DEF StepsLeft, Left
        <4>4. \/ retryCount'[l] = retryCount[l] /\ Left[lpc'[l]] < Left[lpc[l]]
              \/ retryCount'[l] = retryCount[l] + 1 /\ Left[lpc'[l]] = 7 /\ Left[lpc[l]] = 5
          BY <1>1, <2>2, <3>2, DownOrRetry DEF Left
        <4>5. QED BY <4>1, <4>2, <4>3, <4>4
      <3>3. QED BY <3>1, <3>2
    <2>3. QED BY <2>1, <2>2
  <1>2. QED BY <1>1, Inductive, PTL DEF Spec, RunsOut

-----------------------------------------------------------------------------
(* A step that leaves the table and the ids alone and lets no container    *)
(* come back to life is a Die, perhaps of nobody, of the abstract table;   *)
(* or its Fall, when the spawner's context is dead afterwards.             *)
LEMMA DieStep ==
  ASSUME UNCHANGED <<connections, {q \in Proxies : stage[q] = "added"},
                     {idOf[p] : p \in {q \in Proxies : stage[q] = "added"}}>>,
         UNCHANGED <<ctx # "alive", \E u \in Callers : upc[u] = "ok">>,
         \A p \in Proxies : pctx[p] = "dead" => pctx'[p] = "dead"
  PROVE  Table!Next
  <1>1. PICK D \in SUBSET Proxies : D = {p \in Proxies : pctx'[p] = "dead"}
    OBVIOUS
  <1>2. Table!Die(D)
    BY <1>1 DEF Table!Die
  <1>3. QED BY <1>2 DEF Table!Next

LEMMA FallStep ==
  ASSUME IInv, NEW cause \in Causes, CancelSpawner(cause), UNCHANGED tableVars,
         UNCHANGED (\E u \in Callers : upc[u] = "ok")
  PROVE  Table!Next
  <1>1. UNCHANGED <<connections, stage, idOf>>
    BY DEF tableVars
  <1>2. ctx' # "alive" /\ \A p \in Proxies : pctx[p] = "dead" => pctx'[p] = "dead"
    BY CancelFacts DEF IInv, Causes
  <1>3. \A p \in Proxies : stage[p] = "added" => pctx'[p] = "dead"
    BY CancelFacts DEF IInv, TypeOK, ContextInv, NoLiveProxyAfterDeath
  <1>4. PICK D \in SUBSET Proxies : D = {p \in Proxies : pctx'[p] = "dead"}
    OBVIOUS
  <1>5. Table!Fall(D)
    BY <1>1, <1>2, <1>3, <1>4 DEF Table!Fall
  <1>6. QED BY <1>5 DEF Table!Next

(* A Close that returns nil is the abstract one: nothing is left.          *)
LEMMA CloseStep ==
  ASSUME IInv, IInv', NEW u \in Callers, CloseOk(u)
  PROVE  Table!Next
  <1>1. UNCHANGED <<connections, stage, idOf, pctx, ctx>>
    BY DEF CloseOk, ctxVars, tableVars
  <1>2. ctx # "alive" /\ upc'[u] = "ok"
    BY DEF CloseOk, IInv, TypeOK, ContextInv
  <1>3. DOMAIN connections = {}
    BY <1>1, <1>2 DEF IInv, CloseOkMeansEmpty
  <1>4. Table!Close
    BY <1>1, <1>2, <1>3 DEF Table!Close
  <1>5. QED BY <1>4 DEF Table!Next

(* Every step of the spawner is one of the abstract table, or none.        *)
LEMMA TableStep ==
  ASSUME IInv, IInv', [Next]_vars
  PROVE  [Table!Next]_(Table!vars)
  <1> USE DEF IInv, TypeOK, AddInv, IdInv, UniqueIds, listenerVars, tableVars, prunerVars,
              ctxVars, AddPcs
  <1>1. CASE UNCHANGED <<connections, stage, idOf, pctx, ctx, upc>>
    BY <1>1, DieStep
  <1>2. CASE ParentCancelled
    BY <1>2, FallStep DEF ParentCancelled, Causes
  <1>3. ASSUME NEW l \in Listeners, ListenerStep(l)
        PROVE  Table!Next
    <2>1. CASE ListenerKill(l)
      <3>1. UNCHANGED tableVars /\ upc' = upc
        BY <2>1 DEF ListenerKill
      <3>2. PICK cause \in Causes : CancelSpawner(cause)
        BY <2>1, KillFacts DEF ListenerKill
      <3>3. QED BY <3>1, <3>2, FallStep
    <2>2. CASE ~ListenerKill(l)
      <3>1. UNCHANGED <<connections, stage, idOf, pctx, ctx, upc>>
        BY <1>3, <2>2 DEF ListenerStep, ListenerCheck, ListenerEnter, ListenerRun, ListenerCancel,
                    ListenerReturn, ListenerRetry, ListenerClosedOk, ListenerFatal, ListenerDone
      <3>2. QED BY <3>1, DieStep
    <2>3. QED BY <2>1, <2>2
  <1>4. ASSUME NEW l \in Listeners, AddStep(l)
        PROVE  [Table!Next]_(Table!vars)
    <2>1. CASE AddInsert(l)
      <3>0. PICK p \in Proxies, i \in Nat : p = lpx[l] /\ i = idOf[p]
        BY <2>1 DEF AddInsert, Goto
      <3>1. stage[p] = "made" /\ stage' = [stage EXCEPT ![p] = "added"]
        BY <2>1, <3>0 DEF AddInsert, Goto
      <3>2. {q \in Proxies : stage'[q] = "added"} = {q \in Proxies : stage[q] = "added"} \cup {p}
        BY <3>1
      <3>3. p \notin {q \in Proxies : stage[q] = "added"}
        BY <3>1
      <3>4. idOf' = idOf /\ pctx' = pctx
        BY <2>1 DEF AddInsert
      <3>5. i \notin {idOf[q] : q \in {r \in Proxies : stage[r] = "added"}}
        BY <3>0, <3>1
      <3>6. {idOf'[q] : q \in {r \in Proxies : stage'[r] = "added"}}
              = {idOf[q] : q \in {r \in Proxies : stage[r] = "added"}} \cup {i}
        BY <3>0, <3>2, <3>4
      <3>7. connections' = [j \in DOMAIN connections \cup {i} |-> IF j = i THEN p ELSE connections[j]]
        BY <2>1, <3>0 DEF AddInsert
      <3>8. Table!Enter(p, i)
        <4>1. UNCHANGED {q \in Proxies : pctx[q] = "dead"}
          BY <3>4
        <4>2. UNCHANGED <<ctx # "alive", \E u \in Callers : upc[u] = "ok">>
          BY <2>1 DEF AddInsert
        <4>3. lpc[l] = "made"
          BY <2>1 DEF AddInsert, Goto
        <4>4. ~ \E u \in Callers : upc[u] = "ok"
          BY <4>3 DEF CloseOkMeansEmpty
        <4>5. ctx # "alive" => p \in {q \in Proxies : pctx[q] = "dead"}
          BY <3>1 DEF ContextInv, NoLiveProxyAfterDeath
        <4>6. QED
          BY ONLY <3>2, <3>3, <3>5, <3>6, <3>7, <4>1, <4>2, <4>4, <4>5 DEF Table!Enter
      <3>9. i \in DOMAIN connections'
        BY <3>7
      <3>10. QED BY <3>8, <3>9 DEF Table!Next
    <2>2. CASE ~AddInsert(l)
      <3>1. /\ connections' = connections
            /\ \A q \in Proxies : (stage'[q] = "added" <=> stage[q] = "added")
            /\ \A q \in Proxies : stage[q] = "added" => idOf'[q] = idOf[q]
        BY <1>4, <2>2 DEF AddStep, AddCheck, AddMake, AddInitFailed, AddMade, AddWg, Goto
      <3>2. \A q \in Proxies : pctx[q] = "dead" => pctx'[q] = "dead"
        BY <1>4, <2>2 DEF ContextInv, AddStep, AddCheck, AddMake, AddInitFailed, AddMade, AddWg, Goto
      <3>3. {q \in Proxies : stage'[q] = "added"} = {q \in Proxies : stage[q] = "added"}
        BY <3>1
      <3>4. {idOf'[q] : q \in {r \in Proxies : stage'[r] = "added"}}
              = {idOf[q] : q \in {r \in Proxies : stage[r] = "added"}}
        BY <3>1, <3>3
      <3>5. UNCHANGED <<ctx, upc>>
        BY <1>4, <2>2 DEF AddStep, AddCheck, AddMake, AddInitFailed, AddMade, AddWg, Goto
      <3>6. QED BY <3>1, <3>2, <3>3, <3>4, <3>5, DieStep
    <2>3. QED BY <2>1, <2>2
  <1>5. ASSUME NEW p \in Proxies, CancelProxy(p)
        PROVE  Table!Next
    BY <1>5, DieStep DEF CancelProxy
  <1>6. ASSUME NEW i \in deleteKeys, PrunerDelete(i)
        PROVE  Table!Next
    <2>1. i \in DOMAIN connections /\ pctx[connections[i]] = "dead"
      BY DEF PrunerInv
    <2>2. connections[i] \in {p \in Proxies : pctx[p] = "dead"}
      BY <2>1
    <2>3. Table!Remove(i)
      BY <1>6, <2>1, <2>2 DEF PrunerDelete, Table!Remove
    <2>4. QED BY <2>1, <2>3 DEF Table!Next
  <1>7. ASSUME NEW u \in Callers, CloseCall(u) \/ CloseOk(u) \/ CloseTimeout(u)
        PROVE  Table!Next
    <2>1. CASE CloseCall(u)
      <3>1. UNCHANGED (\E v \in Callers : upc[v] = "ok")
        BY <2>1 DEF CloseCall
      <3>2. QED BY <2>1, <3>1, FallStep DEF CloseCall, Causes
    <2>2. CASE CloseOk(u)
      BY <2>2, CloseStep
    <2>3. CASE CloseTimeout(u)
      <3>1. UNCHANGED <<connections, stage, idOf, pctx, ctx>>
        BY <2>3 DEF CloseTimeout
      <3>2. UNCHANGED (\E v \in Callers : upc[v] = "ok")
        BY <2>3 DEF CloseTimeout
      <3>3. QED BY <3>1, <3>2, DieStep
    <2>4. QED BY <1>7, <2>1, <2>2, <2>3
  <1>8. QED
    BY <1>1, <1>2, <1>3, <1>4, <1>5, <1>6, <1>7 DEF Next, vars, NewCheck, SendAllStep, SendAllLock, SendAllUnlock,
       PrunerStep,
       PrunerStart, PrunerTick, PrunerLock, PrunerUnlock, PrunerExit, PrunerLook

(* The spawner implements the abstract connection table.                   *)
THEOREM Refinement == Spec => TableSpec
  <1>1. Init => Table!Init
    BY DEF Init, Table!Init
  <1>2. IInv /\ IInv' /\ [Next]_vars => [Table!Next]_(Table!vars)
    BY TableStep
  <1>3. QED BY <1>1, <1>2, Inductive, PTL DEF Spec, TableSpec, Table!Spec
==============================================================================
