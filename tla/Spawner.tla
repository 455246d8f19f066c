------------------------------- MODULE Spawner -------------------------------
(***************************************************************************)
(* The life cycle of a ProxySpawner (handler/spawner.go): its constructor, *)
(* the listener goroutines with their retries, AddConnection, the pruner,  *)
(* CloseProxy and Close, the WaitGroup and the contexts they share.        *)
(*                                                                         *)
(* A context is its cause: "alive" until the first cancellation, which     *)
(* later ones leave alone and which kills the contexts derived from it at  *)
(* the same instant.  What a listener does between its calls into the      *)
(* spawner (Accept, Dial, ReadFromUDP) is abstracted to those calls, the   *)
(* cancellations and the return it ends in.  The receive channels and the  *)
(* filter callback are the modules RecvChans and FilterSlot.               *)
(***************************************************************************)
EXTENDS Integers, FiniteSets

CONSTANTS
  Listeners,   \* the listeners given to NewProxySpawner
  Proxies,     \* the IProxy values the listeners will ever create
  Callers,     \* goroutines that call Close
  MaxRetries,  \* how often a listener may ask to be run again (3)
  NoProxy      \* no proxy

ASSUME ListenersAssumption == IsFiniteSet(Listeners)
ASSUME MaxRetriesAssumption == MaxRetries \in Nat
ASSUME NoProxyAssumption == NoProxy \notin Proxies

VARIABLES
  ctx, currentId, wg,   \* p.context, p.currentId, the counter of p.wg
  connections,          \* p.connections: id -> proxy
  lpc,                  \* where each addListener goroutine is,
  lctx,                 \* the context of its current run of the listener,
  retryCount,           \* its local retryCount,
  lpx,                  \* and the proxy it is adding
  stage,                \* how far each proxy's AddConnection is,
  idOf, pctx,           \* the id and the context of its container
  ppc,                  \* where the constructor and then its pruner are,
  scan, deleteKeys,     \* the ids of a tick still to look at, and to delete
  busy,                 \* whether a SendToAll* holds connectionLock
  upc                   \* where each call of Close is

ctxVars      == <<ctx, lctx, pctx>>
listenerVars == <<lpc, retryCount, lpx>>
tableVars    == <<currentId, connections, stage, idOf>>
prunerVars   == <<ppc, scan, deleteKeys, busy>>
vars == <<ctxVars, listenerVars, tableVars, prunerVars, upc, wg>>

(* Errors but the named ones are "failed"; nothing the spawner does depends *)
(* on why a container's context was cancelled.                             *)
Causes == {"spawnerClosedOk", "proxyClosedOk", "retry", "failed"}

(* The pcs inside AddConnection after its check of the context, and those  *)
(* between wg.Add(1) and the deferred wg.Done().                           *)
AddPcs  == {"checked", "making", "made", "inserted"}
Counted == {"looping", "running", "returned", "dying", "leaving"} \cup AddPcs

(* One invariant of types for the whole module.                            *)
TypeOK ==
  /\ ctx \in Causes \cup {"alive"}
  /\ currentId \in Nat /\ wg \in Int
  /\ DOMAIN connections \subseteq Nat
  /\ connections \in [DOMAIN connections -> Proxies]
  /\ lpc \in [Listeners -> {"spawned", "refused", "entering", "done"} \cup Counted]
  /\ lctx \in [Listeners -> Causes \cup {"alive", "none"}]
  /\ retryCount \in [Listeners -> 0..MaxRetries]
  /\ lpx \in [Listeners -> Proxies \cup {NoProxy}]
  /\ stage \in [Proxies -> {"none", "new", "making", "failed", "made", "added"}]
  /\ idOf \in [Proxies -> Nat]
  /\ pctx \in [Proxies -> {"none", "alive", "dead"}]
  /\ ppc \in {"new", "refused", "spawned", "select", "waiting", "scan", "exited"}
  /\ scan \subseteq Nat /\ deleteKeys \subseteq Nat /\ busy \in BOOLEAN
  /\ upc \in [Callers -> {"idle", "closing", "ok", "timedOut"}]

Init ==
  /\ ctx = "alive" /\ currentId = 0 /\ wg = 0
  /\ connections = [i \in {} |-> NoProxy]
  /\ lpc = [l \in Listeners |-> "spawned"]
  /\ lctx = [l \in Listeners |-> "none"]
  /\ retryCount = [l \in Listeners |-> 0]
  /\ lpx = [l \in Listeners |-> NoProxy]
  /\ stage = [p \in Proxies |-> "none"]
  /\ idOf = [p \in Proxies |-> 0]
  /\ pctx = [p \in Proxies |-> "none"]
  /\ ppc = "new" /\ scan = {} /\ deleteKeys = {} /\ busy = FALSE
  /\ upc = [u \in Callers |-> "idle"]

-----------------------------------------------------------------------------
(* Contexts.                                                               *)

CancelAll(f, cause) == [x \in DOMAIN f |-> IF f[x] = "alive" THEN cause ELSE f[x]]

(* p.contextCancel(cause): the listeners' and the containers' contexts are *)
(* children of p.context.                                                  *)
CancelSpawner(cause) ==
  IF ctx = "alive"
  THEN ctx' = cause /\ lctx' = CancelAll(lctx, cause) /\ pctx' = CancelAll(pctx, "dead")
  ELSE UNCHANGED ctxVars

(* context.WithCancelCause(p.context): a child of a dead context is born   *)
(* dead, with its parent's cause.  (Mutant: a child of Background.)        *)
MutDetached == "alive"
ChildContext == ctx

ParentCancelled ==
  /\ ctx = "alive" /\ CancelSpawner("failed")
  /\ UNCHANGED <<listenerVars, tableVars, prunerVars, upc, wg>>

(* The constructor's check, after it has spawned the listeners.            *)
NewCheck ==
  /\ ppc = "new"
  /\ ppc' = IF ctx = "alive" THEN "spawned" ELSE "refused"
  /\ UNCHANGED <<ctxVars, listenerVars, tableVars, scan, deleteKeys, busy, upc, wg>>

-----------------------------------------------------------------------------
(* addListener.                                                            *)

Goto(l, from, to) == lpc[l] = from /\ lpc' = [lpc EXCEPT ![l] = to]

ListenerCheck(l) ==
  /\ Goto(l, "spawned", IF ctx = "alive" THEN "entering" ELSE "refused")
  /\ UNCHANGED <<ctxVars, retryCount, lpx, tableVars, prunerVars, upc, wg>>

ListenerEnter(l) ==
  /\ Goto(l, "entering", "looping")
  /\ wg' = wg + 1
  /\ UNCHANGED <<ctxVars, retryCount, lpx, tableVars, prunerVars, upc>>

ListenerRun(l) ==
  /\ Goto(l, "looping", "running")
  /\ lctx' = [lctx EXCEPT ![l] = ChildContext]
  /\ UNCHANGED <<ctx, pctx, retryCount, lpx, tableVars, prunerVars, upc, wg>>

(* The listener gives up, asks to be run again, or ends politely.          *)
ListenerCancel(l, cause) ==
  /\ lpc[l] = "running" /\ lctx[l] = "alive"
  /\ lctx' = [lctx EXCEPT ![l] = cause]
  /\ UNCHANGED <<ctx, pctx, listenerVars, tableVars, prunerVars, upc, wg>>

ListenerReturn(l) ==
  /\ Goto(l, "running", "returned")
  /\ UNCHANGED <<ctxVars, retryCount, lpx, tableVars, prunerVars, upc, wg>>

(* Mutant: one retry too many.                                             *)
MutOneMore(l) == lctx[l] = "retry" /\ retryCount[l] <= MaxRetries
MayRetry(l) == lctx[l] = "retry" /\ retryCount[l] < MaxRetries

ListenerRetry(l) ==
  /\ MayRetry(l)
  /\ Goto(l, "returned", "looping")
  /\ retryCount' = [retryCount EXCEPT ![l] = @ + 1]
  /\ UNCHANGED <<ctxVars, lpx, tableVars, prunerVars, upc, wg>>

ListenerClosedOk(l) ==
  /\ lctx[l] = "proxyClosedOk"
  /\ Goto(l, "returned", "leaving")
  /\ UNCHANGED <<ctxVars, retryCount, lpx, tableVars, prunerVars, upc, wg>>

(* Not cancelled, retries used up, or any other error: it is reported and  *)
(* cancels the spawner.                                                    *)
AfterFatal(l) == "dying"

ListenerFatal(l) ==
  /\ ~MayRetry(l) /\ lctx[l] # "proxyClosedOk"
  /\ Goto(l, "returned", AfterFatal(l))
  /\ UNCHANGED <<ctxVars, retryCount, lpx, tableVars, prunerVars, upc, wg>>

ListenerKill(l) ==
  /\ Goto(l, "dying", "leaving")
  /\ CancelSpawner(IF lctx[l] = "alive" THEN "failed" ELSE lctx[l])
  /\ UNCHANGED <<retryCount, lpx, tableVars, prunerVars, upc, wg>>

ListenerDone(l) ==
  /\ Goto(l, "leaving", "done")
  /\ wg' = wg - 1
  /\ UNCHANGED <<ctxVars, retryCount, lpx, tableVars, prunerVars, upc>>

-----------------------------------------------------------------------------
(* AddConnection, called by a listener from its own goroutine.             *)

(* currentIdLock is held while a container is being made; connectionLock   *)
(* while the pruner goes through the connections, and while a SendToAll*   *)
(* writes to them.  (Mutant: the id is taken unlocked.)                    *)
MutNoLock == TRUE
IdLockFree   == \A l \in Listeners : lpc[l] # "making"
ConnLockFree == ppc # "scan" /\ ~busy

AddCheck(l, p) ==
  /\ lctx[l] = "alive" /\ ctx = "alive" /\ stage[p] = "none"
  /\ Goto(l, "running", "checked")
  /\ lpx' = [lpx EXCEPT ![l] = p]
  /\ stage' = [stage EXCEPT ![p] = "new"]
  /\ UNCHANGED <<ctxVars, retryCount, currentId, connections, idOf, prunerVars, upc, wg>>

(* Under currentIdLock containerMaker starts: the container gets its id,   *)
(* its context and its handlePacket goroutine.                             *)
AddMake(l) ==
  /\ IdLockFree
  /\ Goto(l, "checked", "making")
  /\ stage' = [stage EXCEPT ![lpx[l]] = "making"]
  /\ idOf' = [idOf EXCEPT ![lpx[l]] = currentId]
  /\ pctx' = [pctx EXCEPT ![lpx[l]] = IF ChildContext = "alive" THEN "alive" ELSE "dead"]
  /\ UNCHANGED <<ctx, lctx, retryCount, lpx, currentId, connections, prunerVars, upc, wg>>

AddInitFailed(l) ==
  /\ Goto(l, "making", "running")
  /\ lpx' = [lpx EXCEPT ![l] = NoProxy]
  /\ stage' = [stage EXCEPT ![lpx[l]] = "failed"]
  /\ pctx' = [pctx EXCEPT ![lpx[l]] = "dead"]
  /\ UNCHANGED <<ctx, lctx, retryCount, currentId, connections, idOf, prunerVars, upc, wg>>

AddMade(l) ==
  /\ Goto(l, "making", "made")
  /\ stage' = [stage EXCEPT ![lpx[l]] = "made"]
  /\ currentId' = currentId + 1
  /\ UNCHANGED <<ctxVars, retryCount, lpx, connections, idOf, prunerVars, upc, wg>>

AddInsert(l) ==
  LET p == lpx[l] IN
  /\ ConnLockFree
  /\ Goto(l, "made", "inserted")
  /\ stage' = [stage EXCEPT ![p] = "added"]
  /\ connections' = [i \in DOMAIN connections \cup {idOf[p]} |->
                       IF i = idOf[p] THEN p ELSE connections[i]]
  /\ UNCHANGED <<ctxVars, retryCount, lpx, currentId, idOf, prunerVars, upc, wg>>

(* wg.Add(1), after the connection was entered.  (Mutant: forgotten.)      *)
MutUncounted == UNCHANGED wg
CountConnection == wg' = wg + 1

AddWg(l) ==
  /\ Goto(l, "inserted", "running")
  /\ lpx' = [lpx EXCEPT ![l] = NoProxy]
  /\ CountConnection
  /\ UNCHANGED <<ctxVars, retryCount, tableVars, prunerVars, upc>>

(* The proxy's own goroutine cancels its context, at the end of the stream *)
(* or on an error; or CloseProxy, which found the proxy in the table.      *)
CancelProxy(p) ==
  /\ pctx[p] = "alive"
  /\ pctx' = [pctx EXCEPT ![p] = "dead"]
  /\ UNCHANGED <<ctx, lctx, listenerVars, tableVars, prunerVars, upc, wg>>

-----------------------------------------------------------------------------
(* pruner.                                                                 *)

PrunerStart ==
  /\ ppc = "spawned" /\ ppc' = "select"
  /\ wg' = wg + 1
  /\ UNCHANGED <<ctxVars, listenerVars, tableVars, scan, deleteKeys, busy, upc>>

(* A tick: the loops over the connections run under connectionLock.        *)
PrunerTick ==
  /\ ppc = "select" /\ ppc' = "waiting"
  /\ UNCHANGED <<ctxVars, listenerVars, tableVars, scan, deleteKeys, busy, upc, wg>>

PrunerLock ==
  /\ ppc = "waiting" /\ ConnLockFree
  /\ ppc' = "scan" /\ scan' = DOMAIN connections
  /\ UNCHANGED <<ctxVars, listenerVars, tableVars, deleteKeys, busy, upc, wg>>

(* Mutants: everything is removed; only the latest connection can be.      *)
MutPruneAnything(i) == TRUE
MutPruneLatest(i) == i = currentId - 1 /\ pctx[connections[i]] # "alive"
FoundDead(i) == pctx[connections[i]] # "alive"

PrunerLook(i) ==
  /\ ppc = "scan" /\ i \in scan
  /\ scan' = scan \ {i}
  /\ deleteKeys' = IF FoundDead(i) THEN deleteKeys \cup {i} ELSE deleteKeys
  /\ UNCHANGED <<ctxVars, listenerVars, tableVars, ppc, busy, upc, wg>>

PrunerDelete(i) ==
  /\ ppc = "scan" /\ scan = {} /\ i \in deleteKeys
  /\ deleteKeys' = deleteKeys \ {i}
  /\ connections' = [j \in DOMAIN connections \ {i} |-> connections[j]]
  /\ wg' = wg - 1
  /\ UNCHANGED <<ctxVars, listenerVars, currentId, stage, idOf, ppc, scan, busy, upc>>

PrunerUnlock ==
  /\ ppc = "scan" /\ scan = {} /\ deleteKeys = {}
  /\ ppc' = "select"
  /\ UNCHANGED <<ctxVars, listenerVars, tableVars, scan, deleteKeys, busy, upc, wg>>

PrunerExit ==
  /\ ppc = "select" /\ ctx # "alive"
  /\ ppc' = "exited"
  /\ UNCHANGED <<ctxVars, listenerVars, tableVars, scan, deleteKeys, busy, upc, wg>>

-----------------------------------------------------------------------------
(* SendToAllClients and SendToAllServers, of which one at a time has       *)
(* connectionLock, for as long as the filter and the writes take: what     *)
(* they do meanwhile is the module Commands.                               *)

SendAllLock ==
  /\ ppc \notin {"new", "refused"} /\ ConnLockFree
  /\ busy' = TRUE
  /\ UNCHANGED <<ctxVars, listenerVars, tableVars, ppc, scan, deleteKeys, upc, wg>>

SendAllUnlock ==
  /\ busy
  /\ busy' = FALSE
  /\ UNCHANGED <<ctxVars, listenerVars, tableVars, ppc, scan, deleteKeys, upc, wg>>

-----------------------------------------------------------------------------
(* Close, once the constructor has returned the spawner: it cancels, then  *)
(* waits for the WaitGroup and for one second at the same time.            *)

CloseCall(u) ==
  /\ ppc \notin {"new", "refused"} /\ upc[u] = "idle"
  /\ CancelSpawner("spawnerClosedOk")
  /\ upc' = [upc EXCEPT ![u] = "closing"]
  /\ UNCHANGED <<listenerVars, tableVars, prunerVars, wg>>

CloseOk(u) ==
  /\ upc[u] = "closing" /\ wg = 0
  /\ upc' = [upc EXCEPT ![u] = "ok"]
  /\ UNCHANGED <<ctxVars, listenerVars, tableVars, prunerVars, wg>>

CloseTimeout(u) ==
  /\ upc[u] = "closing"
  /\ upc' = [upc EXCEPT ![u] = "timedOut"]
  /\ UNCHANGED <<ctxVars, listenerVars, tableVars, prunerVars, wg>>

-----------------------------------------------------------------------------
AddStep(l) ==
  \/ \E p \in Proxies : AddCheck(l, p)
  \/ AddMake(l) \/ AddInitFailed(l) \/ AddMade(l) \/ AddInsert(l) \/ AddWg(l)

ListenerStep(l) ==
  \/ ListenerCheck(l) \/ ListenerEnter(l) \/ ListenerRun(l)
  \/ \E cause \in {"retry", "proxyClosedOk", "failed"} : ListenerCancel(l, cause)
  \/ ListenerReturn(l) \/ ListenerRetry(l) \/ ListenerClosedOk(l)
  \/ ListenerFatal(l) \/ ListenerKill(l) \/ ListenerDone(l)

PrunerStep ==
  \/ PrunerStart \/ PrunerTick \/ PrunerLock \/ PrunerUnlock \/ PrunerExit
  \/ \E i \in scan : PrunerLook(i)
  \/ \E i \in deleteKeys : PrunerDelete(i)

SendAllStep == SendAllLock \/ SendAllUnlock

Next ==
  \/ NewCheck \/ ParentCancelled
  \/ \E l \in Listeners : ListenerStep(l) \/ AddStep(l)
  \/ \E p \in Proxies : CancelProxy(p)
  \/ PrunerStep \/ SendAllStep
  \/ \E u \in Callers : CloseCall(u) \/ CloseOk(u) \/ CloseTimeout(u)

Spec == Init /\ [][Next]_vars

(* Every goroutine keeps running; the mutexes are starvation-free, and so  *)
(* is the select of the pruner.  A listener returns once its context is    *)
(* dead (the loop conditions of TcpListener and UdpListener), unless it is *)
(* kept waiting for connectionLock (UdpListener calls GetProxy).  Nobody   *)
(* has to call Close, no connection has to come or to die, and a call of   *)
(* SendToAll* may keep connectionLock for ever: its writes have no         *)
(* deadline.                                                               *)
Fairness ==
  /\ WF_vars(NewCheck) /\ WF_vars(PrunerStart)
  /\ \A l \in Listeners :
       /\ WF_vars(ListenerCheck(l) \/ ListenerEnter(l) \/ ListenerRun(l))
       /\ SF_vars(lctx[l] # "alive" /\ ConnLockFree /\ ListenerReturn(l))
       /\ WF_vars(ListenerRetry(l) \/ ListenerClosedOk(l) \/ ListenerFatal(l))
       /\ WF_vars(ListenerKill(l) \/ ListenerDone(l))
       /\ SF_vars(AddMake(l)) /\ SF_vars(AddInsert(l))
       /\ WF_vars(AddInitFailed(l) \/ AddMade(l) \/ AddWg(l))
  /\ WF_vars(PrunerTick) /\ SF_vars(PrunerLock) /\ WF_vars(PrunerUnlock) /\ SF_vars(PrunerExit)
  /\ WF_vars(\E i \in scan : PrunerLook(i)) /\ WF_vars(\E i \in deleteKeys : PrunerDelete(i))

FairSpec == Spec /\ Fairness

-----------------------------------------------------------------------------
(* Properties.                                                             *)

(* The WaitGroup counter is never negative, which would panic, although    *)
(* AddConnection counts a connection only after it is in the table, where  *)
(* the pruner may already have removed it and called wg.Done.              *)
WgNeverNegative == wg >= 0

(* Two proxies that were initialised never share an id, not even after one *)
(* was pruned (AddConnection under currentIdLock).                         *)
UniqueIds ==
  \A p, q \in Proxies :
    /\ stage[p] \in {"made", "added"} /\ stage[q] \in {"made", "added"}
    /\ idOf[p] = idOf[q]
    => p = q

(* The death of the spawner leaves no live container, not even one whose   *)
(* AddConnection had already passed its check of the context.              *)
NoLiveProxyAfterDeath == ctx # "alive" => \A p \in Proxies : pctx[p] # "alive"

(* A listener goroutine that is gone without having asked for it took the  *)
(* spawner with it (addListener).                                          *)
ListenerFate ==
  \A l \in Listeners : lpc[l] = "done" => ctx # "alive" \/ lctx[l] = "proxyClosedOk"

(* When Close has returned nil, no connection is in the table or on its    *)
(* way into it, then and ever after.                                       *)
CloseOkMeansEmpty ==
  (\E u \in Callers : upc[u] = "ok") =>
    DOMAIN connections = {} /\ \A l \in Listeners : lpc[l] \notin AddPcs

(* The spawner keeps the promises ConnTable makes of its connections.      *)
Table == INSTANCE ConnTable WITH
  table   <- connections,
  issued  <- {idOf[p] : p \in {q \in Proxies : stage[q] = "added"}},
  entered <- {p \in Proxies : stage[p] = "added"},
  dead    <- {p \in Proxies : pctx[p] = "dead"},
  down    <- ctx # "alive",
  closed  <- \E u \in Callers : upc[u] = "ok"
TableSpec == Table!Spec

(* Whatever its listeners were doing when the spawner died, retries and    *)
(* the connection they are adding included, it comes to an end without any *)
(* help: every further step of an addListener goroutine is one less of     *)
(* those it still has, and it is at most twelve for each run that is left. *)
StepsLeft(l) ==
  LET left == [spawned |-> 9, refused |-> 0, entering |-> 8, looping |-> 7,
               checked |-> 12, making |-> 11, made |-> 10, inserted |-> 9, running |-> 6,
               returned |-> 5, dying |-> 4, leaving |-> 3, done |-> 0]
  IN  12 * (MaxRetries - retryCount[l]) + left[lpc[l]]

RunsOut ==
  [][ctx # "alive" =>
       /\ ctx' = ctx
       /\ \A l \in Listeners : lpc'[l] # lpc[l] =>
            0 <= StepsLeft(l)' /\ StepsLeft(l)' < StepsLeft(l)]_vars

(* The pruner removes a dead connection while the spawner lives, unless a  *)
(* SendToAll* keeps connectionLock for ever.                               *)
DeadPruned ==
  \A p \in Proxies :
    <>[](ctx = "alive" /\ pctx[p] = "dead" /\ \E i \in DOMAIN connections : connections[i] = p)
      => <>[]busy

(* Once the spawner is dead, every listener goroutine ends, its retries    *)
(* and the connection it is adding included, and so does the pruner; only  *)
(* a SendToAll* that keeps connectionLock for ever can hold them up.       *)
Stopped ==
  /\ \A l \in Listeners : lpc[l] \in {"done", "refused"}
  /\ ppc \in {"refused", "exited"}

EverythingStops == <>[](ctx # "alive" /\ ~Stopped) => <>[]busy

(* Expected by tcp_integration.go:150, and not so: when every goroutine of *)
(* a dead spawner has ended and its table is empty, nothing is counted any *)
(* more and Close returns nil.                                             *)
CloseCanSucceed ==
  Stopped /\ ppc = "exited" /\ DOMAIN connections = {} => wg = 0
==============================================================================
