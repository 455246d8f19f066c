# A verification project for ezproxy

ezproxy is a man-in-the-middle proxy for TCP and UDP. It relays the packets of
its connections, lets clients of an HTTP and WebSocket API watch and inject
packets, and lets one of them, the *filter*, decide for every packet whether it
is sent. This directory holds TLA+ modules of its concurrent core, TLC
configurations that check them on small instances, and proofs, checked by
TLAPS, of the theorems that matter most. Paths are relative to the repository.

    tlc -config spawner_safety.cfg MCSpawner     (any run: its .cfg, its MC module)
    tlapm SpawnerProofs.tla                      (any module of proofs)

`PROJECT.json` lists the runs, the source lines behind every definition, the
hazards, the findings, and for each property a mutation of the model that
breaks it.

## 1. The system

| component | source | state | operations |
|---|---|---|---|
| Proxy spawner | `handler/spawner.go` | context, table of connections, next id, WaitGroup | constructor, `addListener`, `AddConnection`, `pruner`, `CloseProxy`, `Close` |
| Requests | `handler/spawner.go`, `handler/proxy.go`, `api/endpoints.go`, `api/ws_client.go`, `ezp_lua/` | the table and its lock, each request's loop | `GetProxy`, `GetAllProxies`, `SendToAll*`, `SendTo*`, `Cancel` as endpoints, WebSockets and scripts call them |
| Receive channels | `handler/spawner.go` | slice of channels, each with a context | `GetRecvChan`, second half of `HandleSend`, `pruner`, `Close` |
| Filter callback | `handler/spawner.go` | `sendCallback`, `callbackCtx`, `callbackCancel` | `TrySetFilterCallback`, first half of `HandleSend` |
| Proxy container | `handler/proxy.go` | context, `pktChan`, statistics | `newProxyContainer`, `handlePacket`, `SendToClient`, `SendToServer`, `Cancel` |
| TCP proxy, listener | `proxy/tcp.go` | two sockets, two `listen` goroutines | `Init`, `listen`, `TcpListener` |
| UDP proxy, listener | `proxy/udp.go` | one socket shared by listener and proxy, first packet | `Init`, `listen`, `UdpListener` |
| WebSockets | `api/websocket.go`, `api/ws_client.go` | context, `filterMap`, `filterChan`, next packet number | `newWebSocket`, `recv`, `handleRecvFilter`, `listen`, `handleClientAction`, `Close` |
| HTTP endpoints, keys | `api/endpoints.go`, `api/auth.go`, `api/api.go` | table of API keys and permissions | status, inject, `newkey`, `keyinfo`, the check of permissions before each |
| Lua bindings | `ezp_lua/` | one Lua state, one filter | callbacks, run loop |
| Entry, configuration, integration program, mocks, clients | `main_*.go`, `helpers.go`, `integration/`, `mocks/`, `tools/`, `examples/` | - | sequential set-up, drivers, generated code, external programs |

How they interact. `NewProxySpawner` starts one `addListener` goroutine for each
listener, and the pruner. A listener accepts clients and calls `AddConnection`,
which makes a container; the container's `Init` starts the proxy's `listen`
goroutines, and they hand packets over the unbuffered `pktChan` to the
container's `handlePacket`. That asks the spawner's `HandleSend`, which calls the
filter callback, then offers the packet to every receive channel, and
returns the verdict; `handlePacket` writes the packet to the other side. The filter
callback of the API is a WebSocket's `handleRecvFilter`, run on the goroutine of
the packet; it waits for an answer that the WebSocket's `listen` goroutine reads.
Contexts form a tree: spawner, then listeners, containers; API, WebSocket, filter
callback and receive channel.

What is hard here.

- *Interleaving without locks.* The filter's three fields, the slice of channels
  in `pruner` and `Close`, and `filterMap` are shared by many goroutines and
  guarded by no lock, or by one on one side only.
- *Order.* A connection is counted in the WaitGroup after it is in the table; the
  context is checked at the start of `AddConnection` only; the filter callback is
  registered before its WebSocket has been accepted.
- *Stale state.* The pruner's indices, an id kept by the UDP listener, a context
  that was alive when it was checked.
- *Cancellation everywhere.* Any context may die at any moment, for one of several
  causes, and what happens next depends on the first cause.
- *Calls under a lock.* `SendToAll*` ask the filter, offer packets to watchers and write to
  sockets while they hold `connectionLock`, which watchers, scripts, listeners and the pruner want,
  too. Neither the filter nor a write has a limit of time.
- *Rendezvous.* `pktChan` and `filterChan` are unbuffered: whoever offers is held
  up until somebody takes, who may have gone.
- *Time.* Ticks, read deadlines, the filter's two seconds, the one second of `Close`.

What makes each component correct:

- spawner: ids are unique; the WaitGroup never goes negative; no container
  outlives the spawner; only dead connections leave the table, and they do leave;
  when the spawner dies all its goroutines end; `Close` tells the truth;
- requests: packets injected into all connections keep one order, reach every living one and
  none that was closed before, and requests end unless a filter or a write never does;
- receive channels: all subscribers see one order, nobody gets a packet twice, a
  living channel is not lost, a dead one goes, a slow one delays nobody;
- filter: at most one is in charge, it stays so until it leaves, a dead one
  decides nothing;
- relay: each direction is a lossy but ordered pipe without repetition, and it
  stops when its context is dead;
- UDP: a socket has one reader at a time and is not closed while it is used, the order of
  a client's datagrams survives a new connection, the listener accepts again and ends;
- WebSocket filter: every packet is decided in the end unless its client stays and does not
  read, an answer is final, and counts if it came in time;
- keys: no chain of made keys gains a permission, a WebSocket has no right its key lacks.

## 2. The modules

| module | models | composes or refines |
|---|---|---|
| `ConnTable` | abstract: what the table of connections promises, the spawner's death and `Close` included | - |
| `Spawner` | `handler/spawner.go`: constructor, listeners, `AddConnection`, pruner, `CloseProxy`, `Close` | implements `ConnTable` |
| `SpawnerProofs` | inductive invariant and theorems of `Spawner` | extends `Spawner` |
| `Broadcast` | abstract: what the spawner promises of packets that go to many | - |
| `Commands` | requests: inject, close and status, from endpoints, WebSockets and scripts, over `connectionLock` | implements two `Broadcast`s |
| `CommandsProofs` | inductive invariant and theorems of `Commands` | extends `Commands` |
| `RecvChans` | receive channels, with a WebSocket's `recv` or a script's `run` as their readers | implements `Broadcast` |
| `RecvChansProofs` | theorems of `RecvChans` | extends `RecvChans` |
| `FilterSlot` | the filter callback's three fields | - |
| `FilterSlotProofs` | theorems of `FilterSlot` | extends `FilterSlot` |
| `Verdict` | abstract: what a filtering WebSocket promises | - |
| `WsFilter` | a WebSocket that filters | implements `Verdict` |
| `WsFilterProofs` | theorems of `WsFilter` | extends `WsFilter` |
| `Pipe` | abstract: one direction of a connection | - |
| `Relay` | a TCP connection: two `listen`, `handlePacket`, injectors | implements two `Pipe`s |
| `RelayProofs` | inductive invariant and theorems of `Relay` | extends `Relay` |
| `Session` | abstract: what the UDP proxy promises to those who send it datagrams | - |
| `Udp` | `proxy/udp.go`: the listener, its connections one after the other, and their sockets | implements `Session` |
| `UdpProofs` | theorems of `Udp` | extends `Udp` |
| `KeyTable` | abstract: what the API promises of its keys | - |
| `ApiKeys` | `newkey`, the opening of WebSockets, the table of keys | implements `KeyTable` |
| `ApiKeysProofs` | inductive invariant and theorems of `ApiKeys` | extends `ApiKeys` |
| `MC*` | instances for TLC (symmetry) | extend the above |

### Spawner

One listener goroutine per member of `Listeners`; `Proxies` are the `IProxy` values
they will ever add, `Callers` those who call `Close`.

| code | model |
|---|---|
| `context`, `contextCancel` | `ctx`: "alive" or the first cause; `CancelSpawner` also kills `lctx` and `pctx`, the children, at once |
| `connections`, `currentId`, `wg` | variables of these names |
| `addListener`: early check, `wg.Add`, loop head | `ListenerCheck`, `ListenerEnter`, `ListenerRun` |
| the listener itself | `ListenerCancel` (any cause), `ListenerReturn`, `AddCheck` |
| `addListener`: what follows the listener's return | `ListenerRetry`, `ListenerClosedOk`, `ListenerFatal`, `ListenerKill`, `ListenerDone` |
| `AddConnection` | `AddCheck`, `AddMake` (takes `currentIdLock`, makes the container), `AddInitFailed` or `AddMade` (releases it), `AddInsert`, `AddWg` |
| `pruner` | `PrunerStart`, `PrunerTick`, `PrunerLock` (takes `connectionLock`), `PrunerLook`, `PrunerDelete`, `PrunerUnlock`, `PrunerExit` |
| `CloseProxy`, and a proxy's own end | `CancelProxy` |
| a `SendToAll*`, for as long as it has `connectionLock` | `SendAllLock`, `SendAllUnlock`, `busy` |
| `Close` | `CloseCall`, then `CloseOk` (the WaitGroup was zero) or `CloseTimeout` (the second was over) |

A lock held in one step only is not a variable: `IdLockFree` and `ConnLockFree`
say who may hold it across steps. Every read or write of shared state outside a
lock is a step of its own. Errors other than the named ones are "failed".
The channel half of `Close` and of the pruner is in `RecvChans`.
In the eyes of `ConnTable` the spawner is `down` when its context is dead, and `closed` when some
`Close` has returned nil.
Left out: the byte counter, the logger, the error callback (it changes nothing of the spawner's
state). `GetProxy` and `GetAllProxies`, and what `SendToAll*` do while they have the lock, are in
`Commands`.

### Commands

A request is one goroutine that has got something to do: of the HTTP server, the `listen` of a
WebSocket, a script. It stands for its packet.

| code | model |
|---|---|
| an `inject`, a `close` or a status, from wherever it comes | `Begin`, with one of the `Commands` |
| `SendToAllClients`, `SendToAllServers` | `LockAll`; `Take` for each connection, which skips the dead; `NextSide` unlocks |
| `GetProxy`, and what is done with its result | `Find`, then `Take` or `Cancel`, without the lock |
| `GetAllProxies` | `List`; a WebSocket or script that closes all goes on with `Cancel` for each |
| `SendToClient`, `SendToServer` of the container | `Enter` (the second look at the context, whose "dead" is an error), `Answer` and `Offer` (`HandleSend`), `Write`, `WriteFails` |
| a filter that is a script and calls `get_proxy` | `CallBack`, `Return` |
| `recv` of a WebSocket between a packet and its next `select` | `Watch` |
| the table's other users | `AddConnection`, `Prune` |

`connectionLock` is the variable `lock` only where it is held across steps. `HandleSend` is
two steps, the filter's answer and the offer to the watchers, or four if the filter calls back; its
inner life is in `FilterSlot` and `RecvChans`. A filter that never answers and a peer that does not
read are an `Answer` and a `Write` that never happen: section 5. The order
in which Go goes through a map is any order: `Take` chooses. `inject_to_both` of Lua sends to the
clients only, and so is an inject for one side.

Each side is a `Broadcast` of its own. A request for all has its turn at a side while it holds the
lock in that side's loop; what goes to one connection is `private`. The readers are the connections.

### RecvChans

A subscriber stands for its channel, a sender for its packet. `rcChan` is the slice.
`rcChanLock` is held by a sender from `Publish` to `Published` and by the pruner
from `PrunerLock` to `PrunerUnlock`; collecting the indices (`PrunerLook`) and
`Close` (`CloseStart`, `CloseCancel`, `CloseClose`, `CloseDone`) do not take it, as in the code.
`WritesThrough` is Go's slice aliasing: a `Close` ranges over the slice header it
copied, and may or may not see a write to the array behind it. `ReadZero` is a
receive from a closed channel, which `recv` does not tell from a packet of connection 0. A tick of
the pruner waits for `connectionLock` first (`PrunerTick`, `PrunerConns`). A script (`Scripts`) is the run loop of `luaCallback`
for `EzpOnPacket`: it leaves when its function says so or fails, and a zero packet makes it call a
method of a nil address, outside Lua's protected call (`ScriptReadsZero`).
A panic sets `crash` and stops the program. In the eyes of `Broadcast` it is a packet's turn while its sender
has `rcChanLock`, and the readers are the channels.

### FilterSlot

Each access to one of `sendCallback`, `callbackCtx`, `callbackCancel` is a step:
the two functions check the context, evaluate the arguments of the log line (which calls `Err` on
the context again), cancel, and clear the fields one after the other; a filter then fills them one
after the other. Assumed of the memory model: a racing read yields the old or the
new value of one field, and the writes of a goroutine are seen in program order
(amd64; Go promises neither, see section 7). `orphaned` and `raced` are history
variables: the packet began when all accepted filters were dead; a
`TrySetFilterCallback` and another goroutine changed the slot at once.

### WsFilter

A packet goes `new`, `numbered` (not if injected), `sending`, `waiting`, `woken`,
`decided`; one that timed out is `erring` before that, while the client is told (`ErrorSent`).
The `select` is `ContextDone`, `TimeOut`, or `Offer`, the rendezvous with
`listen`. `listen` goes `accepting`, `reading`, `answering`, `offering`, `stopped`, and is `refusing`
while the client is told that its answer is not the first (`Refused`). The
client sends any answer to any packet, at any time. A write to the client that never returns, since
`ws.Write` has no deadline, is a `Sent`, an `ErrorSent` or a `Refused` that never happens.
`ws` says whether `ws.ws` is there: not before
`websocket.Accept`, and never if the handshake or a parameter was bad. `MapFault` is the runtime's
fatal error for concurrent map access, `SendNil` a write on the nil `ws.ws`;
both are steps that stop the program. `Verdict` has neither map, channel nor timer: what is in
`filterMap` is what was asked and heard, and the packets that returned are decided.

### Relay

`lpc`, `nread`: the `listen` of each side; chunk *n* is the number *n*. `hpc`,
`hside`, `hnum`: `handlePacket` and its packet. `HandleTake` is the rendezvous on
`pktChan`, enabled also when the context is dead, because a Go `select` chooses any
ready case. `HandleVerdict` is whatever `HandleSend` says; `HandleWrite` and
`HandleWriteFailed` the write. Injected packets go the way of `SendToClient` and
`SendToServer`, on their own goroutines.

### Udp

The socket `pCon` is its number in the order of opening (`sock`, `open`) and the datagrams that
wait in it (`buffer`). A datagram is its sender and its number in the order of arrival, so
that an order can be stated.

| code | model |
|---|---|
| head of `UdpListener`'s loop, with the check by id, for which `GetProxy` takes `connectionLock` | `LoopEnd`, `LoopRead`, `LoopLook`, then `LoopClose` or `StillThere`, which ends with the sleep |
| closing and opening the socket | `LoopClose`, then `Reopen` or `ReopenFailed` |
| `ReadFromUDP` in the listener | `ListenerRead`, `ReadNothing` |
| `AddConnection`, `id = pc.GetId()` | `AddCheck` or `AddRefused`, `AddConnection`, `Added`: the connection runs before its id is known |
| `listen` of the `UdpProxy` | `ListenCheck`, `Receive`, `ReceiveTimeout`, `ReceiveError` |
| `pktChan`, `handlePacket` | `HandleTake`, `HandleExit`, `HandleVerdict`, `HandleWrite`, `HandleWriteFailed` |
| the container's death | `CloseProxy`, `Shutdown`, `ReceiveError` |

The lock itself is not in the module: the listener may wait in `looking`, and before `AddConnection`, for
as long as it likes. A dead container may be pruned at any time, and the listener treats both alike, so
there is no step for the pruner. `Usable` says that a connection's socket is the open one.
The client that `Session` serves is that of the latest connection. `Session` lets it be served a little
longer than it lives, as `handlePacket` may still write what it has in hand, but never a client
before it.

### ApiKeys

A request is one goroutine of the HTTP server: it comes with a key and a wish, passes the check
of its endpoint (`Request`), and is then `epGetKey` (`Make`, `Draw`, `Add`) or `newWebSocket`
(`Open`). A bitfield is a set of bits; "reserved" stands for the bits without a meaning, which
`AuthAll` has set. `creator` is a history variable: the key each made key was made with.
`MapFault` is the runtime's fatal error for concurrent map access. `KeyTable` has the keys, who made
them, and the open WebSockets; it does not know of requests.

## 3. What each run checks

All state counts are of distinct states. `IInv` is the inductive invariant of the proofs about the
module; `TypeOK` is a part of it. A run for liveness only does not repeat it. `CloseOkMeansEmpty`,
`LiveStaysSubscribed`, `CrashCauses`, `AcceptedStays` and `FreedByNextPacket` are conjuncts of it that
are checked under their own names as well, since they are what a reader wants to know; other
statements that are a part of `IInv`, or follow from a refinement that is checked, have no run of their own:
`UniqueIds`, `NoLiveProxyAfterDeath`, `ListenerFate`, `SameOrder`, `AllSameOrder`,
`LiveKeepsSocket`, `InOrder`, `SocketWithinKey`, `KeysAreFinal` and `AnswerIsFinal` have theorems (section 6).

| run | instance | shows |
|---|---|---|
| `spawner_safety` | 2 listeners, 2 proxies, 1 `Close`, 1 retry; 608 k | `IInv`, the invariant of the proofs; `CloseOkMeansEmpty`; `TableSpec`: the spawner implements `ConnTable`; `RunsOut`: after its death each listener goroutine has a number of steps left that every step makes smaller |
| `spawner_live` | 1 listener, 2 proxies, 1 `Close`, 3 retries; 98 k | `DeadPruned`: a dead connection is removed while the spawner lives; `EverythingStops`: after its death all goroutines end; both unless a `SendToAll*` keeps `connectionLock` for ever |
| `commands` | 2 connections, a WebSocket and another request with 6 wishes, 1 watcher; 291 k | `IInv`; `BothFeeds`: each side implements `Broadcast`, so that all connections see one order; `AllReached`: every living connection has the packet once, or an error to show; `NothingAfterClose`; `RequestsEnd`: a request ends, unless its own filter or write never does, or that of a `SendToAll*` that has `connectionLock` |
| `recv` | a WebSocket and a script, 2 packets, 1 `Close`; 654 k | `IInv`; `FeedSpec`: publishing implements `Broadcast`; `LiveStaysSubscribed`; `CrashCauses`: two channels that one tick found dead, or a `Close`, can stop the program, and nothing else; a `Close` that is alone closes no channel twice unless a subscriber had left; `ClosedNotChosen`: nobody begins to send on a closed channel; `PublishEnds` whoever does not read; `DeadChannelPruned` unless the pruner waits for `connectionLock` for ever |
| `filter_slot` | 2 filters, 3 senders, one of which injects; 403 k | `IInv`, `OrphansAreSent`, `FreedByNextPacket`, `AcceptedStays`, `CrashOnlyAfterDeath` |
| `ws_filter` | 3 packets, one of them injected; 29 k | `IInv`; `StuckOnlyIfIgnored`: `listen` has nobody to tell only if some answered packet went by the default; `VerdictSpec`: it implements `Verdict`; `EveryPacketDecided` unless the client stays and does not read what is written to it about the packet |
| `relay_tcp` | 3 chunks a side, 1 injector; 356 k | `IInv`, `FewAfterDeath`, `TwoPipes`: each direction implements `Pipe`; `RunsOut`: the steps left to a dead proxy's goroutines; `HandlerEnds` unless the filter or a write never returns |
| `udp` | 2 clients, the server, 3 datagrams, 2 connections; 382 k | `IInv`; `OneReader`; `SessionSpec`: it implements `Session`; `AcceptsAgain`, `ListenerEnds` unless the listener waits for `connectionLock` for ever |
| `api_keys` | 3 keys, the first with all bits; 3 requests; 4 named permissions; 483 k | `IInv`; `NoEscalation`; `TableSpec`: it implements `KeyTable` |

Three runs look for a counterexample to something the repository says of itself,
and find one. Each states one sentence of a comment, document or test.

| run | statement | what happens |
|---|---|---|
| `spawner_wait` | `CloseCanSucceed` (integration program) | the pruner calls `wg.Add(1)` and never `wg.Done`, so `Close` times out although everything has ended |
| `recv_pruner` | `PrunerRemovesAnything` (`spawner.go:182`) | with two dead channels the second index is past the end of the slice, which has just been shortened: a panic |
| `ws_answer` | `AnswerInTimeCounts` (`WS.md:93`) | `filterChan` wakes another packet than the one answered, which is decided by its timer |

`CHECK_DEADLOCK FALSE` is in every configuration because all of these systems may
really stop: goroutines end, subscribers leave, a panic ends the program. What
must *not* stop early is stated by the liveness properties.

## 4. Bounds, and why they are enough

- *Spawner, safety.* Two listeners are needed for races in `AddConnection` and for
  one listener's death during another's call; two connections so that the pruner
  can delete one and meet the other under way. One retry shows a
  second run of a listener and the exhausted count; the real bound of three is in
  `spawner_live` and, for every bound, in the proofs. One `Close` is enough: its only
  state is its own `upc`, and a second finds the context already dead.
- *Spawner, liveness.* One listener: a listener waits for another only at
  `currentIdLock`, which is held over steps that are always enabled.
- *Commands.* Two connections are what an order and a partial failure need, two requests what a
  conflict needs; one of them goes through both sides, so that it takes the lock twice. The
  wishes are fixed per request to keep the instance small (`MCWishes`); both requests may inject
  into all, and the second has a wish of each other kind. The proofs are for all wishes. A
  filter calls back once for a packet; more calls are more of the same.
- *RecvChans.* Two channels let the pruner use a second index after a removal, and move a living
  channel into the place of a dead one; what three of them do is in the proofs. Two packets are
  what an order needs. Each subscriber comes once and each sender publishes once: a channel is
  never reused by the code, and nothing is remembered from one packet to the next.
- *FilterSlot.* Two filters take over from each other; three senders free at once,
  call and inject at once. Senders repeat without end.
- *WsFilter.* Two packets show a misdirected wake-up, the third an injected one that
  uses the connection and not the map.
- *Relay.* `MaxChunks` bounds the chunks of a side. Two are under way at most on each side, so
  three show the one after those. The three of `FewAfterDeath` is reached.
- *Udp.* Three datagrams are two of a client, over two connections, and one more, of the server or of
  the other client. Two connections are what a handover needs; a third would meet
  the listener in the same state as the second.
- *ApiKeys.* Three requests make a chain of two keys, or one key and a WebSocket, or work at
  once. Two ordinary permissions stand for the five, which one line of
  `createNewPerms` each treats alike. A wish is any set of named bits, with and without the others.
  That two goroutines draw the same new number at once, one case in 2^63, is left out.

Symmetry is used only in runs without liveness properties, for sets whose members the modules
never tell apart.

## 5. Fairness

Weak fairness is asked of the steps a running goroutine takes; a goroutine that is not
blocked is scheduled in the end. Strong fairness is asked of taking a mutex (Go's
mutexes are starvation-free: after a millisecond a waiter is handed the lock) and
of the pruner's `PrunerExit`, one ready case of a `select` that chooses
uniformly among the ready ones. Where the code has a timer, its expiry is fair:
the tick of the pruner, the deadline of a read, the filter's two seconds.

Not assumed is what the code does not see to. A filter has no limit of time: a WebSocket's
begins with a `ws.Write` that has no deadline (`websocket.go:91,207`), a script's is a script. The writes of a
`TcpProxy` have none either (`tcp.go:74,85`), and `Cancel` closes no socket. So no module asks
fairness of a filter's answer or of a write, but for the writes of a WebSocket whose client has gone
or whose context is done, which end with an error. And since a
`SendToAll*` asks the filter and writes while it has `connectionLock`, none asks that this lock is ever
given back: in `Spawner` `SendAllUnlock` is not fair, in `RecvChans` and `Udp`, which do not have the
lock, the step that takes it is not.

A liveness property therefore says who is to blame: what should come to an end does, or from some moment on
somebody is stuck for ever. Where what is waited for is final once it has come, that is `<>[]waiting => <>[]stuck`,
and else `P ~> (Q \/ []stuck)`.

| property | unless, for ever, |
|---|---|
| `DeadPruned`, `EverythingStops` | a `SendToAll*` has `connectionLock` (`busy`) |
| `DeadChannelPruned` | the pruner waits for `connectionLock` |
| `AcceptsAgain`, `ListenerEnds` | the listener waits for `connectionLock` |
| `RequestsEnd` | the request is with its own filter or write, or a `SendToAll*` that has the lock is |
| `HandlerEnds` | `handlePacket` is with its filter or write |
| `EveryPacketDecided` | the packet's goroutine writes to a client that stays connected |
| `PublishEnds` | no exception: `rcChanLock` is held over no call that may block |

"For ever" is one uninterrupted stay: to be held up again and again is not enough, and who was
held up goes on when the other one does.

Never assumed: that a client connects, reads, answers or leaves; that a
connection dies; that anybody calls `Close`, publishes, or goes on with a `Close`; that `handlePacket` prefers its
context to its packets. `HandlerEnds` holds without the last, because each
`listen` looks at the context before it reads again.
In `Spawner` a listener is assumed to return once its context is dead, which is the loop
condition of `TcpListener` and `UdpListener`, while `connectionLock` is to be had; `Udp` shows it for the
latter (`ListenerEnds`): its reads have a deadline, its sleep ends. `ReadChunk` and the others of one
`listen` share one fairness condition: some of them happens, none in particular.

## 6. What is proved

For every value of the constants, under the named assumptions of the modules: the
set of listeners is finite, `MaxRetries` and `MaxChunks` are natural numbers,
`NoProxy` is not a proxy, the set of keys is not empty, the initial keys are keys with
permissions, scripts are subscribers, a wish is a set of commands, a goroutine that sends is not one
that sets a filter, the server is not a client, the default verdict is a verdict. Proxies, callers,
injectors, keys, requests, connections, subscribers, filters, senders, clients and packets may be
infinite sets.

| theorem | says |
|---|---|
| `SpawnerProofs!Inductive` | `Spec => []IInv` |
| `TypeCorrect`, `WgSafe`, `IdsUnique`, `DeathReachesAll`, `ListenersFate`, `CloseMeansEmpty` | the invariants `TypeOK`, `WgNeverNegative` (a consequence of `IInv` without a run of its own), `UniqueIds`, `NoLiveProxyAfterDeath`, `ListenerFate`, `CloseOkMeansEmpty` |
| `SpawnerProofs!Refinement`, `WindsDown` | `TableSpec`, `RunsOut` |
| `RelayProofs!Inductive`, `TypeCorrect`, `LittleAfterDeath` | `IInv`, `TypeOK`, `FewAfterDeath` |
| `RelayProofs!Refinement`, `WindsDown` | `TwoPipes`, `RunsOut` |
| `ApiKeysProofs!Inductive`, `TypeCorrect`, `NoKeyEscalates`, `SocketsWithinKeys`, `FinalKeys` | `IInv`, `TypeOK`, `NoEscalation`, `SocketWithinKey`, `KeysAreFinal` |
| `ApiKeysProofs!KeysRooted`, `Refinement` | `Rooted`: however long the chain that led to it, a key can do no more than a first key that makes keys; `TableSpec` |
| `RecvChansProofs!Inductive`, `TypeCorrect`, `OneOrder`, `LiveStays`, `WhatStopsIt`, `NotChosen`, `Refinement` | `IInv`, `TypeOK`, `SameOrder`, `LiveStaysSubscribed`, `CrashCauses`, `ClosedNotChosen`, `FeedSpec` |
| `CommandsProofs!Inductive`, `TypeCorrect`, `OneOrder`, `NobodyLeftOut`, `ClosedIsClosed`, `Refinement` | `IInv`, `TypeOK`, `AllSameOrder`, `AllReached`, `NothingAfterClose`, `BothFeeds` |
| `FilterSlotProofs!Inductive`, `TypeCorrect`, `Accepted`, `Freed`, `OrphansSent`, `NoEarlyCrash` | `IInv`, `TypeOK`, `AcceptedStays`, `FreedByNextPacket`, `OrphansAreSent`, `CrashOnlyAfterDeath` |
| `UdpProofs!Inductive`, `TypeCorrect`, `LiveSocket`, `OneAtASocket`, `NoneOvertaken`, `Refinement` | `IInv`, `TypeOK`, `LiveKeepsSocket`, `OneReader`, `InOrder`, `SessionSpec` |
| `WsFilterProofs!Inductive`, `TypeCorrect`, `OnlyIfIgnored`, `AnswersStay`, `Refinement` | `IInv`, `TypeOK`, `StuckOnlyIfIgnored`, `AnswerIsFinal`, `VerdictSpec` |

The argument for the spawner. That the WaitGroup is not negative is not
inductive: one has to know what it counts. `WgInv` says it: the listeners between their `wg.Add` and
their `wg.Done`, plus the pruner, plus the table, *minus* the connections that are
in the table, or were, and whose listener has still to call `wg.Add`. The last term
is at most the second-last listener term, since that listener is itself counted; so
the sum is never negative. This is why the late `wg.Add(1)` in `AddConnection` does no
harm. `CloseOkMeansEmpty` follows from the same count, together with the fact that a dead context lets
no listener into `AddConnection`; it needs `PrunerInv`, that nothing has left the table
before the pruner has started, because once it has, the counter is never zero again.
`IdInv` ties the table to the ids and the id in the making to `currentId`, with `AddInv`
(each listener has a proxy of its own, one container is made at a time) for the
mutual exclusion. `ContextInv` carries the death of the context to its children and
remembers who must have caused it. The proof that a step keeps `IInv` is made one part of
`IInv` at a time. The refinement maps the entry of a connection to `Enter`, the cancellation of the spawner to
`Fall`, every other cancellation to `Die`, a deletion by the pruner to `Remove`, a `Close` that
returns nil to `Close`, and all other steps to a stutter. `Enter` asks that nothing is closed, which
is `CloseOkMeansEmpty`, and that a late connection is dead, which is `ContextInv`: its context was
made from one that is.

`RunsOut` is what remains of "it ends" without fairness. A dead context stays dead with the same
cause, and `StepsLeft` counts what a listener can still do: a retry uses up twelve, more than a
whole run takes, and no new `AddConnection` gets past its check. What
it does not say, that these steps are taken, is `EverythingStops`.

The argument for the relay. `LateInv` adds to the packets already relayed after death
the one in `handlePacket`'s hands and one for each `listen` that has passed its
check; the sum cannot grow, since a `listen` that comes back to the check ends. The
refinement needs `TypeOK` only: a packet handed over leaves the offer of `listen` and
enters the hands of `handlePacket` in one step, so that what is under way (`Under`)
does not change. `RunsOut` weighs a step of `listen` three times as much as one of `handlePacket`, since
each packet handed over gives `handlePacket` two more; it needs no fairness, and so does not
depend on which case `select` prefers.

The argument for the keys. `NoEscalation` is about keys and says nothing of the requests that
are about to make some. `Checked` says that what the endpoint asked of a request's key still holds,
`Granted` that what a request is going to enter is within its key, and `Fresh` that the number it
has drawn is still unused. `createNewPerms` looks for every permission but "make", which only
`Checked` gives; `Fresh` is why `Add` changes no other key, and so why the checks of the
others stay true. `Rooted` follows a chain of keys to its end without a recursion: a new key is within its maker,
which is a first key or is itself rooted. The refinement shows the moment in which a key is made: between the
check of its request and `Add` its maker's permissions cannot have changed.

The argument for the receive channels. `MutexInv` says who has `rcChanLock`; with it, a sender that
has been given its turn sees the slice change at its end only, so that `SendInv` holds: whoever has
its packet is behind its index. Hence a packet that overtakes another one somewhere finds that one
done (`OvertakenInv`), and two orders cannot differ. The pruner's indices are taken without the
lock, and yet they point at dead channels, or past the end (`PrunerInv`): nothing else shortens the
slice, and the channel that is moved into a hole comes from the end, where it is dead only if the
index of the end is among those still to come. An index past the end therefore takes a second
index of the same tick, which is `CrashCauses`: channels that die one tick apart do no harm. The rest of
`CrashCauses` is `SoloInv`: a `Close` goes through the array under a slice the pruner is changing, but as long as it
is alone and no subscriber has left, the dead channels are in places it has passed. So the pruner moves channels
to such places only, and none is met twice. `ClosedNotChosen` needs
only that what is closed was cancelled (`CloseInv`). The refinement needs `MutexInv` for the turns, and the part of `SendInv`
that says who has a packet already for "at most once".

The argument for the requests. `LockInv` ties the lock to the one `SendToAll*` in its loop.
`OnceInv` says that a packet has not been where its request has still to go (`Ahead`), and
`ReachInv` that what the request has left behind (`Behind`) has the packet, or an error, or is
dead; as `todo` was the table when the lock was taken, and nothing enters the table before it is
given back, at the end of the loop that is `AllReached`. `OrderInv` says that a request which was
overtaken at one connection is no longer in a loop over that side: it had the lock first. The
refinement adds `ForInv`, that a request for all goes only where it was to go, so that a side it
has not come to yet has not seen it.

The argument for the filter slot. `Alone` spells out what `raced` remembers: unless two goroutines
raced, the one that sets a filter is the only one at the slot. `Slot` states the order in which
senders empty it (cancel function, context, callback), which any number of them keep together, as
each only writes nil; so whoever finds no callback finds nothing. `Owner` follows a filter through
its three writes, and has it that while an accepted one lives nobody is at the slot, because all who look
find its context alive. `Life` is the same for the time in which no filter has died, raced or not: then
nobody frees the slot, and a context is there before a callback is. `Orphan` needs only
that a callback is called after a look at a context, of whichever filter.

The argument for UDP. `Sockets` says that each connection has a socket of its own, that only the
last one made can have the latest, and that the listener then does nothing but learn its id and wait for
its death. Hence it closes a socket nobody alive has, and reads from one nobody has. `Order`
says that every datagram on its way through the latest socket is behind all that were sent and
ahead of all that wait in it (`Ahead`); one that is on its way through an older socket is never
written, and need not be in order. The listener's first datagram is `Ahead`, too, and becomes the
first of the connection. These parts are `PathInv`; the refinement adds `Routes`, that a connection has
datagrams of its own client and of the server only. Since a connection with an older socket writes
nothing, what leaves is always for the client served last.

The argument for the WebSocket. Answers and wake-ups are counted: the packets that an answer has
decided, or that are awake, are no more than those with an answer in the map, and one fewer while
`listen` has a wake-up to give (`CountInv`). A packet that was woken up for another's answer gives
its turn back. So when `listen` offers and nobody is left to take it, some packet has an answer and was
not decided by it: it came too late, or its wake-up went to another packet. `MapInv` keeps packets that were not sent yet out of the count. For the refinement
`InjectedInv` says that an injected packet never enters the map. An entry goes from "wait" to an answer
and never back, so that a goroutine that was woken up and finds an answer returns what was heard
first; one that ends without an answer returns the default.

Model-checked only: liveness (fairness and ENABLED are out of the prover's reach): `DeadPruned`,
`EverythingStops`, `RequestsEnd`, `PublishEnds`, `DeadChannelPruned`, `EveryPacketDecided`,
`HandlerEnds`, `AcceptsAgain`, `ListenerEnds`. Of the three runs that find a counterexample nothing is proved.

## 7. What the code does not promise

Found while modelling, apart from the three runs above. The models do what the code
does; no property claims the contrary.

- A closed spawner's table is not emptied: the pruner leaves when the context dies
  (`spawner.go:222`), connections or not, while a comment at line 273 expects it to call
  `wg.Done` for them. `CloseOk` is therefore reached only when the pruner has not started yet.
- A listener is retried three times and killed at the fourth `ErrProxyRetry`
  (`spawner.go:89`), where `errors.go:9` says three.
- A `Close` reaches a listener as the cause `ErrSpawnerClosedOk`, which it logs and reports
  through `HandleError` like a failure (`spawner.go:102-105`); `interfaces.go:41` says
  that no error is logged for it.
- The channel of a subscriber that leaves is never closed by the pruner, only by `Close`
  (compare `interfaces.go:94`). After `Close`, `recv` is given zero packets without end, and sends them
  to its client as empty packets of connection 0, if there is that one.
- `SendToAll*` hold `connectionLock` over everything they do (`spawner.go:332`). A filter script that
  calls `get_proxy` for an injected packet waits for its own caller, and a TCP peer that does
  not read stops the write, which has no deadline and which `Cancel` does not interrupt, as it closes no socket;
  so does a WebSocket filter whose client does not read, and a script that does not end.
  Then `AddConnection`, the pruner, `GetProxy`, the UDP listener and the status wait, too. The liveness properties
  have this as their exception (section 5). While the lock is held, `recv` of a WebSocket waits in `GetProxy`
  (`websocket.go:126`) and is not offered the packets of other connections.
- The advice at `spawner.go:328` to use `GetAllProxies` and `SendToClient` instead gives
  `AllSameOrder` up: two requests may then overtake each other.
- Comments at `proxy.go:66,89` say that an injected packet is not sent if the callback says no;
  `HandleSend` sends it (`spawner.go:141`), and `LUA.md:66` says so.
- `inject_to_both` of Lua sends to the clients only (`ezp_lua/spawner.go:104-118`, compare
  `LUA.md:124`).
- `get_packets` of Lua derives a context from a nil one (`ezp_lua/spawner.go:139`) and so always
  fails. All goroutines that call a filter script share one Lua state without a lock
  (`callback.go:39`), and it is closed when the script ends (`binding.go:126`).
- A filter script has no time limit, where `LUA.md:62` promises 500 ms and a drop by default; one that
  fails lets its packet through (`callback.go:47,55`). A script without callbacks is not refused, since
  its missing `EzpFilter` is Lua's nil and not Go's (`callback.go:135`).
- `Close` closes the channels without `rcChanLock` (`spawner.go:267-270`): a
  `HandleSend` between its check and its send, or a second `Close`, panics. So may the first, if a
  subscriber had left: the pruner fills its place with the last channel, and `Close` meets that one there and
  again at its old place.
- Two filters may both be accepted when `TrySetFilterCallback` is called twice at
  once, or while a sender frees the slot (`spawner.go:299-314`, `API.md:133`); hence
  `~raced` in `AcceptedStays` and `FreedByNextPacket`. The Go memory model gives even
  less than the model's program order.
- Two senders that find the context of the filter dead at once both free the slot
  (`spawner.go:130-135`); one then uses what the other has set to nil, and panics.
  `spawner_test.go:627` tries one sender. `CrashOnlyAfterDeath` says that it takes a dead filter.
- `listen` of a TCP or UDP proxy offers a packet on `pktChan` without looking at its context
  (`tcp.go:55`, `udp.go:26,62`), so it waits for ever when `handlePacket` has ended; compare
  `interfaces.go:86`. The sockets of a closed proxy stay open.
- When a UDP client is cut off and another one comes, a late reply of the server to the first is relayed to
  the second: a connection knows the server by its address only (`udp.go:53-56`).
- A listener that ends leaves its UDP socket open (`udp.go:151-203`).
- `listen` of a filtering WebSocket is blocked after an answer that lost the race with
  its packet's timer (`ws_client.go:127`), until another packet waits; and so it may be when every answer
  was in time, but a wake-up went to another packet, which used it for its own answer, so that the first
  packet timed out. `StuckOnlyIfIgnored` says that it takes an answer that was ignored.
- A client that filters, stays connected and does not read holds its packet, and the goroutine that brought
  it: the writes before the timer and after it have no deadline (`websocket.go:91,221,238`).
- The table of keys (`auth.go:69,146`) and `filterMap` (`websocket.go:204`) are shared
  without a lock: `MapFault`. A packet may be sent on a connection that is not there yet (`websocket.go:355`), or that
  never will be, since the handshake or a parameter was bad (`websocket.go:369-380`): `SendNil`.

## 8. What is not modelled, and the plan

Not modelled for good: configuration, program entry, mocks, the integration
program, the Python clients and examples (sequential, generated or external);
statistics and logging; the contents of packets and messages; the Lua interpreter and the loading of
scripts. A filter that is a script is one more filter of `FilterSlot`: when its function fails it cancels its
context and lets the packet through, which is `Leave` followed by `Verdict`.

Next, in this order:

1. Composition of `Spawner` and `Relay` over one context, for the end-to-end
   statement that after `Close` no connection relays more than three packets.
2. What is left of liveness without fairness (`RunsOut` of `Spawner` and `Relay`) for `Udp`,
   `RecvChans` and `Commands`.
3. An abstract specification of the filter slot, for the runs in which no two goroutines race.
4. `TcpListener`: `Accept` and `Dial` with their sockets.

Modules that carry proofs use no RECURSIVE operator; constants have named
assumptions; invariants are conjunctions of named parts.
