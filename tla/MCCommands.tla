---------------------------- MODULE MCCommands ----------------------------
(* A small instance of Commands for TLC.                                   *)
EXTENDS Commands, TLC

CONSTANTS ws, http, c1

Inject(kind, target, first, both) ==
  [kind |-> kind, target |-> target, first |-> first, both |-> both]
Close(kind, target) == [kind |-> kind, target |-> target]

(* A WebSocket, which sends to the servers first, and another request: an  *)
(* inject of the endpoint, which sends to the client first, a script's for *)
(* all clients, a close, the status.                                       *)
MCWishes ==
  ws   :> {Inject("sendAll", NoConn, "server", TRUE), Close("closeAll", NoConn)}
  @@
  http :> {Inject("sendAll", NoConn, "client", FALSE), Inject("sendOne", c1, "client", TRUE),
           Close("closeOne", c1), Close("list", NoConn)}
=============================================================================
