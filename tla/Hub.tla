--------------------------------- MODULE Hub ---------------------------------
(***************************************************************************)
(* The WebSocket hub (api/ws.go).  One goroutine owns the set of clients;  *)
(* handlers, the watcher and the clients' read pumps send it messages, and *)
(* every client has a bounded buffer that its write pump empties.  A       *)
(* client whose buffer is full is dropped, never waited for.               *)
(*                                                                         *)
(* A message is its number in the order of the hub.                        *)
(***************************************************************************)
EXTENDS Integers, Sequences, FiniteSets

CONSTANTS
  Sockets,     \* the WebSocket connections of a behaviour
  Posters,     \* goroutines of the server that broadcast once
  QueueSize,   \* capacity of Hub.broadcast
  BufferSize,  \* capacity of Client.send
  MaxInputs    \* messages each client may send: a bound of the model

ASSUME HubAssumption == QueueSize \in Nat \ {0} /\ BufferSize \in Nat \ {0} /\ MaxInputs \in Nat

VARIABLES
  loop,       \* whether Hub.Run runs
  done,       \* Hub.done is closed
  members,    \* Hub.clients
  queue,      \* the number of messages in Hub.broadcast
  sent,       \* history: messages the hub has handed out
  buffer,     \* of each client: the messages in Client.send
  closed,     \* of each client: how often Client.send was closed
  conn,       \* of each client: whether the connection is open
  reader,     \* of each client: its handler, then its read pump
  writer,     \* of each client: its write pump
  poster,     \* of each poster
  inputs,     \* of each client: the messages it has sent
  since,      \* history: of each client, the messages handed out before it came
  got         \* history: of each client, the messages that reached it

hubVars == <<loop, done, members, queue, sent, buffer, closed, conn, reader, writer,
             poster, inputs, since, got>>

HubTypeOK ==
  /\ loop \in BOOLEAN /\ done \in BOOLEAN
  /\ members \subseteq Sockets /\ queue \in 0 .. QueueSize /\ sent \in Nat
  /\ buffer \in [Sockets -> Seq(Nat)] /\ \A c \in Sockets : Len(buffer[c]) <= BufferSize
  /\ closed \in [Sockets -> Nat] /\ conn \in [Sockets -> BOOLEAN]
  /\ reader \in [Sockets -> {"none", "register", "reading", "forward", "unregister", "gone"}]
  /\ writer \in [Sockets -> {"none", "writing", "gone"}]
  /\ poster \in [Posters -> {"idle", "sending", "sent"}]
  /\ inputs \in [Sockets -> 0 .. MaxInputs]
  /\ since \in [Sockets -> Nat] /\ got \in [Sockets -> Seq(Nat)]

(* Client.send is closed when a client leaves the set. *)
Leave(leaving) ==
  /\ members' = members \ leaving
  /\ closed' = [c \in Sockets |-> IF c \in leaving THEN closed[c] + 1 ELSE closed[c]]

-----------------------------------------------------------------------------
(* The hub's loop: each branch of its select. *)

Shutdown ==
  /\ loop /\ done /\ loop' = FALSE
  /\ Leave(members)
  /\ UNCHANGED <<done, queue, sent, buffer, conn, reader, writer, poster, inputs, since, got>>

RegisterClient(c) ==
  /\ loop /\ reader[c] = "register"
  /\ members' = members \union {c} /\ since' = [since EXCEPT ![c] = sent]
  /\ reader' = [reader EXCEPT ![c] = "reading"] /\ writer' = [writer EXCEPT ![c] = "writing"]
  /\ UNCHANGED <<loop, done, queue, sent, buffer, closed, conn, poster, inputs, got>>

(* Faulty variant: a client that was dropped is closed again. *)
UnregisterTwice(c) ==
  /\ loop /\ reader[c] = "unregister"
  /\ Leave({c})
  /\ reader' = [reader EXCEPT ![c] = "gone"] /\ conn' = [conn EXCEPT ![c] = FALSE]
  /\ UNCHANGED <<loop, done, queue, sent, buffer, writer, poster, inputs, since, got>>

UnregisterClient(c) ==
  /\ loop /\ reader[c] = "unregister"
  /\ Leave(members \intersect {c})
  /\ reader' = [reader EXCEPT ![c] = "gone"] /\ conn' = [conn EXCEPT ![c] = FALSE]
  /\ UNCHANGED <<loop, done, queue, sent, buffer, writer, poster, inputs, since, got>>

HandOut ==
  LET slow == {c \in members : Len(buffer[c]) = BufferSize} IN
  /\ loop /\ queue > 0 /\ queue' = queue - 1 /\ sent' = sent + 1
  /\ buffer' = [c \in Sockets |-> IF c \in members \ slow THEN Append(buffer[c], sent + 1) ELSE buffer[c]]
  /\ Leave(slow)
  /\ UNCHANGED <<loop, done, conn, reader, writer, poster, inputs, since, got>>

CloseHub ==
  /\ ~done /\ done' = TRUE
  /\ UNCHANGED <<loop, members, queue, sent, buffer, closed, conn, reader, writer, poster, inputs, since, got>>

-----------------------------------------------------------------------------
(* Senders. *)

Post(b) ==
  /\ poster[b] = "idle" /\ poster' = [poster EXCEPT ![b] = "sending"]
  /\ UNCHANGED <<loop, done, members, queue, sent, buffer, closed, conn, reader, writer, inputs, since, got>>

(* Faulty variant: a broadcast does not give up when the hub is closed. *)
BroadcastWaits(b) ==
  /\ poster[b] = "sending" /\ poster' = [poster EXCEPT ![b] = "sent"]
  /\ queue < QueueSize /\ queue' = queue + 1
  /\ UNCHANGED <<loop, done, members, sent, buffer, closed, conn, reader, writer, inputs, since, got>>

(* Hub.Broadcast: queued, or given up when the hub is closed. *)
Broadcast(b) ==
  /\ poster[b] = "sending" /\ poster' = [poster EXCEPT ![b] = "sent"]
  /\ \/ queue < QueueSize /\ queue' = queue + 1
     \/ done /\ UNCHANGED queue
  /\ UNCHANGED <<loop, done, members, sent, buffer, closed, conn, reader, writer, inputs, since, got>>

(* ServeWS: the upgraded connection waits to be registered. *)
Connect(c) ==
  /\ reader[c] = "none" /\ reader' = [reader EXCEPT ![c] = "register"]
  /\ conn' = [conn EXCEPT ![c] = TRUE]
  /\ UNCHANGED <<loop, done, members, queue, sent, buffer, closed, writer, poster, inputs, since, got>>

ConnectLate(c) ==
  /\ reader[c] = "register" /\ done
  /\ reader' = [reader EXCEPT ![c] = "gone"] /\ conn' = [conn EXCEPT ![c] = FALSE]
  /\ UNCHANGED <<loop, done, members, queue, sent, buffer, closed, writer, poster, inputs, since, got>>

(* readPump: a message of an allowed type goes to the hub; any other is    *)
(* dropped; an error ends the pump.                                        *)
Receive(c) ==
  /\ reader[c] = "reading" /\ conn[c] /\ inputs[c] < MaxInputs
  /\ inputs' = [inputs EXCEPT ![c] = @ + 1]
  /\ \E allowed \in BOOLEAN :
       reader' = [reader EXCEPT ![c] = IF allowed THEN "forward" ELSE "reading"]
  /\ UNCHANGED <<loop, done, members, queue, sent, buffer, closed, conn, writer, poster, since, got>>

Forward(c) ==
  /\ reader[c] = "forward"
  /\ \/ queue < QueueSize /\ queue' = queue + 1 /\ reader' = [reader EXCEPT ![c] = "reading"]
     \/ done /\ reader' = [reader EXCEPT ![c] = "unregister"] /\ UNCHANGED queue
  /\ UNCHANGED <<loop, done, members, sent, buffer, closed, conn, writer, poster, inputs, since, got>>

ReadFails(c) ==
  /\ reader[c] = "reading" /\ ~conn[c]
  /\ reader' = [reader EXCEPT ![c] = "unregister"]
  /\ UNCHANGED <<loop, done, members, queue, sent, buffer, closed, conn, writer, poster, inputs, since, got>>

LeaveLate(c) ==
  /\ reader[c] = "unregister" /\ done
  /\ reader' = [reader EXCEPT ![c] = "gone"] /\ conn' = [conn EXCEPT ![c] = FALSE]
  /\ UNCHANGED <<loop, done, members, queue, sent, buffer, closed, writer, poster, inputs, since, got>>

(* writePump: writes what is buffered; ends on an error, or when the       *)
(* channel is closed and empty; and closes the connection.  A write has no *)
(* deadline: it may wait for a client that does not read.                  *)
Deliver(c) ==
  /\ writer[c] = "writing" /\ buffer[c] # <<>>
  /\ buffer' = [buffer EXCEPT ![c] = Tail(@)]
  /\ IF conn[c] THEN got' = [got EXCEPT ![c] = Append(@, Head(buffer[c]))] /\ UNCHANGED <<writer, conn>>
     ELSE writer' = [writer EXCEPT ![c] = "gone"] /\ UNCHANGED <<got, conn>>
  /\ UNCHANGED <<loop, done, members, queue, sent, closed, reader, poster, inputs, since>>

WriterEnds(c) ==
  /\ writer[c] = "writing" /\ buffer[c] = <<>> /\ closed[c] > 0
  /\ writer' = [writer EXCEPT ![c] = "gone"] /\ conn' = [conn EXCEPT ![c] = FALSE]
  /\ UNCHANGED <<loop, done, members, queue, sent, buffer, closed, reader, poster, inputs, since, got>>

(* The network or the browser closes the connection. *)
Drop(c) ==
  /\ conn[c] /\ conn' = [conn EXCEPT ![c] = FALSE]
  /\ UNCHANGED <<loop, done, members, queue, sent, buffer, closed, reader, writer, poster, inputs, since, got>>

HubInit ==
  /\ loop = TRUE /\ done = FALSE /\ members = {} /\ queue = 0 /\ sent = 0
  /\ buffer = [c \in Sockets |-> <<>>] /\ closed = [c \in Sockets |-> 0]
  /\ conn = [c \in Sockets |-> FALSE] /\ reader = [c \in Sockets |-> "none"]
  /\ writer = [c \in Sockets |-> "none"] /\ poster = [b \in Posters |-> "idle"]
  /\ inputs = [c \in Sockets |-> 0] /\ since = [c \in Sockets |-> 0] /\ got = [c \in Sockets |-> <<>>]

Run == Shutdown \/ HandOut \/ \E c \in Sockets : RegisterClient(c) \/ UnregisterClient(c)

Pump(c) == ConnectLate(c) \/ Forward(c) \/ ReadFails(c) \/ LeaveLate(c) \/ WriterEnds(c)

HubNext ==
  \/ Run \/ CloseHub
  \/ \E b \in Posters : Post(b) \/ Broadcast(b)
  \/ \E c \in Sockets : Connect(c) \/ Receive(c) \/ Pump(c) \/ Deliver(c) \/ Drop(c)

(* Each goroutine runs on, and select takes a branch that stays ready; a    *)
(* write to a closed connection fails, one to an open one may never end.   *)
HubFairness ==
  /\ WF_hubVars(Shutdown) /\ WF_hubVars(HandOut)
  /\ \A c \in Sockets : WF_hubVars(RegisterClient(c)) /\ WF_hubVars(UnregisterClient(c))
                         /\ WF_hubVars(Pump(c)) /\ WF_hubVars(Deliver(c) /\ ~conn[c])
  /\ \A b \in Posters : WF_hubVars(Broadcast(b))

-----------------------------------------------------------------------------
(* A client sees every message since it was registered, in order and       *)
(* without a gap, until it is dropped; its channel is closed exactly once, *)
(* when it leaves the set, and never sent on afterwards.                   *)
HubDelivers ==
  /\ \A c \in Sockets :
       /\ closed[c] = (IF c \notin members /\ writer[c] # "none" THEN 1 ELSE 0)
       /\ \A i \in DOMAIN got[c] : got[c][i] = since[c] + i
       /\ c \in members /\ writer[c] = "writing" => since[c] + Len(got[c] \o buffer[c]) = sent
  /\ ~loop => members = {}

(* Closing the hub releases everyone: broadcasters, handlers that wait to  *)
(* register, read pumps, and write pumps but one whose client keeps its    *)
(* connection open without reading.                                        *)
Stuck(c) == conn[c] /\ buffer[c] # <<>>

Released ==
  /\ \A b \in Posters : poster[b] # "sending"
  /\ \A c \in Sockets : reader[c] \notin {"register", "forward", "unregister"} /\ (writer[c] = "writing" => Stuck(c))

HubReleases == done ~> (members = {} /\ Released)
=============================================================================
